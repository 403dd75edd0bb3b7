# TLA+ models and proofs for esp32-button

The repository holds an ESP-IDF button component (`agent/embedded/`, C) and the
backend a device talks to (`backend/`, Python/FastAPI). This directory models the
parts of both that keep state and run concurrently, checks them with TLC, and
proves the central results for every value of the constants with TLAPS.

## 1. The system

### The embedded component

    pin --edge--> ISR --start/reset--> timer queue --> timer daemon
                                                          |  debounce callback (toggle.c)
                                                          v
                                       button_toggle_callback (button.c)
                                                          |  stop / change period
                                                          v
                                       event timer --> button_event_timer_callback --> client

| Component | State | Operations | What is hard | What makes it correct |
|---|---|---|---|---|
| Gesture machine, `button.c` callbacks | `press_count`, `timer_mode`, a one-shot event timer | press, release, timer expiry | the timer is only reached through a queue with block time 0: commands are late or refused, `xTimerIsTimerActive` reads the past | each press is reported once, under the right name, not too early, and is reported at all |
| Toggle layer, `toggle.c` | per GPIO: slot (callback, `last_high`, `armed`, timer), `toggle_map`, `toggle_claimed`; `toggles_lock` | ISR, debounce callback, `toggle_create`, `toggle_delete`, `toggle_sync_state` | ISR, daemon and tasks share the slot without a lock; creation can fail at seven places; deletion with a timer command still queued | a GPIO has one owner; no failure leaks the claim; no edge is lost |
| Button registry, `button_create`, `button_destroy` | `buttons_lock` (made by the first call), `button_claimed`, `registered_buttons`, slot | create, destroy | two mutexes, work outside the lock under a claim, failures | one owner; button and toggle come and go together; calls return |
| GPIO port, `port.c` | none | level, interrupt, handler | - | modelled only through its callers |

Interaction: `button_create` calls `toggle_create` and `toggle_sync_state`,
`button_destroy` calls `toggle_delete` while it holds `buttons_lock`; `toggle.c`
calls `button_toggle_callback` from the timer daemon. All timers share one daemon.

### The backend

| Component | State | Operations | What is hard | What makes it correct |
|---|---|---|---|---|
| Device protocol service | a row of `devices`, the rows of `device_metrics` and `device_logs` | register, heartbeat, fetch_config, push_metrics, push_logs | load, change and save are three steps other requests may come between | a registration costs no heartbeat; the status is the last heartbeat's |
| Settings service | rows of `settings` and `audit_logs` | create_setting, rollback | read, insert and log are separate commits; a worker may die between them | versions are ordered and without gaps; a change is logged once, with what it changed |
| Auth service | the user's `failed_login_attempts` and `is_locked`; the rows of `refresh_tokens` | login, refresh, logout | a read, a slow hash, and one or two commits; a worker may die between them | five failures lock and fewer do not, nothing unlocks; no session is lost or gained unaccounted for |
| Schema and migrations, `backend/alembic`, `entities.py` | the schema, `alembic_version`, the triggers on `audit_logs` | upgrade and downgrade of 0001 to 0003 | written by hand in both directions, run on tables that have rows, by several instances at a time | a version has one schema; no run fails alone; the newest is that of the models; no UPDATE or DELETE touches the audit log |
| Permissions, app wiring, metrics, Celery worker | none of their own | - | - | not modelled (section 6) |

Interaction: the services share one PostgreSQL database and nothing else; every
write is a transaction of its own. Migrations change the tables that the services
work on. A migration waits for transactions that have read a table it alters.

`PROJECT.json` lists every component with its status, and under "hazards" what in
this code a test would hardly reach, at its line, with the property that covers it
or the reason why none does. The host tests replace FreeRTOS by synchronous
fakes, so none of the interleavings below occurs in them.

## 2. Modules

| Module | Models |
|---|---|
| `Gesture` | the abstract promise of a button: presses, releases, elapsed time, reports; no timer, no queue |
| `Button` | `button_toggle_callback`, `button_event_timer_callback`, `button_fire_event`, the event timer and its command queue |
| `ButtonProofs` | proofs about `Button`, and that it implements `Gesture` |
| `Registry` | the abstract promise of `button_create` and `button_destroy` for one GPIO: each call takes effect at one moment; no mutex, no claim |
| `Toggle` | all of `toggle.c` for one GPIO, with pin, ISR, driver, timer queue and daemon |
| `ToggleProofs` | proofs about `Toggle`, whoever calls it |
| `ToggleEdgeProofs` | proofs about `Toggle` when its calls follow one another |
| `ButtonLifecycle` | `button_create` and `button_destroy` for one GPIO, the timer daemon that calls back into the slot meanwhile, and as much of the toggle and the gesture as they tell apart |
| `ButtonLifecycleProofs` | proofs about `ButtonLifecycle`, and that it implements `Registry` |
| `DeviceProtocol` | `register`, `heartbeat`, `derive_device_status`, `push_metrics`, `push_logs` for one device |
| `DeviceProtocolProofs` | proofs about `DeviceProtocol` |
| `SettingsService` | `create_setting`, `rollback` for one key |
| `SettingsServiceProofs` | proofs about `SettingsService` |
| `AuthService` | `login`, `refresh`, `logout` for one user |
| `AuthServiceProofs` | proofs about `AuthService` |
| `Migrations` | the statements of the three migrations, up and down, runs of them, the models |
| `Deployment` | `AuthService` and `Migrations` composed |
| `DeploymentProofs` | that `Deployment` implements `AuthService` |
| `MC*` | what each model is instantiated with for TLC (`AllConfigs` in `MCButton`) |

Conventions. Variables and actions keep the source's names where TLA+ allows it.
An action is what the code does between two points where another actor can get
in: one statement for code that shares its data unlocked, one callback in `Button`
(callbacks never interleave: the daemon runs them all), one SQL transaction in the
backend. Variables marked *history* are read by properties only. A definition whose
comment says "Fault" models no code: it is its neighbour with a plausible mistake,
kept so that each property can be shown to fail when the mistake is made
(`PROJECT.json`, "mutants").

### Button

`config` is the normalised `button_config_t`; `cmds` is the part of the FreeRTOS
timer queue with commands for this event timer; `active` and `remaining` are the
kernel's timer. `button_toggle_callback(high)` is the whole handler. The history
variables `down`, `owed`, `elapsed` and `last` are what the client could have
observed, and they are the refinement mapping into `Gesture`.

### FreeRTOS timers

The kernel is not in the repository; `Button` and `Toggle` model it from how the
code uses it and from the documented behaviour of its timer service:

- a timer call appends a command to a bounded queue and, with block time 0,
  fails when the queue is full; it changes nothing else;
- the daemon serves one expired timer, then applies every queued command in
  order, then looks for an expired timer again; hence
  `button_event_timer_callback` needs an empty `cmds`;
- a start command whose time is already past calls the callback while the queue
  is being drained; hence `Toggle!Command` may enter the callback directly, and
  `button_toggle_callback` may come between two commands;
- a timer is no longer "active" once it has expired;
- `xTimerCreateStatic` re-initialises its buffer, even when the daemon still has
  the previous timer of that buffer in a list (`Toggle!CreateTimer`).

In `Toggle`, the 10 ms of the debounce timer are not counted: a running timer may
expire at any time. This allows more behaviours than the clock does, so the safety
results carry over.

### Toggle

`DualCore = FALSE` stands for one core and a daemon of higher priority than the
tasks: the ISR runs to its end, a callback finishes before a task goes on. ESP-IDF
configures the daemon's priority (its default is the lowest above idle), so
`DualCore = TRUE` stands for two cores and also for one core with a daemon that
tasks can interrupt. A post that fails because other users fill the queue is
`QueueFull`; failing driver and timer calls are `Failures`. `panic` is a kernel
assertion, a call of NULL or a corrupted list; `Reboot` starts over.

`missed` is history: an edge came while the interrupt was off, or the timer start
for it was refused. `NoEdgeIsLost` excuses exactly those.

### ButtonLifecycle

`Start`, `buttons_init` and `CreateMutex` are the three reads and writes of
`buttons_lock` that the lazy creation makes. `SerialBoot = TRUE` says that the
first call is over before another task calls; the proofs ask for less (`MutexMadeOnce`).
`ToggleCallsAreSerial` is what the proofs about `Toggle` assume of its callers. `ImplementsRegistry` maps a task's place to what
its caller knows (`Meaning`): a creation counts as accepted from the moment the claim is
marked, a destruction as done from the moment the button is no longer registered.

The daemon is in one place at a time: `Debounce` is the end of the debounce timer,
`Pressed` and `Released` what `button_toggle_callback` then does, `Expire` and
`Expired` the event timer, `Report` the call of the client. `Interrupts = FALSE`
stands for one core and a daemon of higher priority than the tasks: a task takes no
step while the daemon is inside a callback, but the daemon may come between any
two steps of a task. The pin changes at any time. `slot.stray` is history: a press
that was counted between `toggle_create` and `toggle_sync_state`, whose release
`toggle_sync_state` has swallowed.

### Backend

A request is a worker's `pc` with the row it loaded. In `DeviceProtocol`, `Write`
is SQLAlchemy's unit of work: the UPDATE names only columns whose value changed
since the load. `Create` includes the unique constraint on the serial number. In
`SettingsService`, `Insert` and `Log` are the two commits of `create_setting` and
`rollback`, and `Die` may come between them.

In `AuthService` a request is read, hash, write: `login` reads the row, `Failure` and
`Success` are the UPDATEs after the hash, which name only changed columns (that is
why a late login does not take a lock back), `revoke` and `create` the two
transactions of `refresh`. Passwords, hashes and JWTs are abstracted to whether they
fit; a request that is refused changes nothing. `sessions`, `streak` and `failures`
are history. Revoked rows of `refresh_tokens` that no request has read are forgotten,
so two ids stand for any number of tokens, one after another.

In `Migrations` a table is a set of facts: its columns (required, optional, or with a
default of the server), unique constraints, indexes, foreign keys (by the name of
the column) and triggers. `Works` says when PostgreSQL refuses a statement,
`Effect` what it does; a run plans its statements from the version it reads and is
one transaction with the change of the version. Every table that a run does not
create itself is taken to have rows.

In `Deployment` requests run at version 2 or later, when their tables are there.
A run that alters `users` or `refresh_tokens` waits for open transactions; taking 0002
back drops the tokens (`Recreate`), and a refresh that is between its two
transactions goes on into the new table.

## 3. Runs

| Run | Shows | Bounds and why they are enough |
|---|---|---|
| `button_gestures` | `Button` implements `Gesture`; the timer is set for what `timer_mode` says; pending and held presses get reported | every combination of both active levels, long press off / below a tick / two ticks (rounded down), the same for the repeat time, limits 0 to 4 (one more than the events name); a tick is 10 ms; elapsed time is counted to three ticks, one beyond the longest time; the queue holds four commands, two callbacks' worth |
| `button_lossy` | with refused posts: counts, names of events, the window and the long mode stay right; someone who keeps pressing keeps getting reports | the same configurations; a queue of two, any post may be refused |
| `toggle_edges` | from the ISR to `last_high` no edge is lost; a registered toggle is complete; a level not seen yet is noticed | one caller (as `button.c` guarantees), one core, every failure, queue of three: start, stop, delete |
| `toggle_claims` | one owner of the claim, lock held exactly by deletions and resynchronisations | two tasks, two cores, every failure; queue of one, as the queue plays no part in these properties (the theorems cover any) |
| `button_lifecycle` | one owner, button and toggle together, each call takes effect at one moment (`Registry`), no callback into a wiped slot, no count left behind, every call returns | three tasks, so that one waits while two others work; every failure; presses up to two, so that the repeat window and the full gesture both happen; with and without an event timer |
| `device_protocol` | overlapping registrations cost no heartbeat and no status | two workers that may die, two reports, one row pushed of each kind (nothing reads them, a second would do what the first does), minutes 0 to 6 with limits 2 and 5 (120 s and 300 s in the source), slow requests; heartbeats of a device come one after another (`Retries = FALSE`: an agent waits for the answer) |
| `settings_versions` | order and completeness of versions, logging | two workers, four rows: overlap, a duplicate version, and a rollback to it |
| `deployment` | the lock of an account and the tokens stay right under overlapping logins, while migrators take the schema up and down; a version has one schema, no run fails by itself, the newest is that of the models, and with 0002 in place rows of the audit log go only all at once, by TRUNCATE | two workers and two migrators, two of the four under way at a time (`MaxBusy`), so that every pair meets; two token ids and two rows of the audit log (so that removing one differs from emptying the table), each used over and over; the versions are the repository's. Workers, migrators, tokens and rows are symmetric: the models compare them only with each other, and the run states safety only |

Deadlock is checked in every run.

Four runs have a violation as their expected result; each is a place where the
code does other than the repository says:

| Run | Shows |
|---|---|
| `toggle_late_timer` | a debounce start that is still queued when `toggle_delete` runs makes the daemon, which then applies it as long expired, call the callback of the wiped slot |
| `toggle_sync_race` | on two cores, `toggle_sync_state` and the debounce callback race for `last_high`: the older sample wins, the timer for the newer edge is stopped, and the toggle keeps the wrong level |
| `button_lazy_lock` | two first calls each create a mutex, and both claim the GPIO |
| `device_status` | the status is derived only when a heartbeat comes, with an age of 0: a device that falls silent stays online |

`PROJECT.json`, "findings", quotes the lines that say otherwise.

One more place where the code gives less than the repository says is part of the
model, and the property says what is left. `docs/rebuild-status.md:12` has the audit
log protected as immutable by triggers, and 0002 raises "audit_logs is immutable"
(line 62), but both triggers (lines 67-80) are FOR EACH ROW, one on UPDATE and one on
DELETE. `TRUNCATE audit_logs` fires neither: `Migrations!Truncate` has no guard, and
`AuditRowsAreGuarded` claims no more than that no UPDATE changes a row and no DELETE
removes one from among others. (No code under `backend/app` sends a TRUNCATE; a trigger
BEFORE TRUNCATE, FOR EACH STATEMENT, would close the gap.)

Some properties hold only under an assumption their run names, and TLC refutes them
without it. `NoCallOfNULL` and `CountsAreReleased` need a daemon that no task
interrupts (`Interrupts = FALSE`): with a second core `button_reset` may wipe the slot
while the daemon is between its reading of the count and its call of the callback.
`RegisteredIsLive` needs the serial callers of `button.c`: with two
tasks calling `toggle.c` directly, a failing creation wipes the slot after it gave
the claim back, and may wipe that of the next creation. `StatusIsOfLastHeartbeat`
needs heartbeats that do not overlap: with `Retries = TRUE` a save that changes no
status leaves that of another heartbeat beside its own time. Where the theorems below
hold under a weaker assumption than the run's, they say which.

## 4. Fairness

- `Button`: weak fairness of `Tick`, `Daemon` and the expiry. Time passes, and the
  daemon is a task that the scheduler runs. Presses and releases are the user's:
  no fairness; the liveness properties allow for a user who never acts again.
- `Toggle`: weak fairness of ISR and reboot; strong fairness of the daemon and of
  each task's steps inside a call, since both are interrupted over and over but
  continue, and since FreeRTOS hands a mutex to its waiters in turn. No fairness for
  starting a call.
- `ButtonLifecycle`: strong fairness of each task inside a call, for the same reason,
  and weak fairness of the daemon's callbacks, which wait for nothing. No fairness for
  the pin, the timers or the start of a call.
- The backend models state safety only: a worker may stop anywhere.

## 5. Proofs

All theorems hold for every value of the constants that satisfies the modules'
named assumptions: configurations within `uint16_t`, a tick of at least 1 ms, a
queue of any positive (in `Toggle`: any) capacity, a finite set of tasks. They are
stated for `SafeSpec`, the specification without its fairness, and so hold for `Spec`.

`ButtonProofs`:

- `ButtonInvariant`, `SafeSpec => [](TypeOK /\ CountIsOwed /\ WindowIffPending /\
  LongOnlyWhileHeld)`. The inductive invariant `Inv` adds that the configuration is
  normalised and that the timer follows the mode. Its conjuncts need each other:
  the saturating increment never saturates because a released button with presses
  waiting has fewer than the limit (`WindowIffPending`), which in turn holds
  because the counter is the presses owed (`CountIsOwed`).
- `TimerSet`, `SafeSpec => []TimerFollowsMode`: if no post fails, the newest queued
  command, or the timer once the queue is empty, is what the mode stands for. This
  is the fact that links the callbacks' belief to the timer they cannot see, and
  the one the refinement needs: when the timer expires, at least the time of the
  mode has passed since the last press or release.
- `EventsNamePresses`, `SafeSpec => EventsMatchPresses`, also with lost posts.
- `ButtonImplementsGesture`, `SafeSpec => ImplementsGesture`
  whenever `~PostsMayFail`: each
  step of `Button` is one of `Gesture` or changes nothing it sees.

`ToggleProofs`, for any finite number of tasks whose calls may overlap, one core or two,
every failure:

- `ClaimProtocol`, `SafeSpec => []ClaimHasOneOwner`, and `LockProtocol`,
  `SafeSpec => []LockIsExclusive`. The invariant is the conjunction of the two with the
  types of the registry; neither is inductive alone, since `toggle_delete` keeps its
  claim because it holds the lock.
- `ToggleTypes`, `SafeSpec => []TypeOK`, with the capacity of the timer queue, and that
  nothing is claimed and no call goes on before `toggles_init` has succeeded.

`ToggleEdgeProofs`, for any number of tasks and any length of the timer queue, with every
failure and refused post, if the calls for a GPIO follow one another (`Serial`):

- `RegisteredToggles`, `SafeSpec /\ []Serial => []RegisteredIsLive`, one core or two.
  `Staged` says of each place of `toggle_create` what has been done so far; a deletion
  takes `toggle_map` back before it touches the driver.
- `EdgesAreSeenApart`, `SafeSpec /\ []Serial /\ [][Apart]_vars => []NoEdgeIsLost`, one
  core or two. `Apart` names the one interleaving that loses an edge: a task samples the
  pin (in `toggle_create` or `toggle_sync_state`) while the debounce callback is between
  its reading of the pin and its use of it. The run `toggle_sync_race` is an instance
  of that; the theorem says there is no other. The inductive invariant `EdgeInv` says that
  the level of a live toggle is the pin's, or something under way will read the pin: a
  pending interrupt, the timer, a start of it as the last command in the queue, the
  daemon before its sample, or `toggle_sync_state` (`Pending`). What makes it inductive
  is `Armed`: as long as the flag is set, the timer will fire or the daemon or
  `toggle_sync_state` is about to clear the flag, so that the ISR may ignore a reset that
  is refused.
- `EdgesAreSeen`: on one core a callback is never interrupted, hence `Apart`, hence
  `SafeSpec /\ []Serial => []NoEdgeIsLost`.
- `NoCrashWhenOrderly`, `SafeSpec /\ []Serial /\ [][Orderly]_vars => [](~panic /\
  CallbackIsNotNull)`, one core or two. `Orderly` excludes three interleavings, and the
  theorem says that there is no fourth way to a kernel assertion, a call of NULL or a
  corrupted list of timers: the timer handle is dropped (`toggle.c:257-261`, or the same in a
  creation that fails) while the ISR is between its check of the handle and its call;
  both the stop and the deletion of the timer are refused by a full queue; the slot is
  wiped before the daemon has applied them. TLC finds a crash when any one of the three
  is allowed, so none can be left out. The invariant `Tidy` says in which places
  there is a timer, that one which is given up is dead or doomed (a stop or a deletion
  of it is queued with no start after it), and that a slot whose timer may still fire has its
  callback.
- `PromptDaemonNeverCrashes`: one core, room in the queue and a daemon that has emptied
  it before a task goes on (`Prompt`) imply `Orderly`. This is what `ButtonLifecycle`
  takes the toggle layer to be, where a toggle that is deleted calls back no more.
- `OneTaskIsLive` and `OneTaskSeesEdges`: a single task needs no `Serial`. This is the
  instance of the run `toggle_edges`.

`Serial` is what `button.c` guarantees: `TogglesAreSerial`, below. `EdgeInv` and `Tidy`
were checked with TLC as invariants, with one task and with two and queues of two and
three, before they were proved.

`ButtonLifecycleProofs`, for any tasks and mutexes, with or without failures, on one core
or two. First calls may overlap; all that is asked of them is `MutexMadeOnce`, that no
two tasks are at once between the test of `buttons_lock` in `buttons_init` and its assignment.
The run `button_lazy_lock` is an instance of what it excludes; the theorems say that
nothing else of the lazy creation is a danger. They read `SafeSpec /\ []MutexMadeOnce =>
...`:

- `OneOwner`, `TogglesHaveButtons`, `TogglesAreSerial` and `LifecycleTypes`: the
  invariants `ClaimHasOneOwner`, `ToggleHasItsButton`, `ToggleCallsAreSerial` and
  `TypeOK`, all from one `Inv`. Its parts say
  who is where before there is a mutex (`Boot`), that exactly the task inside a
  critical section holds the mutex (`Lock`), who owns the claim (`Claim`: a task about
  to mark it knows that it is free because it holds the mutex), that there is a
  toggle exactly from `toggle_create` to `toggle_delete` (`Below`), and that a slot
  with a timer is filled (`Slot`).
- `CallsTakeEffect`, `ImplementsRegistry`: every behaviour is one of
  `Registry`. Beside `Inv` it needs that there is no button before there is a mutex
  (else `button_destroy`, which returns when it cannot make one, might overlook a button)
  and that the label `fail` is reached only if something failed (`Reasons`): the toggle of
  an owned GPIO is never in the way of its creation.
- `CallbacksAreNotNull`, `NoCallOfNULL` if moreover `[][LeftAlone]_vars`: `button_destroy`
  wipes the slot (`button.c:296`) only while the daemon is in no callback. Any other step of
  a task may interrupt the daemon, on whatever core: the wipe of a failing creation, say,
  is harmless, because it never had a toggle. The invariant `Calm` says that once the
  toggle is gone, either the slot is still to be wiped or the daemon and the event timer
  are done with it.
- `CountsAreReported`, `CountsAreReleased` with a daemon that no task interrupts
  (`~Interrupts`), from `Counted`, which says where the count of a slot is accounted for
  while the daemon is inside a callback.
- `SerialBootIsSafe` and `UninterruptedIsSafe`: `SerialBoot`, the rule a program can keep,
  implies `MutexMadeOnce` (while there is no mutex, one task at most is inside a call),
  and `~Interrupts` implies `LeftAlone`. This is the instance of the run `button_lifecycle`.

`AuthServiceProofs`, for any workers, and finite sets of them and of tokens:

- `FailuresLock`, `FewerDoNotLock`, `LockStays`: `FiveInARowLock`, `LockTakesFive` and
  `LockIsKept`, from `LockInv`, which adds that no row counts more failures than there
  were, that the row of a login that is alone is the one it has read, and that an
  unlocked row counts fewer than five but no fewer than there were in a row.
- `TokensAreConserved`: `SessionsAreConserved`, by the cardinalities that each
  transaction changes; and `TypeCorrect`: `TypeOK`.

`DeploymentProofs`: `DeploymentImplements`, `DeploymentSpec => SafeSpec` of
`AuthService`, a refinement with the identity as its mapping: a step of a migrator is
`Recreate` or a stutter of the service. `DeploymentKeepsAccounts` carries the four
properties over.

`SchemaFollowsVersion`, `RunsFailForOthers` and `AuditRowsStay`: `SchemaIsVersions`,
`NoRunFailsAlone` and `AuditRowsAreGuarded` for any number of migrators that plan, die and
come between each other. Their hypotheses, `PlansWork` and `GuardsStay`, speak of the
fixed statements only: each plan, run alone, takes the schema of its version to that of
its target, a plan made before 0001 fails on the tables of another, and the triggers are
there from 0002 on. They have no constant and no variable in them: TLC evaluates
them, and the run `deployment`, which makes every plan from every version, refutes its
properties where they are false. What is proved is that nothing else can go wrong, since
a run is one transaction that ends when the version is not the one it planned for.

`DeviceProtocolProofs`, for any workers, clock and limits. `DeviceTypes`,
`Spec => []TypeOK`, also for heartbeats that overlap, and

- `PunctualHeartbeatsAdvance`, `Spec /\ [][AtOnce]_vars => HeartbeatsAdvance`, where
  `AtOnce` says that no time passes between a heartbeat's reading of the clock and its
  commit. So an agent that retries sets the time of its last heartbeat back only through a
  request that is held up there. (TLC finds that, with `Retries = TRUE`.)
  `FastHeartbeatsAdvance` is the case of requests that take no time (`~SlowRequests`).

And if heartbeats do not overlap (`~Retries`), however slow they are:

- `StatusIsKept`, `Spec => []StatusIsOfLastHeartbeat`, and `HeartbeatsOnlyAdvance`,
  `Spec => HeartbeatsAdvance`. The invariant says what a request knows of the row: a
  registration saves the columns of a heartbeat as it loaded them, so that the
  UPDATE leaves them out; what the only heartbeat loaded is still in the row.

`SettingsServiceProofs`, for any workers that may die, and any number of rows:

- `LaterIsNewer`, `VersionsHaveNoGaps` and `LogsAreOfVersions`: `VersionsAreNewer`,
  `NoVersionIsSkipped` and `LogsTellTheChange`. The invariant says the same of the row
  that a request is about to insert or log as of the rows in the table; rows are never
  taken back, so what a request has read stays true.
- `EveryChangeIsLogged`, `Spec => []ChangesAreLogged`: each row is accounted for once, by
  its log, by the request that will write it or by one that died before; stated without
  cardinalities (`LoggedOnce`) it is inductive.
- `SettingsTypes`, `Spec => []TypeOK`. That no more rows are inserted than there is room
  for is a matter of counting the requests that are about to insert (`HasRoom`).

Assumptions on the constants are named and as weak as the code allows: besides
numbers and finiteness only that `NULL` (and `NoRow`) is none of the values it stands
beside.

Only model-checked:

- liveness (`PendingIsReported`, `HeldIsReported`, `KeepsReporting`, `EdgeIsNoticed`,
  `CallsReturn`), which needs fairness and is out of the prover's reach;
- `ModelsFitHead`, and that `PlansWork` and `GuardsStay` are true: they evaluate folds
  over the fixed lists of statements of the three migrations. To unfold a fold is
  induction over data, which the provers cannot do, and there is no parameter to
  generalise.

## 6. What is not modelled

- `port.c`: no state; its calls are the driver steps of `Toggle`.
- The example, the host test stubs, `dist/` (archived releases), CMake files.
- Permissions (one membership test), API wiring, Prometheus counters, logging, the
  Celery worker (one placeholder task): no state the program reads back.
- `fetch_config`: it only reads. (Of several versions of a key it returns any one:
  `get_device_settings` states no order.)
- Hashes and the contents of tokens. bcrypt reads 72 bytes of what it is given, so
  `refresh` and `logout` may find that another active token of the user fits too;
  the model lets them take any active token.
- Types, lengths and primary keys of columns. Seven columns that `entities.py` marks
  with `index=True` have no index in any migration (`organization_id` of `users` and
  `device_groups`, `checksum` of `media`, `media_id` of `media_versions`, `playlist_id` of
  `playlist_items`, `device_id` of `device_metrics` and `device_logs`): that costs time
  only. `checksum` of `media`, `cpu` of `device_metrics` and `level` and `message` of
  `device_logs` may be NULL in the database and not in the models; `ModelsFitHead` only
  demands the converse.
- Several GPIOs: entries share only the mutexes and the timer queue; the other
  users of both appear as a lock that is taken and a queue that may be full.
- The timer queue between `ButtonLifecycle` and its timers: a daemon of higher priority
  has emptied it before the task goes on. `Toggle` and `Button` model it.
  `toggles_init` by two first callers at once is one step in `Toggle` (a listed hazard).

## 7. Plan

Done: the gesture machine and its refinement, the toggle layer, the registry with
its daemon and its refinement, all backend services that write, the migrations, and the
service over a database that is migrated; proofs for each. What is left:

1. `button_destroy` from a client's callback.
2. A composition of `Toggle` and `ButtonLifecycle` in one specification, in place of the
   hypothesis `Serial` of the one and the theorem `TogglesAreSerial` of the other.

## 8. Running

    tlc -config MCButton.cfg MCButton        # likewise the other .cfg files
    tlapm ButtonProofs.tla                   # likewise the other *Proofs.tla
