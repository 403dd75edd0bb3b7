------------------------------- MODULE Toggle -------------------------------
(***************************************************************************)
(* agent/embedded/toggle.c for one GPIO: its entry of toggle_pool,         *)
(* toggle_map and toggle_claimed, the GPIO interrupt, the debounce timer,  *)
(* and the tasks that call toggle_create, toggle_delete, toggle_sync_state.*)
(* (Entries of other GPIOs share only toggles_lock and the timer queue.)   *)
(*                                                                         *)
(* Four kinds of actor run: the pin, the interrupt handler, the FreeRTOS   *)
(* timer daemon and the tasks.  Timer calls only post a command; a post    *)
(* may find the queue full.  The 10 ms of the debounce timer are not       *)
(* counted: a timer that runs may expire at any time.                      *)
(*                                                                         *)
(* A definition whose comment says "Fault" stands for no code: it is what  *)
(* the next one would be with a mistake in it, and a property fails if the *)
(* mistake is made.                                                        *)
(***************************************************************************)
EXTENDS Naturals, Sequences, FiniteSets

CONSTANTS Tasks,      \* the tasks that call the API; a task is its own callback
          NULL,       \* no task, no callback
          DualCore,   \* may the ISR and the daemon be interleaved with the tasks?
          Failures,   \* may the timer and GPIO driver calls fail?
          QueueFull,  \* may other users of the timer queue fill it?
          QueueLen    \* commands on this timer the queue can hold

ASSUME ToggleAssumption == /\ NULL \notin Tasks
                           /\ IsFiniteSet(Tasks)
                           /\ {DualCore, Failures, QueueFull} \subseteq BOOLEAN
                           /\ QueueLen \in Nat

VARIABLES pin,                  \* the level of the GPIO
          irq,                  \* an edge the ISR has not been entered for
          isr,                  \* the ISR: "idle", or the timer call it is about to make
          slot,                 \* toggle_pool[gpio]
          toggle_map,           \* toggle_map[gpio] # NULL
          toggle_claimed,       \* toggle_claimed[gpio]
          toggles_lock,         \* the holder of the mutex
          toggles_initialized,
          driver,               \* the GPIO driver: edge type, handler, interrupt
          active,               \* the debounce timer runs
          q,                    \* commands on it the daemon has to apply
          daemon,               \* the daemon: where it is, and the level it read
          pc,                   \* where each task is
          missed,               \* history: an edge since the pin was last read was
                                \* not latched, or its timer start was refused
          panic                 \* the firmware has crashed

tasks == <<toggle_map, toggle_claimed, toggles_lock, toggles_initialized, driver, pc>>
timer == <<active, q, daemon>>
vars == <<pin, irq, isr, slot, toggle_map, toggle_claimed, toggles_lock,
          toggles_initialized, driver, active, q, daemon, pc, missed, panic>>

\* The slot after memset; its gpio_num is then 0, whatever GPIO it is for.
Wiped == [callback |-> NULL, last_high |-> FALSE, armed |-> FALSE, timer |-> FALSE]

Off == [type |-> FALSE, handler |-> FALSE, enabled |-> FALSE]
InterruptOn == driver.type /\ driver.handler /\ driver.enabled

\* The contents of the queue after a call that posts command c.
Post(s, c) == {r \in {s, Append(s, c)} : \/ r # s /\ Len(s) < QueueLen
                                         \/ r = s /\ (QueueFull \/ Len(s) = QueueLen)}

\* On one core the ISR runs to its end, and a daemon of a higher priority than the
\* tasks finishes a callback of this timer before a task goes on.  It may come to
\* it late all the same: a client's callback for another timer may block.
InCallback == daemon.pc \in {"disarm", "read", "compare"}
DaemonRuns == ~panic /\ (DualCore \/ isr = "idle")
TaskRuns == ~panic /\ (DualCore \/ (isr = "idle" /\ ~InCallback))

Init == /\ pin \in BOOLEAN
        /\ irq = FALSE /\ isr = "idle" /\ slot = Wiped
        /\ toggle_map = FALSE /\ toggle_claimed = FALSE
        /\ toggles_lock = NULL /\ toggles_initialized = FALSE
        /\ driver = Off /\ active = FALSE /\ q = <<>>
        /\ daemon = [pc |-> "wait", high |-> FALSE]
        /\ pc = [t \in Tasks |-> "idle"]
        /\ missed = FALSE /\ panic = FALSE

-----------------------------------------------------------------------------
(* The pin and the interrupt.                                               *)

\* The contact moves or bounces; the driver latches the edge if the interrupt is on.
PinChanges == /\ ~panic
              /\ pin' = ~pin
              /\ IF InterruptOn THEN irq' = TRUE /\ UNCHANGED missed
                                ELSE missed' = TRUE /\ UNCHANGED irq
              /\ UNCHANGED <<isr, slot, tasks, timer, panic>>

\* toggle_gpio_isr_handler up to its timer call.
IsrEntry == /\ ~panic /\ isr = "idle" /\ irq /\ driver.handler
            /\ irq' = FALSE
            /\ IF ~slot.timer
                 THEN UNCHANGED <<isr, slot>>
                 ELSE /\ isr' = IF slot.armed THEN "reset" ELSE "start"
                      /\ slot' = [slot EXCEPT !.armed = TRUE]
            /\ UNCHANGED <<pin, tasks, timer, missed, panic>>

\* xTimerStartFromISR or xTimerResetFromISR: both have the daemon (re)start the
\* timer.  A handle that has become NULL fails the kernel's assertion.  Fault: the
\* flag stays when the start is refused.
IsrKeepsArmed == /\ ~panic /\ isr # "idle"
                 /\ isr' = "idle"
                 /\ IF ~slot.timer
                      THEN panic' = TRUE /\ UNCHANGED <<q, missed>>
                      ELSE /\ q' \in Post(q, "start")
                           /\ missed' = (missed \/ (q' = q /\ isr = "start"))
                           /\ UNCHANGED panic
                 /\ UNCHANGED <<pin, irq, slot, tasks, active, daemon>>
IsrPost == /\ ~panic /\ isr # "idle"
           /\ isr' = "idle"
           /\ IF ~slot.timer
                THEN panic' = TRUE /\ UNCHANGED <<slot, q, missed>>
                ELSE /\ q' \in Post(q, "start")
                     /\ IF q' = q /\ isr = "start"
                          THEN slot' = [slot EXCEPT !.armed = FALSE] /\ missed' = TRUE
                          ELSE UNCHANGED <<slot, missed>>
                     /\ UNCHANGED panic
           /\ UNCHANGED <<pin, irq, tasks, active, daemon>>

-----------------------------------------------------------------------------
(* The timer daemon.                                                        *)

CallBack(running) == active' = running /\ daemon' = [daemon EXCEPT !.pc = "disarm"]

\* The timer expires; one expiry is served each time round the daemon's loop.
Expire == /\ DaemonRuns /\ daemon.pc = "wait" /\ active
          /\ CallBack(FALSE)
          /\ UNCHANGED <<pin, irq, isr, slot, tasks, q, missed, panic>>

\* The oldest command is applied.  A start whose time has already passed calls
\* the callback on the spot.
Command == /\ DaemonRuns /\ daemon.pc \in {"wait", "drain"} /\ q # <<>>
           /\ q' = Tail(q)
           /\ \/ active' = (Head(q) = "start") /\ daemon' = [daemon EXCEPT !.pc = "drain"]
              \/ Head(q) = "start" /\ CallBack(FALSE)
           /\ UNCHANGED <<pin, irq, isr, slot, tasks, missed, panic>>

Drained == /\ DaemonRuns /\ daemon.pc = "drain" /\ q = <<>>
           /\ daemon' = [daemon EXCEPT !.pc = "wait"]
           /\ UNCHANGED <<pin, irq, isr, slot, tasks, active, q, missed, panic>>

\* toggle_debounce_timer_callback.
Disarm == /\ DaemonRuns /\ daemon.pc = "disarm"
          /\ slot' = [slot EXCEPT !.armed = FALSE]
          /\ daemon' = [daemon EXCEPT !.pc = "read"]
          /\ UNCHANGED <<pin, irq, isr, tasks, active, q, missed, panic>>

\* A wiped slot has gpio_num 0, whose level has nothing to do with this pin's.
Read == /\ DaemonRuns /\ daemon.pc = "read"
        /\ \E high \in IF slot.callback = NULL THEN BOOLEAN ELSE {pin} :
              daemon' = [pc |-> "compare", high |-> high]
        /\ missed' = (missed /\ slot.callback = NULL)
        /\ UNCHANGED <<pin, irq, isr, slot, tasks, active, q, panic>>

CallsNull == daemon.pc = "compare" /\ daemon.high # slot.last_high
             /\ slot.callback = NULL

\* last_high and the client's callback; calling NULL is a crash.
Compare == /\ DaemonRuns /\ daemon.pc = "compare"
           /\ daemon' = [pc |-> "drain", high |-> FALSE]
           /\ slot' = [slot EXCEPT !.last_high = daemon.high]
           /\ panic' = CallsNull
           /\ UNCHANGED <<pin, irq, isr, tasks, active, q, missed>>

DaemonNext == Expire \/ Command \/ Drained \/ Disarm \/ Read \/ Compare

-----------------------------------------------------------------------------
(* The tasks.  Goto(t, from, to) is one step of task t.                     *)

Goto(t, from, to) == TaskRuns /\ pc[t] = from /\ pc' = [pc EXCEPT ![t] = to]
registry == <<toggle_map, toggle_claimed, toggles_lock>>

\* toggles_init, called by the first toggle_create; installing the ISR service
\* may fail, and everything is then as before.  Fault: the flag is not set.
InitForgetsFlag(t) == /\ Goto(t, "idle", "claim")
                      /\ UNCHANGED <<pin, irq, isr, slot, registry, toggles_initialized,
                                     driver, timer, missed, panic>>
ToggleInit(t) == /\ Goto(t, "idle", "claim")
                 /\ toggles_initialized' = TRUE
                 /\ UNCHANGED <<pin, irq, isr, slot, registry, driver, timer,
                                missed, panic>>

\* toggle_create: the claim, under the lock; a GPIO already claimed is refused.
Claim(t) == /\ toggles_lock = NULL
            /\ \/ Goto(t, "claim", "fill") /\ ~toggle_claimed
               \/ Goto(t, "claim", "idle") /\ toggle_claimed
            /\ toggle_claimed' = TRUE
            /\ UNCHANGED <<pin, irq, isr, slot, toggle_map, toggles_lock,
                           toggles_initialized, driver, timer, missed, panic>>

\* memset and the fields of the slot.
Fill(t) == /\ Goto(t, "fill", "timer")
           /\ slot' = [Wiped EXCEPT !.callback = t]
           /\ UNCHANGED <<pin, irq, isr, registry, toggles_initialized, driver,
                          timer, missed, panic>>

\* xTimerCreateStatic initialises the GPIO's timer buffer; when the daemon still
\* has the previous timer of that buffer in its list, the list is corrupted.
CreateTimer(t) == /\ \/ /\ Goto(t, "timer", "sample")
                        /\ slot' = [slot EXCEPT !.timer = TRUE]
                        /\ panic' = active
                     \/ /\ Failures /\ Goto(t, "timer", "unclaim")
                        /\ UNCHANGED <<slot, panic>>
                  /\ UNCHANGED <<pin, irq, isr, registry, toggles_initialized,
                                 driver, timer, missed>>

\* my_gpio_enable resets the pin's interrupt; then the first sample.
Sample(t) == /\ Goto(t, "sample", "type")
             /\ driver' = [driver EXCEPT !.type = FALSE, !.enabled = FALSE]
             /\ slot' = [slot EXCEPT !.last_high = pin]
             /\ missed' = FALSE
             /\ UNCHANGED <<pin, irq, isr, registry, toggles_initialized, timer, panic>>

\* The three driver calls that put an edge interrupt in place, in this order.
DriverCall(t, from, field, to) ==
    /\ \/ Goto(t, from, to) /\ driver' = [driver EXCEPT ![field] = TRUE]
       \/ Failures /\ Goto(t, from, "undo") /\ UNCHANGED driver
    /\ UNCHANGED <<pin, irq, isr, slot, registry, toggles_initialized, timer,
                   missed, panic>>

SetType(t) == DriverCall(t, "type", "type", "handler")
\* Fault: the result of the call is only logged.
AddHandlerUnchecked(t) ==
    /\ Goto(t, "handler", "enable")
    /\ \E ok \in {TRUE, ~Failures} : driver' = [driver EXCEPT !.handler = ok]
    /\ UNCHANGED <<pin, irq, isr, slot, registry, toggles_initialized, timer,
                   missed, panic>>
AddHandler(t) == DriverCall(t, "handler", "handler", "enable")
Enable(t) == DriverCall(t, "enable", "enabled", "publish")

Publish(t) == /\ Goto(t, "publish", "idle") /\ toggles_lock = NULL
              /\ toggle_map' = TRUE /\ toggle_claimed' = TRUE
              /\ UNCHANGED <<pin, irq, isr, slot, toggles_lock, toggles_initialized,
                             driver, timer, missed, panic>>

\* xTimerStop and xTimerDelete, and the handle and the flag they leave in the slot.
DropTimer == /\ \E r \in Post(q, "stop") : q' \in Post(r, "delete")
             /\ slot' = [slot EXCEPT !.armed = FALSE, !.timer = FALSE]

\* The label fail: the driver calls are undone and the timer is dropped.
Undo(t) == /\ Goto(t, "undo", "unclaim")
           /\ driver' = Off
           /\ DropTimer
           /\ UNCHANGED <<pin, irq, isr, registry, toggles_initialized, active,
                          daemon, missed, panic>>

\* The label fail_no_timer: the claim is given back under the lock ...
Unclaim(t) == /\ Goto(t, "unclaim", "wipe") /\ toggles_lock = NULL
              /\ toggle_map' = FALSE /\ toggle_claimed' = FALSE
              /\ UNCHANGED <<pin, irq, isr, slot, toggles_lock, toggles_initialized,
                             driver, timer, missed, panic>>

\* ... and the slot is wiped outside it.
Wipe(t) == /\ Goto(t, "wipe", "idle")
           /\ slot' = Wiped
           /\ UNCHANGED <<pin, irq, isr, registry, toggles_initialized, driver,
                          timer, missed, panic>>

\* toggle_delete: nothing to do without a registered toggle, claimed or not.
\* Faults: the claim is given back even then; the lock is not.
DeleteClearsClaim(t) ==
    /\ toggles_initialized /\ toggles_lock = NULL
    /\ \/ /\ toggle_map /\ Goto(t, "idle", "interrupt")
          /\ toggles_lock' = t /\ toggle_map' = FALSE /\ UNCHANGED toggle_claimed
       \/ /\ ~toggle_map /\ Goto(t, "idle", "idle")
          /\ toggle_claimed' = FALSE /\ UNCHANGED <<toggles_lock, toggle_map>>
    /\ UNCHANGED <<pin, irq, isr, slot, toggles_initialized, driver, timer,
                   missed, panic>>
DeleteKeepsLock(t) ==
    /\ toggles_initialized /\ toggles_lock = NULL
    /\ Goto(t, "idle", IF toggle_map THEN "interrupt" ELSE "idle")
    /\ toggles_lock' = t /\ toggle_map' = FALSE
    /\ UNCHANGED <<pin, irq, isr, slot, toggle_claimed, toggles_initialized,
                   driver, timer, missed, panic>>
Delete(t) == /\ toggles_initialized /\ toggles_lock = NULL
             /\ \/ /\ toggle_map /\ Goto(t, "idle", "interrupt")
                   /\ toggles_lock' = t /\ toggle_map' = FALSE
                \/ /\ ~toggle_map /\ Goto(t, "idle", "idle")
                   /\ UNCHANGED <<toggles_lock, toggle_map>>
             /\ UNCHANGED <<pin, irq, isr, slot, toggle_claimed, toggles_initialized,
                            driver, timer, missed, panic>>

\* The interrupt is disabled, the handler removed and the edge type cleared.
DeleteInterrupt(t) == /\ Goto(t, "interrupt", "drop")
                      /\ driver' = Off /\ irq' = FALSE
                      /\ UNCHANGED <<pin, isr, slot, registry, toggles_initialized,
                                     timer, missed, panic>>

DeleteTimer(t) == /\ Goto(t, "drop", "clear")
                  /\ DropTimer
                  /\ UNCHANGED <<pin, irq, isr, registry, toggles_initialized, driver,
                                 active, daemon, missed, panic>>

DeleteClaim(t) == /\ Goto(t, "clear", "idle")
                  /\ toggle_claimed' = FALSE /\ slot' = Wiped /\ toggles_lock' = NULL
                  /\ UNCHANGED <<pin, irq, isr, toggle_map, toggles_initialized,
                                 driver, timer, missed, panic>>

\* toggle_sync_state holds the lock throughout; xTimerIsTimerActive is read first.
Sync(t) == /\ toggles_initialized /\ toggles_lock = NULL
           /\ \/ /\ toggle_map
                 /\ Goto(t, "idle", IF active THEN "stop" ELSE "flag")
                 /\ toggles_lock' = t
              \/ ~toggle_map /\ Goto(t, "idle", "idle") /\ UNCHANGED toggles_lock
           /\ UNCHANGED <<pin, irq, isr, slot, toggle_map, toggle_claimed,
                          toggles_initialized, driver, timer, missed, panic>>

SyncStop(t) == /\ Goto(t, "stop", "flag")
               /\ q' \in Post(q, "stop")
               /\ UNCHANGED <<pin, irq, isr, slot, registry, toggles_initialized,
                              driver, active, daemon, missed, panic>>

SyncFlag(t) == /\ Goto(t, "flag", "resample")
               /\ slot' = [slot EXCEPT !.armed = FALSE]
               /\ UNCHANGED <<pin, irq, isr, registry, toggles_initialized, driver,
                              timer, missed, panic>>

\* Fault: the level is not read again.
SyncKeepsLevel(t) == /\ Goto(t, "resample", "idle")
                     /\ toggles_lock' = NULL
                     /\ UNCHANGED <<pin, irq, isr, slot, toggle_map, toggle_claimed,
                                    toggles_initialized, driver, timer, missed, panic>>
SyncSample(t) == /\ Goto(t, "resample", "idle")
                 /\ slot' = [slot EXCEPT !.last_high = pin]
                 /\ missed' = FALSE /\ toggles_lock' = NULL
                 /\ UNCHANGED <<pin, irq, isr, toggle_map, toggle_claimed,
                                toggles_initialized, driver, timer, panic>>

\* The calls a task may start, and the steps of a call it has started.
Call(t) == ToggleInit(t) \/ Delete(t) \/ Sync(t)
Step(t) == \/ Claim(t) \/ Fill(t) \/ CreateTimer(t) \/ Sample(t) \/ SetType(t)
           \/ AddHandler(t) \/ Enable(t) \/ Publish(t) \/ Undo(t) \/ Unclaim(t)
           \/ Wipe(t) \/ DeleteInterrupt(t) \/ DeleteTimer(t) \/ DeleteClaim(t)
           \/ SyncStop(t) \/ SyncFlag(t) \/ SyncSample(t)

\* A crash restarts the firmware.
Reboot == /\ panic
          /\ pin' = pin /\ irq' = FALSE /\ isr' = "idle" /\ slot' = Wiped
          /\ toggle_map' = FALSE /\ toggle_claimed' = FALSE
          /\ toggles_lock' = NULL /\ toggles_initialized' = FALSE
          /\ driver' = Off /\ active' = FALSE /\ q' = <<>>
          /\ daemon' = [pc |-> "wait", high |-> FALSE]
          /\ pc' = [t \in Tasks |-> "idle"]
          /\ missed' = FALSE /\ panic' = FALSE

Next == \/ PinChanges \/ IsrEntry \/ IsrPost
        \/ DaemonNext
        \/ \E t \in Tasks : Call(t) \/ Step(t)
        \/ Reboot

\* The interrupt is served and a crash reboots.  The daemon and a task inside a
\* call run on, even if interrupts keep coming in between (strong fairness); a
\* task that waits for the mutex gets it in turn when others keep taking it.
Fairness == /\ WF_vars(IsrEntry) /\ WF_vars(IsrPost) /\ WF_vars(Reboot)
            /\ SF_vars(DaemonNext) /\ SF_vars(Expire)
            /\ \A t \in Tasks : SF_vars(Step(t))

SafeSpec == Init /\ [][Next]_vars
Spec == SafeSpec /\ Fairness

-----------------------------------------------------------------------------
\* The types of the variables, and the capacity of the queue.  No call is past
\* toggles_init and nothing is claimed before that has said so: toggle_delete and
\* toggle_sync_state would do nothing for a toggle that is there.
TypeOK ==
    /\ pin \in BOOLEAN /\ irq \in BOOLEAN /\ isr \in {"idle", "start", "reset"}
    /\ slot \in [callback : Tasks \cup {NULL}, last_high : BOOLEAN,
                 armed : BOOLEAN, timer : BOOLEAN]
    /\ toggle_map \in BOOLEAN /\ toggle_claimed \in BOOLEAN
    /\ toggles_lock \in Tasks \cup {NULL} /\ toggles_initialized \in BOOLEAN
    /\ driver \in [type : BOOLEAN, handler : BOOLEAN, enabled : BOOLEAN]
    /\ active \in BOOLEAN
    /\ q \in Seq({"start", "stop", "delete"}) /\ Len(q) <= QueueLen
    /\ daemon \in [pc : {"wait", "drain", "disarm", "read", "compare"},
                   high : BOOLEAN]
    /\ pc \in [Tasks -> {"idle", "claim", "fill", "timer", "sample", "type",
                         "handler", "enable", "publish", "undo", "unclaim", "wipe",
                         "interrupt", "drop", "clear", "stop", "flag", "resample"}]
    /\ missed \in BOOLEAN /\ panic \in BOOLEAN
    /\ toggles_initialized \/ (~toggle_claimed /\ \A t \in Tasks : pc[t] = "idle")

\* Where a task is while it holds the claim but not yet, or no longer, a
\* registered toggle.
Creating == {"fill", "timer", "sample", "type", "handler", "enable", "publish",
             "undo", "unclaim"}
Deleting == {"interrupt", "drop", "clear"}
Syncing == {"stop", "flag", "resample"}

\* The claim protocol of toggle_create and toggle_delete: a GPIO is claimed
\* exactly when one creation, one deletion or one registered toggle has it.  A
\* deletion spares a creation in progress, and no failure leaks the claim.
ClaimHasOneOwner ==
    LET owners == {t \in Tasks : pc[t] \in Creating \cup Deleting}
    IN  /\ toggle_claimed <=> toggle_map \/ owners # {}
        /\ \A t, u \in owners : t = u
        /\ ~(toggle_map /\ owners # {})

\* Deletions and resynchronisations hold the lock for as long as they run.
LockIsExclusive ==
    \A t \in Tasks : pc[t] \in Deleting \cup Syncing <=> toggles_lock = t

\* A registered toggle is complete: its callback is its creator's, its timer
\* exists, and its edges interrupt.  A failing creation never takes a later
\* one's away.
RegisteredIsLive ==
    toggle_map => slot.callback # NULL /\ slot.timer /\ InterruptOn

\* Nothing that could still bring about a read of the pin is under way.
Quiet == /\ ~irq /\ isr = "idle" /\ ~active /\ q = <<>> /\ ~InCallback
         /\ \A t \in Tasks : pc[t] \notin Syncing

\* The edge-to-sample hand-over between ISR, timer queue, daemon and
\* toggle_sync_state loses nothing: once all is quiet, the level of a registered
\* toggle is the pin's, unless an edge came with the interrupt off or the start
\* of the timer was refused.  (A refused reset is harmless.)
NoEdgeIsLost == toggle_map /\ Quiet /\ ~missed /\ ~panic => slot.last_high = pin

\* A level that the toggle has not seen is noticed, unless the pin turns back or
\* the toggle goes away.
EdgeIsNoticed ==
    (toggle_map /\ slot.last_high # pin)
        ~> (slot.last_high = pin \/ ~toggle_map \/ missed)

\* The debounce callback never calls NULL: a toggle's callback "must be non-NULL".
CallbackIsNotNull == ~CallsNull
=============================================================================
