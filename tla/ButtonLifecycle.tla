--------------------------- MODULE ButtonLifecycle ---------------------------
(***************************************************************************)
(* button_create and button_destroy of agent/embedded/button.c for one     *)
(* GPIO, called by several tasks: the mutex that the first call creates,   *)
(* the claim, the slot of button_pool, the toggle of toggle.c below it,    *)
(* and the timer daemon, which calls back into the slot while the tasks    *)
(* fill and wipe it.  Toggle and Button model the two layers in full; here *)
(* a toggle is what it last read, and a slot what it counts.  Arguments    *)
(* that fail the checks of button.c:175-183 change nothing and are left    *)
(* out.                                                                    *)
(*                                                                         *)
(* A definition whose comment says "Fault" stands for no code: it is what  *)
(* the next one would be with a mistake in it, and a property fails if the *)
(* mistake is made.                                                        *)
(***************************************************************************)
EXTENDS Naturals, FiniteSets

CONSTANTS Tasks,       \* the callers; a task is its own callback
          NULL,        \* no task, no callback
          Failures,    \* may the mutex, the timer and the toggle layer fail?
          SerialBoot,  \* is the first call over before another task calls?
          Interrupts,  \* may a task run while the daemon is in a callback?
          MaxPresses,  \* bound: max_repeat_presses of the configuration
          Locks        \* the mutexes the kernel has to give

ASSUME LifecycleAssumption == /\ NULL \notin Tasks /\ NULL \notin Locks
                              /\ {Failures, SerialBoot, Interrupts} \subseteq BOOLEAN
                              /\ MaxPresses \in Nat \ {0}
                              /\ NULL \notin [pressed : BOOLEAN, armed : BOOLEAN]

VARIABLES buttons_lock,        \* the mutex, NULL until buttons_init
          holder,              \* who holds each mutex
          used,                \* the mutexes created so far
          button_claimed,
          registered_buttons,  \* registered_buttons[gpio] # NULL
          slot,                \* button_pool[gpio]; "stray" is history: a press
                               \* counts whose release was not seen
          toggle,              \* the toggle of the GPIO: is it pressed, is its
                               \* timer armed; or NULL
          toggles_lock,        \* who holds toggle.c's mutex
          pc,                  \* where each task is
          pressed,             \* the level of the GPIO
          daemon               \* where the timer daemon is

vars == <<buttons_lock, holder, used, button_claimed, registered_buttons, slot,
          toggle, toggles_lock, pc, pressed, daemon>>

\* Fault: button_reset leaves the timer and its mode.
WipedButMode == [callback |-> NULL, max |-> 0, timer |-> TRUE,
                 count |-> 0, mode |-> "long_press", stray |-> FALSE]
Wiped == [callback |-> NULL, max |-> 0, timer |-> FALSE,
          count |-> 0, mode |-> "idle", stray |-> FALSE]

Init == /\ buttons_lock = NULL
        /\ holder = [l \in Locks |-> NULL]
        /\ used = {}
        /\ button_claimed = FALSE
        /\ registered_buttons = FALSE
        /\ slot = Wiped
        /\ toggle = NULL
        /\ toggles_lock = NULL
        /\ pc = [t \in Tasks |-> "idle"]
        /\ pressed = FALSE
        /\ daemon = "idle"

-----------------------------------------------------------------------------
Goto(t, from, to) == pc[t] = from /\ pc' = [pc EXCEPT ![t] = to]

locks == <<buttons_lock, holder, used>>
pool == <<button_claimed, registered_buttons, slot>>
below == <<toggle, toggles_lock>>

\* xSemaphoreTake(buttons_lock) and xSemaphoreGive(buttons_lock).  Both read the
\* variable: a mutex that the caller does not hold is not given back.
Take(t) == /\ holder[buttons_lock] = NULL
           /\ holder' = [holder EXCEPT ![buttons_lock] = t]
           /\ UNCHANGED <<buttons_lock, used>>
Give(t) == /\ holder' = [holder EXCEPT ![buttons_lock] = IF @ = t THEN NULL ELSE @]
           /\ UNCHANGED <<buttons_lock, used>>

\* The call starts: "if (!buttons_lock && buttons_init() != 0)" reads the variable.
Start(t, ready, init) ==
    /\ IF buttons_lock = NULL THEN Goto(t, "idle", init) ELSE Goto(t, "idle", ready)
    /\ SerialBoot /\ buttons_lock = NULL => \A u \in Tasks : pc[u] = "idle"
    /\ UNCHANGED <<locks, pool, below>>

button_create(t) == Start(t, "take", "create_init")
button_destroy(t) == Start(t, "destroy_take", "destroy_init")

\* buttons_init reads it again and creates the mutex when there is none, which
\* are two steps; the mutex may not be had, and the call then returns.
buttons_init(t, from, ready, mutex) ==
    /\ IF buttons_lock = NULL THEN Goto(t, from, mutex) ELSE Goto(t, from, ready)
    /\ UNCHANGED <<locks, pool, below>>

CreateMutex(t, from, ready) ==
    /\ \/ \E l \in Locks \ used : /\ Goto(t, from, ready)
                                  /\ buttons_lock' = l /\ used' = used \cup {l}
       \/ Failures /\ Goto(t, from, "idle") /\ UNCHANGED <<buttons_lock, used>>
    /\ UNCHANGED <<holder, pool, below>>

-----------------------------------------------------------------------------
(* button_create.                                                           *)

TakeForClaim(t) == Goto(t, "take", "check") /\ Take(t) /\ UNCHANGED <<pool, below>>

\* A claimed GPIO is refused with -1.  Fault: it is not.
ClaimUnchecked(t) == Goto(t, "check", "mark") /\ UNCHANGED <<locks, pool, below>>
CheckClaim(t) == /\ \/ ~button_claimed /\ Goto(t, "check", "mark") /\ UNCHANGED locks
                    \/ button_claimed /\ Goto(t, "check", "idle") /\ Give(t)
                 /\ UNCHANGED <<pool, below>>

MarkClaim(t) == /\ Goto(t, "mark", "fill") /\ Give(t)
                /\ button_claimed' = TRUE
                /\ UNCHANGED <<registered_buttons, slot, below>>

\* button_reset and the fields; the event timer, if the configuration needs one.
Filled(t, timer) == [Wiped EXCEPT !.callback = t, !.max = MaxPresses, !.timer = timer]
Fill(t) == /\ \/ Goto(t, "fill", "toggle") /\ \E needed \in BOOLEAN :
                    slot' = Filled(t, needed)
              \/ Failures /\ Goto(t, "fill", "fail") /\ slot' = Filled(t, FALSE)
           /\ UNCHANGED <<locks, button_claimed, registered_buttons, below>>

\* toggle_create refuses a GPIO that has a toggle and may fail otherwise.  From its
\* end on, edges count.
CreateToggle(t) == /\ toggles_lock = NULL
                   /\ \/ /\ toggle = NULL /\ Goto(t, "toggle", "sync")
                         /\ toggle' = [pressed |-> pressed, armed |-> FALSE]
                      \/ /\ toggle # NULL \/ Failures
                         /\ Goto(t, "toggle", "fail") /\ UNCHANGED toggle
                   /\ UNCHANGED <<locks, pool, toggles_lock>>

\* toggle_sync_state, which holds toggle.c's mutex.
SyncTake(t) == /\ Goto(t, "sync", "synced") /\ toggles_lock = NULL
               /\ toggles_lock' = t
               /\ UNCHANGED <<locks, pool, toggle>>
\* It takes the level as it is.  If a press has been counted since the toggle was
\* created and its release not, the release is never seen.
\* Fault: the mutex is not given back.
Sync == /\ toggle' = [pressed |-> pressed, armed |-> FALSE]
        /\ slot' = [slot EXCEPT !.stray = slot.count > 0 /\ toggle.pressed /\ ~pressed]
        /\ UNCHANGED <<locks, button_claimed, registered_buttons>>
SyncKeepsLock(t) == Goto(t, "synced", "publish") /\ Sync /\ UNCHANGED toggles_lock
SyncGive(t) == Goto(t, "synced", "publish") /\ Sync /\ toggles_lock' = NULL

\* The button is registered under the lock.
Publish(t) == /\ Goto(t, "publish", "idle") /\ holder[buttons_lock] = NULL
              /\ button_claimed' = TRUE /\ registered_buttons' = TRUE
              /\ UNCHANGED <<locks, slot, below>>

\* The label fail: the slot is reset, and only then is the claim given back.  (No
\* goto comes after the toggle is ready, so there is none to delete.)
FailReset(t) == /\ Goto(t, "fail", "unclaim")
                /\ slot' = Wiped
                /\ UNCHANGED <<locks, button_claimed, registered_buttons, below>>
\* Fault: the claim is kept.
KeepClaim(t) == /\ Goto(t, "unclaim", "idle") /\ holder[buttons_lock] = NULL
                /\ registered_buttons' = FALSE
                /\ UNCHANGED <<locks, button_claimed, slot, below>>
Unclaim(t) == /\ Goto(t, "unclaim", "idle") /\ holder[buttons_lock] = NULL
              /\ button_claimed' = FALSE /\ registered_buttons' = FALSE
              /\ UNCHANGED <<locks, slot, below>>

-----------------------------------------------------------------------------
(* button_destroy, which holds buttons_lock to its end.                     *)

TakeForDestroy(t) == Goto(t, "destroy_take", "lookup") /\ Take(t)
                     /\ UNCHANGED <<pool, below>>

\* Faults: the toggle is not deleted; the lock is not given back when there is
\* no button.
LookupSkipsDelete(t) ==
    /\ \/ /\ registered_buttons /\ Goto(t, "lookup", "reset")
          /\ registered_buttons' = FALSE /\ UNCHANGED locks
       \/ /\ ~registered_buttons /\ Goto(t, "lookup", "idle")
          /\ Give(t) /\ UNCHANGED registered_buttons
    /\ UNCHANGED <<button_claimed, slot, below>>
LookupKeepsLock(t) ==
    /\ Goto(t, "lookup", IF registered_buttons THEN "delete" ELSE "idle")
    /\ registered_buttons' = FALSE
    /\ UNCHANGED <<locks, button_claimed, slot, below>>
Lookup(t) == /\ \/ /\ registered_buttons /\ Goto(t, "lookup", "delete")
                   /\ registered_buttons' = FALSE /\ UNCHANGED locks
                \/ /\ ~registered_buttons /\ Goto(t, "lookup", "idle")
                   /\ Give(t) /\ UNCHANGED registered_buttons
             /\ UNCHANGED <<button_claimed, slot, below>>

\* toggle_delete, under both mutexes.
DeleteTake(t) == /\ Goto(t, "delete", "deleting") /\ toggles_lock = NULL
                 /\ toggles_lock' = t
                 /\ UNCHANGED <<locks, pool, toggle>>
DeleteGive(t) == /\ Goto(t, "deleting", "reset")
                 /\ toggle' = NULL /\ toggles_lock' = NULL
                 /\ UNCHANGED <<locks, pool>>

\* button_reset, the claim and the lock.
Reset(t) == /\ Goto(t, "reset", "release")
            /\ slot' = Wiped
            /\ UNCHANGED <<locks, button_claimed, registered_buttons, below>>
Release(t) == /\ Goto(t, "release", "idle") /\ Give(t)
              /\ button_claimed' = FALSE
              /\ UNCHANGED <<registered_buttons, slot, below>>

-----------------------------------------------------------------------------
(* The timer daemon: toggle_debounce_timer_callback, which calls            *)
(* button_toggle_callback, and button_event_timer_callback.                 *)

Daemon(from, to) == daemon = from /\ daemon' = to
slots == <<locks, button_claimed, registered_buttons, toggles_lock, pc, pressed>>

\* The debounce timer of an edge ends: a level that is new is passed on.
Debounce == /\ toggle # NULL /\ toggle.armed
            /\ Daemon("idle", CASE pressed = toggle.pressed -> "idle"
                               [] pressed /\ ~toggle.pressed -> "pressed"
                               [] OTHER -> "released")
            /\ toggle' = [pressed |-> pressed, armed |-> FALSE]
            /\ UNCHANGED <<slot, slots>>

\* A press counts and, the first one, starts the timer of the long press.  (With an
\* event timer both times are configured.)
Pressed == LET count == IF slot.count < slot.max THEN slot.count + 1 ELSE slot.max
           IN  /\ Daemon("pressed", "idle")
               /\ slot' = [slot EXCEPT
                     !.count = count,
                     !.mode = CASE slot.timer /\ count = 1 -> "long_press"
                                [] slot.timer /\ count # 1 /\ slot.mode = "repeat_window" -> "idle"
                                [] OTHER -> @]
               /\ UNCHANGED <<toggle, slots>>

\* A release reports the count, or opens the window for the next press.
\* Fault: it does not.
NoWindow == /\ \/ slot.count = 0 /\ Daemon("released", "idle") /\ UNCHANGED slot
               \/ /\ slot.count > 0 /\ (slot.count >= slot.max \/ ~slot.timer)
                  /\ Daemon("released", "call")
                  /\ slot' = [slot EXCEPT !.mode = "idle"]
               \/ /\ slot.count > 0 /\ slot.count < slot.max /\ slot.timer
                  /\ Daemon("released", "idle") /\ UNCHANGED slot
            /\ UNCHANGED <<toggle, slots>>
Released == /\ \/ slot.count = 0 /\ Daemon("released", "idle") /\ UNCHANGED slot
               \/ /\ slot.count > 0 /\ (slot.count >= slot.max \/ ~slot.timer)
                  /\ Daemon("released", "call")
                  /\ slot' = [slot EXCEPT !.mode = "idle"]
               \/ /\ slot.count > 0 /\ slot.count < slot.max /\ slot.timer
                  /\ Daemon("released", "idle")
                  /\ slot' = [slot EXCEPT !.mode = "repeat_window"]
            /\ UNCHANGED <<toggle, slots>>

\* The event timer ends.
Expire == slot.timer /\ slot.mode # "idle" /\ Daemon("idle", "expired")
          /\ UNCHANGED <<slot, toggle, slots>>
Expired == /\ Daemon("expired", IF slot.mode = "long_press"
                                \/ (slot.mode = "repeat_window" /\ slot.count > 0)
                                THEN "call" ELSE "idle")
           /\ slot' = [slot EXCEPT !.mode = "idle"]
           /\ UNCHANGED <<toggle, slots>>

\* The callback is called, and the count is over.
Report == /\ Daemon("call", "idle")
          /\ slot' = [slot EXCEPT !.count = 0, !.stray = FALSE]
          /\ UNCHANGED <<toggle, slots>>

\* The button is pressed or released: an edge arms the debounce timer.
Edge == /\ pressed' = ~pressed
        /\ toggle' = IF toggle = NULL THEN NULL ELSE [toggle EXCEPT !.armed = TRUE]
        /\ UNCHANGED <<locks, pool, toggles_lock, pc, daemon>>

InCallback == Pressed \/ Released \/ Expired \/ Report

-----------------------------------------------------------------------------
\* A daemon that no task interrupts, and that has the core to itself, is in no
\* callback when a task takes a step.
Quiet == (Interrupts \/ daemon = "idle") /\ UNCHANGED <<pressed, daemon>>

Call(t) == Quiet /\ (button_create(t) \/ button_destroy(t))
Step(t) == Quiet /\ (
    \/ buttons_init(t, "create_init", "take", "create_mutex")
    \/ CreateMutex(t, "create_mutex", "take")
    \/ buttons_init(t, "destroy_init", "destroy_take", "destroy_mutex")
    \/ CreateMutex(t, "destroy_mutex", "destroy_take")
    \/ TakeForClaim(t) \/ CheckClaim(t) \/ MarkClaim(t) \/ Fill(t) \/ CreateToggle(t)
    \/ SyncTake(t) \/ SyncGive(t) \/ Publish(t) \/ FailReset(t) \/ Unclaim(t)
    \/ TakeForDestroy(t) \/ Lookup(t) \/ DeleteTake(t) \/ DeleteGive(t)
    \/ Reset(t) \/ Release(t))

Next == (\E t \in Tasks : Call(t) \/ Step(t)) \/ Debounce \/ Expire \/ InCallback \/ Edge

\* A task runs on while it is inside a call, and gets a mutex in its turn even if
\* others keep taking it; nobody has to call.  The daemon ends its callbacks.
Fairness == (\A t \in Tasks : SF_vars(Step(t))) /\ WF_vars(InCallback)

SafeSpec == Init /\ [][Next]_vars
Spec == SafeSpec /\ Fairness

-----------------------------------------------------------------------------
Places == {"idle", "create_init", "create_mutex", "destroy_init", "destroy_mutex",
           "take", "check", "mark", "fill", "toggle", "sync", "synced", "publish",
           "fail", "unclaim", "destroy_take", "lookup", "delete", "deleting",
           "reset", "release"}
Creating == {"fill", "toggle", "sync", "synced", "publish", "fail", "unclaim"}
Deleting == {"delete", "deleting", "reset", "release"}

\* The types of the variables; every path gives the mutex back that it took.
TypeOK == /\ buttons_lock \in Locks \cup {NULL}
          /\ holder \in [Locks -> Tasks \cup {NULL}]
          /\ used \subseteq Locks
          /\ button_claimed \in BOOLEAN /\ registered_buttons \in BOOLEAN
          /\ slot \in [callback : Tasks \cup {NULL}, max : {0, MaxPresses}, timer : BOOLEAN,
                       count : 0 .. MaxPresses, stray : BOOLEAN,
                       mode : {"idle", "long_press", "repeat_window"}]
          /\ toggle \in [pressed : BOOLEAN, armed : BOOLEAN] \cup {NULL}
          /\ pressed \in BOOLEAN
          /\ daemon \in {"idle", "pressed", "released", "expired", "call"}
          /\ toggles_lock \in Tasks \cup {NULL}
          /\ pc \in [Tasks -> Places]
          /\ \A l \in Locks : holder[l] # NULL =>
                pc[holder[l]] \in {"check", "mark", "lookup"} \cup Deleting

\* One creation, one deletion or one registered button has the GPIO, and a second
\* button_create of it gets -1: no two calls ever work on the same slot.
ClaimHasOneOwner ==
    LET owners == {t \in Tasks : pc[t] \in Creating \cup Deleting}
    IN  /\ \A t, u \in owners : t = u
        /\ registered_buttons => owners = {}
        /\ button_claimed <=> registered_buttons \/ owners # {}

\* A button that is registered has its callback and its toggle, and no toggle
\* calls back into a slot that is not, or no longer, a button's.
ToggleHasItsButton ==
    /\ registered_buttons => toggle # NULL /\ slot.callback # NULL
    /\ toggle # NULL => slot.callback # NULL
    /\ toggle # NULL => registered_buttons \/ \E t \in Tasks : pc[t] \in Creating \cup Deleting

\* What a task's place means to the callers of button.c.
Meaning(place) ==
    CASE place = "idle" -> "idle"
      [] place \in Creating -> "creating"
      [] place \in Deleting -> "destroying"
      [] place \in {"create_init", "create_mutex", "take", "check", "mark"} -> "create"
      [] place \in {"destroy_init", "destroy_mutex", "destroy_take", "lookup"} -> "destroy"
Promise == INSTANCE Registry WITH calls <- [t \in Tasks |-> Meaning(pc[t])],
                                  registered <- registered_buttons

\* Each call takes effect at one moment: a creation is refused only while the GPIO is
\* another's, an accepted one ends as a button unless something fails, and a
\* destruction that does nothing found no button.
ImplementsRegistry == Promise!SafeSpec

\* The calls into toggle.c for a GPIO come one after another, whatever the number
\* of tasks: what the proofs about Toggle assume of its callers (Serial).
ToggleCallsAreSerial ==
    LET callers == {t \in Tasks :
                      pc[t] \in {"toggle", "sync", "synced", "delete", "deleting"}}
    IN  \A t, u \in callers : t = u

\* A daemon that no task interrupts never calls the callback of a slot that has been
\* wiped, by its toggle or by its event timer.
NoCallOfNULL == daemon = "call" => slot.callback # NULL

\* A press that is counted is reported when it is released or held, or its window
\* is over; only one that was seen between toggle_create and toggle_sync_state, and
\* released in that time, may be left behind.
CountsAreReleased ==
    registered_buttons /\ daemon = "idle" /\ slot.count > 0 =>
        toggle.pressed \/ slot.mode = "repeat_window" \/ slot.stray

\* Every call returns: buttons_lock and toggles_lock are never waited for in a
\* circle, and both are given back on every path.
CallsReturn == \A t \in Tasks : (pc[t] # "idle") ~> (pc[t] = "idle")
=============================================================================
