------------------------------- MODULE Button -------------------------------
(***************************************************************************)
(* The gesture machine of agent/embedded/button.c for one registered       *)
(* button: button_toggle_callback, button_event_timer_callback and         *)
(* button_fire_event, with the one-shot FreeRTOS timer they drive.         *)
(*                                                                         *)
(* Both callbacks run in the FreeRTOS timer daemon, so each is one atomic  *)
(* step.  They do not change the timer: xTimerStop and xTimerChangePeriod  *)
(* post a command (with block time 0) that the daemon applies later, and   *)
(* xTimerIsTimerActive reads what the daemon has applied so far.  The      *)
(* daemon applies every queued command before it looks for an expired      *)
(* timer again, but an already expired debounce command may call           *)
(* button_toggle_callback between two commands.                            *)
(*                                                                         *)
(* A definition whose comment says "Fault" stands for no code: it is what  *)
(* the next one would be with a mistake in it, and a property fails if the *)
(* mistake is made.                                                        *)
(***************************************************************************)
EXTENDS Integers, Sequences

CONSTANTS Configs,       \* the button_config_t values a client may pass
          TickMs,        \* milliseconds in a FreeRTOS tick
          QueueLen,      \* capacity of the timer command queue
          PostsMayFail,  \* may a post find the queue full?
          MaxElapsed,    \* elapsed time is not counted beyond this bound
          MaxUInt16      \* the largest uint16_t, 65535

UInt16 == 0 .. MaxUInt16

button_config_t == [active_level : {"low", "high"},
                    long_press_time : UInt16,
                    repeat_press_timeout : UInt16,
                    max_repeat_presses : UInt16]

ASSUME ConfigsAssumption == Configs \subseteq button_config_t
ASSUME BoundsAssumption == /\ TickMs \in Nat \ {0}
                           /\ QueueLen \in Nat \ {0}
                           /\ PostsMayFail \in BOOLEAN
                           /\ MaxElapsed \in Nat
                           /\ MaxUInt16 \in Nat \ {0}

\* Milliseconds to ticks: rounded down, but a positive time is at least a tick.
button_ms_to_ticks(ms) == LET ticks == ms \div TickMs
                          IN  IF ms > 0 /\ ticks = 0 THEN 1 ELSE ticks

ASSUME ElapsedAssumption ==
    \A c \in Configs : /\ button_ms_to_ticks(c.long_press_time) <= MaxElapsed
                       /\ button_ms_to_ticks(c.repeat_press_timeout) <= MaxElapsed

VARIABLES config,        \* button->config, normalised
          press_count,   \* button->press_count
          timer_mode,    \* button->timer_mode
          active,        \* the event timer's "active" status
          remaining,     \* ticks until the active timer expires
          cmds,          \* commands on the event timer the daemon has to apply
          down,          \* history: the level of the last toggle callback
          owed,          \* history: presses since the last report,
                         \* counted to one more than the limit
          elapsed,       \* history: ticks since the last toggle callback
          last           \* history: the last event passed to the client

button == <<config, press_count, timer_mode>>
timer == <<active, remaining, cmds>>
history == <<down, owed, elapsed, last>>
vars == <<config, press_count, timer_mode, active, remaining, cmds,
          down, owed, elapsed, last>>

-----------------------------------------------------------------------------
(* The event timer's commands: a Nat p > 0 is xTimerChangePeriod(p), Stop is *)
(* xTimerStop.                                                               *)
Stop == 0
NoCommand == -1

\* The queues that may result from posting command c to queue q.  When posts
\* cannot fail the callbacks only run while the queue has room.
Post(q, c) ==
    IF c = NoCommand THEN {q}
    ELSE {r \in {q, Append(q, c)} : \/ r # q /\ Len(q) < QueueLen
                                    \/ r = q /\ PostsMayFail}

\* button_create's defaulting of the limit.  Fault: 0 stays 0.
asGiven(c) == c
normalized(c) == [c EXCEPT !.max_repeat_presses = IF @ = 0 THEN 1 ELSE @]

LongTicks == button_ms_to_ticks(config.long_press_time)
RepeatTicks == button_ms_to_ticks(config.repeat_press_timeout)
MaxPresses == config.max_repeat_presses

\* button->event_timer # NULL: button_create's needs_timer.  Fault: only the
\* repeat window is thought to need it.
windowTimer == MaxPresses > 1 /\ config.repeat_press_timeout > 0
event_timer == \/ config.long_press_time > 0
               \/ MaxPresses > 1 /\ config.repeat_press_timeout > 0

Kind(n) == CASE n = 1 -> "single_press"
             [] n = 2 -> "double_press"
             [] OTHER -> "tripple_press"

\* button_fire_event.  Fault: the count stays.
FireKeepsCount == IF press_count = 0
                    THEN UNCHANGED <<press_count, owed, last>>
                    ELSE /\ last' = Kind(press_count)
                         /\ owed' = 0
                         /\ UNCHANGED press_count
FireEvent == IF press_count = 0
               THEN UNCHANGED <<press_count, owed, last>>
               ELSE /\ last' = Kind(press_count)
                    /\ press_count' = 0
                    /\ owed' = 0

-----------------------------------------------------------------------------
\* A button just registered and synchronised by button_create; its contact may
\* be held.
Init == /\ config \in {normalized(c) : c \in Configs}
        /\ press_count = 0
        /\ timer_mode = "idle"
        /\ active = FALSE
        /\ remaining = 0
        /\ cmds = <<>>
        /\ down \in BOOLEAN
        /\ owed = 0
        /\ elapsed = 0
        /\ last = "none"

IncrementedCount == IF press_count < MaxPresses THEN press_count + 1
                                                ELSE MaxPresses

\* Does the press close the repeat window, and does it start the long press?
\* Faults: it never closes the window; every press starts the long press.
WindowStaysOpen == FALSE
LeavesWindow == event_timer /\ timer_mode = "repeat_window"
EveryPressStartsLong == event_timer /\ LongTicks > 0
StartsLong == event_timer /\ LongTicks > 0 /\ IncrementedCount = 1

\* button_toggle_callback with the contact pressed.
Press ==
    /\ press_count' = IncrementedCount
    /\ timer_mode' = IF StartsLong THEN "long_press"
                     ELSE IF LeavesWindow THEN "idle" ELSE timer_mode
    /\ \E q \in Post(cmds, IF LeavesWindow /\ active THEN Stop ELSE NoCommand) :
          cmds' \in Post(q, IF StartsLong THEN LongTicks ELSE NoCommand)
    /\ owed' = IF owed <= MaxPresses THEN owed + 1 ELSE owed
    /\ UNCHANGED <<config, active, remaining, last>>

RepeatDisabled == config.repeat_press_timeout = 0 \/ MaxPresses <= 1

\* Is the gesture over with the release?  Fault: the limit is not looked at.
LimitIgnored == RepeatDisabled \/ ~event_timer
IsOver == press_count >= MaxPresses \/ RepeatDisabled \/ ~event_timer

\* The timer call for the end of the gesture or for the wait for the next press.
ReleaseCommand == IF ~IsOver THEN RepeatTicks
                  ELSE IF event_timer /\ active THEN Stop ELSE NoCommand

\* The release stops a long press timer that it finds active.
StopsLong == event_timer /\ timer_mode = "long_press" /\ active

\* button_toggle_callback with the contact released.  Fault: the two timer calls
\* are made in the other order.
ReleaseWith(first, second) ==
    IF press_count = 0
      THEN UNCHANGED <<button, timer, owed, last>>
      ELSE /\ \E q \in Post(cmds, first) : cmds' \in Post(q, second)
           /\ timer_mode' = IF IsOver THEN "idle" ELSE "repeat_window"
           /\ IF IsOver THEN FireEvent
                        ELSE UNCHANGED <<press_count, owed, last>>
           /\ UNCHANGED <<config, active, remaining>>
ReleaseStopsLast == ReleaseWith(ReleaseCommand, IF StopsLong THEN Stop ELSE NoCommand)
Release == ReleaseWith(IF StopsLong THEN Stop ELSE NoCommand, ReleaseCommand)

\* The toggle layer calls back only when the level differs from the last one.
button_toggle_callback(high) ==
    LET pressed == (high = (config.active_level = "high"))
    IN  /\ pressed # down
        /\ down' = pressed
        /\ elapsed' = 0
        /\ IF pressed THEN Press ELSE Release

\* The report of a long press.  Fault: the count stays.
LongKeepsCount == last' = "long_press" /\ owed' = 0 /\ UNCHANGED press_count
ReportLong == last' = "long_press" /\ owed' = 0 /\ press_count' = 0

\* The report of the mode that the timer was set for.  Fault: the end of the
\* repeat window goes unreported.
LongModeOnly == IF timer_mode = "long_press" THEN ReportLong
                                             ELSE UNCHANGED <<press_count, owed, last>>
ReportMode == CASE timer_mode = "long_press" -> ReportLong
                [] timer_mode = "repeat_window" -> FireEvent
                [] OTHER -> UNCHANGED <<press_count, owed, last>>

\* button_event_timer_callback: the daemon calls it for the expired timer, whose
\* active status it has cleared, and only with no command left to apply.
button_event_timer_callback ==
    /\ active /\ remaining = 0 /\ cmds = <<>>
    /\ active' = FALSE
    /\ timer_mode' = "idle"
    /\ ReportMode
    /\ UNCHANGED <<config, remaining, cmds, down, elapsed>>

\* The daemon applies the oldest command.
Daemon == /\ cmds # <<>>
          /\ active' = (Head(cmds) # Stop)
          /\ remaining' = Head(cmds)
          /\ cmds' = Tail(cmds)
          /\ UNCHANGED <<button, history>>

Tick == /\ remaining' = IF remaining > 0 THEN remaining - 1 ELSE 0
        /\ elapsed' = IF elapsed < MaxElapsed THEN elapsed + 1 ELSE elapsed
        /\ UNCHANGED <<button, active, cmds, down, owed, last>>

Next == \/ \E high \in BOOLEAN : button_toggle_callback(high)
        \/ button_event_timer_callback
        \/ Daemon
        \/ Tick

\* Time passes and the daemon, a task of its own, keeps running; nobody has to
\* press or release the button.
Fairness == WF_vars(Tick) /\ WF_vars(Daemon) /\ WF_vars(button_event_timer_callback)

SafeSpec == Init /\ [][Next]_vars
Spec == SafeSpec /\ Fairness

-----------------------------------------------------------------------------
\* The types of the variables.
TypeOK == /\ config \in button_config_t /\ MaxPresses > 0
          /\ press_count \in UInt16
          /\ timer_mode \in {"idle", "long_press", "repeat_window"}
          /\ active \in BOOLEAN /\ remaining \in Nat /\ cmds \in Seq(Nat)
          /\ down \in BOOLEAN /\ owed \in Nat /\ elapsed \in 0 .. MaxElapsed
          /\ last \in {"none", "single_press", "double_press",
                       "tripple_press", "long_press"}

\* The counter is the number of presses no report covers: the saturation of
\* button_toggle_callback never drops a press, and no report leaves one behind or
\* counts one twice.
CountIsOwed == press_count = owed /\ owed <= MaxPresses

\* A released button with presses to report has its repeat window open, and a
\* window is open only then: no gesture is left with nobody to report it, and a
\* timer command that comes late finds nothing it could report twice.
WindowIffPending ==
    /\ timer_mode = "repeat_window" <=> (~down /\ owed > 0)
    /\ ~down => owed < MaxPresses
    /\ timer_mode = "repeat_window" => event_timer /\ RepeatTicks > 0

\* The timer means "long press" only while the first press of a gesture is held,
\* however late the daemon is and whichever posts were lost.
LongOnlyWhileHeld ==
    timer_mode = "long_press" => down /\ owed = 1 /\ LongTicks > 0

\* Every event that button.c passes to the client names the presses since the
\* last one: single, double or triple once the button is released, long while its
\* only press is held.  It does not depend on any post succeeding.
EventsMatchPresses ==
    [][last' # last \/ owed' < owed =>
          /\ owed > 0 /\ owed' = 0
          /\ \/ last' = Kind(owed) /\ ~down'
             \/ last' = "long_press" /\ down' /\ owed = 1 /\ LongTicks > 0]_vars

\* Even if the daemon loses any number of commands, a client who keeps pressing
\* and releasing keeps getting reports: presses do not pile up unreported.
KeepsReporting == ([]<>down /\ []<>~down) => []<>(owed = 0)

\* The event timer has been, or will be, set for p ticks after the last toggle
\* callback at the earliest: the newest command says so, or the daemon has
\* applied it and the timer has not run faster than the clock.
SetFor(p) == \/ cmds # <<>> /\ cmds[Len(cmds)] = p
             \/ cmds = <<>> /\ active /\ remaining + elapsed >= p

\* Unless a post fails, the mode the callbacks wrote down in timer_mode is what
\* the timer, which they only reach through the queue, is going to do.
TimerFollowsMode ==
    ~PostsMayFail => /\ timer_mode = "long_press" => SetFor(LongTicks)
                     /\ timer_mode = "repeat_window" => SetFor(RepeatTicks)

\* The abstract promise, with the times in ticks.
Policy(c) == [long |-> button_ms_to_ticks(c.long_press_time),
              repeat |-> button_ms_to_ticks(c.repeat_press_timeout),
              max |-> c.max_repeat_presses]
Promise == INSTANCE Gesture WITH Policies <- {Policy(normalized(c)) : c \in Configs},
                                 policy <- Policy(config), presses <- owed

\* Unless a post fails, every behaviour of button.c is one of Gesture's: events
\* are reported only when the presses and the time that passed call for them.
ImplementsGesture == Promise!SafeSpec

\* A released button's pending presses are reported unless it is pressed again.
PendingIsReported == (~down /\ owed > 0) ~> (down \/ owed = 0)

\* A first press that is held is reported as a long press unless it is released.
HeldIsReported == (down /\ owed = 1 /\ LongTicks > 0) ~> (~down \/ owed = 0)
=============================================================================
