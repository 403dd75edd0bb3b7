---------------------------- MODULE ButtonProofs ----------------------------
(***************************************************************************)
(* Proofs about Button for every set of configurations, tick length and    *)
(* queue capacity: the invariant of the gesture machine, with or without   *)
(* lost posts, and, without them, that it implements Gesture.              *)
(***************************************************************************)
EXTENDS Button, TLAPS

\* The configuration is one that button_create normalised.
ConfigOK == config \in {normalized(c) : c \in Configs}

\* The inductive invariant.  The four conjuncts need each other: that a count is
\* not saturated follows from the window's bound, the window's from the count.
Inv == /\ TypeOK
       /\ ConfigOK
       /\ CountIsOwed
       /\ WindowIffPending
       /\ LongOnlyWhileHeld
       /\ TimerFollowsMode

-----------------------------------------------------------------------------
\* The range of a uint16_t.
LEMMA UInt16Facts ==
    /\ UInt16 \subseteq Nat
    /\ 0 \in UInt16 /\ 1 \in UInt16
    /\ \A m \in UInt16, k \in Nat : k <= m => k \in UInt16
BY BoundsAssumption DEF UInt16

\* A time in ticks is a natural number, and positive when the time is.
LEMMA TicksType ==
    ASSUME NEW ms \in UInt16
    PROVE  /\ button_ms_to_ticks(ms) \in Nat
           /\ ms > 0 <=> button_ms_to_ticks(ms) > 0
<1>1. TickMs \in Nat /\ TickMs > 0
  BY BoundsAssumption
<1>2. ms \in Nat
  BY UInt16Facts
<1>3. ms \div TickMs \in Nat
  BY <1>1, <1>2, SMT
<1>4. ms = 0 => ms \div TickMs = 0
  BY <1>1, <1>2, SMT
<1> QED
  BY <1>1, <1>2, <1>3, <1>4 DEF button_ms_to_ticks

\* What a normalised configuration guarantees.
LEMMA ConfigFacts ==
    ASSUME ConfigOK
    PROVE  /\ config \in button_config_t
           /\ MaxPresses \in UInt16 /\ MaxPresses > 0
           /\ LongTicks \in 0 .. MaxElapsed
           /\ RepeatTicks \in 0 .. MaxElapsed
           /\ config.long_press_time > 0 <=> LongTicks > 0
           /\ config.repeat_press_timeout > 0 <=> RepeatTicks > 0
<1>1. PICK c \in Configs : config = normalized(c)
  BY DEF ConfigOK
<1>2. c \in button_config_t
  BY ConfigsAssumption
<1>3. /\ config \in button_config_t
      /\ config.max_repeat_presses > 0
      /\ config.long_press_time = c.long_press_time
      /\ config.repeat_press_timeout = c.repeat_press_timeout
  <2> DEFINE max == IF c.max_repeat_presses = 0 THEN 1 ELSE c.max_repeat_presses
  <2>1. c.max_repeat_presses \in UInt16
    BY <1>2 DEF button_config_t
  <2>2. max \in UInt16 /\ max \in Nat /\ max # 0
    <3>1. CASE c.max_repeat_presses = 0
      BY <3>1, UInt16Facts
    <3>2. CASE c.max_repeat_presses # 0
      BY <3>2, <2>1, UInt16Facts
    <3> QED
      BY <3>1, <3>2
  <2>3. max > 0
    BY <2>2
  <2>4. config = [c EXCEPT !.max_repeat_presses = max]
    BY <1>1 DEF normalized
  <2> HIDE DEF max
  <2> QED
    BY <1>2, <2>2, <2>3, <2>4 DEF button_config_t
<1>4. config.long_press_time \in UInt16 /\ config.repeat_press_timeout \in UInt16
  BY <1>3 DEF button_config_t
<1>5. LongTicks <= MaxElapsed /\ RepeatTicks <= MaxElapsed
  BY <1>3, ElapsedAssumption DEF LongTicks, RepeatTicks
<1>6. LongTicks \in Nat /\ RepeatTicks \in Nat
  BY <1>4, TicksType DEF LongTicks, RepeatTicks
<1> QED
  BY <1>3, <1>4, <1>5, <1>6, TicksType, BoundsAssumption
  DEF LongTicks, RepeatTicks, MaxPresses, button_config_t

\* Posting keeps the queue a queue; the posted command becomes the newest one
\* unless it was lost.
LEMMA PostType ==
    ASSUME NEW q \in Seq(Nat), NEW c \in Nat \cup {NoCommand}, NEW r \in Post(q, c)
    PROVE  /\ r \in Seq(Nat)
           /\ ~PostsMayFail /\ c # NoCommand => r # <<>> /\ r[Len(r)] = c
<1>1. CASE c = NoCommand
  BY <1>1 DEF Post
<1>2. CASE c # NoCommand
  <2>1. r = q \/ r = Append(q, c)
    BY <1>2 DEF Post
  <2>2. ~PostsMayFail => r = Append(q, c)
    BY <1>2 DEF Post
  <2>3. /\ Append(q, c) \in Seq(Nat)
        /\ Append(q, c) # <<>>
        /\ Append(q, c)[Len(Append(q, c))] = c
    BY <1>2
  <2> QED
    BY <2>1, <2>2, <2>3
<1> QED
  BY <1>1, <1>2

-----------------------------------------------------------------------------
LEMMA InitInv == Init => Inv
<1> SUFFICES ASSUME Init PROVE Inv
  OBVIOUS
<1>1. ConfigOK
  BY DEF Init, ConfigOK
<1>2. MaxPresses > 0 /\ MaxPresses \in Nat /\ config \in button_config_t
  BY <1>1, ConfigFacts, UInt16Facts
<1>3. TypeOK
  <2>1. press_count \in UInt16 /\ owed \in Nat /\ remaining \in Nat
    BY UInt16Facts DEF Init
  <2>2. elapsed \in 0 .. MaxElapsed
    BY BoundsAssumption DEF Init
  <2>3. /\ timer_mode \in {"idle", "long_press", "repeat_window"}
        /\ last \in {"none", "single_press", "double_press",
                     "tripple_press", "long_press"}
    BY DEF Init
  <2>4. active \in BOOLEAN /\ down \in BOOLEAN
    BY Zenon DEF Init
  <2>5. cmds \in Seq(Nat)
    BY DEF Init
  <2> QED
    BY <1>2, <2>1, <2>2, <2>3, <2>4, <2>5 DEF TypeOK
<1> QED
  BY <1>1, <1>2, <1>3
  DEF Init, Inv, CountIsOwed, WindowIffPending, LongOnlyWhileHeld, TimerFollowsMode

\* A step that changes neither the configuration nor what derives from it.
LEMMA ConfigStable ==
    ASSUME ConfigOK, config' = config
    PROVE  /\ ConfigOK'
           /\ LongTicks' = LongTicks /\ RepeatTicks' = RepeatTicks
           /\ MaxPresses' = MaxPresses /\ event_timer' = event_timer
BY DEF ConfigOK, LongTicks, RepeatTicks, MaxPresses, event_timer

\* The toggle callback of a press preserves the invariant.
LEMMA PressInv ==
    ASSUME Inv, ~down, down' = TRUE, elapsed' = 0, Press
    PROVE  Inv'
<1> USE DEF Stop, NoCommand, LeavesWindow, StartsLong
<1>1. /\ config' = config /\ ConfigOK /\ ConfigOK'
      /\ LongTicks' = LongTicks /\ RepeatTicks' = RepeatTicks
      /\ MaxPresses' = MaxPresses /\ event_timer' = event_timer
  BY ConfigStable DEF Press, Inv
<1>2. press_count \in Nat /\ press_count < MaxPresses /\ press_count = owed
  BY <1>1, ConfigFacts, UInt16Facts DEF Inv, TypeOK, CountIsOwed, WindowIffPending
<1>3. press_count' = press_count + 1 /\ owed' = owed + 1 /\ press_count' <= MaxPresses
  <2>1. MaxPresses \in Nat
    BY <1>1, ConfigFacts, UInt16Facts
  <2>2. press_count' = IncrementedCount /\ owed' = owed + 1
    BY <1>2, <2>1 DEF Press
  <2> QED
    BY <1>1, <1>2, <2>1, <2>2 DEF IncrementedCount
<1>4. PICK q \in Post(cmds, IF LeavesWindow /\ active THEN Stop ELSE NoCommand) :
         cmds' \in Post(q, IF StartsLong THEN LongTicks ELSE NoCommand)
  BY DEF Press
<1>5. q \in Seq(Nat)
  BY <1>4, PostType DEF Inv, TypeOK
<1>6. /\ cmds' \in Seq(Nat)
      /\ ~PostsMayFail /\ StartsLong => cmds' # <<>> /\ cmds'[Len(cmds')] = LongTicks
  <2>1. (IF StartsLong THEN LongTicks ELSE NoCommand) \in Nat \cup {NoCommand}
    BY <1>1, ConfigFacts
  <2>2. StartsLong => LongTicks # NoCommand
    BY <1>1, ConfigFacts
  <2> QED
    BY <1>4, <1>5, <2>1, <2>2, PostType
<1>7. timer_mode' = "long_press" <=> StartsLong
  BY DEF Press, Inv, LongOnlyWhileHeld
<1>8. timer_mode' # "repeat_window"
  BY DEF Press, Inv, WindowIffPending
<1>9. StartsLong => owed' = 1 /\ LongTicks > 0
  BY <1>2, <1>3 DEF Press
<1>10. TypeOK'
  <2>1. press_count' \in UInt16 /\ owed' \in Nat
    <3>1. MaxPresses \in UInt16
      BY <1>1, ConfigFacts
    <3> QED
      BY <1>2, <1>3, <3>1, UInt16Facts
  <2>2. config' \in button_config_t /\ MaxPresses' > 0
    BY <1>1, ConfigFacts
  <2>3. timer_mode' \in {"idle", "long_press", "repeat_window"}
    BY DEF Press, Inv, TypeOK
  <2>4. elapsed' \in 0 .. MaxElapsed
    BY BoundsAssumption
  <2>5. /\ active' \in BOOLEAN /\ remaining' \in Nat
        /\ last' \in {"none", "single_press", "double_press",
                      "tripple_press", "long_press"}
    BY DEF Press, Inv, TypeOK
  <2> QED
    BY <1>6, <2>1, <2>2, <2>3, <2>4, <2>5 DEF TypeOK
<1> QED
  BY <1>1, <1>2, <1>3, <1>6, <1>7, <1>8, <1>9, <1>10
  DEF Inv, CountIsOwed, WindowIffPending, LongOnlyWhileHeld, TimerFollowsMode, SetFor

\* The toggle callback of a release preserves the invariant.
LEMMA ReleaseInv ==
    ASSUME Inv, down, down' = FALSE, elapsed' = 0, Release
    PROVE  Inv'
<1> USE DEF Stop, NoCommand, ReleaseWith, ReleaseCommand, IsOver, StopsLong
<1>1. /\ config' = config /\ ConfigOK /\ ConfigOK'
      /\ LongTicks' = LongTicks /\ RepeatTicks' = RepeatTicks
      /\ MaxPresses' = MaxPresses /\ event_timer' = event_timer
  BY ConfigStable DEF Release, Inv, button
<1>2. /\ press_count \in Nat /\ press_count = owed
      /\ MaxPresses \in Nat /\ MaxPresses > 0
  BY <1>1, ConfigFacts, UInt16Facts DEF Inv, TypeOK, CountIsOwed
<1>3. elapsed' \in 0 .. MaxElapsed
  BY BoundsAssumption
<1>4. config' \in button_config_t /\ MaxPresses' > 0
  BY <1>1, ConfigFacts
<1>5. CASE press_count = 0
  <2>1. /\ press_count' = press_count /\ timer_mode' = timer_mode
        /\ active' = active /\ remaining' = remaining /\ cmds' = cmds
        /\ owed' = owed /\ last' = last
    BY <1>5 DEF Release, button, timer
  <2>2. timer_mode = "idle"
    BY <1>2, <1>5 DEF Inv, TypeOK, WindowIffPending, LongOnlyWhileHeld
  <2>3. TypeOK'
    <3>1. down' \in BOOLEAN
      OBVIOUS
    <3> QED
      BY <1>3, <1>4, <2>1, <3>1 DEF Inv, TypeOK
  <2>4. owed' = 0 /\ press_count' = 0 /\ timer_mode' = "idle"
    BY <1>2, <1>5, <2>1, <2>2
  <2> QED
    BY <1>1, <1>2, <2>3, <2>4
    DEF Inv, CountIsOwed, WindowIffPending, LongOnlyWhileHeld, TimerFollowsMode
<1>6. CASE press_count # 0 /\ IsOver
  <2>1. /\ press_count' = 0 /\ owed' = 0 /\ last' = Kind(press_count)
        /\ timer_mode' = "idle"
        /\ active' = active /\ remaining' = remaining
    BY <1>6 DEF Release, FireEvent
  <2>2. cmds' \in Seq(Nat)
    <3>1. PICK q \in Post(cmds, IF StopsLong THEN Stop ELSE NoCommand) :
             cmds' \in Post(q, IF event_timer /\ active THEN Stop ELSE NoCommand)
      BY <1>6 DEF Release
    <3>2. q \in Seq(Nat)
      BY <3>1, PostType DEF Inv, TypeOK
    <3> QED
      BY <3>1, <3>2, PostType
  <2>3. last' \in {"none", "single_press", "double_press",
                   "tripple_press", "long_press"}
    BY <2>1 DEF Kind
  <2>4. TypeOK'
    BY <1>3, <1>4, <2>1, <2>2, <2>3, UInt16Facts DEF Inv, TypeOK
  <2> QED
    BY <1>1, <1>2, <2>1, <2>4
    DEF Inv, CountIsOwed, WindowIffPending, LongOnlyWhileHeld, TimerFollowsMode
<1>7. CASE press_count # 0 /\ ~IsOver
  <2>1. /\ press_count' = press_count /\ owed' = owed /\ last' = last
        /\ timer_mode' = "repeat_window"
        /\ active' = active /\ remaining' = remaining
    BY <1>7 DEF Release
  <2>2. RepeatTicks > 0 /\ event_timer /\ press_count < MaxPresses
    <3>1. config.repeat_press_timeout \in Nat
      BY <1>1, ConfigFacts, UInt16Facts DEF button_config_t
    <3> QED
      BY <1>1, <1>2, <1>7, <3>1, ConfigFacts DEF RepeatDisabled
  <2>3. /\ cmds' \in Seq(Nat)
        /\ ~PostsMayFail => cmds' # <<>> /\ cmds'[Len(cmds')] = RepeatTicks
    <3>1. PICK q \in Post(cmds, IF StopsLong THEN Stop ELSE NoCommand) :
             cmds' \in Post(q, RepeatTicks)
      BY <1>7 DEF Release
    <3>2. q \in Seq(Nat)
      BY <3>1, PostType DEF Inv, TypeOK
    <3>3. RepeatTicks \in Nat
      BY <1>1, ConfigFacts, BoundsAssumption
    <3> QED
      BY <3>1, <3>2, <3>3, PostType
  <2>4. TypeOK'
    BY <1>3, <1>4, <2>1, <2>3 DEF Inv, TypeOK
  <2> QED
    BY <1>1, <1>2, <1>7, <2>1, <2>2, <2>3, <2>4
    DEF Inv, CountIsOwed, WindowIffPending, LongOnlyWhileHeld, TimerFollowsMode, SetFor
<1> QED
  BY <1>5, <1>6, <1>7

\* The expiry of the event timer preserves the invariant.
LEMMA TimerCallbackInv ==
    ASSUME Inv, button_event_timer_callback
    PROVE  Inv'
<1>1. /\ config' = config /\ ConfigOK /\ ConfigOK'
      /\ LongTicks' = LongTicks /\ RepeatTicks' = RepeatTicks
      /\ MaxPresses' = MaxPresses /\ event_timer' = event_timer
  BY ConfigStable DEF button_event_timer_callback, Inv, ReportMode, ReportLong
<1>2. /\ timer_mode' = "idle" /\ down' = down /\ elapsed' = elapsed
      /\ active' = FALSE /\ remaining' = remaining /\ cmds' = cmds
  BY DEF button_event_timer_callback, ReportMode, ReportLong
<1>3. /\ press_count \in Nat /\ press_count = owed
      /\ MaxPresses \in Nat /\ MaxPresses > 0
  BY <1>1, ConfigFacts, UInt16Facts DEF Inv, TypeOK, CountIsOwed
<1>4. CASE timer_mode = "long_press" \/ timer_mode = "repeat_window"
  <2>1. press_count # 0
    BY <1>3, <1>4 DEF Inv, WindowIffPending, LongOnlyWhileHeld
  <2>2. /\ press_count' = 0 /\ owed' = 0
        /\ last' \in {"single_press", "double_press", "tripple_press", "long_press"}
    BY <1>4, <2>1
    DEF button_event_timer_callback, ReportMode, ReportLong, FireEvent, Kind
  <2>3. TypeOK'
    BY <1>1, <1>2, <2>2, ConfigFacts, UInt16Facts DEF Inv, TypeOK
  <2> QED
    BY <1>1, <1>2, <1>3, <2>2, <2>3
    DEF Inv, CountIsOwed, WindowIffPending, LongOnlyWhileHeld, TimerFollowsMode
<1>5. CASE timer_mode = "idle"
  <2>1. UNCHANGED <<press_count, owed, last>>
    BY <1>5 DEF button_event_timer_callback, ReportMode, ReportLong
  <2>2. TypeOK'
    BY <1>1, <1>2, <2>1, ConfigFacts DEF Inv, TypeOK
  <2> QED
    BY <1>1, <1>2, <1>5, <2>1, <2>2
    DEF Inv, CountIsOwed, WindowIffPending, LongOnlyWhileHeld, TimerFollowsMode
<1> QED
  BY <1>4, <1>5 DEF Inv, TypeOK

\* Applying a command preserves the invariant: the timer is set for what the
\* newest command asked for.
LEMMA DaemonInv ==
    ASSUME Inv, Daemon
    PROVE  Inv'
<1> USE DEF Stop
<1>1. /\ config' = config /\ ConfigOK /\ ConfigOK'
      /\ LongTicks' = LongTicks /\ RepeatTicks' = RepeatTicks
      /\ MaxPresses' = MaxPresses /\ event_timer' = event_timer
  BY ConfigStable DEF Daemon, Inv, button
<1>2. UNCHANGED <<press_count, timer_mode, down, owed, elapsed, last>>
  BY DEF Daemon, button, history
<1>3. /\ cmds \in Seq(Nat) /\ cmds # <<>> /\ elapsed \in Nat
      /\ remaining' = Head(cmds) /\ cmds' = Tail(cmds)
      /\ active' = (Head(cmds) # 0)
  BY BoundsAssumption DEF Daemon, Inv, TypeOK
<1>4. Head(cmds) \in Nat /\ Tail(cmds) \in Seq(Nat)
  BY <1>3
<1>5. TypeOK'
  <2>1. active' \in BOOLEAN
    BY <1>3
  <2> QED
    BY <1>1, <1>2, <1>3, <1>4, <2>1, ConfigFacts DEF Inv, TypeOK
<1>6. ASSUME NEW p \in Nat, p > 0, SetFor(p)
      PROVE  SetFor(p)'
  <2>1. cmds[Len(cmds)] = p
    BY <1>3, <1>6 DEF SetFor
  <2>2. CASE Len(cmds) = 1
    <3>1. cmds' = <<>> /\ Head(cmds) = p
      BY <1>3, <2>1, <2>2
    <3>2. remaining' = p /\ Head(cmds) # 0
      BY <1>3, <1>6, <3>1
    <3>3. active'
      BY <1>3, <3>2, Zenon
    <3>4. remaining' + elapsed' >= p
      BY <1>2, <1>3, <1>6, <3>2
    <3> QED
      BY <3>1, <3>3, <3>4 DEF SetFor
  <2>3. CASE Len(cmds) > 1
    <3>1. Len(Tail(cmds)) = Len(cmds) - 1
      BY <1>3
    <3>2. Tail(cmds)[Len(cmds) - 1] = cmds[Len(cmds)]
      BY <1>3, <2>3
    <3>3. cmds'[Len(cmds')] = p
      BY <1>3, <2>1, <3>1, <3>2
    <3>4. cmds' # <<>>
      <4>1. Len(cmds') # 0
        BY <1>3, <2>3, <3>1
      <4> QED
        BY <4>1
    <3> QED
      BY <3>3, <3>4 DEF SetFor
  <2>4. Len(cmds) = 1 \/ Len(cmds) > 1
    <3>1. Len(cmds) \in Nat /\ Len(cmds) # 0
      BY <1>3
    <3> QED
      BY <3>1
  <2> QED
    BY <2>2, <2>3, <2>4
<1>7. TimerFollowsMode'
  <2>1. LongTicks \in Nat /\ RepeatTicks \in Nat
    BY <1>1, ConfigFacts
  <2>2. /\ timer_mode = "long_press" => LongTicks > 0
        /\ timer_mode = "repeat_window" => RepeatTicks > 0
    BY DEF Inv, LongOnlyWhileHeld, WindowIffPending
  <2>3. /\ (timer_mode = "long_press" /\ SetFor(LongTicks)) => SetFor(LongTicks)'
        /\ (timer_mode = "repeat_window" /\ SetFor(RepeatTicks)) => SetFor(RepeatTicks)'
    BY <1>1, <1>6, <2>1, <2>2 DEF SetFor
  <2> QED
    BY <1>1, <1>2, <2>3 DEF Inv, TimerFollowsMode
<1> QED
  BY <1>1, <1>2, <1>5, <1>7
  DEF Inv, CountIsOwed, WindowIffPending, LongOnlyWhileHeld

\* Time preserves the invariant: the timer does not outrun the clock.
LEMMA TickInv ==
    ASSUME Inv, Tick
    PROVE  Inv'
<1>1. /\ config' = config /\ ConfigOK /\ ConfigOK'
      /\ LongTicks' = LongTicks /\ RepeatTicks' = RepeatTicks
      /\ MaxPresses' = MaxPresses /\ event_timer' = event_timer
  BY ConfigStable DEF Tick, Inv, button
<1>2. UNCHANGED <<press_count, timer_mode, active, cmds, down, owed, last>>
  BY DEF Tick, button
<1>3. /\ remaining \in Nat /\ elapsed \in 0 .. MaxElapsed /\ MaxElapsed \in Nat
      /\ remaining' = IF remaining > 0 THEN remaining - 1 ELSE 0
      /\ elapsed' = IF elapsed < MaxElapsed THEN elapsed + 1 ELSE elapsed
  BY BoundsAssumption DEF Tick, Inv, TypeOK
<1>4. remaining' \in Nat /\ elapsed' \in 0 .. MaxElapsed
  BY <1>3
<1>5. TypeOK'
  BY <1>1, <1>2, <1>4, ConfigFacts DEF Inv, TypeOK
<1>6. ASSUME NEW p \in 0 .. MaxElapsed, remaining + elapsed >= p
      PROVE  remaining' + elapsed' >= p
  BY <1>3, <1>6
<1>7. TimerFollowsMode'
  <2>1. LongTicks \in 0 .. MaxElapsed /\ RepeatTicks \in 0 .. MaxElapsed
    BY <1>1, ConfigFacts
  <2>2. /\ remaining + elapsed >= LongTicks => remaining' + elapsed' >= LongTicks
        /\ remaining + elapsed >= RepeatTicks => remaining' + elapsed' >= RepeatTicks
    BY <1>6, <2>1
  <2> QED
    BY <1>1, <1>2, <2>2 DEF Inv, TimerFollowsMode, SetFor
<1> QED
  BY <1>1, <1>2, <1>5, <1>7
  DEF Inv, CountIsOwed, WindowIffPending, LongOnlyWhileHeld

\* Every step preserves the invariant.
LEMMA NextInv == Inv /\ [Next]_vars => Inv'
<1> SUFFICES ASSUME Inv, [Next]_vars PROVE Inv'
  OBVIOUS
<1>1. ASSUME NEW high \in BOOLEAN, button_toggle_callback(high) PROVE Inv'
  <2> DEFINE pressed == (high = (config.active_level = "high"))
  <2>1. CASE pressed
    <3>1. ~down /\ down' = TRUE /\ elapsed' = 0 /\ Press
      BY <1>1, <2>1 DEF button_toggle_callback, Inv, TypeOK
    <3> QED
      BY <3>1, PressInv
  <2>2. CASE ~pressed
    <3>1. down /\ down' = FALSE /\ elapsed' = 0 /\ Release
      BY <1>1, <2>2 DEF button_toggle_callback, Inv, TypeOK
    <3> QED
      BY <3>1, ReleaseInv
  <2> QED
    BY <2>1, <2>2
<1>2. CASE button_event_timer_callback
  BY <1>2, TimerCallbackInv
<1>3. CASE Daemon
  BY <1>3, DaemonInv
<1>4. CASE Tick
  BY <1>4, TickInv
<1>5. CASE UNCHANGED vars
  BY <1>5 DEF vars, Inv, TypeOK, ConfigOK, CountIsOwed, WindowIffPending,
     LongOnlyWhileHeld, TimerFollowsMode, SetFor, LongTicks, RepeatTicks,
     MaxPresses, event_timer
<1> QED
  BY <1>1, <1>2, <1>3, <1>4, <1>5 DEF Next

\* The invariant of the gesture machine, whatever posts are lost: the types, the
\* count is the presses to report, a window is open exactly when a released
\* button has some, the timer means "long press" only while a first press is held.
THEOREM ButtonInvariant ==
    SafeSpec => [](TypeOK /\ CountIsOwed /\ WindowIffPending /\ LongOnlyWhileHeld)
<1>1. Inv => TypeOK /\ CountIsOwed /\ WindowIffPending /\ LongOnlyWhileHeld
  BY DEF Inv
<1> QED
  BY InitInv, NextInv, <1>1, PTL DEF SafeSpec

\* The counter of presses, which saturates, and which a callback clears only after it
\* has called the client, is the presses that the client has still to hear of.
COROLLARY CountsArePresses == SafeSpec => []CountIsOwed
BY ButtonInvariant, PTL

\* A window for another press is open exactly while presses of a released button
\* wait to be reported.
COROLLARY WindowMeansPending == SafeSpec => []WindowIffPending
BY ButtonInvariant, PTL

\* The timer means a long press only while the first press is held.
COROLLARY LongMeansHeld == SafeSpec => []LongOnlyWhileHeld
BY ButtonInvariant, PTL

\* Without lost posts the timer is always set for what timer_mode says.
THEOREM TimerSet == SafeSpec => []TimerFollowsMode
<1>1. Inv => TimerFollowsMode
  BY DEF Inv
<1> QED
  BY InitInv, NextInv, <1>1, PTL DEF SafeSpec

-----------------------------------------------------------------------------
(* What a step of the machine looks like to the client.                      *)

MayGrow == RepeatTicks > 0 /\ owed < MaxPresses

Pressed == /\ ~down /\ down' = TRUE /\ elapsed' = 0
           /\ owed' = owed + 1 /\ last' = last

Released == /\ down /\ down' = FALSE /\ elapsed' = 0
            /\ owed = 0 \/ MayGrow
            /\ owed' = owed /\ last' = last

ReleasedReporting == /\ down /\ down' = FALSE /\ elapsed' = 0
                     /\ owed > 0 /\ ~MayGrow
                     /\ owed' = 0 /\ last' = Kind(owed)

Expired(mode) == /\ timer_mode = mode /\ active /\ remaining = 0 /\ cmds = <<>>
                 /\ owed > 0 /\ owed' = 0
                 /\ down' = down /\ elapsed' = elapsed

LongReported == /\ Expired("long_press") /\ down /\ owed = 1 /\ LongTicks > 0
                /\ last' = "long_press"

GapReported == /\ Expired("repeat_window") /\ ~down
               /\ last' = Kind(owed)

Quiet == /\ down' = down /\ owed' = owed /\ last' = last
         /\ \/ elapsed' = elapsed
            \/ elapsed' = IF elapsed < MaxElapsed THEN elapsed + 1 ELSE elapsed

\* Every step is one of these: the only reports are the release that closes a
\* gesture and the two meanings of the timer.
LEMMA StepShape ==
    ASSUME Inv, [Next]_vars
    PROVE  /\ config' = config
           /\ \/ Pressed \/ Released \/ ReleasedReporting
              \/ LongReported \/ GapReported \/ Quiet
<1>1. /\ owed = press_count /\ owed \in Nat
      /\ MaxPresses \in Nat /\ MaxPresses > 0
      /\ event_timer <=> LongTicks > 0 \/ (MaxPresses > 1 /\ RepeatTicks > 0)
      /\ config.repeat_press_timeout \in Nat
      /\ config.repeat_press_timeout > 0 <=> RepeatTicks > 0
  <2>1. ConfigOK
    BY DEF Inv
  <2> QED
    BY <2>1, ConfigFacts, UInt16Facts
    DEF Inv, TypeOK, CountIsOwed, event_timer, button_config_t
<1>2. ASSUME NEW high \in BOOLEAN, button_toggle_callback(high)
      PROVE  config' = config /\ (Pressed \/ Released \/ ReleasedReporting)
  <2> DEFINE pressed == (high = (config.active_level = "high"))
  <2>1. CASE pressed
    <3>1. ~down /\ down' = TRUE /\ elapsed' = 0 /\ Press
      BY <1>2, <2>1 DEF button_toggle_callback, Inv, TypeOK
    <3>2. owed <= MaxPresses
      BY <1>1, <3>1 DEF Inv, CountIsOwed
    <3> QED
      BY <3>1, <3>2 DEF Press, Pressed
  <2>2. CASE ~pressed
    <3>1. down /\ down' = FALSE /\ elapsed' = 0 /\ Release
      BY <1>2, <2>2 DEF button_toggle_callback, Inv, TypeOK
    <3>2. press_count > 0 => (IsOver <=> ~MayGrow)
      BY <1>1 DEF IsOver, RepeatDisabled, MayGrow
    <3>3. CASE press_count = 0
      BY <1>1, <3>1, <3>3 DEF Release, ReleaseWith, Released, button
    <3>4. CASE press_count # 0 /\ IsOver
      <4>1. config' = config /\ owed' = 0 /\ last' = Kind(press_count)
        BY <3>1, <3>4 DEF Release, ReleaseWith, FireEvent
      <4> QED
        BY <1>1, <3>1, <3>2, <3>4, <4>1 DEF ReleasedReporting
    <3>5. CASE press_count # 0 /\ ~IsOver
      <4>1. config' = config /\ owed' = owed /\ last' = last
        BY <3>1, <3>5 DEF Release, ReleaseWith
      <4> QED
        BY <1>1, <3>1, <3>2, <3>5, <4>1 DEF Released
    <3> QED
      BY <3>3, <3>4, <3>5
  <2> QED
    BY <2>1, <2>2
<1>3. CASE button_event_timer_callback
  <2>1. /\ config' = config /\ down' = down /\ elapsed' = elapsed
        /\ active /\ remaining = 0 /\ cmds = <<>>
    BY <1>3 DEF button_event_timer_callback, ReportMode, ReportLong
  <2>2. CASE timer_mode = "long_press"
    <3>1. down /\ owed = 1 /\ LongTicks > 0
      BY <2>2 DEF Inv, LongOnlyWhileHeld
    <3>2. owed' = 0 /\ last' = "long_press"
      BY <1>3, <2>2 DEF button_event_timer_callback, ReportMode, ReportLong
    <3> QED
      BY <2>1, <2>2, <3>1, <3>2 DEF LongReported, Expired
  <2>3. CASE timer_mode = "repeat_window"
    <3>1. ~down /\ owed > 0
      BY <2>3 DEF Inv, WindowIffPending
    <3>2. owed' = 0 /\ last' = Kind(owed)
      BY <1>1, <1>3, <2>3, <3>1 DEF button_event_timer_callback, ReportMode, FireEvent
    <3> QED
      BY <2>1, <2>3, <3>1, <3>2 DEF GapReported, Expired
  <2>4. CASE timer_mode = "idle"
    <3>1. owed' = owed /\ last' = last
      BY <1>3, <2>4 DEF button_event_timer_callback, ReportMode, ReportLong
    <3> QED
      BY <2>1, <3>1 DEF Quiet
  <2> QED
    BY <2>2, <2>3, <2>4 DEF Inv, TypeOK
<1>4. CASE Daemon
  BY <1>4 DEF Daemon, Quiet, button, history
<1>5. CASE Tick
  BY <1>5 DEF Tick, Quiet, button
<1>6. CASE UNCHANGED vars
  BY <1>6 DEF vars, Quiet
<1> QED
  BY <1>2, <1>3, <1>4, <1>5, <1>6 DEF Next

\* Whatever posts are lost, an event names the presses since the last one.
THEOREM EventsNamePresses == SafeSpec => EventsMatchPresses
<1> DEFINE Good == last' # last \/ owed' < owed =>
                     /\ owed > 0 /\ owed' = 0
                     /\ \/ last' = Kind(owed) /\ ~down'
                        \/ last' = "long_press" /\ down' /\ owed = 1 /\ LongTicks > 0
<1>1. Inv /\ [Next]_vars => [Good]_vars
  <2> SUFFICES ASSUME Inv, [Next]_vars PROVE Good
    OBVIOUS
  <2>1. owed \in Nat
    BY DEF Inv, TypeOK
  <2>2. CASE Pressed \/ Released \/ Quiet
    BY <2>1, <2>2 DEF Pressed, Released, Quiet
  <2>3. CASE ReleasedReporting
    BY <2>3 DEF ReleasedReporting
  <2>4. CASE LongReported
    BY <2>4 DEF LongReported, Expired
  <2>5. CASE GapReported
    BY <2>5 DEF GapReported, Expired
  <2> QED
    BY <2>2, <2>3, <2>4, <2>5, StepShape
<1> QED
  BY InitInv, NextInv, <1>1, PTL DEF SafeSpec, EventsMatchPresses

\* The policy of Gesture in the button's terms.
LEMMA PolicyFields == /\ Policy(config).long = LongTicks
                      /\ Policy(config).repeat = RepeatTicks
                      /\ Policy(config).max = MaxPresses
BY DEF Policy, LongTicks, RepeatTicks, MaxPresses

\* When no post is lost, each step is one of Gesture's or leaves what the client
\* sees alone: the timer can only expire once its time has passed.
LEMMA StepImplements ==
    ASSUME ~PostsMayFail, Inv, [Next]_vars
    PROVE  [Promise!Next]_(Promise!vars)
<1>1. /\ config' = config /\ Policy(config') = Policy(config)
      /\ owed \in Nat /\ elapsed \in Nat /\ MaxPresses \in Nat
  <2>1. config' = config
    BY StepShape
  <2>2. MaxPresses \in Nat
    BY ConfigFacts, UInt16Facts DEF Inv
  <2>3. owed \in Nat /\ elapsed \in Nat
    BY BoundsAssumption DEF Inv, TypeOK
  <2> QED
    BY <2>1, <2>2, <2>3
<1>2. MayGrow <=> Promise!MayGrow(owed)
  BY PolicyFields DEF MayGrow, Promise!MayGrow
<1>3. Kind(owed) = Promise!Kind(owed)
  BY DEF Kind, Promise!Kind
<1>4. CASE Pressed
  BY <1>1, <1>4 DEF Pressed, Promise!Next, Promise!Press
<1>5. CASE Released
  BY <1>1, <1>2, <1>5 DEF Released, Promise!Next, Promise!Release
<1>6. CASE ReleasedReporting
  <2>1. ~(owed = 0 \/ Promise!MayGrow(owed))
    BY <1>1, <1>2, <1>6 DEF ReleasedReporting
  <2> QED
    BY <1>1, <1>3, <1>6, <2>1
    DEF ReleasedReporting, Promise!Next, Promise!Release, Promise!Report
<1>7. CASE LongReported
  <2>1. SetFor(LongTicks)
    BY <1>7 DEF LongReported, Expired, Inv, TimerFollowsMode
  <2>2. elapsed >= LongTicks
    BY <1>1, <1>7, <2>1 DEF LongReported, Expired, SetFor
  <2> QED
    BY <1>1, <1>7, <2>2, PolicyFields
    DEF LongReported, Expired, Promise!Next, Promise!ReportLong, Promise!Report
<1>8. CASE GapReported
  <2>1. SetFor(RepeatTicks)
    BY <1>8 DEF GapReported, Expired, Inv, TimerFollowsMode
  <2>2. elapsed >= RepeatTicks
    BY <1>1, <1>8, <2>1 DEF GapReported, Expired, SetFor
  <2> QED
    BY <1>1, <1>3, <1>8, <2>2, PolicyFields
    DEF GapReported, Expired, Promise!Next, Promise!ReportGap, Promise!Report
<1>9. CASE Quiet
  BY <1>1, <1>9 DEF Quiet, Promise!Next, Promise!Tick, Promise!vars
<1> QED
  BY <1>4, <1>5, <1>6, <1>7, <1>8, <1>9, StepShape

\* With no lost post, button.c keeps the promise Gesture states: no event before
\* its time, none for presses already reported, none missing at the last release.
THEOREM ButtonImplementsGesture ==
    ASSUME ~PostsMayFail
    PROVE  SafeSpec => ImplementsGesture
<1>1. Init => Promise!Init
  BY DEF Init, Promise!Init
<1>2. Inv /\ [Next]_vars => [Promise!Next]_(Promise!vars)
  BY StepImplements
<1> QED
  BY InitInv, NextInv, <1>1, <1>2, PTL DEF SafeSpec, ImplementsGesture, Promise!SafeSpec
=============================================================================
