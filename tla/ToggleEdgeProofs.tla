-------------------------- MODULE ToggleEdgeProofs --------------------------
(***************************************************************************)
(* Proofs about Toggle when the calls for a GPIO are made one after        *)
(* another (Serial), as button.c makes them: TogglesAreSerial of           *)
(* ButtonLifecycleProofs.  A registered toggle is complete, on one core or *)
(* two.  No edge of its pin is lost between the ISR, the queue, the daemon *)
(* and toggle_sync_state, but by a sample taken while the daemon holds one *)
(* (Apart): on one core none is.                                           *)
(***************************************************************************)
EXTENDS ToggleProofs, SequenceTheorems

\* No two calls for the GPIO overlap.
Serial == \A t, u \in Tasks : pc[t] # "idle" /\ pc[u] # "idle" => t = u

At(S) == \E t \in Tasks : pc[t] \in S

\* What task t has done so far of its creation.
Stage(t) ==
    /\ pc[t] = "wipe" => ~toggle_map
    /\ pc[t] \in {"timer", "sample", "type", "handler", "enable", "publish"}
          => slot.callback # NULL
    /\ pc[t] \in {"sample", "type", "handler", "enable", "publish"} => slot.timer
    /\ pc[t] \in {"handler", "enable", "publish"} => driver.type
    /\ pc[t] \in {"enable", "publish"} => driver.handler
    /\ pc[t] = "publish" => driver.enabled

Staged == RegisteredIsLive /\ \A t \in Tasks : Stage(t)

\* Once the queue is empty the timer will run: the last command decides.
WillFire == IF q = <<>> THEN active ELSE q[Len(q)] = "start"

\* The flag that has the ISR reset the timer, and not care whether that is
\* refused, stands for a timer that will expire.
Armed == ~panic /\ slot.armed /\ isr # "start" =>
            WillFire \/ daemon.pc = "disarm" \/ At({"flag"})

\* The first sample has been taken, and the toggle is not given up.
Live == toggle_map \/ At({"type", "handler", "enable", "publish"})

\* The level the toggle has, or the daemon is about to give it, is the pin's.
Seen == IF daemon.pc = "compare" THEN daemon.high = pin ELSE slot.last_high = pin

\* A task does not sample the pin while the daemon holds a reading it has not used.
Apart == (\E t \in Tasks : Sample(t) \/ SyncSample(t)) => daemon.pc # "compare"

\* The pin's level has been seen, or something under way will read it.  A reset the
\* ISR is about to make does not count: it may be refused.
Pending == Live /\ ~missed /\ ~panic =>
              \/ irq \/ isr = "start" \/ WillFire \/ daemon.pc \in {"disarm", "read"}
              \/ At(Syncing) \/ Seen

Base == Inv /\ TypeOK

LEMMA BaseSteps == (Init => Base) /\ (Base /\ [Next]_vars => Base')
BY TypedSteps DEF Base

LEMMA BaseType == Base => Typed /\ RegistryType
BY TypeParts DEF Base, Typed

\* A task that moves is the only one inside a call.
LEMMA Alone ==
    ASSUME Base, Serial, Serial', NEW t \in Tasks, NEW from \in Places,
           NEW to \in Places, Goto(t, from, to), from # "idle" \/ to # "idle"
    PROVE  /\ pc[t] = from /\ pc'[t] = to
           /\ \A u \in Tasks \ {t} : pc[u] = "idle" /\ pc'[u] = "idle"
BY GotoMoves, BaseType DEF Serial

LEMMA AloneAt ==
    ASSUME Base, Serial, Serial', NEW t \in Tasks, NEW from \in Places,
           NEW to \in Places, Goto(t, from, to), from # "idle" \/ to # "idle",
           NEW S, "idle" \notin S
    PROVE  (At(S) <=> from \in S) /\ (At(S)' <=> to \in S)
BY Alone DEF At

-----------------------------------------------------------------------------
(* A registered toggle is complete.                                         *)

LEMMA InitStaged == Init => Staged
BY DEF Init, Staged, Stage, RegisteredIsLive

\* Nothing that Staged is about changes.
LEMMA StagedKept ==
    ASSUME Staged, UNCHANGED <<toggle_map, pc, driver>>,
           slot'.callback = slot.callback, slot'.timer = slot.timer
    PROVE  Staged'
BY DEF Staged, Stage, RegisteredIsLive, InterruptOn

\* The ISR and the daemon write only the flag and the level.
LEMMA StagedOthers ==
    ASSUME Base, Staged, PinChanges \/ IsrEntry \/ IsrPost \/ DaemonNext
    PROVE  Staged'
<1>1. UNCHANGED <<toggle_map, pc, driver>>
  BY DEF PinChanges, IsrEntry, IsrPost, DaemonNext, Expire, Command, Drained, Disarm,
         Read, Compare, tasks
<1>2. \/ slot' = slot
      \/ \E b \in BOOLEAN : slot' = [slot EXCEPT !.armed = b]
      \/ slot' = [slot EXCEPT !.last_high = daemon.high]
  BY DEF PinChanges, IsrEntry, IsrPost, DaemonNext, Expire, Command, Drained, Disarm,
         Read, Compare
<1>3. slot \in Slots
  BY BaseType DEF Typed
<1>4. slot'.callback = slot.callback /\ slot'.timer = slot.timer
  <2>1. CASE slot' = slot
    BY <2>1
  <2>2. CASE \E b \in BOOLEAN : slot' = [slot EXCEPT !.armed = b]
    BY <2>2, <1>3 DEF Slots
  <2>3. CASE slot' = [slot EXCEPT !.last_high = daemon.high]
    BY <2>3, <1>3 DEF Slots
  <2> QED
    BY <1>2, <2>1, <2>2, <2>3
<1> QED
  BY <1>1, <1>4, StagedKept

\* What a step of task t has to establish.
LEMMA StagedByTask ==
    ASSUME Base, Serial, Serial', NEW t \in Tasks, NEW from \in Places,
           NEW to \in Places, Goto(t, from, to), from # "idle" \/ to # "idle",
           RegisteredIsLive', Stage(t)'
    PROVE  Staged'
BY Alone DEF Staged, Stage

\* The claim keeps a toggle and a creation or a deletion apart.
LEMMA OwnerHasNoToggle ==
    ASSUME Base, NEW t \in Tasks, pc[t] \in Creating \cup Deleting
    PROVE  toggle_map = FALSE
BY InvByTask, BaseType DEF Base, Owns, RegistryType

LEMMA StagedTask ==
    ASSUME Base, Staged, Serial, Serial', NEW t \in Tasks, Call(t) \/ Step(t)
    PROVE  Staged'
<1> USE DEF Places, Creating, Deleting, Syncing
<1>1. slot \in Slots /\ driver \in Drivers
  BY BaseType DEF Typed
<1>2. CASE Call(t)
  <2>1. UNCHANGED <<slot, driver>>
    BY <1>2 DEF Call, ToggleInit, Delete, Sync
  <2>2. CASE ToggleInit(t)
    <3>1. Goto(t, "idle", "claim") /\ toggle_map' = toggle_map
      BY <2>2 DEF ToggleInit, registry
    <3>2. pc'[t] = "claim"
      BY <3>1, Alone
    <3>3. RegisteredIsLive' /\ Stage(t)'
      BY <2>1, <3>1, <3>2 DEF Staged, Stage, RegisteredIsLive, InterruptOn
    <3> QED
      BY <3>1, <3>3, StagedByTask
  <2>3. CASE Delete(t) /\ toggle_map
    <3>1. Goto(t, "idle", "interrupt") /\ toggle_map' = FALSE
      BY <2>3 DEF Delete
    <3>2. pc'[t] = "interrupt"
      BY <3>1, Alone
    <3> QED
      BY <3>1, <3>2, StagedByTask DEF Stage, RegisteredIsLive
  <2>4. CASE Sync(t) /\ toggle_map
    <3>1. PICK to \in {"stop", "flag"} : Goto(t, "idle", to)
      BY <2>4 DEF Sync
    <3>2. toggle_map' = toggle_map
      BY <2>4 DEF Sync
    <3>3. pc'[t] = to
      BY <3>1, Alone
    <3>4. RegisteredIsLive' /\ Stage(t)'
      BY <2>1, <3>2, <3>3 DEF Staged, Stage, RegisteredIsLive, InterruptOn
    <3> QED
      BY <3>1, <3>4, StagedByTask
  <2>5. CASE (Delete(t) \/ Sync(t)) /\ ~toggle_map
    <3>1. Goto(t, "idle", "idle") /\ toggle_map' = toggle_map
      BY <2>5 DEF Delete, Sync
    <3>2. pc' = pc
      BY <3>1, BaseType DEF Goto, RegistryType
    <3> QED
      BY <2>1, <3>1, <3>2, StagedKept
  <2> QED
    BY <1>2, <2>2, <2>3, <2>4, <2>5 DEF Call
<1>3. CASE Claim(t)
  <2>1. PICK to \in {"fill", "idle"} : Goto(t, "claim", to)
    BY <1>3 DEF Claim
  <2>2. UNCHANGED <<toggle_map, slot, driver>>
    BY <1>3 DEF Claim
  <2>3. pc'[t] = to
    BY <2>1, Alone
  <2>4. RegisteredIsLive' /\ Stage(t)'
    BY <2>2, <2>3 DEF Staged, Stage, RegisteredIsLive, InterruptOn
  <2> QED
    BY <2>1, <2>4, StagedByTask
<1>4. CASE Fill(t)
  <2>1. Goto(t, "fill", "timer") /\ toggle_map' = toggle_map
    BY <1>4 DEF Fill, registry
  <2>2. pc[t] = "fill" /\ pc'[t] = "timer"
    BY <2>1, Alone
  <2>3. slot'.callback # NULL
    BY <1>4, ToggleAssumption DEF Fill, Wiped
  <2>4. toggle_map' = FALSE
    BY <2>1, <2>2, OwnerHasNoToggle
  <2> QED
    BY <2>1, <2>2, <2>3, <2>4, StagedByTask DEF Stage, RegisteredIsLive
<1>5. CASE CreateTimer(t)
  <2>1. toggle_map' = toggle_map
    BY <1>5 DEF CreateTimer, registry
  <2>2. pc[t] = "timer"
    BY <1>5 DEF CreateTimer, Goto
  <2>3. toggle_map' = FALSE
    BY <2>1, <2>2, OwnerHasNoToggle
  <2>4. CASE Goto(t, "timer", "sample") /\ slot' = [slot EXCEPT !.timer = TRUE]
    <3>1. slot'.callback = slot.callback /\ slot'.timer
      BY <1>1, <2>4 DEF Slots
    <3>2. pc'[t] = "sample"
      BY <2>4, Alone
    <3> QED
      BY <2>2, <2>3, <2>4, <3>1, <3>2, StagedByTask DEF Staged, Stage, RegisteredIsLive
  <2>5. CASE Goto(t, "timer", "unclaim")
    <3>1. pc'[t] = "unclaim"
      BY <2>5, Alone
    <3> QED
      BY <2>3, <2>5, <3>1, StagedByTask DEF Stage, RegisteredIsLive
  <2> QED
    BY <1>5, <2>4, <2>5 DEF CreateTimer
<1>6. CASE Sample(t)
  <2>1. Goto(t, "sample", "type") /\ toggle_map' = toggle_map
    BY <1>6 DEF Sample, registry
  <2>2. pc[t] = "sample" /\ pc'[t] = "type"
    BY <2>1, Alone
  <2>3. slot'.callback = slot.callback /\ slot'.timer = slot.timer
    BY <1>1, <1>6 DEF Sample, Slots
  <2>4. toggle_map' = FALSE
    BY <2>1, <2>2, OwnerHasNoToggle
  <2> QED
    BY <2>1, <2>2, <2>3, <2>4, StagedByTask DEF Staged, Stage, RegisteredIsLive
<1>7. ASSUME NEW from \in {"type", "handler", "enable"},
             NEW field \in {"type", "handler", "enabled"},
             NEW to \in {"handler", "enable", "publish"},
             DriverCall(t, from, field, to),
             <<from, field, to>> \in {<<"type", "type", "handler">>,
                 <<"handler", "handler", "enable">>, <<"enable", "enabled", "publish">>}
      PROVE  Staged'
  <2>1. pc[t] = from /\ toggle_map' = toggle_map /\ slot' = slot
    BY <1>7 DEF DriverCall, Goto, registry
  <2>2. toggle_map' = FALSE
    BY <2>1, OwnerHasNoToggle
  <2>3. CASE Goto(t, from, to) /\ driver' = [driver EXCEPT ![field] = TRUE]
    <3>1. pc'[t] = to
      BY <2>3, Alone
    <3>2. /\ field # "type" => driver'.type = driver.type
          /\ field # "handler" => driver'.handler = driver.handler
          /\ field # "enabled" => driver'.enabled = driver.enabled
          /\ field = "type" => driver'.type
          /\ field = "handler" => driver'.handler
          /\ field = "enabled" => driver'.enabled
      BY <1>1, <2>3 DEF Drivers
    <3>3. Stage(t)'
      BY <1>7, <2>1, <2>2, <3>1, <3>2 DEF Staged, Stage
    <3> QED
      BY <2>2, <2>3, <3>3, StagedByTask DEF RegisteredIsLive
  <2>4. CASE Goto(t, from, "undo")
    <3>1. pc'[t] = "undo"
      BY <2>4, Alone
    <3> QED
      BY <2>2, <2>4, <3>1, StagedByTask DEF Stage, RegisteredIsLive
  <2> QED
    BY <1>7, <2>3, <2>4 DEF DriverCall
<1>8. CASE SetType(t) \/ AddHandler(t) \/ Enable(t)
  BY <1>7, <1>8 DEF SetType, AddHandler, Enable
<1>9. CASE Publish(t)
  <2>1. Goto(t, "publish", "idle") /\ UNCHANGED <<slot, driver>>
    BY <1>9 DEF Publish
  <2>2. pc[t] = "publish" /\ pc'[t] = "idle"
    BY <2>1, Alone
  <2>3. RegisteredIsLive'
    BY <2>1, <2>2 DEF Staged, Stage, RegisteredIsLive, InterruptOn
  <2> QED
    BY <2>1, <2>2, <2>3, StagedByTask DEF Stage
<1>10. ASSUME NEW from \in {"undo", "unclaim", "interrupt", "drop", "clear"},
              NEW to \in {"unclaim", "wipe", "drop", "clear", "idle"},
              Goto(t, from, to),
              toggle_map' \in {toggle_map, FALSE}
       PROVE  Staged'
  <2>1. pc[t] = from /\ pc'[t] = to
    BY <1>10, Alone
  <2>2. toggle_map' = FALSE
    BY <1>10, <2>1, OwnerHasNoToggle
  <2> QED
    BY <1>10, <2>1, <2>2, StagedByTask DEF Stage, RegisteredIsLive
<1>11. CASE \/ Undo(t) \/ Unclaim(t)
            \/ DeleteInterrupt(t) \/ DeleteTimer(t) \/ DeleteClaim(t)
  BY <1>10, <1>11
  DEF Undo, Unclaim, DeleteInterrupt, DeleteTimer, DeleteClaim, registry
<1>12. CASE Wipe(t)
  <2>1. Goto(t, "wipe", "idle") /\ toggle_map' = toggle_map
    BY <1>12 DEF Wipe, registry
  <2>2. pc[t] = "wipe" /\ pc'[t] = "idle"
    BY <2>1, Alone
  <2>3. ~toggle_map'
    BY <2>1, <2>2 DEF Staged, Stage
  <2> QED
    BY <2>1, <2>2, <2>3, StagedByTask DEF Stage, RegisteredIsLive
<1>13. CASE SyncStop(t) \/ SyncFlag(t) \/ SyncSample(t)
  <2>1. PICK from, to \in Syncing \cup {"idle"} : Goto(t, from, to) /\ from # "idle"
    BY <1>13 DEF SyncStop, SyncFlag, SyncSample
  <2>2. UNCHANGED <<toggle_map, driver>>
    BY <1>13 DEF SyncStop, SyncFlag, SyncSample, registry
  <2>3. slot'.callback = slot.callback /\ slot'.timer = slot.timer
    BY <1>1, <1>13 DEF SyncStop, SyncFlag, SyncSample, Slots
  <2>4. pc'[t] = to
    BY <2>1, Alone
  <2>5. RegisteredIsLive' /\ Stage(t)'
    BY <2>1, <2>2, <2>3, <2>4 DEF Staged, Stage, RegisteredIsLive, InterruptOn
  <2> QED
    BY <2>1, <2>5, StagedByTask
<1> QED
  BY <1>2, <1>3, <1>4, <1>5, <1>6, <1>8, <1>9, <1>11, <1>12, <1>13 DEF Call, Step

LEMMA NextStaged == Base /\ Staged /\ Serial /\ Serial' /\ [Next]_vars => Staged'
<1> SUFFICES ASSUME Base, Staged, Serial, Serial', [Next]_vars PROVE Staged'
  OBVIOUS
<1>1. CASE Reboot
  BY <1>1 DEF Reboot, Staged, Stage, RegisteredIsLive
<1>2. CASE UNCHANGED vars
  BY <1>2, StagedKept DEF vars
<1> QED
  BY <1>1, <1>2, StagedOthers, StagedTask DEF Next

\* When the calls for a GPIO follow one another, a registered toggle is complete:
\* it has a callback and a timer, and its edges interrupt, on one core or two.
THEOREM RegisteredToggles == SafeSpec /\ []Serial => []RegisteredIsLive
<1>1. Staged => RegisteredIsLive
  BY DEF Staged
<1> QED
  BY BaseSteps, InitStaged, NextStaged, <1>1, PTL DEF SafeSpec

-----------------------------------------------------------------------------
(* The flag stands for a timer that will expire, on one core or two.        *)

\* A start that is posted is the queue's last command; one that is refused
\* leaves the queue as it was.
LEMMA PostFires ==
    ASSUME NEW s, QueueType(s), NEW r \in Post(s, "start")
    PROVE  r = s \/ (r # <<>> /\ r[Len(r)] = "start")
BY DEF QueueType, Commands, Post

\* Taking the oldest command leaves the last one, unless it was the only one.
LEMMA TailFires ==
    ASSUME NEW s, QueueType(s), s # <<>>
    PROVE  IF Tail(s) = <<>> THEN Head(s) = s[Len(s)]
                             ELSE Tail(s)[Len(Tail(s))] = s[Len(s)]
<1>1. s \in Seq(Commands) /\ Tail(s) \in Seq(Commands)
  BY DEF QueueType
<1>2. Len(s) \in Nat \ {0} /\ Len(Tail(s)) \in Nat
  BY <1>1
<1>3. Len(Tail(s)) = Len(s) - 1
  BY <1>1
<1>4. Head(s) = s[1] /\ \A i \in 1..(Len(s) - 1) : Tail(s)[i] = s[i + 1]
  BY <1>1
<1>5. Tail(s) = <<>> <=> Len(s) = 1
  <2>1. Tail(s) = <<>> <=> Len(Tail(s)) = 0
    BY <1>1, EmptySeq
  <2> QED
    BY <1>2, <1>3, <2>1
<1>6. CASE Len(s) = 1
  BY <1>4, <1>5, <1>6
<1>7. CASE Len(s) # 1
  <2>1. \A n \in Nat \ {0, 1} : n - 1 \in 1..(n - 1) /\ (n - 1) + 1 = n
    OBVIOUS
  <2>2. Tail(s)[Len(s) - 1] = s[Len(s)]
    BY <1>2, <1>4, <1>7, <2>1
  <2> QED
    BY <1>3, <1>5, <1>7, <2>2
<1> QED
  BY <1>6, <1>7

\* Applying a command leaves the timer's prospects as they are, or calls back.
LEMMA CommandFires ==
    ASSUME Base, Command
    PROVE  (WillFire' <=> WillFire) \/ daemon'.pc = "disarm"
<1>1. QueueType(q) /\ q # <<>> /\ q' = Tail(q)
  BY BaseType DEF Typed, Command
<1>2. CASE active' = (Head(q) = "start")
  BY <1>1, <1>2, TailFires DEF WillFire
<1>3. CASE CallBack(FALSE)
  BY <1>3, BaseType DEF CallBack, Typed
<1> QED
  BY <1>2, <1>3 DEF Command

LEMMA InitArmed == Init => Armed
BY DEF Init, Armed, Wiped

\* Nothing that Armed is about changes, or the flag is cleared.
LEMMA ArmedKept ==
    ASSUME Armed, panic' = TRUE \/ panic' = panic, isr' = isr,
           UNCHANGED <<active, q>>, daemon.pc = "disarm" => daemon'.pc = "disarm",
           slot'.armed => slot.armed, At({"flag"}) => At({"flag"})'
    PROVE  Armed'
BY DEF Armed, WillFire

LEMMA ArmedOthers ==
    ASSUME Base, Armed, PinChanges \/ IsrEntry \/ IsrPost \/ DaemonNext
    PROVE  Armed'
<1>1. slot \in Slots /\ QueueType(q) /\ isr \in {"idle", "start", "reset"}
  BY BaseType DEF Typed
<1>2. daemon \in [pc : {"wait", "drain", "disarm", "read", "compare"}, high : BOOLEAN]
  BY BaseType DEF Typed
<1>3. At({"flag"})' <=> At({"flag"})
  BY DEF At, PinChanges, IsrEntry, IsrPost, DaemonNext, Expire, Command, Drained,
         Disarm, Read, Compare, tasks
<1>4. CASE PinChanges
  BY <1>3, <1>4, ArmedKept DEF PinChanges, timer
<1>5. CASE IsrEntry
  <2>1. UNCHANGED <<active, q, daemon, panic>>
    BY <1>5 DEF IsrEntry, timer
  <2>2. CASE isr' = isr /\ slot' = slot
    BY <1>3, <2>1, <2>2, ArmedKept
  <2>3. CASE isr' = "reset" /\ slot.armed /\ isr # "start"
    BY <1>3, <2>1, <2>3 DEF Armed, WillFire
  <2>4. CASE isr' = "start"
    BY <2>4 DEF Armed
  <2> QED
    BY <1>5, <2>2, <2>3, <2>4 DEF IsrEntry
<1>6. CASE IsrPost
  <2>1. UNCHANGED <<active, daemon>>
    BY <1>6 DEF IsrPost
  <2>2. CASE ~slot.timer
    BY <1>6, <2>2 DEF IsrPost, Armed
  <2>3. CASE slot.timer /\ q' # q
    <3>1. q' \in Post(q, "start")
      BY <1>6, <2>3 DEF IsrPost
    <3>2. WillFire'
      BY <1>1, <2>3, <3>1, PostFires DEF WillFire
    <3> QED
      BY <3>2 DEF Armed
  <2>4. CASE slot.timer /\ q' = q /\ isr = "start"
    <3>1. slot' = [slot EXCEPT !.armed = FALSE]
      BY <1>6, <2>4 DEF IsrPost
    <3>2. ~slot'.armed
      BY <1>1, <3>1 DEF Slots
    <3> QED
      BY <3>2 DEF Armed
  <2>5. CASE slot.timer /\ q' = q /\ isr # "start"
    <3>1. UNCHANGED <<slot, panic>>
      BY <1>6, <2>5 DEF IsrPost
    <3> QED
      BY <1>3, <2>1, <2>5, <3>1 DEF Armed, WillFire
  <2> QED
    BY <2>2, <2>3, <2>4, <2>5
<1>7. CASE Expire
  <2>1. daemon'.pc = "disarm"
    BY <1>2, <1>7 DEF Expire, CallBack
  <2> QED
    BY <2>1 DEF Armed
<1>8. CASE Command
  <2>1. UNCHANGED <<isr, slot, panic>> /\ daemon.pc # "disarm"
    BY <1>8 DEF Command
  <2> QED
    BY <1>3, <1>8, <2>1, CommandFires DEF Armed
<1>9. CASE Drained \/ Read
  BY <1>3, <1>9, ArmedKept DEF Drained, Read
<1>10. CASE Disarm
  <2>1. ~slot'.armed
    BY <1>1, <1>10 DEF Disarm, Slots
  <2> QED
    BY <2>1 DEF Armed
<1>11. CASE Compare
  <2>1. slot'.armed = slot.armed
    BY <1>1, <1>11 DEF Compare, Slots
  <2>2. /\ daemon.pc # "disarm" /\ UNCHANGED <<isr, active, q>>
        /\ ~panic
    BY <1>11 DEF Compare, DaemonRuns
  <2> QED
    BY <1>3, <2>1, <2>2 DEF Armed, WillFire
<1> QED
  BY <1>4, <1>5, <1>6, <1>7, <1>8, <1>9, <1>10, <1>11 DEF DaemonNext

LEMMA ArmedTask ==
    ASSUME Base, Armed, NEW t \in Tasks, Call(t) \/ Step(t)
    PROVE  Armed'
<1>1. slot \in Slots /\ Base /\ RegistryType
  BY BaseType DEF Typed
<1>2. /\ isr' = isr /\ ~panic
      /\ \E from, to \in Places : Goto(t, from, to)
  BY DEF Call, Step, ToggleInit, Delete, Sync, Claim, Fill, CreateTimer, Sample, SetType,
         AddHandler, Enable, DriverCall, Publish, Undo, Unclaim, Wipe, DeleteInterrupt,
         DeleteTimer, DeleteClaim, SyncStop, SyncFlag, SyncSample, Goto, TaskRuns, Places
<1>3. CASE SyncStop(t)
  <2>1. pc'[t] = "flag"
    BY <1>1, <1>3 DEF SyncStop, Goto, RegistryType
  <2> QED
    BY <2>1 DEF Armed, At
<1>4. CASE \/ Fill(t) \/ Undo(t) \/ Wipe(t) \/ DeleteTimer(t) \/ DeleteClaim(t)
           \/ SyncFlag(t)
  <2>1. ~slot'.armed
    <3>1. CASE Fill(t) \/ Wipe(t) \/ DeleteClaim(t)
      BY <3>1 DEF Fill, Wipe, DeleteClaim, Wiped
    <3>2. CASE Undo(t) \/ DeleteTimer(t) \/ SyncFlag(t)
      BY <1>1, <3>2 DEF Undo, DeleteTimer, SyncFlag, DropTimer, Slots
    <3> QED
      BY <1>4, <3>1, <3>2
  <2> QED
    BY <2>1 DEF Armed
<1>5. CASE \/ Call(t) \/ Claim(t) \/ CreateTimer(t) \/ Sample(t) \/ SetType(t)
           \/ AddHandler(t) \/ Enable(t) \/ Publish(t) \/ Unclaim(t)
           \/ DeleteInterrupt(t) \/ SyncSample(t)
  <2>1. UNCHANGED <<active, q, daemon>>
    BY <1>5
    DEF Call, ToggleInit, Delete, Sync, Claim, CreateTimer, Sample, SetType, AddHandler,
        Enable, DriverCall, Publish, Unclaim, DeleteInterrupt, SyncSample, timer
  <2>2. slot'.armed = slot.armed
    BY <1>1, <1>5
    DEF Call, ToggleInit, Delete, Sync, Claim, CreateTimer, Sample, SetType, AddHandler,
        Enable, DriverCall, Publish, Unclaim, DeleteInterrupt, SyncSample, Slots
  <2>3. pc[t] # "flag"
    BY <1>5
    DEF Call, ToggleInit, Delete, Sync, Claim, CreateTimer, Sample, SetType, AddHandler,
        Enable, DriverCall, Publish, Unclaim, DeleteInterrupt, SyncSample, Goto
  <2>4. At({"flag"}) => At({"flag"})'
    BY <1>1, <1>2, <2>3, GotoMoves DEF At
  <2> QED
    BY <1>2, <2>1, <2>2, <2>4 DEF Armed, WillFire
<1> QED
  BY <1>3, <1>4, <1>5 DEF Step

LEMMA NextArmed == Base /\ Armed /\ [Next]_vars => Armed'
<1> SUFFICES ASSUME Base, Armed, [Next]_vars PROVE Armed'
  OBVIOUS
<1>1. CASE Reboot
  BY <1>1 DEF Reboot, Armed, Wiped
<1>2. CASE UNCHANGED vars
  BY <1>2 DEF vars, Armed, WillFire, At
<1> QED
  BY <1>1, <1>2, ArmedOthers, ArmedTask DEF Next

-----------------------------------------------------------------------------
(* No edge is lost while no task samples the pin between the daemon's own   *)
(* reading of it and the use of what it read.                               *)

LEMMA InitPending == Init => Pending
BY DEF Init, Pending, Live, At

\* A live toggle has its callback and its timer.
LEMMA LiveIsStaged ==
    ASSUME Staged, Live
    PROVE  slot.callback # NULL /\ slot.timer
BY DEF Staged, Stage, RegisteredIsLive, Live, At

\* The pin, the ISR and the daemon: each passes what it has seen on to the next.
LEMMA PendingOthers ==
    ASSUME Base, Staged, Armed, Pending,
           PinChanges \/ IsrEntry \/ IsrPost \/ DaemonNext
    PROVE  Pending'
<1>1. slot \in Slots /\ QueueType(q) /\ isr \in {"idle", "start", "reset"}
  BY BaseType DEF Typed
<1>2. daemon \in [pc : {"wait", "drain", "disarm", "read", "compare"}, high : BOOLEAN]
  BY BaseType DEF Typed
<1>3. ~panic
  BY DEF PinChanges, IsrEntry, IsrPost, DaemonNext, DaemonRuns, Expire, Command,
         Drained, Disarm, Read, Compare
<1>4. (Live' <=> Live) /\ (At(Syncing)' <=> At(Syncing))
  <2>1. UNCHANGED <<toggle_map, pc>>
    BY DEF PinChanges, IsrEntry, IsrPost, DaemonNext, Expire, Command, Drained, Disarm,
           Read, Compare, tasks
  <2> QED
    BY <2>1 DEF Live, At
<1> SUFFICES ASSUME Live, ~missed', ~panic', ~At(Syncing)
             PROVE  \/ irq' \/ isr' = "start" \/ WillFire' \/ Seen'
                    \/ daemon'.pc \in {"disarm", "read"}
  BY <1>4 DEF Pending
<1>5. slot.callback # NULL /\ slot.timer
  BY LiveIsStaged
<1>6. ~missed => \/ irq \/ isr = "start" \/ WillFire \/ Seen
                 \/ daemon.pc \in {"disarm", "read"}
  BY <1>3 DEF Pending
<1>7. CASE PinChanges
  <2>1. irq' \/ missed'
    BY <1>7 DEF PinChanges
  <2> QED
    BY <2>1
<1>8. CASE IsrEntry
  <2>1. UNCHANGED <<q, active, daemon>> /\ isr = "idle"
    BY <1>8 DEF IsrEntry, timer
  <2>2. CASE slot.armed
    <3>1. ~At({"flag"})
      BY DEF At, Syncing
    <3>2. WillFire \/ daemon.pc = "disarm"
      BY <1>3, <2>1, <2>2, <3>1 DEF Armed
    <3> QED
      BY <2>1, <3>2 DEF WillFire
  <2>3. CASE ~slot.armed
    BY <1>5, <1>8, <2>3 DEF IsrEntry
  <2> QED
    BY <2>2, <2>3
<1>9. CASE IsrPost
  <2>1. q' \in Post(q, "start") /\ isr # "idle"
    BY <1>5, <1>9 DEF IsrPost
  <2>2. CASE q' # q
    BY <1>1, <2>1, <2>2, PostFires DEF WillFire
  <2>3. CASE q' = q
    <3>1. isr # "start" /\ UNCHANGED <<pin, irq, slot, active, daemon, missed>>
      BY <1>5, <1>9, <2>3 DEF IsrPost
    <3> QED
      BY <1>6, <2>3, <3>1 DEF WillFire, Seen
  <2> QED
    BY <2>2, <2>3
<1>10. CASE Expire
  BY <1>2, <1>10 DEF Expire, CallBack
<1>11. CASE Command
  <2>1. /\ UNCHANGED <<pin, irq, isr, slot, missed>>
        /\ daemon.pc \in {"wait", "drain"}
    BY <1>11 DEF Command
  <2>2. daemon'.pc \in {"drain", "disarm"}
    BY <1>2, <1>11 DEF Command, CallBack
  <2> QED
    BY <1>6, <1>11, <2>1, <2>2, CommandFires DEF Seen
<1>12. CASE Drained
  <2>1. UNCHANGED <<pin, irq, isr, slot, active, q, missed>> /\ daemon.pc = "drain"
    BY <1>12 DEF Drained
  <2>2. daemon'.pc = "wait"
    BY <1>2, <1>12 DEF Drained
  <2> QED
    BY <1>6, <2>1, <2>2 DEF Seen, WillFire
<1>13. CASE Disarm
  BY <1>2, <1>13 DEF Disarm
<1>14. CASE Read
  <2>1. daemon' = [pc |-> "compare", high |-> pin] /\ pin' = pin
    BY <1>5, <1>14 DEF Read
  <2> QED
    BY <2>1 DEF Seen
<1>15. CASE Compare
  <2>1. /\ UNCHANGED <<pin, irq, isr, active, q, missed>>
        /\ daemon.pc = "compare" /\ daemon'.pc = "drain"
    BY <1>15 DEF Compare
  <2>2. slot'.last_high = daemon.high
    BY <1>1, <1>15 DEF Compare, Slots
  <2> QED
    BY <1>6, <2>1, <2>2 DEF Seen, WillFire
<1> QED
  BY <1>7, <1>8, <1>9, <1>10, <1>11, <1>12, <1>13, <1>14, <1>15 DEF DaemonNext

\* A step of a task that touches nothing that Pending is about.
LEMMA PendingKept ==
    ASSUME Pending, Live' => Live, At(Syncing) => At(Syncing)',
           UNCHANGED <<pin, irq, isr, slot, active, q, daemon, missed>>, ~panic
    PROVE  Pending'
BY DEF Pending, Seen, WillFire

LEMMA PendingTask ==
    ASSUME Base, Staged, Pending, Serial, Serial', Apart,
           NEW t \in Tasks, Call(t) \/ Step(t)
    PROVE  Pending'
<1> USE DEF Places, Creating, Deleting, Syncing
<1>1. slot \in Slots
  BY BaseType DEF Typed
<1>2. ~panic
  BY DEF Call, Step, ToggleInit, Delete, Sync, Claim, Fill, CreateTimer, Sample, SetType,
         AddHandler, Enable, DriverCall, Publish, Undo, Unclaim, Wipe, DeleteInterrupt,
         DeleteTimer, DeleteClaim, SyncStop, SyncFlag, SyncSample, Goto, TaskRuns
<1>3. ASSUME Goto(t, "idle", "idle"), toggle_map' = toggle_map,
             UNCHANGED <<pin, irq, isr, slot, active, q, daemon, missed>>
      PROVE  Pending'
  <2>1. pc' = pc
    BY <1>3, BaseType DEF Goto, RegistryType
  <2> QED
    BY <1>2, <1>3, <2>1, PendingKept DEF Live, At
\* Nothing is registered yet, or no longer, and no sample counts.
<1>4. ASSUME NEW from \in Places, NEW to \in Places, Goto(t, from, to),
             from # "idle" \/ to # "idle", ~toggle_map',
             to \notin {"type", "handler", "enable", "publish"}
      PROVE  Pending'
  <2>1. ~Live'
    BY <1>4, AloneAt DEF Live
  <2> QED
    BY <2>1 DEF Pending
\* A resynchronisation is under way: the pin will be read.
<1>5. ASSUME NEW from \in Places, NEW to \in Syncing, Goto(t, from, to)
      PROVE  Pending'
  <2>1. At(Syncing)'
    BY <1>5, AloneAt
  <2> QED
    BY <2>1 DEF Pending
\* The pin has been read.
<1>6. ASSUME slot' = [slot EXCEPT !.last_high = pin], UNCHANGED <<pin, daemon>>,
             daemon.pc # "compare"
      PROVE  Pending'
  <2>1. slot'.last_high = pin
    BY <1>1, <1>6 DEF Slots
  <2> QED
    BY <1>6, <2>1 DEF Pending, Seen
\* A live toggle remains as it is.
<1>7. ASSUME NEW from \in Places \ Syncing, NEW to \in Places, Goto(t, from, to),
             from # "idle" \/ to # "idle",
             \/ toggle_map' = toggle_map
                /\ to \notin {"type", "handler", "enable", "publish"}
             \/ from \in {"type", "handler", "enable", "publish"},
             UNCHANGED <<pin, irq, isr, slot, active, q, daemon, missed>>
      PROVE  Pending'
  <2>1. Live' => Live
    BY <1>7, AloneAt DEF Live
  <2>2. ~At(Syncing)
    BY <1>7, AloneAt
  <2> QED
    BY <1>2, <1>7, <2>1, <2>2, PendingKept
<1>8. CASE Call(t)
  <2>1. CASE ToggleInit(t)
    BY <1>7, <2>1 DEF ToggleInit, registry, timer
  <2>2. CASE Delete(t) /\ toggle_map
    BY <1>4, <2>2 DEF Delete
  <2>3. CASE Sync(t) /\ toggle_map
    <3>1. PICK to \in {"stop", "flag"} : Goto(t, "idle", to)
      BY <2>3 DEF Sync
    <3> QED
      BY <1>5, <3>1
  <2>4. CASE (Delete(t) \/ Sync(t)) /\ ~toggle_map
    BY <1>3, <2>4 DEF Delete, Sync, timer
  <2> QED
    BY <1>8, <2>1, <2>2, <2>3, <2>4 DEF Call
<1>9. CASE Claim(t)
  <2>1. PICK to \in {"fill", "idle"} : Goto(t, "claim", to)
    BY <1>9 DEF Claim
  <2>2. /\ UNCHANGED <<pin, irq, isr, slot, active, q, daemon, missed>>
        /\ toggle_map' = toggle_map
    BY <1>9 DEF Claim, timer
  <2> QED
    BY <1>7, <2>1, <2>2
<1>10. CASE SetType(t) \/ AddHandler(t) \/ Enable(t)
  <2>1. PICK from \in {"type", "handler", "enable"},
             to \in {"handler", "enable", "publish", "undo"} : Goto(t, from, to)
    BY <1>10 DEF SetType, AddHandler, Enable, DriverCall
  <2>2. UNCHANGED <<pin, irq, isr, slot, active, q, daemon, missed>>
    BY <1>10 DEF SetType, AddHandler, Enable, DriverCall, timer
  <2> QED
    BY <1>7, <2>1, <2>2
<1>11. CASE Publish(t)
  BY <1>7, <1>11 DEF Publish, timer
<1>12. CASE Sample(t) \/ SyncSample(t)
  BY <1>6, <1>12 DEF Apart, Sample, SyncSample, timer
<1>13. CASE \/ Fill(t) \/ CreateTimer(t) \/ Undo(t) \/ Unclaim(t)
            \/ DeleteInterrupt(t) \/ DeleteTimer(t) \/ DeleteClaim(t)
  <2>1. PICK from \in Creating \cup Deleting,
             to \in {"timer", "sample", "unclaim", "wipe", "drop", "clear", "idle"} :
                Goto(t, from, to)
    BY <1>13
    DEF Fill, CreateTimer, Undo, Unclaim, DeleteInterrupt, DeleteTimer, DeleteClaim
  <2>2. toggle_map' \in {toggle_map, FALSE}
    BY <1>13
    DEF Fill, CreateTimer, Undo, Unclaim, DeleteInterrupt, DeleteTimer, DeleteClaim,
        registry
  <2>3. toggle_map = FALSE
    BY <2>1, OwnerHasNoToggle DEF Goto
  <2> QED
    BY <1>4, <2>1, <2>2, <2>3
<1>14. CASE Wipe(t)
  <2>1. Goto(t, "wipe", "idle") /\ toggle_map' = toggle_map
    BY <1>14 DEF Wipe, registry
  <2>2. ~toggle_map
    BY <2>1 DEF Goto, Staged, Stage
  <2> QED
    BY <1>4, <2>1, <2>2
<1>15. CASE SyncStop(t) \/ SyncFlag(t)
  BY <1>5, <1>15 DEF SyncStop, SyncFlag
<1> QED
  BY <1>8, <1>9, <1>10, <1>11, <1>12, <1>13, <1>14, <1>15 DEF Step

\* The hand-over's invariant: what is registered is complete, the flag stands for
\* a timer that will expire, and something will read the pin.
EdgeInv == Base /\ Staged /\ Armed /\ Pending

LEMMA InitEdgeInv == Init => EdgeInv
BY BaseSteps, InitStaged, InitArmed, InitPending DEF EdgeInv

LEMMA NextEdgeInv ==
    EdgeInv /\ Serial /\ Serial' /\ [Next]_vars /\ [Apart]_vars => EdgeInv'
<1> SUFFICES ASSUME EdgeInv, Serial, Serial', [Next]_vars, [Apart]_vars PROVE EdgeInv'
  OBVIOUS
<1>1. Base' /\ Staged' /\ Armed'
  BY BaseSteps, NextStaged, NextArmed DEF EdgeInv
<1>2. CASE Reboot
  BY <1>1, <1>2 DEF Reboot, EdgeInv, Pending, Live, At
<1>3. CASE UNCHANGED vars
  BY <1>1, <1>3 DEF vars, EdgeInv, Pending, Live, At, WillFire, Seen
<1>4. CASE Apart
  BY <1>1, <1>2, <1>4, PendingOthers, PendingTask, <1>3 DEF EdgeInv, Next
<1> QED
  BY <1>3, <1>4 DEF Next

\* When all is quiet, only the level that was seen is left.
LEMMA QuietIsSeen == EdgeInv => NoEdgeIsLost
<1> SUFFICES ASSUME EdgeInv, toggle_map, Quiet, ~missed, ~panic
             PROVE  slot.last_high = pin
  BY DEF NoEdgeIsLost
<1>1. Live /\ ~At(Syncing) /\ ~WillFire /\ daemon.pc \notin {"disarm", "read", "compare"}
  BY DEF Live, At, WillFire, Quiet, InCallback
<1> QED
  BY <1>1 DEF EdgeInv, Pending, Seen, Quiet

\* With calls that follow one another, on one core or two, no edge is lost on its way
\* from the ISR through the queue and the daemon to the level of the toggle, for every
\* length of the queue, unless toggle_create or toggle_sync_state samples the pin
\* between toggle_debounce_timer_callback's own reading of it and the use of that
\* reading: this is the one race that leaves a toggle with a level its pin has not.
THEOREM EdgesAreSeenApart == SafeSpec /\ []Serial /\ [][Apart]_vars => []NoEdgeIsLost
BY NextEdgeInv, InitEdgeInv, QuietIsSeen, PTL DEF SafeSpec

\* On one core a callback of the daemon is finished before a task goes on.
LEMMA OneCoreIsApart == ~DualCore => Apart
BY DEF Apart, Sample, SyncSample, Goto, TaskRuns, InCallback

\* On one core, with calls that follow one another, no edge is lost: once nothing is
\* under way, the level is the pin's.
THEOREM EdgesAreSeen ==
    ASSUME ~DualCore
    PROVE  SafeSpec /\ []Serial => []NoEdgeIsLost
<1>1. [Apart]_vars
  BY OneCoreIsApart
<1> QED
  BY <1>1, EdgesAreSeenApart, PTL

\* With one task the calls follow one another: nothing else has to be assumed for a
\* registered toggle to be complete.
THEOREM OneTaskIsLive ==
    ASSUME \A t, u \in Tasks : t = u
    PROVE  SafeSpec => []RegisteredIsLive
<1>1. Serial
  BY DEF Serial
<1> QED
  BY <1>1, RegisteredToggles, PTL

\* On one core a single caller loses no edge either: the instance that TLC checks, for
\* every length of the timer queue.
THEOREM OneTaskSeesEdges ==
    ASSUME ~DualCore, \A t, u \in Tasks : t = u
    PROVE  SafeSpec => []NoEdgeIsLost
<1>1. Serial
  BY DEF Serial
<1>2. SafeSpec /\ []Serial => []NoEdgeIsLost
  BY EdgesAreSeen
<1> QED
  BY <1>1, <1>2, PTL
-----------------------------------------------------------------------------
(* No crash while the calls that give a toggle up are not overtaken.        *)

\* The timer handle is not cleared between the ISR's look at it and its call, the
\* queue does not refuse both the stop and the delete, and the daemon has applied
\* what it was sent when the slot is wiped.
Orderly == /\ (\E t \in Tasks : DeleteTimer(t) \/ Undo(t)) => isr = "idle" /\ q' # q
           /\ (\E t \in Tasks : DeleteClaim(t) \/ Wipe(t)) => q = <<>>

\* The timer does not run and nothing will start it, or the command that ends it is
\* the last in the queue.
TimerIsDead == ~active /\ q = <<>> /\ ~InCallback
TimerIsDoomed == q # <<>> /\ q[Len(q)] # "start"

\* Where a task is while a timer exists for a toggle that is not registered.
HasTimer == {"sample", "type", "handler", "enable", "publish", "undo", "interrupt", "drop"}
GivesUp == {"unclaim", "wipe", "clear"}

\* The slot has a timer from CreateTimer to DropTimer.  A slot without a callback has
\* none that could call it, one without a timer none that would be started, and the
\* ISR has no handle that is gone.
Tidy == /\ ~panic
        /\ At(Syncing) => toggle_map
        /\ slot.timer <=> toggle_map \/ At(HasTimer)
        /\ slot.timer => slot.callback # NULL
        /\ isr # "idle" => slot.timer
        /\ slot.callback = NULL => TimerIsDead
        /\ ~slot.timer => TimerIsDead \/ (TimerIsDoomed /\ At(GivesUp))

LEMMA InitTidy == Init => Tidy
BY DEF Init, Tidy, Wiped, At, TimerIsDead, InCallback, Syncing, HasTimer

\* Nothing that Tidy is about changes.
LEMMA TidyKept ==
    ASSUME Tidy, UNCHANGED <<isr, toggle_map, pc, active, q, panic>>,
           slot'.callback = slot.callback, slot'.timer = slot.timer,
           InCallback' => InCallback
    PROVE  Tidy'
BY DEF Tidy, At, TimerIsDead, TimerIsDoomed

LEMMA TidyOthers ==
    ASSUME Base, Tidy, PinChanges \/ IsrEntry \/ IsrPost \/ DaemonNext
    PROVE  Tidy'
<1>1. slot \in Slots /\ QueueType(q)
  BY BaseType DEF Typed
<1>2. daemon \in [pc : {"wait", "drain", "disarm", "read", "compare"}, high : BOOLEAN]
  BY BaseType DEF Typed
<1>3. UNCHANGED <<toggle_map, pc>>
  BY DEF PinChanges, IsrEntry, IsrPost, DaemonNext, Expire, Command, Drained, Disarm,
         Read, Compare, tasks
<1>4. /\ At(Syncing)' <=> At(Syncing)
      /\ At(HasTimer)' <=> At(HasTimer)
      /\ At(GivesUp)' <=> At(GivesUp)
  BY <1>3 DEF At
<1>5. ~panic
  BY DEF Tidy
<1>6. CASE PinChanges
  BY <1>3, <1>6, TidyKept DEF PinChanges, timer, InCallback
<1>7. CASE IsrEntry
  <2>1. UNCHANGED <<active, q, daemon, panic>>
    BY <1>7 DEF IsrEntry, timer
  <2>2. slot'.callback = slot.callback /\ slot'.timer = slot.timer
    BY <1>1, <1>7 DEF IsrEntry, Slots
  <2>3. isr' = isr \/ slot.timer
    BY <1>7 DEF IsrEntry
  <2> QED
    BY <1>3, <1>4, <2>1, <2>2, <2>3 DEF Tidy, TimerIsDead, TimerIsDoomed, InCallback
<1>8. CASE IsrPost
  <2>1. slot.timer
    BY <1>8 DEF IsrPost, Tidy
  <2>2. slot'.callback = slot.callback /\ slot'.timer = slot.timer
    BY <1>1, <1>8, <2>1 DEF IsrPost, Slots
  <2>3. isr' = "idle" /\ panic' = panic
    BY <1>8, <2>1 DEF IsrPost
  <2> QED
    BY <1>3, <1>4, <2>1, <2>2, <2>3 DEF Tidy
\* The daemon: a timer that runs, a command or a callback belongs to a slot that has
\* its callback.
<1>9. ASSUME ~TimerIsDead, isr' = isr, ~panic',
             slot'.callback = slot.callback, slot'.timer = slot.timer,
             TimerIsDoomed => TimerIsDoomed' \/ TimerIsDead'
      PROVE  Tidy'
  BY <1>3, <1>4, <1>9 DEF Tidy
<1>10. CASE Expire
  BY <1>5, <1>9, <1>10 DEF Expire, TimerIsDead, TimerIsDoomed
<1>11. CASE Command
  <2>1. /\ ~TimerIsDead /\ q # <<>> /\ q' = Tail(q)
        /\ UNCHANGED <<isr, slot, panic>>
    BY <1>11 DEF Command, TimerIsDead
  <2>2. ASSUME TimerIsDoomed PROVE TimerIsDoomed' \/ TimerIsDead'
    <3>1. CASE Tail(q) = <<>>
      <4>1. Head(q) # "start"
        BY <1>1, <2>1, <2>2, <3>1, TailFires DEF TimerIsDoomed
      <4>2. ~active' /\ daemon'.pc = "drain"
        BY <1>2, <1>11, <4>1 DEF Command
      <4> QED
        BY <2>1, <3>1, <4>2 DEF TimerIsDead, InCallback
    <3>2. CASE Tail(q) # <<>>
      BY <1>1, <2>1, <2>2, <3>2, TailFires DEF TimerIsDoomed
    <3> QED
      BY <3>1, <3>2
  <2> QED
    BY <1>5, <1>9, <2>1, <2>2
<1>12. CASE Drained
  BY <1>2, <1>3, <1>12, TidyKept DEF Drained, InCallback
<1>13. CASE Disarm
  <2>1. ~TimerIsDead /\ UNCHANGED <<isr, q, panic>>
    BY <1>13 DEF Disarm, TimerIsDead, InCallback
  <2>2. slot'.callback = slot.callback /\ slot'.timer = slot.timer
    BY <1>1, <1>13 DEF Disarm, Slots
  <2> QED
    BY <1>5, <1>9, <2>1, <2>2 DEF TimerIsDoomed
<1>14. CASE Read
  <2>1. ~TimerIsDead /\ UNCHANGED <<isr, q, slot, panic>>
    BY <1>14 DEF Read, TimerIsDead, InCallback
  <2> QED
    BY <1>5, <1>9, <2>1 DEF TimerIsDoomed
<1>15. CASE Compare
  <2>1. ~TimerIsDead /\ UNCHANGED <<isr, q>>
    BY <1>15 DEF Compare, TimerIsDead, InCallback
  <2>2. slot'.callback = slot.callback /\ slot'.timer = slot.timer
    BY <1>1, <1>15 DEF Compare, Slots
  <2>3. ~panic'
    BY <1>15, <2>1 DEF Compare, CallsNull, Tidy
  <2> QED
    BY <1>9, <2>1, <2>2, <2>3 DEF TimerIsDoomed
<1> QED
  BY <1>6, <1>7, <1>8, <1>10, <1>11, <1>12, <1>13, <1>14, <1>15 DEF DaemonNext

\* While a task is where no timer exists, none runs.
LEMMA NoTimerYet ==
    ASSUME Base, Staged, Tidy, Serial, Serial', NEW t \in Tasks,
           NEW from \in {"fill", "timer", "unclaim", "wipe", "clear"}, NEW to \in Places,
           Goto(t, from, to)
    PROVE  ~toggle_map /\ ~slot.timer /\ isr = "idle" /\ (from \in {"fill", "timer"} => TimerIsDead)
<1>1. from \in Places /\ from # "idle"
  BY DEF Places
<1>2. ~toggle_map
  <2>1. CASE from = "wipe"
    BY <2>1 DEF Goto, Staged, Stage
  <2>2. CASE from # "wipe"
    BY <2>2, OwnerHasNoToggle DEF Goto, Creating, Deleting
  <2> QED
    BY <2>1, <2>2
<1>3. ~At(HasTimer) /\ (from \in {"fill", "timer"} => ~At(GivesUp))
  BY <1>1, AloneAt DEF HasTimer, GivesUp
<1> QED
  BY <1>2, <1>3 DEF Tidy

\* Whatever DropTimer posts, the last of it ends the timer.
LEMMA DropDooms ==
    ASSUME Base, DropTimer, q' # q
    PROVE  TimerIsDoomed' /\ slot'.callback = slot.callback /\ ~slot'.timer
<1>1. slot \in Slots /\ QueueType(q)
  BY BaseType DEF Typed
<1>2. slot'.callback = slot.callback /\ ~slot'.timer
  BY <1>1 DEF DropTimer, Slots
<1>3. PICK r \in Post(q, "stop") : q' \in Post(r, "delete")
  BY DEF DropTimer
<1>4. q \in Seq(Commands) /\ r \in Seq(Commands)
  BY <1>1, <1>3 DEF QueueType, Post, Commands
<1>5. q' \in {r, Append(r, "delete")} /\ r \in {q, Append(q, "stop")}
  BY <1>3 DEF Post
<1>6. ASSUME NEW s \in Seq(Commands), NEW c \in {"stop", "delete"}, q' = Append(s, c)
      PROVE  TimerIsDoomed'
  <2>1. c \in Commands
    BY DEF Commands
  <2>2. q' # <<>> /\ q'[Len(q')] = c
    BY <1>6, <2>1
  <2> QED
    BY <2>2 DEF TimerIsDoomed
<1> QED
  BY <1>2, <1>4, <1>5, <1>6

LEMMA TidyTask ==
    ASSUME Base, Staged, Tidy, Serial, Serial', Orderly,
           NEW t \in Tasks, Call(t) \/ Step(t)
    PROVE  Tidy'
<1> USE DEF Places, Creating, Deleting, Syncing, HasTimer, GivesUp
<1>1. slot \in Slots
  BY BaseType DEF Typed
<1>2. ~panic
  BY DEF Tidy
<1>3. ASSUME Goto(t, "idle", "idle"),
             UNCHANGED <<toggle_map, isr, slot, active, q, daemon, panic>>
      PROVE  Tidy'
  <2>1. pc' = pc
    BY <1>3, BaseType DEF Goto, RegistryType
  <2> QED
    BY <1>3, <2>1, TidyKept DEF InCallback
\* A move that leaves the timer as it was.
<1>4. ASSUME NEW from \in Places, NEW to \in Places, Goto(t, from, to),
             from # "idle" \/ to # "idle",
             UNCHANGED <<isr, active, q, daemon, panic>>,
             slot'.callback = slot.callback, slot'.timer = slot.timer,
             to \in Syncing => toggle_map',
             toggle_map \/ from \in HasTimer <=> toggle_map' \/ to \in HasTimer,
             from \in GivesUp => to \in GivesUp
      PROVE  Tidy'
  <2>1. /\ At(Syncing)' => toggle_map'
        /\ toggle_map \/ At(HasTimer) <=> toggle_map' \/ At(HasTimer)'
        /\ At(GivesUp) => At(GivesUp)'
    BY <1>4, AloneAt
  <2> QED
    BY <1>4, <2>1 DEF Tidy, TimerIsDead, TimerIsDoomed, InCallback
\* A toggle that is registered and stays so has its timer.
<1>5. ASSUME toggle_map, toggle_map', UNCHANGED <<isr, panic>>,
             slot'.callback = slot.callback, slot'.timer = slot.timer
      PROVE  Tidy'
  <2>1. slot.callback # NULL /\ slot.timer
    BY <1>5 DEF Staged, RegisteredIsLive
  <2> QED
    BY <1>5, <2>1 DEF Tidy
<1>6. CASE Call(t)
  <2>1. CASE ToggleInit(t)
    BY <1>4, <2>1 DEF ToggleInit, registry, timer
  <2>2. CASE Delete(t) /\ toggle_map
    BY <1>4, <2>2 DEF Delete, timer
  <2>3. CASE Sync(t) /\ toggle_map
    BY <1>5, <2>3 DEF Sync, timer
  <2>4. CASE (Delete(t) \/ Sync(t)) /\ ~toggle_map
    BY <1>3, <2>4 DEF Delete, Sync, timer
  <2> QED
    BY <1>6, <2>1, <2>2, <2>3, <2>4 DEF Call
<1>7. CASE Claim(t)
  <2>1. PICK to \in {"fill", "idle"} : Goto(t, "claim", to)
    BY <1>7 DEF Claim
  <2>2. UNCHANGED <<isr, slot, active, q, daemon, panic, toggle_map>>
    BY <1>7 DEF Claim, timer
  <2> QED
    BY <1>4, <2>1, <2>2
<1>8. CASE Fill(t)
  <2>1. Goto(t, "fill", "timer") /\ UNCHANGED <<isr, active, q, daemon, panic>>
    BY <1>8 DEF Fill, timer
  <2>2. isr = "idle" /\ TimerIsDead /\ ~toggle_map
    BY <2>1, NoTimerYet
  <2>3. ~slot'.timer /\ ~toggle_map'
    BY <1>8, <2>2 DEF Fill, Wiped, registry
  <2>4. ~At(Syncing)' /\ ~At(HasTimer)'
    BY <2>1, AloneAt
  <2> QED
    BY <1>2, <2>1, <2>2, <2>3, <2>4 DEF Tidy, TimerIsDead, InCallback
<1>9. CASE CreateTimer(t)
  <2>1. UNCHANGED <<isr, active, q, daemon, toggle_map>>
    BY <1>9 DEF CreateTimer, registry, timer
  <2>2. CASE Goto(t, "timer", "sample") /\ slot' = [slot EXCEPT !.timer = TRUE]
                /\ panic' = active
    <3>1. TimerIsDead
      BY <2>2, NoTimerYet
    <3>2. slot'.callback = slot.callback /\ slot'.timer
      BY <1>1, <2>2 DEF Slots
    <3>3. slot.callback # NULL
      BY <2>2 DEF Goto, Staged, Stage
    <3>4. At(HasTimer)' /\ ~At(Syncing)'
      BY <2>2, AloneAt
    <3>5. ~panic'
      BY <2>2, <3>1 DEF TimerIsDead
    <3> QED
      BY <3>2, <3>3, <3>4, <3>5 DEF Tidy
  <2>3. CASE Goto(t, "timer", "unclaim") /\ UNCHANGED <<slot, panic>>
    BY <1>4, <2>1, <2>3
  <2> QED
    BY <1>9, <2>2, <2>3 DEF CreateTimer
<1>10. CASE Sample(t)
  <2>1. slot'.callback = slot.callback /\ slot'.timer = slot.timer
    BY <1>1, <1>10 DEF Sample, Slots
  <2> QED
    BY <1>4, <1>10, <2>1 DEF Sample, timer
<1>11. CASE SetType(t) \/ AddHandler(t) \/ Enable(t)
  <2>1. PICK from \in {"type", "handler", "enable"},
             to \in {"handler", "enable", "publish", "undo"} : Goto(t, from, to)
    BY <1>11 DEF SetType, AddHandler, Enable, DriverCall
  <2>2. UNCHANGED <<isr, slot, active, q, daemon, panic>>
    BY <1>11 DEF SetType, AddHandler, Enable, DriverCall, timer
  <2> QED
    BY <1>4, <2>1, <2>2
<1>12. CASE Publish(t) \/ DeleteInterrupt(t)
  <2>1. PICK from \in {"publish", "interrupt"}, to \in {"idle", "drop"} :
           Goto(t, from, to) /\ (from = "publish" => toggle_map')
                             /\ (from = "interrupt" => to = "drop")
    BY <1>12 DEF Publish, DeleteInterrupt
  <2>2. UNCHANGED <<isr, slot, active, q, daemon, panic>>
    BY <1>12 DEF Publish, DeleteInterrupt, timer
  <2> QED
    BY <1>4, <2>1, <2>2
\* The timer is dropped, and its end is on its way.
<1>13. CASE Undo(t) \/ DeleteTimer(t)
  <2>1. PICK from \in {"undo", "drop"}, to \in {"unclaim", "clear"} : Goto(t, from, to)
    BY <1>13 DEF Undo, DeleteTimer
  <2>2. DropTimer /\ UNCHANGED <<isr, panic>>
    BY <1>13 DEF Undo, DeleteTimer
  <2>3. isr = "idle" /\ q' # q
    BY <1>13 DEF Orderly
  <2>4. TimerIsDoomed' /\ slot'.callback = slot.callback /\ ~slot'.timer
    BY <2>2, <2>3, DropDooms
  <2>5. slot.callback # NULL
    BY <2>1, AloneAt DEF Tidy
  <2>6. At(GivesUp)' /\ ~At(Syncing)' /\ ~At(HasTimer)'
    BY <2>1, AloneAt
  <2>7. ~toggle_map'
    <3>1. ~toggle_map
      BY <2>1, OwnerHasNoToggle DEF Goto
    <3> QED
      BY <1>13, <3>1 DEF Undo, DeleteTimer, registry
  <2> QED
    BY <1>2, <2>2, <2>3, <2>4, <2>5, <2>6, <2>7 DEF Tidy
<1>14. CASE Unclaim(t)
  <2>1. /\ Goto(t, "unclaim", "wipe") /\ ~toggle_map'
        /\ UNCHANGED <<isr, slot, active, q, daemon, panic>>
    BY <1>14 DEF Unclaim, timer
  <2>2. ~toggle_map
    BY <2>1, OwnerHasNoToggle DEF Goto
  <2> QED
    BY <1>4, <2>1, <2>2
\* The slot is wiped when the timer has ended.
<1>15. CASE Wipe(t) \/ DeleteClaim(t)
  <2>1. PICK from \in {"wipe", "clear"} : Goto(t, from, "idle")
    BY <1>15 DEF Wipe, DeleteClaim
  <2>2. slot' = Wiped /\ UNCHANGED <<isr, active, q, daemon, panic>>
    BY <1>15 DEF Wipe, DeleteClaim, timer
  <2>3. ~slot.timer /\ isr = "idle" /\ ~toggle_map
    BY <2>1, NoTimerYet
  <2>4. q = <<>>
    BY <1>15 DEF Orderly
  <2>5. TimerIsDead'
    BY <2>2, <2>3, <2>4 DEF Tidy, TimerIsDead, TimerIsDoomed, InCallback
  <2>6. ~slot'.timer /\ ~At(Syncing)' /\ ~At(HasTimer)'
    BY <2>1, <2>2, AloneAt DEF Wiped
  <2>7. ~toggle_map'
    BY <1>15, <2>3 DEF Wipe, DeleteClaim, registry
  <2> QED
    BY <1>2, <2>2, <2>3, <2>5, <2>6, <2>7 DEF Tidy
<1>16. CASE SyncStop(t) \/ SyncFlag(t) \/ SyncSample(t)
  <2>1. At(Syncing)
    BY <1>16 DEF SyncStop, SyncFlag, SyncSample, Goto, At
  <2>2. toggle_map /\ toggle_map' = toggle_map /\ UNCHANGED <<isr, panic>>
    BY <1>16, <2>1 DEF SyncStop, SyncFlag, SyncSample, registry, Tidy
  <2>3. slot'.callback = slot.callback /\ slot'.timer = slot.timer
    BY <1>1, <1>16 DEF SyncStop, SyncFlag, SyncSample, Slots
  <2> QED
    BY <1>5, <2>2, <2>3
<1> QED
  BY <1>6, <1>7, <1>8, <1>9, <1>10, <1>11, <1>12, <1>13, <1>14, <1>15, <1>16 DEF Step

LEMMA NextTidy ==
    Base /\ Staged /\ Tidy /\ Serial /\ Serial' /\ [Next]_vars /\ [Orderly]_vars => Tidy'
<1> SUFFICES ASSUME Base, Staged, Tidy, Serial, Serial', [Next]_vars, [Orderly]_vars
             PROVE  Tidy'
  OBVIOUS
<1>1. CASE UNCHANGED vars
  BY <1>1, TidyKept DEF vars, InCallback
<1>2. CASE Reboot
  BY <1>2 DEF Reboot, Tidy
<1>3. CASE Orderly
  BY <1>1, <1>2, <1>3, TidyOthers, TidyTask DEF Next
<1> QED
  BY <1>1, <1>3

\* A callback belongs to a slot that has one.
LEMMA TidyIsSafe == Tidy => ~panic /\ CallbackIsNotNull
BY DEF Tidy, CallbackIsNotNull, CallsNull, TimerIsDead, InCallback

\* With calls that follow one another, on one core or two, with a timer queue of any
\* length that may be full and calls that may fail, neither a callback that is NULL nor
\* a timer handle that is NULL nor a timer created over one that runs brings the
\* firmware down, unless toggle_delete or a failing toggle_create overtakes another
\* actor in one of three ways: the ISR between its check of the handle and its call, a
\* queue that refuses both xTimerStop and xTimerDelete, or a daemon that has not
\* applied them when the slot is wiped.
THEOREM NoCrashWhenOrderly ==
    SafeSpec /\ []Serial /\ [][Orderly]_vars => [](~panic /\ CallbackIsNotNull)
BY BaseSteps, InitStaged, NextStaged, InitTidy, NextTidy, TidyIsSafe, PTL DEF SafeSpec

\* The daemon has applied every command on the timer before a task goes on.
Prompt == (\E t \in Tasks : Call(t) \/ Step(t)) => q = <<>>

LEMMA PromptIsOrderly ==
    ASSUME ~DualCore, ~QueueFull, QueueLen # 0, Prompt
    PROVE  Orderly
<1>1. ASSUME NEW t \in Tasks, DeleteClaim(t) \/ Wipe(t)
      PROVE  q = <<>>
  BY <1>1 DEF Prompt, Step
<1>2. ASSUME NEW t \in Tasks, DeleteTimer(t) \/ Undo(t)
      PROVE  isr = "idle" /\ q' # q
  <2>1. q = <<>>
    BY <1>2 DEF Prompt, Step
  <2>2. isr = "idle" /\ DropTimer
    BY <1>2 DEF DeleteTimer, Undo, Goto, TaskRuns
  <2>3. PICK r \in Post(q, "stop") : q' \in Post(r, "delete")
    BY <2>2 DEF DropTimer
  <2>4. r = <<"stop">>
    BY <2>1, <2>3, ToggleAssumption DEF Post
  <2>5. q' \in {r, Append(r, "delete")}
    BY <2>3 DEF Post
  <2> QED
    BY <2>1, <2>2, <2>4, <2>5
<1> QED
  BY <1>1, <1>2 DEF Orderly

\* On one core a timer daemon that is prompt, with room in its queue, keeps a button
\* from crashing the firmware, whatever the pin does and whichever driver calls fail:
\* what ButtonLifecycle assumes of the daemon when it takes the toggle layer as atomic.
THEOREM PromptDaemonNeverCrashes ==
    ASSUME ~DualCore, ~QueueFull, QueueLen # 0
    PROVE  SafeSpec /\ []Serial /\ [][Prompt]_vars => [](~panic /\ CallbackIsNotNull)
<1>1. [Prompt]_vars => [Orderly]_vars
  BY PromptIsOrderly
<1> QED
  BY <1>1, NoCrashWhenOrderly, PTL
=============================================================================
