---------------------------- MODULE ToggleProofs ----------------------------
(***************************************************************************)
(* Proofs about Toggle for every set of tasks, on one core or two, with or *)
(* without failing calls and a full timer queue: the claim and lock        *)
(* protocol of toggle_create, toggle_delete and toggle_sync_state.         *)
(***************************************************************************)
EXTENDS Toggle, TLAPS

Places == {"idle", "claim", "fill", "timer", "sample", "type", "handler", "enable",
           "publish", "undo", "unclaim", "wipe", "interrupt", "drop", "clear",
           "stop", "flag", "resample"}

\* What the protocol's own variables range over.
RegistryType == /\ pc \in [Tasks -> Places]
                /\ toggle_map \in BOOLEAN /\ toggle_claimed \in BOOLEAN
                /\ toggles_lock \in Tasks \cup {NULL}

\* The invariant.  It is inductive as it is: neither conjunct follows without the
\* other, since a deletion keeps its claim because it holds the lock.
Inv == RegistryType /\ ClaimHasOneOwner /\ LockIsExclusive

Owns(t) == pc[t] \in Creating \cup Deleting
Holds(t) == pc[t] \in Deleting \cup Syncing

\* The invariant, task by task.
LEMMA InvByTask ==
    Inv <=> /\ RegistryType
            /\ toggle_claimed <=> (toggle_map \/ \E t \in Tasks : Owns(t))
            /\ \A t, u \in Tasks : Owns(t) /\ Owns(u) => t = u
            /\ toggle_map => \A t \in Tasks : ~Owns(t)
            /\ \A t \in Tasks : Holds(t) <=> toggles_lock = t
BY DEF Inv, ClaimHasOneOwner, LockIsExclusive, Owns, Holds

\* A step of task t moves only t.
LEMMA GotoMoves ==
    ASSUME RegistryType, NEW t \in Tasks, NEW from \in Places, NEW to \in Places,
           Goto(t, from, to)
    PROVE  /\ pc' \in [Tasks -> Places]
           /\ pc[t] = from /\ pc'[t] = to
           /\ \A u \in Tasks \ {t} : pc'[u] = pc[u]
BY DEF RegistryType, Goto, Places

\* A step inside a call that neither takes nor gives back anything.
LEMMA MoveInside ==
    ASSUME Inv, NEW t \in Tasks, NEW from \in Places, NEW to \in Places,
           Goto(t, from, to), UNCHANGED registry,
           \/ {from, to} \subseteq Creating
           \/ {from, to} \subseteq Deleting
           \/ {from, to} \subseteq Syncing
           \/ {from, to} \cap (Creating \cup Deleting \cup Syncing) = {}
    PROVE  Inv'
<1>1. RegistryType'
  BY GotoMoves DEF Inv, RegistryType, registry
<1>2. \A u \in Tasks : (Owns(u)' <=> Owns(u)) /\ (Holds(u)' <=> Holds(u))
  <2>1. Owns(t)' <=> Owns(t)
    BY GotoMoves DEF Inv, Owns, Creating, Deleting, Syncing
  <2>2. Holds(t)' <=> Holds(t)
    BY GotoMoves DEF Inv, Holds, Creating, Deleting, Syncing
  <2>3. \A u \in Tasks \ {t} : (Owns(u)' <=> Owns(u)) /\ (Holds(u)' <=> Holds(u))
    BY GotoMoves DEF Inv, Owns, Holds
  <2> QED
    BY <2>1, <2>2, <2>3
<1> QED
  BY <1>1, <1>2, InvByTask
  DEF registry, Inv, ClaimHasOneOwner, LockIsExclusive, Owns, Holds

LEMMA InitInv == Init => Inv
BY ToggleAssumption
DEF Init, Inv, RegistryType, Places, ClaimHasOneOwner, LockIsExclusive, Creating,
    Deleting, Syncing

\* The pin, the ISR and the daemon do not touch the protocol's variables.
LEMMA OthersInv ==
    ASSUME Inv, UNCHANGED <<toggle_map, toggle_claimed, toggles_lock, pc>>
    PROVE  Inv'
BY DEF Inv, RegistryType, ClaimHasOneOwner, LockIsExclusive

\* The steps of a call between its claim, its lock and their return.
LEMMA InsideInv ==
    ASSUME Inv, NEW t \in Tasks,
           \/ ToggleInit(t) \/ Fill(t) \/ CreateTimer(t) \/ Sample(t) \/ SetType(t)
           \/ AddHandler(t) \/ Enable(t) \/ Undo(t) \/ Wipe(t)
           \/ DeleteInterrupt(t) \/ DeleteTimer(t) \/ SyncStop(t) \/ SyncFlag(t)
    PROVE  Inv'
<1> USE MoveInside DEF Places, Creating, Deleting, Syncing
<1>1. CASE ToggleInit(t) \/ Wipe(t)
  BY <1>1 DEF ToggleInit, Wipe
<1>2. CASE Fill(t) \/ CreateTimer(t) \/ Sample(t) \/ Undo(t)
  <2>1. CASE Fill(t)
    BY <2>1 DEF Fill
  <2>2. CASE CreateTimer(t)
    BY <2>2 DEF CreateTimer
  <2>3. CASE Sample(t)
    BY <2>3 DEF Sample
  <2>4. CASE Undo(t)
    BY <2>4 DEF Undo
  <2> QED
    BY <1>2, <2>1, <2>2, <2>3, <2>4
<1>3. CASE SetType(t) \/ AddHandler(t) \/ Enable(t)
  BY <1>3 DEF SetType, AddHandler, Enable, DriverCall
<1>4. CASE DeleteInterrupt(t) \/ DeleteTimer(t)
  BY <1>4 DEF DeleteInterrupt, DeleteTimer
<1>5. CASE SyncStop(t) \/ SyncFlag(t)
  BY <1>5 DEF SyncStop, SyncFlag
<1> QED
  BY <1>1, <1>2, <1>3, <1>4, <1>5

\* What a change of the protocol's variables by task t has to establish.
LEMMA StepByTask ==
    ASSUME Inv, NEW t \in Tasks, NEW from \in Places, NEW to \in Places,
           Goto(t, from, to),
           toggle_map' \in BOOLEAN, toggle_claimed' \in BOOLEAN,
           toggles_lock' \in Tasks \cup {NULL},
           toggle_claimed' <=> (toggle_map' \/ \E u \in Tasks : Owns(u)'),
           Owns(t)' => \A u \in Tasks \ {t} : ~Owns(u),
           toggle_map' => \A u \in Tasks : ~Owns(u)',
           \A u \in Tasks : Holds(u)' <=> toggles_lock' = u
    PROVE  Inv'
<1>1. RegistryType'
  BY GotoMoves DEF Inv, RegistryType
<1>2. \A u \in Tasks \ {t} : Owns(u)' <=> Owns(u)
  BY GotoMoves DEF Inv, Owns
<1>3. \A u, v \in Tasks : Owns(u)' /\ Owns(v)' => u = v
  BY <1>2, InvByTask
<1> QED
  BY <1>1, <1>3 DEF Inv, ClaimHasOneOwner, LockIsExclusive, Owns, Holds

\* The others' part of the invariant is as it was.
LEMMA OthersKeep ==
    ASSUME Inv, NEW t \in Tasks, NEW from \in Places, NEW to \in Places,
           Goto(t, from, to)
    PROVE  /\ \A u \in Tasks \ {t} : (Owns(u)' <=> Owns(u)) /\ (Holds(u)' <=> Holds(u))
           /\ Owns(t) <=> from \in Creating \cup Deleting
           /\ Owns(t)' <=> to \in Creating \cup Deleting
           /\ Holds(t) <=> from \in Deleting \cup Syncing
           /\ Holds(t)' <=> to \in Deleting \cup Syncing
BY GotoMoves DEF Inv, Owns, Holds

\* toggle_create takes the claim or is refused it.
LEMMA ClaimInv ==
    ASSUME Inv, NEW t \in Tasks, Claim(t)
    PROVE  Inv'
<1> USE DEF Places, Creating, Deleting, Syncing
<1>1. toggle_map' = toggle_map /\ toggles_lock' = toggles_lock /\ toggle_claimed'
  BY DEF Claim
<1>2. CASE Goto(t, "claim", "fill") /\ ~toggle_claimed
  <2>1. Owns(t)' /\ \A u \in Tasks : ~Owns(u)
    BY <1>2, OthersKeep, InvByTask
  <2>2. ~toggle_map
    BY <1>2, InvByTask
  <2> QED
    BY <1>1, <1>2, <2>1, <2>2, OthersKeep, StepByTask, InvByTask DEF RegistryType
<1>3. CASE Goto(t, "claim", "idle") /\ toggle_claimed
  <2>1. UNCHANGED registry
    BY <1>1, <1>3 DEF registry, Inv, RegistryType
  <2> QED
    BY <1>3, <2>1, MoveInside
<1> QED
  BY <1>2, <1>3 DEF Claim

\* toggle_create registers the toggle, or gives the claim back.
LEMMA EndCreateInv ==
    ASSUME Inv, NEW t \in Tasks, Publish(t) \/ Unclaim(t)
    PROVE  Inv'
<1> USE DEF Places, Creating, Deleting, Syncing
<1>1. PICK from, to \in Places : /\ Goto(t, from, to)
                                /\ from \in Creating
                                /\ to \in {"idle", "wipe"}
  BY DEF Publish, Unclaim
<1>2. /\ toggle_map' = toggle_claimed' /\ toggle_map' \in BOOLEAN
      /\ toggles_lock' = toggles_lock
  BY DEF Publish, Unclaim
<1>3. Owns(t) /\ ~Owns(t)' /\ ~Holds(t) /\ ~Holds(t)'
  BY <1>1, OthersKeep
<1>4. \A u \in Tasks : ~Owns(u)'
  BY <1>1, <1>3, OthersKeep, InvByTask
<1>5. \A u \in Tasks : Holds(u)' <=> toggles_lock' = u
  BY <1>1, <1>2, <1>3, OthersKeep, InvByTask
<1> QED
  BY <1>1, <1>2, <1>3, <1>4, <1>5, StepByTask, InvByTask DEF RegistryType

\* toggle_delete finds nothing, or takes lock and toggle; and gives them back.
LEMMA DeleteInv ==
    ASSUME Inv, NEW t \in Tasks, Delete(t) \/ DeleteClaim(t)
    PROVE  Inv'
<1> USE DEF Places, Creating, Deleting, Syncing
<1>1. CASE Delete(t) /\ toggle_map
  <2>1. /\ Goto(t, "idle", "interrupt")
        /\ toggles_lock = NULL /\ toggles_lock' = t
        /\ toggle_map' = FALSE /\ toggle_claimed' = toggle_claimed
    BY <1>1 DEF Delete
  <2>2. Owns(t)' /\ Holds(t)' /\ \A u \in Tasks \ {t} : ~Owns(u) /\ ~Holds(u)
    BY <1>1, <2>1, OthersKeep, InvByTask, ToggleAssumption
  <2>3. toggle_claimed' /\ toggle_claimed' \in BOOLEAN
    BY <1>1, <2>1, InvByTask DEF RegistryType
  <2>4. \A u \in Tasks : Holds(u)' <=> toggles_lock' = u
    BY <2>1, <2>2, OthersKeep
  <2> QED
    BY <2>1, <2>2, <2>3, <2>4, StepByTask
<1>2. CASE Delete(t) /\ ~toggle_map
  BY <1>2, MoveInside DEF Delete, registry
<1>3. CASE DeleteClaim(t)
  <2>1. /\ Goto(t, "clear", "idle")
        /\ toggles_lock' = NULL
        /\ toggle_map' = toggle_map /\ toggle_claimed' = FALSE
    BY <1>3 DEF DeleteClaim
  <2>2. Owns(t) /\ Holds(t) /\ ~Owns(t)' /\ ~Holds(t)'
    BY <2>1, OthersKeep
  <2>3. toggle_map' = FALSE /\ \A u \in Tasks : ~Owns(u)' /\ ~Holds(u)'
    <3>1. ~toggle_map
      BY <2>2, InvByTask
    <3>2. toggle_map = FALSE
      BY <3>1, InvByTask DEF RegistryType
    <3>3. \A u \in Tasks \ {t} : ~Owns(u) /\ ~Holds(u)
      BY <2>2, InvByTask
    <3> QED
      BY <2>1, <2>2, <3>2, <3>3, OthersKeep
  <2> QED
    BY <2>1, <2>2, <2>3, StepByTask, ToggleAssumption
<1> QED
  BY <1>1, <1>2, <1>3

\* toggle_sync_state finds nothing, or takes the lock; and gives it back.
LEMMA SyncInv ==
    ASSUME Inv, NEW t \in Tasks, Sync(t) \/ SyncSample(t)
    PROVE  Inv'
<1> USE DEF Places, Creating, Deleting, Syncing
<1>1. CASE Sync(t) /\ toggle_map
  <2>1. PICK to \in {"stop", "flag"} : Goto(t, "idle", to)
    BY <1>1 DEF Sync
  <2>2. /\ toggles_lock = NULL /\ toggles_lock' = t
        /\ toggle_map' = toggle_map /\ toggle_claimed' = toggle_claimed
    BY <1>1 DEF Sync
  <2>3. Holds(t)' /\ \A u \in Tasks \ {t} : ~Holds(u)
    BY <2>1, <2>2, OthersKeep, InvByTask, ToggleAssumption
  <2>4. \A u \in Tasks : Owns(u)' <=> Owns(u)
    BY <2>1, OthersKeep
  <2>5. \A u \in Tasks : Holds(u)' <=> toggles_lock' = u
    BY <2>1, <2>2, <2>3, OthersKeep
  <2>6. ~Owns(t)'
    BY <2>1, OthersKeep
  <2> QED
    BY <2>1, <2>2, <2>4, <2>5, <2>6, StepByTask, InvByTask DEF RegistryType
<1>2. CASE Sync(t) /\ ~toggle_map
  BY <1>2, MoveInside DEF Sync, registry
<1>3. CASE SyncSample(t)
  <2>1. /\ Goto(t, "resample", "idle")
        /\ toggles_lock' = NULL
        /\ toggle_map' = toggle_map /\ toggle_claimed' = toggle_claimed
    BY <1>3 DEF SyncSample
  <2>2. ~Owns(t) /\ Holds(t) /\ ~Owns(t)' /\ ~Holds(t)'
    BY <2>1, OthersKeep
  <2>3. \A u \in Tasks : Owns(u)' <=> Owns(u)
    BY <2>1, <2>2, OthersKeep
  <2>4. \A u \in Tasks : ~Holds(u)'
    BY <2>1, <2>2, OthersKeep, InvByTask
  <2> QED
    BY <2>1, <2>2, <2>3, <2>4, StepByTask, InvByTask, ToggleAssumption DEF RegistryType
<1> QED
  BY <1>1, <1>2, <1>3

\* Every step preserves the invariant.
LEMMA NextInv == Inv /\ [Next]_vars => Inv'
<1> SUFFICES ASSUME Inv, [Next]_vars PROVE Inv'
  OBVIOUS
<1>1. CASE PinChanges \/ IsrEntry \/ IsrPost
  BY <1>1, OthersInv DEF PinChanges, IsrEntry, IsrPost, tasks
<1>2. CASE DaemonNext
  BY <1>2, OthersInv
  DEF DaemonNext, Expire, Command, Drained, Disarm, Read, Compare, tasks
<1>3. ASSUME NEW t \in Tasks, Call(t) \/ Step(t)
      PROVE  Inv'
  BY <1>3, InsideInv, ClaimInv, EndCreateInv, DeleteInv, SyncInv DEF Call, Step
<1>4. CASE Reboot
  BY <1>4, ToggleAssumption
  DEF Reboot, Inv, RegistryType, Places, ClaimHasOneOwner, LockIsExclusive, Creating,
      Deleting, Syncing
<1>5. CASE UNCHANGED vars
  BY <1>5, OthersInv DEF vars
<1> QED
  BY <1>1, <1>2, <1>3, <1>4, <1>5 DEF Next

\* A GPIO is claimed exactly while one creation, one deletion or a registered
\* toggle has it: no two creations of it overlap, no deletion interferes with a
\* creation in progress, and no failed call leaks the claim.
THEOREM ClaimProtocol == SafeSpec => []ClaimHasOneOwner
<1>1. Inv => ClaimHasOneOwner
  BY DEF Inv
<1> QED
  BY InitInv, NextInv, <1>1, PTL DEF SafeSpec

\* A deletion or a resynchronisation has the mutex from its first access to the
\* last.
THEOREM LockProtocol == SafeSpec => []LockIsExclusive
<1>1. Inv => LockIsExclusive
  BY DEF Inv
<1> QED
  BY InitInv, NextInv, <1>1, PTL DEF SafeSpec
-----------------------------------------------------------------------------
(* The types, and the capacity of the queue.                                *)

Commands == {"start", "stop", "delete"}
Slots == [callback : Tasks \cup {NULL}, last_high : BOOLEAN, armed : BOOLEAN,
          timer : BOOLEAN]
Drivers == [type : BOOLEAN, handler : BOOLEAN, enabled : BOOLEAN]
QueueType(s) == s \in Seq(Commands) /\ Len(s) <= QueueLen

\* A post keeps a queue a queue, within its limit.
LEMMA PostFits ==
    ASSUME NEW s, QueueType(s), NEW c \in Commands, NEW r \in Post(s, c)
    PROVE  QueueType(r)
BY ToggleAssumption DEF QueueType, Commands, Post

LEMMA TailFits ==
    ASSUME NEW s, QueueType(s), s # <<>>
    PROVE  QueueType(Tail(s))
<1>1. s \in Seq(Commands) /\ Len(s) <= QueueLen
  BY DEF QueueType
<1>2. Tail(s) \in Seq(Commands) /\ Len(Tail(s)) = Len(s) - 1
  BY <1>1
<1> QED
  BY <1>1, <1>2, ToggleAssumption DEF QueueType

LEMMA Reset == Wiped \in Slots /\ Off \in Drivers
BY DEF Wiped, Slots, Off, Drivers

\* What a step of a task does to what it shares with the ISR and the daemon.
LEMMA DropTypes ==
    ASSUME slot \in Slots, QueueType(q), DropTimer
    PROVE  slot' \in Slots /\ QueueType(q')
<1>1. PICK r \in Post(q, "stop") : q' \in Post(r, "delete")
  BY DEF DropTimer
<1>2. QueueType(r)
  BY PostFits DEF Commands
<1>3. slot' \in Slots
  BY DEF DropTimer, Slots
<1> QED
  BY <1>1, <1>2, <1>3, PostFits DEF Commands

\* The types, in the parts that the actions change together.
Typed == /\ pin \in BOOLEAN /\ irq \in BOOLEAN /\ isr \in {"idle", "start", "reset"}
         /\ slot \in Slots
         /\ toggles_initialized \in BOOLEAN /\ RegistryType
         /\ driver \in Drivers
         /\ active \in BOOLEAN /\ QueueType(q)
         /\ daemon \in [pc : {"wait", "drain", "disarm", "read", "compare"},
                        high : BOOLEAN]
         /\ missed \in BOOLEAN /\ panic \in BOOLEAN

\* What tells a call that toggles_init has succeeded.
Started == toggles_initialized \/ (~toggle_claimed /\ \A t \in Tasks : pc[t] = "idle")

LEMMA TypeParts == TypeOK <=> Typed /\ Started
BY DEF TypeOK, Typed, Started, Slots, Drivers, RegistryType, Places, QueueType, Commands

LEMMA InitTyped == Init => Typed
<1> SUFFICES ASSUME Init PROVE Typed
  OBVIOUS
<1>1. RegistryType
  BY InitInv DEF Inv
<1>2. QueueType(q)
  BY ToggleAssumption DEF Init, QueueType
<1> QED
  BY <1>1, <1>2, Reset DEF Typed, Init

\* The pin, the ISR and the daemon.
LEMMA OthersTyped ==
    ASSUME Typed, PinChanges \/ IsrEntry \/ IsrPost \/ DaemonNext
    PROVE  Typed'
<1> USE DEF Typed
<1>1. RegistryType' /\ UNCHANGED <<toggles_initialized, driver>>
  BY DEF PinChanges, IsrEntry, IsrPost, DaemonNext, Expire, Command, Drained, Disarm,
         Read, Compare, tasks, RegistryType
<1>2. CASE PinChanges
  BY <1>1, <1>2 DEF PinChanges, timer, QueueType
<1>3. CASE IsrEntry
  <2>1. slot' \in Slots
    BY <1>3 DEF IsrEntry, Slots
  <2> QED
    BY <1>1, <1>3, <2>1 DEF IsrEntry, timer, QueueType
<1>4. CASE IsrPost
  <2>1. slot' \in Slots
    BY <1>4 DEF IsrPost, Slots
  <2>2. QueueType(q')
    BY <1>4, PostFits DEF IsrPost, Commands
  <2>3. missed' \in BOOLEAN /\ panic' \in BOOLEAN
    BY <1>4 DEF IsrPost
  <2> QED
    BY <1>1, <1>4, <2>1, <2>2, <2>3 DEF IsrPost, QueueType
<1>5. CASE Expire
  BY <1>1, <1>5 DEF Expire, CallBack, QueueType
<1>6. CASE Command
  <2>1. QueueType(Tail(q))
    BY <1>6, TailFits DEF Command
  <2>2. daemon' \in [pc : {"wait", "drain", "disarm", "read", "compare"},
                     high : BOOLEAN] /\ active' \in BOOLEAN
    BY <1>6 DEF Command, CallBack
  <2> QED
    BY <1>1, <1>6, <2>1, <2>2 DEF Command, QueueType
<1>7. CASE Drained
  BY <1>1, <1>7 DEF Drained, QueueType
<1>8. CASE Disarm
  BY <1>1, <1>8 DEF Disarm, QueueType, Slots
<1>9. CASE Read
  BY <1>1, <1>9 DEF Read, QueueType
<1>10. CASE Compare
  <2>1. slot' \in Slots /\ panic' \in BOOLEAN
    BY <1>10 DEF Compare, Slots, CallsNull
  <2> QED
    BY <1>1, <1>10, <2>1 DEF Compare, QueueType
<1> QED
  BY <1>2, <1>3, <1>4, <1>5, <1>6, <1>7, <1>8, <1>9, <1>10 DEF DaemonNext

\* The steps of a task that leave the queue alone.
LEMMA TaskTyped ==
    ASSUME Typed, RegistryType', NEW t \in Tasks, Call(t) \/ Step(t)
    PROVE  Typed'
<1> USE DEF Typed
<1>1. CASE Call(t)
  BY <1>1 DEF Call, ToggleInit, Delete, Sync, timer, QueueType
<1>2. CASE Claim(t) \/ Publish(t) \/ Unclaim(t)
  BY <1>2 DEF Claim, Publish, Unclaim, timer, QueueType
<1>3. CASE Fill(t) \/ CreateTimer(t) \/ Wipe(t) \/ DeleteClaim(t) \/ SyncFlag(t)
  <2>1. slot' \in Slots
    <3>1. [Wiped EXCEPT !.callback = t] \in Slots
      BY DEF Wiped, Slots
    <3>2. /\ [slot EXCEPT !.timer = TRUE] \in Slots
          /\ [slot EXCEPT !.armed = FALSE] \in Slots
      BY DEF Slots
    <3> QED
      BY <1>3, <3>1, <3>2, Reset DEF Fill, CreateTimer, Wipe, DeleteClaim, SyncFlag
  <2>2. panic' \in BOOLEAN
    BY <1>3 DEF Fill, CreateTimer, Wipe, DeleteClaim, SyncFlag
  <2> QED
    BY <1>3, <2>1, <2>2
    DEF Fill, CreateTimer, Wipe, DeleteClaim, SyncFlag, timer, QueueType
<1>4. CASE Sample(t) \/ SyncSample(t)
  <2>1. slot' \in Slots
    BY <1>4 DEF Sample, SyncSample, Slots
  <2> QED
    BY <1>4, <2>1 DEF Sample, SyncSample, timer, QueueType, Drivers
<1>5. CASE SetType(t) \/ AddHandler(t) \/ Enable(t)
  BY <1>5 DEF SetType, AddHandler, Enable, DriverCall, timer, QueueType, Drivers
<1>6. CASE Undo(t) \/ DeleteTimer(t)
  <2>1. slot' \in Slots /\ QueueType(q')
    BY <1>6, DropTypes DEF Undo, DeleteTimer
  <2>2. driver' = Off \/ driver' = driver
    BY <1>6 DEF Undo, DeleteTimer
  <2>5. driver' \in Drivers
    BY <2>2, Reset
  <2>3. UNCHANGED <<pin, isr, toggles_initialized, active, daemon, missed, panic>>
    BY <1>6 DEF Undo, DeleteTimer
  <2>4. UNCHANGED irq
    BY <1>6 DEF Undo, DeleteTimer
  <2> QED
    BY <2>1, <2>3, <2>4, <2>5
<1>7. CASE DeleteInterrupt(t)
  BY <1>7, Reset DEF DeleteInterrupt, timer, QueueType
<1>8. CASE SyncStop(t)
  <2>1. QueueType(q')
    BY <1>8, PostFits DEF SyncStop, Commands
  <2> QED
    BY <1>8, <2>1 DEF SyncStop
<1> QED
  BY <1>1, <1>2, <1>3, <1>4, <1>5, <1>6, <1>7, <1>8 DEF Call, Step

LEMMA NextTyped == Typed /\ Inv' /\ [Next]_vars => Typed'
<1> SUFFICES ASSUME Typed, Inv', [Next]_vars PROVE Typed'
  OBVIOUS
<1>1. CASE PinChanges \/ IsrEntry \/ IsrPost \/ DaemonNext
  BY <1>1, OthersTyped
<1>2. ASSUME NEW t \in Tasks, Call(t) \/ Step(t)
      PROVE  Typed'
  BY <1>2, TaskTyped DEF Inv
<1>3. CASE Reboot
  <2>1. QueueType(q')
    BY <1>3, ToggleAssumption DEF Reboot, QueueType
  <2> QED
    BY <1>3, <2>1, Reset DEF Typed, Reboot, Inv
<1>4. CASE UNCHANGED vars
  BY <1>4 DEF vars, Typed, RegistryType, QueueType
<1> QED
  BY <1>1, <1>2, <1>3, <1>4 DEF Next

\* Only toggles_init starts a call before it has succeeded.
LEMMA NextStarted == Typed /\ Started /\ [Next]_vars => Started'
<1> SUFFICES ASSUME Typed, Started, [Next]_vars PROVE Started'
  OBVIOUS
<1>1. CASE PinChanges \/ IsrEntry \/ IsrPost
  BY <1>1 DEF Started, PinChanges, IsrEntry, IsrPost, tasks
<1>2. CASE DaemonNext
  BY <1>2 DEF Started, DaemonNext, Expire, Command, Drained, Disarm, Read, Compare, tasks
<1>3. ASSUME NEW t \in Tasks, Call(t)
      PROVE  Started'
  BY <1>3 DEF Started, Call, ToggleInit, Delete, Sync
<1>4. ASSUME NEW t \in Tasks, Step(t)
      PROVE  Started'
  <2>1. pc[t] # "idle"
    BY <1>4
    DEF Step, Goto, Claim, Fill, CreateTimer, Sample, SetType, AddHandler, Enable,
        DriverCall, Publish, Undo, Unclaim, Wipe, DeleteInterrupt, DeleteTimer,
        DeleteClaim, SyncStop, SyncFlag, SyncSample
  <2>2. UNCHANGED toggles_initialized
    BY <1>4
    DEF Step, Claim, Fill, CreateTimer, Sample, SetType, AddHandler, Enable,
        DriverCall, Publish, Undo, Unclaim, Wipe, DeleteInterrupt, DeleteTimer,
        DeleteClaim, SyncStop, SyncFlag, SyncSample
  <2> QED
    BY <2>1, <2>2 DEF Started
<1>5. CASE Reboot
  BY <1>5 DEF Started, Reboot
<1>6. CASE UNCHANGED vars
  BY <1>6 DEF Started, vars
<1> QED
  BY <1>1, <1>2, <1>3, <1>4, <1>5, <1>6 DEF Next

\* The invariant and the types together.
LEMMA TypedSteps ==
    /\ Init => Inv /\ TypeOK
    /\ Inv /\ TypeOK /\ [Next]_vars => (Inv /\ TypeOK)'
<1>1. Init => Started
  BY DEF Init, Started
<1>2. (TypeOK <=> Typed /\ Started) /\ (TypeOK <=> Typed /\ Started)'
  BY TypeParts, PTL
<1> QED
  BY <1>1, <1>2, InitInv, NextInv, InitTyped, NextTyped, NextStarted

\* Every variable keeps its type, the daemon's queue its limit, and no call goes on
\* without toggles_init, on every number of tasks and whatever fails.
THEOREM ToggleTypes == SafeSpec => []TypeOK
BY TypedSteps, PTL DEF SafeSpec
=============================================================================
