----------------------- MODULE ButtonLifecycleProofs -----------------------
(***************************************************************************)
(* Proofs about ButtonLifecycle for every set of tasks and mutexes, with   *)
(* or without failures, on one core or two: who has the GPIO, and that     *)
(* button, toggle and slot belong together.  The first calls may overlap,  *)
(* except that no two of them create the mutex at once (MutexMadeOnce),    *)
(* and tasks may interrupt the daemon; what asks for more says so.         *)
(***************************************************************************)
EXTENDS ButtonLifecycle, TLAPS

Making == {"create_mutex", "destroy_mutex"}
Booting == {"create_init", "destroy_init"} \cup Making
Holding == {"check", "mark", "lookup"} \cup Deleting
Owning == Creating \cup Deleting
Above == {"sync", "synced", "publish", "delete", "deleting"}

Slots == [callback : Tasks \cup {NULL}, max : {0, MaxPresses}, timer : BOOLEAN,
          count : 0 .. MaxPresses, stray : BOOLEAN,
          mode : {"idle", "long_press", "repeat_window"}]
Toggles == [pressed : BOOLEAN, armed : BOOLEAN]

Types == /\ buttons_lock \in Locks \cup {NULL}
         /\ holder \in [Locks -> Tasks \cup {NULL}]
         /\ used \subseteq Locks
         /\ button_claimed \in BOOLEAN /\ registered_buttons \in BOOLEAN
         /\ slot \in Slots
         /\ toggle \in Toggles \cup {NULL}
         /\ pressed \in BOOLEAN
         /\ daemon \in {"idle", "pressed", "released", "expired", "call"}
         /\ toggles_lock \in Tasks \cup {NULL}
         /\ pc \in [Tasks -> Places]

\* A task that is about to create the mutex has seen that there is none, and there is
\* none yet; nobody is past buttons_init without one.
Boot == /\ \A t \in Tasks : pc[t] \in Making => buttons_lock = NULL
        /\ \A t \in Tasks : pc[t] \notin Booting \cup {"idle"} => buttons_lock # NULL

\* The mutex is the only one, and is held by the task that is where it is held.
Lock == /\ \A l \in Locks : holder[l] # NULL => l = buttons_lock
        /\ buttons_lock # NULL =>
             \A t \in Tasks : pc[t] \in Holding <=> holder[buttons_lock] = t

\* One task owns the claim, or a registered button, or nobody.
Claim == /\ \A t, u \in Tasks : pc[t] \in Owning /\ pc[u] \in Owning => t = u
         /\ registered_buttons => \A t \in Tasks : pc[t] \notin Owning
         /\ button_claimed <=> registered_buttons \/ \E t \in Tasks : pc[t] \in Owning
         /\ \A t \in Tasks : pc[t] = "mark" => ~button_claimed

\* There is a toggle exactly from toggle_create to toggle_delete, and the slot that it
\* calls back into is filled all that time.
Below == /\ toggle # NULL <=> registered_buttons \/ \E t \in Tasks : pc[t] \in Above
         /\ registered_buttons => slot.callback # NULL
         /\ \A t \in Tasks : pc[t] \in Above \cup {"toggle"} => slot.callback # NULL

\* A slot with a timer is filled.
Slot == slot.timer => slot.callback # NULL

\* The inductive invariant.
Inv == Types /\ Boot /\ Lock /\ Claim /\ Below /\ Slot

\* What the theorems ask of the first calls: no two of them are in buttons_init at once
\* past its test of buttons_lock (button.c:158), each about to assign a mutex of its own.
MutexMadeOnce == \A t, u \in Tasks : pc[t] \in Making /\ pc[u] \in Making => t = u

-----------------------------------------------------------------------------
LEMMA Facts ==
    /\ Wiped \in Slots /\ Wiped.callback = NULL /\ ~Wiped.timer
    /\ \A t \in Tasks, timer \in BOOLEAN :
         Filled(t, timer) \in Slots /\ Filled(t, timer).callback = t /\ t # NULL
    /\ NULL \notin Toggles
<1>1. Wiped \in Slots /\ Wiped.callback = NULL /\ ~Wiped.timer
  BY LifecycleAssumption DEF Wiped, Slots
<1>2. ASSUME NEW t \in Tasks, NEW timer \in BOOLEAN
      PROVE  Filled(t, timer) \in Slots /\ Filled(t, timer).callback = t
  <2> HIDE DEF Wiped
  <2> QED
    BY <1>1 DEF Filled, Slots
<1> QED
  BY <1>1, <1>2, LifecycleAssumption DEF Toggles

LEMMA InitInv == Init => Inv
<1> SUFFICES ASSUME Init PROVE Inv
  OBVIOUS
<1>1. \A t \in Tasks : pc[t] = "idle"
  BY DEF Init
<1>2. Types
  BY Facts DEF Init, Types, Places
<1>3. Boot /\ Lock
  BY <1>1, LifecycleAssumption DEF Init, Boot, Lock, Booting, Making
<1>4. Claim /\ Below /\ Slot
  BY <1>1, Facts DEF Init, Claim, Below, Slot, Owning, Creating, Deleting, Above
<1> QED
  BY <1>2, <1>3, <1>4 DEF Inv

\* A step of task t moves only t.
LEMMA Moves ==
    ASSUME Types, NEW t \in Tasks, NEW from \in Places, NEW to \in Places, Goto(t, from, to)
    PROVE  /\ pc' \in [Tasks -> Places]
           /\ pc[t] = from /\ pc'[t] = to
           /\ \A u \in Tasks \ {t} : pc'[u] = pc[u]
BY DEF Types, Goto

-----------------------------------------------------------------------------
(* What a step keeps of each part of the invariant.                         *)

LEMMA KeepsBoot ==
    ASSUME Inv, NEW t \in Tasks, NEW from \in Places, NEW to \in Places, Goto(t, from, to),
           buttons_lock' = buttons_lock,
           from \notin Booting \cup {"idle"}, to \notin Booting
    PROVE  Boot'
BY Moves DEF Inv, Boot, Booting

LEMMA KeepsLock ==
    ASSUME Inv, NEW t \in Tasks, NEW from \in Places, NEW to \in Places, Goto(t, from, to),
           UNCHANGED locks, from \in Holding <=> to \in Holding
    PROVE  Lock'
BY Moves DEF Inv, Lock, locks

LEMMA TakesLock ==
    ASSUME Inv, NEW t \in Tasks, NEW from \in Places, NEW to \in Places, Goto(t, from, to),
           Take(t), from \notin Booting \cup {"idle"}, to \in Holding
    PROVE  /\ Lock' /\ holder' \in [Locks -> Tasks \cup {NULL}]
           /\ \A u \in Tasks : pc[u] \notin Holding
<1>1. buttons_lock \in Locks /\ buttons_lock # NULL
  BY Moves DEF Inv, Types, Boot
<1>2. /\ holder[buttons_lock] = NULL /\ buttons_lock' = buttons_lock
      /\ holder' = [holder EXCEPT ![buttons_lock] = t]
  BY DEF Take
<1>3. \A u \in Tasks : pc[u] \notin Holding
  BY <1>1, <1>2, LifecycleAssumption DEF Inv, Lock
<1>4. Lock'
  BY <1>1, <1>2, <1>3, Moves DEF Inv, Lock, Types
<1> QED
  BY <1>2, <1>3, <1>4 DEF Inv, Types

LEMMA GivesLock ==
    ASSUME Inv, NEW t \in Tasks, NEW from \in Places, NEW to \in Places, Goto(t, from, to),
           Give(t), from \in Holding, to \notin Holding
    PROVE  Lock' /\ holder' \in [Locks -> Tasks \cup {NULL}]
<1>1. buttons_lock \in Locks /\ buttons_lock # NULL
  BY Moves DEF Inv, Types, Boot, Holding, Booting, Making, Deleting
<1>2. holder[buttons_lock] = t
  BY <1>1, Moves DEF Inv, Lock
<1>3. buttons_lock' = buttons_lock /\ holder' = [holder EXCEPT ![buttons_lock] = NULL]
  BY <1>2 DEF Give
<1>4. Lock'
  BY <1>1, <1>2, <1>3, Moves, LifecycleAssumption DEF Inv, Lock, Types
<1> QED
  BY <1>3, <1>4 DEF Inv, Types

LEMMA KeepsClaim ==
    ASSUME Inv, NEW t \in Tasks, NEW from \in Places, NEW to \in Places, Goto(t, from, to),
           UNCHANGED <<button_claimed, registered_buttons>>,
           from \in Owning <=> to \in Owning, to = "mark" => ~button_claimed
    PROVE  Claim'
<1>1. \A u \in Tasks : pc'[u] \in Owning <=> pc[u] \in Owning
  BY Moves DEF Inv
<1> QED
  BY <1>1, Moves DEF Inv, Claim

LEMMA KeepsBelow ==
    ASSUME Inv, NEW t \in Tasks, NEW from \in Places, NEW to \in Places, Goto(t, from, to),
           UNCHANGED <<registered_buttons, slot, toggle, daemon>>,
           from \in Above <=> to \in Above, to # "toggle"
    PROVE  Below' /\ Slot'
<1>1. \A u \in Tasks : pc'[u] \in Above <=> pc[u] \in Above
  BY Moves DEF Inv
<1> QED
  BY <1>1, Moves DEF Inv, Below, Slot

\* A step of a task that leaves the pool and the toggle alone.
LEMMA KeepsPool ==
    ASSUME Inv, NEW t \in Tasks, NEW from \in Places, NEW to \in Places, Goto(t, from, to),
           UNCHANGED <<pool, toggle, pressed, daemon>>, toggles_lock' \in Tasks \cup {NULL},
           from \in Owning <=> to \in Owning, from \in Above <=> to \in Above,
           to # "toggle", to = "mark" => ~button_claimed,
           buttons_lock' \in Locks \cup {NULL}, used' \subseteq Locks,
           holder' \in [Locks -> Tasks \cup {NULL}],
           Boot', Lock'
    PROVE  Inv'
<1>1. Types'
  BY Moves DEF Inv, Types, pool
<1>2. Claim'
  BY KeepsClaim DEF pool
<1>3. Below' /\ Slot'
  BY KeepsBelow DEF pool
<1> QED
  BY <1>1, <1>2, <1>3 DEF Inv

-----------------------------------------------------------------------------
(* The first call: the mutex is created.                                    *)

LEMMA StartKeeps ==
    ASSUME Inv, NEW t \in Tasks, NEW ready, NEW init,
           <<ready, init>> \in {<<"take", "create_init">>, <<"destroy_take", "destroy_init">>},
           Start(t, ready, init), UNCHANGED <<pressed, daemon>>
    PROVE  Inv'
<1> DEFINE to == IF buttons_lock = NULL THEN init ELSE ready
<1>1. Goto(t, "idle", to) /\ UNCHANGED <<locks, pool, below>>
  BY DEF Start
<1>2. to \in Places /\ "idle" \in Places /\ to \notin Owning \cup Above \cup Holding
      /\ to \notin {"idle", "toggle", "mark"} /\ "idle" \notin Owning \cup Above \cup Holding
      /\ (to \in Booting <=> buttons_lock = NULL) /\ to \notin Making
  BY DEF Places, Owning, Above, Holding, Creating, Deleting, Booting, Making
<1> HIDE DEF to
<1>3. Boot'
  BY <1>1, <1>2, Moves DEF Inv, Boot, locks
<1>4. Lock'
  BY <1>1, <1>2, KeepsLock
<1> QED
  BY <1>1, <1>2, <1>3, <1>4, KeepsPool DEF Inv, Types, locks, below

LEMMA InitKeeps ==
    ASSUME Inv, NEW t \in Tasks, NEW from, NEW ready, NEW mutex,
           <<from, ready, mutex>> \in {<<"create_init", "take", "create_mutex">>,
                                        <<"destroy_init", "destroy_take", "destroy_mutex">>},
           buttons_init(t, from, ready, mutex), UNCHANGED <<pressed, daemon>>
    PROVE  Inv'
<1> DEFINE to == IF buttons_lock = NULL THEN mutex ELSE ready
<1>1. Goto(t, from, to) /\ UNCHANGED <<locks, pool, below>>
  BY DEF buttons_init
<1>2. /\ {from, to} \subseteq Places
      /\ {from, to} \cap (Owning \cup Above \cup Holding \cup {"idle", "toggle", "mark"}) = {}
      /\ from \notin Making /\ to \in Booting <=> buttons_lock = NULL
      /\ to \in Making <=> buttons_lock = NULL
  BY DEF Places, Owning, Above, Holding, Creating, Deleting, Booting, Making
<1> HIDE DEF to
<1>3. Boot'
  BY <1>1, <1>2, Moves DEF Inv, Boot, locks
<1>4. Lock'
  BY <1>1, <1>2, KeepsLock
<1> QED
  BY <1>1, <1>2, <1>3, <1>4, KeepsPool DEF Inv, Types, locks, below

LEMMA CreateMutexKeeps ==
    ASSUME Inv, MutexMadeOnce, NEW t \in Tasks, NEW from, NEW ready,
           <<from, ready>> \in {<<"create_mutex", "take">>, <<"destroy_mutex", "destroy_take">>},
           CreateMutex(t, from, ready), UNCHANGED <<pressed, daemon>>
    PROVE  Inv'
<1>1. /\ {from, ready, "idle"} \subseteq Places
      /\ from \in Making /\ ready \notin Booting /\ "idle" \notin Booting
      /\ Making \subseteq Booting /\ (Booting \cup {"idle"}) \cap Holding = {}
      /\ {from, ready, "idle"} \cap (Owning \cup Above \cup Holding \cup {"toggle", "mark"}) = {}
  BY DEF Places, Owning, Above, Holding, Creating, Deleting, Booting, Making
<1>2. pc[t] = from /\ buttons_lock = NULL
  BY <1>1 DEF Inv, Boot, CreateMutex, Goto
<1>3. \A u \in Tasks \ {t} : pc[u] \notin Making /\ pc[u] \in Booting \cup {"idle"}
  BY <1>1, <1>2 DEF Inv, Boot, MutexMadeOnce
<1>4. \A l \in Locks : holder[l] = NULL
  BY <1>2, LifecycleAssumption DEF Inv, Lock
<1>5. CASE \E l \in Locks \ used : /\ Goto(t, from, ready)
                                     /\ buttons_lock' = l /\ used' = used \cup {l}
  <2>1. PICK l \in Locks \ used : Goto(t, from, ready) /\ buttons_lock' = l /\ used' = used \cup {l}
    BY <1>5
  <2>2. l # NULL /\ UNCHANGED <<holder, pool, below>>
    BY LifecycleAssumption DEF CreateMutex
  <2>3. Boot'
    BY <1>1, <1>3, <2>1, <2>2, Moves DEF Inv, Boot
  <2>4. \A u \in Tasks : pc'[u] \notin Holding
    BY <1>1, <1>3, <2>1, Moves DEF Inv
  <2>5. Lock'
    BY <1>4, <2>1, <2>2, <2>4, LifecycleAssumption DEF Lock
  <2> QED
    BY <1>1, <2>1, <2>2, <2>3, <2>5, KeepsPool DEF Inv, Types, below
<1>6. CASE Goto(t, from, "idle") /\ UNCHANGED <<buttons_lock, used>>
  <2>1. UNCHANGED <<locks, pool, below>>
    BY <1>6 DEF CreateMutex, locks
  <2>2. Boot'
    BY <1>1, <1>2, <1>3, <1>6, Moves DEF Inv, Boot
  <2>3. Lock'
    BY <1>1, <1>6, <2>1, KeepsLock
  <2> QED
    BY <1>1, <1>6, <2>1, <2>2, <2>3, KeepsPool DEF Inv, Types, locks, below
<1> QED
  BY <1>5, <1>6 DEF CreateMutex

-----------------------------------------------------------------------------
(* button_create and button_destroy, step by step.  Each leaves the mutex   *)
(* variable alone, and the daemon is idle.                                  *)

\* What a place is: the sets it is in.
LEMMA PlaceSets ==
    /\ {"mark", "lookup", "check"} \cup Owning \cup {"idle", "take", "destroy_take"} \subseteq Places
    /\ Above \subseteq Owning /\ "fail" \in Owning /\ "unclaim" \in Owning
    /\ {"fill", "toggle", "reset", "release"} \subseteq Owning
    /\ {"fill", "toggle", "reset", "release", "fail", "unclaim"} \cap Above = {}
    /\ {"idle", "take", "destroy_take", "check", "mark", "lookup"} \cap Owning = {}
    /\ {"check", "mark", "lookup"} \cup Deleting \subseteq Holding
    /\ Creating \cap Holding = {} /\ {"idle", "take", "destroy_take"} \cap Holding = {}
    /\ Booting \cap (Owning \cup Holding \cup {"idle", "take", "destroy_take"}) = {}
    /\ Making \subseteq Booting
    /\ {"sync", "synced", "publish", "delete", "deleting"} = Above
    /\ {"delete", "deleting", "reset", "release"} = Deleting
    /\ {"fill", "toggle", "sync", "synced", "publish", "fail", "unclaim"} = Creating
    /\ "idle" \notin Owning \cup Holding
BY DEF Places, Owning, Above, Holding, Creating, Deleting, Booting, Making

LEMMA TakeKeeps ==
    ASSUME Inv, NEW t \in Tasks, TakeForClaim(t) \/ TakeForDestroy(t),
           UNCHANGED <<pressed, daemon>>
    PROVE  Inv'
<1>1. PICK from \in {"take", "destroy_take"}, to \in {"check", "lookup"} :
         Goto(t, from, to) /\ Take(t) /\ UNCHANGED <<pool, below>>
  BY DEF TakeForClaim, TakeForDestroy
<1>2. from \in Places /\ to \in Places
  BY PlaceSets
<1>3. from \notin Booting \cup {"idle"} /\ to \notin Booting /\ to \in Holding
  BY PlaceSets
<1>4. from \notin Owning \cup Above /\ to \notin Owning \cup Above \cup {"toggle", "mark"}
  BY PlaceSets
<1>5. buttons_lock' = buttons_lock /\ used' = used
  BY <1>1 DEF Take
<1>6. Boot'
  BY <1>1, <1>2, <1>3, <1>5, KeepsBoot
<1>7. Lock' /\ holder' \in [Locks -> Tasks \cup {NULL}]
  BY <1>1, <1>2, <1>3, TakesLock
<1> QED
  BY <1>1, <1>2, <1>4, <1>5, <1>6, <1>7, KeepsPool DEF Inv, Types, below

LEMMA CheckKeeps ==
    ASSUME Inv, NEW t \in Tasks, CheckClaim(t), UNCHANGED <<pressed, daemon>>
    PROVE  Inv'
<1>1. UNCHANGED <<buttons_lock, used, pool, below>>
  BY DEF CheckClaim, Give, locks
<1>2. CASE ~button_claimed /\ Goto(t, "check", "mark") /\ UNCHANGED locks
  <2>1. Boot'
    BY <1>1, <1>2, PlaceSets, KeepsBoot
  <2>2. Lock'
    BY <1>2, PlaceSets, KeepsLock
  <2> QED
    BY <1>1, <1>2, <2>1, <2>2, PlaceSets, KeepsPool DEF Inv, Types, below, locks
<1>3. CASE button_claimed /\ Goto(t, "check", "idle") /\ Give(t)
  <2>1. Boot'
    BY <1>1, <1>3, PlaceSets, KeepsBoot
  <2>2. Lock' /\ holder' \in [Locks -> Tasks \cup {NULL}]
    BY <1>3, PlaceSets, GivesLock
  <2> QED
    BY <1>1, <1>3, <2>1, <2>2, PlaceSets, KeepsPool DEF Inv, Types, below
<1> QED
  BY <1>2, <1>3 DEF CheckClaim

LEMMA MarkKeeps ==
    ASSUME Inv, NEW t \in Tasks, MarkClaim(t), UNCHANGED <<pressed, daemon>>
    PROVE  Inv'
<1>1. /\ Goto(t, "mark", "fill") /\ Give(t) /\ button_claimed' = TRUE
      /\ UNCHANGED <<buttons_lock, used, registered_buttons, slot, below, pressed, daemon>>
  BY DEF MarkClaim, Give
<1>2. /\ pc' \in [Tasks -> Places] /\ pc[t] = "mark" /\ pc'[t] = "fill"
      /\ \A u \in Tasks \ {t} : pc'[u] = pc[u]
  BY <1>1, PlaceSets, Moves DEF Inv
<1>3. ~button_claimed /\ ~registered_buttons /\ \A u \in Tasks : pc[u] \notin Owning
  BY <1>2 DEF Inv, Claim
<1>4. Boot'
  BY <1>1, PlaceSets, KeepsBoot
<1>5. Lock' /\ holder' \in [Locks -> Tasks \cup {NULL}]
  BY <1>1, PlaceSets, GivesLock
<1>6. \A u \in Tasks : pc[u] = "mark" => u = t
  BY <1>2, PlaceSets DEF Inv, Lock, Boot
<1>7. Claim'
  BY <1>1, <1>2, <1>3, <1>6, PlaceSets DEF Claim
<1>8. \A u \in Tasks : pc'[u] \notin Above \cup {"toggle"} /\ pc[u] \notin Above \cup {"toggle"}
  BY <1>2, <1>3, PlaceSets
<1>9. Below' /\ Slot'
  BY <1>1, <1>8 DEF Inv, Below, Slot, below
<1> QED
  BY <1>1, <1>2, <1>4, <1>5, <1>7, <1>9 DEF Inv, Types, below

\* The owner of the claim is the only one at work on the slot and the toggle.
LEMMA OwnerIsAlone ==
    ASSUME Inv, NEW t \in Tasks, pc[t] \in Owning
    PROVE  /\ ~registered_buttons /\ button_claimed
           /\ \A u \in Tasks \ {t} : pc[u] \notin Owning \cup Above
           /\ toggle # NULL <=> pc[t] \in Above
BY PlaceSets DEF Inv, Claim, Below

LEMMA OwnerStep ==
    ASSUME Inv, NEW t \in Tasks, NEW from \in Owning, NEW to \in Owning, Goto(t, from, to),
           UNCHANGED <<locks, button_claimed, registered_buttons, pressed, daemon>>,
           from \in Holding <=> to \in Holding,
           slot' \in Slots, slot'.timer => slot'.callback # NULL,
           to \in Above \cup {"toggle"} => slot'.callback # NULL,
           toggle' \in Toggles \cup {NULL}, toggle' # NULL <=> to \in Above,
           toggles_lock' \in Tasks \cup {NULL}
    PROVE  Inv'
<1>1. from \in Places /\ to \in Places /\ {from, to} \cap (Booting \cup {"idle", "mark"}) = {}
  BY PlaceSets
<1>2. /\ pc' \in [Tasks -> Places] /\ pc[t] = from /\ pc'[t] = to
      /\ \A u \in Tasks \ {t} : pc'[u] = pc[u]
  BY <1>1, Moves DEF Inv
<1>3. \A u \in Tasks \ {t} : pc[u] \notin Owning \cup Above \cup {"toggle"}
  BY <1>2, OwnerIsAlone, PlaceSets
<1>4. Boot' /\ Lock'
  BY <1>1, KeepsBoot, KeepsLock DEF locks
<1>5. Claim'
  BY <1>1, KeepsClaim
<1>6. Below' /\ Slot'
  BY <1>2, <1>3, OwnerIsAlone DEF Below, Slot
<1> QED
  BY <1>2, <1>4, <1>5, <1>6 DEF Inv, Types, locks

LEMMA FillKeeps ==
    ASSUME Inv, NEW t \in Tasks, Fill(t), UNCHANGED <<pressed, daemon>>
    PROVE  Inv'
<1>1. PICK to \in {"toggle", "fail"}, timer \in BOOLEAN :
         Goto(t, "fill", to) /\ slot' = Filled(t, timer)
  BY DEF Fill
<1>2. UNCHANGED <<locks, button_claimed, registered_buttons, toggle, toggles_lock>>
  BY DEF Fill, below
<1>3. "fill" \in Owning \ (Above \cup Holding) /\ to \in Owning \ (Above \cup Holding)
  BY PlaceSets DEF Holding, Deleting
<1>4. slot' \in Slots /\ slot'.callback # NULL
  BY <1>1, Facts
<1>5. toggle = NULL
  BY <1>1, <1>3, OwnerIsAlone DEF Goto
<1> QED
  BY <1>1, <1>2, <1>3, <1>4, <1>5, OwnerStep DEF Inv, Types

LEMMA CreateToggleKeeps ==
    ASSUME Inv, NEW t \in Tasks, CreateToggle(t), UNCHANGED <<pressed, daemon>>
    PROVE  Inv'
<1>1. pc[t] = "toggle" /\ UNCHANGED <<locks, pool, toggles_lock>>
  BY DEF CreateToggle, Goto
<1>2. {"toggle", "sync", "fail"} \subseteq Owning
      /\ {"toggle", "sync", "fail"} \cap Holding = {}
      /\ "toggle" \notin Above /\ "fail" \notin Above /\ "sync" \in Above
  BY PlaceSets DEF Holding, Deleting
<1>3. toggle = NULL
  BY <1>1, <1>2, OwnerIsAlone
<1>4. slot.callback # NULL
  BY <1>1 DEF Inv, Below
<1>5. CASE Goto(t, "toggle", "sync") /\ toggle' = [pressed |-> pressed, armed |-> FALSE]
  <2>1. toggle' \in Toggles
    BY <1>5 DEF Inv, Types, Toggles
  <2> QED
    BY <1>1, <1>2, <1>4, <1>5, <2>1, Facts, OwnerStep DEF Inv, Types, pool
<1>6. CASE Goto(t, "toggle", "fail") /\ UNCHANGED toggle
  BY <1>1, <1>2, <1>3, <1>4, <1>6, OwnerStep DEF Inv, Types, pool
<1> QED
  BY <1>5, <1>6 DEF CreateToggle

LEMMA SyncKeeps ==
    ASSUME Inv, NEW t \in Tasks, SyncTake(t) \/ SyncGive(t),
           UNCHANGED <<pressed, daemon>>
    PROVE  Inv'
<1>1. {"sync", "synced", "publish"} \subseteq Owning \cap Above
      /\ {"sync", "synced", "publish"} \cap Holding = {}
  BY PlaceSets DEF Holding, Deleting
<1>2. CASE SyncTake(t)
  <2>1. Goto(t, "sync", "synced") /\ UNCHANGED <<locks, pool, toggle>> /\ toggles_lock' = t
    BY <1>2 DEF SyncTake
  <2>2. slot.callback # NULL /\ toggle # NULL
    BY <1>1, <2>1 DEF Inv, Below, Goto
  <2> QED
    BY <1>1, <2>1, <2>2, OwnerStep DEF Inv, Types, pool
<1>3. CASE SyncGive(t)
  <2>1. /\ Goto(t, "synced", "publish") /\ toggles_lock' = NULL
        /\ UNCHANGED <<locks, button_claimed, registered_buttons>>
        /\ toggle' = [pressed |-> pressed, armed |-> FALSE]
        /\ slot' = [slot EXCEPT !.stray = slot.count > 0 /\ toggle.pressed /\ ~pressed]
    BY <1>3 DEF SyncGive, Sync
  <2>2. slot.callback # NULL /\ toggle # NULL
    BY <1>1, <2>1 DEF Inv, Below, Goto
  <2>3. toggle' \in Toggles
    BY <2>1 DEF Inv, Types, Toggles
  <2>4. slot' \in Slots /\ slot'.callback # NULL
    <3>1. slot \in Slots /\ toggle \in Toggles /\ pressed \in BOOLEAN
      BY <2>2 DEF Inv, Types
    <3>2. (slot.count > 0 /\ toggle.pressed /\ ~pressed) \in BOOLEAN
      BY <3>1 DEF Toggles
    <3> QED
      BY <2>1, <2>2, <3>1, <3>2 DEF Slots
  <2> QED
    BY <1>1, <2>1, <2>3, <2>4, Facts, OwnerStep DEF Inv, Types
<1> QED
  BY <1>2, <1>3

LEMMA PublishKeeps ==
    ASSUME Inv, NEW t \in Tasks, Publish(t), UNCHANGED <<pressed, daemon>>
    PROVE  Inv'
<1>1. /\ Goto(t, "publish", "idle") /\ button_claimed' = TRUE /\ registered_buttons' = TRUE
      /\ UNCHANGED <<locks, slot, toggle, toggles_lock>>
  BY DEF Publish, below
<1>2. /\ {"publish", "idle"} \subseteq Places /\ "publish" \in Owning \cap Above
      /\ {"publish", "idle"} \cap (Holding \cup Booting) = {} /\ "idle" \notin Owning
  BY PlaceSets DEF Holding, Deleting, Booting
<1>3. /\ pc' \in [Tasks -> Places] /\ pc[t] = "publish" /\ pc'[t] = "idle"
      /\ \A u \in Tasks \ {t} : pc'[u] = pc[u]
  BY <1>1, <1>2, Moves DEF Inv
<1>4. toggle # NULL /\ slot.callback # NULL /\ \A u \in Tasks : pc'[u] \notin Owning \cup Above
  BY <1>2, <1>3, OwnerIsAlone, PlaceSets DEF Inv, Below
<1>5. Boot' /\ Lock'
  BY <1>1, <1>2, KeepsBoot, KeepsLock DEF locks
<1>6. \A u \in Tasks : pc'[u] # "mark"
  BY <1>1, <1>2, <1>3, OwnerIsAlone DEF Inv, Claim
<1>7. Claim'
  BY <1>1, <1>4, <1>6 DEF Claim
<1>8. Below' /\ Slot'
  BY <1>1, <1>4, PlaceSets DEF Inv, Below, Slot
<1> QED
  BY <1>1, <1>3, <1>5, <1>7, <1>8 DEF Inv, Types, locks

\* Nothing is left of the GPIO: no claim, no button, no toggle.
LEMMA NothingLeft ==
    ASSUME Inv, NEW t \in Tasks, NEW from \in {"unclaim", "release"}, Goto(t, from, "idle"),
           button_claimed' = FALSE, registered_buttons' = FALSE,
           UNCHANGED <<slot, toggle, toggles_lock, buttons_lock, used, pressed, daemon>>,
           holder' \in [Locks -> Tasks \cup {NULL}], Lock'
    PROVE  Inv'
<1>1. /\ {from, "idle"} \subseteq Places /\ from \in Owning \ Above
      /\ {from, "idle"} \cap Booting = {} /\ "idle" \notin Owning
  BY PlaceSets DEF Booting
<1>2. /\ pc' \in [Tasks -> Places] /\ pc[t] = from /\ pc'[t] = "idle"
      /\ \A u \in Tasks \ {t} : pc'[u] = pc[u]
  BY <1>1, Moves DEF Inv
<1>3. toggle = NULL /\ \A u \in Tasks : pc'[u] \notin Owning \cup Above \cup {"toggle"}
  BY <1>1, <1>2, OwnerIsAlone, PlaceSets
<1>4. Boot'
  BY <1>1, KeepsBoot
<1>5. Claim'
  BY <1>3 DEF Claim
<1>6. Below' /\ Slot'
  BY <1>3 DEF Inv, Below, Slot
<1> QED
  BY <1>2, <1>4, <1>5, <1>6 DEF Inv, Types

LEMMA FailKeeps ==
    ASSUME Inv, NEW t \in Tasks, FailReset(t) \/ Unclaim(t),
           UNCHANGED <<pressed, daemon>>
    PROVE  Inv'
<1>1. {"fail", "unclaim"} \subseteq Owning \cap Places /\ "idle" \in Places
      /\ {"fail", "unclaim", "idle"} \cap (Holding \cup Above \cup {"toggle"}) = {}
  BY PlaceSets DEF Holding, Deleting, Above
<1>2. CASE FailReset(t)
  <2>1. /\ Goto(t, "fail", "unclaim") /\ slot' = Wiped
        /\ UNCHANGED <<locks, button_claimed, registered_buttons, toggle, toggles_lock>>
    BY <1>2 DEF FailReset, below
  <2>2. toggle = NULL /\ slot' \in Slots /\ ~slot'.timer
    BY <1>1, <2>1, OwnerIsAlone, Facts DEF Goto
  <2> QED
    BY <1>1, <2>1, <2>2, OwnerStep DEF Inv, Types
<1>3. CASE Unclaim(t)
  <2>1. /\ Goto(t, "unclaim", "idle") /\ button_claimed' = FALSE /\ registered_buttons' = FALSE
        /\ UNCHANGED <<locks, slot, toggle, toggles_lock>>
    BY <1>3 DEF Unclaim, below
  <2>2. Lock'
    BY <1>1, <2>1, KeepsLock
  <2> QED
    BY <2>1, <2>2, NothingLeft DEF Inv, Types, locks
<1> QED
  BY <1>2, <1>3

LEMMA LookupKeeps ==
    ASSUME Inv, NEW t \in Tasks, Lookup(t), UNCHANGED <<pressed, daemon>>
    PROVE  Inv'
<1>1. /\ {"lookup", "delete", "idle"} \subseteq Places
      /\ {"lookup", "delete", "idle"} \cap Booting = {}
      /\ "lookup" \in Holding \ (Owning \cup Above) /\ "delete" \in Holding \cap Owning \cap Above
      /\ "idle" \notin Owning \cup Above \cup Holding
  BY PlaceSets DEF Booting
<1>2. UNCHANGED <<button_claimed, slot, toggle, toggles_lock, buttons_lock, used>>
  BY DEF Lookup, below, locks, Give
<1>3. CASE registered_buttons /\ Goto(t, "lookup", "delete")
           /\ registered_buttons' = FALSE /\ UNCHANGED locks
  <2>1. /\ pc' \in [Tasks -> Places] /\ pc[t] = "lookup" /\ pc'[t] = "delete"
        /\ \A u \in Tasks \ {t} : pc'[u] = pc[u]
    BY <1>1, <1>3, Moves DEF Inv
  <2>2. /\ button_claimed /\ toggle # NULL /\ slot.callback # NULL
        /\ \A u \in Tasks : pc[u] \notin Owning \cup Above \cup {"toggle", "mark"}
    BY <1>3, PlaceSets DEF Inv, Claim, Below
  <2>3. Boot' /\ Lock'
    BY <1>1, <1>2, <1>3, KeepsBoot, KeepsLock
  <2>4. Claim'
    BY <1>1, <1>2, <1>3, <2>1, <2>2 DEF Claim
  <2>5. Below' /\ Slot'
    BY <1>1, <1>2, <1>3, <2>1, <2>2 DEF Inv, Below, Slot
  <2> QED
    BY <1>2, <1>3, <2>1, <2>3, <2>4, <2>5 DEF Inv, Types, locks
<1>4. CASE ~registered_buttons /\ Goto(t, "lookup", "idle") /\ Give(t)
           /\ UNCHANGED registered_buttons
  <2>1. Lock' /\ holder' \in [Locks -> Tasks \cup {NULL}]
    BY <1>1, <1>4, GivesLock
  <2>2. Boot'
    BY <1>1, <1>2, <1>4, KeepsBoot
  <2> QED
    BY <1>1, <1>2, <1>4, <2>1, <2>2, KeepsPool DEF Inv, Types, pool
<1> QED
  BY <1>3, <1>4 DEF Lookup

LEMMA DeleteKeeps ==
    ASSUME Inv, NEW t \in Tasks, DeleteTake(t) \/ DeleteGive(t) \/ Reset(t) \/ Release(t),
           UNCHANGED <<pressed, daemon>>
    PROVE  Inv'
<1>1. /\ {"delete", "deleting", "reset", "release"} \subseteq Owning \cap Holding \cap Places
      /\ "delete" \in Above /\ "deleting" \in Above /\ "idle" \notin Holding
      /\ {"reset", "release"} \cap (Above \cup {"toggle"}) = {} /\ "idle" \in Places
  BY PlaceSets
<1>2. CASE DeleteTake(t)
  <2>1. Goto(t, "delete", "deleting") /\ UNCHANGED <<locks, pool, toggle>> /\ toggles_lock' = t
    BY <1>2 DEF DeleteTake
  <2>2. slot.callback # NULL /\ toggle # NULL
    BY <1>1, <2>1 DEF Inv, Below, Goto
  <2> QED
    BY <1>1, <2>1, <2>2, OwnerStep DEF Inv, Types, pool
<1>3. CASE DeleteGive(t)
  <2>1. /\ Goto(t, "deleting", "reset") /\ UNCHANGED <<locks, pool>>
        /\ toggle' = NULL /\ toggles_lock' = NULL
    BY <1>3 DEF DeleteGive
  <2>2. slot.callback # NULL
    BY <1>1, <2>1 DEF Inv, Below, Goto
  <2> QED
    BY <1>1, <2>1, <2>2, OwnerStep DEF Inv, Types, pool
<1>4. CASE Reset(t)
  <2>1. /\ Goto(t, "reset", "release") /\ slot' = Wiped
        /\ UNCHANGED <<locks, button_claimed, registered_buttons, toggle, toggles_lock>>
    BY <1>4 DEF Reset, below
  <2>2. toggle = NULL /\ slot' \in Slots /\ ~slot'.timer
    BY <1>1, <2>1, OwnerIsAlone, Facts DEF Goto
  <2> QED
    BY <1>1, <2>1, <2>2, OwnerStep DEF Inv, Types
<1>5. CASE Release(t)
  <2>1. /\ Goto(t, "release", "idle") /\ Give(t) /\ button_claimed' = FALSE
        /\ UNCHANGED <<registered_buttons, slot, toggle, toggles_lock, buttons_lock, used>>
    BY <1>5 DEF Release, below, Give
  <2>2. ~registered_buttons
    BY <1>1, <2>1, OwnerIsAlone DEF Goto
  <2>3. registered_buttons' = FALSE
    BY <2>1, <2>2 DEF Inv, Types
  <2>4. Lock' /\ holder' \in [Locks -> Tasks \cup {NULL}]
    BY <1>1, <2>1, GivesLock
  <2> QED
    BY <2>1, <2>3, <2>4, NothingLeft
<1> QED
  BY <1>2, <1>3, <1>4, <1>5

-----------------------------------------------------------------------------
(* The timer daemon and the pin.                                            *)

\* The daemon changes the counts of a slot and the state of a toggle.
LEMMA DaemonKeeps ==
    ASSUME Inv,
           UNCHANGED <<locks, button_claimed, registered_buttons, toggles_lock, pc>>,
           pressed' \in BOOLEAN,
           slot' \in Slots, slot'.callback = slot.callback, slot'.timer = slot.timer,
           toggle' \in Toggles \cup {NULL}, toggle' # NULL <=> toggle # NULL,
           daemon' \in {"idle", "pressed", "released", "expired", "call"}
    PROVE  Inv'
<1>1. Types' /\ Boot' /\ Lock' /\ Claim'
  BY DEF Inv, Types, Boot, Lock, Claim, locks
<1>2. Below' /\ Slot'
  BY DEF Inv, Below, Slot
<1> QED
  BY <1>1, <1>2 DEF Inv

LEMMA DebounceKeeps == ASSUME Inv, Debounce PROVE Inv'
<1>1. /\ toggle # NULL /\ UNCHANGED <<slot, slots>>
      /\ toggle' = [pressed |-> pressed, armed |-> FALSE]
      /\ daemon' \in {"idle", "pressed", "released"}
  BY DEF Debounce, Daemon
<1>2. toggle' \in Toggles /\ pressed' \in BOOLEAN
  BY <1>1 DEF Inv, Types, Toggles, slots
<1> QED
  BY <1>1, <1>2, Facts, DaemonKeeps DEF Inv, Types, slots

LEMMA ExpireKeeps == ASSUME Inv, Expire PROVE Inv'
BY DaemonKeeps DEF Expire, Daemon, Inv, Types, Slot, slots

LEMMA PressedKeeps == ASSUME Inv, Pressed PROVE Inv'
<1> DEFINE count == IF slot.count < slot.max THEN slot.count + 1 ELSE slot.max
           mode == CASE slot.timer /\ count = 1 -> "long_press"
                     [] slot.timer /\ count # 1 /\ slot.mode = "repeat_window" -> "idle"
                     [] OTHER -> slot.mode
<1>1. /\ daemon' = "idle" /\ UNCHANGED <<toggle, slots>>
      /\ slot' = [slot EXCEPT !.count = count, !.mode = mode]
  BY DEF Pressed, Daemon
<1>2. slot \in Slots
  BY DEF Inv, Types
<1>3. count \in 0 .. MaxPresses
  BY <1>2, LifecycleAssumption DEF Slots
<1>4. mode \in {"idle", "long_press", "repeat_window"}
  BY <1>2 DEF Slots
<1> HIDE DEF count, mode
<1>5. slot' \in Slots /\ slot'.callback = slot.callback /\ slot'.timer = slot.timer
  BY <1>1, <1>2, <1>3, <1>4 DEF Slots
<1> QED
  BY <1>1, <1>5, DaemonKeeps DEF Inv, Types, slots

LEMMA ReportKeeps == ASSUME Inv, Released \/ Expired \/ Report PROVE Inv'
<1>1. slot \in Slots /\ daemon # "idle" /\ UNCHANGED <<toggle, slots>>
      /\ daemon' \in {"idle", "call"}
  BY DEF Released, Expired, Report, Daemon, Inv, Types
<1>2. \/ UNCHANGED slot
      \/ slot' = [slot EXCEPT !.mode = "idle"]
      \/ slot' = [slot EXCEPT !.mode = "repeat_window"]
      \/ slot' = [slot EXCEPT !.count = 0, !.stray = FALSE]
  BY DEF Released, Expired, Report
<1>3. slot' \in Slots /\ slot'.callback = slot.callback /\ slot'.timer = slot.timer
  <2>1. CASE UNCHANGED slot
    BY <1>1, <2>1
  <2>2. CASE slot' = [slot EXCEPT !.mode = "idle"]
    BY <1>1, <2>2 DEF Slots
  <2>3. CASE slot' = [slot EXCEPT !.mode = "repeat_window"]
    BY <1>1, <2>3 DEF Slots
  <2>4. CASE slot' = [slot EXCEPT !.count = 0, !.stray = FALSE]
    <3>1. 0 \in 0 .. MaxPresses /\ FALSE \in BOOLEAN
      BY LifecycleAssumption
    <3> DEFINE Counts == 0 .. MaxPresses
    <3>2. slot \in [callback : Tasks \cup {NULL}, max : {0, MaxPresses}, timer : BOOLEAN,
                   count : Counts, stray : BOOLEAN,
                   mode : {"idle", "long_press", "repeat_window"}]
      BY <1>1 DEF Slots
    <3> HIDE DEF Counts
    <3>3. slot'.callback = slot.callback /\ slot'.timer = slot.timer
      BY <2>4, <3>2
    <3>4. slot' \in [callback : Tasks \cup {NULL}, max : {0, MaxPresses}, timer : BOOLEAN,
                    count : Counts, stray : BOOLEAN,
                    mode : {"idle", "long_press", "repeat_window"}]
      BY <2>4, <3>1, <3>2 DEF Counts
    <3> QED
      BY <3>3, <3>4 DEF Counts, Slots
  <2> QED
    BY <1>2, <2>1, <2>2, <2>3, <2>4
<1> QED
  BY <1>1, <1>3, DaemonKeeps DEF Inv, Types, Slot, slots

LEMMA EdgeKeeps == ASSUME Inv, Edge PROVE Inv'
<1>1. toggle' \in Toggles \cup {NULL} /\ (toggle' # NULL <=> toggle # NULL)
  <2>1. CASE toggle = NULL
    BY <2>1 DEF Edge
  <2>2. CASE toggle \in Toggles
    <3>1. toggle' = [toggle EXCEPT !.armed = TRUE]
      BY <2>2, Facts DEF Edge
    <3>2. toggle' \in Toggles
      BY <2>2, <3>1 DEF Toggles
    <3> QED
      BY <2>2, <3>2, Facts
  <2> QED
    BY <2>1, <2>2 DEF Inv, Types
<1> QED
  BY <1>1, DaemonKeeps DEF Edge, Inv, Types, Slot, pool

-----------------------------------------------------------------------------
LEMMA NextInv == ASSUME MutexMadeOnce, Inv, [Next]_vars PROVE Inv'
<1>1. ASSUME NEW t \in Tasks, Call(t) PROVE Inv'
  BY <1>1, StartKeeps DEF Call, Quiet, button_create, button_destroy
<1>2. ASSUME NEW t \in Tasks, Step(t) PROVE Inv'
  <2>1. UNCHANGED <<pressed, daemon>>
    BY <1>2 DEF Step, Quiet
  <2>2. CASE \/ buttons_init(t, "create_init", "take", "create_mutex")
             \/ buttons_init(t, "destroy_init", "destroy_take", "destroy_mutex")
    BY <2>1, <2>2, InitKeeps
  <2>3. CASE \/ CreateMutex(t, "create_mutex", "take")
             \/ CreateMutex(t, "destroy_mutex", "destroy_take")
    BY <2>1, <2>3, CreateMutexKeeps
  <2>4. CASE TakeForClaim(t) \/ TakeForDestroy(t)
    BY <2>1, <2>4, TakeKeeps
  <2>5. CASE CheckClaim(t) \/ MarkClaim(t)
    BY <2>1, <2>5, CheckKeeps, MarkKeeps
  <2>6. CASE Fill(t) \/ CreateToggle(t)
    BY <2>1, <2>6, FillKeeps, CreateToggleKeeps
  <2>7. CASE SyncTake(t) \/ SyncGive(t) \/ Publish(t)
    BY <2>1, <2>7, SyncKeeps, PublishKeeps
  <2>8. CASE FailReset(t) \/ Unclaim(t)
    BY <2>1, <2>8, FailKeeps
  <2>9. CASE Lookup(t)
    BY <2>1, <2>9, LookupKeeps
  <2>10. CASE DeleteTake(t) \/ DeleteGive(t) \/ Reset(t) \/ Release(t)
    BY <2>1, <2>10, DeleteKeeps
  <2> QED
    BY <1>2, <2>2, <2>3, <2>4, <2>5, <2>6, <2>7, <2>8, <2>9, <2>10 DEF Step
<1>3. ASSUME Debounce \/ Expire \/ InCallback \/ Edge PROVE Inv'
  BY <1>3, DebounceKeeps, ExpireKeeps, PressedKeeps, ReportKeeps, EdgeKeeps DEF InCallback
<1>4. CASE UNCHANGED vars
  BY <1>4 DEF vars, Inv, Types, Boot, Lock, Claim, Below, Slot
<1> QED
  BY <1>1, <1>2, <1>3, <1>4 DEF Next

LEMMA Invariance == SafeSpec /\ []MutexMadeOnce => []Inv
<1>1. MutexMadeOnce /\ Inv /\ [Next]_vars => Inv'
  BY NextInv
<1> QED
  BY InitInv, <1>1, PTL DEF SafeSpec

-----------------------------------------------------------------------------
\* The first calls of two tasks may overlap, and anything may fail: if only no two of
\* them create the mutex at once, a GPIO has one owner, a registered button or the call
\* that makes or ends one, and the claim of button.c:198-207 is its sign.
THEOREM OneOwner == SafeSpec /\ []MutexMadeOnce => []ClaimHasOneOwner
<1>1. Inv => ClaimHasOneOwner
  BY DEF Inv, Claim, ClaimHasOneOwner, Owning
<1> QED
  BY <1>1, Invariance, PTL

\* Under the same condition a registered button has its toggle, and the toggle a slot
\* that is filled, from toggle_create to toggle_delete: button_reset (button.c:154)
\* comes after the one and before the other.
THEOREM TogglesHaveButtons == SafeSpec /\ []MutexMadeOnce => []ToggleHasItsButton
<1>1. Inv => ToggleHasItsButton
  BY PlaceSets DEF Inv, Below, ToggleHasItsButton, Owning
<1> QED
  BY <1>1, Invariance, PTL

\* Under the same condition the calls of button.c into toggle.c for a GPIO never
\* overlap.
THEOREM TogglesAreSerial == SafeSpec /\ []MutexMadeOnce => []ToggleCallsAreSerial
<1>1. Inv => ToggleCallsAreSerial
  BY PlaceSets DEF Inv, Claim, ToggleCallsAreSerial
<1> QED
  BY <1>1, Invariance, PTL

\* Under the same condition the variables have their types, and a mutex that is held is
\* held by a task that will give it back.
THEOREM LifecycleTypes == SafeSpec /\ []MutexMadeOnce => []TypeOK
<1>1. Inv => TypeOK
  <2> SUFFICES ASSUME Inv PROVE TypeOK
    OBVIOUS
  <2>1. Types
    BY DEF Inv
  <2>2. ASSUME NEW l \in Locks, holder[l] # NULL
        PROVE  pc[holder[l]] \in Holding
    <3>1. l = buttons_lock /\ l # NULL /\ holder[l] \in Tasks
      BY <2>1, <2>2, LifecycleAssumption DEF Inv, Lock, Types
    <3> QED
      BY <3>1 DEF Inv, Lock
  <2> QED
    BY <2>1, <2>2 DEF Types, TypeOK, Slots, Toggles, Holding
<1> QED
  BY <1>1, Invariance, PTL

-----------------------------------------------------------------------------
(* A first call that is over before another task calls.                     *)

\* Where a step of a task takes it.
LEMMA StepGoes ==
    ASSUME Inv, NEW t \in Tasks, Step(t)
    PROVE  /\ pc[t] \in Places \ {"idle"}
           /\ \E to \in Places : Goto(t, pc[t], to)
<1>1. pc[t] # "idle" /\ \E to \in Places : Goto(t, pc[t], to)
  BY DEF Step, buttons_init, CreateMutex, TakeForClaim, CheckClaim, MarkClaim, Fill,
     CreateToggle, SyncTake, SyncGive, Publish, FailReset, Unclaim, TakeForDestroy,
     Lookup, DeleteTake, DeleteGive, Reset, Release, Goto, Places
<1> QED
  BY <1>1 DEF Inv, Types

\* A mutex that has been created stays.
LEMMA MutexStays ==
    ASSUME NEW t \in Tasks, Step(t)
    PROVE  buttons_lock' = NULL => buttons_lock = NULL
<1>1. CASE \/ CreateMutex(t, "create_mutex", "take")
           \/ CreateMutex(t, "destroy_mutex", "destroy_take")
  BY <1>1, LifecycleAssumption DEF CreateMutex
<1>2. CASE \/ TakeForClaim(t) \/ CheckClaim(t) \/ MarkClaim(t)
           \/ TakeForDestroy(t) \/ Lookup(t) \/ Release(t)
  BY <1>2 DEF TakeForClaim, CheckClaim, MarkClaim, TakeForDestroy, Lookup, Release,
     Take, Give, locks
<1>3. CASE \/ buttons_init(t, "create_init", "take", "create_mutex")
           \/ buttons_init(t, "destroy_init", "destroy_take", "destroy_mutex")
           \/ Fill(t) \/ CreateToggle(t) \/ SyncTake(t) \/ SyncGive(t)
           \/ Publish(t) \/ FailReset(t) \/ Unclaim(t)
           \/ DeleteTake(t) \/ DeleteGive(t) \/ Reset(t)
  <2>1. UNCHANGED locks
    BY <1>3 DEF buttons_init, Fill, CreateToggle, SyncTake, SyncGive, Sync, Publish,
       FailReset, Unclaim, DeleteTake, DeleteGive, Reset
  <2> QED
    BY <2>1 DEF locks
<1> QED
  BY <1>1, <1>2, <1>3 DEF Step

\* While there is no mutex, one task at most is inside a call.
FirstIsAlone == buttons_lock = NULL =>
                  \A t, u \in Tasks : pc[t] # "idle" /\ pc[u] # "idle" => t = u

LEMMA FirstIsAloneNext ==
    ASSUME SerialBoot, Inv, FirstIsAlone, [Next]_vars
    PROVE  FirstIsAlone'
<1>1. CASE \E t \in Tasks : Call(t)
  <2>1. PICK t \in Tasks : Call(t)
    BY <1>1
  <2>2. PICK to \in {"create_init", "take", "destroy_init", "destroy_take"} :
          /\ Goto(t, "idle", to) /\ UNCHANGED buttons_lock
          /\ buttons_lock = NULL => \A u \in Tasks : pc[u] = "idle"
    BY <2>1 DEF Call, button_create, button_destroy, Start, locks
  <2>3. {"idle", to} \subseteq Places
    BY DEF Places
  <2> QED
    BY <2>2, <2>3, Moves DEF Inv, FirstIsAlone
<1>2. CASE \E t \in Tasks : Step(t)
  <2>1. PICK t \in Tasks : Step(t)
    BY <1>2
  <2>2. pc[t] \in Places \ {"idle"} /\ \A u \in Tasks \ {t} : pc'[u] = pc[u]
    BY <2>1, StepGoes, Moves DEF Inv
  <2> QED
    BY <2>1, <2>2, MutexStays DEF FirstIsAlone
<1>3. CASE UNCHANGED vars \/ Debounce \/ Expire \/ InCallback \/ Edge
  <2>1. UNCHANGED <<buttons_lock, pc>>
    BY <1>3 DEF vars, Debounce, Expire, InCallback, Pressed, Released, Expired, Report, Edge,
       slots, locks
  <2> QED
    BY <2>1 DEF FirstIsAlone
<1> QED
  BY <1>1, <1>2, <1>3 DEF Next

\* If the first call of button_create or button_destroy is over before another task
\* calls, the mutex is made once.
LEMMA FirstMakesMutex == ASSUME SerialBoot PROVE SafeSpec => [](Inv /\ MutexMadeOnce)
<1>1. Init => FirstIsAlone
  BY DEF Init, FirstIsAlone
<1>2. Inv /\ FirstIsAlone => MutexMadeOnce
  BY DEF Inv, Boot, FirstIsAlone, MutexMadeOnce, Making
<1>3. Inv /\ FirstIsAlone /\ [Next]_vars => (Inv /\ FirstIsAlone)'
  BY <1>2, NextInv, FirstIsAloneNext
<1> QED
  BY <1>1, <1>2, <1>3, InitInv, PTL DEF SafeSpec

-----------------------------------------------------------------------------
(* The daemon and button_reset.                                             *)

\* What the theorem asks of button_destroy: it wipes the slot (button.c:296) only when
\* the daemon is in no callback.  Every other step of a task may interrupt one.
LeftAlone == (\E t \in Tasks : Reset(t)) => daemon = "idle"

\* When the toggle is gone, the daemon is done with the slot or button_destroy has not
\* wiped it yet.
Calm == /\ toggle = NULL => \/ \E t \in Tasks : pc[t] = "reset"
                            \/ daemon = "idle" /\ slot.mode = "idle"
        /\ \A t \in Tasks : pc[t] = "reset" => slot.callback # NULL

\* A step of a task to a place other than "reset", from one other than it.
LEMMA CalmElsewhere ==
    ASSUME Inv, Calm, NEW t \in Tasks, NEW from \in Places \ {"reset"},
           NEW to \in Places \ {"reset"}, Goto(t, from, to),
           UNCHANGED <<slot, toggle, daemon>>
    PROVE  Calm'
<1>1. \A u \in Tasks : pc'[u] = "reset" <=> pc[u] = "reset"
  BY Moves DEF Inv
<1> QED
  BY <1>1 DEF Calm

\* A step of the owner, which alone could be at "reset".
LEMMA CalmOwner ==
    ASSUME Inv, NEW t \in Tasks, NEW from \in Owning, NEW to \in Places, Goto(t, from, to),
           \/ to # "reset" /\ toggle' # NULL
           \/ to # "reset" /\ daemon' = "idle" /\ slot'.mode = "idle"
           \/ to = "reset" /\ slot'.callback # NULL
    PROVE  Calm'
<1>1. pc' \in [Tasks -> Places] /\ pc[t] = from /\ pc'[t] = to
      /\ \A u \in Tasks \ {t} : pc'[u] = pc[u]
  BY Moves, PlaceSets DEF Inv
<1>2. \A u \in Tasks \ {t} : pc'[u] # "reset"
  BY <1>1, OwnerIsAlone, PlaceSets
<1> QED
  BY <1>1, <1>2 DEF Calm

LEMMA CalmTask ==
    ASSUME Inv, Calm, NEW t \in Tasks, Call(t) \/ Step(t), Reset(t) => daemon = "idle"
    PROVE  Calm'
<1>1. UNCHANGED <<pressed, daemon>>
  BY DEF Call, Step, Quiet
<1>2. ASSUME NEW from \in Owning \ {"reset"}, pc[t] = from, toggle = NULL
      PROVE  daemon = "idle" /\ slot.mode = "idle"
  BY <1>2, OwnerIsAlone, PlaceSets DEF Calm
<1> USE DEF Places
<1>3. CASE button_create(t) \/ button_destroy(t)
  BY <1>1, <1>3, CalmElsewhere DEF button_create, button_destroy, Start, pool, below
<1>4. CASE \/ buttons_init(t, "create_init", "take", "create_mutex")
           \/ buttons_init(t, "destroy_init", "destroy_take", "destroy_mutex")
  BY <1>1, <1>4, CalmElsewhere DEF buttons_init, pool, below
<1>5. CASE \/ CreateMutex(t, "create_mutex", "take")
           \/ CreateMutex(t, "destroy_mutex", "destroy_take")
  BY <1>1, <1>5, CalmElsewhere DEF CreateMutex, pool, below
<1>6. CASE TakeForClaim(t) \/ TakeForDestroy(t) \/ CheckClaim(t) \/ MarkClaim(t)
  BY <1>1, <1>6, CalmElsewhere
  DEF TakeForClaim, TakeForDestroy, CheckClaim, MarkClaim, pool, below
<1>7. CASE SyncTake(t) \/ Publish(t) \/ Unclaim(t)
  BY <1>1, <1>7, CalmElsewhere DEF SyncTake, Publish, Unclaim, pool, below
<1>8. CASE Lookup(t) \/ DeleteTake(t) \/ Release(t)
  BY <1>1, <1>8, CalmElsewhere DEF Lookup, DeleteTake, Release, pool, below
<1>9. CASE Fill(t)
  <2>1. pc[t] = "fill" /\ toggle = NULL
    BY <1>9, OwnerIsAlone, PlaceSets DEF Fill, Goto
  <2>2. daemon' = "idle"
    BY <1>1, <1>2, <2>1, PlaceSets
  <2>3. slot'.mode = "idle"
    BY <1>9 DEF Fill, Filled, Wiped
  <2>4. \E to \in {"toggle", "fail"} : Goto(t, "fill", to)
    BY <1>9 DEF Fill
  <2> QED
    BY <2>2, <2>3, <2>4, CalmOwner, PlaceSets
<1>10. CASE CreateToggle(t)
  <2>1. pc[t] = "toggle" /\ UNCHANGED slot
    BY <1>10 DEF CreateToggle, Goto, pool
  <2>2. CASE Goto(t, "toggle", "sync") /\ toggle' = [pressed |-> pressed, armed |-> FALSE]
    <3>1. toggle' \in Toggles
      BY <2>2 DEF Inv, Types, Toggles
    <3> QED
      BY <2>2, <3>1, Facts, CalmOwner, PlaceSets
  <2>3. CASE Goto(t, "toggle", "fail") /\ UNCHANGED toggle
    BY <1>1, <2>1, <2>3, CalmElsewhere
  <2> QED
    BY <1>10, <2>2, <2>3 DEF CreateToggle
<1>11. CASE SyncGive(t)
  <2>1. Goto(t, "synced", "publish") /\ toggle' = [pressed |-> pressed, armed |-> FALSE]
    BY <1>11 DEF SyncGive, Sync
  <2>2. toggle' \in Toggles
    BY <2>1 DEF Inv, Types, Toggles
  <2> QED
    BY <2>1, <2>2, Facts, CalmOwner, PlaceSets
<1>12. CASE FailReset(t)
  <2>1. Goto(t, "fail", "unclaim") /\ slot' = Wiped /\ pc[t] = "fail"
    BY <1>12 DEF FailReset, Goto
  <2>2. daemon' = "idle" /\ slot'.mode = "idle"
    BY <1>1, <1>2, <2>1, OwnerIsAlone, PlaceSets DEF Wiped
  <2> QED
    BY <2>1, <2>2, CalmOwner, PlaceSets
<1>13. CASE DeleteGive(t)
  <2>1. Goto(t, "deleting", "reset") /\ UNCHANGED slot /\ pc[t] = "deleting"
    BY <1>13 DEF DeleteGive, Goto, pool
  <2>2. slot'.callback # NULL
    BY <2>1, PlaceSets DEF Inv, Below
  <2> QED
    BY <2>1, <2>2, CalmOwner, PlaceSets
<1>14. CASE Reset(t)
  <2>1. Goto(t, "reset", "release") /\ slot' = Wiped
    BY <1>14 DEF Reset
  <2>2. daemon' = "idle" /\ slot'.mode = "idle"
    BY <1>1, <1>14, <2>1 DEF Wiped
  <2> QED
    BY <2>1, <2>2, CalmOwner, PlaceSets
<1> QED
  BY <1>3, <1>4, <1>5, <1>6, <1>7, <1>8, <1>9, <1>10, <1>11, <1>12, <1>13, <1>14 DEF Call, Step

\* A step of the daemon: without a toggle it takes one only if button_destroy has not
\* wiped the slot.
LEMMA CalmDaemon ==
    ASSUME Inv, Calm, Debounce \/ Expire \/ InCallback
    PROVE  Calm'
<1>1. UNCHANGED pc
  BY DEF Debounce, Expire, InCallback, Pressed, Released, Expired, Report, slots
<1>2. slot \in Slots
  BY DEF Inv, Types
<1>3. slot'.callback = slot.callback
  BY <1>2 DEF Debounce, Expire, InCallback, Pressed, Released, Expired, Report, Slots
<1>4. CASE Debounce
  <2>1. toggle' \in Toggles
    BY <1>4 DEF Debounce, Inv, Types, Toggles
  <2> QED
    BY <1>1, <1>3, <2>1, Facts DEF Calm
<1>5. CASE Expire \/ InCallback
  <2>1. UNCHANGED toggle /\ (daemon # "idle" \/ slot.mode # "idle")
    BY <1>5 DEF Expire, InCallback, Pressed, Released, Expired, Report, Daemon
  <2> QED
    BY <1>1, <1>3, <2>1 DEF Calm
<1> QED
  BY <1>4, <1>5

LEMMA CalmNext ==
    ASSUME Inv, Calm, [Next]_vars, [LeftAlone]_vars
    PROVE  Calm'
<1>1. CASE UNCHANGED vars
  BY <1>1 DEF vars, Calm
<1>2. CASE LeftAlone /\ \E t \in Tasks : Call(t) \/ Step(t)
  BY <1>2, CalmTask DEF LeftAlone
<1>3. CASE Debounce \/ Expire \/ InCallback
  BY <1>3, CalmDaemon
<1>4. CASE Edge
  <2>1. UNCHANGED <<slot, pc, daemon>>
    BY <1>4 DEF Edge, pool
  <2>2. toggle' = NULL => toggle = NULL
    BY <1>4, Facts DEF Edge, Inv, Types, Toggles
  <2> QED
    BY <2>1, <2>2 DEF Calm
<1> QED
  BY <1>1, <1>2, <1>3, <1>4 DEF Next

\* If button_destroy alone waits for the daemon to be out of its callbacks before it
\* wipes the slot, the daemon calls the callback of a slot only while there is one,
\* whatever else interrupts it and on whatever core.
THEOREM CallbacksAreNotNull ==
    SafeSpec /\ []MutexMadeOnce /\ [][LeftAlone]_vars => []NoCallOfNULL
<1>1. Init => Calm
  BY DEF Init, Calm, Wiped
<1>2. Inv /\ Calm /\ [Next]_vars /\ [LeftAlone]_vars => Calm'
  BY CalmNext
<1>3. Inv /\ Calm => NoCallOfNULL
  <2> SUFFICES ASSUME Inv, Calm, daemon = "call" PROVE slot.callback # NULL
    BY DEF NoCallOfNULL
  <2>1. CASE toggle = NULL
    BY <2>1 DEF Calm
  <2>2. CASE toggle # NULL
    <3>1. registered_buttons \/ \E t \in Tasks : pc[t] \in Above
      BY <2>2 DEF Inv, Below
    <3> QED
      BY <3>1 DEF Inv, Below
  <2> QED
    BY <2>1, <2>2
<1> QED
  BY <1>1, <1>2, <1>3, Invariance, PTL DEF SafeSpec

LEMMA UninterruptedIsLeftAlone == ASSUME ~Interrupts, Inv, [Next]_vars PROVE [LeftAlone]_vars
<1> SUFFICES ASSUME Next, NEW t \in Tasks, Reset(t) PROVE daemon = "idle"
  BY DEF LeftAlone
<1>1. pc' # pc
  BY Moves, PlaceSets DEF Reset, Inv
<1>2. \E u \in Tasks : Call(u) \/ Step(u)
  BY <1>1 DEF Next, Debounce, Expire, InCallback, Pressed, Released, Expired, Report, Edge,
     slots
<1> QED
  BY <1>2 DEF Call, Step, Quiet

-----------------------------------------------------------------------------
(* What is left in a slot, if no task interrupts the daemon.                *)

\* While there is a toggle, a count that the daemon is not about to report belongs to a
\* press that the toggle holds, to an open window, or is stray; before there is one,
\* nothing is counted.
Counted ==
    /\ \A t \in Tasks :
         /\ pc[t] = "toggle" => daemon = "idle" /\ slot.count = 0 /\ slot.mode = "idle"
         /\ pc[t] \in {"toggle", "sync", "synced"} => ~slot.stray
    /\ toggle # NULL =>
         /\ daemon = "idle" /\ slot.count > 0 =>
              toggle.pressed \/ slot.mode = "repeat_window" \/ slot.stray
         /\ daemon = "pressed" => toggle.pressed
         /\ daemon = "expired" => slot.mode # "idle"

\* A step of a task that leaves slot and toggle alone.
LEMMA CountedElsewhere ==
    ASSUME Inv, Counted, NEW t \in Tasks, NEW from \in Places, NEW to \in Places,
           Goto(t, from, to), UNCHANGED <<slot, toggle, daemon>>, to # "toggle",
           to \in {"sync", "synced"} => from \in {"toggle", "sync", "synced"}
    PROVE  Counted'
<1>1. /\ pc[t] = from /\ pc'[t] = to
      /\ \A u \in Tasks \ {t} : pc'[u] = pc[u]
  BY Moves DEF Inv
<1> QED
  BY <1>1 DEF Counted

\* The owner's step of a slot that nobody reads: there is no toggle.
LEMMA CountedNoToggle ==
    ASSUME Inv, Counted, NEW t \in Tasks, NEW from \in Owning, NEW to \in Places,
           Goto(t, from, to), toggle' = NULL, daemon' = "idle",
           to = "toggle" => slot'.count = 0 /\ slot'.mode = "idle" /\ ~slot'.stray,
           to \notin {"sync", "synced"}
    PROVE  Counted'
<1>1. pc[t] = from /\ pc'[t] = to /\ \A u \in Tasks \ {t} : pc'[u] = pc[u]
  BY Moves, PlaceSets DEF Inv
<1>2. \A u \in Tasks \ {t} : pc'[u] \notin {"toggle", "sync", "synced"}
  BY <1>1, OwnerIsAlone, PlaceSets
<1> QED
  BY <1>1, <1>2 DEF Counted

LEMMA CountedTask ==
    ASSUME Inv, Counted, NEW t \in Tasks, Call(t) \/ Step(t), ~Interrupts
    PROVE  Counted'
<1>1. daemon = "idle" /\ UNCHANGED <<pressed, daemon>>
  BY DEF Call, Step, Quiet
<1> USE DEF Places
<1>2. CASE button_create(t) \/ button_destroy(t)
  BY <1>1, <1>2, CountedElsewhere DEF button_create, button_destroy, Start, pool, below
<1>3. CASE \/ buttons_init(t, "create_init", "take", "create_mutex")
           \/ buttons_init(t, "destroy_init", "destroy_take", "destroy_mutex")
  BY <1>1, <1>3, CountedElsewhere DEF buttons_init, pool, below
<1>4. CASE \/ CreateMutex(t, "create_mutex", "take")
           \/ CreateMutex(t, "destroy_mutex", "destroy_take")
  BY <1>1, <1>4, CountedElsewhere DEF CreateMutex, pool, below
<1>5. CASE TakeForClaim(t) \/ TakeForDestroy(t) \/ CheckClaim(t) \/ MarkClaim(t)
  BY <1>1, <1>5, CountedElsewhere
  DEF TakeForClaim, TakeForDestroy, CheckClaim, MarkClaim, pool, below
<1>6. CASE SyncTake(t) \/ Publish(t) \/ Unclaim(t)
  BY <1>1, <1>6, CountedElsewhere DEF SyncTake, Publish, Unclaim, pool, below
<1>7. CASE Lookup(t) \/ DeleteTake(t) \/ Release(t)
  BY <1>1, <1>7, CountedElsewhere DEF Lookup, DeleteTake, Release, pool, below
<1>8. CASE Fill(t)
  <2>1. toggle = NULL /\ toggle' = NULL
    BY <1>8, OwnerIsAlone, PlaceSets DEF Fill, Goto, below
  <2>2. slot'.count = 0 /\ slot'.mode = "idle" /\ ~slot'.stray
    BY <1>8 DEF Fill, Filled, Wiped
  <2> QED
    BY <1>1, <1>8, <2>1, <2>2, CountedNoToggle, PlaceSets DEF Fill
<1>9. CASE CreateToggle(t)
  <2>1. pc[t] = "toggle" /\ toggle = NULL /\ UNCHANGED slot
    BY <1>9, OwnerIsAlone, PlaceSets DEF CreateToggle, Goto, pool
  <2>2. slot.count = 0 /\ ~slot.stray
    BY <2>1 DEF Counted
  <2>3. CASE Goto(t, "toggle", "sync")
    <3>1. pc'[t] = "sync" /\ \A u \in Tasks \ {t} : pc'[u] = pc[u]
      BY <2>3, Moves DEF Inv
    <3>2. \A u \in Tasks \ {t} : pc'[u] \notin {"toggle", "sync", "synced"}
      BY <2>1, <3>1, OwnerIsAlone, PlaceSets
    <3> QED
      BY <1>1, <2>1, <2>2, <3>1, <3>2 DEF Counted
  <2>4. CASE Goto(t, "toggle", "fail") /\ UNCHANGED toggle
    BY <1>1, <2>1, <2>4, CountedElsewhere
  <2> QED
    BY <1>9, <2>3, <2>4 DEF CreateToggle
<1>10. CASE SyncGive(t)
  <2>1. /\ Goto(t, "synced", "publish")
        /\ toggle' = [pressed |-> pressed, armed |-> FALSE]
        /\ slot' = [slot EXCEPT !.stray = slot.count > 0 /\ toggle.pressed /\ ~pressed]
    BY <1>10 DEF SyncGive, Sync
  <2>2. pc[t] = "synced" /\ pc'[t] = "publish" /\ \A u \in Tasks \ {t} : pc'[u] = pc[u]
    BY <2>1, Moves DEF Inv
  <2>3. \A u \in Tasks \ {t} : pc'[u] \notin {"toggle", "sync", "synced"}
    BY <2>2, OwnerIsAlone, PlaceSets
  <2>4. toggle # NULL /\ ~slot.stray
    BY <2>2, PlaceSets DEF Inv, Below, Counted
  <2>5. slot'.count = slot.count /\ slot'.mode = slot.mode
        /\ slot'.stray = (slot.count > 0 /\ toggle.pressed /\ ~pressed)
    BY <2>1 DEF Inv, Types, Slots
  <2>6. slot'.count > 0 => toggle'.pressed \/ slot'.mode = "repeat_window" \/ slot'.stray
    BY <1>1, <2>1, <2>4, <2>5 DEF Counted
  <2> QED
    BY <1>1, <2>2, <2>3, <2>6 DEF Counted
<1>11. CASE FailReset(t) \/ Reset(t)
  <2>1. toggle = NULL /\ toggle' = NULL
    BY <1>11, OwnerIsAlone, PlaceSets DEF FailReset, Reset, Goto, below
  <2> QED
    BY <1>1, <1>11, <2>1, CountedNoToggle, PlaceSets DEF FailReset, Reset
<1>12. CASE DeleteGive(t)
  BY <1>1, <1>12, CountedNoToggle, PlaceSets DEF DeleteGive
<1> QED
  BY <1>2, <1>3, <1>4, <1>5, <1>6, <1>7, <1>8, <1>9, <1>10, <1>11, <1>12 DEF Call, Step

\* A step of the daemon: no task is about to create the toggle.
LEMMA CountedDaemon ==
    ASSUME Inv, Counted, UNCHANGED slots, Debounce \/ Expire \/ InCallback
    PROVE  Counted'
<1>1. \A t \in Tasks : pc[t] # "toggle"
  <2> SUFFICES ASSUME NEW t \in Tasks, pc[t] = "toggle" PROVE FALSE
    OBVIOUS
  <2>1. toggle = NULL
    BY OwnerIsAlone, PlaceSets
  <2>2. daemon = "idle" /\ slot.mode = "idle"
    BY DEF Counted
  <2> QED
    BY <2>1, <2>2 DEF Debounce, Expire, InCallback, Pressed, Released, Expired, Report, Daemon
<1>2. slot \in Slots
  BY DEF Inv, Types
<1>3. (\A t \in Tasks : pc[t] \in {"sync", "synced"} => ~slot'.stray) => 
      \A t \in Tasks : /\ pc'[t] = "toggle" => FALSE
                       /\ pc'[t] \in {"toggle", "sync", "synced"} => ~slot'.stray
  BY <1>1 DEF slots
<1>4. CASE Debounce
  <2>1. toggle' = [pressed |-> pressed, armed |-> FALSE] /\ UNCHANGED slot /\ daemon = "idle"
        /\ toggle # NULL
    BY <1>4 DEF Debounce, Daemon
  <2>2. daemon' = CASE pressed = toggle.pressed -> "idle"
                    [] pressed /\ ~toggle.pressed -> "pressed"
                    [] OTHER -> "released"
    BY <1>4 DEF Debounce, Daemon
  <2>3. daemon' = "idle" => pressed = toggle.pressed
    BY <2>2 DEF Inv, Types
  <2>4. daemon' = "pressed" => pressed
    BY <2>2
  <2>5. daemon' # "expired"
    BY <2>2
  <2> QED
    BY <1>3, <2>1, <2>3, <2>4, <2>5 DEF Counted
<1>5. CASE Expire
  BY <1>3, <1>5 DEF Expire, Daemon, Counted
<1>6. CASE Pressed
  <2>1. daemon = "pressed" /\ daemon' = "idle" /\ UNCHANGED toggle
    BY <1>6 DEF Pressed, Daemon
  <2>2. slot'.stray = slot.stray
    BY <1>2, <1>6 DEF Pressed, Slots
  <2> QED
    BY <1>3, <2>1, <2>2 DEF Counted
<1>7. CASE Released
  <2>1. daemon = "released" /\ UNCHANGED toggle /\ daemon' \in {"idle", "call"}
    BY <1>7 DEF Released, Daemon
  <2>2. slot'.stray = slot.stray /\ slot'.count = slot.count
    BY <1>2, <1>7 DEF Released, Slots
  <2>3. daemon' = "idle" /\ slot.count > 0 => slot'.mode = "repeat_window"
    BY <1>2, <1>7 DEF Released, Slots, Daemon
  <2> QED
    BY <1>3, <2>1, <2>2, <2>3 DEF Counted
<1>8. CASE Expired
  <2>1. /\ daemon = "expired" /\ UNCHANGED toggle
        /\ daemon' = IF slot.mode = "long_press" \/ (slot.mode = "repeat_window" /\ slot.count > 0)
                     THEN "call" ELSE "idle"
        /\ slot' = [slot EXCEPT !.mode = "idle"]
    BY <1>8 DEF Expired, Daemon
  <2>2. slot'.stray = slot.stray /\ slot'.count = slot.count
    BY <1>2, <2>1 DEF Slots
  <2>3. toggle # NULL /\ slot.count > 0 => daemon' = "call"
    <3>1. toggle # NULL => slot.mode # "idle"
      BY <2>1 DEF Counted
    <3>2. slot.mode \in {"idle", "long_press", "repeat_window"}
      BY <1>2 DEF Slots
    <3> QED
      BY <2>1, <3>1, <3>2
  <2> QED
    BY <1>3, <2>1, <2>2, <2>3 DEF Counted
<1>9. CASE Report
  <2>1. daemon' = "idle" /\ slot' = [slot EXCEPT !.count = 0, !.stray = FALSE]
    BY <1>9 DEF Report, Daemon
  <2>2. slot'.count = 0 /\ ~slot'.stray
    BY <1>2, <2>1 DEF Slots
  <2> QED
    BY <1>3, <2>1, <2>2 DEF Counted
<1> QED
  BY <1>4, <1>5, <1>6, <1>7, <1>8, <1>9 DEF InCallback

LEMMA CountedNext ==
    ASSUME ~Interrupts, Inv, Counted, [Next]_vars
    PROVE  Counted'
<1>1. CASE \E t \in Tasks : Call(t) \/ Step(t)
  BY <1>1, CountedTask
<1>2. CASE Debounce \/ Expire \/ InCallback
  <2>1. UNCHANGED slots
    BY <1>2 DEF Debounce, Expire, InCallback, Pressed, Released, Expired, Report
  <2> QED
    BY <1>2, <2>1, CountedDaemon
<1>3. CASE Edge
  <2>1. UNCHANGED <<slot, pc, daemon>>
    BY <1>3 DEF Edge, pool
  <2>2. toggle' # NULL => toggle # NULL /\ toggle'.pressed = toggle.pressed
    BY <1>3 DEF Edge, Inv, Types, Toggles
  <2> QED
    BY <2>1, <2>2 DEF Counted
<1>4. CASE UNCHANGED vars
  BY <1>4 DEF vars, Counted
<1> QED
  BY <1>1, <1>2, <1>3, <1>4 DEF Next

\* If no task interrupts the daemon, no press is left behind: one that is counted is
\* held, or waits in a window, or is reported next, except the press whose release
\* toggle_sync_state has swallowed (button.c:248).
THEOREM CountsAreReported ==
    ASSUME ~Interrupts
    PROVE  SafeSpec /\ []MutexMadeOnce => []CountsAreReleased
<1>1. Init => Counted
  BY DEF Init, Counted, Wiped
<1>2. Inv /\ Counted /\ [Next]_vars => Counted'
  BY CountedNext
<1>3. Inv /\ Counted => CountsAreReleased
  BY DEF Inv, Below, Counted, CountsAreReleased
<1> QED
  BY <1>1, <1>2, <1>3, Invariance, PTL DEF SafeSpec

-----------------------------------------------------------------------------
(* ButtonLifecycle implements Registry.                                     *)

\* There is no button before there is a mutex, and nothing fails without a reason: the
\* toggle of a GPIO that is owned is not in the way of its creation.
Reasons == /\ buttons_lock = NULL => ~registered_buttons
           /\ Failures \/ \A t \in Tasks : pc[t] \notin {"fail", "unclaim"}

Calls == [t \in Tasks |-> Meaning(pc[t])]

LEMMA Meanings ==
    /\ Meaning("idle") = "idle"
    /\ \A p \in {"create_init", "create_mutex", "take", "check", "mark"} : Meaning(p) = "create"
    /\ \A p \in {"destroy_init", "destroy_mutex", "destroy_take", "lookup"} : Meaning(p) = "destroy"
    /\ \A p \in Creating : Meaning(p) = "creating"
    /\ \A p \in Deleting : Meaning(p) = "destroying"
    /\ \A p \in Places : Meaning(p) \in {"creating", "destroying"} <=> p \in Owning
BY DEF Meaning, Creating, Deleting, Owning, Places

\* What a move of task t is to the callers.
LEMMA MoveMeans ==
    ASSUME Types, NEW t \in Tasks, NEW from \in Places, NEW to \in Places, Goto(t, from, to)
    PROVE  /\ Promise!Goes(t, Meaning(from), Meaning(to))
           /\ Meaning(from) = Meaning(to) => Calls' = Calls
<1>1. /\ pc' = [pc EXCEPT ![t] = to] /\ pc \in [Tasks -> Places]
      /\ pc[t] = from
  BY DEF Goto, Types
<1>2. Calls[t] = Meaning(from)
  BY <1>1 DEF Calls
<1>3. Calls' = [Calls EXCEPT ![t] = Meaning(to)]
  BY <1>1 DEF Calls
<1>4. Meaning(from) = Meaning(to) => Calls' = Calls
  BY <1>2, <1>3 DEF Calls
<1> QED
  BY <1>2, <1>3, <1>4 DEF Promise!Goes, Calls

\* The claim is what keeps a creation out.
LEMMA ClaimMeans == Inv => (Promise!Free <=> ~button_claimed)
<1> SUFFICES ASSUME Inv PROVE Promise!Free <=> ~button_claimed
  OBVIOUS
<1>1. \A t \in Tasks : pc[t] \in Places
  BY DEF Inv, Types
<1>2. \A t \in Tasks : [u \in Tasks |-> Meaning(pc[u])][t] \in {"creating", "destroying"}
                       <=> pc[t] \in Owning
  BY <1>1, Meanings
<1> QED
  BY <1>2 DEF Promise!Free, Promise!Owning, Inv, Claim

LEMMA ReasonsKept ==
    ASSUME Inv, Reasons, [Next]_vars
    PROVE  Reasons'
<1>1. CASE \E t \in Tasks : Call(t)
  <2>1. PICK t \in Tasks : Call(t)
    BY <1>1
  <2>2. PICK to \in {"create_init", "take", "destroy_init", "destroy_take"} :
          Goto(t, "idle", to) /\ UNCHANGED <<buttons_lock, registered_buttons>>
    BY <2>1 DEF Call, button_create, button_destroy, Start, locks, pool
  <2> QED
    BY <2>2, Moves DEF Inv, Reasons, Places
<1>2. CASE \E t \in Tasks : Step(t)
  <2>1. PICK t \in Tasks : Step(t)
    BY <1>2
  <2>2. PICK to \in Places : pc[t] \in Places /\ Goto(t, pc[t], to)
    BY <2>1, StepGoes
  <2>3. buttons_lock' = NULL => ~registered_buttons'
    <3>1. buttons_lock' = NULL => buttons_lock = NULL
      BY <2>1, MutexStays
    <3>2. registered_buttons' => registered_buttons \/ pc[t] = "publish"
      <4>1. CASE Publish(t) \/ Unclaim(t) \/ Lookup(t)
        BY <4>1 DEF Publish, Unclaim, Lookup, Goto
      <4>2. CASE ~Publish(t) /\ ~Unclaim(t) /\ ~Lookup(t)
        <5>1. registered_buttons' = registered_buttons
          BY <2>1, <4>2
          DEF Step, buttons_init, CreateMutex, TakeForClaim, CheckClaim, MarkClaim, Fill,
              CreateToggle, SyncTake, SyncGive, Sync, FailReset, TakeForDestroy,
              DeleteTake, DeleteGive, Reset, Release, pool
        <5> QED
          BY <5>1
      <4> QED
        BY <4>1, <4>2
    <3>3. pc[t] = "publish" => buttons_lock # NULL
      BY DEF Inv, Boot, Booting, Making
    <3> QED
      BY <3>1, <3>2, <3>3 DEF Reasons
  <2>4. Failures \/ to \notin {"fail", "unclaim"}
    <3>1. CASE CreateToggle(t)
      <4>1. pc[t] = "toggle" => toggle = NULL
        BY OwnerIsAlone, PlaceSets DEF Above
      <4>2. pc'[t] = to
        BY <2>2, Moves DEF Inv
      <4> QED
        BY <3>1, <4>1, <4>2, Moves DEF CreateToggle, Inv, Goto, Types
    <3>2. CASE FailReset(t) \/ Unclaim(t)
      BY <3>2 DEF FailReset, Unclaim, Goto, Reasons
    <3>3. CASE ~CreateToggle(t) /\ ~FailReset(t) /\ ~Unclaim(t)
      <4>1. pc'[t] = to /\ pc \in [Tasks -> Places]
        BY <2>2, Moves DEF Inv, Types
      <4> QED
        BY <2>1, <3>3, <4>1
        DEF Step, buttons_init, CreateMutex, TakeForClaim, CheckClaim, MarkClaim, Fill,
            SyncTake, SyncGive, Publish, TakeForDestroy,
            Lookup, DeleteTake, DeleteGive, Reset, Release, Goto
    <3> QED
      BY <3>1, <3>2, <3>3
  <2> QED
    BY <2>2, <2>3, <2>4, Moves DEF Inv, Reasons
<1>3. CASE UNCHANGED vars \/ Debounce \/ Expire \/ InCallback \/ Edge
  <2>1. UNCHANGED <<buttons_lock, registered_buttons, pc>>
    BY <1>3 DEF vars, Debounce, Expire, InCallback, Pressed, Released, Expired, Report, Edge,
       slots, locks, pool
  <2> QED
    BY <2>1 DEF Reasons
<1> QED
  BY <1>1, <1>2, <1>3 DEF Next

\* Steps of one task, as its caller sees them.
LEMMA StepMeans ==
    ASSUME Inv, Reasons, NEW t \in Tasks, Call(t) \/ Step(t)
    PROVE  Promise!Next \/ UNCHANGED <<Calls, registered_buttons>>
<1> DEFINE Same == UNCHANGED <<Calls, registered_buttons>>
<1>1. Types
  BY DEF Inv
<1>2. CASE Call(t)
  <2>1. PICK to \in {"create_init", "take", "destroy_init", "destroy_take"} :
          Goto(t, "idle", to) /\ UNCHANGED registered_buttons
    BY <1>2 DEF Call, button_create, button_destroy, Start, pool
  <2>2. {"idle", to} \subseteq Places
    BY DEF Places
  <2>3. Promise!Goes(t, "idle", "create") \/ Promise!Goes(t, "idle", "destroy")
    BY <1>1, <2>1, <2>2, MoveMeans, Meanings
  <2> QED
    BY <2>1, <2>3 DEF Promise!Next, Promise!Call
<1>3. CASE \/ buttons_init(t, "create_init", "take", "create_mutex")
           \/ buttons_init(t, "destroy_init", "destroy_take", "destroy_mutex")
           \/ TakeForClaim(t) \/ TakeForDestroy(t)
           \/ Fill(t) \/ CreateToggle(t) \/ SyncTake(t) \/ SyncGive(t) \/ FailReset(t)
           \/ DeleteTake(t) \/ DeleteGive(t) \/ Reset(t)
  <2> DEFINE Stays(from, to) == /\ Goto(t, from, to) /\ {from, to} \subseteq Places
                                /\ Meaning(from) = Meaning(to)
  <2>1. registered_buttons' = registered_buttons
    BY <1>3 DEF buttons_init, TakeForClaim, TakeForDestroy, Fill, CreateToggle, SyncTake,
       SyncGive, Sync, FailReset, DeleteTake, DeleteGive, Reset, pool
  <2>2. \E from, to : Stays(from, to)
    <3>1. CASE \/ buttons_init(t, "create_init", "take", "create_mutex") \/ TakeForClaim(t)
      <4>1. \E from, to \in {"create_init", "create_mutex", "take", "check"} : Goto(t, from, to)
        BY <3>1 DEF buttons_init, TakeForClaim
      <4> QED
        BY <4>1, Meanings DEF Places
    <3>2. CASE \/ buttons_init(t, "destroy_init", "destroy_take", "destroy_mutex")
               \/ TakeForDestroy(t)
      <4>1. \E from, to \in {"destroy_init", "destroy_mutex", "destroy_take", "lookup"} :
              Goto(t, from, to)
        BY <3>2 DEF buttons_init, TakeForDestroy
      <4> QED
        BY <4>1, Meanings DEF Places
    <3>3. CASE Fill(t) \/ CreateToggle(t) \/ SyncTake(t) \/ SyncGive(t) \/ FailReset(t)
      <4>1. \E from, to \in Creating : Goto(t, from, to)
        BY <3>3 DEF Fill, CreateToggle, SyncTake, SyncGive, FailReset, Creating
      <4> QED
        BY <4>1, Meanings DEF Places, Creating
    <3>4. CASE DeleteTake(t) \/ DeleteGive(t) \/ Reset(t)
      <4>1. \E from, to \in Deleting : Goto(t, from, to)
        BY <3>4 DEF DeleteTake, DeleteGive, Reset, Deleting
      <4> QED
        BY <4>1, Meanings DEF Places, Deleting
    <3> QED
      BY <1>3, <3>1, <3>2, <3>3, <3>4
  <2> QED
    BY <1>1, <2>1, <2>2, MoveMeans
<1>4. CASE CreateMutex(t, "create_mutex", "take")
  <2>1. CASE Goto(t, "create_mutex", "take")
    BY <1>1, <1>4, <2>1, MoveMeans, Meanings DEF CreateMutex, pool, Places
  <2>2. CASE Failures /\ Goto(t, "create_mutex", "idle")
    <3>1. Promise!Goes(t, "create", "idle")
      BY <1>1, <2>2, MoveMeans, Meanings DEF Places
    <3> QED
      BY <1>4, <2>2, <3>1 DEF CreateMutex, pool, Promise!Next, Promise!Refused
  <2> QED
    BY <1>4, <2>1, <2>2 DEF CreateMutex
<1>5. CASE CreateMutex(t, "destroy_mutex", "destroy_take")
  <2>1. CASE Goto(t, "destroy_mutex", "destroy_take")
    BY <1>1, <1>5, <2>1, MoveMeans, Meanings DEF CreateMutex, pool, Places
  <2>2. CASE Goto(t, "destroy_mutex", "idle")
    <3>1. Promise!Goes(t, "destroy", "idle")
      BY <1>1, <2>2, MoveMeans, Meanings DEF Places
    <3>2. ~registered_buttons
      BY <2>2 DEF Goto, Inv, Boot, Making, Reasons
    <3> QED
      BY <1>5, <3>1, <3>2 DEF CreateMutex, pool, Promise!Next, Promise!Nothing
  <2> QED
    BY <1>5, <2>1, <2>2 DEF CreateMutex
<1>6. CASE CheckClaim(t)
  <2>1. CASE Goto(t, "check", "mark")
    BY <1>1, <1>6, <2>1, MoveMeans, Meanings DEF CheckClaim, pool, Places
  <2>2. CASE button_claimed /\ Goto(t, "check", "idle")
    <3>1. Promise!Goes(t, "create", "idle")
      BY <1>1, <2>2, MoveMeans, Meanings DEF Places
    <3> QED
      BY <1>6, <2>2, <3>1, ClaimMeans DEF CheckClaim, pool, Promise!Next, Promise!Refused
  <2> QED
    BY <1>6, <2>1, <2>2 DEF CheckClaim
<1>7. CASE MarkClaim(t)
  <2>1. Goto(t, "mark", "fill") /\ UNCHANGED registered_buttons /\ ~button_claimed
    BY <1>7 DEF MarkClaim, Goto, Inv, Claim
  <2>2. Promise!Goes(t, "create", "creating")
    BY <1>1, <2>1, MoveMeans, Meanings DEF Places, Creating
  <2> QED
    BY <2>1, <2>2, ClaimMeans DEF Promise!Next, Promise!Accepted
<1>8. CASE Publish(t)
  <2>1. Promise!Goes(t, "creating", "idle")
    BY <1>1, <1>8, MoveMeans, Meanings DEF Publish, Places, Creating
  <2> QED
    BY <1>8, <2>1 DEF Publish, Promise!Next, Promise!Created
<1>9. CASE Unclaim(t)
  <2>1. Promise!Goes(t, "creating", "idle")
    BY <1>1, <1>9, MoveMeans, Meanings DEF Unclaim, Places, Creating
  <2>2. pc[t] = "unclaim" /\ Failures /\ registered_buttons' = registered_buttons
    <3>1. pc[t] = "unclaim" /\ registered_buttons' = FALSE
      BY <1>9 DEF Unclaim, Goto
    <3>2. registered_buttons = FALSE
      BY <3>1, OwnerIsAlone, PlaceSets DEF Inv, Types
    <3> QED
      BY <3>1, <3>2 DEF Reasons
  <2> QED
    BY <2>1, <2>2 DEF Promise!Next, Promise!Failed
<1>10. CASE Lookup(t)
  <2>1. CASE registered_buttons /\ Goto(t, "lookup", "delete")
    <3>1. Promise!Goes(t, "destroy", "destroying")
      BY <1>1, <2>1, MoveMeans, Meanings DEF Places, Deleting
    <3>2. registered_buttons' = FALSE
      BY <1>10, <2>1 DEF Lookup
    <3> QED
      BY <2>1, <3>1, <3>2 DEF Promise!Next, Promise!Removed
  <2>2. CASE ~registered_buttons /\ Goto(t, "lookup", "idle")
    <3>1. Promise!Goes(t, "destroy", "idle")
      BY <1>1, <2>2, MoveMeans, Meanings DEF Places
    <3>2. registered_buttons' = registered_buttons
      BY <1>10, <2>2 DEF Lookup
    <3> QED
      BY <2>2, <3>1, <3>2 DEF Promise!Next, Promise!Nothing
  <2> QED
    BY <1>10, <2>1, <2>2 DEF Lookup
<1>11. CASE Release(t)
  <2>1. Promise!Goes(t, "destroying", "idle")
    BY <1>1, <1>11, MoveMeans, Meanings DEF Release, Places, Deleting
  <2> QED
    BY <1>11, <2>1 DEF Release, Promise!Next, Promise!Destroyed
<1> QED
  BY <1>2, <1>3, <1>4, <1>5, <1>6, <1>7, <1>8, <1>9, <1>10, <1>11 DEF Step

\* If no two calls create the mutex at once, on one core or two, the calls of
\* button_create and button_destroy for a GPIO take effect each at one moment: none is
\* refused by a claim that nobody owns, without a failure none fails, and none that
\* destroys overlooks a button.
THEOREM CallsTakeEffect == SafeSpec /\ []MutexMadeOnce => ImplementsRegistry
<1>1. Init => Reasons /\ Promise!Init
  <2>1. Init => Promise!Init
    BY Meanings DEF Init, Promise!Init
  <2> QED
    BY <2>1 DEF Init, Reasons
<1>2. Inv /\ Reasons /\ [Next]_vars => Reasons'
  BY ReasonsKept
<1>3. Inv /\ Reasons /\ [Next]_vars => [Promise!Next]_(Promise!vars)
  <2> SUFFICES ASSUME Inv, Reasons, [Next]_vars PROVE [Promise!Next]_(Promise!vars)
    OBVIOUS
  <2>1. CASE \E t \in Tasks : Call(t) \/ Step(t)
    BY <2>1, StepMeans DEF Calls, Promise!vars
  <2>2. CASE UNCHANGED vars \/ Debounce \/ Expire \/ InCallback \/ Edge
    <3>1. UNCHANGED <<registered_buttons, pc>>
      BY <2>2 DEF vars, Debounce, Expire, InCallback, Pressed, Released, Expired, Report,
         Edge, slots, pool
    <3> QED
      BY <3>1 DEF Promise!vars
  <2> QED
    BY <2>1, <2>2 DEF Next
<1> QED
  BY Invariance, <1>1, <1>2, <1>3, PTL DEF SafeSpec, ImplementsRegistry, Promise!SafeSpec

-----------------------------------------------------------------------------
(* What the rule gives that a program can keep.                             *)

\* If the first call is over before another task calls, whatever may fail and whoever
\* may interrupt: one owner of the GPIO, a toggle and a slot for its button, calls into
\* toggle.c that do not overlap, and calls that take effect at one moment.
THEOREM SerialBootIsSafe ==
    ASSUME SerialBoot
    PROVE  SafeSpec => /\ [](TypeOK /\ ClaimHasOneOwner /\ ToggleHasItsButton)
                       /\ []ToggleCallsAreSerial
                       /\ ImplementsRegistry
BY FirstMakesMutex, LifecycleTypes, OneOwner, TogglesHaveButtons, TogglesAreSerial,
   CallsTakeEffect, PTL

\* If moreover no task interrupts the daemon, as on one core where it runs above the
\* tasks, it calls no callback of a slot that is wiped and leaves no count behind.
THEOREM UninterruptedIsSafe ==
    ASSUME SerialBoot, ~Interrupts
    PROVE  SafeSpec => [](NoCallOfNULL /\ CountsAreReleased)
<1>1. Inv /\ [Next]_vars => [LeftAlone]_vars
  BY UninterruptedIsLeftAlone
<1> QED
  BY <1>1, FirstMakesMutex, CallbacksAreNotNull, CountsAreReported, PTL DEF SafeSpec
=============================================================================
