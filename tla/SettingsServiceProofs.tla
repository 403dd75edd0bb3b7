----------------------- MODULE SettingsServiceProofs -----------------------
(***************************************************************************)
(* Proofs about SettingsService for every set of workers and values and    *)
(* any number of rows: the order of the versions, that none is skipped,    *)
(* that the log of a rollback tells what it replaced, that every change is *)
(* logged once, and the types with the bound on versions and rows.         *)
(***************************************************************************)
EXTENDS SettingsService, FiniteSetTheorems, SequenceTheorems, TLAPS

\* The types, without the bound.
Rows == [value : Values, version : Nat, seen : Nat]
Logs == [id : Nat, before : Values \cup {NULL}, after : Values]
Request == [pc : {"idle", "found", "insert", "log"}, row : Rows \cup {NULL},
            before : Values \cup {NULL}, id : Nat]

Types == /\ settings \in Seq(Rows)
         /\ audit_logs \in Seq(Logs)
         /\ request \in [Workers -> Request]

\* A row is newer than those that were there when it was made up, and follows a row,
\* one of the first n, with the value that is logged as before_state.
Newer(row) == /\ row.seen \in 0 .. Len(settings)
              /\ \A i \in 1 .. row.seen : settings[i].version < row.version
Follows(row) == row.version > 1 =>
                  \E j \in 1 .. Len(settings) : settings[j].version = row.version - 1
Replaces(row, before, n) ==
    before # NULL => \E j \in 1 .. n : /\ settings[j].version = row.version - 1
                                       /\ settings[j].value = before

\* The same of the row that a request has still to insert or to log.
Knows(r) ==
    /\ r.pc = "found" => r.row \in Rows /\ Len(settings) > 0
    /\ r.pc = "insert" => /\ r.row \in Rows
                          /\ Newer(r.row) /\ Follows(r.row)
                          /\ Replaces(r.row, r.before, Len(settings))
    /\ r.pc = "log" => /\ r.id \in 1 .. Len(settings)
                       /\ Replaces(settings[r.id], r.before, r.id - 1)

Logged(log) == /\ log.id \in 1 .. Len(settings)
               /\ log.after = settings[log.id].value
               /\ Replaces(settings[log.id], log.before, log.id - 1)

\* The inductive invariant.
Inv == /\ Types
       /\ \A j \in 1 .. Len(settings) : Newer(settings[j]) /\ Follows(settings[j])
       /\ \A w \in Workers : Knows(request[w])
       /\ \A k \in 1 .. Len(audit_logs) : Logged(audit_logs[k])

-----------------------------------------------------------------------------
\* What the repository finds is the row of the highest version, if there is a row.
LEMMA LatestFacts ==
    ASSUME Inv, NEW latest \in get_latest_by_key
    PROVE  \/ latest = NULL /\ Len(settings) = 0
           \/ /\ latest \in Rows /\ latest # NULL
              /\ \E i \in 1 .. Len(settings) : settings[i] = latest
              /\ \A j \in 1 .. Len(settings) : settings[j].version <= latest.version
<1>1. Ids = 1 .. Len(settings) /\ Len(settings) \in Nat
  BY DEF Inv, Types, Ids
<1>2. CASE Ids = {}
  <2>1. Len(settings) = 0
    BY <1>1, <1>2
  <2> QED
    BY <1>2, <2>1 DEF get_latest_by_key
<1>3. CASE Ids # {}
  <2>1. PICK i \in Ids : /\ latest = settings[i]
                         /\ \A j \in Ids : settings[i].version >= settings[j].version
    BY <1>3 DEF get_latest_by_key
  <2>2. latest \in Rows
    BY <1>1, <2>1 DEF Inv, Types
  <2>3. latest # NULL
    BY <2>2, NoSetting DEF Rows
  <2>4. \A j \in 1 .. Len(settings) : settings[j].version <= latest.version
    BY <1>1, <2>1 DEF Inv, Types, Rows
  <2> QED
    BY <1>1, <2>1, <2>2, <2>3, <2>4
<1> QED
  BY <1>2, <1>3

\* So the row that is made up of it is newer than all, and follows it.
LEMMA RowFacts ==
    ASSUME Inv, NEW latest \in get_latest_by_key, NEW value \in Values
    PROVE  /\ Row(value, latest) \in Rows
           /\ Newer(Row(value, latest)) /\ Follows(Row(value, latest))
           /\ latest # NULL => /\ latest.value \in Values
                               /\ Replaces(Row(value, latest), latest.value, Len(settings))
<1> DEFINE row == Row(value, latest)
<1>1. Len(settings) \in Nat /\ \A i \in 1 .. Len(settings) : settings[i] \in Rows
  BY DEF Inv, Types
<1>2. CASE latest = NULL /\ Len(settings) = 0
  <2>1. row = [value |-> value, seen |-> 0, version |-> 1]
    BY <1>2 DEF Row
  <2> QED
    BY <1>1, <1>2, <2>1 DEF Rows, Newer, Follows
<1>3. CASE /\ latest \in Rows /\ latest # NULL
           /\ \E i \in 1 .. Len(settings) : settings[i] = latest
           /\ \A j \in 1 .. Len(settings) : settings[j].version <= latest.version
  <2>1. row = [value |-> value, seen |-> Len(settings), version |-> latest.version + 1]
    BY <1>3 DEF Row
  <2>2. latest.version \in Nat /\ latest.value \in Values
    BY <1>3 DEF Rows
  <2>3. row.seen = Len(settings) /\ row.version = latest.version + 1 /\ row \in Rows
    BY <1>1, <2>1, <2>2 DEF Rows
  <2> HIDE DEF row
  <2>4. Newer(row)
    BY <1>1, <1>3, <2>2, <2>3 DEF Newer, Rows
  <2>5. Follows(row) /\ Replaces(row, latest.value, Len(settings))
    BY <1>1, <1>3, <2>2, <2>3 DEF Follows, Replaces
  <2> QED
    BY <2>2, <2>3, <2>4, <2>5 DEF row
<1> QED
  BY <1>2, <1>3, LatestFacts

LEMMA InitInv == Init => Inv
<1> SUFFICES ASSUME Init PROVE Inv
  OBVIOUS
<1>1. Idle \in Request /\ Idle.pc = "idle"
  BY DEF Idle, Request
<1>2. settings = <<>> /\ audit_logs = <<>> /\ request = [w \in Workers |-> Idle]
  BY DEF Init
<1> QED
  BY <1>1, <1>2 DEF Inv, Types, Knows

\* A step moves one request.
LEMMA Moves ==
    ASSUME Types, NEW w \in Workers, NEW r \in Request, Set(w, r)
    PROVE  /\ request' \in [Workers -> Request]
           /\ request'[w] = r
           /\ \A v \in Workers \ {w} : request'[v] = request[v]
BY DEF Types, Set

\* A step that inserts nothing.
LEMMA ReadingInv ==
    ASSUME Inv, NEW w \in Workers, NEW r \in Request, Set(w, r), Knows(r),
           UNCHANGED <<settings, audit_logs>>
    PROVE  Inv'
<1>1. /\ request' \in [Workers -> Request]
      /\ request'[w] = r
      /\ \A v \in Workers \ {w} : request'[v] = request[v]
  BY Moves DEF Inv
<1>2. ASSUME NEW v \in Workers PROVE Knows(request[v])'
  <2>1. Knows(request'[v])
    BY <1>1 DEF Inv
  <2> QED
    BY <2>1 DEF Knows, Newer, Follows, Replaces
<1>3. \A j \in 1 .. Len(settings') : Newer(settings[j])' /\ Follows(settings[j])'
  BY DEF Inv, Newer, Follows
<1>4. \A k \in 1 .. Len(audit_logs') : Logged(audit_logs[k])'
  BY DEF Inv, Logged, Replaces
<1> QED
  BY <1>1, <1>2, <1>3, <1>4 DEF Inv, Types

LEMMA ReadInv ==
    ASSUME Inv, NEW w \in Workers, Read(w)
    PROVE  Inv'
<1>0. Idle \in Request /\ Idle.before = NULL
  BY DEF Idle, Request
<1>1. UNCHANGED <<settings, audit_logs>>
  BY DEF Read
<1>2. CASE create_setting(w)
  <2>1. PICK latest \in get_latest_by_key, value \in Values :
          Set(w, [Idle EXCEPT !.pc = "insert", !.row = Row(value, latest)])
    BY <1>2 DEF create_setting
  <2> DEFINE r == [Idle EXCEPT !.pc = "insert", !.row = Row(value, latest)]
  <2>2. /\ Row(value, latest) \in Rows => r \in Request
        /\ r.pc = "insert" /\ r.row = Row(value, latest) /\ r.before = NULL
    BY <1>0 DEF Request
  <2>3. Set(w, r)
    BY <2>1
  <2> HIDE DEF r
  <2>4. r \in Request /\ Knows(r)
    BY <2>2, RowFacts DEF Knows, Replaces
  <2> QED
    BY <1>1, <2>3, <2>4, ReadingInv
<1>3. CASE FindTarget(w)
  <2>1. PICK i \in Ids : Set(w, [Idle EXCEPT !.pc = "found", !.row = settings[i]])
    BY <1>3 DEF FindTarget
  <2> DEFINE r == [Idle EXCEPT !.pc = "found", !.row = settings[i]]
  <2>2. /\ settings[i] \in Rows => r \in Request
        /\ r.pc = "found" /\ r.row = settings[i]
    BY <1>0 DEF Request
  <2>3. settings[i] \in Rows /\ Len(settings) > 0
    BY DEF Inv, Types, Ids
  <2>4. Set(w, r)
    BY <2>1
  <2> HIDE DEF r
  <2>5. r \in Request /\ Knows(r)
    BY <2>2, <2>3 DEF Knows
  <2> QED
    BY <1>1, <2>4, <2>5, ReadingInv
<1>4. CASE request[w].pc = "found" /\ FindLatest(w)
  <2> DEFINE value == request[w].row.value
  <2>1. PICK latest \in get_latest_by_key :
          Set(w, [Idle EXCEPT !.pc = "insert", !.row = Row(value, latest),
                              !.before = latest.value])
    BY <1>4 DEF FindLatest
  <2> DEFINE r == [Idle EXCEPT !.pc = "insert", !.row = Row(value, latest),
                               !.before = latest.value]
  <2>2. /\ Row(value, latest) \in Rows /\ latest.value \in Values => r \in Request
        /\ r.pc = "insert" /\ r.row = Row(value, latest) /\ r.before = latest.value
    BY <1>0 DEF Request
  <2>3. value \in Values /\ Len(settings) > 0
    BY <1>4 DEF Inv, Knows, Rows
  <2>4. latest # NULL
    BY <2>3, LatestFacts
  <2>5. Set(w, r)
    BY <2>1
  <2> HIDE DEF r, value
  <2>6. r \in Request /\ Knows(r)
    BY <2>2, <2>3, <2>4, RowFacts DEF Knows
  <2> QED
    BY <1>1, <2>5, <2>6, ReadingInv
<1> QED
  BY <1>2, <1>3, <1>4 DEF Read

\* A row at the end changes nothing that is known of the others.
LEMMA AppendFacts ==
    ASSUME Types, NEW row \in Rows, settings' = Append(settings, row)
    PROVE  /\ Len(settings') = Len(settings) + 1 /\ Len(settings) \in Nat
           /\ settings'[Len(settings')] = row
           /\ \A j \in 1 .. Len(settings) : settings'[j] = settings[j]
           /\ settings' \in Seq(Rows)
           /\ \A r : /\ Newer(r) => Newer(r)'
                     /\ Follows(r) => Follows(r)'
                     /\ \A before, n : n \in 0 .. Len(settings) /\ Replaces(r, before, n)
                                         => Replaces(r, before, n)'
<1>1. /\ Len(settings') = Len(settings) + 1 /\ Len(settings) \in Nat
      /\ settings'[Len(settings')] = row
      /\ \A j \in 1 .. Len(settings) : settings'[j] = settings[j]
      /\ settings' \in Seq(Rows)
  BY DEF Types
<1>2. ASSUME NEW r, Newer(r) PROVE Newer(r)'
  BY <1>1, <1>2 DEF Newer
<1>3. ASSUME NEW r, Follows(r) PROVE Follows(r)'
  BY <1>1, <1>3 DEF Follows
<1>4. ASSUME NEW r, NEW before, NEW n \in 0 .. Len(settings), Replaces(r, before, n)
      PROVE  Replaces(r, before, n)'
  BY <1>1, <1>4 DEF Replaces
<1> QED
  BY <1>1, <1>2, <1>3, <1>4

LEMMA InsertInv ==
    ASSUME Inv, NEW w \in Workers, Insert(w)
    PROVE  Inv'
<1> DEFINE q == request[w]
           r == [q EXCEPT !.pc = "log", !.id = Len(settings) + 1]
<1>1. /\ q \in Request /\ q.row \in Rows /\ settings' = Append(settings, q.row)
      /\ Newer(q.row) /\ Follows(q.row) /\ Replaces(q.row, q.before, Len(settings))
      /\ audit_logs' = audit_logs
  BY DEF Inv, Types, Insert, Knows
<1>2. /\ Len(settings') = Len(settings) + 1 /\ Len(settings) \in Nat
      /\ settings'[Len(settings')] = q.row
      /\ \A j \in 1 .. Len(settings) : settings'[j] = settings[j]
      /\ settings' \in Seq(Rows)
  BY <1>1, AppendFacts DEF Inv
<1> HIDE DEF q
<1>3. /\ r \in Request /\ r.pc = "log" /\ r.before = q.before
      /\ r.id = Len(settings')
  <2>1. Len(settings) + 1 \in Nat /\ Len(settings') = Len(settings) + 1
    BY <1>2
  <2> QED
    BY <1>1, <2>1 DEF Request
<1>4. Set(w, r)
  BY DEF Insert, q
<1> HIDE DEF r
<1>5. /\ request' \in [Workers -> Request]
      /\ request'[w] = r
      /\ \A v \in Workers \ {w} : request'[v] = request[v]
  BY <1>3, <1>4, Moves DEF Inv
<1>6. ASSUME NEW j \in 1 .. Len(settings') PROVE Newer(settings[j])' /\ Follows(settings[j])'
  <2>1. Newer(settings'[j]) /\ Follows(settings'[j])
    BY <1>1, <1>2 DEF Inv
  <2>2. Newer(settings[j])' /\ Follows(settings[j])'
    BY <2>1, <1>2 DEF Newer, Follows
  <2> QED
    BY <2>2
<1>7. ASSUME NEW v \in Workers PROVE Knows(request[v])'
  <2>1. CASE v = w
    <3>1. q.before # NULL =>
            \E j \in 1 .. Len(settings) : /\ settings'[j].version = q.row.version - 1
                                          /\ settings'[j].value = q.before
      BY <1>1, <1>2 DEF Replaces
    <3>2. r.id - 1 = Len(settings) /\ settings'[r.id] = q.row /\ r.id \in 1 .. Len(settings')
      BY <1>2, <1>3
    <3> QED
      BY <2>1, <3>1, <3>2, <1>3, <1>5 DEF Knows, Replaces
  <2>2. CASE v # w
    <3>1. Knows(request'[v]) /\ request'[v] = request[v] /\ request[v] \in Request
      BY <2>2, <1>5 DEF Inv, Types
    <3> QED
      BY <3>1, <1>2 DEF Knows, Newer, Follows, Replaces, Request
  <2> QED
    BY <2>1, <2>2
<1>8. ASSUME NEW k \in 1 .. Len(audit_logs') PROVE Logged(audit_logs[k])'
  <2>1. Logged(audit_logs[k]) /\ audit_logs' = audit_logs
    BY <1>1 DEF Inv
  <2> QED
    BY <2>1, <1>2 DEF Logged, Replaces
<1> QED
  BY <1>1, <1>2, <1>5, <1>6, <1>7, <1>8 DEF Inv, Types

LEMMA LogInv ==
    ASSUME Inv, NEW w \in Workers, Log(w)
    PROVE  Inv'
<1> DEFINE q == request[w]
           log == LogEntry(w)
<1>1. /\ q \in Request /\ q.id \in 1 .. Len(settings)
      /\ Replaces(settings[q.id], q.before, q.id - 1)
      /\ settings' = settings /\ audit_logs' = Append(audit_logs, log) /\ Set(w, Idle)
  BY DEF Inv, Types, Log, Knows
<1>2. Idle \in Request /\ Idle.pc = "idle"
  BY DEF Idle, Request
<1>3. /\ request' \in [Workers -> Request]
      /\ request'[w] = Idle
      /\ \A v \in Workers \ {w} : request'[v] = request[v]
  BY <1>1, <1>2, Moves DEF Inv
<1>4. /\ log.id = q.id /\ log.before = q.before /\ log.after = settings[q.id].value
      /\ log \in Logs
  <2>1. settings[q.id].value \in Values
    <3>1. settings[q.id] \in Rows
      BY <1>1 DEF Inv, Types
    <3> QED
      BY <3>1 DEF Rows
  <2> QED
    BY <1>1, <2>1 DEF LogEntry, Logs, Request
<1>5. /\ audit_logs' \in Seq(Logs) /\ Len(audit_logs) \in Nat
      /\ Len(audit_logs') = Len(audit_logs) + 1
      /\ audit_logs'[Len(audit_logs')] = log
      /\ \A k \in 1 .. Len(audit_logs) : audit_logs'[k] = audit_logs[k]
  <2> HIDE DEF log
  <2> QED
    BY <1>1, <1>4 DEF Inv, Types
<1>6. Logged(log)
  BY <1>1, <1>4 DEF Logged
<1> HIDE DEF q, log
<1>7. ASSUME NEW k \in 1 .. Len(audit_logs') PROVE Logged(audit_logs[k])'
  <2>1. Logged(audit_logs'[k])
    BY <1>5, <1>6 DEF Inv
  <2> QED
    BY <2>1, <1>1 DEF Logged, Replaces
<1>8. ASSUME NEW v \in Workers PROVE Knows(request[v])'
  <2>1. Knows(request'[v])
    BY <1>2, <1>3 DEF Inv, Knows
  <2> QED
    BY <2>1, <1>1 DEF Knows, Newer, Follows, Replaces
<1>9. \A j \in 1 .. Len(settings') : Newer(settings[j])' /\ Follows(settings[j])'
  BY <1>1 DEF Inv, Newer, Follows
<1> QED
  BY <1>1, <1>3, <1>5, <1>7, <1>8, <1>9 DEF Inv, Types

\* Every step keeps the invariant.
LEMMA NextInv == Inv /\ [Next]_vars => Inv'
<1> SUFFICES ASSUME Inv, [Next]_vars PROVE Inv'
  OBVIOUS
<1>1. CASE UNCHANGED vars
  BY <1>1 DEF vars, Inv, Types, Newer, Follows, Knows, Logged, Replaces
<1>2. ASSUME NEW w \in Workers, Read(w) PROVE Inv'
  BY <1>2, ReadInv
<1>3. ASSUME NEW w \in Workers, NotFound(w) PROVE Inv'
  BY <1>1, <1>3 DEF NotFound
<1>4. ASSUME NEW w \in Workers, Insert(w) PROVE Inv'
  BY <1>4, InsertInv
<1>5. ASSUME NEW w \in Workers, Log(w) PROVE Inv'
  BY <1>5, LogInv
<1>6. ASSUME NEW w \in Workers, Die(w) PROVE Inv'
  <2>1. Idle \in Request /\ Idle.pc = "idle"
    BY DEF Idle, Request
  <2>2. Knows(Idle)
    BY <2>1 DEF Knows
  <2> HIDE DEF Idle
  <2> QED
    BY <1>6, <2>1, <2>2, ReadingInv DEF Die
<1> QED
  BY <1>1, <1>2, <1>3, <1>4, <1>5, <1>6 DEF Next

-----------------------------------------------------------------------------
\* A request never makes up a version that a row had when it looked: of two requests
\* that do not overlap the later has the later version.
THEOREM LaterIsNewer == Spec => []VersionsAreNewer
<1>1. Inv => VersionsAreNewer
  BY DEF Inv, Newer, VersionsAreNewer, Ids, Types
<1> QED
  BY InitInv, NextInv, <1>1, PTL DEF Spec

\* However requests overlap and die, the versions go up by one.
THEOREM VersionsHaveNoGaps == Spec => []NoVersionIsSkipped
<1>1. Inv => NoVersionIsSkipped
  BY DEF Inv, Follows, NoVersionIsSkipped, Ids, Types
<1> QED
  BY InitInv, NextInv, <1>1, PTL DEF Spec

\* Whatever was inserted between a request's read and its log, the log tells what the
\* row holds, and what a row of the version before it held.
THEOREM LogsAreOfVersions == Spec => []LogsTellTheChange
<1>1. Inv => LogsTellTheChange
  <2> SUFFICES ASSUME Inv, NEW k \in DOMAIN audit_logs PROVE
        LET log == audit_logs[k]
        IN  /\ log.after = settings[log.id].value
            /\ log.before # NULL =>
                 \E j \in 1 .. log.id - 1 :
                    /\ settings[j].version = settings[log.id].version - 1
                    /\ settings[j].value = log.before
    BY DEF LogsTellTheChange
  <2>1. Logged(audit_logs[k])
    BY DEF Inv, Types
  <2> QED
    BY <2>1 DEF Logged, Replaces
<1> QED
  BY InitInv, NextInv, <1>1, PTL DEF Spec
-----------------------------------------------------------------------------
(* Each row has one log.                                                    *)

LogsOf(i) == {k \in DOMAIN audit_logs : audit_logs[k].id = i}
Logging(i) == {w \in Workers : request[w].pc = "log" /\ request[w].id = i}

\* A row is logged, or one request has still to log it, or its log was lost; only one
\* of the three.
Accounted(i) ==
    \/ (\E k : LogsOf(i) = {k}) /\ Logging(i) = {} /\ i \notin unlogged
    \/ LogsOf(i) = {} /\ (\E w : Logging(i) = {w}) /\ i \notin unlogged
    \/ LogsOf(i) = {} /\ Logging(i) = {} /\ i \in unlogged

LoggedOnce == /\ unlogged \subseteq 1 .. Len(settings)
              /\ \A i \in 1 .. Len(settings) : Accounted(i)

\* Of a row that is not there nothing has been said.
LEMMA NoRowNoLog ==
    ASSUME Inv, LoggedOnce, NEW i \in Nat, i > Len(settings)
    PROVE  LogsOf(i) = {} /\ Logging(i) = {} /\ i \notin unlogged
<1>1. Len(settings) \in Nat
  BY DEF Inv, Types
<1>2. LogsOf(i) = {}
  <2>1. \A k \in DOMAIN audit_logs : audit_logs[k].id \in 1 .. Len(settings)
    BY DEF Inv, Types, Logged
  <2> QED
    BY <1>1, <2>1 DEF LogsOf
<1>3. Logging(i) = {}
  <2>1. \A w \in Workers : request[w].pc = "log" => request[w].id \in 1 .. Len(settings)
    BY DEF Inv, Knows
  <2> QED
    BY <1>1, <2>1 DEF Logging
<1>4. i \notin unlogged
  BY <1>1 DEF LoggedOnce
<1> QED
  BY <1>2, <1>3, <1>4

\* A step that neither begins nor ends a log.
LEMMA QuietLogged ==
    ASSUME LoggedOnce, UNCHANGED <<settings, audit_logs, unlogged>>, NEW w \in Workers,
           request[w].pc # "log", request'[w].pc # "log",
           \A v \in Workers \ {w} : request'[v] = request[v]
    PROVE  LoggedOnce'
<1>1. ASSUME NEW i \in 1 .. Len(settings)
      PROVE  LogsOf(i)' = LogsOf(i) /\ Logging(i)' = Logging(i)
  BY DEF LogsOf, Logging
<1> QED
  BY <1>1 DEF LoggedOnce, Accounted

LEMMA ReadLogged ==
    ASSUME Inv, LoggedOnce, NEW w \in Workers, Read(w)
    PROVE  LoggedOnce'
<1>1. Idle.pc = "idle" /\ Idle \in Request
  BY DEF Idle, Request
<1>2. UNCHANGED <<settings, audit_logs, unlogged>> /\ request[w].pc # "log"
  BY <1>1 DEF Read
<1>3. PICK r : Set(w, r) /\ r.pc # "log"
  <2>1. CASE create_setting(w)
    <3>1. PICK latest \in get_latest_by_key, value \in Values :
            Set(w, [Idle EXCEPT !.pc = "insert", !.row = Row(value, latest)])
      BY <2>1 DEF create_setting
    <3>2. [Idle EXCEPT !.pc = "insert", !.row = Row(value, latest)].pc = "insert"
      BY DEF Idle
    <3> QED
      BY <3>1, <3>2
  <2>2. CASE FindTarget(w)
    <3>1. PICK i \in Ids : Set(w, [Idle EXCEPT !.pc = "found", !.row = settings[i]])
      BY <2>2 DEF FindTarget
    <3>2. [Idle EXCEPT !.pc = "found", !.row = settings[i]].pc = "found"
      BY DEF Idle
    <3> QED
      BY <3>1, <3>2
  <2>3. CASE FindLatest(w)
    <3>1. PICK latest \in get_latest_by_key :
            Set(w, [Idle EXCEPT !.pc = "insert",
                                !.row = Row(request[w].row.value, latest),
                                !.before = latest.value])
      BY <2>3 DEF FindLatest
    <3>2. [Idle EXCEPT !.pc = "insert", !.row = Row(request[w].row.value, latest),
                       !.before = latest.value].pc = "insert"
      BY DEF Idle
    <3> QED
      BY <3>1, <3>2
  <2> QED
    BY <2>1, <2>2, <2>3 DEF Read
<1>4. request'[w] = r /\ \A v \in Workers \ {w} : request'[v] = request[v]
  BY <1>3 DEF Set, Inv, Types
<1> QED
  BY <1>2, <1>3, <1>4, QuietLogged

\* The row that is inserted is its request's to log.
LEMMA InsertLogged ==
    ASSUME Inv, LoggedOnce, NEW w \in Workers, Insert(w)
    PROVE  LoggedOnce'
<1>1. PICK n \in Nat : n = Len(settings)
  BY DEF Inv, Types
<1>2. PICK q \in Request : q = request[w]
  BY DEF Inv, Types
<1>3. q.pc = "insert" /\ q.row \in Rows /\ Len(settings') = n + 1
  <2>1. q.pc = "insert" /\ q.row \in Rows /\ settings \in Seq(Rows)
    BY <1>2 DEF Inv, Types, Insert, Knows
  <2>2. settings' = Append(settings, q.row)
    BY <1>2 DEF Insert
  <2> QED
    BY <1>1, <2>1, <2>2
<1>4. PICK r : r = [q EXCEPT !.pc = "log", !.id = n + 1]
  OBVIOUS
<1>5. UNCHANGED <<audit_logs, unlogged>> /\ Set(w, r)
  BY <1>1, <1>2, <1>4 DEF Insert
<1>6. r \in Request /\ r.pc = "log" /\ r.id = n + 1
  <2>1. n + 1 \in Nat
    OBVIOUS
  <2> QED
    BY <1>4, <2>1 DEF Request
<1>7. request'[w] = r /\ \A v \in Workers \ {w} : request'[v] = request[v]
  BY <1>5, <1>6, Moves DEF Inv
<1>8. LogsOf(n + 1) = {} /\ Logging(n + 1) = {} /\ n + 1 \notin unlogged
  BY <1>1, NoRowNoLog
<1>9. ASSUME NEW i \in 1 .. n PROVE Accounted(i)'
  <2>1. LogsOf(i)' = LogsOf(i)
    BY <1>5 DEF LogsOf
  <2>2. Logging(i)' = Logging(i)
    BY <1>2, <1>3, <1>6, <1>7 DEF Logging
  <2>3. Accounted(i)
    BY <1>1 DEF LoggedOnce
  <2> QED
    BY <1>5, <2>1, <2>2, <2>3 DEF Accounted
<1>10. Accounted(n + 1)'
  <2>1. LogsOf(n + 1)' = {}
    BY <1>5, <1>8 DEF LogsOf
  <2>2. Logging(n + 1)' = {w}
    <3>1. \A v \in Workers \ {w} : ~(request'[v].pc = "log" /\ request'[v].id = n + 1)
      BY <1>7, <1>8 DEF Logging
    <3> QED
      BY <1>6, <1>7, <3>1 DEF Logging
  <2> QED
    BY <1>5, <1>8, <2>1, <2>2 DEF Accounted
<1>11. \A i \in 1 .. (n + 1) : i \in 1 .. n \/ i = n + 1
  OBVIOUS
<1>12. unlogged' \subseteq 1 .. (n + 1)
  BY <1>1, <1>5 DEF LoggedOnce
<1> QED
  BY <1>3, <1>9, <1>10, <1>11, <1>12 DEF LoggedOnce

\* A request that has still to log its row is alone with it.
LEMMA OneLogger ==
    ASSUME Inv, LoggedOnce, NEW w \in Workers, request[w].pc = "log",
           NEW i, i = request[w].id
    PROVE  /\ i \in 1 .. Len(settings)
           /\ LogsOf(i) = {} /\ Logging(i) = {w} /\ i \notin unlogged
<1>1. i \in 1 .. Len(settings)
  BY DEF Inv, Knows
<1>2. w \in Logging(i)
  BY DEF Logging
<1> QED
  BY <1>1, <1>2 DEF LoggedOnce, Accounted

\* Where a worker leaves its log, the rows of the others are as they were.
LEMMA EndLogging ==
    ASSUME Inv, NEW w \in Workers, request[w].pc = "log", NEW i, i = request[w].id,
           Set(w, Idle)
    PROVE  /\ Logging(i) = {w} => Logging(i)' = {}
           /\ \A j : j # i => Logging(j)' = Logging(j)
<1>1. Idle \in Request /\ Idle.pc = "idle"
  BY DEF Idle, Request
<1>2. request'[w] = Idle /\ \A v \in Workers \ {w} : request'[v] = request[v]
  BY <1>1, Moves DEF Inv
<1> HIDE DEF Idle
<1>3. Logging(i) = {w} => Logging(i)' = {}
  <2> SUFFICES ASSUME Logging(i) = {w}, NEW v \in Workers
               PROVE  ~(request'[v].pc = "log" /\ request'[v].id = i)
    BY DEF Logging
  <2>1. CASE v = w
    BY <1>1, <1>2, <2>1
  <2>2. CASE v # w
    BY <1>2, <2>2 DEF Logging
  <2> QED
    BY <2>1, <2>2
<1>4. ASSUME NEW j, j # i PROVE Logging(j)' = Logging(j)
  BY <1>1, <1>2, <1>4 DEF Logging
<1> QED
  BY <1>3, <1>4

LEMMA LogLogged ==
    ASSUME Inv, LoggedOnce, NEW w \in Workers, Log(w)
    PROVE  LoggedOnce'
<1>1. request[w].pc = "log" /\ Set(w, Idle) /\ UNCHANGED <<settings, unlogged>>
  BY DEF Log
<1>2. PICK i : i = request[w].id
  OBVIOUS
<1>3. PICK n \in Nat : n = Len(audit_logs)
  BY DEF Inv, Types
<1>4. /\ DOMAIN audit_logs = 1 .. n /\ DOMAIN audit_logs' = 1 .. (n + 1)
      /\ audit_logs'[n + 1].id = i
      /\ \A k \in 1 .. n : audit_logs'[k] = audit_logs[k]
  <2>1. audit_logs \in Seq(Logs) /\ audit_logs' = Append(audit_logs, LogEntry(w))
    BY DEF Inv, Types, Log
  <2>2. LogEntry(w).id = i
    BY <1>2 DEF LogEntry
  <2> HIDE DEF LogEntry
  <2>3. LogEntry(w) \in Logs
    <3>1. /\ request[w] \in Request /\ i \in 1 .. Len(settings)
          /\ settings \in Seq(Rows)
      BY <1>1, <1>2, OneLogger DEF Inv, Types
    <3>2. settings[i] \in Rows /\ i \in Nat
      BY <3>1
    <3> QED
      BY <1>2, <3>1, <3>2 DEF LogEntry, Logs, Request, Rows
  <2> QED
    BY <1>3, <2>1, <2>2, <2>3
<1>5. LogsOf(i) = {} /\ Logging(i) = {w} /\ i \notin unlogged
  BY <1>1, <1>2, OneLogger
<1>6. Accounted(i)'
  <2>1. LogsOf(i)' = {n + 1}
    BY <1>4, <1>5 DEF LogsOf
  <2>2. Logging(i)' = {}
    BY <1>1, <1>2, <1>5, EndLogging
  <2> QED
    BY <1>1, <1>5, <2>1, <2>2 DEF Accounted
<1>7. ASSUME NEW j \in 1 .. Len(settings), j # i PROVE Accounted(j)'
  <2>1. LogsOf(j)' = LogsOf(j)
    BY <1>4, <1>7 DEF LogsOf
  <2>2. Logging(j)' = Logging(j)
    BY <1>1, <1>2, <1>7, EndLogging
  <2> QED
    BY <1>1, <2>1, <2>2 DEF Accounted, LoggedOnce
<1> QED
  BY <1>1, <1>6, <1>7 DEF LoggedOnce

LEMMA DieLogged ==
    ASSUME Inv, LoggedOnce, NEW w \in Workers, Die(w)
    PROVE  LoggedOnce'
<1>1. Set(w, Idle) /\ UNCHANGED <<settings, audit_logs>>
  BY DEF Die
<1>2. CASE request[w].pc # "log"
  <2>1. unlogged' = unlogged
    BY <1>2 DEF Die
  <2>2. Idle.pc = "idle" /\ Idle \in Request
    BY DEF Idle, Request
  <2>3. request'[w] = Idle /\ \A v \in Workers \ {w} : request'[v] = request[v]
    BY <1>1, <2>2, Moves DEF Inv
  <2> HIDE DEF Idle
  <2> QED
    BY <1>1, <1>2, <2>1, <2>2, <2>3, QuietLogged
<1>3. CASE request[w].pc = "log"
  <2>1. PICK i : i = request[w].id
    OBVIOUS
  <2>2. unlogged' = unlogged \cup {i}
    BY <1>3, <2>1 DEF Die
  <2>3. i \in 1 .. Len(settings) /\ LogsOf(i) = {} /\ Logging(i) = {w}
    BY <1>3, <2>1, OneLogger
  <2>4. Logging(i)' = {} /\ \A j : j # i => Logging(j)' = Logging(j)
    BY <1>1, <1>3, <2>1, <2>3, EndLogging
  <2>5. \A j : LogsOf(j)' = LogsOf(j)
    BY <1>1 DEF LogsOf
  <2>6. Accounted(i)'
    BY <2>2, <2>3, <2>4, <2>5 DEF Accounted
  <2>7. ASSUME NEW j \in 1 .. Len(settings), j # i PROVE Accounted(j)'
    BY <2>2, <2>4, <2>5, <2>7 DEF Accounted, LoggedOnce
  <2> QED
    BY <1>1, <2>2, <2>3, <2>6, <2>7 DEF LoggedOnce
<1> QED
  BY <1>2, <1>3

LEMMA NextLogged == Inv /\ LoggedOnce /\ [Next]_vars => LoggedOnce'
<1> SUFFICES ASSUME Inv, LoggedOnce, [Next]_vars PROVE LoggedOnce'
  OBVIOUS
<1>1. CASE UNCHANGED vars
  BY <1>1 DEF vars, LoggedOnce, Accounted, LogsOf, Logging
<1> QED
  BY <1>1, ReadLogged, InsertLogged, LogLogged, DieLogged DEF Next, NotFound

LEMMA InitLogged == Init => LoggedOnce
<1> SUFFICES ASSUME Init PROVE LoggedOnce
  OBVIOUS
<1>1. Len(settings) = 0 /\ unlogged = {}
  BY DEF Init
<1> QED
  BY <1>1 DEF LoggedOnce

\* One of the three sets of Accounted is a singleton, the others are empty.
LEMMA AccountedIsOne ==
    ASSUME Inv, LoggedOnce
    PROVE  ChangesAreLogged
<1> SUFFICES ASSUME NEW i \in Ids
             PROVE  Cardinality(LogsOf(i)) + Cardinality(Logging(i))
                       + (IF i \in unlogged THEN 1 ELSE 0) = 1
  BY DEF ChangesAreLogged, LogsOf, Logging
<1>1. Accounted(i)
  BY DEF Ids, Inv, Types, LoggedOnce
<1>2. \A S : /\ S = {} => Cardinality(S) = 0
             /\ (\E x : S = {x}) => Cardinality(S) = 1
  BY FS_EmptySet, FS_Singleton
<1>3. \/ /\ Cardinality(LogsOf(i)) = 1 /\ Cardinality(Logging(i)) = 0
         /\ i \notin unlogged
      \/ /\ Cardinality(LogsOf(i)) = 0 /\ Cardinality(Logging(i)) = 1
         /\ i \notin unlogged
      \/ /\ Cardinality(LogsOf(i)) = 0 /\ Cardinality(Logging(i)) = 0
         /\ i \in unlogged
  BY <1>1, <1>2, Zenon DEF Accounted
<1> QED
  BY <1>3

\* Every row that was ever inserted has exactly one log, or a request that has still to
\* write it, or lost it with the worker that died: none is logged twice, and none is
\* forgotten.
THEOREM EveryChangeIsLogged == Spec => []ChangesAreLogged
BY InitInv, InitLogged, NextInv, NextLogged, AccountedIsOne, PTL DEF Spec

-----------------------------------------------------------------------------
(* The types, and the bound.                                                *)

Busy == {w \in Workers : request[w] # Idle}
Inserting == {w \in Workers : request[w].pc \in {"found", "insert"}}

\* No version is above the number of rows, with the row that is still to be inserted;
\* and there is room for all of those.
Bounded(r) == /\ r.id <= Len(settings)
              /\ r.row # NULL =>
                   /\ r.row.version >= 1 /\ r.row.seen <= Len(settings)
                   /\ r.row.version <= Len(settings) + (IF r.pc = "insert" THEN 1 ELSE 0)

HasRoom == IsFiniteSet(Busy) /\ Len(settings) + Cardinality(Inserting) <= MaxRows

BoundInv == /\ \A j \in 1 .. Len(settings) : settings[j].version \in 1 .. Len(settings)
            /\ \A w \in Workers : Bounded(request[w])
            /\ HasRoom

LEMMA InsertingIsFinite ==
    ASSUME IsFiniteSet(Busy)
    PROVE  /\ IsFiniteSet(Inserting)
           /\ Cardinality(Inserting) \in Nat /\ Cardinality(Busy) \in Nat
           /\ Cardinality(Inserting) <= Cardinality(Busy)
<1>1. Inserting \in SUBSET Busy
  BY DEF Inserting, Busy, Idle
<1> QED
  BY <1>1, FS_Subset, FS_CardinalityType

LEMMA InitBound == Init => BoundInv
<1> SUFFICES ASSUME Init PROVE BoundInv
  OBVIOUS
<1>1. Len(settings) = 0
  BY DEF Init
<1>2. Busy = {} /\ Inserting = {}
  BY DEF Init, Busy, Inserting, Idle
<1>3. HasRoom
  BY <1>1, <1>2, FS_EmptySet, SettingsAssumption DEF HasRoom
<1>4. \A w \in Workers : Bounded(request[w])
  BY <1>1 DEF Init, Idle, Bounded
<1> QED
  BY <1>1, <1>3, <1>4 DEF BoundInv

\* A step that inserts nothing: its own request is bounded, and found room if it has
\* still to insert.
LEMMA StepBound ==
    ASSUME Inv, BoundInv, settings' = settings, NEW w \in Workers, NEW r,
           request'[w] = r, \A v \in Workers \ {w} : request'[v] = request[v],
           Bounded(r),
           \/ r.pc \notin {"found", "insert"}
           \/ request[w].pc \in {"found", "insert"}
           \/ Room
    PROVE  BoundInv'
<1>1. Len(settings) \in Nat /\ IsFiniteSet(Busy)
  BY DEF Inv, Types, BoundInv, HasRoom
<1>2. \A v \in Workers : Bounded(request[v])'
  <2>1. \A v \in Workers : Bounded(request'[v])
    BY DEF BoundInv
  <2> QED
    BY <2>1 DEF Bounded
<1>3. IsFiniteSet(Busy')
  <2>1. Busy' \in SUBSET (Busy \cup {w})
    BY DEF Busy
  <2> QED
    BY <1>1, <2>1, FS_AddElement, FS_Subset
<1>4. Len(settings) + Cardinality(Inserting') <= MaxRows
  <2>1. /\ IsFiniteSet(Inserting) /\ Cardinality(Inserting) \in Nat
        /\ Cardinality(Busy) \in Nat /\ Cardinality(Inserting) <= Cardinality(Busy)
        /\ Len(settings) + Cardinality(Inserting) <= MaxRows
    BY <1>1, InsertingIsFinite DEF BoundInv, HasRoom
  <2>2. CASE Room
    <3>1. Inserting' \in SUBSET (Inserting \cup {w})
      BY DEF Inserting
    <3>2. /\ IsFiniteSet(Inserting \cup {w})
          /\ Cardinality(Inserting \cup {w}) <= Cardinality(Inserting) + 1
      BY <2>1, FS_AddElement
    <3>3. IsFiniteSet(Inserting')
          /\ Cardinality(Inserting') <= Cardinality(Inserting \cup {w})
      BY <3>1, <3>2, FS_Subset
    <3>4. Cardinality(Inserting') \in Nat /\ Cardinality(Inserting \cup {w}) \in Nat
      BY <3>2, <3>3, FS_CardinalityType
    <3>5. Len(settings) + Cardinality(Busy) < MaxRows
      BY <2>2 DEF Room, Busy
    <3> QED
      BY <1>1, <2>1, <3>2, <3>3, <3>4, <3>5, SettingsAssumption
  <2>3. CASE r.pc \notin {"found", "insert"} \/ request[w].pc \in {"found", "insert"}
    <3>1. Inserting' \in SUBSET Inserting
      BY <2>3 DEF Inserting
    <3>2. IsFiniteSet(Inserting') /\ Cardinality(Inserting') <= Cardinality(Inserting)
      BY <2>1, <3>1, FS_Subset
    <3>3. Cardinality(Inserting') \in Nat
      BY <3>2, FS_CardinalityType
    <3> QED
      BY <1>1, <2>1, <3>2, <3>3, SettingsAssumption
  <2> QED
    BY <2>2, <2>3
<1> QED
  BY <1>2, <1>3, <1>4 DEF BoundInv, HasRoom

\* A row made up now has at most the next version.
LEMMA RowIsBounded ==
    ASSUME Inv, BoundInv, NEW latest \in get_latest_by_key, NEW value \in Values
    PROVE  LET row == Row(value, latest)
           IN  /\ row \in Rows /\ row.seen = Len(settings)
               /\ row.version \in 1 .. (Len(settings) + 1)
<1>1. Row(value, latest) \in Rows /\ Len(settings) \in Nat
  BY RowFacts DEF Inv, Types
<1>2. Row(value, latest).seen = Len(settings)
  BY DEF Row
<1>3. Row(value, latest).version = IF latest = NULL THEN 1 ELSE latest.version + 1
  BY DEF Row
<1>4. latest # NULL => latest.version \in 1 .. Len(settings)
  BY LatestFacts DEF BoundInv
<1> QED
  BY <1>1, <1>2, <1>3, <1>4

LEMMA ReadBound ==
    ASSUME Inv, BoundInv, NEW w \in Workers, Read(w)
    PROVE  BoundInv'
<1>0. Idle \in Request /\ Idle.id = 0 /\ Len(settings) \in Nat
  BY DEF Idle, Request, Inv, Types
<1>1. PICK r \in Request : /\ Set(w, r) /\ Bounded(r)
                           /\ Room \/ request[w].pc \in {"found", "insert"}
  <2>1. ASSUME NEW row \in Rows, NEW before \in Values \cup {NULL}, NEW r,
               r = [Idle EXCEPT !.pc = "insert", !.row = row, !.before = before],
               row.seen = Len(settings), row.version \in 1 .. (Len(settings) + 1)
        PROVE  r \in Request /\ Bounded(r)
    <3>1. /\ r \in Request /\ r.row = row /\ r.pc = "insert" /\ r.id = 0
      BY <1>0, <2>1 DEF Request
    <3> QED
      BY <1>0, <2>1, <3>1 DEF Bounded
  <2>2. CASE Room /\ create_setting(w)
    <3>1. PICK latest \in get_latest_by_key, value \in Values :
            Set(w, [Idle EXCEPT !.pc = "insert", !.row = Row(value, latest)])
      BY <2>2 DEF create_setting
    <3>2. PICK r : r = [Idle EXCEPT !.pc = "insert", !.row = Row(value, latest)]
      OBVIOUS
    <3>3. r \in Request /\ r.row = Row(value, latest) /\ r.pc = "insert" /\ r.id = 0
      BY <1>0, <3>2, RowIsBounded DEF Request
    <3>4. Bounded(r)
      BY <1>0, <3>3, RowIsBounded DEF Bounded
    <3> QED
      BY <2>2, <3>1, <3>2, <3>3, <3>4
  <2>3. CASE Room /\ FindTarget(w)
    <3>1. PICK i \in Ids : Set(w, [Idle EXCEPT !.pc = "found", !.row = settings[i]])
      BY <2>3 DEF FindTarget
    <3>2. PICK r : r = [Idle EXCEPT !.pc = "found", !.row = settings[i]]
      OBVIOUS
    <3>3. /\ settings[i] \in Rows /\ settings[i].version \in 1 .. Len(settings)
          /\ settings[i].seen <= Len(settings)
      BY DEF Ids, Inv, Types, Newer, BoundInv
    <3>4. r \in Request /\ r.row = settings[i] /\ r.pc = "found" /\ r.id = 0
      BY <1>0, <3>2, <3>3 DEF Request
    <3>5. Bounded(r)
      BY <1>0, <3>3, <3>4 DEF Bounded, Rows
    <3> QED
      BY <2>3, <3>1, <3>2, <3>4, <3>5
  <2>4. CASE request[w].pc = "found" /\ FindLatest(w)
    <3>1. PICK value \in Values : value = request[w].row.value
      BY <2>4 DEF Inv, Knows, Rows
    <3>2. PICK latest \in get_latest_by_key :
            Set(w, [Idle EXCEPT !.pc = "insert", !.row = Row(value, latest),
                                !.before = latest.value])
      BY <2>4, <3>1 DEF FindLatest
    <3>3. PICK r : r = [Idle EXCEPT !.pc = "insert", !.row = Row(value, latest),
                                    !.before = latest.value]
      OBVIOUS
    <3>4. latest # NULL
      BY <2>4, LatestFacts DEF Inv, Knows
    <3>5. latest.value \in Values
      BY <3>4, RowFacts
    <3>6. r \in Request /\ Bounded(r)
      BY <2>1, <3>3, <3>5, RowIsBounded
    <3> QED
      BY <2>4, <3>2, <3>3, <3>6
  <2> QED
    BY <2>2, <2>3, <2>4 DEF Read
<1>2. request'[w] = r /\ \A v \in Workers \ {w} : request'[v] = request[v]
  BY <1>1, Moves DEF Inv
<1>3. settings' = settings
  BY DEF Read
<1> QED
  BY <1>1, <1>2, <1>3, StepBound

LEMMA InsertBound ==
    ASSUME Inv, BoundInv, NEW w \in Workers, Insert(w)
    PROVE  BoundInv'
<1>1. PICK n \in Nat : n = Len(settings)
  BY DEF Inv, Types
<1>2. PICK q \in Request : q = request[w]
  BY DEF Inv, Types
<1>3. /\ q.pc = "insert" /\ q.row \in Rows /\ q.row # NULL
      /\ q.row.version \in 1 .. (n + 1) /\ q.row.seen <= n
  <2>1. q.pc = "insert" /\ q.row \in Rows
    BY <1>2 DEF Inv, Insert, Knows
  <2>2. q.row # NULL
    BY <2>1, NoSetting DEF Rows
  <2> QED
    BY <1>1, <1>2, <2>1, <2>2 DEF BoundInv, Bounded, Rows
<1>4. /\ Len(settings') = n + 1 /\ settings'[n + 1] = q.row
      /\ \A j \in 1 .. n : settings'[j] = settings[j]
  BY <1>1, <1>2, <1>3, AppendFacts DEF Insert, Inv
<1>5. PICK r : r = [q EXCEPT !.pc = "log", !.id = n + 1]
  OBVIOUS
<1>6. r \in Request /\ r.pc = "log" /\ r.id = n + 1 /\ r.row = q.row
  <2>1. n + 1 \in Nat
    OBVIOUS
  <2> QED
    BY <1>5, <2>1 DEF Request
<1>7. request'[w] = r /\ \A v \in Workers \ {w} : request'[v] = request[v]
  <2>1. Set(w, r)
    BY <1>1, <1>2, <1>5 DEF Insert
  <2> QED
    BY <1>6, <2>1, Moves DEF Inv
<1>8. \A j \in 1 .. Len(settings') : settings'[j].version \in 1 .. Len(settings')
  <2>1. \A j \in 1 .. n : settings'[j].version \in 1 .. (n + 1)
    BY <1>1, <1>4 DEF BoundInv
  <2> QED
    BY <1>3, <1>4, <2>1
<1>9. ASSUME NEW v \in Workers PROVE Bounded(request[v])'
  <2>1. CASE v = w
    BY <1>3, <1>4, <1>6, <1>7, <2>1 DEF Bounded, Rows
  <2>2. CASE v # w
    <3>1. request'[v] = request[v] /\ Bounded(request[v]) /\ request[v] \in Request
      BY <1>7, <2>2 DEF BoundInv, Inv, Types
    <3> QED
      BY <1>1, <1>4, <3>1 DEF Bounded, Request, Rows
  <2> QED
    BY <2>1, <2>2
<1>10. IsFiniteSet(Busy')
  <2>1. Busy' \in SUBSET (Busy \cup {w}) /\ IsFiniteSet(Busy)
    BY <1>7 DEF Busy, BoundInv, HasRoom
  <2> QED
    BY <2>1, FS_AddElement, FS_Subset
<1>11. n + 1 + Cardinality(Inserting') <= MaxRows
  <2>1. w \in Inserting /\ Inserting' = Inserting \ {w}
    BY <1>2, <1>3, <1>6, <1>7 DEF Inserting
  <2>2. /\ IsFiniteSet(Inserting) /\ Cardinality(Inserting) \in Nat
        /\ n + Cardinality(Inserting) <= MaxRows
    BY <1>1, InsertingIsFinite DEF BoundInv, HasRoom
  <2>3. Cardinality(Inserting') = Cardinality(Inserting) - 1
    BY <2>1, <2>2, FS_RemoveElement
  <2> QED
    BY <2>2, <2>3, SettingsAssumption
<1> QED
  BY <1>4, <1>8, <1>9, <1>10, <1>11 DEF BoundInv, HasRoom

LEMMA NextBound == Inv /\ BoundInv /\ [Next]_vars => BoundInv'
<1> SUFFICES ASSUME Inv, BoundInv, [Next]_vars PROVE BoundInv'
  OBVIOUS
<1>1. CASE UNCHANGED vars
  BY <1>1 DEF vars, BoundInv, Bounded, HasRoom, Busy, Inserting
<1>2. ASSUME NEW w \in Workers, Log(w) \/ Die(w) PROVE BoundInv'
  <2>1. Idle \in Request /\ Idle.pc = "idle" /\ Bounded(Idle)
    BY DEF Idle, Request, Bounded, Inv, Types
  <2>2. Set(w, Idle) /\ settings' = settings
    BY <1>2 DEF Log, Die
  <2>3. request'[w] = Idle /\ \A v \in Workers \ {w} : request'[v] = request[v]
    BY <2>1, <2>2, Moves DEF Inv
  <2> HIDE DEF Idle
  <2> QED
    BY <2>1, <2>2, <2>3, StepBound
<1> QED
  BY <1>1, <1>2, ReadBound, InsertBound DEF Next, NotFound

LEMMA SeqByElement ==
    ASSUME NEW S, NEW T, NEW s \in Seq(S), \A i \in 1 .. Len(s) : s[i] \in T
    PROVE  s \in Seq(T)
<1>1. Len(s) \in Nat /\ s \in [1 .. Len(s) -> S]
  BY LenProperties
<1>2. s \in [1 .. Len(s) -> T]
  BY <1>1
<1> QED
  BY <1>1, <1>2, SeqDef

\* The types and the bound follow.
LEMMA BoundIsType == Inv /\ LoggedOnce /\ BoundInv => TypeOK
<1> SUFFICES ASSUME Inv, LoggedOnce, BoundInv PROVE TypeOK
  OBVIOUS
<1>1. /\ settings \in Seq(Rows) /\ Len(settings) \in Nat /\ Ids = 1 .. Len(settings)
      /\ audit_logs \in Seq(Logs)
  BY DEF Inv, Types, Ids
<1>2. IsFiniteSet(Inserting) /\ Cardinality(Inserting) \in Nat
      /\ Len(settings) + Cardinality(Inserting) <= MaxRows
  BY InsertingIsFinite DEF BoundInv, HasRoom
<1>3. Len(settings) <= MaxRows /\ MaxRows \in Nat
  BY <1>1, <1>2, SettingsAssumption
<1>4. ASSUME NEW row \in Rows, row.version >= 1, row.version <= MaxRows,
             row.seen <= MaxRows
      PROVE  row \in Setting
  <2>1. row = [value |-> row.value, version |-> row.version, seen |-> row.seen]
    BY DEF Rows
  <2>2. row.value \in Values /\ row.version \in 1 .. MaxRows /\ row.seen \in 0 .. MaxRows
    BY <1>3, <1>4 DEF Rows
  <2> QED
    BY <2>1, <2>2 DEF Setting
<1>5. settings \in Seq(Setting)
  <2>1. \A j \in 1 .. Len(settings) : /\ settings[j] \in Rows
                                      /\ settings[j].version \in 1 .. Len(settings)
                                      /\ settings[j].seen \in 0 .. Len(settings)
    BY <1>1 DEF BoundInv, Inv, Newer
  <2>2. ASSUME NEW j \in 1 .. Len(settings) PROVE settings[j] \in Setting
    <3>1. /\ settings[j].version >= 1 /\ settings[j].version <= MaxRows
          /\ settings[j].seen <= MaxRows
      BY <1>1, <1>3, <2>1
    <3> QED
      BY <1>4, <2>1, <3>1
  <2> QED
    BY <1>1, <2>2, SeqByElement
<1>6. audit_logs \in Seq([id : Ids, before : Values \cup {NULL}, after : Values])
  <2>1. \A k \in 1 .. Len(audit_logs) : audit_logs[k] \in Logs /\ audit_logs[k].id \in Ids
    BY <1>1 DEF Inv, Logged
  <2>2. \A k \in 1 .. Len(audit_logs) :
          audit_logs[k] \in [id : Ids, before : Values \cup {NULL}, after : Values]
    BY <2>1 DEF Logs
  <2> QED
    BY <1>1, <2>2, SeqByElement
<1>7. ASSUME NEW w \in Workers
      PROVE  /\ request[w].pc \in {"idle", "found", "insert", "log"}
             /\ request[w].row \in Setting \cup {NULL}
             /\ request[w].before \in Values \cup {NULL}
             /\ request[w].id \in Ids \cup {0}
  <2>1. PICK r \in Request : r = request[w] /\ Bounded(r)
    BY DEF Inv, Types, BoundInv
  <2>2. /\ r.pc \in {"idle", "found", "insert", "log"} /\ r.before \in Values \cup {NULL}
        /\ r.row \in Rows \cup {NULL} /\ r.id \in Nat
    BY DEF Request
  <2>3. r.id \in Ids \cup {0}
    BY <1>1, <2>1, <2>2 DEF Bounded
  <2>4. r.pc = "insert" => Len(settings) + 1 <= MaxRows
    <3>1. ASSUME r.pc = "insert" PROVE Cardinality(Inserting) >= 1
      <4>1. Inserting # {}
        BY <2>1, <3>1 DEF Inserting
      <4> QED
        BY <1>2, <4>1, FS_EmptySet
    <3> QED
      BY <1>1, <1>2, <1>3, <3>1
  <2>5. ASSUME r.row # NULL PROVE r.row \in Setting
    <3>1. r.row \in Rows /\ r.row.version \in Nat /\ r.row.seen \in Nat
      BY <2>2, <2>5 DEF Rows
    <3>2. /\ r.row.version >= 1 /\ r.row.seen <= Len(settings)
          /\ r.row.version <= Len(settings) + (IF r.pc = "insert" THEN 1 ELSE 0)
      BY <2>1, <2>5 DEF Bounded
    <3>3. r.row.version <= MaxRows /\ r.row.seen <= MaxRows
      BY <1>1, <1>3, <2>4, <3>1, <3>2
    <3> QED
      BY <1>4, <3>1, <3>2, <3>3
  <2> QED
    BY <2>1, <2>2, <2>3, <2>5
<1> QED
  BY <1>1, <1>5, <1>6, <1>7 DEF TypeOK, LoggedOnce

\* Every variable keeps its type: no version passes the number of rows, and every id that
\* a request or a log refers to is a row's.
THEOREM SettingsTypes == Spec => []TypeOK
<1>1. Init => Inv /\ LoggedOnce /\ BoundInv
  BY InitInv, InitLogged, InitBound
<1> QED
  BY <1>1, NextInv, NextLogged, NextBound, BoundIsType, PTL DEF Spec
=============================================================================
