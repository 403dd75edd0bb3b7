-------------------------- MODULE SettingsService --------------------------
(***************************************************************************)
(* create_setting and rollback of backend/app/services/                    *)
(* settings_service.py for one key, served by several workers over the     *)
(* tables settings and audit_logs of one PostgreSQL database.              *)
(*                                                                         *)
(* Rows are only ever added.  A request reads, inserts its row, and only   *)
(* then inserts its log, each in a transaction of its own, and a worker    *)
(* may die between two of these steps.  Where a setting applies (scope,    *)
(* organization_id, device_id) is part of its value: no query looks at it. *)
(*                                                                         *)
(* A definition whose comment says "Fault" stands for no code: it is what  *)
(* the next one would be with a mistake in it, and a property fails if the *)
(* mistake is made.                                                        *)
(***************************************************************************)
EXTENDS Naturals, Sequences, FiniteSets

CONSTANTS Workers,
          Values,
          NULL,
          MaxRows      \* bound: rows and requests under way

ASSUME SettingsAssumption == NULL \notin Values /\ MaxRows \in Nat

VARIABLES settings,    \* the rows in the order of their ids; "seen" is history:
                       \* how many there were when the latest was looked for
          audit_logs,  \* the rows in the order of their ids
          request,     \* what each worker is doing
          unlogged     \* history: the ids whose log died with the worker

vars == <<settings, audit_logs, request, unlogged>>

Ids == DOMAIN settings
Setting == [value : Values, version : 1 .. MaxRows, seen : 0 .. MaxRows]

ASSUME NoSetting == NULL \notin [value : Values, version : Nat, seen : Nat]

Idle == [pc |-> "idle", row |-> NULL, before |-> NULL, id |-> 0]

Init == settings = <<>> /\ audit_logs = <<>> /\ unlogged = {}
        /\ request = [w \in Workers |-> Idle]

Set(w, r) == request' = [request EXCEPT ![w] = r]

-----------------------------------------------------------------------------
\* get_latest_by_key: a row of the highest version, any of several, or NULL.
\* Fault: the order is the other way round.
oldest_by_key == IF Ids = {} THEN {NULL}
                 ELSE {settings[i] : i \in {i \in Ids : \A j \in Ids :
                                        settings[i].version <= settings[j].version}}
get_latest_by_key == IF Ids = {} THEN {NULL}
                     ELSE {settings[i] : i \in {i \in Ids : \A j \in Ids :
                                            settings[i].version >= settings[j].version}}

\* The row that a request is going to insert.  Faults: versions begin with 0;
\* the version is the number of rows.
RowFromZero(value, latest) ==
    [value |-> value, seen |-> Len(settings),
     version |-> IF latest = NULL THEN 0 ELSE latest.version + 1]
RowCounted(value, latest) ==
    [value |-> value, seen |-> Len(settings),
     version |-> IF latest = NULL THEN 1 ELSE Len(settings) + 1]
Row(value, latest) ==
    [value |-> value, seen |-> Len(settings),
     version |-> IF latest = NULL THEN 1 ELSE latest.version + 1]

\* create_setting up to its insert.  Its log never has a before_state.
create_setting(w) ==
    \E latest \in get_latest_by_key, value \in Values :
        Set(w, [Idle EXCEPT !.pc = "insert", !.row = Row(value, latest)])

\* rollback: first a row of the version asked for, any of several (without one the
\* answer is 404), then the latest row, whose value is logged as before_state.
\* Fault: the value gone back to is.
FindTarget(w) == \E i \in Ids : Set(w, [Idle EXCEPT !.pc = "found", !.row = settings[i]])

FindLatestLogTarget(w) ==
    \E latest \in get_latest_by_key :
        Set(w, [Idle EXCEPT !.pc = "insert", !.row = Row(request[w].row.value, latest),
                            !.before = request[w].row.value])
FindLatest(w) ==
    \E latest \in get_latest_by_key :
        Set(w, [Idle EXCEPT !.pc = "insert", !.row = Row(request[w].row.value, latest),
                            !.before = latest.value])

\* The bound: a request starts only if there will be room for its row.
Room == Len(settings) + Cardinality({w \in Workers : request[w] # Idle}) < MaxRows

Read(w) == /\ \/ request[w] = Idle /\ Room /\ (create_setting(w) \/ FindTarget(w))
              \/ request[w].pc = "found" /\ FindLatest(w)
           /\ UNCHANGED <<settings, audit_logs, unlogged>>

\* The rollback to a version that no row has is answered with 404.
NotFound(w) == request[w] = Idle /\ UNCHANGED vars

\* The row is committed, then the log.  Fault: a rollback is not logged.
Insert(w) == /\ request[w].pc = "insert"
             /\ settings' = Append(settings, request[w].row)
             /\ Set(w, [request[w] EXCEPT !.pc = "log", !.id = Len(settings) + 1])
             /\ UNCHANGED <<audit_logs, unlogged>>

LogEntry(w) == [id |-> request[w].id, before |-> request[w].before,
                after |-> settings[request[w].id].value]
LogCreates(w) == /\ request[w].pc = "log"
                 /\ audit_logs' = IF request[w].before = NULL
                                    THEN Append(audit_logs, LogEntry(w)) ELSE audit_logs
                 /\ Set(w, Idle)
                 /\ UNCHANGED <<settings, unlogged>>
Log(w) == /\ request[w].pc = "log"
          /\ audit_logs' = Append(audit_logs, LogEntry(w))
          /\ Set(w, Idle)
          /\ UNCHANGED <<settings, unlogged>>

\* The worker, or its connection to the database, dies.
Die(w) == /\ request[w] # Idle
          /\ unlogged' = unlogged \cup (IF request[w].pc = "log" THEN {request[w].id} ELSE {})
          /\ Set(w, Idle)
          /\ UNCHANGED <<settings, audit_logs>>

Next == \E w \in Workers : Read(w) \/ NotFound(w) \/ Insert(w) \/ Log(w) \/ Die(w)

Spec == Init /\ [][Next]_vars

-----------------------------------------------------------------------------
\* The types of the variables; every id in use is a row's.
TypeOK == /\ settings \in Seq(Setting)
          /\ audit_logs \in Seq([id : Ids, before : Values \cup {NULL}, after : Values])
          /\ unlogged \subseteq Ids
          /\ \A w \in Workers :
               /\ request[w].pc \in {"idle", "found", "insert", "log"}
               /\ request[w].row \in Setting \cup {NULL}
               /\ request[w].before \in Values \cup {NULL}
               /\ request[w].id \in Ids \cup {0}

\* A version is newer than every row that was there when it was made up: two
\* requests, one of which was answered before the other came, never leave the
\* older value the latest.  (Requests that overlap may get the same version.)
VersionsAreNewer ==
    \A j \in Ids : \A i \in 1 .. settings[j].seen :
        settings[i].version < settings[j].version

\* The versions are 1 to the latest, however the requests overlap and fail: every
\* version that was ever the latest can be gone back to.
NoVersionIsSkipped ==
    \A i \in Ids : settings[i].version > 1 =>
        \E j \in Ids : settings[j].version = settings[i].version - 1

\* Each row has one log, unless its request has still to write it or died before.
ChangesAreLogged ==
    \A i \in Ids :
        Cardinality({k \in DOMAIN audit_logs : audit_logs[k].id = i})
        + Cardinality({w \in Workers : request[w].pc = "log" /\ request[w].id = i})
        + (IF i \in unlogged THEN 1 ELSE 0) = 1

\* The before_state that a rollback logs is what a row of the version before its
\* own held, and its after_state what its own holds.
LogsTellTheChange ==
    \A k \in DOMAIN audit_logs :
        LET log == audit_logs[k]
        IN  /\ log.after = settings[log.id].value
            /\ log.before # NULL =>
                 \E j \in 1 .. log.id - 1 :
                    /\ settings[j].version = settings[log.id].version - 1
                    /\ settings[j].value = log.before
=============================================================================
