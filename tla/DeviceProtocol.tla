--------------------------- MODULE DeviceProtocol ---------------------------
(***************************************************************************)
(* register, heartbeat, push_metrics and push_logs of                      *)
(* backend/app/services/device_protocol_service.py for one serial number,  *)
(* served by several workers over one PostgreSQL row of the table devices  *)
(* and the rows of device_metrics and device_logs that refer to it.        *)
(*                                                                         *)
(* A request loads the row, changes the object in its session and saves    *)
(* it, three steps that other requests may come between.  The save is an   *)
(* UPDATE of the columns whose value differs from the loaded one, and of   *)
(* no others.  The columns that no property is about are left out          *)
(* (updated_at), agent_version and capabilities are one report.            *)
(*                                                                         *)
(* A definition whose comment says "Fault" stands for no code: it is what  *)
(* the next one would be with a mistake in it, and a property fails if the *)
(* mistake is made.                                                        *)
(***************************************************************************)
EXTENDS Naturals

CONSTANTS Workers,
          Reports,     \* what an agent may report when it registers
          NULL,
          HEARTBEAT_TIMEOUT_SECONDS, STALE_THRESHOLD_SECONDS,
          MaxTime,     \* the clock stops here
          MaxRows,     \* bound: the rows of device_metrics, and of device_logs
          Retries,     \* may an agent send a heartbeat before the last is answered?
          SlowRequests \* may time pass while a request is served?

ASSUME DeviceAssumption ==
    /\ NULL \notin Reports \cup BOOLEAN \cup Nat /\ Reports \cap BOOLEAN = {}
    /\ {HEARTBEAT_TIMEOUT_SECONDS, STALE_THRESHOLD_SECONDS, MaxTime, MaxRows} \subseteq Nat
    /\ HEARTBEAT_TIMEOUT_SECONDS <= STALE_THRESHOLD_SECONDS
    /\ {Retries, SlowRequests} \subseteq BOOLEAN

VARIABLES now,
          devices,     \* the row of the serial number, or NULL
          device_metrics, device_logs,   \* how many rows refer to it
          request,     \* what each worker is doing
          heard        \* history: the last heartbeat saved, or NULL

pushed == <<device_metrics, device_logs>>
vars == <<now, devices, pushed, request, heard>>

Time == 0 .. MaxTime
Statuses == {"online", "stale", "offline", "error"}
Device == [status : Statuses, last_heartbeat_at : Time \cup {NULL}, report : Reports]

Heard == [at : Time, error : BOOLEAN]

ASSUME NoDevice == NULL \notin Device
ASSUME NothingHeard == NULL \notin Heard

\* Payloads: a report registers, a Boolean is a heartbeat's has_error; what is pushed
\* is not told apart.
Idle == [pc |-> "idle", payload |-> NULL, loaded |-> NULL, device |-> NULL]

Init == now = 0 /\ devices = NULL /\ heard = NULL
        /\ device_metrics = 0 /\ device_logs = 0
        /\ request = [w \in Workers |-> Idle]

\* The age is taken at the time of the call; a limit belongs to the better status.
\* Fault: the column, a string, gets a status that no reader knows.
derive_unknown_status(last_heartbeat_at, error) ==
    IF error THEN "degraded"
    ELSE IF last_heartbeat_at = NULL THEN "offline"
    ELSE IF now - last_heartbeat_at <= HEARTBEAT_TIMEOUT_SECONDS THEN "online"
    ELSE IF now - last_heartbeat_at <= STALE_THRESHOLD_SECONDS THEN "stale"
    ELSE "offline"
derive_device_status(last_heartbeat_at, error) ==
    IF error THEN "error"
    ELSE IF last_heartbeat_at = NULL THEN "offline"
    ELSE IF now - last_heartbeat_at <= HEARTBEAT_TIMEOUT_SECONDS THEN "online"
    ELSE IF now - last_heartbeat_at <= STALE_THRESHOLD_SECONDS THEN "stale"
    ELSE "offline"

-----------------------------------------------------------------------------
Set(w, r) == request' = [request EXCEPT ![w] = r]

\* get_by_serial.  A heartbeat of an unknown device is answered with 404.
Load(w, pc, payload) ==
    /\ request[w] = Idle
    /\ Set(w, [pc |-> pc, payload |-> payload, loaded |-> devices, device |-> devices])
    /\ UNCHANGED <<now, devices, pushed, heard>>

LoadForRegister(w) == \E report \in Reports : Load(w, "register", report)

Beating == {w \in Workers : request[w].payload \in BOOLEAN}
LoadForHeartbeat(w) == /\ devices # NULL
                       /\ Retries \/ Beating = {}
                       /\ \E has_error \in BOOLEAN : Load(w, "heartbeat", has_error)

\* The row is inserted, unless another request inserted it since: the serial
\* number is unique, and this request fails.  Fault: it replaces the row.
CreateReplaces(w) ==
    /\ request[w].pc = "register" /\ request[w].loaded = NULL
    /\ devices' = [status |-> "offline", last_heartbeat_at |-> NULL,
                   report |-> request[w].payload]
    /\ Set(w, Idle)
    /\ UNCHANGED <<now, pushed, heard>>
Create(w) ==
    /\ request[w].pc = "register" /\ request[w].loaded = NULL
    /\ IF devices = NULL
         THEN devices' = [status |-> "offline", last_heartbeat_at |-> NULL,
                          report |-> request[w].payload]
         ELSE UNCHANGED devices
    /\ Set(w, Idle)
    /\ UNCHANGED <<now, pushed, heard>>

\* A known device registers again: its status and its heartbeat stay.
Update(w) ==
    /\ request[w].pc = "register" /\ request[w].loaded # NULL
    /\ Set(w, [request[w] EXCEPT !.pc = "save", !.device.report = request[w].payload])
    /\ UNCHANGED <<now, devices, pushed, heard>>

\* heartbeat takes the time of the server and derives the status at once.
Beat(w) ==
    /\ request[w].pc = "heartbeat"
    /\ Set(w, [request[w] EXCEPT
                 !.pc = "save",
                 !.device.last_heartbeat_at = now,
                 !.device.status = derive_device_status(now, request[w].payload)])
    /\ UNCHANGED <<now, devices, pushed, heard>>

\* The row after the UPDATE of a changed object.  Fault: every column is written.
WriteAll(row, loaded, device) == device
Write(row, loaded, device) ==
    [column \in DOMAIN row |-> IF device[column] # loaded[column] THEN device[column]
                                                                  ELSE row[column]]

Save(w) ==
    LET r == request[w]
    IN  /\ r.pc = "save"
        /\ devices' = Write(devices, r.loaded, r.device)
        /\ heard' = IF r.payload \in BOOLEAN
                      THEN [at |-> r.device.last_heartbeat_at, error |-> r.payload]
                      ELSE heard
        /\ Set(w, Idle)
        /\ UNCHANGED <<now, pushed>>

\* push_metrics and push_logs find the device, and insert a row that refers to it.
LoadForPush(w) == /\ devices # NULL
                  /\ Load(w, "metrics", NULL) \/ Load(w, "logs", NULL)
add_metric(w) == /\ request[w].pc = "metrics" /\ device_metrics < MaxRows
                 /\ device_metrics' = device_metrics + 1
                 /\ Set(w, Idle)
                 /\ UNCHANGED <<now, devices, device_logs, heard>>
add_log(w) == /\ request[w].pc = "logs" /\ device_logs < MaxRows
              /\ device_logs' = device_logs + 1
              /\ Set(w, Idle)
              /\ UNCHANGED <<now, devices, device_metrics, heard>>

\* The worker or its connection dies, or the database refuses: nothing of the
\* request is committed.
Die(w) == /\ request[w] # Idle
          /\ Set(w, Idle)
          /\ UNCHANGED <<now, devices, pushed, heard>>

Tick == /\ now < MaxTime /\ now' = now + 1
        /\ SlowRequests \/ \A w \in Workers : request[w] = Idle
        /\ UNCHANGED <<devices, pushed, request, heard>>

Next == \/ Tick
        \/ \E w \in Workers : \/ LoadForRegister(w) \/ LoadForHeartbeat(w) \/ LoadForPush(w)
                              \/ Create(w) \/ Update(w) \/ Beat(w) \/ Save(w)
                              \/ add_metric(w) \/ add_log(w) \/ Die(w)

Spec == Init /\ [][Next]_vars

-----------------------------------------------------------------------------
\* The types of the variables, with the statuses of docs/device-protocol.md; a row
\* that was pushed refers to a device.
TypeOK == /\ now \in Time
          /\ devices \in Device \cup {NULL}
          /\ {device_metrics, device_logs} \subseteq 0 .. MaxRows
          /\ devices = NULL => device_metrics = 0 /\ device_logs = 0
          /\ heard \in Heard \cup {NULL}
          /\ \A w \in Workers :
               /\ request[w].pc \in {"idle", "register", "heartbeat", "metrics", "logs", "save"}
               /\ request[w].payload \in Reports \cup BOOLEAN \cup {NULL}
               /\ {request[w].loaded, request[w].device} \subseteq Device \cup {NULL}

\* The status and the time in the row are those of the last heartbeat, whatever
\* registrations of the device were served at the same time; before the first
\* heartbeat the device is offline.  (Heartbeats themselves come one by one.)
StatusIsOfLastHeartbeat ==
    devices # NULL =>
        /\ heard = NULL => devices.status = "offline" /\ devices.last_heartbeat_at = NULL
        /\ heard # NULL =>
             /\ devices.last_heartbeat_at = heard.at
             /\ devices.status = IF heard.error THEN "error" ELSE "online"

\* The time of the last heartbeat never goes back, and is never forgotten.
HeartbeatsAdvance ==
    [][devices # NULL /\ devices.last_heartbeat_at # NULL =>
         /\ devices'.last_heartbeat_at # NULL
         /\ devices'.last_heartbeat_at >= devices.last_heartbeat_at]_vars

\* Whenever no request is under way, the status in the row is the one that
\* docs/device-protocol.md derives from the age of the heartbeat.
StatusFollowsHeartbeat ==
    devices # NULL /\ devices.status # "error" /\ (\A w \in Workers : request[w] = Idle)
        => devices.status = derive_device_status(devices.last_heartbeat_at, FALSE)
=============================================================================
