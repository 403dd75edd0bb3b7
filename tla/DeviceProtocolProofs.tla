------------------------ MODULE DeviceProtocolProofs ------------------------
(***************************************************************************)
(* Proofs about DeviceProtocol for every set of workers, every clock and   *)
(* all limits: what requests of one device that overlap leave in its row,  *)
(* if its agent sends one heartbeat at a time; and, without that, the      *)
(* types, and what keeps the time of the last heartbeat from going back.   *)
(***************************************************************************)
EXTENDS DeviceProtocol, TLAPS

Payloads == Reports \cup BOOLEAN \cup {NULL}
Rows == Device \cup {NULL}
Request == [pc : {"idle", "register", "heartbeat", "metrics", "logs", "save"},
            payload : Payloads, loaded : Rows, device : Rows]

Types == /\ now \in Time
         /\ devices \in Rows
         /\ heard \in Heard \cup {NULL}
         /\ request \in [Workers -> Request]

\* The columns that only heartbeats write.
Beats(row, other) == /\ row.status = other.status
                     /\ row.last_heartbeat_at = other.last_heartbeat_at

Status(error) == IF error THEN "error" ELSE "online"

\* What a request knows of the row: a registration saves the columns of a heartbeat
\* as it loaded them; those that a heartbeat loaded are still in the row.
Registers(r) == /\ r.payload \in Reports
                /\ r.loaded # NULL => devices # NULL
                /\ r.pc = "register" => r.device = r.loaded
                /\ r.pc = "save" => /\ r.loaded # NULL /\ r.device # NULL
                                    /\ Beats(r.device, r.loaded)
HeartBeats(r) == /\ r.payload \in BOOLEAN
                 /\ r.loaded # NULL /\ r.device # NULL /\ devices # NULL
                 /\ Beats(devices, r.loaded)
                 /\ r.pc = "heartbeat" => r.device = r.loaded
                 /\ r.pc = "save" =>
                      /\ r.device.last_heartbeat_at \in 0 .. now
                      /\ devices.last_heartbeat_at # NULL =>
                           devices.last_heartbeat_at <= r.device.last_heartbeat_at
                      /\ r.device.status = Status(r.payload)
Knows(r) == /\ r.pc = "register" => Registers(r)
            /\ r.pc = "heartbeat" => HeartBeats(r)
            /\ r.pc = "save" => Registers(r) \/ HeartBeats(r)
            /\ r.pc \in {"idle", "metrics", "logs"} => r.payload = NULL

\* The row's time is not in the future, and nothing was heard of a device that is
\* not there.
RowIsPast == /\ devices = NULL => heard = NULL
             /\ devices # NULL /\ devices.last_heartbeat_at # NULL =>
                  devices.last_heartbeat_at <= now

OneHeartbeat == \A v, w \in Beating : v = w

\* The inductive invariant.
Inv == /\ Types /\ OneHeartbeat /\ RowIsPast /\ StatusIsOfLastHeartbeat
       /\ \A w \in Workers : Knows(request[w])

-----------------------------------------------------------------------------
\* A save writes the columns that the request changed, and leaves the others.
LEMMA WriteFacts ==
    ASSUME NEW row \in Device, NEW loaded \in Device, NEW device \in Device
    PROVE  /\ Write(row, loaded, device) \in Device
           /\ Beats(device, loaded) => Beats(Write(row, loaded, device), row)
           /\ Beats(row, loaded) => Beats(Write(row, loaded, device), device)
           /\ Write(row, loaded, device).last_heartbeat_at =
                IF device.last_heartbeat_at # loaded.last_heartbeat_at
                  THEN device.last_heartbeat_at ELSE row.last_heartbeat_at
<1> DEFINE written == Write(row, loaded, device)
<1>1. DOMAIN row = {"status", "last_heartbeat_at", "report"}
  BY DEF Device
<1>2. written = [column \in {"status", "last_heartbeat_at", "report"} |->
                   IF device[column] # loaded[column] THEN device[column] ELSE row[column]]
  BY <1>1 DEF Write
<1>3. /\ written.status = IF device.status # loaded.status THEN device.status ELSE row.status
      /\ written.last_heartbeat_at =
           IF device.last_heartbeat_at # loaded.last_heartbeat_at
             THEN device.last_heartbeat_at ELSE row.last_heartbeat_at
      /\ written.report = IF device.report # loaded.report THEN device.report ELSE row.report
  BY <1>2
<1>4. written = [status |-> written.status, report |-> written.report,
                 last_heartbeat_at |-> written.last_heartbeat_at]
  BY <1>2
<1>5. /\ written.status \in Statuses /\ written.report \in Reports
      /\ written.last_heartbeat_at \in Time \cup {NULL}
  BY <1>3 DEF Device
<1>6. written \in Device
  <2> HIDE DEF written
  <2> QED
    BY <1>4, <1>5 DEF Device
<1> QED
  BY <1>3, <1>6 DEF Beats

LEMMA InitInv == Init => Inv
<1> SUFFICES ASSUME Init PROVE Inv
  OBVIOUS
<1>1. Idle \in Request /\ Idle.pc = "idle" /\ Idle.payload = NULL
  BY DEF Idle, Request, Payloads, Rows
<1>2. Types
  BY <1>1, DeviceAssumption DEF Init, Types, Time, Rows
<1>3. Beating = {}
  BY <1>1, DeviceAssumption DEF Init, Beating
<1>4. \A w \in Workers : Knows(request[w])
  BY <1>1 DEF Init, Knows
<1> QED
  BY <1>2, <1>3, <1>4 DEF Inv, OneHeartbeat, RowIsPast, StatusIsOfLastHeartbeat, Init

\* A step moves one request.
LEMMA Moves ==
    ASSUME Types, NEW w \in Workers, NEW r \in Request, Set(w, r)
    PROVE  /\ request' \in [Workers -> Request]
           /\ request'[w] = r
           /\ \A v \in Workers \ {w} : request'[v] = request[v]
BY DEF Types, Set

\* A step that leaves the row alone keeps the invariant if the request knows the row,
\* and is no second heartbeat.
LEMMA InsideInv ==
    ASSUME Inv, NEW w \in Workers, NEW r \in Request, Set(w, r),
           UNCHANGED <<now, devices, heard>>, Knows(r),
           r.payload \in BOOLEAN => request[w].payload \in BOOLEAN \/ Beating = {}
    PROVE  Inv'
<1>1. /\ request' \in [Workers -> Request]
      /\ request'[w] = r
      /\ \A v \in Workers \ {w} : request'[v] = request[v]
  BY Moves DEF Inv
<1>2. Types'
  BY <1>1 DEF Inv, Types
<1>3. Beating' \subseteq Beating \/ (Beating = {} /\ Beating' \subseteq {w})
  BY <1>1 DEF Beating
<1>4. OneHeartbeat'
  BY <1>3 DEF Inv, OneHeartbeat
<1>5. (RowIsPast /\ StatusIsOfLastHeartbeat)'
  BY DEF Inv, RowIsPast, StatusIsOfLastHeartbeat
<1>6. ASSUME NEW v \in Workers PROVE Knows(request[v])'
  <2>1. Knows(request'[v])
    BY <1>1 DEF Inv
  <2> QED
    BY <2>1 DEF Knows, Registers, HeartBeats
<1> QED
  BY <1>2, <1>4, <1>5, <1>6 DEF Inv

\* What a request that a worker takes up looks like.
LEMMA LoadInv ==
    ASSUME Inv, NEW w \in Workers,
           NEW pc \in {"register", "heartbeat", "metrics", "logs"}, NEW payload \in Payloads,
           Load(w, pc, payload),
           pc = "register" => payload \in Reports,
           pc = "heartbeat" => payload \in BOOLEAN /\ devices # NULL /\ Beating = {},
           pc \in {"metrics", "logs"} => payload = NULL
    PROVE  Inv'
<1> DEFINE r == [pc |-> pc, payload |-> payload, loaded |-> devices, device |-> devices]
<1>1. r \in Request
  BY DEF Inv, Types, Request
<1>2. Knows(r)
  BY DEF Knows, Registers, HeartBeats, Beats
<1>3. payload \in BOOLEAN => Beating = {}
  BY DeviceAssumption
<1>4. Set(w, r) /\ UNCHANGED <<now, devices, heard>>
  BY DEF Load
<1>5. r.payload = payload
  OBVIOUS
<1> HIDE DEF r
<1> QED
  BY <1>1, <1>2, <1>3, <1>4, <1>5, InsideInv

\* A request that ends without a word to the row.
LEMMA EndInv ==
    ASSUME Inv, NEW w \in Workers, Set(w, Idle), UNCHANGED <<now, devices, heard>>
    PROVE  Inv'
<1>1. Idle \in Request /\ Idle.pc = "idle" /\ Idle.payload = NULL
  BY DEF Idle, Request, Payloads, Rows
<1>2. Knows(Idle) /\ Idle.payload \notin BOOLEAN
  BY <1>1, DeviceAssumption DEF Knows
<1> HIDE DEF Idle
<1> QED
  BY <1>1, <1>2, InsideInv

\* A step that writes the row and ends its request: the other requests know it still if
\* what heartbeats write is as it was, or if the request was the one heartbeat.
LEMMA WriteInv ==
    ASSUME Inv, NEW w \in Workers, Set(w, Idle), now' = now, devices' \in Device,
           heard' \in Heard \cup {NULL},
           RowIsPast', StatusIsOfLastHeartbeat',
           (devices # NULL /\ Beats(devices', devices)) \/ Beating \subseteq {w}
    PROVE  Inv'
<1>1. /\ request' \in [Workers -> Request]
      /\ request'[w] = Idle
      /\ \A v \in Workers \ {w} : request'[v] = request[v]
  <2>1. Idle \in Request
    BY DEF Idle, Request, Payloads, Rows
  <2> QED
    BY <2>1, Moves DEF Inv
<1>2. Idle.pc = "idle" /\ Idle.payload = NULL
  BY DEF Idle
<1>3. devices' # NULL
  BY NoDevice
<1>4. Types'
  BY <1>1 DEF Inv, Types, Rows, Time
<1>5. Beating' \subseteq Beating \ {w}
  BY <1>1, <1>2, DeviceAssumption DEF Beating
<1>6. OneHeartbeat'
  BY <1>5 DEF Inv, OneHeartbeat
<1>7. ASSUME NEW v \in Workers PROVE Knows(request[v])'
  <2>1. CASE v = w
    BY <2>1, <1>1, <1>2 DEF Knows
  <2>2. CASE v # w
    <3>1. request'[v] = request[v] /\ Knows(request[v])
      BY <1>1, <2>2 DEF Inv
    <3>2. Registers(request[v]) => Registers(request[v])'
      BY <3>1, <1>3 DEF Registers
    <3>3. HeartBeats(request[v]) => HeartBeats(request[v])'
      <4>1. CASE Beating \subseteq {w}
        BY <4>1, <2>2 DEF HeartBeats, Beating
      <4>2. CASE devices # NULL /\ Beats(devices', devices)
        BY <4>2, <3>1, <1>3 DEF HeartBeats, Beats
      <4> QED
        BY <4>1, <4>2
    <3> QED
      BY <3>1, <3>2, <3>3 DEF Knows
  <2> QED
    BY <2>1, <2>2
<1> QED
  BY <1>4, <1>6, <1>7 DEF Inv

LEMMA CreateInv ==
    ASSUME Inv, NEW w \in Workers, Create(w)
    PROVE  Inv'
<1>1. CASE devices # NULL
  BY <1>1, EndInv DEF Create
<1>2. CASE devices = NULL
  <2> DEFINE row == [status |-> "offline", last_heartbeat_at |-> NULL,
                     report |-> request[w].payload]
  <2>1. request[w].payload \in Reports
    BY DEF Inv, Knows, Registers, Create
  <2>2. devices' = row /\ heard' = heard /\ now' = now /\ Set(w, Idle)
    BY <1>2 DEF Create
  <2>3. row \in Device /\ row.status = "offline" /\ row.last_heartbeat_at = NULL
    BY <2>1 DEF Device, Statuses
  <2>4. heard = NULL
    BY <1>2 DEF Inv, RowIsPast
  <2>5. Beating = {}
    BY <1>2, DeviceAssumption DEF Inv, Knows, Registers, HeartBeats, Beating, Types, Request
  <2> HIDE DEF row
  <2>6. RowIsPast' /\ StatusIsOfLastHeartbeat'
    BY <2>2, <2>3, <2>4, NoDevice DEF RowIsPast, StatusIsOfLastHeartbeat
  <2> QED
    BY <2>2, <2>3, <2>4, <2>5, <2>6, WriteInv
<1> QED
  BY <1>1, <1>2

LEMMA UpdateInv ==
    ASSUME Inv, NEW w \in Workers, Update(w)
    PROVE  Inv'
<1> DEFINE q == request[w]
           r == [q EXCEPT !.pc = "save", !.device.report = q.payload]
<1>1. /\ q \in Request /\ q.payload \in Reports
      /\ q.loaded # NULL /\ q.loaded \in Device /\ q.device = q.loaded /\ devices # NULL
  BY DEF Inv, Types, Knows, Registers, Update, Request, Rows
<1>2. /\ r.pc = "save" /\ r.payload = q.payload /\ r.loaded = q.loaded
      /\ r.device = [q.device EXCEPT !.report = q.payload]
  BY <1>1 DEF Request
<1>3. r.device \in Device /\ Beats(r.device, r.loaded)
  BY <1>1, <1>2 DEF Device, Beats
<1>4. r \in Request
  BY <1>1, <1>3 DEF Request, Rows
<1>5. Set(w, r) /\ UNCHANGED <<now, devices, heard>>
  BY DEF Update
<1> HIDE DEF r
<1>6. Knows(r)
  BY <1>1, <1>2, <1>3, NoDevice DEF Knows, Registers
<1>7. r.payload \notin BOOLEAN
  BY <1>1, <1>2, DeviceAssumption
<1> QED
  BY <1>4, <1>5, <1>6, <1>7, InsideInv

LEMMA BeatInv ==
    ASSUME Inv, NEW w \in Workers, Beat(w)
    PROVE  Inv'
<1> DEFINE q == request[w]
           status == derive_device_status(now, q.payload)
           r == [q EXCEPT !.pc = "save", !.device.last_heartbeat_at = now,
                          !.device.status = status]
<1>1. /\ q \in Request /\ q.payload \in BOOLEAN /\ devices # NULL
      /\ q.loaded # NULL /\ q.loaded \in Device /\ q.device = q.loaded
      /\ Beats(devices, q.loaded)
  BY DEF Inv, Types, Knows, HeartBeats, Beat, Request, Rows
<1>2. now \in Time /\ now - now = 0 /\ 0 <= HEARTBEAT_TIMEOUT_SECONDS /\ now # NULL
  BY DeviceAssumption DEF Inv, Types, Time
<1>3. status = Status(q.payload)
  BY <1>2 DEF derive_device_status, Status
<1>4. status \in Statuses
  BY <1>3 DEF Status, Statuses
<1> HIDE DEF status
<1>5. /\ r.pc = "save" /\ r.payload = q.payload /\ r.loaded = q.loaded
      /\ r.device = [q.device EXCEPT !.last_heartbeat_at = now, !.status = status]
  BY <1>1 DEF Request, Device
<1>6. /\ r.device \in Device
      /\ r.device.last_heartbeat_at = now /\ r.device.status = status
  <2>1. q.device \in Device /\ now \in Time \cup {NULL} /\ status \in Statuses
    BY <1>1, <1>2, <1>4
  <2> HIDE DEF q, r
  <2> QED
    BY <2>1, <1>5 DEF Device
<1>7. r \in Request
  BY <1>1, <1>6 DEF Request, Rows
<1>8. Set(w, r) /\ UNCHANGED <<now, devices, heard>>
  BY DEF Beat, status
<1> HIDE DEF r
<1>9. HeartBeats(r)
  <2>1. devices.last_heartbeat_at # NULL => devices.last_heartbeat_at <= now
    BY <1>1 DEF Inv, RowIsPast
  <2>2. now \in 0 .. now
    BY <1>2, DeviceAssumption DEF Time
  <2> QED
    BY <2>1, <2>2, <1>1, <1>3, <1>5, <1>6, NoDevice DEF HeartBeats
<1>10. Knows(r)
  BY <1>5, <1>9 DEF Knows
<1> QED
  BY <1>1, <1>7, <1>8, <1>10, InsideInv

\* A save is a registration's, which leaves what heartbeats write, or the heartbeat's.
LEMMA SaveInv ==
    ASSUME Inv, NEW w \in Workers, Save(w)
    PROVE  /\ Inv'
           /\ devices # NULL
           /\ devices.last_heartbeat_at # NULL =>
                /\ devices'.last_heartbeat_at # NULL
                /\ devices'.last_heartbeat_at >= devices.last_heartbeat_at
<1> DEFINE r == request[w]
<1>1. /\ r \in Request /\ devices \in Rows
      /\ Set(w, Idle) /\ now' = now /\ devices' = Write(devices, r.loaded, r.device)
      /\ heard' = IF r.payload \in BOOLEAN
                    THEN [at |-> r.device.last_heartbeat_at, error |-> r.payload] ELSE heard
  BY DEF Inv, Types, Save
<1>2. r.pc = "save" /\ (Registers(r) \/ HeartBeats(r))
  BY DEF Inv, Knows, Save
<1> HIDE DEF r
<1>3. CASE Registers(r)
  <2>1. /\ devices \in Device /\ r.loaded \in Device /\ r.device \in Device
        /\ Beats(r.device, r.loaded) /\ r.payload \notin BOOLEAN /\ devices # NULL
    BY <1>1, <1>2, <1>3, DeviceAssumption DEF Registers, Request, Rows
  <2>2. devices' \in Device /\ Beats(devices', devices) /\ heard' = heard
    BY <1>1, <2>1, WriteFacts
  <2>3. RowIsPast' /\ StatusIsOfLastHeartbeat'
    BY <1>1, <2>1, <2>2, NoDevice DEF Inv, RowIsPast, StatusIsOfLastHeartbeat, Beats
  <2>4. Inv'
    BY <1>1, <2>1, <2>2, <2>3, WriteInv DEF Inv, Types
  <2>5. devices.last_heartbeat_at # NULL => devices.last_heartbeat_at \in Nat
    BY <2>1, DeviceAssumption DEF Device, Time
  <2> QED
    BY <2>1, <2>2, <2>4, <2>5 DEF Beats
<1>4. CASE HeartBeats(r)
  <2>1. /\ devices \in Device /\ r.loaded \in Device /\ r.device \in Device
        /\ Beats(devices, r.loaded) /\ r.payload \in BOOLEAN /\ devices # NULL
    BY <1>1, <1>4 DEF HeartBeats, Request, Rows
  <2>2. devices' \in Device /\ Beats(devices', r.device)
    BY <1>1, <2>1, WriteFacts
  <2>3. /\ r.device.last_heartbeat_at \in 0 .. now /\ r.device.last_heartbeat_at # NULL
        /\ r.device.status = Status(r.payload)
        /\ heard' = [at |-> r.device.last_heartbeat_at, error |-> r.payload]
    BY <1>1, <1>2, <1>4, <2>1, DeviceAssumption DEF HeartBeats, Inv, Types, Time
  <2>4. heard' \in Heard /\ heard' # NULL
    BY <2>1, <2>3, NothingHeard, DeviceAssumption DEF Inv, Types, Time, Heard
  <2>5. RowIsPast' /\ StatusIsOfLastHeartbeat'
    BY <1>1, <2>2, <2>3, <2>4, NoDevice DEF RowIsPast, StatusIsOfLastHeartbeat, Beats, Status
  <2>6. Beating \subseteq {w}
    BY <2>1 DEF Inv, OneHeartbeat, Beating, r
  <2>7. Inv'
    BY <1>1, <2>2, <2>4, <2>5, <2>6, WriteInv
  <2>8. devices.last_heartbeat_at # NULL =>
          /\ devices.last_heartbeat_at \in Nat /\ r.device.last_heartbeat_at \in Nat
          /\ devices.last_heartbeat_at <= r.device.last_heartbeat_at
    BY <1>2, <1>4, <2>1, <2>3, DeviceAssumption DEF Device, Time, HeartBeats
  <2> QED
    BY <2>1, <2>2, <2>3, <2>7, <2>8 DEF Beats
<1> QED
  BY <1>2, <1>3, <1>4

LEMMA TickInv ==
    ASSUME Inv, Tick
    PROVE  Inv'
<1>1. /\ now \in Nat /\ now' = now + 1 /\ now' \in Time
      /\ UNCHANGED <<devices, request, heard>>
  BY DeviceAssumption DEF Inv, Types, Tick, Time
<1>2. Types' /\ OneHeartbeat'
  BY <1>1 DEF Inv, Types, OneHeartbeat, Beating
<1>3. RowIsPast'
  BY <1>1, DeviceAssumption DEF Inv, Types, RowIsPast, Rows, Device, Time
<1>4. StatusIsOfLastHeartbeat'
  BY <1>1 DEF Inv, StatusIsOfLastHeartbeat
<1>5. ASSUME NEW w \in Workers PROVE Knows(request[w])'
  <2> DEFINE r == request[w]
  <2>1. r' = r /\ Knows(r)
    BY <1>1 DEF Inv
  <2>2. Registers(r) => Registers(r)'
    BY <1>1, <2>1 DEF Registers
  <2>3. HeartBeats(r) => HeartBeats(r)'
    BY <1>1, <2>1 DEF HeartBeats
  <2> QED
    BY <2>1, <2>2, <2>3 DEF Knows
<1> QED
  BY <1>2, <1>3, <1>4, <1>5 DEF Inv

\* Every step keeps the invariant, if heartbeats do not overlap, and the time of the
\* last one with it.
LEMMA NextInv ==
    ASSUME ~Retries, Inv, [Next]_vars
    PROVE  /\ Inv'
           /\ devices # NULL /\ devices.last_heartbeat_at # NULL =>
                /\ devices'.last_heartbeat_at # NULL
                /\ devices'.last_heartbeat_at >= devices.last_heartbeat_at
<1> DEFINE Advances == devices # NULL /\ devices.last_heartbeat_at # NULL =>
                         /\ devices'.last_heartbeat_at # NULL
                         /\ devices'.last_heartbeat_at >= devices.last_heartbeat_at
<1>1. devices' = devices => Advances
  BY DeviceAssumption DEF Inv, Types, Rows, Device, Time
<1>2. CASE UNCHANGED vars
  <2>1. \A w \in Workers : Knows(request[w])'
    BY <1>2 DEF Inv, vars, Knows, Registers, HeartBeats
  <2> QED
    BY <1>1, <1>2, <2>1 DEF vars, Inv, Types, OneHeartbeat, Beating, RowIsPast,
                            StatusIsOfLastHeartbeat
<1>3. CASE Tick
  BY <1>1, <1>3, TickInv DEF Tick
<1>4. ASSUME NEW w \in Workers, LoadForRegister(w) PROVE Inv' /\ Advances
  <2>1. PICK report \in Reports : Load(w, "register", report)
    BY <1>4 DEF LoadForRegister
  <2>2. Inv'
    BY <2>1, LoadInv DEF Payloads
  <2> QED
    BY <1>1, <2>1, <2>2 DEF Load
<1>5. ASSUME NEW w \in Workers, LoadForHeartbeat(w) PROVE Inv' /\ Advances
  <2>1. devices # NULL /\ Beating = {}
    BY <1>5 DEF LoadForHeartbeat
  <2>2. PICK has_error \in BOOLEAN : Load(w, "heartbeat", has_error)
    BY <1>5 DEF LoadForHeartbeat
  <2>3. Inv'
    BY <2>1, <2>2, LoadInv DEF Payloads
  <2> QED
    BY <1>1, <2>2, <2>3 DEF Load
<1>6. ASSUME NEW w \in Workers, LoadForPush(w) PROVE Inv' /\ Advances
  <2>1. PICK pc \in {"metrics", "logs"} : Load(w, pc, NULL)
    BY <1>6 DEF LoadForPush
  <2>2. Inv'
    BY <2>1, LoadInv DEF Payloads
  <2> QED
    BY <1>1, <2>1, <2>2 DEF Load
<1>7. ASSUME NEW w \in Workers, Create(w) PROVE Inv' /\ Advances
  BY <1>1, <1>7, CreateInv DEF Create
<1>8. ASSUME NEW w \in Workers, Update(w) \/ Beat(w) PROVE Inv' /\ Advances
  BY <1>1, <1>8, UpdateInv, BeatInv DEF Update, Beat
<1>9. ASSUME NEW w \in Workers, Save(w) PROVE Inv' /\ Advances
  BY <1>9, SaveInv
<1>10. ASSUME NEW w \in Workers, add_metric(w) \/ add_log(w) \/ Die(w) PROVE Inv' /\ Advances
  BY <1>1, <1>10, EndInv DEF add_metric, add_log, Die
<1> QED
  BY <1>2, <1>3, <1>4, <1>5, <1>6, <1>7, <1>8, <1>9, <1>10 DEF Next

-----------------------------------------------------------------------------
\* Whatever registrations and pushes of a device overlap with its heartbeats, and
\* whichever requests die, the row tells the last heartbeat that was saved.
THEOREM StatusIsKept ==
    ASSUME ~Retries
    PROVE  Spec => []StatusIsOfLastHeartbeat
<1>1. Inv => StatusIsOfLastHeartbeat
  BY DEF Inv
<1>2. Inv /\ [Next]_vars => Inv'
  BY NextInv
<1> QED
  BY InitInv, <1>1, <1>2, PTL DEF Spec

\* No registration takes a heartbeat back.
THEOREM HeartbeatsOnlyAdvance ==
    ASSUME ~Retries
    PROVE  Spec => HeartbeatsAdvance
<1> DEFINE Advances == devices # NULL /\ devices.last_heartbeat_at # NULL =>
                         /\ devices'.last_heartbeat_at # NULL
                         /\ devices'.last_heartbeat_at >= devices.last_heartbeat_at
<1>1. Inv /\ [Next]_vars => Inv' /\ [Advances]_vars
  BY NextInv
<1> QED
  BY InitInv, <1>1, PTL DEF Spec, HeartbeatsAdvance
-----------------------------------------------------------------------------
(* The types, with heartbeats that overlap as well.                         *)

\* What a request has loaded it can change and save: the row is never deleted.
Served(r) == /\ r.pc = "register" => r.payload \in Reports
             /\ r.pc = "heartbeat" => r.payload \in BOOLEAN
             /\ r.pc \in {"heartbeat", "metrics", "logs", "save"} => r.loaded # NULL
             /\ r.loaded # NULL => r.device # NULL /\ devices # NULL
             /\ r.pc = "save" /\ r.payload \in BOOLEAN =>
                  r.device.last_heartbeat_at \in Time

Pushed == /\ device_metrics \in 0 .. MaxRows /\ device_logs \in 0 .. MaxRows
          /\ devices = NULL => device_metrics = 0 /\ device_logs = 0

TypeInv == Types /\ Pushed /\ \A w \in Workers : Served(request[w])

LEMMA InitTypeInv == Init => TypeInv
<1> SUFFICES ASSUME Init PROVE TypeInv
  OBVIOUS
<1>1. Types
  BY InitInv DEF Inv
<1>2. \A w \in Workers : Served(request[w])
  BY DEF Init, Idle, Served
<1> QED
  BY <1>1, <1>2, DeviceAssumption DEF Init, Pushed, TypeInv

\* A step of worker w: what it makes of its request, and of the row, has its type, and
\* the row remains.
LEMMA TypedStep ==
    ASSUME TypeInv, NEW w \in Workers, NEW r \in Request, Set(w, r), now' = now,
           devices' \in Rows, devices # NULL => devices' # NULL,
           heard' \in Heard \cup {NULL}, Pushed', Served(r)
    PROVE  TypeInv'
<1>1. /\ request' \in [Workers -> Request]
      /\ request'[w] = r
      /\ \A v \in Workers \ {w} : request'[v] = request[v]
  BY Moves DEF TypeInv
<1>2. Types'
  BY <1>1 DEF TypeInv, Types, Rows, Time
<1>3. ASSUME NEW v \in Workers PROVE Served(request[v])'
  <2>1. CASE v = w
    BY <1>1, <2>1 DEF Served
  <2>2. CASE v # w
    <3>1. request'[v] = request[v] /\ Served(request[v])
      BY <1>1, <2>2 DEF TypeInv
    <3> QED
      BY <3>1 DEF Served, Time
  <2> QED
    BY <2>1, <2>2
<1> QED
  BY <1>2, <1>3 DEF TypeInv

LEMMA LoadTypes ==
    ASSUME TypeInv, NEW w \in Workers,
           NEW pc \in {"register", "heartbeat", "metrics", "logs"}, NEW payload \in Payloads,
           Load(w, pc, payload),
           pc = "register" => payload \in Reports,
           pc = "heartbeat" => payload \in BOOLEAN,
           pc # "register" => devices # NULL
    PROVE  TypeInv'
<1> DEFINE r == [pc |-> pc, payload |-> payload, loaded |-> devices, device |-> devices]
<1>1. r \in Request
  BY DEF TypeInv, Types, Request
<1>2. Set(w, r) /\ UNCHANGED <<now, devices, device_metrics, device_logs, heard>>
  BY DEF Load, pushed
<1>3. Served(r)
  BY <1>2 DEF Served
<1> HIDE DEF r
<1>4. devices' \in Rows /\ heard' \in Heard \cup {NULL} /\ Pushed'
  BY <1>2 DEF TypeInv, Types, Pushed, Rows
<1> QED
  BY <1>1, <1>2, <1>3, <1>4, TypedStep

LEMMA EndTypes ==
    ASSUME TypeInv, NEW w \in Workers, Set(w, Idle), now' = now,
           devices' \in Rows, devices # NULL => devices' # NULL,
           heard' \in Heard \cup {NULL}, Pushed'
    PROVE  TypeInv'
<1>1. Idle \in Request /\ Served(Idle)
  BY DEF Idle, Request, Payloads, Rows, Served
<1> HIDE DEF Idle
<1> QED
  BY <1>1, TypedStep

LEMMA UpdateTypes ==
    ASSUME TypeInv, NEW w \in Workers, Update(w)
    PROVE  TypeInv'
<1> DEFINE q == request[w]
           r == [q EXCEPT !.pc = "save", !.device.report = q.payload]
<1>1. /\ q \in Request /\ q.payload \in Reports /\ q.loaded # NULL /\ devices # NULL
      /\ q.device \in Device
  BY DEF TypeInv, Types, Served, Update, Request, Rows
<1>2. /\ r.pc = "save" /\ r.payload = q.payload /\ r.loaded = q.loaded
      /\ r.device = [q.device EXCEPT !.report = q.payload]
  BY <1>1 DEF Request
<1>3. r.device \in Device
  BY <1>1, <1>2 DEF Device
<1>4. r \in Request
  BY <1>1, <1>3 DEF Request, Rows
<1>5. Set(w, r) /\ UNCHANGED <<now, devices, device_metrics, device_logs, heard>>
  BY DEF Update, pushed
<1> HIDE DEF r
<1>6. Served(r)
  BY <1>1, <1>2, <1>3, <1>5, NoDevice, DeviceAssumption DEF Served
<1>7. devices' \in Rows /\ heard' \in Heard \cup {NULL} /\ Pushed'
  BY <1>5 DEF TypeInv, Types, Pushed, Rows
<1> QED
  BY <1>4, <1>5, <1>6, <1>7, TypedStep

LEMMA BeatTypes ==
    ASSUME TypeInv, NEW w \in Workers, Beat(w)
    PROVE  TypeInv'
<1> DEFINE q == request[w]
           status == derive_device_status(now, q.payload)
           r == [q EXCEPT !.pc = "save", !.device.last_heartbeat_at = now,
                          !.device.status = status]
<1>1. q \in Request /\ q.loaded # NULL /\ devices # NULL /\ q.device \in Device
  BY DEF TypeInv, Types, Served, Beat, Request, Rows
<1>2. status \in Statuses /\ now \in Time
  BY DEF derive_device_status, Statuses, TypeInv, Types
<1> HIDE DEF status
<1>3. /\ r.pc = "save" /\ r.payload = q.payload /\ r.loaded = q.loaded
      /\ r.device = [q.device EXCEPT !.last_heartbeat_at = now, !.status = status]
  BY <1>1 DEF Request, Device
<1>4. r.device \in Device /\ r.device.last_heartbeat_at = now
  <2>1. q.device \in Device /\ now \in Time \cup {NULL} /\ status \in Statuses
    BY <1>1, <1>2
  <2> HIDE DEF q, r
  <2> QED
    BY <2>1, <1>3 DEF Device
<1>5. r \in Request
  BY <1>1, <1>4 DEF Request, Rows
<1>6. Set(w, r) /\ UNCHANGED <<now, devices, device_metrics, device_logs, heard>>
  BY DEF Beat, status, pushed
<1> HIDE DEF r
<1>7. Served(r)
  BY <1>1, <1>2, <1>3, <1>4, <1>6, NoDevice DEF Served, Time
<1>8. devices' \in Rows /\ heard' \in Heard \cup {NULL} /\ Pushed'
  BY <1>6 DEF TypeInv, Types, Pushed, Rows
<1> QED
  BY <1>1, <1>5, <1>6, <1>7, <1>8, TypedStep

LEMMA CreateTypes ==
    ASSUME TypeInv, NEW w \in Workers, Create(w)
    PROVE  TypeInv'
<1>1. /\ Set(w, Idle) /\ UNCHANGED <<now, pushed, heard>>
      /\ heard' \in Heard \cup {NULL}
  BY DEF Create, TypeInv, Types
<1>2. devices' \in Rows /\ devices' # NULL
  <2>1. CASE devices # NULL
    BY <2>1 DEF Create, TypeInv, Types, Rows
  <2>2. CASE devices = NULL
    <3>1. request[w].payload \in Reports
      BY DEF TypeInv, Served, Create
    <3>2. devices' \in Device
      BY <2>2, <3>1 DEF Create, Device, Statuses
    <3> QED
      BY <3>2, NoDevice DEF Rows
  <2> QED
    BY <2>1, <2>2
<1>3. Pushed'
  BY <1>1, <1>2 DEF TypeInv, Pushed, pushed
<1> QED
  BY <1>1, <1>2, <1>3, EndTypes

LEMMA SaveTypes ==
    ASSUME TypeInv, NEW w \in Workers, Save(w)
    PROVE  TypeInv'
<1> DEFINE r == request[w]
<1>1. /\ Set(w, Idle) /\ UNCHANGED <<now, pushed>>
      /\ devices' = Write(devices, r.loaded, r.device)
      /\ heard' = IF r.payload \in BOOLEAN
                    THEN [at |-> r.device.last_heartbeat_at, error |-> r.payload] ELSE heard
  BY DEF Save
<1>2. /\ devices \in Device /\ r.loaded \in Device /\ r.device \in Device
      /\ r.payload \in BOOLEAN => r.device.last_heartbeat_at \in Time
  BY DEF TypeInv, Types, Served, Save, Request, Rows
<1> HIDE DEF r
<1>3. devices' \in Rows /\ devices' # NULL
  BY <1>1, <1>2, WriteFacts, NoDevice DEF Rows
<1>4. heard' \in Heard \cup {NULL}
  BY <1>1, <1>2 DEF Heard, TypeInv, Types
<1>5. Pushed'
  BY <1>1, <1>3 DEF TypeInv, Pushed, pushed
<1> QED
  BY <1>1, <1>3, <1>4, <1>5, EndTypes

\* A push finds its device still there.
LEMMA PushTypes ==
    ASSUME TypeInv, NEW w \in Workers, add_metric(w) \/ add_log(w) \/ Die(w)
    PROVE  TypeInv'
<1>1. Set(w, Idle) /\ UNCHANGED <<now, devices, heard>>
  BY DEF add_metric, add_log, Die
<1>2. devices' \in Rows /\ heard' \in Heard \cup {NULL}
  BY <1>1 DEF TypeInv, Types, Rows
<1>3. Pushed'
  <2>1. CASE add_metric(w) \/ add_log(w)
    <3>1. devices # NULL
      BY <2>1 DEF TypeInv, Served, add_metric, add_log
    <3> QED
      BY <1>1, <2>1, <3>1, DeviceAssumption DEF add_metric, add_log, TypeInv, Pushed
  <2>2. CASE Die(w)
    BY <2>2 DEF Die, TypeInv, Pushed, pushed
  <2> QED
    BY <2>1, <2>2
<1> QED
  BY <1>1, <1>2, <1>3, EndTypes

LEMMA NextTypeInv == TypeInv /\ [Next]_vars => TypeInv'
<1> SUFFICES ASSUME TypeInv, [Next]_vars PROVE TypeInv'
  OBVIOUS
<1>1. CASE UNCHANGED vars
  BY <1>1 DEF vars, pushed, TypeInv, Types, Pushed, Served
<1>2. CASE Tick
  <2>1. now' \in Time /\ UNCHANGED <<devices, pushed, request, heard>>
    BY <1>2, DeviceAssumption DEF Tick, TypeInv, Types, Time
  <2> QED
    BY <2>1 DEF TypeInv, Types, Pushed, pushed, Served
<1>3. ASSUME NEW w \in Workers,
             LoadForRegister(w) \/ LoadForHeartbeat(w) \/ LoadForPush(w)
      PROVE  TypeInv'
  <2>1. CASE LoadForRegister(w)
    BY <2>1, LoadTypes DEF LoadForRegister, Payloads
  <2>2. CASE LoadForHeartbeat(w)
    BY <2>2, LoadTypes DEF LoadForHeartbeat, Payloads
  <2>3. CASE LoadForPush(w)
    BY <2>3, LoadTypes DEF LoadForPush, Payloads
  <2> QED
    BY <1>3, <2>1, <2>2, <2>3
<1> QED
  BY <1>1, <1>2, <1>3, CreateTypes, UpdateTypes, BeatTypes, SaveTypes, PushTypes DEF Next

\* Every variable keeps its type, however requests and heartbeats overlap and die; a row
\* that was pushed refers to a device.
THEOREM DeviceTypes == Spec => []TypeOK
<1>1. TypeInv => TypeOK
  BY DEF TypeInv, Types, Pushed, TypeOK, Rows, Payloads, Request
<1> QED
  BY InitTypeInv, NextTypeInv, <1>1, PTL DEF Spec

-----------------------------------------------------------------------------
(* Heartbeats that overlap, saved at the time that they tell.               *)

\* What the theorem asks of the requests: no time passes between a heartbeat's reading
\* of the clock and its commit.  Time passes everywhere else in a request.
AtOnce == Tick => \A w \in Workers : request[w].pc = "save" => request[w].payload \notin BOOLEAN

\* A heartbeat is about to save the time that it is; any other request saves the one
\* that it loaded.
Punctual(r) ==
    /\ r.pc = "register" => r.device = r.loaded
    /\ r.pc = "save" => r.device.last_heartbeat_at = IF r.payload \in BOOLEAN
                                                       THEN now ELSE r.loaded.last_heartbeat_at

NotAhead == devices # NULL /\ devices.last_heartbeat_at # NULL => devices.last_heartbeat_at <= now

\* The inductive invariant, with TypeInv.
Timely == NotAhead /\ \A w \in Workers : Punctual(request[w])

\* What a step may do to the row.
Advances == devices # NULL /\ devices.last_heartbeat_at # NULL =>
              /\ devices'.last_heartbeat_at # NULL
              /\ devices'.last_heartbeat_at >= devices.last_heartbeat_at

LEMMA TimelyStep ==
    ASSUME TypeInv, Timely, NEW w \in Workers, NEW r \in Request, Set(w, r), now' = now,
           NotAhead', Punctual(r)
    PROVE  Timely'
<1>1. request'[w] = r /\ \A v \in Workers \ {w} : request'[v] = request[v]
  BY Moves DEF TypeInv
<1>2. \A v \in Workers : Punctual(request'[v])
  BY <1>1 DEF Timely
<1> QED
  BY <1>2 DEF Timely, Punctual

\* A row that stays does not go back.
LEMMA SameRow ==
    ASSUME TypeInv, Timely, UNCHANGED <<now, devices>>
    PROVE  NotAhead' /\ Advances
<1>1. devices # NULL /\ devices.last_heartbeat_at # NULL => devices.last_heartbeat_at \in Nat
  BY DeviceAssumption DEF TypeInv, Types, Rows, Device, Time
<1> QED
  BY <1>1 DEF Timely, NotAhead, Advances

LEMMA EndTimely ==
    ASSUME TypeInv, Timely, NEW w \in Workers, Set(w, Idle), now' = now, NotAhead'
    PROVE  Timely'
<1>1. Idle \in Request /\ Punctual(Idle)
  BY DEF Idle, Request, Payloads, Rows, Punctual
<1> HIDE DEF Idle
<1> QED
  BY <1>1, TimelyStep

LEMMA LoadTimely ==
    ASSUME TypeInv, Timely, NEW w \in Workers,
           LoadForRegister(w) \/ LoadForHeartbeat(w) \/ LoadForPush(w)
    PROVE  Timely' /\ Advances
<1>1. PICK pc \in {"register", "heartbeat", "metrics", "logs"}, payload \in Payloads :
        Load(w, pc, payload)
  BY DEF LoadForRegister, LoadForHeartbeat, LoadForPush, Payloads
<1> DEFINE r == [pc |-> pc, payload |-> payload, loaded |-> devices, device |-> devices]
<1>2. r \in Request
  BY DEF TypeInv, Types, Request
<1>3. Set(w, r) /\ UNCHANGED <<now, devices>>
  BY <1>1 DEF Load
<1>4. Punctual(r)
  BY DEF Punctual
<1> HIDE DEF r
<1> QED
  BY <1>2, <1>3, <1>4, SameRow, TimelyStep

LEMMA CreateTimely ==
    ASSUME TypeInv, Timely, NEW w \in Workers, Create(w)
    PROVE  Timely' /\ Advances
<1>1. Set(w, Idle) /\ now' = now
  BY DEF Create
<1>2. NotAhead' /\ Advances
  <2>1. CASE devices # NULL
    BY <1>1, <2>1, SameRow DEF Create
  <2>2. CASE devices = NULL
    BY <2>2 DEF Create, NotAhead, Advances
  <2> QED
    BY <2>1, <2>2
<1> QED
  BY <1>1, <1>2, EndTimely

LEMMA UpdateTimely ==
    ASSUME TypeInv, Timely, NEW w \in Workers, Update(w)
    PROVE  Timely' /\ Advances
<1> DEFINE q == request[w]
           r == [q EXCEPT !.pc = "save", !.device.report = q.payload]
<1>1. /\ q \in Request /\ q.payload \in Reports /\ q.payload \notin BOOLEAN
      /\ q.loaded \in Device /\ q.device = q.loaded
  BY DeviceAssumption DEF TypeInv, Types, Served, Update, Request, Rows, Timely, Punctual
<1>2. /\ r.pc = "save" /\ r.payload = q.payload /\ r.loaded = q.loaded
      /\ r.device = [q.device EXCEPT !.report = q.payload]
  BY <1>1 DEF Request
<1>3. r.device \in Device /\ r.device.last_heartbeat_at = q.device.last_heartbeat_at
  BY <1>1, <1>2 DEF Device
<1>4. r \in Request
  BY <1>1, <1>3 DEF Request, Rows
<1>5. Set(w, r) /\ UNCHANGED <<now, devices>>
  BY DEF Update
<1> HIDE DEF r
<1>6. Punctual(r)
  BY <1>1, <1>2, <1>3 DEF Punctual
<1> QED
  BY <1>4, <1>5, <1>6, SameRow, TimelyStep

LEMMA BeatTimely ==
    ASSUME TypeInv, Timely, NEW w \in Workers, Beat(w)
    PROVE  Timely' /\ Advances
<1> DEFINE q == request[w]
           status == derive_device_status(now, q.payload)
           r == [q EXCEPT !.pc = "save", !.device.last_heartbeat_at = now,
                          !.device.status = status]
<1>1. q \in Request /\ q.device \in Device /\ q.payload \in BOOLEAN
  BY DEF TypeInv, Types, Served, Beat, Request, Rows
<1>2. status \in Statuses /\ now \in Time
  BY DEF derive_device_status, Statuses, TypeInv, Types
<1> HIDE DEF status
<1>3. /\ r.pc = "save" /\ r.payload = q.payload /\ r.loaded = q.loaded
      /\ r.device = [q.device EXCEPT !.last_heartbeat_at = now, !.status = status]
  BY <1>1 DEF Request, Device
<1>4. r.device \in Device /\ r.device.last_heartbeat_at = now
  <2>1. q.device \in Device /\ now \in Time \cup {NULL} /\ status \in Statuses
    BY <1>1, <1>2
  <2> HIDE DEF q, r
  <2> QED
    BY <2>1, <1>3 DEF Device
<1>5. r \in Request
  BY <1>1, <1>4 DEF Request, Rows
<1>6. Set(w, r) /\ UNCHANGED <<now, devices>>
  BY DEF Beat, status
<1> HIDE DEF r
<1>7. Punctual(r)
  BY <1>1, <1>3, <1>4 DEF Punctual
<1> QED
  BY <1>5, <1>6, <1>7, SameRow, TimelyStep

\* The save writes the time that it is, or leaves the one of the row.
LEMMA SaveTimely ==
    ASSUME TypeInv, Timely, NEW w \in Workers, Save(w)
    PROVE  Timely' /\ Advances
<1> DEFINE r == request[w]
<1>1. Set(w, Idle) /\ now' = now /\ devices' = Write(devices, r.loaded, r.device)
  BY DEF Save
<1>2. devices \in Device /\ r.loaded \in Device /\ r.device \in Device
  BY DEF TypeInv, Types, Served, Save, Request, Rows
<1>3. r.device.last_heartbeat_at = now
      \/ r.device.last_heartbeat_at = r.loaded.last_heartbeat_at
  BY DEF Save, Timely, Punctual
<1> HIDE DEF r
<1>4. devices'.last_heartbeat_at \in {now, devices.last_heartbeat_at}
  BY <1>1, <1>2, <1>3, WriteFacts
<1>5. now \in Nat /\ NULL \notin Nat
      /\ devices.last_heartbeat_at \in Nat \cup {NULL}
  BY <1>2, DeviceAssumption DEF TypeInv, Types, Device, Time
<1>6. devices # NULL
  BY <1>2, NoDevice
<1>7. NotAhead' /\ Advances
  BY <1>1, <1>4, <1>5, <1>6 DEF Timely, NotAhead, Advances
<1> QED
  BY <1>1, <1>7, EndTimely

LEMMA NextTimely ==
    ASSUME TypeInv, Timely, [Next]_vars, [AtOnce]_vars
    PROVE  Timely' /\ [Advances]_vars
<1>1. CASE UNCHANGED vars
  BY <1>1 DEF vars, Timely, NotAhead, Punctual
<1>2. CASE Tick /\ AtOnce
  <2>1. now' = now + 1 /\ now \in Nat /\ UNCHANGED <<devices, request>>
    BY <1>2, DeviceAssumption DEF Tick, TypeInv, Types, Time
  <2>2. devices # NULL /\ devices.last_heartbeat_at # NULL => devices.last_heartbeat_at \in Nat
    BY DeviceAssumption DEF TypeInv, Types, Rows, Device, Time
  <2>3. NotAhead' /\ Advances
    BY <2>1, <2>2 DEF Timely, NotAhead, Advances
  <2>4. \A w \in Workers : Punctual(request[w])'
    BY <1>2, <2>1 DEF Timely, Punctual, AtOnce
  <2> QED
    BY <2>3, <2>4 DEF Timely
<1>3. ASSUME NEW w \in Workers, add_metric(w) \/ add_log(w) \/ Die(w)
      PROVE  Timely' /\ Advances
  <2>1. Set(w, Idle) /\ UNCHANGED <<now, devices>>
    BY <1>3 DEF add_metric, add_log, Die
  <2> QED
    BY <2>1, SameRow, EndTimely
<1> QED
  BY <1>1, <1>2, <1>3, LoadTimely, CreateTimely, UpdateTimely, BeatTimely, SaveTimely DEF Next

\* An agent may send its next heartbeat before the last is answered: for the time of the
\* last heartbeat to go back, a request must be held up between heartbeat's reading of
\* the clock and its commit.
THEOREM PunctualHeartbeatsAdvance == Spec /\ [][AtOnce]_vars => HeartbeatsAdvance
<1>1. Init => Timely
  BY DEF Init, Idle, Timely, NotAhead, Punctual
<1>2. TypeInv /\ Timely /\ [Next]_vars /\ [AtOnce]_vars => TypeInv' /\ Timely' /\ [Advances]_vars
  BY NextTypeInv, NextTimely
<1>3. [][Advances]_vars => HeartbeatsAdvance
  BY DEF Advances, HeartbeatsAdvance
<1> QED
  BY InitTypeInv, <1>1, <1>2, <1>3, PTL DEF Spec

\* Requests that take no time hold nothing up, whatever else overlaps.
THEOREM FastHeartbeatsAdvance == ASSUME ~SlowRequests PROVE Spec => HeartbeatsAdvance
<1>1. [AtOnce]_vars
  BY DEF AtOnce, Tick, Idle
<1> QED
  BY <1>1, PunctualHeartbeatsAdvance, PTL
=============================================================================
