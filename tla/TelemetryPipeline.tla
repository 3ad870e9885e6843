------------------------- MODULE TelemetryPipeline -------------------------
(***************************************************************************)
(* One reading's way through the server: POST /telemetry looks the vehicle *)
(* up, emits the reading to the fleet's room of the WebSocket gateway and   *)
(* then stores it, while sockets come, subscribe, unsubscribe and go,       *)
(* vehicles are deleted, and the cluster's worker processes exit.           *)
(*                                                                         *)
(* Every await of the code is a step boundary.  The code between two awaits *)
(* runs to completion on a worker's event loop and is one action.           *)
(***************************************************************************)
EXTENDS Integers, Sequences

CONSTANTS
    Vehicles,   \* primary keys that the vehicles table may hold
    Fleets,     \* fleet ids that readings and dashboards name
    Requests,   \* POST /telemetry calls, each made once
    Sockets,    \* socket ids: socket.io gives every connection a new one
    Workers,    \* processes the cluster's primary forked at start
    Unknown,    \* the fleet id 'unknown'
    Blank,      \* the fleet id ''
    Omitted,    \* a body without the optional fleetId
    None        \* no value yet

ASSUME PipelineNames ==
    /\ {Unknown, Blank, Omitted, None} \cap Fleets = {}
    /\ Unknown \notin {Blank, Omitted, None}
    /\ Blank \notin {Omitted, None}
    /\ Omitted # None
    /\ None \notin Vehicles \cup Workers

VARIABLES
    \* ---- Postgres
    vehicles,       \* ids of the rows of the vehicles table
    telemetry,      \* the readings that are rows of the telemetry table
    pending,        \* readings whose save was given up with its COMMIT on the way
    stamp,          \* createdAt of each reading: its transaction's start
    clock,          \* the database's time: transactions started so far
    \* ---- TelemetryService.ingestTelemetry, one activation per request
    phase,          \* where the activation stands
    dto,            \* the body it was called with and the worker it runs on
    answer,         \* the HTTP answer
    \* ---- TelemetryGateway and its socket.io server
    socket,         \* life of each socket: "new", "open" or "closed"
    home,           \* the worker that holds each socket
    subscriptions,  \* the gateway's map: fleets of each socket
    joined,         \* the socket.io rooms each socket is in
    inbox,          \* readings emitted to each socket, oldest first
    \* ---- config/system/cluster.ts
    alive,          \* workers that run
    \* ---- history; no action of the code reads it
    sent,           \* readings emitted to a room
    muted,          \* readings whose emit threw
    earlier,        \* same-vehicle readings already answered when one arrived
    removed         \* vehicles that were deleted at some time

database == <<vehicles, telemetry, pending, stamp, clock>>
gateway  == <<socket, home, subscriptions, joined>>
history  == <<sent, muted, earlier, removed>>
vars == <<database, phase, dto, answer, gateway, inbox, alive, history>>

Rooms == Fleets \cup {Unknown}
FleetField == Rooms \cup {Blank, Omitted}
Dto == [vehicle : Vehicles, fleet : FleetField, worker : Workers]
Ended == {"stored", "refused", "failed"}
Phase == {"idle", "absent", "found", "saving", "begun"} \cup Ended

\* The vehicles present at start are any set: other code creates them.
Init ==
    /\ vehicles \in SUBSET Vehicles
    /\ telemetry = {}
    /\ pending = {}
    /\ stamp = [r \in Requests |-> 0]
    /\ clock = 0
    /\ phase = [r \in Requests |-> "idle"]
    /\ dto = [r \in Requests |-> None]
    /\ answer = [r \in Requests |-> "none"]
    /\ socket = [s \in Sockets |-> "new"]
    /\ home = [s \in Sockets |-> None]
    /\ subscriptions = [s \in Sockets |-> {}]
    /\ joined = [s \in Sockets |-> {}]
    /\ inbox = [s \in Sockets |-> <<>>]
    /\ alive = Workers
    /\ sent = {}
    /\ muted = {}
    /\ earlier = [r \in Requests |-> {}]
    /\ removed = {}

-----------------------------------------------------------------------------
(* The gateway. Its handlers are synchronous: each is one action.          *)

HandleConnection(s, w) ==
    /\ socket[s] = "new"
    /\ w \in alive
    /\ socket' = [socket EXCEPT ![s] = "open"]
    /\ home' = [home EXCEPT ![s] = w]
    /\ UNCHANGED <<database, phase, dto, answer, subscriptions, joined,
                   inbox, alive, history>>

\* socket.io takes the socket out of its rooms, the handler out of the map.
HandleDisconnect(s) ==
    /\ socket[s] = "open"
    /\ socket' = [socket EXCEPT ![s] = "closed"]
    /\ joined' = [joined EXCEPT ![s] = {}]
    /\ subscriptions' = [subscriptions EXCEPT ![s] = {}]
    /\ UNCHANGED <<database, phase, dto, answer, home, inbox, alive, history>>

\* Mutant: the socket's set is made anew instead of fetched from the map.
HandleSubscribeForgets(s, f) ==
    /\ socket[s] = "open"
    /\ f # Blank
    /\ subscriptions' = [subscriptions EXCEPT ![s] = {f}]
    /\ joined' = [joined EXCEPT ![s] = @ \cup {f}]
    /\ UNCHANGED <<database, phase, dto, answer, socket, home, inbox, alive, history>>

\* Mutant: the room is joined only with the first subscription.
HandleSubscribeJoinsOnce(s, f) ==
    /\ socket[s] = "open"
    /\ f # Blank
    /\ subscriptions' = [subscriptions EXCEPT ![s] = @ \cup {f}]
    /\ joined' = [joined EXCEPT ![s] = IF @ = {} THEN {f} ELSE @]
    /\ UNCHANGED <<database, phase, dto, answer, socket, home, inbox, alive, history>>

\* Mutant: the falsy fleetId is not turned away.
HandleSubscribeBlank(s, f) ==
    /\ socket[s] = "open"
    /\ subscriptions' = [subscriptions EXCEPT ![s] = @ \cup {f}]
    /\ joined' = [joined EXCEPT ![s] = @ \cup {f}]
    /\ UNCHANGED <<database, phase, dto, answer, socket, home, inbox, alive,
                   history>>

\* A falsy fleetId returns at once and leaves everything as it is.
HandleSubscribe(s, f) ==
    /\ socket[s] = "open"
    /\ f # Blank
    /\ subscriptions' = [subscriptions EXCEPT ![s] = @ \cup {f}]
    /\ joined' = [joined EXCEPT ![s] = @ \cup {f}]
    /\ UNCHANGED <<database, phase, dto, answer, socket, home, inbox, alive, history>>

\* Without an entry in the map nothing happens; the socket is then in no room.
HandleUnsubscribe(s, f) ==
    /\ socket[s] = "open"
    /\ subscriptions[s] # {}
    /\ subscriptions' = [subscriptions EXCEPT ![s] = @ \ {f}]
    /\ joined' = [joined EXCEPT ![s] = @ \ {f}]
    /\ UNCHANGED <<database, phase, dto, answer, socket, home, inbox, alive, history>>

\* this.server.to(room).emit: the rooms of the emitting worker's own server.
BroadcastToFleet(r, w, f) ==
    inbox' = [s \in Sockets |->
                IF home[s] = w /\ f \in joined[s] THEN Append(inbox[s], r) ELSE inbox[s]]

-----------------------------------------------------------------------------
(* TelemetryService.ingestTelemetry                                        *)

\* Mutant: the default of the fleet id is dropped.
PayloadFleetNoDefault(d) == IF d.fleet = Omitted THEN Blank ELSE d.fleet

\* dto.fleetId ?? 'unknown'
PayloadFleet(d) == IF d.fleet = Omitted THEN Unknown ELSE d.fleet

\* The call arrives at a worker and its vehicle is looked up. No vehicle ends it
\* with 404; a query that fails, or refuses the id as no uuid, ends it with 500.
IngestLookup(r, d) ==
    /\ phase[r] = "idle"
    /\ d.worker \in alive
    /\ dto' = [dto EXCEPT ![r] = d]
    /\ earlier' = [earlier EXCEPT ![r] =
                     {q \in Requests : answer[q] = "success" /\ dto[q].vehicle = d.vehicle}]
    /\ \/ /\ d.vehicle \in vehicles
          /\ phase' = [phase EXCEPT ![r] = "found"]
          /\ UNCHANGED answer
       \/ \E a \in {"notFound", "error"} :
          /\ a = "notFound" => d.vehicle \notin vehicles
          /\ phase' = [phase EXCEPT ![r] = "absent"]
          /\ answer' = [answer EXCEPT ![r] = a]
    /\ UNCHANGED <<database, gateway, inbox, alive, sent, muted, removed>>

\* Resumed with the vehicle: emit, unless the fleet id is empty, and call save. An
\* emit that throws is caught and the save goes on; the adapter encodes a packet
\* before it hands it to any socket, so nobody has been sent it then.
IngestBroadcast(r) ==
    /\ phase[r] = "found"
    /\ dto[r].worker \in alive
    /\ phase' = [phase EXCEPT ![r] = "saving"]
    /\ LET f == PayloadFleet(dto[r]) IN
         \/ f = Blank /\ UNCHANGED <<inbox, sent, muted>>
         \/ /\ f # Blank
            /\ BroadcastToFleet(r, dto[r].worker, f)
            /\ sent' = sent \cup {r}
            /\ UNCHANGED muted
         \/ f # Blank /\ muted' = muted \cup {r} /\ UNCHANGED <<inbox, sent>>
    /\ UNCHANGED <<database, dto, answer, gateway, alive, earlier, removed>>

\* save opens a transaction; CURRENT_TIMESTAMP is fixed from here on.
BeginSave(r) ==
    /\ phase[r] = "saving"
    /\ dto[r].worker \in alive
    /\ clock' = clock + 1
    /\ stamp' = [stamp EXCEPT ![r] = clock + 1]
    /\ phase' = [phase EXCEPT ![r] = "begun"]
    /\ UNCHANGED <<vehicles, telemetry, pending, dto, answer, gateway, inbox, alive,
                   history>>

\* The insert passes the foreign key on vehicles, which holds the vehicle's row
\* until the commit. A COMMIT on its way survives the worker that sent it.
CommitSave(r) ==
    /\ phase[r] = "begun"
    /\ dto[r].vehicle \in vehicles
    /\ telemetry' = telemetry \cup {r}
    /\ phase' = [phase EXCEPT ![r] = "stored"]
    /\ UNCHANGED <<vehicles, pending, stamp, clock, dto, answer, gateway, inbox, alive,
                   history>>

\* The vehicle went after it was looked up: the foreign key refuses the row and
\* the catch block only warns.
RefuseSave(r) ==
    /\ phase[r] = "begun"
    /\ dto[r].vehicle \notin vehicles
    /\ phase' = [phase EXCEPT ![r] = "refused"]
    /\ UNCHANGED <<database, dto, answer, gateway, inbox, alive, history>>

\* The database is out of reach: save rejects, into the same catch block. Once the
\* row is inserted, its COMMIT may be on the way and outlive the call. A save that
\* gets no transaction at all ends like one whose transaction comes to nothing.
FailSave(r) ==
    /\ phase[r] = "begun"
    /\ dto[r].worker \in alive
    /\ phase' = [phase EXCEPT ![r] = "failed"]
    /\ \/ UNCHANGED pending
       \/ dto[r].vehicle \in vehicles /\ pending' = pending \cup {r}
    /\ UNCHANGED <<vehicles, telemetry, stamp, clock, dto, answer, gateway, inbox,
                   alive, history>>

\* The database gets to the COMMIT of a save that was given up ...
LateCommit(r) ==
    /\ r \in pending
    /\ pending' = pending \ {r}
    /\ telemetry' = telemetry \cup {r}
    /\ UNCHANGED <<vehicles, stamp, clock, phase, dto, answer, gateway, inbox, alive,
                   history>>

\* ... or finds its connection gone, and rolls the transaction back.
Rollback(r) ==
    /\ r \in pending
    /\ pending' = pending \ {r}
    /\ UNCHANGED <<vehicles, telemetry, stamp, clock, phase, dto, answer, gateway,
                   inbox, alive, history>>

\* Mutant: save is not awaited.
AnswerAtOnce(r) ==
    /\ phase[r] \in {"saving", "begun"} \cup Ended
    /\ answer[r] = "none"
    /\ dto[r].worker \in alive
    /\ answer' = [answer EXCEPT ![r] = "success"]
    /\ UNCHANGED <<database, phase, dto, gateway, inbox, alive, history>>

\* Mutant: only a stored reading is answered.
AnswerStored(r) ==
    /\ phase[r] = "stored"
    /\ answer[r] = "none"
    /\ dto[r].worker \in alive
    /\ answer' = [answer EXCEPT ![r] = "success"]
    /\ UNCHANGED <<database, phase, dto, gateway, inbox, alive, history>>

\* return { success: true, payload }, however the save ended.
Answer(r) ==
    /\ phase[r] \in Ended
    /\ answer[r] = "none"
    /\ dto[r].worker \in alive
    /\ answer' = [answer EXCEPT ![r] = "success"]
    /\ UNCHANGED <<database, phase, dto, gateway, inbox, alive, history>>

-----------------------------------------------------------------------------
(* TelemetryService.getLatest, as an expression on the tables              *)

RowsOf(v) == {r \in telemetry : dto[r].vehicle = v}

\* Mutant: order createdAt ASC.
GetLatestAscending(v) == {r \in RowsOf(v) : \A q \in RowsOf(v) : stamp[q] >= stamp[r]}

\* The row findOne returns under order createdAt DESC: none or one of these.
GetLatest(v) == {r \in RowsOf(v) : \A q \in RowsOf(v) : stamp[q] <= stamp[r]}

-----------------------------------------------------------------------------
(* VehicleService.deleteVehicle, and the cluster                           *)

\* Mutant: telemetry.vehicleId carries no foreign key.
RemoveVehicleUnchecked(v) ==
    /\ v \in vehicles
    /\ vehicles' = vehicles \ {v}
    /\ removed' = removed \cup {v}
    /\ UNCHANGED <<telemetry, pending, stamp, clock, phase, dto, answer, gateway, inbox, alive,
                   sent, muted, earlier>>

\* DELETE FROM vehicles: a row that telemetry refers to stays and the call fails.
\* An open transaction that refers to the row holds it: the DELETE waits for it.
\* The lookup before it matters to FleetRegistry only: no row, no effect.
RemoveVehicle(v) ==
    /\ v \in vehicles
    /\ RowsOf(v) = {} /\ \A r \in pending : dto[r].vehicle # v
    /\ vehicles' = vehicles \ {v}
    /\ removed' = removed \cup {v}
    /\ UNCHANGED <<telemetry, pending, stamp, clock, phase, dto, answer, gateway, inbox, alive,
                   sent, muted, earlier>>

\* VehicleService.updateVehicle saves an entity it read before the removal: save
\* finds no row of that id and inserts one (FleetRegistry models the call).
ReinsertVehicle(v) ==
    /\ v \in removed
    /\ vehicles' = vehicles \cup {v}
    /\ UNCHANGED <<telemetry, pending, stamp, clock, phase, dto, answer, gateway,
                   inbox, alive, history>>

\* A worker exits: its sockets drop and its memory goes. The primary's 'exit'
\* handler logs "Starting a new worker" and forks none.
WorkerExit(w) ==
    LET lost == {s \in Sockets : home[s] = w /\ socket[s] = "open"} IN
    /\ w \in alive
    /\ alive' = alive \ {w}
    /\ socket' = [s \in Sockets |-> IF s \in lost THEN "closed" ELSE socket[s]]
    /\ subscriptions' = [s \in Sockets |-> IF s \in lost THEN {} ELSE subscriptions[s]]
    /\ joined' = [s \in Sockets |-> IF s \in lost THEN {} ELSE joined[s]]
    /\ UNCHANGED <<database, phase, dto, answer, home, inbox, history>>

-----------------------------------------------------------------------------
Socket(s) ==
    \/ \E w \in Workers : HandleConnection(s, w)
    \/ HandleDisconnect(s)
    \/ \E f \in Rooms \cup {Blank} : HandleSubscribe(s, f)
    \/ \E f \in Rooms : HandleUnsubscribe(s, f)

Ingest(r) ==
    \/ IngestBroadcast(r)
    \/ BeginSave(r)
    \/ CommitSave(r) \/ RefuseSave(r) \/ FailSave(r)
    \/ Answer(r)

Next ==
    \/ \E s \in Sockets : Socket(s)
    \/ \E r \in Requests, d \in Dto : IngestLookup(r, d)
    \/ \E r \in Requests : Ingest(r) \/ LateCommit(r) \/ Rollback(r)
    \/ \E v \in Vehicles : RemoveVehicle(v) \/ ReinsertVehicle(v)
    \/ \E w \in Workers : WorkerExit(w)

Spec == Init /\ [][Next]_vars

\* An activation that was started is resumed by its worker's event loop, and the
\* database answers. Nothing makes a client call, a socket act or a worker exit.
FairSpec == Spec /\ \A r \in Requests : WF_vars(Ingest(r))

-----------------------------------------------------------------------------
TypeOK ==
    /\ vehicles \subseteq Vehicles
    /\ telemetry \subseteq Requests
    /\ pending \subseteq Requests
    /\ stamp \in [Requests -> Nat]
    /\ clock \in Nat
    /\ phase \in [Requests -> Phase]
    /\ dto \in [Requests -> Dto \cup {None}]
    /\ answer \in [Requests -> {"none", "success", "notFound", "error"}]
    /\ socket \in [Sockets -> {"new", "open", "closed"}]
    /\ home \in [Sockets -> Workers \cup {None}]
    /\ subscriptions \in [Sockets -> SUBSET Rooms]
    /\ joined \in [Sockets -> SUBSET Rooms]
    /\ inbox \in [Sockets -> Seq(Requests)]
    /\ alive \subseteq Workers
    /\ sent \subseteq Requests
    /\ muted \subseteq Requests
    /\ earlier \in [Requests -> SUBSET Requests]
    /\ removed \subseteq Vehicles

\* History and live view agree: a stored reading was emitted to a room before,
\* unless it named the empty fleet, which ingestTelemetry does not emit, or the
\* emit threw, which ingestTelemetry only logs.
StoredWasBroadcast ==
    \A r \in telemetry : r \in sent \cup muted \/ dto[r].fleet = Blank

\* Every row of the telemetry table belongs to a vehicle that exists, although
\* ingestTelemetry looks the vehicle up long before it stores the reading and
\* deleteVehicle runs in between.
NoOrphanReading ==
    \A r \in telemetry : dto[r].vehicle \in vehicles

\* An accepted reading that history lacks was refused because its vehicle was
\* deleted, or fell to a failure of the database: the acknowledgement hides both
\* and nothing else.
AcceptedButNotStored ==
    \A r \in Requests :
        answer[r] = "success" /\ r \notin telemetry =>
            phase[r] = "failed" \/ dto[r].vehicle \in removed

\* A device that waits for each answer has its readings kept in the order it
\* took them: createdAt grows, and no dashboard sees the later one first.
DeviceOrderKept ==
    \A r \in Requests : \A q \in earlier[r] :
        /\ r \in telemetry /\ q \in telemetry => stamp[q] < stamp[r]
        /\ \A s \in Sockets : \A i, j \in DOMAIN inbox[s] :
             inbox[s][i] = r /\ inbox[s][j] = q => j < i

\* A socket is handed a reading only while it is open and its entry in the
\* gateway's map holds the reading's fleet: map and rooms never part.
DeliveredOnlyToSubscribers ==
    [][\A s \in Sockets : inbox'[s] # inbox[s] =>
          /\ socket[s] = "open"
          /\ \E r \in Requests :
               /\ inbox'[s] = Append(inbox[s], r)
               /\ PayloadFleet(dto[r]) \in subscriptions[s]]_vars

\* A reading that is emitted reaches every open socket that has subscribed to its
\* fleet, whichever worker holds the socket.
EverySubscriberServed ==
    [][\A r \in sent' \ sent : \A s \in Sockets :
          socket[s] = "open" /\ PayloadFleet(dto[r]) \in subscriptions[s] =>
              inbox'[s] = Append(inbox[s], r)]_vars

\* GET /telemetry/:vehicleId/latest never steps back to an older reading, with
\* transactions that commit in another order than they began.
LatestNeverGoesBack ==
    [][\A v \in Vehicles : \A r \in GetLatest(v) :
          \E q \in GetLatest(v)' : stamp'[q] >= stamp[r]]_vars

Abandoned(r) == phase[r] # "idle" /\ dto[r].worker \notin alive

\* Every call is answered, unless its worker exits: no branch of
\* ingestTelemetry, its catch blocks included, leaves the client waiting.
EveryIngestAnswered ==
    \A r \in Requests :
        phase[r] # "idle" ~> answer[r] # "none" \/ Abandoned(r)

\* What the client and the dashboards may rely on, seen without the steps in between.
Log == INSTANCE ReadingLog
         WITH log <- telemetry, doubtful <- pending, feed <- inbox, shown <- sent

\* Each call shows its reading at most once and stores it at most once, in that
\* order, and neither after its answer, but for a row whose save the database failed
\* with its COMMIT on the way. A call that is answered 404 or 500 does neither, ever.
KeepsReadingLog == Log!Spec
=============================================================================
