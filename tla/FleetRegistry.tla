--------------------------- MODULE FleetRegistry ---------------------------
(***************************************************************************)
(* The vehicles and fleets of VehicleService and FleetService over TypeORM *)
(* repositories.  An update or delete is a read, then a save or a remove   *)
(* of the entity that was read.  save itself reloads the row, compares it  *)
(* with the entity and writes what differs, or inserts the entity if the   *)
(* row is gone.  Calls interleave at each of these queries.                *)
(***************************************************************************)
EXTENDS Integers

CONSTANTS
    VehicleIds, FleetIds,   \* uuids that rows have or may be given
    Users,                  \* existing users; the code deletes none
    Vins, Names,            \* values of the two unique columns
    Attrs,                  \* a value for model, manufacturer, year and status
    Calls,                  \* service calls, each made once
    Absent,                 \* no row
    Null,                   \* SQL NULL, in a fleet or manager column
    Undefined               \* a property that a body or an entity does not have

Row == [vin : Vins, attr : Attrs, fleet : FleetIds \cup {Null}]
FleetRow == [name : Names, manager : Users \cup {Null}]
Columns == {"vin", "attr", "fleet"}

Request ==
    [op : {"createVehicle", "updateVehicle", "deleteVehicle", "createFleet", "updateFleet",
           "deleteFleet", "assignVehicleToFleet"},
     vehicle : VehicleIds \cup {Undefined}, fleet : FleetIds \cup {Undefined},
     sets : SUBSET (Columns \cup {"name"})]

\* Entities with the relations that were loaded or set.
Vehicle == [vin : Vins, attr : Attrs, fleet : FleetIds \cup {Undefined}]
Fleet == [name : Names, vehicles : SUBSET VehicleIds]

\* The difference that save computes.
VehiclePlan == [insert : BOOLEAN, cols : SUBSET Columns]
FleetPlan ==
    [insert : BOOLEAN, rename : BOOLEAN, gain : SUBSET VehicleIds, lose : SUBSET VehicleIds]

ASSUME RegistryNames ==
    /\ Absent \notin Row \cup FleetRow
    /\ Undefined \notin FleetIds \cup {Null} \cup Vins \cup Attrs \cup Names
    /\ Null \notin FleetIds \cup Users
    /\ VehicleIds \cap FleetIds = {}

VARIABLES
    vehicles,   \* table vehicles: a row or Absent for each id
    fleets,     \* table fleets
    unused,     \* ids that were never given to a row
    phase,      \* where a call stands
    req,        \* its operation, its ids, and what its body sets
    entity,     \* the entity object it holds
    plan,       \* what its save is going to write
    result,     \* its outcome
    overtaken   \* history: what it read was changed before its save reloaded it

tables == <<vehicles, fleets, unused>>
vars == <<tables, phase, req, entity, plan, result, overtaken>>

Members(f) == {v \in VehicleIds : vehicles[v] # Absent /\ vehicles[v].fleet = f}
VinTaken(v, vin) == \E u \in VehicleIds \ {v} : vehicles[u] # Absent /\ vehicles[u].vin = vin
NameTaken(f, name) == \E g \in FleetIds \ {f} : fleets[g] # Absent /\ fleets[g].name = name
FleetMissing(f) == f \in FleetIds /\ fleets[f] = Absent

\* Any consistent contents of the tables.
Init ==
    /\ vehicles \in [VehicleIds -> Row \cup {Absent}]
    /\ fleets \in [FleetIds -> [name : Names, manager : Users] \cup {Absent}]
    /\ \A v \in VehicleIds : vehicles[v] # Absent =>
          ~VinTaken(v, vehicles[v].vin) /\ ~FleetMissing(vehicles[v].fleet)
    /\ \A f \in FleetIds : fleets[f] # Absent => ~NameTaken(f, fleets[f].name)
    /\ unused = {v \in VehicleIds : vehicles[v] = Absent}
                  \cup {f \in FleetIds : fleets[f] = Absent}
    /\ phase = [c \in Calls |-> "idle"]
    /\ req = [c \in Calls |-> Undefined]
    /\ entity = [c \in Calls |-> Undefined]
    /\ plan = [c \in Calls |-> Undefined]
    /\ result = [c \in Calls |-> "none"]
    /\ overtaken = [c \in Calls |-> FALSE]

-----------------------------------------------------------------------------
(* What the operations share                                               *)

Begin(c, op, v, f, sets) ==
    /\ phase[c] = "idle"
    /\ req' = [req EXCEPT ![c] = [op |-> op, vehicle |-> v, fleet |-> f, sets |-> sets]]

At(c, p, ops) == phase[c] = p /\ req[c].op \in ops

Finish(c, r) ==
    /\ phase' = [phase EXCEPT ![c] = "done"]
    /\ result' = [result EXCEPT ![c] = r]

\* findOne: throw NotFoundException, or hold the entity and go on.
FindOne(c, row, next, e) ==
    /\ IF row = Absent
         THEN Finish(c, "notFound") /\ UNCHANGED entity
         ELSE /\ phase' = [phase EXCEPT ![c] = next]
              /\ entity' = [entity EXCEPT ![c] = e]
              /\ UNCHANGED result
    /\ UNCHANGED <<tables, plan, overtaken>>

\* The part of the tables that a call's entity was read from.
Source(c) ==
    CASE req[c].op \in {"updateVehicle", "assignVehicleToFleet"} -> vehicles[req[c].vehicle]
      [] req[c].op = "updateFleet" -> <<fleets[req[c].fleet], Members(req[c].fleet)>>
      [] OTHER -> Undefined

\* A write overtakes the calls that stand between their read of what it changes
\* and their reload.
Overtake ==
    overtaken' = [c \in Calls |-> overtaken[c] \/ (phase[c] = "read" /\ Source(c)' # Source(c))]

Given(x, old) == IF x = Undefined THEN old ELSE x

-----------------------------------------------------------------------------
(* VehicleService                                                          *)

\* repository.create copies the columns of the entity. The body's fleetId is none
\* of them, for the relation is called fleet: the row gets no fleet.
CreateVehicle(c, vin, attr, fleetId) ==
    /\ Begin(c, "createVehicle", Undefined, fleetId, {})
    /\ \E v \in VehicleIds \cap unused :
         IF VinTaken(v, vin)
           THEN Finish(c, "error") /\ UNCHANGED <<vehicles, unused, entity>>
           ELSE /\ vehicles' = [vehicles EXCEPT ![v] =
                                  [vin |-> vin, attr |-> attr, fleet |-> Null]]
                /\ unused' = unused \ {v}
                /\ entity' = [entity EXCEPT ![c] = v]
                /\ Finish(c, "ok")
    /\ UNCHANGED <<fleets, plan>>
    /\ Overtake

\* getVehicleById loads no relation; the body's fleetId, assigned to the entity,
\* is a property that save does not look at.
UpdateVehicle(c, v, vin, attr) ==
    /\ Begin(c, "updateVehicle", v, Undefined,
             (IF vin = Undefined THEN {} ELSE {"vin"}) \cup (IF attr = Undefined THEN {} ELSE {"attr"}))
    /\ FindOne(c, vehicles[v], "read",
               [vin |-> Given(vin, vehicles[v].vin), attr |-> Given(attr, vehicles[v].attr),
                fleet |-> Undefined])

DeleteVehicle(c, v) ==
    /\ Begin(c, "deleteVehicle", v, Undefined, {})
    /\ FindOne(c, vehicles[v], "read", v)

\* DELETE of a row that is gone succeeds. One that telemetry refers to is kept
\* by that table's foreign key (TelemetryPipeline).
RemoveVehicle(c) ==
    /\ At(c, "read", {"deleteVehicle"})
    /\ \/ Finish(c, "ok") /\ vehicles' = [vehicles EXCEPT ![req[c].vehicle] = Absent]
       \/ vehicles[req[c].vehicle] # Absent /\ Finish(c, "error") /\ UNCHANGED vehicles
    /\ UNCHANGED <<fleets, unused, req, entity, plan>>
    /\ Overtake

-----------------------------------------------------------------------------
(* FleetService                                                            *)

\* The manager m is looked up first; Null stands for an id that no user has.
CreateFleet(c, name, m) ==
    /\ Begin(c, "createFleet", Undefined, Undefined, {})
    /\ IF m = Null
         THEN Finish(c, "notFound") /\ UNCHANGED <<fleets, unused>>
         ELSE \E f \in FleetIds \cap unused :
                IF NameTaken(f, name)
                  THEN Finish(c, "error") /\ UNCHANGED <<fleets, unused>>
                  ELSE /\ fleets' = [fleets EXCEPT ![f] = [name |-> name, manager |-> m]]
                       /\ unused' = unused \ {f}
                       /\ Finish(c, "ok")
    /\ UNCHANGED <<vehicles, entity, plan>>
    /\ Overtake

\* getFleetById loads the relation vehicles.
GetFleetById(c, f, next, name) ==
    FindOne(c, fleets[f], next,
            [name |-> Given(name, fleets[f].name), vehicles |-> Members(f)])

\* The body's managerId, assigned to the entity, is no column of it.
UpdateFleet(c, f, name) ==
    /\ Begin(c, "updateFleet", Undefined, f, IF name = Undefined THEN {} ELSE {"name"})
    /\ GetFleetById(c, f, "read", name)

DeleteFleet(c, f) ==
    /\ Begin(c, "deleteFleet", Undefined, f, {})
    /\ GetFleetById(c, f, "read", Undefined)

\* Mutant: vehicles.fleetId carries no foreign key.
RemoveFleetUnchecked(c) ==
    /\ At(c, "read", {"deleteFleet"})
    /\ Finish(c, "ok")
    /\ fleets' = [fleets EXCEPT ![req[c].fleet] = Absent]
    /\ UNCHANGED <<vehicles, unused, req, entity, plan>>
    /\ Overtake

\* The vehicles' foreign key keeps a fleet that has any.
RemoveFleet(c) ==
    /\ At(c, "read", {"deleteFleet"})
    /\ IF Members(req[c].fleet) = {}
         THEN Finish(c, "ok") /\ fleets' = [fleets EXCEPT ![req[c].fleet] = Absent]
         ELSE Finish(c, "error") /\ UNCHANGED fleets
    /\ UNCHANGED <<vehicles, unused, req, entity, plan>>
    /\ Overtake

AssignVehicleToFleet(c, f, v) ==
    /\ Begin(c, "assignVehicleToFleet", v, f, {"fleet"})
    /\ GetFleetById(c, f, "fleetRead", Undefined)

\* ... goes on with the vehicle and sets its relation.
FindAssigned(c) ==
    /\ At(c, "fleetRead", {"assignVehicleToFleet"})
    /\ FindOne(c, vehicles[req[c].vehicle], "read",
               [vehicles[req[c].vehicle] EXCEPT !.fleet = req[c].fleet])
    /\ UNCHANGED req

-----------------------------------------------------------------------------
(* Repository.save of a vehicle that was read                              *)

SavesVehicle == {"updateVehicle", "assignVehicleToFleet"}

\* Mutant: save writes every property the entity has.
DifferingAll(e, row) == {col \in Columns : e[col] # Undefined}

\* The columns that the entity has and the reloaded row has otherwise.
Differing(e, row) == {col \in Columns : e[col] # Undefined /\ e[col] # row[col]}

\* Mutant: save does not reload, and takes every entity for a new one.
LoadVehicleAsNew(c) ==
    /\ At(c, "read", SavesVehicle)
    /\ phase' = [phase EXCEPT ![c] = "loaded"]
    /\ plan' = [plan EXCEPT ![c] = [insert |-> TRUE, cols |-> Columns]]
    /\ UNCHANGED <<tables, req, entity, result, overtaken>>

LoadVehicle(c) ==
    /\ At(c, "read", SavesVehicle)
    /\ phase' = [phase EXCEPT ![c] = "loaded"]
    /\ LET row == vehicles[req[c].vehicle] IN
         plan' = [plan EXCEPT ![c] =
                    IF row = Absent THEN [insert |-> TRUE, cols |-> Columns]
                    ELSE [insert |-> FALSE, cols |-> Differing(entity[c], row)]]
    /\ UNCHANGED <<tables, req, entity, result, overtaken>>

\* Mutant: an undefined relation is written as it is.
WrittenUndefined(c, row) ==
    IF plan[c].insert
      THEN entity[c]
      ELSE [col \in Columns |-> IF col \in plan[c].cols THEN entity[c][col] ELSE row[col]]

\* An undefined relation is inserted as NULL.
Written(c, row) ==
    IF plan[c].insert
      THEN [entity[c] EXCEPT !.fleet = Given(@, Null)]
      ELSE [col \in Columns |-> IF col \in plan[c].cols THEN entity[c][col] ELSE row[col]]

\* What makes Postgres refuse the statement, and the call answer 500.
Rejected(c, v, row) ==
    \/ VinTaken(v, row.vin)
    \/ FleetMissing(row.fleet)
    \/ plan[c].insert /\ vehicles[v] # Absent

\* An UPDATE of a row that went after the reload touches none, and succeeds.
WriteVehicle(c) ==
    LET v == req[c].vehicle IN
    /\ At(c, "loaded", SavesVehicle)
    /\ IF vehicles[v] = Absent /\ ~plan[c].insert
         THEN Finish(c, "ok") /\ UNCHANGED vehicles
         ELSE IF Rejected(c, v, Written(c, vehicles[v]))
           THEN Finish(c, "error") /\ UNCHANGED vehicles
           ELSE Finish(c, "ok") /\ vehicles' = [vehicles EXCEPT ![v] = Written(c, vehicles[v])]
    /\ UNCHANGED <<fleets, unused, req, entity, plan>>
    /\ Overtake

-----------------------------------------------------------------------------
(* Repository.save of a fleet that was read with its vehicles              *)

\* Vehicles of the entity that the reload does not find in the fleet are given
\* its id; those it finds and the entity lacks lose theirs.
LoadFleet(c) ==
    /\ At(c, "read", {"updateFleet"})
    /\ phase' = [phase EXCEPT ![c] = "loaded"]
    /\ LET row == fleets[req[c].fleet]
           there == Members(req[c].fleet)
       IN  plan' = [plan EXCEPT ![c] =
                      [insert |-> row = Absent,
                       rename |-> row # Absent /\ row.name # entity[c].name,
                       gain |-> entity[c].vehicles \ there,
                       lose |-> there \ entity[c].vehicles]]
    /\ UNCHANGED <<tables, req, entity, result, overtaken>>

\* UPDATE vehicles SET fleetId = ... by id: rows that are gone are not touched.
Moved(v, c) ==
    IF vehicles[v] = Absent THEN Absent
    ELSE [vehicles[v] EXCEPT !.fleet = IF v \in plan[c].gain THEN req[c].fleet
                                       ELSE IF v \in plan[c].lose THEN Null ELSE @]

\* All in one transaction. An insert has no manager: the relation was not loaded.
WriteFleet(c) ==
    LET f == req[c].fleet
        updates == plan[c].rename /\ fleets[f] # Absent
        rejected ==
          \/ (plan[c].insert \/ updates) /\ NameTaken(f, entity[c].name)
          \/ plan[c].insert /\ fleets[f] # Absent
          \/ ~plan[c].insert /\ fleets[f] = Absent /\ \E v \in plan[c].gain : vehicles[v] # Absent
    IN  /\ At(c, "loaded", {"updateFleet"})
        /\ IF rejected
             THEN Finish(c, "error") /\ UNCHANGED <<fleets, vehicles>>
             ELSE /\ Finish(c, "ok")
                  /\ vehicles' = [v \in VehicleIds |-> Moved(v, c)]
                  /\ fleets' = [fleets EXCEPT ![f] =
                       IF plan[c].insert THEN [name |-> entity[c].name, manager |-> Null]
                       ELSE IF updates THEN [@ EXCEPT !.name = entity[c].name] ELSE @]
        /\ UNCHANGED <<unused, req, entity, plan>>
        /\ Overtake

-----------------------------------------------------------------------------
Optional(S) == S \cup {Undefined}

Start(c) ==
    \/ \E vin \in Vins, attr \in Attrs, f \in FleetIds : CreateVehicle(c, vin, attr, f)
    \/ \E v \in VehicleIds, vin \in Optional(Vins), attr \in Optional(Attrs) :
          UpdateVehicle(c, v, vin, attr)
    \/ \E v \in VehicleIds : DeleteVehicle(c, v)
    \/ \E name \in Names, m \in Users \cup {Null} : CreateFleet(c, name, m)
    \/ \E f \in FleetIds, name \in Optional(Names) : UpdateFleet(c, f, name)
    \/ \E f \in FleetIds : DeleteFleet(c, f)
    \/ \E f \in FleetIds, v \in VehicleIds : AssignVehicleToFleet(c, f, v)

Continue(c) ==
    \/ RemoveVehicle(c)
    \/ RemoveFleet(c)
    \/ FindAssigned(c)
    \/ LoadVehicle(c)
    \/ WriteVehicle(c)
    \/ LoadFleet(c)
    \/ WriteFleet(c)

Next == \E c \in Calls : Start(c) \/ Continue(c)

Spec == Init /\ [][Next]_vars

-----------------------------------------------------------------------------
TypeOK ==
    /\ vehicles \in [VehicleIds -> Row \cup {Absent}]
    /\ fleets \in [FleetIds -> FleetRow \cup {Absent}]
    /\ unused \subseteq VehicleIds \cup FleetIds
    /\ phase \in [Calls -> {"idle", "fleetRead", "read", "loaded", "done"}]
    /\ req \in [Calls -> Request \cup {Undefined}]
    /\ entity \in [Calls -> Vehicle \cup Fleet \cup VehicleIds \cup {Undefined}]
    /\ plan \in [Calls -> VehiclePlan \cup FleetPlan \cup {Undefined}]
    /\ result \in [Calls -> {"none", "ok", "notFound", "error"}]
    /\ overtaken \in [Calls -> BOOLEAN]

\* Whatever the deletions, renames, assignments and re-inserts overlap: a vehicle's
\* fleet exists, and neither two vehicles share a VIN nor two fleets a name.
TablesConsistent ==
    /\ \A v \in VehicleIds : vehicles[v] # Absent =>
          ~FleetMissing(vehicles[v].fleet) /\ ~VinTaken(v, vehicles[v].vin)
    /\ \A f \in FleetIds : fleets[f] # Absent => ~NameTaken(f, fleets[f].name)

\* The lost update is confined: a save whose row was left alone between the
\* service's read and save's reload changes only the columns its body sets, moves
\* no vehicle when it renames a fleet, and brings no deleted row back.
SaveChangesOnlyItsBody ==
    [][\A c \in Calls : At(c, "loaded", SavesVehicle \cup {"updateFleet"}) /\ ~overtaken[c]
                          /\ phase'[c] = "done" =>
          /\ \A v \in VehicleIds : vehicles'[v] # vehicles[v] =>
               /\ vehicles[v] # Absent /\ v = req[c].vehicle
               /\ \A col \in Columns : vehicles'[v][col] # vehicles[v][col] => col \in req[c].sets
          /\ \A f \in FleetIds : fleets'[f] # fleets[f] =>
               /\ fleets[f] # Absent /\ fleets'[f].manager = fleets[f].manager
               /\ "name" \in req[c].sets]_vars

\* A uuid that was deleted comes back only through a call that read the row
\* before it went and had its reload after: DELETE is final for everyone else.
DeletedReturnsOnlyByOvertakenSave ==
    [][\A c \in Calls : phase[c] # "done" /\ phase'[c] = "done" =>
          /\ \A v \in VehicleIds \ unused :
               vehicles[v] = Absent /\ vehicles'[v] # Absent => overtaken[c]
          /\ \A f \in FleetIds \ unused :
               fleets[f] = Absent /\ fleets'[f] # Absent => overtaken[c]]_vars

\* What createFleet enforces ("Manager not found.") and the README lists: a fleet
\* has a manager.
FleetHasManager ==
    \A f \in FleetIds : fleets[f] # Absent => fleets[f].manager # Null
=============================================================================
