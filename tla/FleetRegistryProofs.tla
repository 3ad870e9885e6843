------------------------ MODULE FleetRegistryProofs ------------------------
(***************************************************************************)
(* Theorems of FleetRegistry, for any ids, users, values and calls.  All of *)
(* them follow from Inductive: the tables' keys hold, and what a call has   *)
(* read (EntityAt) and is going to write (PlanAt) differs from the row it   *)
(* read only where its body says, as long as nothing overtook it (Fresh).   *)
(***************************************************************************)
EXTENDS FleetRegistry, TLAPS

Saving == SavesVehicle \cup {"updateFleet"}

\* An entity as read, with what the body sets.
EntityAt(c) ==
    /\ req[c].op = "updateVehicle" => entity[c] \in Vehicle /\ entity[c].fleet = Undefined
    /\ req[c].op = "assignVehicleToFleet" =>
          entity[c] \in Vehicle /\ entity[c].fleet = req[c].fleet
    /\ req[c].op = "updateFleet" => entity[c] \in Fleet

\* The row that a call has read is still there, and as it was read.
Fresh(c) ==
    /\ req[c].op \in SavesVehicle =>
          LET row == vehicles[req[c].vehicle] IN
          /\ row # Absent
          /\ \A col \in Columns : entity[c][col] \notin {Undefined, row[col]} => col \in req[c].sets
    /\ req[c].op = "updateFleet" =>
          LET row == fleets[req[c].fleet] IN
          /\ row # Absent /\ entity[c].vehicles = Members(req[c].fleet)
          /\ entity[c].name # row.name => "name" \in req[c].sets

\* What save is going to write, and how little it is when nothing overtook the call.
PlanAt(c) ==
    /\ req[c].op \in SavesVehicle =>
          /\ plan[c] \in VehiclePlan
          /\ ~plan[c].insert => \A col \in plan[c].cols : entity[c][col] # Undefined
          /\ ~overtaken[c] => ~plan[c].insert /\ plan[c].cols \subseteq req[c].sets
    /\ req[c].op = "updateFleet" =>
          /\ plan[c] \in FleetPlan
          /\ ~overtaken[c] =>
                /\ ~plan[c].insert /\ plan[c].gain = {} /\ plan[c].lose = {}
                /\ plan[c].rename => "name" \in req[c].sets

CallAt(c) ==
    /\ phase[c] \in {"fleetRead", "read", "loaded"} =>
          /\ req[c] \in Request
          /\ req[c].op \in SavesVehicle \cup {"deleteVehicle"} => req[c].vehicle \in VehicleIds
          /\ req[c].op \in {"assignVehicleToFleet", "updateFleet", "deleteFleet"} =>
                req[c].fleet \in FleetIds
    /\ phase[c] = "fleetRead" => req[c].op = "assignVehicleToFleet" /\ req[c].sets = {"fleet"}
    /\ phase[c] = "loaded" => req[c].op \in Saving
    /\ phase[c] \in {"read", "loaded"} => EntityAt(c)
    /\ phase[c] = "read" /\ ~overtaken[c] => Fresh(c)
    /\ phase[c] = "loaded" => PlanAt(c)

Inductive == TypeOK /\ TablesConsistent /\ \A c \in Calls : CallAt(c)

-----------------------------------------------------------------------------
(* What a step of one call means for the others.                           *)

Same(d) ==
    /\ phase'[d] = phase[d] /\ req'[d] = req[d] /\ entity'[d] = entity[d]
    /\ plan'[d] = plan[d]

\* A call that was not overtaken finds what it has read as it was.
Unmoved(d) ==
    /\ overtaken[d] => overtaken'[d]
    /\ phase[d] = "read" /\ ~overtaken'[d] =>
          /\ req[d].op \in SavesVehicle =>
                vehicles'[req[d].vehicle] = vehicles[req[d].vehicle]
          /\ req[d].op = "updateFleet" =>
                /\ fleets'[req[d].fleet] = fleets[req[d].fleet]
                /\ Members(req[d].fleet)' = Members(req[d].fleet)

LEMMA OvertakeSound ==
    ASSUME NEW d \in Calls, req'[d] = req[d], overtaken[d] \in BOOLEAN,
           Overtake \/ UNCHANGED <<tables, overtaken>>
    PROVE  Unmoved(d)
<1>1. CASE Overtake
  <2>1. overtaken'[d] = (overtaken[d] \/ (phase[d] = "read" /\ Source(d)' # Source(d)))
    BY <1>1 DEF Overtake
  <2>2. req[d].op \in SavesVehicle =>
           Source(d) = vehicles[req[d].vehicle] /\ Source(d)' = vehicles'[req[d].vehicle]
    BY DEF Source, SavesVehicle
  <2>3. req[d].op = "updateFleet" =>
           /\ Source(d) = <<fleets[req[d].fleet], Members(req[d].fleet)>>
           /\ Source(d)' = <<fleets'[req[d].fleet], Members(req[d].fleet)'>>
    BY DEF Source
  <2>4. /\ overtaken[d] => overtaken'[d]
        /\ phase[d] = "read" /\ ~overtaken'[d] => Source(d)' = Source(d)
    BY <2>1
  <2>5. /\ phase[d] = "read" /\ ~overtaken'[d] /\ req[d].op \in SavesVehicle =>
              vehicles'[req[d].vehicle] = vehicles[req[d].vehicle]
        /\ phase[d] = "read" /\ ~overtaken'[d] /\ req[d].op = "updateFleet" =>
              /\ fleets'[req[d].fleet] = fleets[req[d].fleet]
              /\ Members(req[d].fleet)' = Members(req[d].fleet)
    BY <2>2, <2>3, <2>4
  <2>6. QED BY <2>4, <2>5 DEF Unmoved
<1>2. CASE UNCHANGED <<tables, overtaken>>
  BY <1>2 DEF Unmoved, tables, Members
<1>3. QED BY <1>1, <1>2

\* What holds of a call goes on to hold while others act.
LEMMA OtherCall ==
    ASSUME Inductive, TypeOK', NEW d \in Calls, Same(d), Unmoved(d)
    PROVE  CallAt(d)'
<1>1. CallAt(d) /\ overtaken[d] \in BOOLEAN /\ overtaken'[d] \in BOOLEAN
  BY DEF Inductive, TypeOK
<1>2. EntityAt(d) => EntityAt(d)'
  BY DEF EntityAt, Same
<1>3. phase[d] = "read" /\ ~overtaken'[d] /\ Fresh(d) => Fresh(d)'
  <2> SUFFICES ASSUME phase[d] = "read", ~overtaken'[d], Fresh(d) PROVE Fresh(d)'
    OBVIOUS
  <2>1. req'[d] = req[d] /\ entity'[d] = entity[d]
    BY DEF Same
  <2>2. CASE req[d].op \in SavesVehicle
    <3>1. vehicles'[req'[d].vehicle] = vehicles[req[d].vehicle]
      BY <2>1, <2>2 DEF Unmoved
    <3>2. req[d].op # "updateFleet"
      BY <2>2 DEF SavesVehicle
    <3>3. QED BY <2>1, <2>2, <3>1, <3>2 DEF Fresh, SavesVehicle
  <2>3. CASE req[d].op = "updateFleet"
    <3>1. /\ fleets'[req'[d].fleet] = fleets[req[d].fleet]
          /\ Members(req[d].fleet)' = Members(req[d].fleet)
      BY <2>1, <2>3 DEF Unmoved
    <3>2. QED BY <2>1, <2>3, <3>1 DEF Fresh, SavesVehicle
  <2>4. CASE req[d].op \notin Saving
    BY <2>1, <2>4 DEF Fresh, Saving, SavesVehicle
  <2>5. QED BY <2>2, <2>3, <2>4 DEF Saving
<1>4. PlanAt(d) => PlanAt(d)'
  BY <1>1 DEF PlanAt, Same, Unmoved, SavesVehicle
<1>5. QED BY <1>1, <1>2, <1>3, <1>4 DEF CallAt, Same, Unmoved, Saving, SavesVehicle

LEMMA Step ==
    ASSUME Inductive, TypeOK', TablesConsistent', NEW c \in Calls, CallAt(c)',
           \A d \in Calls \ {c} : Same(d), Overtake \/ UNCHANGED <<tables, overtaken>>
    PROVE  Inductive'
<1>1. ASSUME NEW d \in Calls \ {c} PROVE CallAt(d)'
  <2>1. Unmoved(d)
    BY OvertakeSound DEF Inductive, TypeOK, Same
  <2>2. QED BY <2>1, OtherCall
<1>2. QED BY <1>1 DEF Inductive

\* The history has its type after every step.
LEMMA OvertakenType ==
    ASSUME TypeOK, Overtake \/ UNCHANGED overtaken
    PROVE  overtaken' \in [Calls -> BOOLEAN]
BY DEF TypeOK, Overtake

\* A step that leaves the tables alone keeps the tables' keys.
LEMMA TablesSame ==
    ASSUME TablesConsistent, UNCHANGED <<vehicles, fleets>>
    PROVE  TablesConsistent'
BY DEF TablesConsistent, FleetMissing, VinTaken, NameTaken

Phases == {"idle", "fleetRead", "read", "loaded", "done"}
Results == {"none", "ok", "notFound", "error"}

LEMMA Finishes ==
    ASSUME TypeOK, NEW c \in Calls, NEW r \in Results, Finish(c, r)
    PROVE  /\ phase' \in [Calls -> Phases] /\ phase'[c] = "done"
           /\ result' \in [Calls -> Results]
           /\ \A d \in Calls \ {c} : phase'[d] = phase[d]
BY DEF TypeOK, Finish, Phases, Results

\* The request that a call begins with.
LEMMA Begins ==
    ASSUME TypeOK, NEW c \in Calls, NEW op, NEW v, NEW f, NEW sets,
           [op |-> op, vehicle |-> v, fleet |-> f, sets |-> sets] \in Request,
           Begin(c, op, v, f, sets)
    PROVE  /\ phase[c] = "idle"
           /\ req' \in [Calls -> Request \cup {Undefined}] /\ req'[c] \in Request
           /\ req'[c].op = op /\ req'[c].vehicle = v /\ req'[c].fleet = f
           /\ req'[c].sets = sets
           /\ \A d \in Calls \ {c} : req'[d] = req[d]
<1> DEFINE q == [op |-> op, vehicle |-> v, fleet |-> f, sets |-> sets]
<1>1. q \in Request /\ q.op = op /\ q.vehicle = v /\ q.fleet = f /\ q.sets = sets
  OBVIOUS
<1>2. req' = [req EXCEPT ![c] = q] /\ phase[c] = "idle"
  BY DEF Begin
<1> HIDE DEF q
<1>3. QED BY <1>1, <1>2 DEF TypeOK

\* A call that finds its row holds the entity, and one that does not is over.
LEMMA Finds ==
    ASSUME TypeOK, NEW c \in Calls, NEW row, NEW next \in {"fleetRead", "read"}, NEW e,
           row # Absent => e \in Vehicle \cup Fleet \cup VehicleIds,
           FindOne(c, row, next, e)
    PROVE  /\ phase' \in [Calls -> Phases] /\ result' \in [Calls -> Results]
           /\ entity' \in [Calls -> Vehicle \cup Fleet \cup VehicleIds \cup {Undefined}]
           /\ \A d \in Calls \ {c} : phase'[d] = phase[d] /\ entity'[d] = entity[d]
           /\ \/ row = Absent /\ phase'[c] = "done"
              \/ row # Absent /\ phase'[c] = next /\ entity'[c] = e
           /\ UNCHANGED <<tables, plan, overtaken>>
<1>1. CASE row = Absent
  BY <1>1, Finishes DEF FindOne, Results, TypeOK
<1>2. CASE row # Absent
  BY <1>2 DEF FindOne, Phases, Results, TypeOK
<1>3. QED BY <1>1, <1>2

\* A call that is over knows nothing.
LEMMA DoneCall ==
    ASSUME NEW c \in Calls, phase'[c] = "done"
    PROVE  CallAt(c)'
BY DEF CallAt

-----------------------------------------------------------------------------
(* What a write does to the tables.                                        *)

LEMMA PutVehicle ==
    ASSUME TypeOK, TablesConsistent, NEW v \in VehicleIds, NEW row \in Row,
           ~VinTaken(v, row.vin), ~FleetMissing(row.fleet),
           vehicles' = [vehicles EXCEPT ![v] = row], UNCHANGED fleets
    PROVE  TablesConsistent' /\ vehicles' \in [VehicleIds -> Row \cup {Absent}]
<1>1. /\ vehicles' \in [VehicleIds -> Row \cup {Absent}]
      /\ vehicles'[v] = row /\ \A u \in VehicleIds \ {v} : vehicles'[u] = vehicles[u]
  BY DEF TypeOK
<1>2. ASSUME NEW u \in VehicleIds, vehicles'[u] # Absent
      PROVE  ~FleetMissing(vehicles[u].fleet)' /\ ~VinTaken(u, vehicles[u].vin)'
  BY <1>1, <1>2 DEF TablesConsistent, FleetMissing, VinTaken
<1>3. \A f \in FleetIds : fleets'[f] # Absent => ~NameTaken(f, fleets[f].name)'
  BY DEF TablesConsistent, NameTaken
<1>4. QED BY <1>1, <1>2, <1>3 DEF TablesConsistent

LEMMA DropVehicle ==
    ASSUME TypeOK, TablesConsistent, NEW v \in VehicleIds,
           vehicles' = [vehicles EXCEPT ![v] = Absent], UNCHANGED fleets
    PROVE  TablesConsistent' /\ vehicles' \in [VehicleIds -> Row \cup {Absent}]
<1>1. /\ vehicles' \in [VehicleIds -> Row \cup {Absent}]
      /\ vehicles'[v] = Absent /\ \A u \in VehicleIds \ {v} : vehicles'[u] = vehicles[u]
  BY DEF TypeOK
<1>2. QED BY <1>1 DEF TablesConsistent, FleetMissing, VinTaken, NameTaken

LEMMA PutFleet ==
    ASSUME TypeOK, TablesConsistent, NEW f \in FleetIds, NEW row \in FleetRow,
           ~NameTaken(f, row.name),
           fleets' = [fleets EXCEPT ![f] = row], UNCHANGED vehicles
    PROVE  TablesConsistent' /\ fleets' \in [FleetIds -> FleetRow \cup {Absent}]
<1>1. /\ fleets' \in [FleetIds -> FleetRow \cup {Absent}]
      /\ fleets'[f] = row /\ \A g \in FleetIds \ {f} : fleets'[g] = fleets[g]
      /\ row # Absent
  BY RegistryNames DEF TypeOK
<1>2. \A v \in VehicleIds : vehicles'[v] # Absent =>
          ~FleetMissing(vehicles[v].fleet)' /\ ~VinTaken(v, vehicles[v].vin)'
  BY <1>1 DEF TablesConsistent, FleetMissing, VinTaken
<1>3. ASSUME NEW g \in FleetIds, fleets'[g] # Absent PROVE ~NameTaken(g, fleets[g].name)'
  BY <1>1, <1>3 DEF TablesConsistent, NameTaken
<1>4. QED BY <1>2, <1>3, <1>1 DEF TablesConsistent

-----------------------------------------------------------------------------
(* One lemma per action.                                                   *)

LEMMA CreateVehicleStep ==
    ASSUME Inductive, NEW c \in Calls, NEW vin \in Vins, NEW attr \in Attrs,
           NEW fleetId \in FleetIds, CreateVehicle(c, vin, attr, fleetId)
    PROVE  Inductive'
<1>1. TypeOK /\ TablesConsistent
  BY DEF Inductive
<1>2. [op |-> "createVehicle", vehicle |-> Undefined, fleet |-> fleetId, sets |-> {}] \in Request
  BY DEF Request
<1>3. /\ req' \in [Calls -> Request \cup {Undefined}]
      /\ \A d \in Calls \ {c} : req'[d] = req[d]
  BY <1>1, <1>2, Begins DEF CreateVehicle
<1>4. UNCHANGED <<fleets, plan>> /\ Overtake
  BY DEF CreateVehicle
<1>5. PICK v \in VehicleIds \cap unused :
         IF VinTaken(v, vin)
           THEN Finish(c, "error") /\ UNCHANGED <<vehicles, unused, entity>>
           ELSE /\ vehicles' = [vehicles EXCEPT ![v] =
                                  [vin |-> vin, attr |-> attr, fleet |-> Null]]
                /\ unused' = unused \ {v}
                /\ entity' = [entity EXCEPT ![c] = v]
                /\ Finish(c, "ok")
  BY DEF CreateVehicle
<1>6. /\ phase' \in [Calls -> Phases] /\ phase'[c] = "done" /\ result' \in [Calls -> Results]
      /\ \A d \in Calls \ {c} : phase'[d] = phase[d]
  BY <1>1, <1>5, Finishes DEF Results
<1>7. /\ unused' \subseteq VehicleIds \cup FleetIds
      /\ entity' \in [Calls -> Vehicle \cup Fleet \cup VehicleIds \cup {Undefined}]
      /\ \A d \in Calls \ {c} : entity'[d] = entity[d]
  BY <1>1, <1>5 DEF TypeOK
<1>8. TablesConsistent' /\ vehicles' \in [VehicleIds -> Row \cup {Absent}]
  <2>1. CASE VinTaken(v, vin)
    BY <1>1, <1>4, <1>5, <2>1, TablesSame DEF TypeOK
  <2>2. CASE ~VinTaken(v, vin)
    <3> DEFINE row == [vin |-> vin, attr |-> attr, fleet |-> Null]
    <3>1. row \in Row /\ row.vin = vin /\ ~FleetMissing(row.fleet)
      BY RegistryNames DEF Row, FleetMissing
    <3>2. vehicles' = [vehicles EXCEPT ![v] = row]
      BY <1>5, <2>2
    <3> HIDE DEF row
    <3>3. QED BY <1>1, <1>4, <2>2, <3>1, <3>2, PutVehicle
  <2>3. QED BY <2>1, <2>2
<1>9. TypeOK'
  BY <1>1, <1>3, <1>4, <1>6, <1>7, <1>8, OvertakenType DEF TypeOK, Phases, Results
<1>10. \A d \in Calls \ {c} : Same(d)
  BY <1>3, <1>4, <1>6, <1>7 DEF Same
<1>11. QED BY <1>4, <1>6, <1>8, <1>9, <1>10, DoneCall, Step

\* The entity of an update has the row's columns but for those that the body sets.
LEMMA UpdateVehicleStep ==
    ASSUME Inductive, NEW c \in Calls, NEW v \in VehicleIds, NEW vin \in Optional(Vins),
           NEW attr \in Optional(Attrs), UpdateVehicle(c, v, vin, attr)
    PROVE  Inductive'
<1> DEFINE row == vehicles[v]
           sets == (IF vin = Undefined THEN {} ELSE {"vin"})
                      \cup (IF attr = Undefined THEN {} ELSE {"attr"})
           e == [vin |-> Given(vin, row.vin), attr |-> Given(attr, row.attr),
                 fleet |-> Undefined]
<1>1. TypeOK /\ TablesConsistent /\ overtaken[c] \in BOOLEAN
  BY DEF Inductive, TypeOK
<1>2. [op |-> "updateVehicle", vehicle |-> v, fleet |-> Undefined, sets |-> sets] \in Request
  BY DEF Request, Columns
<1>3. Begin(c, "updateVehicle", v, Undefined, sets) /\ FindOne(c, row, "read", e)
  BY DEF UpdateVehicle
<1>4. row # Absent =>
        /\ row \in Row /\ e \in Vehicle /\ e.fleet = Undefined
        /\ \A col \in Columns : e[col] \notin {Undefined, row[col]} => col \in sets
  BY <1>1 DEF TypeOK, Row, Vehicle, Given, Optional, Columns
<1> HIDE DEF e, sets
<1>5. /\ req' \in [Calls -> Request \cup {Undefined}] /\ req'[c] \in Request
      /\ req'[c].op = "updateVehicle" /\ req'[c].vehicle = v /\ req'[c].sets = sets
      /\ \A d \in Calls \ {c} : req'[d] = req[d]
  BY <1>1, <1>2, <1>3, Begins
<1>6. /\ phase' \in [Calls -> Phases] /\ result' \in [Calls -> Results]
      /\ entity' \in [Calls -> Vehicle \cup Fleet \cup VehicleIds \cup {Undefined}]
      /\ \A d \in Calls \ {c} : phase'[d] = phase[d] /\ entity'[d] = entity[d]
      /\ \/ row = Absent /\ phase'[c] = "done"
         \/ row # Absent /\ phase'[c] = "read" /\ entity'[c] = e
      /\ UNCHANGED <<tables, plan, overtaken>>
  BY <1>1, <1>3, <1>4, Finds
<1>7. TypeOK'
  BY <1>1, <1>5, <1>6 DEF TypeOK, tables, Phases, Results
<1>8. TablesConsistent'
  BY <1>1, <1>6, TablesSame DEF tables
<1>9. \A d \in Calls \ {c} : Same(d)
  BY <1>5, <1>6 DEF Same
<1>10. CallAt(c)'
  <2>1. CASE phase'[c] = "done"
    BY <2>1, DoneCall
  <2>2. CASE row # Absent /\ phase'[c] = "read" /\ entity'[c] = e
    <3>1. EntityAt(c)'
      BY <1>4, <1>5, <2>2 DEF EntityAt
    <3>2. Fresh(c)'
      BY <1>4, <1>5, <1>6, <2>2 DEF Fresh, tables, SavesVehicle
    <3>3. QED BY <1>5, <2>2, <3>1, <3>2 DEF CallAt, Saving, SavesVehicle
  <2>3. QED BY <1>6, <2>1, <2>2
<1>11. QED BY <1>6, <1>7, <1>8, <1>9, <1>10, Step

LEMMA DeleteVehicleStep ==
    ASSUME Inductive, NEW c \in Calls, NEW v \in VehicleIds, DeleteVehicle(c, v)
    PROVE  Inductive'
<1>1. TypeOK /\ TablesConsistent
  BY DEF Inductive
<1>2. [op |-> "deleteVehicle", vehicle |-> v, fleet |-> Undefined, sets |-> {}] \in Request
  BY DEF Request
<1>3. /\ req' \in [Calls -> Request \cup {Undefined}] /\ req'[c] \in Request
      /\ req'[c].op = "deleteVehicle" /\ req'[c].vehicle = v
      /\ \A d \in Calls \ {c} : req'[d] = req[d]
  BY <1>1, <1>2, Begins DEF DeleteVehicle
<1>4. /\ phase' \in [Calls -> Phases] /\ result' \in [Calls -> Results]
      /\ entity' \in [Calls -> Vehicle \cup Fleet \cup VehicleIds \cup {Undefined}]
      /\ \A d \in Calls \ {c} : phase'[d] = phase[d] /\ entity'[d] = entity[d]
      /\ phase'[c] \in {"read", "done"}
      /\ UNCHANGED <<tables, plan, overtaken>>
  BY <1>1, Finds DEF DeleteVehicle
<1>5. TypeOK'
  BY <1>1, <1>3, <1>4 DEF TypeOK, tables, Phases, Results
<1>6. TablesConsistent'
  BY <1>1, <1>4, TablesSame DEF tables
<1>7. \A d \in Calls \ {c} : Same(d)
  BY <1>3, <1>4 DEF Same
<1>8. CallAt(c)'
  BY <1>3, <1>4 DEF CallAt, EntityAt, Fresh, SavesVehicle
<1>9. QED BY <1>4, <1>5, <1>6, <1>7, <1>8, Step

LEMMA RemoveVehicleStep ==
    ASSUME Inductive, NEW c \in Calls, RemoveVehicle(c)
    PROVE  Inductive'
<1>1. TypeOK /\ TablesConsistent /\ req[c].vehicle \in VehicleIds
  BY DEF Inductive, CallAt, RemoveVehicle, At
<1>2. UNCHANGED <<fleets, unused, req, entity, plan>> /\ Overtake
  BY DEF RemoveVehicle
<1>3. /\ phase' \in [Calls -> Phases] /\ phase'[c] = "done" /\ result' \in [Calls -> Results]
      /\ \A d \in Calls \ {c} : phase'[d] = phase[d]
  BY <1>1, Finishes DEF RemoveVehicle, Results
<1>4. TablesConsistent' /\ vehicles' \in [VehicleIds -> Row \cup {Absent}]
  <2>1. CASE UNCHANGED vehicles
    BY <1>1, <1>2, <2>1, TablesSame DEF TypeOK
  <2>2. CASE vehicles' = [vehicles EXCEPT ![req[c].vehicle] = Absent]
    BY <1>1, <1>2, <2>2, DropVehicle
  <2>3. QED BY <2>1, <2>2 DEF RemoveVehicle
<1>5. TypeOK'
  BY <1>1, <1>2, <1>3, <1>4, OvertakenType DEF TypeOK, Phases, Results
<1>6. \A d \in Calls \ {c} : Same(d)
  BY <1>2, <1>3 DEF Same
<1>7. QED BY <1>2, <1>3, <1>4, <1>5, <1>6, DoneCall, Step

LEMMA CreateFleetStep ==
    ASSUME Inductive, NEW c \in Calls, NEW name \in Names, NEW m \in Users \cup {Null},
           CreateFleet(c, name, m)
    PROVE  Inductive'
<1>1. TypeOK /\ TablesConsistent
  BY DEF Inductive
<1>2. [op |-> "createFleet", vehicle |-> Undefined, fleet |-> Undefined, sets |-> {}] \in Request
  BY DEF Request
<1>3. /\ req' \in [Calls -> Request \cup {Undefined}]
      /\ \A d \in Calls \ {c} : req'[d] = req[d]
  BY <1>1, <1>2, Begins DEF CreateFleet
<1>4. UNCHANGED <<vehicles, entity, plan>> /\ Overtake
  BY DEF CreateFleet
<1>5. /\ phase' \in [Calls -> Phases] /\ phase'[c] = "done" /\ result' \in [Calls -> Results]
      /\ \A d \in Calls \ {c} : phase'[d] = phase[d]
  BY <1>1, Finishes DEF CreateFleet, Results
<1>6. /\ TablesConsistent' /\ fleets' \in [FleetIds -> FleetRow \cup {Absent}]
      /\ unused' \subseteq VehicleIds \cup FleetIds
  <2>1. CASE UNCHANGED <<fleets, unused>>
    BY <1>1, <1>4, <2>1, TablesSame DEF TypeOK
  <2>2. ASSUME NEW f \in FleetIds, ~NameTaken(f, name),
               fleets' = [fleets EXCEPT ![f] = [name |-> name, manager |-> m]],
               unused' = unused \ {f}
        PROVE  /\ TablesConsistent' /\ fleets' \in [FleetIds -> FleetRow \cup {Absent}]
               /\ unused' \subseteq VehicleIds \cup FleetIds
    <3> DEFINE row == [name |-> name, manager |-> m]
    <3>1. row \in FleetRow /\ row.name = name
      BY DEF FleetRow
    <3>2. fleets' = [fleets EXCEPT ![f] = row]
      BY <2>2
    <3> HIDE DEF row
    <3>3. TablesConsistent' /\ fleets' \in [FleetIds -> FleetRow \cup {Absent}]
      BY <1>1, <1>4, <2>2, <3>1, <3>2, PutFleet
    <3>4. QED BY <1>1, <2>2, <3>3 DEF TypeOK
  <2>3. QED BY <2>1, <2>2 DEF CreateFleet
<1>7. TypeOK'
  BY <1>1, <1>3, <1>4, <1>5, <1>6, OvertakenType DEF TypeOK, Phases, Results
<1>8. \A d \in Calls \ {c} : Same(d)
  BY <1>3, <1>4, <1>5 DEF Same
<1>9. QED BY <1>4, <1>5, <1>6, <1>7, <1>8, DoneCall, Step

\* What getFleetById returns, with the name that the body may set.
LEMMA FleetEntity ==
    ASSUME TypeOK, NEW f \in FleetIds, fleets[f] # Absent, NEW name \in Optional(Names),
           NEW e, e = [name |-> Given(name, fleets[f].name), vehicles |-> Members(f)]
    PROVE  /\ e \in Fleet /\ e.vehicles = Members(f)
           /\ e.name # fleets[f].name => name # Undefined
BY DEF TypeOK, FleetRow, Fleet, Given, Optional, Members

LEMMA UpdateFleetStep ==
    ASSUME Inductive, NEW c \in Calls, NEW f \in FleetIds, NEW name \in Optional(Names),
           UpdateFleet(c, f, name)
    PROVE  Inductive'
<1> DEFINE sets == IF name = Undefined THEN {} ELSE {"name"}
           e == [name |-> Given(name, fleets[f].name), vehicles |-> Members(f)]
<1>1. TypeOK /\ TablesConsistent /\ overtaken[c] \in BOOLEAN
  BY DEF Inductive, TypeOK
<1>2. [op |-> "updateFleet", vehicle |-> Undefined, fleet |-> f, sets |-> sets] \in Request
  BY DEF Request, Columns
<1>3. Begin(c, "updateFleet", Undefined, f, sets) /\ FindOne(c, fleets[f], "read", e)
  BY DEF UpdateFleet, GetFleetById
<1>4. fleets[f] # Absent =>
        e \in Fleet /\ e.vehicles = Members(f) /\ (e.name # fleets[f].name => "name" \in sets)
  BY <1>1, FleetEntity
<1> HIDE DEF e, sets
<1>5. /\ req' \in [Calls -> Request \cup {Undefined}] /\ req'[c] \in Request
      /\ req'[c].op = "updateFleet" /\ req'[c].fleet = f /\ req'[c].sets = sets
      /\ \A d \in Calls \ {c} : req'[d] = req[d]
  BY <1>1, <1>2, <1>3, Begins
<1>6. /\ phase' \in [Calls -> Phases] /\ result' \in [Calls -> Results]
      /\ entity' \in [Calls -> Vehicle \cup Fleet \cup VehicleIds \cup {Undefined}]
      /\ \A d \in Calls \ {c} : phase'[d] = phase[d] /\ entity'[d] = entity[d]
      /\ \/ fleets[f] = Absent /\ phase'[c] = "done"
         \/ fleets[f] # Absent /\ phase'[c] = "read" /\ entity'[c] = e
      /\ UNCHANGED <<tables, plan, overtaken>>
  BY <1>1, <1>3, <1>4, Finds
<1>7. TypeOK'
  BY <1>1, <1>5, <1>6 DEF TypeOK, tables, Phases, Results
<1>8. TablesConsistent'
  BY <1>1, <1>6, TablesSame DEF tables
<1>9. \A d \in Calls \ {c} : Same(d)
  BY <1>5, <1>6 DEF Same
<1>10. CallAt(c)'
  <2>1. CASE phase'[c] = "done"
    BY <2>1, DoneCall
  <2>2. CASE fleets[f] # Absent /\ phase'[c] = "read" /\ entity'[c] = e
    <3>1. EntityAt(c)'
      BY <1>4, <1>5, <2>2 DEF EntityAt
    <3>2. Members(f)' = Members(f) /\ fleets' = fleets
      BY <1>6 DEF Members, tables
    <3>3. Fresh(c)'
      BY <1>4, <1>5, <2>2, <3>2 DEF Fresh, SavesVehicle, Members
    <3>4. QED BY <1>5, <2>2, <3>1, <3>3 DEF CallAt, Saving, SavesVehicle
  <2>3. QED BY <1>6, <2>1, <2>2
<1>11. QED BY <1>6, <1>7, <1>8, <1>9, <1>10, Step

LEMMA DeleteFleetStep ==
    ASSUME Inductive, NEW c \in Calls, NEW f \in FleetIds, DeleteFleet(c, f)
    PROVE  Inductive'
<1> DEFINE e == [name |-> Given(Undefined, fleets[f].name), vehicles |-> Members(f)]
<1>1. TypeOK /\ TablesConsistent
  BY DEF Inductive
<1>2. [op |-> "deleteFleet", vehicle |-> Undefined, fleet |-> f, sets |-> {}] \in Request
  BY DEF Request
<1>3. /\ req' \in [Calls -> Request \cup {Undefined}] /\ req'[c] \in Request
      /\ req'[c].op = "deleteFleet" /\ req'[c].fleet = f
      /\ \A d \in Calls \ {c} : req'[d] = req[d]
  BY <1>1, <1>2, Begins DEF DeleteFleet
<1>4. FindOne(c, fleets[f], "read", e) /\ (fleets[f] # Absent => e \in Fleet)
  BY <1>1, FleetEntity DEF DeleteFleet, GetFleetById, Optional
<1> HIDE DEF e
<1>5. /\ phase' \in [Calls -> Phases] /\ result' \in [Calls -> Results]
      /\ entity' \in [Calls -> Vehicle \cup Fleet \cup VehicleIds \cup {Undefined}]
      /\ \A d \in Calls \ {c} : phase'[d] = phase[d] /\ entity'[d] = entity[d]
      /\ phase'[c] \in {"read", "done"}
      /\ UNCHANGED <<tables, plan, overtaken>>
  BY <1>1, <1>4, Finds
<1>6. TypeOK'
  BY <1>1, <1>3, <1>5 DEF TypeOK, tables, Phases, Results
<1>7. TablesConsistent'
  BY <1>1, <1>5, TablesSame DEF tables
<1>8. \A d \in Calls \ {c} : Same(d)
  BY <1>3, <1>5 DEF Same
<1>9. CallAt(c)'
  BY <1>3, <1>5 DEF CallAt, EntityAt, Fresh, SavesVehicle
<1>10. QED BY <1>5, <1>6, <1>7, <1>8, <1>9, Step

LEMMA RemoveFleetStep ==
    ASSUME Inductive, NEW c \in Calls, RemoveFleet(c)
    PROVE  Inductive'
<1>1. TypeOK /\ TablesConsistent /\ req[c].fleet \in FleetIds
  BY DEF Inductive, CallAt, RemoveFleet, At
<1>2. UNCHANGED <<vehicles, unused, req, entity, plan>> /\ Overtake
  BY DEF RemoveFleet
<1>3. /\ phase' \in [Calls -> Phases] /\ phase'[c] = "done" /\ result' \in [Calls -> Results]
      /\ \A d \in Calls \ {c} : phase'[d] = phase[d]
  BY <1>1, Finishes DEF RemoveFleet, Results
<1>4. TablesConsistent' /\ fleets' \in [FleetIds -> FleetRow \cup {Absent}]
  <2>1. CASE UNCHANGED fleets
    BY <1>1, <1>2, <2>1, TablesSame DEF TypeOK
  <2>2. CASE /\ Members(req[c].fleet) = {}
             /\ fleets' = [fleets EXCEPT ![req[c].fleet] = Absent]
    <3>1. /\ fleets' \in [FleetIds -> FleetRow \cup {Absent}]
          /\ fleets'[req[c].fleet] = Absent
          /\ \A g \in FleetIds \ {req[c].fleet} : fleets'[g] = fleets[g]
      BY <1>1, <2>2 DEF TypeOK
    <3>2. \A v \in VehicleIds : vehicles[v] # Absent => vehicles[v].fleet # req[c].fleet
      BY <2>2 DEF Members
    <3>3. QED BY <1>1, <1>2, <3>1, <3>2 DEF TablesConsistent, FleetMissing, VinTaken, NameTaken
  <2>3. QED BY <2>1, <2>2 DEF RemoveFleet
<1>5. TypeOK'
  BY <1>1, <1>2, <1>3, <1>4, OvertakenType DEF TypeOK, Phases, Results
<1>6. \A d \in Calls \ {c} : Same(d)
  BY <1>2, <1>3 DEF Same
<1>7. QED BY <1>2, <1>3, <1>4, <1>5, <1>6, DoneCall, Step

LEMMA AssignVehicleToFleetStep ==
    ASSUME Inductive, NEW c \in Calls, NEW f \in FleetIds, NEW v \in VehicleIds,
           AssignVehicleToFleet(c, f, v)
    PROVE  Inductive'
<1> DEFINE e == [name |-> Given(Undefined, fleets[f].name), vehicles |-> Members(f)]
<1>1. TypeOK /\ TablesConsistent
  BY DEF Inductive
<1>2. [op |-> "assignVehicleToFleet", vehicle |-> v, fleet |-> f, sets |-> {"fleet"}] \in Request
  BY DEF Request, Columns
<1>3. /\ req' \in [Calls -> Request \cup {Undefined}] /\ req'[c] \in Request
      /\ req'[c].op = "assignVehicleToFleet" /\ req'[c].vehicle = v /\ req'[c].fleet = f
      /\ req'[c].sets = {"fleet"}
      /\ \A d \in Calls \ {c} : req'[d] = req[d]
  BY <1>1, <1>2, Begins DEF AssignVehicleToFleet
<1>4. FindOne(c, fleets[f], "fleetRead", e) /\ (fleets[f] # Absent => e \in Fleet)
  BY <1>1, FleetEntity DEF AssignVehicleToFleet, GetFleetById, Optional
<1> HIDE DEF e
<1>5. /\ phase' \in [Calls -> Phases] /\ result' \in [Calls -> Results]
      /\ entity' \in [Calls -> Vehicle \cup Fleet \cup VehicleIds \cup {Undefined}]
      /\ \A d \in Calls \ {c} : phase'[d] = phase[d] /\ entity'[d] = entity[d]
      /\ phase'[c] \in {"fleetRead", "done"}
      /\ UNCHANGED <<tables, plan, overtaken>>
  BY <1>1, <1>4, Finds
<1>6. TypeOK'
  BY <1>1, <1>3, <1>5 DEF TypeOK, tables, Phases, Results
<1>7. TablesConsistent'
  BY <1>1, <1>5, TablesSame DEF tables
<1>8. \A d \in Calls \ {c} : Same(d)
  BY <1>3, <1>5 DEF Same
<1>9. CallAt(c)'
  BY <1>3, <1>5 DEF CallAt
<1>10. QED BY <1>5, <1>6, <1>7, <1>8, <1>9, Step

\* The vehicle is read only now, so that it differs from its row in its fleet alone.
LEMMA FindAssignedStep ==
    ASSUME Inductive, NEW c \in Calls, FindAssigned(c)
    PROVE  Inductive'
<1> DEFINE v == req[c].vehicle
           row == vehicles[v]
           e == [row EXCEPT !.fleet = req[c].fleet]
<1>1. /\ TypeOK /\ TablesConsistent /\ overtaken[c] \in BOOLEAN
      /\ req[c] \in Request /\ req[c].op = "assignVehicleToFleet" /\ v \in VehicleIds
      /\ req[c].fleet \in FleetIds /\ req[c].sets = {"fleet"}
  BY DEF Inductive, TypeOK, CallAt, FindAssigned, At, SavesVehicle
<1>2. FindOne(c, row, "read", e) /\ UNCHANGED req
  BY DEF FindAssigned
<1>3. row # Absent =>
        /\ row \in Row /\ e \in Vehicle /\ e.fleet = req[c].fleet
        /\ \A col \in Columns : e[col] \notin {Undefined, row[col]} => col \in {"fleet"}
  BY <1>1 DEF TypeOK, Row, Vehicle, Columns
<1> HIDE DEF e
<1>4. /\ phase' \in [Calls -> Phases] /\ result' \in [Calls -> Results]
      /\ entity' \in [Calls -> Vehicle \cup Fleet \cup VehicleIds \cup {Undefined}]
      /\ \A d \in Calls \ {c} : phase'[d] = phase[d] /\ entity'[d] = entity[d]
      /\ \/ row = Absent /\ phase'[c] = "done"
         \/ row # Absent /\ phase'[c] = "read" /\ entity'[c] = e
      /\ UNCHANGED <<tables, plan, overtaken>>
  BY <1>1, <1>2, <1>3, Finds
<1>5. TypeOK'
  BY <1>1, <1>2, <1>4 DEF TypeOK, tables, Phases, Results
<1>6. TablesConsistent'
  BY <1>1, <1>4, TablesSame DEF tables
<1>7. \A d \in Calls \ {c} : Same(d)
  BY <1>2, <1>4 DEF Same
<1>8. CallAt(c)'
  <2>1. CASE phase'[c] = "done"
    BY <2>1, DoneCall
  <2>2. CASE row # Absent /\ phase'[c] = "read" /\ entity'[c] = e
    <3>1. EntityAt(c)'
      BY <1>1, <1>2, <1>3, <2>2 DEF EntityAt
    <3>2. Fresh(c)'
      BY <1>1, <1>2, <1>3, <1>4, <2>2 DEF Fresh, tables, SavesVehicle
    <3>3. QED BY <1>1, <1>2, <2>2, <3>1, <3>2 DEF CallAt, Saving, SavesVehicle
  <2>3. QED BY <1>4, <2>1, <2>2
<1>9. QED BY <1>4, <1>5, <1>6, <1>7, <1>8, Step

-----------------------------------------------------------------------------
(* save: the reload, then the write.                                       *)

\* A call that nothing overtook finds its row, and little to write.
LEMMA LoadVehicleStep ==
    ASSUME Inductive, NEW c \in Calls, LoadVehicle(c)
    PROVE  Inductive'
<1> DEFINE row == vehicles[req[c].vehicle]
           cols == Differing(entity[c], row)
           p == IF row = Absent THEN [insert |-> TRUE, cols |-> Columns]
                ELSE [insert |-> FALSE, cols |-> cols]
<1>1. /\ TypeOK /\ TablesConsistent /\ overtaken[c] \in BOOLEAN /\ phase[c] = "read"
      /\ req[c] \in Request /\ req[c].op \in SavesVehicle /\ req[c].vehicle \in VehicleIds
      /\ EntityAt(c) /\ (~overtaken[c] => Fresh(c))
  BY DEF Inductive, TypeOK, CallAt, LoadVehicle, At
<1>2. /\ phase' = [phase EXCEPT ![c] = "loaded"] /\ plan' = [plan EXCEPT ![c] = p]
      /\ UNCHANGED <<tables, req, entity, result, overtaken>>
  BY DEF LoadVehicle
<1>3. /\ p \in VehiclePlan
      /\ ~p.insert => /\ row # Absent
                      /\ \A col \in p.cols : col \in Columns /\ entity[c][col] # Undefined
                      /\ \A col \in p.cols : entity[c][col] # row[col]
      /\ row # Absent => ~p.insert
  BY DEF VehiclePlan, Differing
<1>4. ~overtaken[c] => ~p.insert /\ p.cols \subseteq req[c].sets
  BY <1>1, <1>3 DEF Fresh
<1> HIDE DEF p
<1>5. /\ phase'[c] = "loaded" /\ plan'[c] = p
      /\ phase' \in [Calls -> Phases] /\ plan' \in [Calls -> VehiclePlan \cup FleetPlan \cup {Undefined}]
      /\ \A d \in Calls \ {c} : phase'[d] = phase[d] /\ plan'[d] = plan[d]
  BY <1>1, <1>2, <1>3 DEF TypeOK, Phases
<1>6. TypeOK'
  BY <1>1, <1>2, <1>5 DEF TypeOK, tables, Phases
<1>7. TablesConsistent'
  BY <1>1, <1>2, TablesSame DEF tables
<1>8. \A d \in Calls \ {c} : Same(d)
  BY <1>2, <1>5 DEF Same
<1>9. CallAt(c)'
  <2>1. EntityAt(c)'
    BY <1>1, <1>2 DEF EntityAt
  <2>2. PlanAt(c)'
    BY <1>1, <1>2, <1>3, <1>4, <1>5 DEF PlanAt, SavesVehicle
  <2>3. /\ req'[c] = req[c] /\ phase'[c] = "loaded" /\ req[c].op \in Saving
        /\ req[c].op \notin {"updateFleet", "deleteFleet", "deleteVehicle"}
    BY <1>1, <1>2, <1>5 DEF Saving, SavesVehicle
  <2>4. req[c].op = "assignVehicleToFleet" => req[c].fleet \in FleetIds
    BY <1>1 DEF Inductive, CallAt
  <2>5. QED BY <1>1, <2>1, <2>2, <2>3, <2>4 DEF CallAt
<1>10. QED BY <1>2, <1>6, <1>7, <1>8, <1>9, Step

\* What is written is a row, undefined relations or not.
LEMMA WrittenRow ==
    ASSUME TypeOK, NEW c \in Calls, phase[c] = "loaded", CallAt(c),
           req[c].op \in SavesVehicle,
           plan[c].insert \/ vehicles[req[c].vehicle] # Absent
    PROVE  Written(c, vehicles[req[c].vehicle]) \in Row
<1>1. /\ entity[c] \in Vehicle /\ plan[c] \in VehiclePlan
      /\ ~plan[c].insert => \A col \in plan[c].cols : entity[c][col] # Undefined
      /\ req[c].vehicle \in VehicleIds
  BY DEF CallAt, EntityAt, PlanAt, SavesVehicle
<1>2. CASE plan[c].insert
  BY <1>1, <1>2 DEF Written, Vehicle, Row, Given
<1>3. CASE ~plan[c].insert
  <2> DEFINE row == vehicles[req[c].vehicle]
  <2>1. row \in Row
    BY <1>1, <1>3 DEF TypeOK
  <2>2. Written(c, row) =
          [col \in Columns |-> IF col \in plan[c].cols THEN entity[c][col] ELSE row[col]]
    BY <1>3 DEF Written
  <2>3. /\ "vin" \in plan[c].cols => entity[c].vin \in Vins
        /\ "attr" \in plan[c].cols => entity[c].attr \in Attrs
        /\ "fleet" \in plan[c].cols => entity[c].fleet \in FleetIds
    BY <1>1, <1>3 DEF Vehicle
  <2> HIDE DEF row
  <2>4. [col \in Columns |-> IF col \in plan[c].cols THEN entity[c][col] ELSE row[col]] \in Row
    BY <2>1, <2>3 DEF Row, Columns
  <2>5. QED BY <2>2, <2>4 DEF row
<1>4. QED BY <1>2, <1>3

LEMMA WriteVehicleStep ==
    ASSUME Inductive, NEW c \in Calls, WriteVehicle(c)
    PROVE  Inductive'
<1> DEFINE v == req[c].vehicle
           row == Written(c, vehicles[v])
<1>1. /\ TypeOK /\ TablesConsistent /\ CallAt(c) /\ phase[c] = "loaded"
      /\ req[c].op \in SavesVehicle /\ v \in VehicleIds /\ plan[c] \in VehiclePlan
  BY DEF Inductive, CallAt, PlanAt, WriteVehicle, At
<1>2. UNCHANGED <<fleets, unused, req, entity, plan>> /\ Overtake
  BY DEF WriteVehicle
<1>3. /\ phase' \in [Calls -> Phases] /\ phase'[c] = "done" /\ result' \in [Calls -> Results]
      /\ \A d \in Calls \ {c} : phase'[d] = phase[d]
  BY <1>1, Finishes DEF WriteVehicle, Results
<1>4. TablesConsistent' /\ vehicles' \in [VehicleIds -> Row \cup {Absent}]
  <2>1. CASE UNCHANGED vehicles
    BY <1>1, <1>2, <2>1, TablesSame DEF TypeOK
  <2>2. CASE /\ ~(vehicles[v] = Absent /\ ~plan[c].insert) /\ ~Rejected(c, v, row)
             /\ vehicles' = [vehicles EXCEPT ![v] = row]
    <3>1. row \in Row
      BY <1>1, <2>2, WrittenRow
    <3>2. ~VinTaken(v, row.vin) /\ ~FleetMissing(row.fleet)
      BY <2>2 DEF Rejected
    <3>3. UNCHANGED fleets /\ vehicles' = [vehicles EXCEPT ![v] = row]
      BY <1>2, <2>2
    <3> HIDE DEF row, v
    <3>4. QED BY <1>1, <3>1, <3>2, <3>3, PutVehicle
  <2>3. QED BY <2>1, <2>2 DEF WriteVehicle
<1>5. TypeOK'
  BY <1>1, <1>2, <1>3, <1>4, OvertakenType DEF TypeOK, Phases, Results
<1>6. \A d \in Calls \ {c} : Same(d)
  BY <1>2, <1>3 DEF Same
<1>7. QED BY <1>2, <1>3, <1>4, <1>5, <1>6, DoneCall, Step

LEMMA LoadFleetStep ==
    ASSUME Inductive, NEW c \in Calls, LoadFleet(c)
    PROVE  Inductive'
<1> DEFINE row == fleets[req[c].fleet]
           there == Members(req[c].fleet)
           p == [insert |-> row = Absent,
                 rename |-> row # Absent /\ row.name # entity[c].name,
                 gain |-> entity[c].vehicles \ there,
                 lose |-> there \ entity[c].vehicles]
<1>1. /\ TypeOK /\ TablesConsistent /\ overtaken[c] \in BOOLEAN /\ phase[c] = "read"
      /\ req[c] \in Request /\ req[c].op = "updateFleet" /\ req[c].fleet \in FleetIds
      /\ EntityAt(c) /\ (~overtaken[c] => Fresh(c))
  BY DEF Inductive, TypeOK, CallAt, LoadFleet, At
<1>2. /\ phase' = [phase EXCEPT ![c] = "loaded"] /\ plan' = [plan EXCEPT ![c] = p]
      /\ UNCHANGED <<tables, req, entity, result, overtaken>>
  BY DEF LoadFleet
<1>3. entity[c] \in Fleet /\ there \subseteq VehicleIds
  BY <1>1 DEF EntityAt, Members
<1>4. /\ p.insert = (row = Absent) /\ p.gain = entity[c].vehicles \ there
      /\ p.lose = there \ entity[c].vehicles
      /\ p.rename = (row # Absent /\ row.name # entity[c].name)
      /\ p \in FleetPlan
  BY <1>3 DEF FleetPlan, Fleet
<1>5. ~overtaken[c] =>
        /\ row # Absent /\ entity[c].vehicles = there
        /\ entity[c].name # row.name => "name" \in req[c].sets
  BY <1>1 DEF Fresh
<1>6. ~overtaken[c] => /\ ~p.insert /\ p.gain = {} /\ p.lose = {}
                       /\ p.rename => "name" \in req[c].sets
  BY <1>4, <1>5
<1> HIDE DEF p
<1>7. /\ phase'[c] = "loaded" /\ plan'[c] = p
      /\ phase' \in [Calls -> Phases] /\ plan' \in [Calls -> VehiclePlan \cup FleetPlan \cup {Undefined}]
      /\ \A d \in Calls \ {c} : phase'[d] = phase[d] /\ plan'[d] = plan[d]
  BY <1>1, <1>2, <1>4 DEF TypeOK, Phases
<1>8. TypeOK'
  BY <1>1, <1>2, <1>7 DEF TypeOK, tables, Phases
<1>9. TablesConsistent'
  BY <1>1, <1>2, TablesSame DEF tables
<1>10. \A d \in Calls \ {c} : Same(d)
  BY <1>2, <1>7 DEF Same
<1>11. CallAt(c)'
  <2>1. EntityAt(c)'
    BY <1>1, <1>2 DEF EntityAt
  <2>2. PlanAt(c)'
    BY <1>1, <1>2, <1>4, <1>6, <1>7 DEF PlanAt, SavesVehicle
  <2>3. QED BY <1>1, <1>2, <1>7, <2>1, <2>2 DEF CallAt, Saving, SavesVehicle
<1>12. QED BY <1>2, <1>8, <1>9, <1>10, <1>11, Step

\* A vehicle that is moved stays what it was but for its fleet.
LEMMA MovedRow ==
    ASSUME TypeOK, NEW c \in Calls, NEW v \in VehicleIds, vehicles[v] # Absent,
           req[c].fleet \in FleetIds
    PROVE  /\ Moved(v, c) \in Row /\ Moved(v, c) # Absent /\ Moved(v, c).vin = vehicles[v].vin
           /\ v \in plan[c].gain => Moved(v, c).fleet = req[c].fleet
           /\ v \notin plan[c].gain => Moved(v, c).fleet \in {Null, vehicles[v].fleet}
<1>1. vehicles[v] \in Row
  BY DEF TypeOK
<1>2. QED BY <1>1, RegistryNames DEF Moved, Row

LEMMA WriteFleetStep ==
    ASSUME Inductive, NEW c \in Calls, WriteFleet(c)
    PROVE  Inductive'
<1> DEFINE f == req[c].fleet
           p == plan[c]
           name == entity[c].name
           updates == p.rename /\ fleets[f] # Absent
           rejected ==
             \/ (p.insert \/ updates) /\ NameTaken(f, name)
             \/ p.insert /\ fleets[f] # Absent
             \/ ~p.insert /\ fleets[f] = Absent /\ \E v \in p.gain : vehicles[v] # Absent
           row == IF p.insert THEN [name |-> name, manager |-> Null]
                  ELSE IF updates THEN [fleets[f] EXCEPT !.name = name] ELSE fleets[f]
<1>1. /\ TypeOK /\ TablesConsistent /\ phase[c] = "loaded"
      /\ req[c].op = "updateFleet" /\ f \in FleetIds /\ p \in FleetPlan /\ entity[c] \in Fleet
  BY DEF Inductive, CallAt, EntityAt, PlanAt, WriteFleet, At, Saving, SavesVehicle
<1>2. UNCHANGED <<unused, req, entity, plan>> /\ Overtake
  BY DEF WriteFleet
<1>3. /\ phase' \in [Calls -> Phases] /\ phase'[c] = "done" /\ result' \in [Calls -> Results]
      /\ \A d \in Calls \ {c} : phase'[d] = phase[d]
  BY <1>1, Finishes DEF WriteFleet, Results
<1>4. /\ TablesConsistent'
      /\ vehicles' \in [VehicleIds -> Row \cup {Absent}]
      /\ fleets' \in [FleetIds -> FleetRow \cup {Absent}]
  <2>1. CASE UNCHANGED <<fleets, vehicles>>
    BY <1>1, <2>1, TablesSame DEF TypeOK
  <2>2. CASE /\ ~rejected
             /\ vehicles' = [v \in VehicleIds |-> Moved(v, c)]
             /\ fleets' = [fleets EXCEPT ![f] = row]
    <3>1. /\ p.insert \in BOOLEAN /\ name \in Names
          /\ fleets[f] # Absent => fleets[f] \in FleetRow
      BY <1>1 DEF FleetPlan, Fleet, TypeOK
    <3>2. /\ row \in FleetRow \cup {Absent}
          /\ row # Absent => \/ row.name = name /\ ~NameTaken(f, name)
                             \/ fleets[f] # Absent /\ row.name = fleets[f].name
          /\ fleets[f] # Absent => row # Absent
      BY <2>2, <3>1, RegistryNames DEF FleetRow
    <3>3. p.gain = {} \/ row # Absent \/ \A v \in p.gain : vehicles[v] = Absent
      BY <2>2, <3>1, RegistryNames DEF FleetRow
    <3> HIDE DEF rejected, row
    <3>4. /\ fleets' \in [FleetIds -> FleetRow \cup {Absent}] /\ fleets'[f] = row
          /\ \A g \in FleetIds \ {f} : fleets'[g] = fleets[g]
      BY <1>1, <2>2, <3>2 DEF TypeOK
    <3>5. \A v \in VehicleIds :
            /\ vehicles'[v] = Moved(v, c)
            /\ vehicles[v] = Absent => vehicles'[v] = Absent
            /\ vehicles[v] # Absent =>
                  /\ vehicles'[v] \in Row /\ vehicles'[v] # Absent
                  /\ vehicles'[v].vin = vehicles[v].vin
                  /\ v \in p.gain => vehicles'[v].fleet = f
                  /\ v \notin p.gain => vehicles'[v].fleet \in {Null, vehicles[v].fleet}
      BY <1>1, <2>2, MovedRow DEF Moved
    <3>6. vehicles' \in [VehicleIds -> Row \cup {Absent}]
      BY <2>2, <3>5
    <3>7. ASSUME NEW v \in VehicleIds, vehicles'[v] # Absent
          PROVE  ~VinTaken(v, vehicles[v].vin)'
      BY <1>1, <3>5, <3>7 DEF TablesConsistent, VinTaken
    <3>8. ASSUME NEW v \in VehicleIds, vehicles'[v] # Absent
          PROVE  ~FleetMissing(vehicles[v].fleet)'
      <4>1. CASE v \in p.gain
        BY <3>3, <3>4, <3>5, <3>8, <4>1 DEF FleetMissing
      <4>2. CASE v \notin p.gain
        <5>1. vehicles'[v].fleet \in {Null, vehicles[v].fleet} /\ ~FleetMissing(vehicles[v].fleet)
          BY <1>1, <3>5, <3>8, <4>2 DEF TablesConsistent
        <5>2. QED BY <3>2, <3>4, <5>1, RegistryNames DEF FleetMissing
      <4>3. QED BY <4>1, <4>2
    <3>9. ASSUME NEW g \in FleetIds, fleets'[g] # Absent
          PROVE  ~NameTaken(g, fleets[g].name)'
      BY <1>1, <3>2, <3>4, <3>9 DEF TablesConsistent, NameTaken
    <3>10. QED BY <3>4, <3>6, <3>7, <3>8, <3>9 DEF TablesConsistent
  <2>3. QED BY <2>1, <2>2 DEF WriteFleet
<1>5. TypeOK'
  BY <1>1, <1>2, <1>3, <1>4, OvertakenType DEF TypeOK, Phases, Results
<1>6. \A d \in Calls \ {c} : Same(d)
  BY <1>2, <1>3 DEF Same
<1>7. QED BY <1>2, <1>3, <1>4, <1>5, <1>6, DoneCall, Step

-----------------------------------------------------------------------------
LEMMA InitInductive == ASSUME Init PROVE Inductive
<1>1. TypeOK
  BY DEF Init, TypeOK, FleetRow
<1>2. TablesConsistent
  BY DEF Init, TablesConsistent
<1>3. \A c \in Calls : CallAt(c)
  BY DEF Init, CallAt
<1>4. QED BY <1>1, <1>2, <1>3 DEF Inductive

LEMMA StutterInductive == ASSUME Inductive, UNCHANGED vars PROVE Inductive'
<1>1. TypeOK /\ TablesConsistent
  BY DEF Inductive
<1>2. UNCHANGED <<tables, overtaken>> /\ UNCHANGED <<vehicles, fleets>>
  BY DEF vars, tables
<1>3. TypeOK'
  BY <1>1 DEF TypeOK, vars, tables
<1>4. TablesConsistent'
  BY <1>1, <1>2, TablesSame
<1>5. ASSUME NEW d \in Calls PROVE CallAt(d)'
  <2>1. Same(d) /\ req'[d] = req[d] /\ overtaken[d] \in BOOLEAN
    BY <1>1 DEF Same, vars, TypeOK
  <2>2. Unmoved(d)
    BY <1>2, <2>1, OvertakeSound
  <2>3. QED BY <1>3, <2>1, <2>2, OtherCall
<1>6. QED BY <1>3, <1>4, <1>5 DEF Inductive

LEMMA NextInductive == ASSUME Inductive, Next PROVE Inductive'
<1>1. PICK c \in Calls : Start(c) \/ Continue(c)
  BY DEF Next
<1>2. CASE Start(c)
  BY <1>2, CreateVehicleStep, UpdateVehicleStep, DeleteVehicleStep, CreateFleetStep,
     UpdateFleetStep, DeleteFleetStep, AssignVehicleToFleetStep DEF Start
<1>3. CASE Continue(c)
  BY <1>3, RemoveVehicleStep, RemoveFleetStep, FindAssignedStep, LoadVehicleStep,
     WriteVehicleStep, LoadFleetStep, WriteFleetStep DEF Continue
<1>4. QED BY <1>1, <1>2, <1>3

\* The strengthening that the other theorems follow from.
THEOREM InductiveHolds == Spec => []Inductive
<1>1. Init => Inductive
  BY InitInductive
<1>2. Inductive /\ [Next]_vars => Inductive'
  BY NextInductive, StutterInductive
<1>3. QED BY <1>1, <1>2, PTL DEF Spec

\* Every variable has its type: rows, requests, the entities a call holds, and what
\* its save is going to write.
THEOREM TypeCorrect == Spec => []TypeOK
<1>1. Inductive => TypeOK
  BY DEF Inductive
<1>2. QED BY <1>1, InductiveHolds, PTL

\* However many calls overlap, no vehicle is in a fleet that does not exist, and no
\* VIN and no fleet name is there twice.
THEOREM TablesStayConsistent == Spec => []TablesConsistent
<1>1. Inductive => TablesConsistent
  BY DEF Inductive
<1>2. QED BY <1>1, InductiveHolds, PTL

-----------------------------------------------------------------------------
(* What one step does to the tables.                                       *)

\* The phase of a call moves by its own steps alone.
LEMMA OneActs ==
    ASSUME Inductive, NEW c \in Calls, NEW d \in Calls \ {c}, Start(c) \/ Continue(c)
    PROVE  phase'[d] = phase[d]
<1>1. phase \in [Calls -> Phases]
  BY DEF Inductive, TypeOK, Phases
<1>2. \A r : Finish(c, r) => phase'[d] = phase[d]
  BY <1>1 DEF Finish
<1>3. \A row, next, e : FindOne(c, row, next, e) => phase'[d] = phase[d]
  BY <1>1, <1>2 DEF FindOne
<1>4. CASE Start(c)
  BY <1>2, <1>3, <1>4 DEF Start, CreateVehicle, UpdateVehicle, DeleteVehicle, CreateFleet,
     UpdateFleet, DeleteFleet, AssignVehicleToFleet, GetFleetById
<1>5. CASE Continue(c)
  BY <1>1, <1>2, <1>3, <1>5 DEF Continue, RemoveVehicle, RemoveFleet, FindAssigned, LoadVehicle,
     WriteVehicle, LoadFleet, WriteFleet
<1>6. QED BY <1>4, <1>5

\* The write of a vehicle's save: its own row, in the columns of its plan.
LEMMA VehicleWritten ==
    ASSUME Inductive, NEW c \in Calls, WriteVehicle(c), NEW v \in VehicleIds,
           vehicles'[v] # vehicles[v]
    PROVE  /\ UNCHANGED fleets /\ v = req[c].vehicle
           /\ ~overtaken[c] =>
                /\ vehicles[v] # Absent
                /\ \A col \in Columns : vehicles'[v][col] # vehicles[v][col] => col \in req[c].sets
<1> DEFINE row == Written(c, vehicles[v])
<1>1. /\ TypeOK /\ phase[c] = "loaded" /\ req[c].op \in SavesVehicle /\ PlanAt(c)
      /\ UNCHANGED fleets
  BY DEF Inductive, CallAt, WriteVehicle, At
<1>2. /\ v = req[c].vehicle /\ ~(vehicles[v] = Absent /\ ~plan[c].insert)
      /\ vehicles'[v] = row
  BY <1>1 DEF WriteVehicle, TypeOK
<1>3. ASSUME ~overtaken[c]
      PROVE  /\ ~plan[c].insert /\ plan[c].cols \subseteq req[c].sets /\ vehicles[v] # Absent
             /\ row = [col \in Columns |->
                         IF col \in plan[c].cols THEN entity[c][col] ELSE vehicles[v][col]]
  BY <1>1, <1>2, <1>3 DEF PlanAt, Written
<1> HIDE DEF row
<1>4. QED BY <1>1, <1>2, <1>3

\* The write of a fleet's save: no vehicle comes into being, and without an overtaking
\* write no vehicle moves and nothing but the name changes.
LEMMA FleetWritten ==
    ASSUME Inductive, NEW c \in Calls, WriteFleet(c)
    PROVE  /\ \A v \in VehicleIds : vehicles[v] = Absent => vehicles'[v] = Absent
           /\ ~overtaken[c] =>
                /\ \A v \in VehicleIds : vehicles'[v] = vehicles[v]
                /\ \A g \in FleetIds : fleets'[g] # fleets[g] =>
                     /\ fleets[g] # Absent /\ fleets'[g].manager = fleets[g].manager
                     /\ "name" \in req[c].sets
<1> DEFINE f == req[c].fleet
           updates == plan[c].rename /\ fleets[f] # Absent
           row == [fleets[f] EXCEPT !.name = entity[c].name]
<1>1. /\ TypeOK /\ PlanAt(c) /\ req[c].op = "updateFleet"
  BY DEF Inductive, CallAt, WriteFleet, At
<1>2. CASE UNCHANGED <<fleets, vehicles>>
  BY <1>2
<1>3. CASE /\ vehicles' = [v \in VehicleIds |-> Moved(v, c)]
           /\ fleets' = [fleets EXCEPT ![f] =
                IF plan[c].insert THEN [name |-> entity[c].name, manager |-> Null]
                ELSE IF updates THEN row ELSE fleets[f]]
  <2>1. \A v \in VehicleIds : vehicles[v] = Absent => vehicles'[v] = Absent
    BY <1>3 DEF Moved
  <2>2. ASSUME ~overtaken[c]
        PROVE  \A v \in VehicleIds : vehicles'[v] = vehicles[v]
    <3>1. plan[c].gain = {} /\ plan[c].lose = {}
      BY <1>1, <2>2 DEF PlanAt
    <3>2. ASSUME NEW v \in VehicleIds, vehicles[v] # Absent PROVE Moved(v, c) = vehicles[v]
      <4>1. vehicles[v] \in Row
        BY <1>1, <3>2 DEF TypeOK
      <4>2. Moved(v, c) = [vehicles[v] EXCEPT !.fleet = vehicles[v].fleet]
        BY <3>1, <3>2 DEF Moved
      <4>3. QED BY <4>1, <4>2 DEF Row
    <3>3. QED BY <1>3, <2>1, <3>2
  <2>3. ASSUME ~overtaken[c], NEW g \in FleetIds, fleets'[g] # fleets[g]
        PROVE  /\ fleets[g] # Absent /\ fleets'[g].manager = fleets[g].manager
               /\ "name" \in req[c].sets
    <3>1. ~plan[c].insert /\ (plan[c].rename => "name" \in req[c].sets)
      BY <1>1, <2>3 DEF PlanAt
    <3>2. g = f /\ updates /\ fleets'[g] = row
      BY <1>1, <1>3, <2>3, <3>1 DEF TypeOK
    <3>3. fleets[g] \in FleetRow
      BY <1>1, <3>2 DEF TypeOK
    <3>4. row.manager = fleets[f].manager
      BY <3>2, <3>3 DEF FleetRow
    <3>5. QED BY <3>1, <3>2, <3>4
  <2>4. QED BY <2>1, <2>2, <2>3
<1>4. QED BY <1>2, <1>3 DEF WriteFleet

OnlyItsBody ==
    \A c \in Calls : At(c, "loaded", SavesVehicle \cup {"updateFleet"}) /\ ~overtaken[c]
                          /\ phase'[c] = "done" =>
          /\ \A v \in VehicleIds : vehicles'[v] # vehicles[v] =>
               /\ vehicles[v] # Absent /\ v = req[c].vehicle
               /\ \A col \in Columns : vehicles'[v][col] # vehicles[v][col] => col \in req[c].sets
          /\ \A f \in FleetIds : fleets'[f] # fleets[f] =>
               /\ fleets[f] # Absent /\ fleets'[f].manager = fleets[f].manager
               /\ "name" \in req[c].sets

\* The step that ends a save is the write of its own call.
LEMMA SaveEnds ==
    ASSUME Inductive, [Next]_vars, NEW c \in Calls, phase[c] = "loaded", phase'[c] = "done"
    PROVE  WriteVehicle(c) \/ WriteFleet(c)
<1>1. phase'[c] # phase[c]
  OBVIOUS
<1>2. PICK d \in Calls : Start(d) \/ Continue(d)
  BY <1>1 DEF Next, vars
<1>3. d = c
  BY <1>1, <1>2, OneActs
<1>4. QED
  BY <1>2, <1>3 DEF Start, Continue, CreateVehicle, UpdateVehicle, DeleteVehicle, CreateFleet,
     UpdateFleet, DeleteFleet, AssignVehicleToFleet, Begin, RemoveVehicle, RemoveFleet,
     FindAssigned, LoadVehicle, LoadFleet, At

\* The lost update is confined: a save that nothing overtook between the service's
\* read and its reload changes what its body sets, in the rows that it names.
THEOREM SavesAreConfined == Spec => SaveChangesOnlyItsBody
<1>1. ASSUME Inductive, [Next]_vars PROVE OnlyItsBody
  <2> SUFFICES ASSUME NEW c \in Calls, phase[c] = "loaded", ~overtaken[c], phase'[c] = "done"
      PROVE  /\ \A v \in VehicleIds : vehicles'[v] # vehicles[v] =>
                  /\ vehicles[v] # Absent /\ v = req[c].vehicle
                  /\ \A col \in Columns : vehicles'[v][col] # vehicles[v][col] => col \in req[c].sets
             /\ \A f \in FleetIds : fleets'[f] # fleets[f] =>
                  /\ fleets[f] # Absent /\ fleets'[f].manager = fleets[f].manager
                  /\ "name" \in req[c].sets
    BY DEF OnlyItsBody, At
  <2>1. CASE WriteVehicle(c)
    <3>1. UNCHANGED fleets
      BY <2>1 DEF WriteVehicle
    <3>2. QED BY <1>1, <2>1, <3>1, VehicleWritten
  <2>2. CASE WriteFleet(c)
    BY <1>1, <2>2, FleetWritten
  <2>3. QED BY <1>1, <2>1, <2>2, SaveEnds
<1>2. QED BY <1>1, InductiveHolds, PTL DEF Spec, SaveChangesOnlyItsBody, OnlyItsBody

ReturnsOnlyByOvertakenSave ==
    \A c \in Calls : phase[c] # "done" /\ phase'[c] = "done" =>
          /\ \A v \in VehicleIds \ unused :
               vehicles[v] = Absent /\ vehicles'[v] # Absent => overtaken[c]
          /\ \A f \in FleetIds \ unused :
               fleets[f] = Absent /\ fleets'[f] # Absent => overtaken[c]

\* Nothing but a save puts a row where an id was used before.
LEMMA OthersPutNothingBack ==
    ASSUME Inductive, NEW c \in Calls, Start(c) \/ Continue(c),
           ~WriteVehicle(c), ~WriteFleet(c)
    PROVE  /\ \A v \in VehicleIds \ unused : vehicles[v] = Absent => vehicles'[v] = Absent
           /\ \A f \in FleetIds \ unused : fleets[f] = Absent => fleets'[f] = Absent
<1>1. TypeOK
  BY DEF Inductive
<1>2. CASE UNCHANGED <<vehicles, fleets>>
  BY <1>2
<1>3. \A row, next, e : FindOne(c, row, next, e) => UNCHANGED <<vehicles, fleets>>
  BY DEF FindOne, tables
<1>4. ASSUME NEW vin \in Vins, NEW attr \in Attrs, NEW f \in FleetIds, CreateVehicle(c, vin, attr, f)
      PROVE  UNCHANGED fleets /\ \A v \in VehicleIds \ unused : vehicles'[v] = vehicles[v]
  BY <1>1, <1>4 DEF CreateVehicle, TypeOK
<1>5. ASSUME NEW name \in Names, NEW m \in Users \cup {Null}, CreateFleet(c, name, m)
      PROVE  UNCHANGED vehicles /\ \A f \in FleetIds \ unused : fleets'[f] = fleets[f]
  BY <1>1, <1>5 DEF CreateFleet, TypeOK
<1>6. CASE Start(c)
  BY <1>2, <1>3, <1>4, <1>5, <1>6 DEF Start, UpdateVehicle, DeleteVehicle, UpdateFleet,
     DeleteFleet, AssignVehicleToFleet, GetFleetById
<1>7. CASE RemoveVehicle(c)
  BY <1>1, <1>7 DEF RemoveVehicle, TypeOK
<1>8. CASE RemoveFleet(c)
  BY <1>1, <1>8 DEF RemoveFleet, TypeOK
<1>9. CASE FindAssigned(c) \/ LoadVehicle(c) \/ LoadFleet(c)
  BY <1>2, <1>3, <1>9 DEF FindAssigned, LoadVehicle, LoadFleet, tables
<1>10. QED BY <1>6, <1>7, <1>8, <1>9 DEF Continue

\* A DELETE is final but for a save whose read came before it: no other step brings
\* a used id back into its table.
THEOREM DeletesAreFinal == Spec => DeletedReturnsOnlyByOvertakenSave
<1>1. ASSUME Inductive, [Next]_vars PROVE ReturnsOnlyByOvertakenSave
  <2> SUFFICES ASSUME NEW c \in Calls, phase[c] # "done", phase'[c] = "done"
      PROVE  /\ \A v \in VehicleIds \ unused :
                  vehicles[v] = Absent /\ vehicles'[v] # Absent => overtaken[c]
             /\ \A f \in FleetIds \ unused :
                  fleets[f] = Absent /\ fleets'[f] # Absent => overtaken[c]
    BY DEF ReturnsOnlyByOvertakenSave
  <2>1. PICK d \in Calls : Start(d) \/ Continue(d)
    BY <1>1 DEF Next, vars
  <2>2. d = c
    BY <1>1, <2>1, OneActs
  <2>3. CASE WriteVehicle(c)
    <3>1. UNCHANGED fleets
      BY <2>3 DEF WriteVehicle
    <3>2. QED BY <1>1, <2>3, <3>1, VehicleWritten DEF Inductive, TypeOK
  <2>4. CASE WriteFleet(c)
    BY <1>1, <2>4, FleetWritten DEF Inductive, TypeOK
  <2>5. CASE ~WriteVehicle(c) /\ ~WriteFleet(c)
    BY <1>1, <2>1, <2>2, <2>5, OthersPutNothingBack
  <2>6. QED BY <2>3, <2>4, <2>5
<1>2. QED
  BY <1>1, InductiveHolds, PTL DEF Spec, DeletedReturnsOnlyByOvertakenSave,
     ReturnsOnlyByOvertakenSave
=============================================================================
