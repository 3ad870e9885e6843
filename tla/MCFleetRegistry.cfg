\* Three overlapping calls on every consistent state of two vehicle ids, two fleet
\* ids, two VINs and two names.
SPECIFICATION Spec
CONSTANTS
    VehicleIds = {v1, v2}
    FleetIds = {f1, f2}
    Users = {u1}
    Vins = {vin1, vin2}
    Names = {n1, n2}
    Attrs = {a1}
    Calls = {c1, c2, c3}
    Absent = absent
    Null = null
    Undefined = undefined
SYMMETRY Symmetry
INVARIANTS
    TypeOK
    TablesConsistent

    
    
\* Each call is made once: then nothing is left to do.
CHECK_DEADLOCK FALSE
