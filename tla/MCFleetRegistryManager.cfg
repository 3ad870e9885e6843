\* A rename of a fleet overlapped by its deletion.
SPECIFICATION Spec
CONSTANTS
    VehicleIds = {v1}
    FleetIds = {f1, f2}
    Users = {u1}
    Vins = {vin1, vin2}
    Names = {n1, n2}
    Attrs = {a1, a2}
    Calls = {c1, c2}
    Absent = absent
    Null = null
    Undefined = undefined
INVARIANT FleetHasManager
CHECK_DEADLOCK FALSE
