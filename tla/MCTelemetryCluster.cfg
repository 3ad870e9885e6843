\* Two workers: a reading posted to one, a dashboard connected to the other.
SPECIFICATION Spec
CONSTANTS
    Vehicles = {v1}
    Fleets = {f1}
    Requests = {r1}
    Sockets = {s1}
    Workers = {w1, w2}
    Unknown = unknown
    Blank = blank
    Omitted = omitted
    None = none
PROPERTY EverySubscriberServed
CHECK_DEADLOCK FALSE
