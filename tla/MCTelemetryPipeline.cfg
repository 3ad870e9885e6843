\* One worker, one vehicle, two concurrent calls, one dashboard.
SPECIFICATION FairSpec
CONSTANTS
    Vehicles = {v1}
    Fleets = {f1}
    Requests = {r1, r2}
    Sockets = {s1}
    Workers = {w1}
    Unknown = unknown
    Blank = blank
    Omitted = omitted
    None = none
INVARIANTS
    TypeOK
    StoredWasBroadcast
    NoOrphanReading
    AcceptedButNotStored
    DeviceOrderKept
PROPERTIES
    DeliveredOnlyToSubscribers
    EverySubscriberServed
    LatestNeverGoesBack
    EveryIngestAnswered
    KeepsReadingLog
\* Calls, sockets and workers are used up: the system may come to rest.
CHECK_DEADLOCK FALSE
