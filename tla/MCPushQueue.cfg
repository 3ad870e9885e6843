\* The processor provided in three workers, so that two may exit over one job.
SPECIFICATION FairSpec
CONSTANTS
    r1 = r1
    w1 = w1
    w2 = w2
    w3 = w3
    None = None
    Requests = {r1}
    Workers = {w1, w2, w3}
    Processors = {w1, w2, w3}
    Attempts = 3
    MaxStalled = 1
INVARIANTS
    TypeOK
    SentWasDelivered
    DeliveriesBounded
    AuditedOnce
PROPERTIES
    JobsEnd
    KeepsOutbox
CHECK_DEADLOCK FALSE
