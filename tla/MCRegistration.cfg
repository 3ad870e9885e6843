\* Two overlapping calls, two addresses, as AppModule composes the server and as
\* main.ts does.
SPECIFICATION FairSpec
CONSTANTS
    a1 = a1
    a2 = a2
    c1 = c1
    Addresses = {a1, a2}
    RoleNames = {"ADMIN", "OTHER_STAFF"}
    Bodies <- BodiesMC
    Calls = {c1, c2}
    None = None
INVARIANTS
    TypeOK
    OneAccountPerAddress
    AnswersTrue
PROPERTIES
    
    
    EveryCallAnswered
\* Each call is made once: then nothing is left to do.
CHECK_DEADLOCK FALSE
