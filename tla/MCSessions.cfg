\* Three calls, two passwords, tokens that live two ticks of three.
SPECIFICATION Spec
CONSTANTS
    Users = {u1}
    Eligible = {u1}
    Passwords = {p1, p2}
    ResetTokens = {r1}
    Calls = {c1, c2, c3}
    Life = 2
    MaxTime = 2
    RedisFails = TRUE
    None = none
SYMMETRY Symmetry
INVARIANTS
    TypeOK
    IssuedTokenUsable
    ResetTokenUsedOnce
PROPERTY KeepsTokenStore
\* Each call is made once: then nothing is left to do.
CHECK_DEADLOCK FALSE
