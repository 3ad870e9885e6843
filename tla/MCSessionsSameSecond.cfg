\* Four calls within one second: two sign-ins may be handed the same token. One of
\* the two accounts may not sign in.
SPECIFICATION Spec
CONSTANTS
    Users = {u1, u2}
    Eligible = {u1}
    Passwords = {p1}
    ResetTokens = {}
    Calls = {c1, c2, c3, c4}
    Life = 1
    MaxTime = 0
    RedisFails = TRUE
    None = none
SYMMETRY Symmetry
INVARIANTS
    LogoutIsFinal
\* Each call is made once: then nothing is left to do.
CHECK_DEADLOCK FALSE
