--------------------------- MODULE MCRegistration ---------------------------
(* Registration for TLC. A call is made once, the tables grow by calls and     *)
(* role names only, so the state space is finite without a constraint.         *)
EXTENDS Registration

CONSTANTS a1, a2, c1

Body(address, typed, id, verified) ==
    [email |-> [address |-> address, typed |-> typed], role |-> "ADMIN", id |-> id,
     isEmailVerified |-> verified]

\* One address in both cases and with a confirmation; the row of the other address, or
\* its id, as it is and with the first address; the row that c1 may have made.
BodiesMC ==
    {Body(a1, "lower", None, None), Body(a1, "mixed", None, TRUE),
     Body(a1, "lower", a2, None), Body(a2, "mixed", a2, FALSE),
     Body(a2, "lower", c1, None)}
=============================================================================
