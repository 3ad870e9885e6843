----------------------------- MODULE MCSessions -----------------------------
(* Model values and symmetry for Sessions. A call is made once and the clock *)
(* stops at MaxTime, so the state space is finite without a constraint.      *)
EXTENDS Sessions, TLC

\* No action tells two calls, two passwords or two reset tokens apart.
Symmetry == Permutations(Calls) \cup Permutations(Passwords) \cup Permutations(ResetTokens)
=============================================================================
