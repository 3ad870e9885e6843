-------------------------- MODULE MCAccessControl --------------------------
(* Model values and symmetry for AccessControl. A call is made once, so the *)
(* state space is finite without a constraint.                              *)
EXTENDS AccessControl, TLC

\* Any set of the privileges, each of them named once or twice.
BodiesMC == {b \in SUBSET Entry : \A e \in b : <<e[1], 1>> \in b}

\* No action tells two roles or two calls apart.
Symmetry == Permutations(Roles) \cup Permutations(Calls)
=============================================================================
