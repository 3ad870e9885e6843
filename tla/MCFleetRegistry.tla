-------------------------- MODULE MCFleetRegistry --------------------------
(* Model values and symmetry for FleetRegistry. Every call is made once, so  *)
(* the state space is finite without a constraint.                           *)
EXTENDS FleetRegistry, TLC

\* No action tells two VINs, two attributes, two ids or two calls apart.
Symmetry ==
    Permutations(VehicleIds) \cup Permutations(FleetIds) \cup Permutations(Vins)
        \cup Permutations(Attrs) \cup Permutations(Names) \cup Permutations(Calls)
=============================================================================
