\* Two overlapping calls on two roles and two privileges, from every join table. One
\* privilege stands for both that allow creating.
SPECIFICATION Spec
CONSTANTS
    Roles = {r1, r2}
    Privileges = {assign, create}
    CanAssign = assign
    CanCreateRole = create
    CanCreatePrivilege = create
    Calls = {c1, c2}
    Bodies <- BodiesMC
    DatabaseFails = TRUE
    Absent = absent
SYMMETRY Symmetry
INVARIANT TypeOK
PROPERTIES
    GrantedOnlyWhenNamed
    LoneCallReplaces
    ChangesByTheEntitled
\* Each call is made once: then nothing is left to do.
CHECK_DEADLOCK FALSE
