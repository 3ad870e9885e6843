---------------------------- MODULE AccessControl ----------------------------
(***************************************************************************)
(* Roles, privileges and who may change them: JwtStrategy.validate and     *)
(* PrivilegesGuard in front of createRole, createPrivilege and             *)
(* assignPrivilege.  assignPrivilege starts its privilege lookups inside   *)
(* forEach(async ...), awaits none of them, and calls save with the array  *)
(* that the lookups push into; save reads the array when it has reloaded   *)
(* the role and writes the difference to the join table.  createRole saves *)
(* what its body makes of a role: no pipe strips an id or userPrivileges   *)
(* from it, so that it may write a role that exists, and it may make the   *)
(* privileges it grants, for the relation cascades.                        *)
(*                                                                         *)
(* A privilege stands for its row and its name at once: bodies that rename *)
(* the row of a privilege are left out.                                    *)
(***************************************************************************)
EXTENDS Integers

CONSTANTS
    Roles, Privileges,      \* ids that rows have or may be given
    CanAssign,              \* can_assign_privileges
    CanCreateRole,          \* can_create_role
    CanCreatePrivilege,     \* can_create_privilege
    Calls,                  \* HTTP calls, each made once
    Bodies,                 \* bound: the lists of privileges that a body may hold
    DatabaseFails,          \* whether queries of assignPrivilege may fail
    Absent                  \* no row

ASSUME AccessNames ==
    /\ {CanAssign, CanCreateRole, CanCreatePrivilege} \subseteq Privileges
    /\ DatabaseFails \in BOOLEAN
    /\ \A S \in SUBSET Privileges : S # Absent
    /\ \A S \in SUBSET (Privileges \X {1, 2}) : S # Absent
    /\ Bodies \subseteq SUBSET (Privileges \X {1, 2})

VARIABLES
    privileges,     \* ids of the rows of user_privilege
    grants,         \* the join table: each role's privileges, or Absent
    phase,          \* where a call stands
    req,            \* its operation, target role and named privileges
    looking,        \* lookups of assignPrivilege that have not come back
    available,      \* role.userPrivileges, which is availablePrivs in assignPrivilege
    seen,           \* the role's privileges as save reloaded them, or Absent
    answer,         \* the HTTP answer
    alone,          \* history: calls whose role no other call has written
    entitled        \* history: calls whose caller held the privilege that the route
                    \* requires when the guard looked

vars == <<privileges, grants, phase, req, looking, available, seen, answer, alone, entitled>>

\* Each privilege of the body, with its place when it is named twice.
Entry == Privileges \X {1, 2}
Ids(entries) == {e[1] : e \in entries}

Request == [op : {"createRole", "createPrivilege", "assignPrivilege"},
            role : Roles \cup {Absent}, entries : (SUBSET Entry) \cup {Absent}]

\* The privileges of a role, none if it has no row.
Held(row) == IF row = Absent THEN {} ELSE row

Running == {c \in Calls : phase[c] \notin {"idle", "done", "lost"}}

Init ==
    /\ privileges \in SUBSET Privileges
    /\ \E created \in SUBSET Roles, held \in [Roles -> SUBSET privileges] :
         grants = [r \in Roles |-> IF r \in created THEN held[r] ELSE Absent]
    /\ phase = [c \in Calls |-> "idle"]
    /\ req = [c \in Calls |-> Absent]
    /\ looking = [c \in Calls |-> {}]
    /\ available = [c \in Calls |-> {}]
    /\ seen = [c \in Calls |-> {}]
    /\ answer = [c \in Calls |-> "none"]
    /\ alone = Calls
    /\ entitled = {}

-----------------------------------------------------------------------------
(* The guards: validate reads the caller's role and its privileges, and     *)
(* PrivilegesGuard checks that reading.                                     *)

Required(op) ==
    CASE op = "createRole" -> CanCreateRole
      [] op = "createPrivilege" -> CanCreatePrivilege
      [] op = "assignPrivilege" -> CanAssign

At(c, p) == phase[c] = p
Goto(c, p) == phase' = [phase EXCEPT ![c] = p] /\ UNCHANGED answer
Finish(c, a) ==
    /\ phase' = [phase EXCEPT ![c] = "done"]
    /\ answer' = [answer EXCEPT ![c] = a]

\* Mutant: the guard is content with a caller that has privileges at all.
CanActivateSome(by, op) == by # {}

CanActivate(by, op) == Required(op) \in by

\* A call that is refused does not get to its body.
Admit(c, caller, op, role, entries) ==
    /\ At(c, "idle")
    /\ grants[caller] # Absent
    /\ entitled' = IF Required(op) \in grants[caller] THEN entitled \cup {c} ELSE entitled
    /\ IF CanActivate(grants[caller], op)
         THEN /\ req' = [req EXCEPT ![c] = [op |-> op, role |-> role, entries |-> entries]]
              /\ Goto(c, op)
         ELSE Finish(c, "forbidden") /\ UNCHANGED req
    /\ UNCHANGED <<privileges, grants, looking, available, seen, alone>>

-----------------------------------------------------------------------------
(* createRole and createPrivilege                                          *)

\* save reloads the role of that id, if there is one. The body's privileges stay in the
\* entity; without the member the relation is left as it was.
CreateRole(c) ==
    LET row == grants[req[c].role] IN
    /\ At(c, "createRole")
    /\ \/ /\ seen' = [seen EXCEPT ![c] = row]
          /\ available' = [available EXCEPT ![c] = IF req[c].entries = Absent
                                                   THEN Held(row) \X {1} ELSE req[c].entries]
          /\ Goto(c, "reloaded")
       \/ Finish(c, "error") /\ UNCHANGED <<available, seen>>
    /\ UNCHANGED <<privileges, grants, req, looking, alone, entitled>>

\* A row is inserted, or the one of the body's id is written again; the name may be taken.
CreatePrivilege(c) ==
    /\ At(c, "createPrivilege")
    /\ \/ \E p \in Privileges : privileges' = privileges \cup {p} /\ Finish(c, "ok")
       \/ Finish(c, "error") /\ UNCHANGED privileges
    /\ UNCHANGED <<grants, req, looking, available, seen, alone, entitled>>

-----------------------------------------------------------------------------
(* assignPrivilege                                                         *)

\* The role is read, then every lookup is sent; without a role the call is over. An
\* error is caught, and answered like success.
FindRole(c) ==
    /\ At(c, "assignPrivilege")
    /\ \/ /\ looking' = [looking EXCEPT ![c] = req[c].entries]
          /\ IF grants[req[c].role] = Absent THEN Finish(c, "ok") ELSE Goto(c, "save")
       \/ DatabaseFails /\ Finish(c, "ok") /\ UNCHANGED looking
    /\ UNCHANGED <<privileges, grants, req, available, seen, alone, entitled>>

\* Mutant: availablePrivs belongs to the service, not to the call.
LookupShared(c, e) ==
    /\ e \in looking[c]
    /\ looking' = [looking EXCEPT ![c] = @ \ {e}]
    /\ available' = [d \in Calls |-> IF e[1] \in privileges THEN available[d] \cup {e}
                                      ELSE available[d]]
    /\ UNCHANGED <<privileges, grants, phase, req, seen, answer, alone, entitled>>

\* Mutant: the branch for a privilege that was not found is lost.
LookupUnchecked(c, e) ==
    /\ e \in looking[c]
    /\ looking' = [looking EXCEPT ![c] = @ \ {e}]
    /\ available' = [available EXCEPT ![c] = @ \cup {e}]
    /\ UNCHANGED <<privileges, grants, phase, req, seen, answer, alone, entitled>>

\* A lookup comes back, whatever the call does meanwhile. After the call's end nobody
\* reads the array it pushes to.
Lookup(c, e) ==
    /\ e \in looking[c]
    /\ looking' = [looking EXCEPT ![c] = @ \ {e}]
    /\ available' = [available EXCEPT ![c] = IF e[1] \in privileges /\ c \in Running
                                            THEN @ \cup {e} ELSE @]
    /\ UNCHANGED <<privileges, grants, phase, req, seen, answer, alone, entitled>>

\* Nothing catches a lookup that fails: the rejection ends the process and with it
\* the calls that the worker was serving, here any set of them.
LookupFails(c) ==
    /\ DatabaseFails
    /\ looking[c] # {}
    /\ \E others \in SUBSET (Running \ {c}) :
         LET lost == others \cup ({c} \cap Running) IN
         /\ phase' = [d \in Calls |-> IF d \in lost THEN "lost" ELSE phase[d]]
         /\ looking' = [d \in Calls |-> IF d \in lost \cup {c} THEN {} ELSE looking[d]]
    /\ available' = [d \in Calls |-> IF phase'[d] = "lost" THEN {} ELSE available[d]]
    /\ UNCHANGED <<privileges, grants, req, seen, answer, alone, entitled>>

\* save reloads the role with the ids of its privileges.
Reload(c) ==
    /\ At(c, "save")
    /\ seen' = [seen EXCEPT ![c] = grants[req[c].role]]
    /\ Goto(c, "reloaded")
    /\ UNCHANGED <<privileges, grants, req, looking, available, alone, entitled>>

-----------------------------------------------------------------------------
(* The end of save, for createRole and assignPrivilege                     *)

\* A row is inserted for each entry that the reload did not show.
Inserted(c) == {e \in available[c] : e[1] \notin Held(seen[c])}

\* Mutant: what the role had and the array lacks is kept.
DeletedNone(c) == {}

Deleted(c) == Held(seen[c]) \ Ids(available[c])

\* Two rows with one key, in the body or with a call that was quicker.
Duplicate(c) ==
    \/ \E p \in Privileges : {<<p, 1>>, <<p, 2>>} \subseteq Inserted(c)
    \/ Ids(Inserted(c)) \cap Held(grants[req[c].role]) # {}
    \/ seen[c] = Absent /\ grants[req[c].role] # Absent

\* One transaction, which also inserts the privileges of the entity that have no row.
\* assignPrivilege catches whatever fails, and answers as ever; createRole fails besides
\* when a name is taken or missing.
Save(c) ==
    LET r == req[c].role
        creates == req[c].op = "createRole"
        new == (Held(grants[r]) \cup Ids(Inserted(c))) \ Deleted(c)
    IN  /\ At(c, "reloaded")
        /\ \/ /\ ~Duplicate(c)
              /\ grants' = [grants EXCEPT ![r] = new]
              /\ privileges' = privileges \cup Ids(available[c])
              /\ Finish(c, "ok")
           \/ /\ Duplicate(c) \/ DatabaseFails \/ creates
              /\ UNCHANGED <<grants, privileges>>
              /\ Finish(c, IF creates THEN "error" ELSE "ok")
        /\ alone' = alone \ {d \in Calls \ {c} : phase[d] = "reloaded" /\ req[d].role = r}
        /\ available' = [available EXCEPT ![c] = {}]
        /\ seen' = [seen EXCEPT ![c] = {}]
        /\ UNCHANGED <<req, looking, entitled>>

-----------------------------------------------------------------------------
Next ==
    \/ \E c \in Calls, caller \in Roles :
          \/ Admit(c, caller, "createPrivilege", Absent, Absent)
          \/ \E r \in Roles :
                \/ \E entries \in Bodies : Admit(c, caller, "assignPrivilege", r, entries)
                \/ \E entries \in Bodies \cup {Absent} : Admit(c, caller, "createRole", r, entries)
    \/ \E c \in Calls, e \in Entry : Lookup(c, e)
    \/ \E c \in Calls :
          \/ CreateRole(c) \/ CreatePrivilege(c)
          \/ FindRole(c) \/ LookupFails(c) \/ Reload(c) \/ Save(c)

Spec == Init /\ [][Next]_vars

-----------------------------------------------------------------------------
TypeOK ==
    /\ privileges \subseteq Privileges
    /\ grants \in [Roles -> (SUBSET privileges) \cup {Absent}]
    /\ phase \in [Calls -> {"idle", "createRole", "createPrivilege", "assignPrivilege",
                            "save", "reloaded", "done", "lost"}]
    /\ req \in [Calls -> {Absent} \cup Request]
    /\ looking \in [Calls -> SUBSET Entry]
    /\ available \in [Calls -> SUBSET Entry]
    /\ \A c \in Calls :
          phase[c] \in {"save", "reloaded"} /\ req[c].op = "assignPrivilege" =>
              Ids(available[c]) \subseteq privileges
    /\ seen \in [Calls -> (SUBSET Privileges) \cup {Absent}]
    /\ answer \in [Calls -> {"none", "ok", "forbidden", "error"}]
    /\ alone \subseteq Calls
    /\ entitled \subseteq Calls

\* The end of a call's save.
Saves(c) == At(c, "reloaded") /\ phase'[c] = "done"
Named(c) == IF req[c].entries = Absent THEN {} ELSE Ids(req[c].entries)

\* A role gains a privilege only by a call that names the two: one that was revoked
\* is not brought back by calls that reloaded the role before, and lookups that
\* come late land in no other call's array.
GrantedOnlyWhenNamed ==
    [][\A r \in Roles : \A p \in Held(grants'[r]) \ Held(grants[r]) :
          \E c \in Calls : Saves(c) /\ req[c].role = r /\ p \in Named(c)]_vars

\* A call that no other save on its role cuts into leaves the role with the
\* privileges it has found so far and none of the old ones, or as it was: the
\* difference that save writes never mixes the two.
LoneCallReplaces ==
    [][\A c \in alone : Saves(c) =>
          grants'[req[c].role] \in {grants[req[c].role], Ids(available[c])}]_vars

\* The row of a role comes, and gains or loses privileges, only by the save of a call
\* that names the role and whose caller held what the route requires when the guard
\* looked: not by lookups that come late, nor by creating privileges, nor by calls that
\* were let in for another operation. (What has become of the caller's role since, the
\* code does not look at again.)
ChangesByTheEntitled ==
    [][\A r \in Roles : grants'[r] # grants[r] =>
          \E c \in entitled : Saves(c) /\ req[c].role = r]_vars

\* "An array of UUIDs representing the privileges to assign", to a role, as
\* AssignPrivilegeDto puts it: when nothing fails, no other call writes the role
\* and none is named twice, the named privileges that exist are assigned.
NamedAreAssigned ==
    [][\A c \in alone :
          /\ Saves(c) /\ req[c].op = "assignPrivilege"
          /\ \A p \in Privileges : <<p, 2>> \notin req[c].entries
          => Named(c) \cap privileges \subseteq grants'[req[c].role]]_vars
=============================================================================
