------------------------ MODULE AccessControlProofs ------------------------
(***************************************************************************)
(* Theorems of AccessControl, for any sets of roles, privileges and calls. *)
(* All of them follow from Inductive: what a call knows of its role and    *)
(* its array at each phase, and that the guard let it in (CallAt).         *)
(***************************************************************************)
EXTENDS AccessControl, TLAPS

\* Past the guard, on the way to a save.
Assigning == {"assignPrivilege", "save"}
Saving == {"createRole", "reloaded"} \cup Assigning

\* looking and available hold entries of the call's own body; a createRole whose body
\* names no privileges goes by those of the row; the role of an assignPrivilege that has
\* read it goes on to exist; and a call that no other has cut into has seen the role as
\* it is.
CallAt(c) ==
    /\ phase[c] = "idle" => looking[c] = {} /\ available[c] = {}
    /\ looking[c] # {} => looking[c] \subseteq req[c].entries /\ req[c].op = "assignPrivilege"
    /\ phase[c] \in Saving =>
          /\ c \in entitled
          /\ req[c] \in Request /\ req[c].role \in Roles
          /\ phase[c] \in Assigning => req[c].op = "assignPrivilege"
          /\ phase[c] = "createRole" => req[c].op = "createRole" /\ available[c] = {}
          /\ req[c].op = "assignPrivilege" => req[c].entries # Absent
          /\ req[c].entries # Absent => available[c] \subseteq req[c].entries
          /\ req[c].entries = Absent => Ids(available[c]) \subseteq Held(seen[c])
          /\ req[c].op = "assignPrivilege" => Ids(available[c]) \subseteq privileges
    /\ phase[c] \in {"save", "reloaded"} /\ req[c].op = "assignPrivilege" =>
          grants[req[c].role] # Absent
    /\ phase[c] = "reloaded" =>
          /\ Held(seen[c]) \subseteq privileges
          /\ c \in alone => seen[c] = grants[req[c].role]
          /\ seen[c] # Absent => grants[req[c].role] # Absent

Inductive == TypeOK /\ \A c \in Calls : CallAt(c)

-----------------------------------------------------------------------------
\* What a step of call c leaves alone.
OthersSame(c) ==
    \A d \in Calls \ {c} :
        /\ phase'[d] = phase[d] /\ req'[d] = req[d] /\ looking'[d] = looking[d]
        /\ available'[d] = available[d] /\ seen'[d] = seen[d]

\* A step of one call that leaves the join table alone keeps Inductive, if it keeps what
\* holds of that call.
LEMMA QuietStep ==
    ASSUME Inductive, NEW c \in Calls, OthersSame(c), TypeOK', CallAt(c)',
           UNCHANGED <<grants, alone>>, privileges \subseteq privileges',
           entitled \subseteq entitled'
    PROVE  Inductive'
<1>1. ASSUME NEW d \in Calls PROVE CallAt(d)'
  BY DEF Inductive, OthersSame, CallAt
<1>2. QED BY <1>1 DEF Inductive

LEMMA InitInductive == Init => Inductive
<1> SUFFICES ASSUME Init PROVE Inductive
  OBVIOUS
<1>1. TypeOK
  BY DEF Init, TypeOK, Ids
<1>2. \A c \in Calls : CallAt(c)
  BY DEF Init, CallAt, Assigning, Saving
<1>3. QED BY <1>1, <1>2 DEF Inductive

\* A caller is let in only by a role that holds what the route requires.
LEMMA AdmitStep ==
    ASSUME Inductive, NEW c \in Calls, NEW caller \in Roles,
           NEW op \in {"createRole", "createPrivilege", "assignPrivilege"},
           NEW role \in Roles \cup {Absent}, NEW entries \in (SUBSET Entry) \cup {Absent},
           op # "createPrivilege" => role \in Roles,
           op = "assignPrivilege" => entries # Absent,
           Admit(c, caller, op, role, entries)
    PROVE  Inductive'
<1>1. /\ phase' \in [Calls -> {"idle", "createRole", "createPrivilege", "assignPrivilege",
                               "save", "reloaded", "done", "lost"}]
      /\ phase'[c] \in {op, "done"} /\ \A d \in Calls \ {c} : phase'[d] = phase[d]
      /\ answer' \in [Calls -> {"none", "ok", "forbidden", "error"}]
      /\ entitled \subseteq entitled' /\ entitled' \subseteq Calls
  BY DEF Inductive, TypeOK, Admit, Goto, Finish
<1> DEFINE q == [op |-> op, role |-> role, entries |-> entries]
<1>2. /\ q \in Request /\ q.role = role /\ q.entries = entries /\ q.op = op
      /\ phase'[c] # "done" => req' = [req EXCEPT ![c] = q] /\ c \in entitled'
      /\ phase'[c] = "done" => req' = req
  <2>1. q \in Request /\ q.role = role /\ q.entries = entries /\ q.op = op
    BY DEF Request
  <2>2. CASE CanActivate(grants[caller], op)
    BY <2>1, <2>2, <1>1 DEF Admit, CanActivate, Goto, Inductive, TypeOK
  <2>3. CASE ~CanActivate(grants[caller], op)
    BY <2>1, <2>3 DEF Admit, Finish, Inductive, TypeOK
  <2>4. QED BY <2>2, <2>3
<1> HIDE DEF q
<1>3. /\ req' \in [Calls -> {Absent} \cup Request]
      /\ \A d \in Calls \ {c} : req'[d] = req[d]
      /\ phase'[c] # "done" => req'[c] = q
  BY <1>2 DEF Inductive, TypeOK
<1>4. looking'[c] = {} /\ available'[c] = {} /\ phase[c] = "idle"
  BY DEF Inductive, CallAt, Admit, At
<1>5. TypeOK'
  BY <1>1, <1>3, <1>4 DEF Inductive, TypeOK, Admit, Ids
<1>6. CallAt(c)'
  BY <1>1, <1>2, <1>3, <1>4 DEF CallAt, Assigning, Saving, Ids
<1>7. OthersSame(c)
  BY <1>1, <1>3 DEF OthersSame, Admit
<1>8. QED BY <1>1, <1>5, <1>6, <1>7, QuietStep DEF Admit

\* The privileges of a row that exists have rows.
LEMMA HeldExist ==
    ASSUME TypeOK, NEW r \in Roles
    PROVE  /\ grants[r] \in (SUBSET privileges) \cup {Absent}
           /\ Held(grants[r]) \subseteq privileges /\ privileges \subseteq Privileges
BY DEF TypeOK, Held

\* What createRole is about to save are the entries of its body, or the row's own.
LEMMA CreateRoleStep ==
    ASSUME Inductive, NEW c \in Calls, CreateRole(c)
    PROVE  Inductive'
<1> DEFINE row == grants[req[c].role]
<1>1. /\ phase[c] = "createRole" /\ c \in entitled /\ req[c] \in Request /\ req[c].role \in Roles
      /\ req[c].op = "createRole" /\ looking[c] \in SUBSET Entry /\ available[c] = {}
      /\ req[c].entries \in (SUBSET Entry) \cup {Absent}
      /\ looking[c] = {}
  BY DEF Inductive, TypeOK, CreateRole, At, CallAt, Saving, Request
<1>2. /\ row \in (SUBSET privileges) \cup {Absent}
      /\ Held(row) \subseteq privileges /\ privileges \subseteq Privileges
  BY <1>1, HeldExist DEF Inductive
<1> HIDE DEF row
<1>3. /\ phase' \in [Calls -> {"idle", "createRole", "createPrivilege", "assignPrivilege",
                               "save", "reloaded", "done", "lost"}]
      /\ phase'[c] \in {"reloaded", "done"} /\ \A d \in Calls \ {c} : phase'[d] = phase[d]
      /\ answer' \in [Calls -> {"none", "ok", "forbidden", "error"}]
  BY DEF Inductive, TypeOK, CreateRole, Goto, Finish
<1> DEFINE list == IF req[c].entries = Absent THEN Held(row) \X {1} ELSE req[c].entries
<1>4. /\ list \in SUBSET Entry
      /\ req[c].entries # Absent => list = req[c].entries
      /\ req[c].entries = Absent => Ids(list) \subseteq Held(row)
  BY <1>1, <1>2 DEF Entry, Ids
<1>5. \/ /\ phase'[c] = "reloaded"
         /\ available' = [available EXCEPT ![c] = list] /\ seen' = [seen EXCEPT ![c] = row]
      \/ phase'[c] = "done" /\ UNCHANGED <<available, seen>>
  BY DEF CreateRole, Goto, Finish, row, Inductive, TypeOK
<1> HIDE DEF list
<1>6. /\ available' \in [Calls -> SUBSET Entry]
      /\ seen' \in [Calls -> (SUBSET Privileges) \cup {Absent}]
      /\ \A d \in Calls \ {c} : available'[d] = available[d] /\ seen'[d] = seen[d]
      /\ phase'[c] = "reloaded" => available'[c] = list /\ seen'[c] = row
  BY <1>2, <1>4, <1>5 DEF Inductive, TypeOK
<1>7. UNCHANGED <<privileges, grants, req, looking, alone, entitled>>
  BY DEF CreateRole
<1>8. TypeOK'
  BY <1>1, <1>3, <1>6, <1>7 DEF Inductive, TypeOK
<1>9. CallAt(c)'
  BY <1>1, <1>2, <1>3, <1>4, <1>6, <1>7 DEF CallAt, Assigning, Saving, row
<1>10. OthersSame(c)
  BY <1>3, <1>6, <1>7 DEF OthersSame
<1>11. QED BY <1>7, <1>8, <1>9, <1>10, QuietStep

LEMMA CreatePrivilegeStep ==
    ASSUME Inductive, NEW c \in Calls, CreatePrivilege(c)
    PROVE  Inductive'
<1>1. /\ phase' = [phase EXCEPT ![c] = "done"]
      /\ answer' \in [Calls -> {"none", "ok", "forbidden", "error"}]
      /\ privileges \subseteq privileges' /\ privileges' \subseteq Privileges
  BY DEF Inductive, TypeOK, CreatePrivilege, Finish
<1>2. TypeOK'
  BY <1>1 DEF Inductive, TypeOK, CreatePrivilege, Ids
<1>3. CallAt(c)'
  BY <1>1 DEF Inductive, TypeOK, CreatePrivilege, CallAt, Assigning, Saving
<1>4. OthersSame(c)
  BY <1>1 DEF Inductive, TypeOK, CreatePrivilege, OthersSame
<1>5. QED BY <1>1, <1>2, <1>3, <1>4, QuietStep DEF CreatePrivilege

LEMMA FindRoleStep ==
    ASSUME Inductive, NEW c \in Calls, FindRole(c)
    PROVE  Inductive'
<1>1. /\ phase[c] = "assignPrivilege" /\ req[c].op = "assignPrivilege" /\ c \in entitled
      /\ req[c] \in Request /\ req[c].role \in Roles /\ req[c].entries \in SUBSET Entry
      /\ available[c] \subseteq req[c].entries /\ Ids(available[c]) \subseteq privileges
      /\ looking[c] # {} => looking[c] \subseteq req[c].entries
      /\ req[c].entries # Absent
  BY DEF Inductive, FindRole, At, CallAt, Assigning, Saving, Request
<1>2. /\ phase' \in [Calls -> {"idle", "createRole", "createPrivilege", "assignPrivilege",
                               "save", "reloaded", "done", "lost"}]
      /\ answer' \in [Calls -> {"none", "ok", "forbidden", "error"}]
      /\ \A d \in Calls \ {c} : phase'[d] = phase[d]
      /\ phase'[c] \in {"save", "done"}
      /\ phase'[c] = "save" => grants[req[c].role] # Absent
  BY DEF Inductive, TypeOK, FindRole, Goto, Finish
<1>3. /\ looking' \in [Calls -> SUBSET Entry]
      /\ \A d \in Calls \ {c} : looking'[d] = looking[d]
      /\ looking'[c] \in {looking[c], req[c].entries}
  BY <1>1 DEF Inductive, TypeOK, FindRole
<1>4. UNCHANGED <<privileges, grants, req, available, seen, alone, entitled>>
  BY DEF FindRole
<1>5. TypeOK'
  BY <1>1, <1>2, <1>3, <1>4 DEF Inductive, TypeOK
<1>6. CallAt(c)'
  BY <1>1, <1>2, <1>3, <1>4 DEF CallAt, Assigning, Saving
<1>7. OthersSame(c)
  BY <1>2, <1>3, <1>4 DEF OthersSame
<1>8. QED BY <1>4, <1>5, <1>6, <1>7, QuietStep

LEMMA LookupStep ==
    ASSUME Inductive, NEW c \in Calls, NEW e \in Entry, Lookup(c, e)
    PROVE  Inductive'
<1>1. /\ looking' \in [Calls -> SUBSET Entry]
      /\ \A d \in Calls \ {c} : looking'[d] = looking[d]
      /\ looking'[c] \subseteq looking[c] /\ e \in looking[c]
  BY DEF Inductive, TypeOK, Lookup
<1>2. /\ available' \in [Calls -> SUBSET Entry]
      /\ \A d \in Calls \ {c} : available'[d] = available[d]
      /\ \/ available'[c] = available[c]
         \/ /\ available'[c] = available[c] \cup {e} /\ e[1] \in privileges
            /\ phase[c] # "idle"
  BY DEF Inductive, TypeOK, Lookup, Running
<1>3. UNCHANGED <<privileges, grants, phase, req, seen, answer, alone, entitled>>
  BY DEF Lookup
<1>4. CallAt(c)
  BY DEF Inductive
<1>5. looking[c] \subseteq req[c].entries /\ req[c].op = "assignPrivilege"
  BY <1>1, <1>4 DEF CallAt
<1>6. TypeOK'
  BY <1>1, <1>2, <1>3 DEF Inductive, TypeOK, Ids
<1>7. CallAt(c)'
  BY <1>1, <1>2, <1>3, <1>4, <1>5 DEF CallAt, Assigning, Saving, Ids
<1>8. OthersSame(c)
  BY <1>1, <1>2, <1>3 DEF OthersSame
<1>9. QED BY <1>3, <1>6, <1>7, <1>8, QuietStep

\* The end of the process takes calls away and adds nothing to those that go on.
LEMMA LookupFailsStep ==
    ASSUME Inductive, NEW c \in Calls, LookupFails(c)
    PROVE  Inductive'
<1>1. /\ phase' \in [Calls -> {"idle", "createRole", "createPrivilege", "assignPrivilege",
                               "save", "reloaded", "done", "lost"}]
      /\ \A d \in Calls : phase'[d] \in {phase[d], "lost"}
  BY DEF Inductive, TypeOK, LookupFails
<1>2. /\ looking' \in [Calls -> SUBSET Entry]
      /\ \A d \in Calls : looking'[d] \in {looking[d], {}}
  BY DEF Inductive, TypeOK, LookupFails
<1>3. /\ available' \in [Calls -> SUBSET Entry]
      /\ \A d \in Calls : available'[d] \in {available[d], {}}
  BY DEF Inductive, TypeOK, LookupFails
<1>4. UNCHANGED <<privileges, grants, req, seen, answer, alone, entitled>>
  BY DEF LookupFails
<1>5. TypeOK'
  BY <1>1, <1>2, <1>3, <1>4 DEF Inductive, TypeOK, Ids
<1>6. ASSUME NEW d \in Calls PROVE CallAt(d)'
  <2>1. CallAt(d) /\ phase'[d] \in {phase[d], "lost"} /\ looking'[d] \in {looking[d], {}}
    BY <1>1, <1>2 DEF Inductive
  <2>2. phase'[d] # "lost" => available'[d] = available[d]
    BY DEF LookupFails, Inductive, TypeOK
  <2>3. CASE phase'[d] = "lost"
    BY <1>4, <2>1, <2>3 DEF CallAt, Assigning, Saving
  <2>4. CASE phase'[d] # "lost"
    BY <1>4, <2>1, <2>2, <2>4 DEF CallAt, Assigning, Saving
  <2>5. QED BY <2>3, <2>4
<1>7. QED BY <1>5, <1>6 DEF Inductive

LEMMA ReloadStep ==
    ASSUME Inductive, NEW c \in Calls, Reload(c)
    PROVE  Inductive'
<1>1. /\ req[c].role \in Roles /\ grants[req[c].role] # Absent /\ req[c].op = "assignPrivilege"
      /\ grants[req[c].role] \in SUBSET privileges
  BY DEF Inductive, TypeOK, Reload, At, CallAt, Assigning, Saving
<1>2. phase' = [phase EXCEPT ![c] = "reloaded"]
  BY DEF Reload, Goto
<1>3. seen' = [seen EXCEPT ![c] = grants[req[c].role]]
  BY DEF Reload
<1>4. TypeOK'
  <2>1. /\ phase' \in [Calls -> {"idle", "createRole", "createPrivilege", "assignPrivilege",
                                 "save", "reloaded", "done", "lost"}]
        /\ seen' \in [Calls -> (SUBSET Privileges) \cup {Absent}]
    BY <1>1, <1>2, <1>3 DEF Inductive, TypeOK
  <2>2. ASSUME NEW d \in Calls, phase'[d] \in {"save", "reloaded"},
               req'[d].op = "assignPrivilege"
        PROVE  Ids(available'[d]) \subseteq privileges'
    <3>1. phase[d] \in {"save", "reloaded"}
      BY <1>2, <2>2 DEF Inductive, TypeOK, Reload, At
    <3>2. UNCHANGED <<privileges, req, available>>
      BY DEF Reload
    <3>3. QED BY <2>2, <3>1, <3>2 DEF Inductive, TypeOK
  <2>3. QED BY <2>1, <2>2 DEF Inductive, TypeOK, Reload, Goto
<1>5. CallAt(c)'
  <2>1. CallAt(c) /\ phase[c] = "save" /\ phase'[c] = "reloaded" /\ seen'[c] = grants[req[c].role]
    BY <1>2, <1>3 DEF Inductive, TypeOK, Reload, At
  <2>2. UNCHANGED <<privileges, grants, req, looking, available, alone, entitled>>
    BY DEF Reload
  <2>3. QED BY <1>1, <2>1, <2>2 DEF CallAt, Assigning, Saving, Held
<1>6. OthersSame(c)
  BY <1>2 DEF Inductive, TypeOK, Reload, OthersSame
<1>7. QED BY <1>4, <1>5, <1>6, QuietStep DEF Reload

-----------------------------------------------------------------------------
\* What a save that nothing cut into computes: the old privileges that the array names
\* are kept, the rest of the array is inserted, and the rest of the role deleted.
LEMMA Difference ==
    ASSUME NEW c, NEW row, seen[c] = row
    PROVE  (Held(row) \cup Ids(Inserted(c))) \ Deleted(c) = Ids(available[c])
BY DEF Inserted, Deleted, Ids

\* Every privilege that a save adds was named by its call.
LEMMA InsertedWasNamed ==
    ASSUME Inductive, NEW c \in Calls, phase[c] = "reloaded"
    PROVE  /\ Ids(Inserted(c)) \subseteq Ids(available[c])
           /\ Ids(Inserted(c)) \subseteq Named(c)
<1>1. /\ req[c].entries # Absent => available[c] \subseteq req[c].entries
      /\ req[c].entries = Absent => Ids(available[c]) \subseteq Held(seen[c])
  BY DEF Inductive, CallAt, Saving
<1>2. Ids(Inserted(c)) \subseteq Ids(available[c])
  BY DEF Inserted, Ids
<1>3. CASE req[c].entries # Absent
  BY <1>1, <1>2, <1>3 DEF Named, Ids
<1>4. CASE req[c].entries = Absent
  <2>1. Inserted(c) = {}
    BY <1>1, <1>4 DEF Inserted, Ids
  <2>2. QED BY <1>2, <2>1 DEF Ids
<1>5. QED BY <1>2, <1>3, <1>4

\* What a save writes, or leaves.
LEMMA SaveWrites ==
    ASSUME Inductive, NEW c \in Calls, Save(c)
    PROVE  LET r == req[c].role
               new == (Held(grants[r]) \cup Ids(Inserted(c))) \ Deleted(c)
           IN  /\ phase[c] = "reloaded" /\ c \in entitled /\ r \in Roles
               /\ phase' = [phase EXCEPT ![c] = "done"]
               /\ privileges \subseteq privileges' /\ privileges' \subseteq Privileges
               /\ \/ UNCHANGED <<grants, privileges>>
                  \/ grants' = [grants EXCEPT ![r] = new] /\ new \in SUBSET privileges'
<1> DEFINE r == req[c].role
           new == (Held(grants[r]) \cup Ids(Inserted(c))) \ Deleted(c)
<1>1. phase[c] = "reloaded" /\ c \in entitled /\ r \in Roles
  BY DEF Inductive, Save, At, CallAt, Saving
<1>2. phase' = [phase EXCEPT ![c] = "done"]
  BY DEF Save, Finish
<1>3. /\ Held(grants[r]) \subseteq privileges /\ privileges \subseteq Privileges
      /\ Held(seen[c]) \subseteq privileges
  BY <1>1, HeldExist DEF Inductive, CallAt
<1>4. Ids(Inserted(c)) \subseteq Ids(available[c]) /\ Ids(available[c]) \subseteq Privileges
  <2>1. available[c] \in SUBSET (Privileges \X {1, 2})
    BY DEF Inductive, TypeOK, Entry
  <2>2. Ids(available[c]) \subseteq Privileges
    BY <2>1 DEF Ids
  <2>3. QED BY <1>1, <2>2, InsertedWasNamed
<1>5. CASE UNCHANGED <<grants, privileges>>
  BY <1>1, <1>2, <1>3, <1>5
<1>6. CASE /\ grants' = [grants EXCEPT ![r] = new]
           /\ privileges' = privileges \cup Ids(available[c])
  BY <1>1, <1>2, <1>3, <1>4, <1>6
<1>7. QED BY <1>5, <1>6 DEF Save

LEMMA SaveStep ==
    ASSUME Inductive, NEW c \in Calls, Save(c)
    PROVE  Inductive'
<1> DEFINE role == req[c].role
           new == (Held(grants[role]) \cup Ids(Inserted(c))) \ Deleted(c)
<1>1. /\ role \in Roles /\ phase' = [phase EXCEPT ![c] = "done"]
      /\ privileges \subseteq privileges' /\ privileges' \subseteq Privileges
      /\ \/ UNCHANGED grants
         \/ grants' = [grants EXCEPT ![role] = new] /\ new \in SUBSET privileges'
  BY SaveWrites
<1>2. new \in SUBSET privileges' => new # Absent
  BY <1>1, AccessNames
<1> HIDE DEF new
<1>3. /\ grants' \in [Roles -> (SUBSET privileges') \cup {Absent}]
      /\ \A r \in Roles \ {role} : grants'[r] = grants[r]
      /\ \A r \in Roles : grants[r] # Absent => grants'[r] # Absent
  BY <1>1, <1>2 DEF Inductive, TypeOK
<1>4. /\ answer' \in [Calls -> {"none", "ok", "forbidden", "error"}]
      /\ available' = [available EXCEPT ![c] = {}] /\ seen' = [seen EXCEPT ![c] = {}]
      /\ alone' \subseteq alone
      /\ \A d \in alone' \ {c} : phase[d] = "reloaded" => req[d].role # role
      /\ UNCHANGED <<req, looking, entitled>>
  BY DEF Inductive, TypeOK, Save, Finish
<1>5. \A d \in Calls : Ids(available'[d]) \subseteq Ids(available[d])
  <2>1. ASSUME NEW d \in Calls, NEW e \in available'[d] PROVE e \in available[d]
    BY <1>4, <2>1 DEF Inductive, TypeOK
  <2>2. QED BY <2>1 DEF Ids
<1>6. TypeOK'
  <2>1. /\ phase' \in [Calls -> {"idle", "createRole", "createPrivilege", "assignPrivilege",
                                 "save", "reloaded", "done", "lost"}]
        /\ \A d \in Calls : phase'[d] \in {phase[d], "done"}
    BY <1>1 DEF Inductive, TypeOK
  <2>2. /\ available' \in [Calls -> SUBSET Entry]
        /\ seen' \in [Calls -> (SUBSET Privileges) \cup {Absent}]
    BY <1>4 DEF Inductive, TypeOK
  <2>3. ASSUME NEW d \in Calls, phase'[d] \in {"save", "reloaded"},
               req'[d].op = "assignPrivilege"
        PROVE  Ids(available'[d]) \subseteq privileges'
    BY <1>1, <1>4, <1>5, <2>1, <2>3 DEF Inductive, TypeOK
  <2>4. QED BY <1>1, <1>3, <1>4, <2>1, <2>2, <2>3 DEF Inductive, TypeOK
<1>7. ASSUME NEW d \in Calls PROVE CallAt(d)'
  <2>1. CASE d = c
    BY <2>1, <1>1, <1>4 DEF Inductive, TypeOK, CallAt, Assigning, Saving
  <2>2. CASE d # c
    <3>1. /\ CallAt(d) /\ phase'[d] = phase[d] /\ available'[d] = available[d]
          /\ seen'[d] = seen[d] /\ req'[d] = req[d] /\ looking'[d] = looking[d]
      BY <2>2, <1>1, <1>4 DEF Inductive, TypeOK
    <3>2. phase[d] \in Saving => req[d].role \in Roles
      BY <3>1 DEF CallAt
    <3>3. QED BY <3>1, <3>2, <2>2, <1>1, <1>3, <1>4 DEF CallAt, Assigning, Saving
  <2>3. QED BY <2>1, <2>2
<1>8. QED BY <1>6, <1>7 DEF Inductive

-----------------------------------------------------------------------------
THEOREM InductiveHolds == Spec => []Inductive
<1>1. Inductive /\ [Next]_vars => Inductive'
  <2> SUFFICES ASSUME Inductive, [Next]_vars PROVE Inductive'
    OBVIOUS
  <2>1. ASSUME NEW c \in Calls, NEW caller \in Roles,
               Admit(c, caller, "createPrivilege", Absent, Absent)
        PROVE  Inductive'
    BY <2>1, AdmitStep
  <2>2. ASSUME NEW c \in Calls, NEW caller \in Roles, NEW r \in Roles,
               \/ \E entries \in Bodies : Admit(c, caller, "assignPrivilege", r, entries)
               \/ \E entries \in Bodies \cup {Absent} :
                     Admit(c, caller, "createRole", r, entries)
        PROVE  Inductive'
    <3>1. \A entries \in Bodies : entries \in SUBSET Entry /\ entries # Absent
      BY AccessNames DEF Entry
    <3>2. QED BY <2>2, <3>1, AdmitStep
  <2>3. ASSUME NEW c \in Calls, NEW e \in Entry, Lookup(c, e) PROVE Inductive'
    BY <2>3, LookupStep
  <2>4. ASSUME NEW c \in Calls, CreateRole(c) PROVE Inductive'
    BY <2>4, CreateRoleStep
  <2>5. ASSUME NEW c \in Calls, CreatePrivilege(c) PROVE Inductive'
    BY <2>5, CreatePrivilegeStep
  <2>6. ASSUME NEW c \in Calls, FindRole(c) PROVE Inductive'
    BY <2>6, FindRoleStep
  <2>7. ASSUME NEW c \in Calls, LookupFails(c) PROVE Inductive'
    BY <2>7, LookupFailsStep
  <2>8. ASSUME NEW c \in Calls, Reload(c) PROVE Inductive'
    BY <2>8, ReloadStep
  <2>9. ASSUME NEW c \in Calls, Save(c) PROVE Inductive'
    BY <2>9, SaveStep
  <2>10. CASE UNCHANGED vars
    <3>1. UNCHANGED <<privileges, grants, phase, req, looking, available, seen, answer, alone,
                      entitled>>
      BY <2>10 DEF vars
    <3>2. QED BY <3>1 DEF Inductive, TypeOK, CallAt, Ids
  <2>11. QED BY <2>1, <2>2, <2>3, <2>4, <2>5, <2>6, <2>7, <2>8, <2>9, <2>10 DEF Next
<1>2. QED BY <1>1, InitInductive, PTL DEF Spec

\* The tables and the calls' variables have the types that TypeOK gives them: no role
\* holds a privilege without a row, and what assignPrivilege is about to save has rows.
THEOREM TypeCorrect == Spec => []TypeOK
<1>1. Inductive => TypeOK
  BY DEF Inductive
<1>2. QED BY <1>1, InductiveHolds, PTL

\* The one step that changes a role is a save.
LEMMA OnlySavesWrite ==
    ASSUME TypeOK, [Next]_vars, grants' # grants
    PROVE  \E c \in Calls : Save(c)
<1>1. ASSUME NEW c \in Calls, NEW caller, NEW op, NEW role, NEW entries,
             Admit(c, caller, op, role, entries)
      PROVE  FALSE
  BY <1>1 DEF Admit
<1>2. ASSUME NEW c \in Calls,
             \/ CreateRole(c) \/ CreatePrivilege(c) \/ FindRole(c) \/ LookupFails(c)
             \/ Reload(c)
      PROVE  FALSE
  BY <1>2 DEF CreateRole, CreatePrivilege, FindRole, LookupFails, Reload
<1>3. ASSUME NEW c \in Calls, NEW e \in Entry, Lookup(c, e) PROVE FALSE
  BY <1>3 DEF Lookup
<1>4. CASE UNCHANGED vars
  BY <1>4 DEF vars
<1>5. QED BY <1>1, <1>2, <1>3, <1>4 DEF Next

\* What the save that changes a role tells of its call.
LEMMA WhoWrote ==
    ASSUME Inductive, [Next]_vars, NEW r \in Roles, grants'[r] # grants[r]
    PROVE  \E c \in Calls :
              /\ Saves(c) /\ req[c].role = r /\ c \in entitled
              /\ grants'[r] = (Held(grants[r]) \cup Ids(Inserted(c))) \ Deleted(c)
              /\ grants'[r] # Absent
<1>1. PICK c \in Calls : Save(c)
  BY OnlySavesWrite DEF Inductive
<1> DEFINE role == req[c].role
           new == (Held(grants[role]) \cup Ids(Inserted(c))) \ Deleted(c)
<1>2. /\ phase[c] = "reloaded" /\ c \in entitled /\ phase' = [phase EXCEPT ![c] = "done"]
      /\ privileges' \subseteq Privileges
      /\ \/ UNCHANGED grants
         \/ grants' = [grants EXCEPT ![role] = new] /\ new \in SUBSET privileges'
  BY <1>1, SaveWrites
<1>3. new \in SUBSET privileges' => new # Absent
  BY <1>2, AccessNames
<1> HIDE DEF new
<1>4. role = r /\ grants'[r] = new /\ new # Absent
  BY <1>2, <1>3 DEF Inductive, TypeOK
<1>5. Saves(c)
  BY <1>2 DEF Saves, At, Inductive, TypeOK
<1>6. QED BY <1>2, <1>4, <1>5 DEF new

\* The row of a role comes and changes only by the save of a call that names it and whose
\* caller held what the route requires when the guard looked.
THEOREM ChangesAreByTheEntitled == Spec => ChangesByTheEntitled
<1> DEFINE Entitled ==
      \A r \in Roles : grants'[r] # grants[r] =>
          \E c \in entitled : Saves(c) /\ req[c].role = r
<1>1. Inductive /\ [Next]_vars => Entitled
  BY WhoWrote
<1>2. QED BY <1>1, InductiveHolds, PTL DEF Spec, ChangesByTheEntitled, Entitled

\* A role gains a privilege only by the save of a call that named both.
THEOREM GainsWereNamed == Spec => GrantedOnlyWhenNamed
<1> DEFINE Gains ==
      \A r \in Roles : \A p \in Held(grants'[r]) \ Held(grants[r]) :
          \E c \in Calls : Saves(c) /\ req[c].role = r /\ p \in Named(c)
<1>1. Inductive /\ [Next]_vars => Gains
  <2> SUFFICES ASSUME Inductive, [Next]_vars, NEW r \in Roles,
                      NEW p \in Held(grants'[r]) \ Held(grants[r])
               PROVE  \E c \in Calls : Saves(c) /\ req[c].role = r /\ p \in Named(c)
    OBVIOUS
  <2>1. grants'[r] # grants[r]
    OBVIOUS
  <2>2. PICK c \in Calls :
              /\ Saves(c) /\ req[c].role = r
              /\ grants'[r] = (Held(grants[r]) \cup Ids(Inserted(c))) \ Deleted(c)
              /\ grants'[r] # Absent
    BY <2>1, WhoWrote
  <2>3. p \in Ids(Inserted(c))
    BY <2>2 DEF Held
  <2>4. p \in Named(c)
    BY <2>2, <2>3, InsertedWasNamed DEF Saves, At
  <2>5. QED BY <2>2, <2>4
<1>2. QED BY <1>1, InductiveHolds, PTL DEF Spec, GrantedOnlyWhenNamed, Gains

\* A call that no other save on its role cuts into leaves the role with what it found of
\* the named privileges, or as it was: Difference on a role that was seen as it is.
THEOREM LoneCallsReplace == Spec => LoneCallReplaces
<1> DEFINE Replaces ==
      \A c \in alone : Saves(c) =>
          grants'[req[c].role] \in {grants[req[c].role], Ids(available[c])}
<1>1. Inductive /\ [Next]_vars => Replaces
  <2> SUFFICES ASSUME Inductive, [Next]_vars, NEW c \in alone, Saves(c),
                      grants'[req[c].role] # grants[req[c].role]
               PROVE  grants'[req[c].role] = Ids(available[c])
    OBVIOUS
  <2>1. /\ c \in Calls /\ phase[c] = "reloaded" /\ phase'[c] = "done"
        /\ req[c].role \in Roles /\ seen[c] = grants[req[c].role]
    BY DEF Inductive, TypeOK, Saves, At, CallAt, Saving
  <2>2. PICK d \in Calls :
              /\ Saves(d) /\ req[d].role = req[c].role
              /\ grants'[req[c].role] =
                    (Held(grants[req[c].role]) \cup Ids(Inserted(d))) \ Deleted(d)
    BY <2>1, WhoWrote
  <2>3. d = c
    <3>1. PICK e \in Calls : Save(e)
      BY <2>1, OnlySavesWrite DEF Inductive
    <3>2. \A x \in Calls : x # e => phase'[x] = phase[x]
      BY <3>1, SaveWrites DEF Inductive, TypeOK
    <3>3. QED BY <2>1, <2>2, <3>2 DEF Saves, At
  <2>4. QED BY <2>1, <2>2, <2>3, Difference
<1>2. QED BY <1>1, InductiveHolds, PTL DEF Spec, LoneCallReplaces, Replaces
=============================================================================
