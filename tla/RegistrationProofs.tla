------------------------- MODULE RegistrationProofs -------------------------
(***************************************************************************)
(* Theorems of Registration, for any number of calls, addresses and roles. *)
(* All of them follow from Inductive: what the code has established of a    *)
(* call at each phase (CallAt) and what holds of the users table (Rows).   *)
(***************************************************************************)
EXTENDS Registration, TLAPS

\* Past the interceptors: in AuthService.signUp.
Serving == {"findUser", "getRole", "reload", "save"}
Phases == {"idle", "validate", "done", "lost"} \cup Serving
Statuses == {0, 201, 400, 401, 403, 409, 429, 500}

\* Every row there has been.
Ever == users \cup past

\* What the status of a call says of the users table.
AnswerAt(c) ==
    /\ answer[c] = 201 =>
         \E u \in Ever :
            /\ u.by = c /\ u.id = IdOf(c)
            /\ Shared(c) \/ /\ u.email.address = req[c].body.email.address
                            /\ u.userRole = HandlerRole(req[c])
    /\ answer[c] = 409 =>
         \E u \in Ever :
            u.by # c /\ (u.email.address = req[c].body.email.address \/ u.id = IdOf(c))
    /\ answer[c] \notin {0, 201} /\ c \notin degraded => \A u \in Ever : u.by # c
    /\ answer[c] = 500 /\ installed = "AppModule" => c \in degraded

\* The row that save has reloaded is still there, and unless another call names it, it is
\* as it was.
SeenAt(c) ==
    seen[c] # None =>
        /\ req[c].body.id # None
        /\ \E u \in users : u.id = IdOf(c) /\ (Shared(c) \/ u = seen[c])

CallAt(c) ==
    /\ phase[c] = "idle" => req[c] = None
    /\ phase[c] \notin {"idle", "done"} => req[c] \in Request
    /\ phase[c] # "done" => answer[c] = 0 /\ c \notin degraded
    /\ phase[c] \notin {"done", "lost"} => \A u \in Ever : u.by # c
    /\ phase[c] \in Serving => (req[c].route = "register/admin" => c \in admitted)
    /\ phase[c] = "validate" => req[c].route = "register/admin"
    /\ phase[c] \in {"reload", "save"} => HandlerRole(req[c]) \in roles
    /\ phase[c] = "reload" => req[c].body.id # None
    /\ phase[c] \notin {"save", "done", "lost"} => seen[c] = None
    /\ phase[c] = "save" => SeenAt(c)
    /\ AnswerAt(c)

\* What holds of the users table: every address is in lower case, and so the
\* unique key makes the account of an address the only one; and an id has one row.
Rows ==
    /\ \A u \in users : u.email.typed = "lower"
    /\ \A u, v \in users : u.email.address = v.email.address => u = v
    /\ \A u, v \in users : u.id = v.id => u = v

Inductive == TypeOK /\ Rows /\ \A c \in Calls : CallAt(c)

-----------------------------------------------------------------------------
\* The statuses of the exceptions that the code throws.
LEMMA Catches ==
    /\ Catch("Error") = 500
    /\ Catch("TooManyRequests") = 429
    /\ Catch("Unauthorized") = 401
    /\ Catch("Forbidden") = 403
    /\ Catch(Rethrown("Conflict")) = 409
    /\ Catch(Rethrown("BadRequest")) = 400
BY DEF Catch, Rethrown

\* What a step of call c leaves alone.
OthersSame(c) ==
    \A d \in Calls \ {c} :
        /\ phase'[d] = phase[d] /\ answer'[d] = answer[d] /\ req'[d] = req[d]
        /\ seen'[d] = seen[d] /\ (d \in degraded' <=> d \in degraded)

\* What holds of a call goes on to hold while another acts.
LEMMA OtherCalls ==
    ASSUME Inductive, NEW c \in Calls, OthersSame(c), NEW d \in Calls, d # c,
           req[c] # None => req'[c] = req[c],
           admitted \subseteq admitted', installed' = installed, roles \subseteq roles',
           Ever \subseteq Ever', \A u \in Ever' \ Ever : u.by = c,
           \A u \in users : \E v \in users' : v.id = u.id,
           seen[d] # None /\ phase[d] = "save" /\ ~Shared(d) =>
              \A u \in users : u.id = IdOf(d) => u \in users'
    PROVE  CallAt(d)'
<1>1. CallAt(d)
  BY DEF Inductive
<1>2. /\ phase'[d] = phase[d] /\ answer'[d] = answer[d] /\ req'[d] = req[d]
      /\ seen'[d] = seen[d] /\ (d \in degraded' <=> d \in degraded)
  BY DEF OthersSame
<1>3. IdOf(d)' = IdOf(d) /\ HandlerRole(req[d])' = HandlerRole(req[d])
  BY <1>2 DEF IdOf, HandlerRole
<1>4. Shared(d) => Shared(d)'
  <2> SUFFICES ASSUME NEW e \in Calls \ {d}, req[e] # None, req[e].body.id = IdOf(d)
               PROVE  Shared(d)'
    BY DEF Shared
  <2>1. req'[e] = req[e]
    BY DEF OthersSame
  <2>2. QED BY <1>3, <2>1 DEF Shared
<1>5. AnswerAt(d)'
  BY <1>1, <1>2, <1>3, <1>4 DEF CallAt, AnswerAt
<1>6. phase[d] \notin {"done", "lost"} => \A u \in Ever' : u.by # d
  BY <1>1 DEF CallAt
<1>7. phase[d] = "save" => SeenAt(d)'
  BY <1>1, <1>2, <1>3, <1>4 DEF CallAt, SeenAt
<1>8. QED BY <1>1, <1>2, <1>3, <1>5, <1>6, <1>7 DEF CallAt

\* A step of one call that leaves the tables alone keeps Inductive, if it keeps what
\* holds of that call.
LEMMA QuietStep ==
    ASSUME Inductive, NEW c \in Calls, OthersSame(c), TypeOK', CallAt(c)',
           req[c] # None => req'[c] = req[c],
           admitted \subseteq admitted', UNCHANGED <<installed, tables, past>>
    PROVE  Inductive'
<1>1. Rows'
  BY DEF Inductive, Rows, tables
<1>2. ASSUME NEW d \in Calls, d # c PROVE CallAt(d)'
  <2>1. Ever' = Ever /\ users' = users /\ roles' = roles
    BY DEF Ever, tables
  <2>2. QED BY <1>2, <2>1, OtherCalls
<1>3. QED BY <1>1, <1>2 DEF Inductive

-----------------------------------------------------------------------------
\* The row that call c writes.
Row(c, n) ==
    /\ n \in User /\ n.by = c /\ n.id = IdOf(c) /\ n.email.typed = "lower"
    /\ n.userRole \in roles
    /\ Shared(c) \/ /\ n.email.address = req[c].body.email.address
                    /\ n.userRole = HandlerRole(req[c])
    /\ n.userRole = "ADMIN" =>
          c \in admitted \/ \E v \in users : v.id = n.id /\ v.userRole = "ADMIN"
    /\ n.isEmailVerified =>
          \/ req[c].body.isEmailVerified = TRUE
          \/ \E v \in users : v.id = req[c].body.id /\ v.isEmailVerified

\* What is known of a call that is about to write.
LEMMA Writer ==
    ASSUME Inductive, NEW c \in Calls, phase[c] = "save"
    PROVE  /\ req[c] \in Request /\ req[c].body \in CreateUserDto
           /\ Stored(req[c].body.email) \in Email
           /\ Stored(req[c].body.email).typed = "lower"
           /\ Stored(req[c].body.email).address = req[c].body.email.address
           /\ HandlerRole(req[c]) \in roles /\ roles \subseteq RoleNames
           /\ HandlerRole(req[c]) = "ADMIN" => c \in admitted
           /\ IdOf(c) \in Ids
<1>1. req[c] \in Request /\ HandlerRole(req[c]) \in roles
  BY DEF Inductive, CallAt
<1>2. req[c].body \in CreateUserDto
  BY <1>1, RegistrationConstants DEF Request
<1>3. req[c].body.email \in Email /\ req[c].body.id \in Ids \cup {None}
  BY <1>2 DEF CreateUserDto
<1>4. /\ Stored(req[c].body.email) \in Email
      /\ Stored(req[c].body.email).typed = "lower"
      /\ Stored(req[c].body.email).address = req[c].body.email.address
  BY <1>3 DEF Stored, Lower, Email
<1>5. HandlerRole(req[c]) = "ADMIN" => c \in admitted
  BY DEF HandlerRole, Inductive, CallAt, Serving
<1>6. IdOf(c) \in Ids
  BY <1>3 DEF IdOf, Ids
<1>7. QED BY <1>1, <1>2, <1>4, <1>5, <1>6 DEF Inductive, TypeOK

LEMMA NewUserRow ==
    ASSUME Inductive, NEW c \in Calls, phase[c] = "save"
    PROVE  Row(c, NewUser(c))
<1> DEFINE n == NewUser(c)
<1>1. /\ n.id = IdOf(c) /\ n.email = Stored(req[c].body.email)
      /\ n.userRole = HandlerRole(req[c]) /\ n.by = c
      /\ n.isEmailVerified = (req[c].body.isEmailVerified = TRUE)
  BY DEF NewUser
<1>2. n \in User
  BY Writer DEF NewUser, User
<1> HIDE DEF n
<1>3. QED BY <1>1, <1>2, Writer DEF Row, n

LEMMA UpdatedRow ==
    ASSUME Inductive, NEW c \in Calls, phase[c] = "save", seen[c] # None,
           NEW u \in users, u.id = IdOf(c)
    PROVE  Row(c, Updated(c, u))
<1>1. u \in User /\ u.email.typed = "lower" /\ u.userRole \in roles /\ seen[c] \in User
  BY DEF Inductive, TypeOK, Rows
<1>2. Shared(c) \/ u = seen[c]
  BY DEF Inductive, CallAt, SeenAt, Rows
<1>3. req[c].body.id = u.id
  BY DEF Inductive, CallAt, SeenAt, IdOf
<1>4. req[c].body.isEmailVerified \in BOOLEAN \cup {None}
  BY Writer DEF CreateUserDto
<1> DEFINE n == Updated(c, u)
<1>5. /\ n.id = u.id /\ n.by = c
      /\ n.email = Changed(Stored(req[c].body.email), seen[c].email, u.email)
      /\ n.userRole = Changed(HandlerRole(req[c]), seen[c].userRole, u.userRole)
      /\ n.isEmailVerified = IF req[c].body.isEmailVerified = None THEN u.isEmailVerified
                             ELSE Changed(req[c].body.isEmailVerified, seen[c].isEmailVerified,
                                          u.isEmailVerified)
      /\ n = [id |-> n.id, email |-> n.email, userRole |-> n.userRole,
              isEmailVerified |-> n.isEmailVerified, by |-> n.by]
  BY <1>1 DEF Updated, User
<1> HIDE DEF n
<1>6. /\ n.email \in {u.email, Stored(req[c].body.email)}
      /\ n.userRole \in {u.userRole, HandlerRole(req[c])}
      /\ n.isEmailVerified \in {u.isEmailVerified, req[c].body.isEmailVerified}
      /\ n.isEmailVerified \in BOOLEAN
  BY <1>1, <1>4, <1>5 DEF Changed, User
<1>7. n \in User
  BY <1>1, <1>5, <1>6, Writer DEF User
<1>8. u = seen[c] => n.email = Stored(req[c].body.email) /\ n.userRole = HandlerRole(req[c])
  BY <1>5 DEF Changed
<1>9. n.email.typed = "lower" /\ n.userRole \in roles
  BY <1>1, <1>6, Writer
<1>10. n.userRole = "ADMIN" => c \in admitted \/ u.userRole = "ADMIN"
  BY <1>6, Writer
<1>11. n.isEmailVerified => req[c].body.isEmailVerified = TRUE \/ u.isEmailVerified
  BY <1>4, <1>6, RegistrationConstants
<1>12. QED BY <1>2, <1>3, <1>5, <1>7, <1>8, <1>9, <1>10, <1>11, Writer DEF Row, n

\* A write puts one row in the place of those with its id, and no other has its address.
LEMMA Writes ==
    ASSUME Inductive, NEW c \in Calls, phase[c] = "save", Write(c)
    PROVE  \E n \in User :
              /\ Row(c, n)
              /\ users' = {v \in users : v.id # n.id} \cup {n}
              /\ past' = past \cup {v \in users : v.id = n.id}
              /\ \A v \in users : v.id # n.id => v.email.address # n.email.address
<1>1. PICK n : Written(c) = {n} /\ Row(c, n)
  <2>1. CASE seen[c] = None
    BY <2>1, NewUserRow DEF Written
  <2>2. CASE seen[c] # None
    <3>1. PICK u \in users : u.id = IdOf(c)
      BY <2>2 DEF Inductive, CallAt, SeenAt
    <3>2. RowWith(IdOf(c)) = {u}
      BY <3>1 DEF Inductive, Rows, RowWith
    <3>3. Written(c) = {Updated(c, u)}
      BY <2>2, <3>2 DEF Written
    <3>4. QED BY <2>2, <3>1, <3>3, UpdatedRow
  <2>3. QED BY <2>1, <2>2
<1>2. n \in User /\ n.id = IdOf(c) /\ n.email \in Email /\ n.email.typed = "lower"
  BY <1>1 DEF Row, User
<1>3. ASSUME NEW v \in users, v.id # n.id PROVE v.email.address # n.email.address
  <2>1. v.email # n.email
    BY <1>1, <1>3 DEF Write, Duplicate
  <2>2. v.email \in Email /\ v.email.typed = "lower"
    BY DEF Inductive, TypeOK, Rows, User
  <2>3. QED BY <1>2, <2>1, <2>2 DEF Email
<1>4. /\ users' = {v \in users : v.id # n.id} \cup {n}
      /\ past' = past \cup {v \in users : v.id = n.id}
  BY <1>1, <1>2 DEF Write, RowWith
<1>5. QED BY <1>1, <1>2, <1>3, <1>4

\* A step that writes the row of a call keeps Inductive.
LEMMA WriteStep ==
    ASSUME Inductive, NEW c \in Calls, phase[c] = "save", Write(c),
           OthersSame(c), degraded' \subseteq Calls,
           phase' \in [Calls -> Phases], answer' \in [Calls -> Statuses],
           UNCHANGED <<installed, roles, granters, req, seen, admitted>>,
           phase'[c] \in {"done", "lost"}, answer'[c] \in {0, 201, 500},
           answer'[c] = 500 => c \in degraded',
           phase'[c] = "lost" => answer'[c] = 0 /\ UNCHANGED degraded
    PROVE  Inductive'
<1>1. CallAt(c) /\ TypeOK /\ Rows
  BY DEF Inductive
<1>2. PICK n \in User :
          /\ Row(c, n)
          /\ users' = {v \in users : v.id # n.id} \cup {n}
          /\ past' = past \cup {v \in users : v.id = n.id}
          /\ \A v \in users : v.id # n.id => v.email.address # n.email.address
  BY Writes
<1>3. Ever' = Ever \cup {n}
  BY <1>2 DEF Ever
<1>4. TypeOK'
  <2>1. users' \subseteq User /\ past' \subseteq User /\ \A u \in users' : u.userRole \in roles'
    BY <1>1, <1>2 DEF TypeOK, Row
  <2>2. QED BY <1>1, <2>1 DEF TypeOK, Phases, Statuses, Serving
<1>5. Rows'
  BY <1>1, <1>2 DEF Rows, Row
<1>6. CallAt(c)'
  <2>1. n \in Ever' /\ n.by = c /\ n.id = IdOf(c)
    BY <1>2, <1>3 DEF Row
  <2>2. IdOf(c)' = IdOf(c) /\ Shared(c)' = Shared(c) /\ HandlerRole(req[c])' = HandlerRole(req[c])
    BY DEF IdOf, Shared, HandlerRole
  <2>3. AnswerAt(c)'
    BY <1>2, <2>1, <2>2 DEF AnswerAt, Row
  <2>4. phase'[c] # "done" => answer'[c] = 0 /\ c \notin degraded'
    BY <1>1 DEF CallAt
  <2>5. QED BY <1>1, <2>3, <2>4 DEF CallAt, Serving
<1>7. ASSUME NEW d \in Calls, d # c PROVE CallAt(d)'
  <2>1. Ever \subseteq Ever' /\ \A u \in Ever' \ Ever : u.by = c
    BY <1>2, <1>3 DEF Row
  <2>2. \A u \in users : \E v \in users' : v.id = u.id
    BY <1>2
  <2>3. ASSUME seen[d] # None, phase[d] = "save", ~Shared(d), NEW u \in users, u.id = IdOf(d)
        PROVE  u \in users'
    <3> SUFFICES ASSUME u.id = n.id PROVE FALSE
      BY <1>2
    <3>1. IdOf(c) = IdOf(d) /\ req[d].body.id # None
      BY <1>2, <2>3 DEF Row, Inductive, CallAt, SeenAt
    <3>2. req[c] \in Request /\ req[c] # None
      BY <1>1, RegistrationRequests DEF CallAt
    <3>3. req[c].body.id = None
      BY <1>7, <2>3, <3>1, <3>2 DEF Shared, IdOf
    <3>4. seen[c] = None
      BY <1>1, <3>3 DEF CallAt, SeenAt
    <3>5. RowWith(IdOf(c)) = {}
      BY <3>4 DEF Write, Duplicate
    <3>6. QED BY <2>3, <3>1, <3>5 DEF RowWith
  <2>4. req[c] # None => req'[c] = req[c]
    OBVIOUS
  <2>5. QED BY <1>7, <2>1, <2>2, <2>3, <2>4, OtherCalls
<1>8. QED BY <1>4, <1>5, <1>6, <1>7 DEF Inductive

-----------------------------------------------------------------------------
\* A call that stands at phase p, with answer a.
Moved(c, p, a) ==
    /\ phase' = [phase EXCEPT ![c] = p]
    /\ answer' = [answer EXCEPT ![c] = a]

\* The ways in which a call in progress moves on.
LEMMA Moves ==
    ASSUME Inductive, NEW c \in Calls, phase[c] # "done"
    PROVE  /\ \A p : Goto(c, p) => Moved(c, p, 0)
           /\ \A x : Refuse(c, x) => Moved(c, "done", Catch(x)) /\ UNCHANGED degraded
           /\ Fails(c) => Moved(c, "done", 500) /\ degraded' = degraded \cup {c}
           /\ Enter(c) => /\ UNCHANGED degraded
                          /\ \/ Moved(c, "findUser", 0)
                             \/ installed = "main.ts" /\ Moved(c, "done", 500)
<1>1. answer[c] = 0 /\ answer \in [Calls -> Statuses]
  BY DEF Inductive, CallAt, TypeOK, Statuses
<1>2. ASSUME NEW p, Goto(c, p) PROVE Moved(c, p, 0)
  BY <1>1, <1>2 DEF Goto, Moved
<1>3. ASSUME NEW x, Refuse(c, x) PROVE Moved(c, "done", Catch(x)) /\ UNCHANGED degraded
  BY <1>3 DEF Refuse, Finish, Moved
<1>4. Fails(c) => Moved(c, "done", 500) /\ degraded' = degraded \cup {c}
  BY Catches DEF Fails, Finish, Moved
<1>5. ASSUME Enter(c)
      PROVE  /\ UNCHANGED degraded
             /\ \/ Moved(c, "findUser", 0)
                \/ installed = "main.ts" /\ Moved(c, "done", 500)
  <2>1. CASE Throws
    BY <1>3, <1>5, <2>1, Catches DEF Enter, Throws
  <2>2. CASE ~Throws
    BY <1>2, <1>5, <2>2 DEF Enter
  <2>3. QED BY <2>1, <2>2
<1>6. QED BY <1>2, <1>3, <1>4, <1>5

\* A step of a call in progress that writes no row.
LEMMA CallStep ==
    ASSUME Inductive, NEW c \in Calls,
           phase[c] \in {"validate", "findUser", "getRole", "reload", "save"},
           NEW p \in {"findUser", "getRole", "reload", "save", "done", "lost"},
           NEW a \in {0, 400, 401, 403, 409, 500}, Moved(c, p, a),
           degraded \subseteq degraded', degraded' \subseteq degraded \cup {c},
           admitted \subseteq admitted', admitted' \subseteq Calls,
           UNCHANGED <<installed, tables, past, req>>,
           seen' \in [Calls -> User \cup {None}], \A d \in Calls \ {c} : seen'[d] = seen[d],
           p \in Serving => (req[c].route = "register/admin" => c \in admitted'),
           p \in {"reload", "save"} => HandlerRole(req[c]) \in roles,
           p = "reload" => req[c].body.id # None,
           p \in {"findUser", "getRole", "reload"} => seen'[c] = None,
           p = "save" /\ seen'[c] # None =>
              req[c].body.id # None /\ \E u \in users : u.id = IdOf(c) /\ u = seen'[c],
           p # "done" => a = 0 /\ UNCHANGED degraded,
           a = 409 =>
              \E u \in users : u.by # c /\ \/ u.email.address = req[c].body.email.address
                                           \/ u.id = IdOf(c),
           a = 500 /\ installed = "AppModule" => c \in degraded'
    PROVE  Inductive'
<1>1. CallAt(c) /\ TypeOK
  BY DEF Inductive
<1>2. /\ phase'[c] = p /\ answer'[c] = a /\ req' = req /\ req[c] \in Request
      /\ IdOf(c)' = IdOf(c) /\ Shared(c)' = Shared(c) /\ Ever' = Ever /\ users' = users
      /\ \A u \in Ever : u.by # c
  BY <1>1 DEF CallAt, TypeOK, Moved, IdOf, Shared, Ever, tables
<1>3. AnswerAt(c)'
  BY <1>2 DEF AnswerAt, Ever
<1>4. p # "done" => c \notin degraded'
  BY <1>1 DEF CallAt
<1>5. p = "save" => SeenAt(c)'
  BY <1>2 DEF SeenAt
<1>6. CallAt(c)'
  BY <1>2, <1>3, <1>4, <1>5 DEF CallAt, Serving, HandlerRole, tables
<1>7. OthersSame(c)
  BY <1>1, <1>2 DEF OthersSame, Moved, TypeOK
<1>8. TypeOK'
  BY <1>1, <1>2 DEF TypeOK, Moved, tables
<1>9. QED BY <1>2, <1>6, <1>7, <1>8, QuietStep

\* A save that violates a unique key: another's row has the address or the id.
LEMMA Duplicates ==
    ASSUME Inductive, NEW c \in Calls, phase[c] = "save", Duplicate(c)
    PROVE  \E u \in users : u.by # c /\ \/ u.email.address = req[c].body.email.address
                                        \/ u.id = IdOf(c)
<1>1. \A u \in users : u.by # c
  BY DEF Inductive, CallAt, Ever
<1>2. CASE \E u \in users : u.id = IdOf(c)
  BY <1>1, <1>2
<1>3. CASE \A u \in users : u.id # IdOf(c)
  <2>1. seen[c] = None /\ RowWith(IdOf(c)) = {}
    BY <1>3 DEF Inductive, CallAt, SeenAt, RowWith
  <2>2. PICK v \in users : NewUser(c).email = v.email
    BY <2>1 DEF Duplicate, Written
  <2>3. v.email = Stored(req[c].body.email)
    BY <2>2 DEF NewUser
  <2>4. QED BY <1>1, <2>3, Writer
<1>4. QED BY <1>2, <1>3

-----------------------------------------------------------------------------
\* Inductive holds always: at every await the code has established of a call what
\* its next step relies on, whatever other calls, grants and exits come between.
THEOREM InductiveHolds == Spec => []Inductive
<1>1. Init => Inductive
  <2> SUFFICES ASSUME Init PROVE Inductive
    OBVIOUS
  <2> DEFINE row(a, role) ==
        [id |-> a, email |-> [address |-> a, typed |-> "lower"], userRole |-> role[a],
         isEmailVerified |-> TRUE, by |-> None]
  <2>1. PICK known \in SUBSET Addresses :
          \E role \in [known -> roles] : users = {row(a, role) : a \in known}
    BY DEF Init
  <2>2. PICK role \in [known -> roles] : users = {row(a, role) : a \in known}
    BY <2>1
  <2>3. ASSUME NEW a \in known
        PROVE  /\ row(a, role) \in User /\ row(a, role).userRole \in roles
               /\ row(a, role).email.typed = "lower" /\ row(a, role).by = None
               /\ row(a, role).email.address = a /\ row(a, role).id = a
    BY <2>3 DEF Init, User, Email, Ids
  <2> HIDE DEF row
  <2>4. \A u \in users :
          /\ u \in User /\ u.userRole \in roles
          /\ u.email.typed = "lower" /\ u.by = None
    BY <2>2, <2>3
  <2>5. \A u, v \in users : u.email.address = v.email.address \/ u.id = v.id => u = v
    BY <2>2, <2>3
  <2>6. TypeOK
    BY <2>4 DEF Init, TypeOK
  <2>7. Rows
    BY <2>4, <2>5 DEF Rows
  <2>8. ASSUME NEW c \in Calls PROVE CallAt(c)
    BY <2>4, RegistrationConstants DEF Init, CallAt, AnswerAt, Ever, Serving
  <2>9. QED BY <2>6, <2>7, <2>8 DEF Inductive
<1>2. Inductive /\ [Next]_vars => Inductive'
  <2> SUFFICES ASSUME Inductive, [Next]_vars PROVE Inductive'
    OBVIOUS
  <2> USE DEF tables
  <2>1. ASSUME NEW c \in Calls, NEW q \in Request, Arrive(c, q) PROVE Inductive'
    <3>1. /\ phase[c] = "idle" /\ UNCHANGED <<installed, tables, past, seen, admitted>>
          /\ answer[c] = 0 /\ c \notin degraded /\ req[c] = None /\ seen[c] = None
          /\ \A u \in Ever : u.by # c
          /\ TypeOK
      BY <2>1 DEF Arrive, At, Inductive, CallAt
    <3>2. /\ UNCHANGED degraded
          /\ \/ \E a \in {401, 429} : Moved(c, "done", a) /\ UNCHANGED req
             \/ /\ req' = [req EXCEPT ![c] = q]
                /\ \/ q.route = "register/admin" /\ Moved(c, "validate", 0)
                   \/ q.route = "register/staff" /\ Moved(c, "findUser", 0)
                   \/ installed = "main.ts" /\ Moved(c, "done", 500)
      BY <2>1, <3>1, Moves, Catches DEF Arrive
    <3>3. PICK p \in {"validate", "findUser", "done"}, a \in {0, 401, 429, 500} :
             /\ Moved(c, p, a)
             /\ p # "done" => a = 0 /\ req'[c] \in Request
             /\ p = "validate" => req'[c].route = "register/admin"
             /\ p = "findUser" => req'[c].route = "register/staff"
             /\ a = 500 => installed = "main.ts"
      BY <3>1, <3>2 DEF TypeOK
    <3>4. /\ phase'[c] = p /\ answer'[c] = a /\ seen'[c] = None /\ c \notin degraded'
          /\ Ever' = Ever
      BY <3>1, <3>2, <3>3 DEF TypeOK, Moved, Ever
    <3>5. AnswerAt(c)'
      BY <3>1, <3>3, <3>4 DEF AnswerAt
    <3>6. CallAt(c)'
      BY <3>1, <3>3, <3>4, <3>5 DEF CallAt, Serving
    <3>7. req' \in [Calls -> Request \cup {None}] /\ \A d \in Calls \ {c} : req'[d] = req[d]
      BY <3>1, <3>2 DEF TypeOK
    <3>8. OthersSame(c)
      BY <3>1, <3>2, <3>3, <3>7 DEF OthersSame, Moved, TypeOK
    <3>9. TypeOK'
      <4>1. UNCHANGED degraded
        BY <3>2
      <4>2. /\ phase' \in [Calls -> Phases] /\ answer' \in [Calls -> Statuses]
        BY <3>1, <3>3 DEF TypeOK, Moved, Phases, Statuses, Serving
      <4>3. QED BY <3>1, <3>7, <4>1, <4>2 DEF TypeOK, Phases, Statuses, Serving
    <3>10. QED BY <3>1, <3>6, <3>8, <3>9, QuietStep
  <2>2. ASSUME NEW c \in Calls, Validate(c) PROVE Inductive'
    <3>1. /\ phase[c] = "validate" /\ req[c].route = "register/admin" /\ TypeOK
          /\ UNCHANGED <<installed, tables, past, req, seen>> /\ seen[c] = None
          /\ admitted' \in {admitted, admitted \cup {c}}
      BY <2>2 DEF Validate, At, Inductive, CallAt
    <3>2. PICK p \in {"findUser", "done"}, a \in {0, 401, 403, 500} :
             /\ Moved(c, p, a)
             /\ degraded' \in {degraded, degraded \cup {c}}
             /\ p = "findUser" => c \in admitted' /\ a = 0
             /\ p # "done" => UNCHANGED degraded
             /\ a = 500 /\ installed = "AppModule" => c \in degraded'
      <4> DEFINE found == RowOf([address |-> req[c].token, typed |-> "lower"])
      <4>1. CASE Fails(c)
        BY <3>1, <4>1, Moves
      <4>2. CASE Refuse(c, "Unauthorized")
        BY <3>1, <4>2, Moves, Catches
      <4>3. CASE Refuse(c, "Forbidden")
        BY <3>1, <4>3, Moves, Catches
      <4>4. ASSUME NEW u \in found, MayCreateAdmin(u), Enter(c)
            PROVE  /\ c \in admitted' /\ UNCHANGED degraded
                   /\ \/ Moved(c, "findUser", 0)
                      \/ installed = "main.ts" /\ Moved(c, "done", 500)
        <5>1. c \in admitted'
          BY <2>2, <4>4 DEF Validate, MayCreateAdmin
        <5>2. QED BY <3>1, <4>4, <5>1, Moves
      <4>5. \/ Fails(c) \/ Refuse(c, "Unauthorized") \/ Refuse(c, "Forbidden")
            \/ \E u \in found : MayCreateAdmin(u) /\ Enter(c)
        BY <2>2 DEF Validate
      <4>6. CASE \E u \in found : MayCreateAdmin(u) /\ Enter(c)
        BY <4>4, <4>6
      <4>7. QED BY <4>1, <4>2, <4>3, <4>5, <4>6
    <3>3. /\ admitted \subseteq admitted' /\ admitted' \subseteq Calls
          /\ seen' \in [Calls -> User \cup {None}]
      BY <3>1 DEF TypeOK
    <3>4. QED BY <3>1, <3>2, <3>3, CallStep DEF Serving
  <2>3. ASSUME NEW c \in Calls, FindUser(c) PROVE Inductive'
    <3>1. /\ phase[c] = "findUser" /\ CallAt(c) /\ TypeOK
          /\ UNCHANGED <<installed, tables, past, req, seen, admitted>>
      BY <2>3 DEF FindUser, At, Inductive
    <3>2. PICK p \in {"getRole", "done"}, a \in {0, 409, 500} :
             /\ Moved(c, p, a)
             /\ degraded' \in {degraded, degraded \cup {c}}
             /\ p # "done" => a = 0 /\ UNCHANGED degraded
             /\ a = 409 => RowOf(req[c].body.email) # {}
             /\ a = 500 => c \in degraded'
      BY <2>3, <3>1, Moves, Catches DEF FindUser
    <3>3. /\ req[c].route = "register/admin" => c \in admitted
          /\ seen[c] = None /\ \A u \in users : u.by # c
      BY <3>1 DEF CallAt, Serving, Ever
    <3>4. a = 409 => \E u \in users : u.by # c /\ u.email.address = req[c].body.email.address
      BY <3>2, <3>3 DEF RowOf
    <3>5. /\ admitted \subseteq admitted' /\ admitted' \subseteq Calls
          /\ seen' \in [Calls -> User \cup {None}]
      BY <3>1 DEF TypeOK
    <3>6. QED BY <3>1, <3>2, <3>3, <3>4, <3>5, CallStep DEF Serving
  <2>4. ASSUME NEW c \in Calls, GetRoleByName(c) PROVE Inductive'
    <3>1. /\ phase[c] = "getRole" /\ CallAt(c) /\ TypeOK
          /\ UNCHANGED <<installed, tables, past, req, seen, admitted>>
      BY <2>4 DEF GetRoleByName, At, Inductive
    <3>2. PICK p \in {"save", "reload", "done"}, a \in {0, 400, 500} :
             /\ Moved(c, p, a)
             /\ degraded' \in {degraded, degraded \cup {c}}
             /\ p # "done" => a = 0 /\ UNCHANGED degraded
             /\ p # "done" => HandlerRole(req[c]) \in roles
             /\ p = "reload" => req[c].body.id # None
             /\ a = 500 => c \in degraded'
      BY <2>4, <3>1, Moves, Catches DEF GetRoleByName, Save
    <3>3. (req[c].route = "register/admin" => c \in admitted) /\ seen[c] = None
      BY <3>1 DEF CallAt, Serving
    <3>4. /\ admitted \subseteq admitted' /\ admitted' \subseteq Calls
          /\ seen' \in [Calls -> User \cup {None}]
      BY <3>1 DEF TypeOK
    <3>5. QED BY <3>1, <3>2, <3>3, <3>4, CallStep DEF Serving
  <2>5. ASSUME NEW c \in Calls, Reload(c) PROVE Inductive'
    <3>1. /\ phase[c] = "reload" /\ CallAt(c) /\ TypeOK
          /\ UNCHANGED <<installed, tables, past, req, admitted>>
      BY <2>5 DEF Reload, At, Inductive
    <3>2. /\ req[c].route = "register/admin" => c \in admitted
          /\ seen[c] = None /\ req[c].body.id # None /\ HandlerRole(req[c]) \in roles
          /\ IdOf(c) = req[c].body.id
      BY <3>1 DEF CallAt, Serving, IdOf
    <3>3. /\ admitted \subseteq admitted' /\ admitted' \subseteq Calls
      BY <3>1 DEF TypeOK
    <3>4. CASE Fails(c) /\ UNCHANGED seen
      <4>1. Moved(c, "done", 500) /\ degraded' = degraded \cup {c}
        BY <3>1, <3>4, Moves
      <4>2. seen' \in [Calls -> User \cup {None}]
        BY <3>1, <3>4 DEF TypeOK
      <4>3. QED BY <3>1, <3>2, <3>3, <3>4, <4>1, <4>2, CallStep DEF Serving
    <3>5. CASE UNCHANGED <<seen, degraded>> /\ Goto(c, "save")
      <4>1. Moved(c, "save", 0)
        BY <3>1, <3>5, Moves
      <4>2. seen' \in [Calls -> User \cup {None}]
        BY <3>1, <3>5 DEF TypeOK
      <4>3. QED BY <3>1, <3>2, <3>3, <3>5, <4>1, <4>2, CallStep DEF Serving
    <3>6. ASSUME NEW u \in RowWith(req[c].body.id), seen' = [seen EXCEPT ![c] = u],
                 Goto(c, "save"), UNCHANGED degraded
          PROVE  Inductive'
      <4>1. Moved(c, "save", 0)
        BY <3>1, <3>6, Moves
      <4>2. u \in users /\ u \in User /\ u.id = IdOf(c)
        BY <3>1, <3>2, <3>6 DEF TypeOK, RowWith
      <4>3. /\ seen' \in [Calls -> User \cup {None}] /\ seen'[c] = u
            /\ \A d \in Calls \ {c} : seen'[d] = seen[d]
        BY <3>1, <3>6, <4>2 DEF TypeOK
      <4>4. QED BY <3>1, <3>2, <3>3, <3>6, <4>1, <4>2, <4>3, CallStep DEF Serving
    <3>7. QED BY <2>5, <3>4, <3>5, <3>6 DEF Reload
  <2>6. ASSUME NEW c \in Calls, RegisterAccount(c) PROVE Inductive'
    <3>1. /\ phase[c] = "save" /\ CallAt(c) /\ TypeOK /\ answer[c] = 0
          /\ UNCHANGED <<installed, roles, granters, req, seen, admitted>>
      BY <2>6 DEF RegisterAccount, At, Inductive, CallAt
    <3>2. /\ admitted \subseteq admitted' /\ admitted' \subseteq Calls
          /\ seen' \in [Calls -> User \cup {None}]
      BY <3>1 DEF TypeOK
    <3>3. CASE Fails(c) /\ UNCHANGED <<users, past>>
      <4>1. Moved(c, "done", 500) /\ degraded' = degraded \cup {c}
        BY <3>1, <3>3, Moves
      <4>2. QED BY <3>1, <3>2, <3>3, <4>1, CallStep DEF Serving
    <3>4. CASE Duplicate(c) /\ Refuse(c, Rethrown("Conflict")) /\ UNCHANGED <<users, past>>
      <4>1. Moved(c, "done", 409) /\ UNCHANGED degraded
        BY <3>1, <3>4, Moves, Catches
      <4>2. \E u \in users : u.by # c /\ \/ u.email.address = req[c].body.email.address
                                         \/ u.id = IdOf(c)
        BY <3>1, <3>4, Duplicates
      <4>3. QED BY <3>1, <3>2, <3>4, <4>1, <4>2, CallStep DEF Serving
    <3>5. CASE Fails(c) /\ Write(c)
      <4>1. Moved(c, "done", 500) /\ degraded' = degraded \cup {c}
        BY <3>1, <3>5, Moves
      <4>2. degraded' \subseteq Calls /\ OthersSame(c)
        BY <3>1, <4>1 DEF TypeOK, OthersSame, Moved
      <4>3. /\ phase' \in [Calls -> Phases] /\ answer' \in [Calls -> Statuses]
            /\ phase'[c] = "done" /\ answer'[c] = 500
        BY <3>1, <4>1 DEF Moved, TypeOK, Phases, Statuses, Serving
      <4>4. QED BY <3>1, <3>5, <4>1, <4>2, <4>3, WriteStep
    <3>6. CASE Finish(c, 201) /\ Write(c) /\ UNCHANGED degraded
      <4>1. Moved(c, "done", 201)
        BY <3>6 DEF Finish, Moved
      <4>2. degraded' \subseteq Calls /\ OthersSame(c)
        BY <3>1, <3>6, <4>1 DEF TypeOK, OthersSame, Moved
      <4>3. /\ phase' \in [Calls -> Phases] /\ answer' \in [Calls -> Statuses]
            /\ phase'[c] = "done" /\ answer'[c] = 201
        BY <3>1, <4>1 DEF Moved, TypeOK, Phases, Statuses, Serving
      <4>4. QED BY <3>1, <3>6, <4>2, <4>3, WriteStep
    <3>7. QED BY <2>6, <3>3, <3>4, <3>5, <3>6 DEF RegisterAccount
  <2>7. ASSUME NEW c \in Calls, Exit(c) PROVE Inductive'
    <3>1. /\ phase[c] \in {"validate", "findUser", "getRole", "reload", "save"}
          /\ CallAt(c) /\ TypeOK /\ answer[c] = 0
          /\ UNCHANGED <<installed, roles, granters, req, seen, answer, degraded, admitted>>
      BY <2>7 DEF Exit, Inductive, TypeOK, CallAt
    <3>2. /\ Moved(c, "lost", 0) /\ admitted \subseteq admitted' /\ admitted' \subseteq Calls
          /\ seen' \in [Calls -> User \cup {None}]
      BY <2>7, <3>1 DEF Exit, Moved, TypeOK
    <3>3. CASE UNCHANGED <<users, past>>
      BY <3>1, <3>2, <3>3, CallStep DEF Serving
    <3>4. CASE phase[c] = "save" /\ Write(c)
      <4>1. degraded' \subseteq Calls /\ OthersSame(c)
        BY <3>1, <3>2 DEF TypeOK, OthersSame, Moved
      <4>2. /\ phase' \in [Calls -> Phases] /\ answer' \in [Calls -> Statuses]
            /\ phase'[c] = "lost" /\ answer'[c] = 0
        BY <3>1, <3>2 DEF Moved, TypeOK, Phases, Statuses, Serving
      <4>3. QED BY <3>1, <3>4, <4>1, <4>2, WriteStep
    <3>5. QED BY <2>7, <3>3, <3>4 DEF Exit, At
  <2>8. CASE \/ \E name \in RoleNames : CreateRole(name) \/ AssignPrivilege(name)
             \/ UNCHANGED vars
    <3>1. /\ UNCHANGED <<installed, users, past, phase, req, seen, answer, degraded, admitted>>
          /\ roles \subseteq roles' /\ roles' \subseteq RoleNames
          /\ granters' \subseteq roles'
      BY <2>8 DEF CreateRole, AssignPrivilege, vars, Inductive, TypeOK
    <3>2. TypeOK' /\ Rows'
      BY <3>1 DEF Inductive, TypeOK, Rows
    <3>3. ASSUME NEW d \in Calls PROVE CallAt(d)'
      <4>1. CallAt(d) /\ Ever' = Ever
        BY <3>1 DEF Inductive, Ever
      <4>2. /\ IdOf(d)' = IdOf(d) /\ Shared(d)' = Shared(d)
            /\ HandlerRole(req[d])' = HandlerRole(req[d])
        BY <3>1 DEF IdOf, Shared, HandlerRole
      <4>3. AnswerAt(d)'
        BY <3>1, <4>1, <4>2 DEF CallAt, AnswerAt
      <4>4. phase[d] = "save" => SeenAt(d)'
        BY <3>1, <4>1, <4>2 DEF CallAt, SeenAt
      <4>5. QED BY <3>1, <4>1, <4>2, <4>3, <4>4 DEF CallAt
    <3>4. QED BY <3>2, <3>3 DEF Inductive
  <2>9. QED BY <2>1, <2>2, <2>3, <2>4, <2>5, <2>6, <2>7, <2>8 DEF Next, Continue
<1>3. QED BY <1>1, <1>2, PTL DEF Spec

\* Type correctness: every variable keeps its type, and no account is of a role that
\* the table of roles lacks.
COROLLARY TypeCorrect == Spec => []TypeOK
<1>1. Inductive => TypeOK
  BY DEF Inductive
<1>2. QED BY <1>1, InductiveHolds, PTL

\* One account per address in whatever case it is typed, however many calls for it
\* are past the lookup and whichever rows bodies name.
THEOREM OneAccountPerAddressHolds == Spec => []OneAccountPerAddress
<1>1. Inductive => OneAccountPerAddress
  BY DEF Inductive, Rows, OneAccountPerAddress
<1>2. QED BY <1>1, InductiveHolds, PTL

\* The status tells the client what became of its account.
THEOREM AnswersTrueHolds == Spec => []AnswersTrue
<1>1. Inductive => AnswersTrue
  BY DEF Inductive, CallAt, AnswerAt, AnswersTrue, Ever
<1>2. QED BY <1>1, InductiveHolds, PTL

\* A step that changes the users table is the save of a call: one row takes the place of
\* those with its id.
LEMMA UsersChange ==
    ASSUME Inductive, [Next]_vars, users' # users
    PROVE  \E c \in Calls, n \in User :
              /\ Row(c, n) /\ Saves(c, n.id)
              /\ users' = {v \in users : v.id # n.id} \cup {n}
<1> USE DEF tables
<1>1. PICK c \in Calls : (RegisterAccount(c) \/ Exit(c)) /\ users' # users
  BY DEF Next, Continue, Arrive, Validate, FindUser, GetRoleByName, Reload, CreateRole,
         AssignPrivilege, vars
<1>2. phase[c] = "save" /\ Write(c) /\ phase'[c] # "save"
  BY <1>1 DEF RegisterAccount, Exit, At, Fails, Finish, Inductive, TypeOK
<1>3. PICK n \in User : Row(c, n) /\ users' = {v \in users : v.id # n.id} \cup {n}
  BY <1>2, Writes
<1>4. Saves(c, n.id)
  BY <1>2, <1>3 DEF Row, Saves, At
<1>5. QED BY <1>3, <1>4

\* An account becomes an administrator's only by the save of a call that the guard let
\* through as a granter's.
THEOREM AdminsByGrantersHolds == Spec => AdminsByGranters
<1> DEFINE A == \A u \in users' :
                  /\ u.userRole = "ADMIN"
                  /\ \A v \in users : v.id = u.id => v.userRole # "ADMIN"
                  => \E c \in admitted : Saves(c, u.id)
<1>1. Inductive /\ [Next]_vars => [A]_vars
  <2> SUFFICES ASSUME Inductive, [Next]_vars, NEW u \in users', u.userRole = "ADMIN",
                      \A v \in users : v.id = u.id => v.userRole # "ADMIN"
               PROVE  \E c \in admitted : Saves(c, u.id)
    OBVIOUS
  <2>1. users' # users
    OBVIOUS
  <2>2. PICK c \in Calls, n \in User :
               /\ Row(c, n) /\ Saves(c, n.id)
               /\ users' = {v \in users : v.id # n.id} \cup {n}
    BY <2>1, UsersChange
  <2>3. u = n
    BY <2>2
  <2>4. QED BY <2>2, <2>3 DEF Row
<1>2. QED BY <1>1, InductiveHolds, PTL DEF Spec, AdminsByGranters

\* An account comes to be one that signIn lets in only by the save of a body that calls
\* it confirmed, or that names the row of an account which was.
THEOREM ConfirmedByBodyHolds == Spec => ConfirmedByBody
<1> DEFINE A == \A u \in Eligible' :
                  (\A v \in Eligible : v.id # u.id) =>
                      \E c \in Calls :
                          /\ Saves(c, u.id)
                          /\ \/ req[c].body.isEmailVerified = TRUE
                             \/ \E v \in users : v.id = req[c].body.id /\ v.isEmailVerified
<1>1. Inductive /\ [Next]_vars => [A]_vars
  <2> SUFFICES ASSUME Inductive, [Next]_vars, NEW u \in Eligible',
                      \A v \in Eligible : v.id # u.id
               PROVE  \E c \in Calls :
                          /\ Saves(c, u.id)
                          /\ \/ req[c].body.isEmailVerified = TRUE
                             \/ \E v \in users : v.id = req[c].body.id /\ v.isEmailVerified
    OBVIOUS
  <2>1. u \in users' /\ u \notin users /\ u.isEmailVerified
    BY DEF Eligible
  <2>2. PICK c \in Calls, n \in User :
               /\ Row(c, n) /\ Saves(c, n.id)
               /\ users' = {v \in users : v.id # n.id} \cup {n}
    BY <2>1, UsersChange
  <2>3. u = n
    BY <2>1, <2>2
  <2>4. QED BY <2>1, <2>2, <2>3 DEF Row
<1>2. QED BY <1>1, InductiveHolds, PTL DEF Spec, ConfirmedByBody
=============================================================================
