---------------------------- MODULE Registration ----------------------------
(***************************************************************************)
(* POST /auth/register/staff and /auth/register/admin, from the first      *)
(* guard to the HTTP answer: guards, global interceptors, the handler with *)
(* AuthService.signUp and UserRepository.registerAccount, the exception    *)
(* filter.  Each await is a step boundary; a worker may exit with a call   *)
(* in it.  A body has what CreateUserDto asks for, reduced to what the     *)
(* code decides by: the address, how its letters are typed, the role.  It  *)
(* may have other columns of the entity besides, for registerAccount takes *)
(* it over whole: isEmailVerified, and the id of a row, which is then      *)
(* written again.                                                          *)
(***************************************************************************)
EXTENDS Integers, FiniteSets

CONSTANTS
    Addresses,      \* e-mail addresses, whatever the case of their letters
    RoleNames,      \* members of RolesConstant
    Calls,          \* register calls, each made once
    Bodies,         \* bound: the bodies of calls
    None            \* no token, no member, no row

\* The rows of the start have their addresses for ids, those that calls insert the call,
\* if the body names no other.
Ids == Addresses \cup Calls
Email == [address : Addresses, typed : {"lower", "mixed"}]
CreateUserDto == [email : Email, role : RoleNames \cup {None}, id : Ids \cup {None},
                  isEmailVerified : BOOLEAN \cup {None}]
Routes == {"register/admin", "register/staff"}

\* A row: by is history, the call that wrote it last.
User == [id : Ids, email : Email, userRole : RoleNames, isEmailVerified : BOOLEAN,
         by : Calls \cup {None}]

ASSUME RegistrationConstants ==
    /\ {"ADMIN", "OTHER_STAFF"} \subseteq RoleNames
    /\ Bodies \subseteq CreateUserDto
    /\ None \notin Addresses \cup Calls /\ None \notin RoleNames /\ None \notin BOOLEAN
    /\ None \notin User
    /\ Addresses \cap Calls = {}

VARIABLES
    installed,      \* what runs the routes: AppModule alone, or main.ts around it
    roles,          \* names in the user_roles table
    granters,       \* roles that hold CAN_CREATE_ADMIN
    users,          \* rows of the users table
    past,           \* history: rows as they were before they were written again
    phase,          \* where a call stands
    req,            \* its route, body and the user its token names
    seen,           \* the row that save has reloaded by the body's id, or None
    answer,         \* its HTTP status, 0 for none yet
    degraded,       \* history: calls of which a query failed or lost its answer
    admitted        \* history: calls whose caller held CAN_CREATE_ADMIN at the guard

tables == <<roles, granters, users>>
vars == <<installed, tables, past, phase, req, seen, answer, degraded, admitted>>

Lower(email) == [email EXCEPT !.typed = "lower"]
RowOf(email) == {u \in users : u.email = email}
RowWith(id) == {u \in users : u.id = id}

\* Accounts that were there before: their addresses are in lower case, and they are
\* confirmed, by other means than this code, which confirms none.
Init ==
    /\ installed \in {"AppModule", "main.ts"}
    /\ roles \in SUBSET RoleNames
    /\ granters \in SUBSET roles
    /\ \E known \in SUBSET Addresses :
         \E role \in [known -> roles] :
           users = {[id |-> a, email |-> [address |-> a, typed |-> "lower"], userRole |-> role[a],
                     isEmailVerified |-> TRUE, by |-> None] : a \in known}
    /\ past = {}
    /\ phase = [c \in Calls |-> "idle"]
    /\ req = [c \in Calls |-> None]
    /\ seen = [c \in Calls |-> None]
    /\ answer = [c \in Calls |-> 0]
    /\ degraded = {}
    /\ admitted = {}

-----------------------------------------------------------------------------
(* From the socket to the handler                                          *)

At(c, p) == phase[c] = p
Goto(c, p) == phase' = [phase EXCEPT ![c] = p] /\ UNCHANGED answer
Finish(c, status) ==
    /\ phase' = [phase EXCEPT ![c] = "done"]
    /\ answer' = [answer EXCEPT ![c] = status]

\* HttpErrorFilter, and Nest's own filter without it: an HttpException has its
\* status, anything else is 500.
Catch(exception) ==
    CASE exception = "BadRequest" -> 400
      [] exception = "Unauthorized" -> 401
      [] exception = "Forbidden" -> 403
      [] exception = "Conflict" -> 409
      [] exception = "TooManyRequests" -> 429
      [] OTHER -> 500

Refuse(c, exception) == Finish(c, Catch(exception)) /\ UNCHANGED degraded

\* What awaits the database may see it fail; lost says whether it took effect.
Fails(c) == Finish(c, Catch("Error")) /\ degraded' = degraded \cup {c}

\* RequestContextInterceptor, which main.ts installs for every route, throws.
Throws == installed = "main.ts"

\* Mutant: the role the body asks for is kept.
HandlerRoleOfBody(q) ==
    IF q.body.role # None THEN q.body.role
    ELSE IF q.route = "register/admin" THEN "ADMIN" ELSE "OTHER_STAFF"

\* registerAdmin and signUpAsAStaff overwrite the body's role.
HandlerRole(q) == IF q.route = "register/admin" THEN "ADMIN" ELSE "OTHER_STAFF"

\* The guards have passed: interceptors, then the handler up to signUp's first query.
Enter(c) ==
    IF Throws THEN Refuse(c, "Error") ELSE Goto(c, "findUser") /\ UNCHANGED degraded

\* ThrottlerGuard guards every route, AuthGuard and PrivilegesGuard only the admin's. A
\* body can name the id of a row that is there; it cannot foresee one.
Arrive(c, q) ==
    /\ At(c, "idle")
    /\ q.body.id \in Calls => RowWith(q.body.id) # {}
    /\ \/ Refuse(c, "TooManyRequests") /\ UNCHANGED req
       \/ /\ q.route = "register/admin" /\ q.token = None /\ Refuse(c, "Unauthorized")
          /\ UNCHANGED req
       \/ /\ req' = [req EXCEPT ![c] = q]
          /\ \/ q.route = "register/admin" /\ q.token # None
                  /\ Goto(c, "validate") /\ UNCHANGED degraded
             \/ q.route = "register/staff" /\ Enter(c)
    /\ UNCHANGED <<installed, tables, past, seen, admitted>>

\* PrivilegesGuard, for Privileges(CAN_CREATE_ADMIN).
MayCreateAdmin(u) == u.userRole \in granters

\* JwtStrategy.validate, then PrivilegesGuard on the user it returns.
Validate(c) ==
    LET found == RowOf([address |-> req[c].token, typed |-> "lower"]) IN
    /\ At(c, "validate")
    /\ \/ Fails(c)
       \/ found = {} /\ Refuse(c, "Unauthorized")
       \/ \E u \in found :
            IF MayCreateAdmin(u) THEN Enter(c) ELSE Refuse(c, "Forbidden")
    /\ admitted' = IF \E u \in found : u.userRole \in granters
                     THEN admitted \cup {c} ELSE admitted
    /\ UNCHANGED <<installed, tables, past, req, seen>>

-----------------------------------------------------------------------------
(* AuthService.signUp                                                      *)

\* Mutant: the catch block forgets the ConflictException.
RethrownNoConflict(exception) ==
    IF exception = "BadRequest" THEN exception ELSE "InternalServerError"

\* The catch block of signUp.
Rethrown(exception) ==
    IF exception \in {"BadRequest", "Conflict"} THEN exception ELSE "InternalServerError"

\* findOne by the address as it was typed: the table has it in lower case.
FindUser(c) ==
    /\ At(c, "findUser")
    /\ \/ Fails(c)
       \/ IF RowOf(req[c].body.email) # {}
            THEN Refuse(c, Rethrown("Conflict"))
            ELSE Goto(c, "getRole") /\ UNCHANGED degraded
    /\ UNCHANGED <<installed, tables, past, req, seen, admitted>>

\* save of an entity with an id begins by reading its row.
Save(c) == Goto(c, IF req[c].body.id = None THEN "save" ELSE "reload")

\* Mutant: a role that is not found is neither returned nor thrown about.
GetRoleByNameHangs(c) ==
    /\ At(c, "getRole")
    /\ HandlerRole(req[c]) \in roles
    /\ Save(c)
    /\ UNCHANGED <<installed, tables, past, req, seen, degraded, admitted>>

\* Mutant: a role that is not found is passed on as it is.
GetRoleByNameUnchecked(c) ==
    /\ At(c, "getRole")
    /\ Save(c)
    /\ UNCHANGED <<installed, tables, past, req, seen, degraded, admitted>>

GetRoleByName(c) ==
    /\ At(c, "getRole")
    /\ \/ Fails(c)
       \/ IF HandlerRole(req[c]) \in roles
            THEN Save(c) /\ UNCHANGED degraded
            ELSE Refuse(c, Rethrown("BadRequest"))
    /\ UNCHANGED <<installed, tables, past, req, seen, admitted>>

\* Mutant: the address is stored as it was typed.
StoredAsTyped(email) == email

\* email.toLowerCase()
Stored(email) == Lower(email)

Reload(c) ==
    /\ At(c, "reload")
    /\ \/ Fails(c) /\ UNCHANGED seen
       \/ /\ \/ \E u \in RowWith(req[c].body.id) : seen' = [seen EXCEPT ![c] = u]
             \/ RowWith(req[c].body.id) = {} /\ UNCHANGED seen
          /\ Goto(c, "save")
          /\ UNCHANGED degraded
    /\ UNCHANGED <<installed, tables, past, req, admitted>>

IdOf(c) == IF req[c].body.id = None THEN c ELSE req[c].body.id

\* Mutant: accounts count as confirmed from the start.
NewUserVerified(c) ==
    [id |-> IdOf(c), email |-> Stored(req[c].body.email), userRole |-> HandlerRole(req[c]),
     isEmailVerified |-> TRUE, by |-> c]

\* isEmailVerified is the body's, or the column's default.
NewUser(c) ==
    [id |-> IdOf(c), email |-> Stored(req[c].body.email), userRole |-> HandlerRole(req[c]),
     isEmailVerified |-> req[c].body.isEmailVerified = TRUE, by |-> c]

\* A column is written when the entity has it and the reload has shown another value (the
\* hash of the password always is).
Changed(new, old, current) == IF new = old THEN current ELSE new
Updated(c, u) ==
    LET verified == req[c].body.isEmailVerified IN
    [id |-> u.id, by |-> c,
     email |-> Changed(Stored(req[c].body.email), seen[c].email, u.email),
     userRole |-> Changed(HandlerRole(req[c]), seen[c].userRole, u.userRole),
     isEmailVerified |-> IF verified = None THEN u.isEmailVerified
                         ELSE Changed(verified, seen[c].isEmailVerified, u.isEmailVerified)]

\* What the table holds of the row after the write, and what it held before.
Written(c) ==
    IF seen[c] = None THEN {NewUser(c)} ELSE {Updated(c, u) : u \in RowWith(IdOf(c))}

\* The unique keys on email and id, for calls that overlap and ids that have a row.
Duplicate(c) ==
    \/ seen[c] = None /\ RowWith(IdOf(c)) # {}
    \/ \E u \in Written(c), v \in users : u.email = v.email /\ u.id # v.id

Write(c) ==
    /\ ~Duplicate(c)
    /\ users' = (users \ RowWith(IdOf(c))) \cup Written(c)
    /\ past' = past \cup RowWith(IdOf(c))

\* registerAccount: hash, then INSERT, or UPDATE of the row that was reloaded. A failure
\* may come before the commit or after it.
RegisterAccount(c) ==
    /\ At(c, "save")
    /\ \/ Fails(c) /\ UNCHANGED <<users, past>>
       \/ Fails(c) /\ Write(c)
       \/ Finish(c, 201) /\ Write(c) /\ UNCHANGED degraded
       \/ Duplicate(c) /\ Refuse(c, Rethrown("Conflict")) /\ UNCHANGED <<users, past>>
    /\ UNCHANGED <<installed, roles, granters, req, seen, admitted>>

-----------------------------------------------------------------------------
\* Other routes: AccessControl models them.
CreateRole(name) ==
    /\ roles' = roles \cup {name}
    /\ granters' \in {granters, granters \cup {name}, granters \ {name}}
    /\ UNCHANGED <<installed, users, past, phase, req, seen, answer, degraded, admitted>>

AssignPrivilege(name) ==
    /\ name \in roles
    /\ \/ granters' = granters \cup {name}
       \/ granters' = granters \ {name}
    /\ UNCHANGED <<installed, roles, users, past, phase, req, seen, answer, degraded, admitted>>

\* The worker exits with the call in it; a write that was on its way commits.
Exit(c) ==
    /\ phase[c] \notin {"idle", "done", "lost"}
    /\ phase' = [phase EXCEPT ![c] = "lost"]
    /\ \/ UNCHANGED <<users, past>>
       \/ At(c, "save") /\ Write(c)
    /\ UNCHANGED <<installed, roles, granters, req, seen, answer, degraded, admitted>>

\* The staff's route looks at no token.
Request ==
    {q \in [route : Routes, body : Bodies, token : Addresses \cup {None}] :
        q.route = "register/staff" => q.token = None}

ASSUME RegistrationRequests == None \notin Request

Continue(c) ==
    Validate(c) \/ FindUser(c) \/ GetRoleByName(c) \/ Reload(c) \/ RegisterAccount(c)

Next ==
    \/ \E c \in Calls, q \in Request : Arrive(c, q)
    \/ \E c \in Calls : Continue(c) \/ Exit(c)
    \/ \E name \in RoleNames : CreateRole(name) \/ AssignPrivilege(name)

Spec == Init /\ [][Next]_vars

\* The database answers or fails, and the event loop resumes the call.
FairSpec == Spec /\ \A c \in Calls : WF_vars(Continue(c))

-----------------------------------------------------------------------------
TypeOK ==
    /\ installed \in {"AppModule", "main.ts"}
    /\ granters \subseteq roles /\ roles \subseteq RoleNames
    /\ users \subseteq User /\ past \subseteq User
    /\ \A u \in users : u.userRole \in roles
    /\ phase \in [Calls -> {"idle", "validate", "findUser", "getRole", "reload", "save",
                            "done", "lost"}]
    /\ seen \in [Calls -> User \cup {None}]
    /\ req \in [Calls -> Request \cup {None}]
    /\ answer \in [Calls -> {0, 201, 400, 401, 403, 409, 429, 500}]
    /\ degraded \subseteq Calls /\ admitted \subseteq Calls

\* One account per address in whatever case it is typed, although the lookup of
\* signUp compares what was typed, any number of calls may be past it, and bodies may
\* give a row that exists another address.
OneAccountPerAddress ==
    \A u, v \in users : u.email.address = v.email.address => u = v

\* Another call names the row that this one writes.
Shared(c) == \E d \in Calls \ {c} : req[d] # None /\ req[d].body.id = IdOf(c)

\* The status tells the client what became of its account, so that it can decide
\* whether to call again: 201 means this call wrote a row, with the address and the role
\* it was to have unless another call named the same row; 409 that a row of the address
\* or of the id was there or was made by another call; and any other that this call wrote
\* none - save for a 500 of which the database failed. Without main.ts nothing else ends
\* in a 500.
AnswersTrue ==
    \A c \in Calls :
        LET ever == users \cup past
            address == req[c].body.email.address
        IN
        /\ answer[c] = 201 =>
              \E u \in ever :
                  /\ u.by = c /\ u.id = IdOf(c)
                  /\ Shared(c) \/ (u.email.address = address /\ u.userRole = HandlerRole(req[c]))
        /\ answer[c] = 409 =>
              \E u \in ever : u.by # c /\ (u.email.address = address \/ u.id = IdOf(c))
        /\ answer[c] \notin {0, 201} /\ c \notin degraded => \A u \in ever : u.by # c
        /\ answer[c] = 500 /\ installed = "AppModule" => c \in degraded

\* The save of call c comes to its end, for the row of that id.
Saves(c, id) == At(c, "save") /\ phase'[c] # "save" /\ IdOf(c) = id

\* An account becomes an administrator's only by the save of a call whose caller held
\* CAN_CREATE_ADMIN when the guard looked, whatever the body of any call asks for,
\* whichever calls write the same row and whoever is granted or loses the privilege
\* meanwhile.
AdminsByGranters ==
    [][\A u \in users' :
          /\ u.userRole = "ADMIN"
          /\ \A v \in users : v.id = u.id => v.userRole # "ADMIN"
          => \E c \in admitted : Saves(c, u.id)]_vars

\* Whom signIn asks for a password.
Eligible ==
    {u \in users : u.isEmailVerified /\ u.userRole \notin {"ADMIN", "SUPER_ADMIN"}}

\* To register is not enough to sign in, for nothing in the code confirms an address: an
\* account comes to be one that signIn lets in only by the save of a body that calls it
\* confirmed, or that names the row of an account which was.
ConfirmedByBody ==
    [][\A u \in Eligible' :
          (\A v \in Eligible : v.id # u.id) =>
              \E c \in Calls :
                  /\ Saves(c, u.id)
                  /\ \/ req[c].body.isEmailVerified = TRUE
                     \/ \E v \in users : v.id = req[c].body.id /\ v.isEmailVerified]_vars

\* Every call is answered unless its worker exits, whichever query fails and whatever
\* is missing.
EveryCallAnswered ==
    \A c \in Calls : phase[c] # "idle" ~> (answer[c] # 0 \/ phase[c] = "lost")
=============================================================================
