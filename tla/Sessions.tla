------------------------------ MODULE Sessions ------------------------------
(***************************************************************************)
(* Refresh tokens and passwords: AuthService.signIn, refreshAccessToken,   *)
(* logout and resetPassword over the users table and CacheService.  Each   *)
(* await is a step boundary.  A Redis command that fails has no effect and *)
(* CacheService swallows the error; a worker may exit with a call in it.   *)
(* Any call may be turned away before it gets to the service: by the       *)
(* throttler (429), and a logout by AuthGuard, for want of an access token *)
(* that is still good (401).                                               *)
(*                                                                         *)
(* Accounts are as they were found, but for resetPassword: a registration  *)
(* that writes an account again (Registration) is left out.                *)
(***************************************************************************)
EXTENDS Integers, FiniteSets

CONSTANTS
    Users,          \* accounts that getUserByEmail and findUserById find
    Eligible,       \* those with a verified email and no administrator's role
    Passwords,      \* passwords that accounts have or may be given
    ResetTokens,    \* reset tokens, each mailed at most once
    Calls,          \* HTTP calls, each made once
    Life,           \* the refresh token's seven days, in ticks of the clock
    MaxTime,        \* bound: the clock stops here
    RedisFails,     \* whether Redis commands may fail
    None

ASSUME SessionsConstants ==
    /\ Eligible \subseteq Users
    /\ Life \in Nat \ {0} /\ MaxTime \in Nat
    /\ RedisFails \in BOOLEAN
    /\ None \notin ResetTokens \cup Passwords

\* iat counts whole seconds: two sign-ins of a user in one second are handed the
\* same string.
Token == [user : Users, iat : 0 .. MaxTime]
Access == [user : Users, iat : 0 .. MaxTime, by : {"signIn", "refreshAccessToken"}]
NoKey == 0
Forever == MaxTime + Life + 1

\* What a call asks for: the password, the refresh token, or the reset token and the
\* new password.
Request ==
    [op : {"signIn"}, user : Users, arg : Passwords] \cup
    [op : {"refreshAccessToken", "logout"}, user : Users, arg : Token] \cup
    [op : {"resetPassword"}, user : Users,
     arg : [token : ResetTokens, password : Passwords]]

ASSUME SessionsNone == None \notin Token \cup Request

VARIABLES
    now,            \* the clock
    password,       \* users.password
    refreshKeys,    \* refresh:<user>:<token>: NoKey, or when the key expires
    sessions,       \* session:<user>:<token> keys; no code reads them
    resetKey,       \* reset-password:<user>: a reset token or None
    mailed,         \* reset tokens that were written
    phase,          \* where a call stands
    req,            \* its operation and arguments
    held,           \* what a call keeps across an await: the password of signIn's
                    \* user entity, the iat of refreshAccessToken's new token
    token,          \* the refresh token that signIn signed
    answer,         \* the HTTP answer
    degraded,       \* history: calls of which a query or command failed
    before          \* history: calls answered when a call began

store == <<password, refreshKeys, sessions, resetKey, mailed>>
vars == <<now, store, phase, req, held, token, answer, degraded, before>>

Init ==
    /\ now = 0
    /\ password \in [Users -> Passwords]
    /\ refreshKeys = [t \in Token |-> NoKey]
    /\ sessions = {}
    /\ resetKey = [u \in Users |-> None]
    /\ mailed = {}
    /\ phase = [c \in Calls |-> "idle"]
    /\ req = [c \in Calls |-> None]
    /\ held = [c \in Calls |-> None]
    /\ token = [c \in Calls |-> None]
    /\ answer = [c \in Calls |-> "none"]
    /\ degraded = {}
    /\ before = [c \in Calls |-> {}]

Answered == {c \in Calls : answer[c] # "none"}
SignedIn(t) == {c \in Calls : token[c] = t}
Verify(t) == now < t.iat + Life

-----------------------------------------------------------------------------
(* Steps that several operations share                                     *)

Begin(c, op, u, arg) ==
    /\ phase[c] = "idle"
    /\ req' = [req EXCEPT ![c] = [op |-> op, user |-> u, arg |-> arg]]
    /\ before' = [before EXCEPT ![c] = Answered]

At(c, p) == phase[c] = p
Goto(c, p) == phase' = [phase EXCEPT ![c] = p] /\ UNCHANGED answer
Finish(c, a) ==
    /\ phase' = [phase EXCEPT ![c] = "done"]
    /\ answer' = [answer EXCEPT ![c] = a]

\* How a Redis command may end.
Outcome == IF RedisFails THEN BOOLEAN ELSE {TRUE}
Note(c, ok) == degraded' = IF ok THEN degraded ELSE degraded \cup {c}

\* A guard refuses the call before its handler runs.
TurnAway(c) == Finish(c, "turnedAway") /\ UNCHANGED <<held, degraded>>

\* A query that fails: logout's catch block is empty, the others answer 500.
QueryFails(c, op) ==
    /\ Note(c, FALSE)
    /\ Finish(c, IF op = "logout" THEN "ok" ELSE "error")
    /\ UNCHANGED held

-----------------------------------------------------------------------------
(* signIn                                                                  *)

SignIn(c, u, p) ==
    /\ Begin(c, "signIn", u, p)
    /\ \/ TurnAway(c)
       \/ QueryFails(c, "signIn")
       \/ /\ u \in Eligible
          /\ Goto(c, "compare")
          /\ held' = [held EXCEPT ![c] = password[u]]
          /\ UNCHANGED degraded
       \/ u \notin Eligible /\ Finish(c, "refused") /\ UNCHANGED <<held, degraded>>
    /\ UNCHANGED <<now, store, token>>

\* Mutant: a wrong password is not turned away.
CompareIgnored(c) ==
    /\ At(c, "compare")
    /\ Goto(c, "setSession")
    /\ token' = [token EXCEPT ![c] = IF held[c] = req[c].arg
                                       THEN [user |-> req[c].user, iat |-> now] ELSE None]
    /\ UNCHANGED <<now, store, req, held, degraded, before>>

\* Mutant: the two cache writes are not awaited.
CompareAnswers(c) ==
    /\ At(c, "compare")
    /\ IF held[c] = req[c].arg
         THEN /\ phase' = [phase EXCEPT ![c] = "setSession"]
              /\ answer' = [answer EXCEPT ![c] = "ok"]
              /\ token' = [token EXCEPT ![c] = [user |-> req[c].user, iat |-> now]]
         ELSE Finish(c, "refused") /\ UNCHANGED token
    /\ UNCHANGED <<now, store, req, held, degraded, before>>

\* bcrypt.compare with the password read at the start; then both tokens are signed.
Compare(c) ==
    /\ At(c, "compare")
    /\ IF held[c] = req[c].arg
         THEN Goto(c, "setSession")
              /\ token' = [token EXCEPT ![c] = [user |-> req[c].user, iat |-> now]]
         ELSE Finish(c, "refused") /\ UNCHANGED token
    /\ UNCHANGED <<now, store, req, held, degraded, before>>

\* CacheService.set of the session key: the last write of refreshAccessToken, the
\* first of signIn.
SetSession(c, ok) ==
    /\ At(c, "setSession")
    /\ sessions' = IF ~ok THEN sessions
                   ELSE sessions \cup
                     {[user |-> req[c].user, by |-> req[c].op,
                       iat |-> IF req[c].op = "signIn" THEN token[c].iat ELSE held[c]]}
    /\ Note(c, ok)
    /\ IF req[c].op = "signIn" THEN Goto(c, "setRefresh") ELSE Finish(c, "ok")
    /\ UNCHANGED <<now, password, refreshKeys, resetKey, mailed, req, held, token, before>>

\* CacheService.set of the refresh key: SET, then EXPIRE. If SET throws, EXPIRE is
\* not called.
SetRefresh(c, ok) ==
    /\ At(c, "setRefresh")
    /\ IF ok
         THEN /\ refreshKeys' = [refreshKeys EXCEPT ![token[c]] = Forever]
              /\ Goto(c, "expireRefresh")
         ELSE Finish(c, "ok") /\ UNCHANGED refreshKeys
    /\ Note(c, ok)
    /\ UNCHANGED <<now, password, sessions, resetKey, mailed, req, held, token, before>>

\* Mutant: the refresh key gets the day of the session key.
ExpireRefreshEarly(c, ok) ==
    /\ At(c, "expireRefresh")
    /\ refreshKeys' = [refreshKeys EXCEPT ![token[c]] =
                         IF ok /\ @ > now THEN now + 1 ELSE @]
    /\ Note(c, ok)
    /\ Finish(c, "ok")
    /\ UNCHANGED <<now, password, sessions, resetKey, mailed, req, held, token, before>>

ExpireRefresh(c, ok) ==
    /\ At(c, "expireRefresh")
    /\ refreshKeys' = [refreshKeys EXCEPT ![token[c]] =
                         IF ok /\ @ > now THEN now + Life ELSE @]
    /\ Note(c, ok)
    /\ Finish(c, "ok")
    /\ UNCHANGED <<now, password, sessions, resetKey, mailed, req, held, token, before>>

-----------------------------------------------------------------------------
(* refreshAccessToken and logout, of a token the client was handed         *)

Handed == {token[c] : c \in {d \in Answered : token[d] # None}}

RefreshAccessToken(c, t) ==
    /\ t \in Handed
    /\ Begin(c, "refreshAccessToken", t.user, t)
    /\ \/ TurnAway(c)
       \/ Verify(t) /\ Goto(c, "getKey") /\ UNCHANGED <<held, degraded>>
       \/ Verify(t) /\ QueryFails(c, "refreshAccessToken")
       \/ ~Verify(t) /\ Finish(c, "refused") /\ UNCHANGED <<held, degraded>>
    /\ UNCHANGED <<now, store, token>>

\* Mutant: a GET that failed counts as an active key.
GetKeyTrusting(c, ok) ==
    /\ At(c, "getKey")
    /\ IF ~ok \/ refreshKeys[req[c].arg] > now
         THEN Goto(c, "setSession") /\ held' = [held EXCEPT ![c] = now]
         ELSE Finish(c, "refused") /\ UNCHANGED held
    /\ Note(c, ok)
    /\ UNCHANGED <<now, store, req, token, before>>

\* CacheService.get returns null when Redis fails. With an active key the new access
\* token is signed.
GetKey(c, ok) ==
    /\ At(c, "getKey")
    /\ IF ok /\ refreshKeys[req[c].arg] > now
         THEN Goto(c, "setSession") /\ held' = [held EXCEPT ![c] = now]
         ELSE Finish(c, "refused") /\ UNCHANGED held
    /\ Note(c, ok)
    /\ UNCHANGED <<now, store, req, token, before>>

\* Whoever logs out needs an access token besides the refresh token that is named.
Logout(c, t) ==
    /\ t \in Handed
    /\ Begin(c, "logout", t.user, t)
    /\ \/ TurnAway(c)
       \/ Verify(t) /\ Goto(c, "delKey") /\ UNCHANGED <<held, degraded>>
       \/ Verify(t) /\ QueryFails(c, "logout")
       \/ ~Verify(t) /\ Finish(c, "ok") /\ UNCHANGED <<held, degraded>>
    /\ UNCHANGED <<now, store, token>>

DelKey(c, ok) ==
    /\ At(c, "delKey")
    /\ refreshKeys' = [refreshKeys EXCEPT ![req[c].arg] = IF ok THEN NoKey ELSE @]
    /\ Note(c, ok)
    /\ Finish(c, "ok")
    /\ UNCHANGED <<now, password, sessions, resetKey, mailed, req, held, token, before>>

-----------------------------------------------------------------------------
(* resetPassword                                                           *)

\* Nothing in the repository writes the key that resetPassword reads.
MailResetToken(u, r) ==
    /\ r \notin mailed
    /\ mailed' = mailed \cup {r}
    /\ resetKey' = [resetKey EXCEPT ![u] = r]
    /\ UNCHANGED <<now, password, refreshKeys, sessions, phase, req, held, token, answer,
                   degraded, before>>

\* The stored token is read first; findUserById and bcrypt.hash follow.
ResetPassword(c, u, r, p, ok) ==
    /\ r \in mailed
    /\ Begin(c, "resetPassword", u, [token |-> r, password |-> p])
    /\ \/ TurnAway(c)
       \/ /\ IF ok /\ resetKey[u] = r THEN Goto(c, "savePassword") ELSE Finish(c, "refused")
          /\ Note(c, ok)
          /\ UNCHANGED held
    /\ UNCHANGED <<now, store, token>>

SavePassword(c) ==
    /\ At(c, "savePassword")
    /\ \/ /\ password' = [password EXCEPT ![req[c].user] = req[c].arg.password]
          /\ Goto(c, "delReset")
          /\ UNCHANGED <<held, degraded>>
       \/ QueryFails(c, "resetPassword") /\ UNCHANGED password
    /\ UNCHANGED <<now, refreshKeys, sessions, resetKey, mailed, req, token, before>>

\* Mutant: the token is left in the cache.
DelResetSkipped(c, ok) ==
    /\ At(c, "delReset")
    /\ Finish(c, "ok")
    /\ UNCHANGED <<now, store, req, held, token, degraded, before>>

DelReset(c, ok) ==
    /\ At(c, "delReset")
    /\ resetKey' = [resetKey EXCEPT ![req[c].user] = IF ok THEN None ELSE @]
    /\ Note(c, ok)
    /\ Finish(c, "ok")
    /\ UNCHANGED <<now, password, refreshKeys, sessions, mailed, req, held, token, before>>

-----------------------------------------------------------------------------
Tick ==
    /\ now < MaxTime
    /\ now' = now + 1
    /\ UNCHANGED <<store, phase, req, held, token, answer, degraded, before>>

\* The worker exits, between any two steps of a call.
Exit(c) ==
    /\ phase[c] \notin {"idle", "done", "lost"}
    /\ phase' = [phase EXCEPT ![c] = "lost"]
    /\ UNCHANGED <<now, store, req, held, token, answer, degraded, before>>

Start(c) ==
    \/ \E u \in Users, p \in Passwords : SignIn(c, u, p)
    \/ \E t \in Token : RefreshAccessToken(c, t) \/ Logout(c, t)
    \/ \E u \in Users, r \in ResetTokens, p \in Passwords, ok \in Outcome :
          ResetPassword(c, u, r, p, ok)

Continue(c) ==
    \/ Compare(c)
    \/ SavePassword(c)
    \/ \E ok \in Outcome :
          \/ SetSession(c, ok) \/ SetRefresh(c, ok) \/ ExpireRefresh(c, ok)
          \/ GetKey(c, ok) \/ DelKey(c, ok) \/ DelReset(c, ok)

Next ==
    \/ Tick
    \/ \E u \in Users, r \in ResetTokens : MailResetToken(u, r)
    \/ \E c \in Calls : Start(c) \/ Continue(c) \/ Exit(c)

Spec == Init /\ [][Next]_vars

-----------------------------------------------------------------------------
TypeOK ==
    /\ now \in 0 .. MaxTime
    /\ password \in [Users -> Passwords]
    /\ refreshKeys \in [Token -> 0 .. Forever]
    /\ sessions \subseteq Access
    /\ resetKey \in [Users -> ResetTokens \cup {None}]
    /\ mailed \subseteq ResetTokens
    /\ phase \in [Calls -> {"idle", "compare", "setSession", "setRefresh", "expireRefresh",
                            "getKey", "delKey", "savePassword", "delReset", "done", "lost"}]
    /\ req \in [Calls -> Request \cup {None}]
    /\ held \in [Calls -> Passwords \cup 0 .. MaxTime \cup {None}]
    /\ token \in [Calls -> Token \cup {None}]
    /\ answer \in [Calls -> {"none", "ok", "refused", "error", "turnedAway"}]
    /\ \A c \in Calls : phase[c] = "setSession" /\ req[c].op = "signIn" => token[c] # None
    /\ degraded \subseteq Calls
    /\ before \in [Calls -> SUBSET Calls]

\* A logout of t that no guard has turned away.
LoggedOut(t) ==
    \E c \in Calls :
        /\ phase[c] # "idle" /\ answer[c] # "turnedAway"
        /\ req[c].op = "logout" /\ req[c].arg = t

\* Up to its own expiry a refresh token that signIn handed out can be used, on any
\* worker, unless a logout that got past the guards named it or a cache write of that
\* sign-in failed: no other sign-in, refresh, reset, exit or key expiry takes it away,
\* and no logout that was turned away.
IssuedTokenUsable ==
    \A c \in Calls :
        /\ answer[c] = "ok" /\ token[c] # None /\ c \notin degraded
        /\ Verify(token[c])
        /\ ~LoggedOut(token[c])
        => refreshKeys[token[c]] > now

\* Logout c was answered as done before call d began, and both name the same token.
OutBefore(c, d) ==
    /\ c \in before[d] /\ answer[c] = "ok"
    /\ req[c].op = "logout" /\ req[d].op = "refreshAccessToken"
    /\ req[c].arg = req[d].arg

\* A refresh that begins after a logout of its token was answered with "Logged out
\* successfully" gets nothing. The exceptions are all there are: Redis or Postgres
\* failed the logout, or a second sign-in of the same second was handed the same token.
\* (A logout that a guard turned away is answered 401 or 429, and the key stays.)
LogoutIsFinal ==
    \A c, d \in Calls :
        OutBefore(c, d) /\ c \notin degraded /\ Cardinality(SignedIn(req[c].arg)) = 1 =>
            answer[d] # "ok" /\ phase[d] # "setSession"

\* A reset token changes the password once: a call that begins after one with the
\* same token has been answered gets nowhere, if Redis did not fail the first one.
\* (Overlapping calls may both pass, and a worker may exit before the DEL.)
ResetTokenUsedOnce ==
    \A c, d \in Calls :
        /\ c \in before[d] /\ answer[c] = "ok" /\ c \notin degraded
        /\ req[c].op = "resetPassword" /\ req[d].op = "resetPassword"
        /\ req[c].user = req[d].user /\ req[c].arg.token = req[d].arg.token
        => answer[d] \in {"refused", "turnedAway"}

\* What TokenStore sees: the keys that have not expired, and every call but those of
\* resetPassword. A call that waits for its EXPIRE, or for the session key of a refresh,
\* has been served.
Resets == {c \in Calls : phase[c] # "idle" /\ req[c].op = "resetPassword"}
Live == {t \in Token : refreshKeys[t] > now}
Asking == {q \in Request : q.op \in {"refreshAccessToken", "logout"}}
Asked == [c \in Calls |-> IF req[c] \in Asking THEN req[c] ELSE None]
Served ==
    {c \in Calls : \/ phase[c] = "expireRefresh"
                   \/ phase[c] = "setSession" /\ req[c].op = "refreshAccessToken"}
Over == {c \in Calls \ Resets : phase[c] \in {"done", "lost"}}
Failed == degraded \ Resets
Told == [c \in Calls |-> IF c \in Resets THEN "none" ELSE answer[c]]

Store == INSTANCE TokenStore WITH
    live <- Live, issued <- token, asked <- Asked, served <- Served, over <- Over,
    failed <- Failed, answer <- Told

\* With the cache's commands hidden, a refresh token is usable from before its sign-in
\* is answered until it expires or is logged out, a refresh answers by what it found,
\* and neither an exit between two commands, another's failure nor a call that a guard
\* turned away changes that.
KeepsTokenStore == Store!Spec
=============================================================================
