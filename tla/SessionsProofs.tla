--------------------------- MODULE SessionsProofs ---------------------------
(***************************************************************************)
(* Theorems of Sessions, for any users, passwords, tokens and calls, any   *)
(* lifetime and any bound of the clock.  All of them follow from Inductive: *)
(* what is known of a call at each phase (CallAt), of the key of the token *)
(* it was handed, named or spent (Kept, Gone, Spent), and of two calls of   *)
(* which one was answered before the other began (PairAt).                 *)
(***************************************************************************)
EXTENDS Sessions, FiniteSetTheorems, TLAPS

\* One sign-in alone was handed t.
Sole(t) == \E c \in Calls : SignedIn(t) = {c}
Closed(t) == t \in Handed /\ Sole(t)

\* Where the phase of a call puts it in the code.
Place(c) ==
    /\ phase[c] = "idle" <=> req[c] = None
    /\ phase[c] = "idle" => before[c] = {}
    /\ phase[c] = "done" <=> answer[c] # "none"
    /\ phase[c] \in {"compare", "setRefresh", "expireRefresh"} => req[c].op = "signIn"
    /\ phase[c] = "setSession" => req[c].op \in {"signIn", "refreshAccessToken"}
    /\ phase[c] = "getKey" => req[c].op = "refreshAccessToken"
    /\ phase[c] = "delKey" => req[c].op = "logout"
    /\ phase[c] \in {"savePassword", "delReset"} => req[c].op = "resetPassword"

\* What a call holds: only signIn signs refresh tokens, at its compare, and a client has
\* only the tokens that it was handed.
Holds(c) ==
    /\ phase[c] \in {"setRefresh", "expireRefresh"} => token[c] # None
    /\ token[c] # None =>
          /\ phase[c] \notin {"idle", "compare"}
          /\ req[c].op = "signIn" /\ token[c].iat <= now
    /\ phase[c] = "setSession" =>
          IF req[c].op = "signIn" THEN token[c] # None ELSE held[c] \in 0 .. MaxTime
    /\ phase[c] # "idle" /\ req[c].op \in {"refreshAccessToken", "logout"} =>
          req[c].arg \in Handed
    /\ phase[c] # "idle" /\ req[c].op = "resetPassword" => req[c].arg.token \in mailed

\* The key of a token that was handed out lives as long as the token, until a logout.
Kept(c) ==
    /\ token[c] # None /\ c \notin degraded
    /\ phase[c] = "expireRefresh" \/ answer[c] = "ok"
    /\ ~LoggedOut(token[c])
    => refreshKeys[token[c]] >= token[c].iat + Life

\* The key of a token that was logged out is gone, or the token has expired.
Gone(c) ==
    /\ answer[c] = "ok" /\ req[c].op = "logout" /\ c \notin degraded
    /\ Sole(req[c].arg)
    => refreshKeys[req[c].arg] = NoKey \/ ~Verify(req[c].arg)

\* A reset token that was used is not in the cache.
Spent(c) ==
    phase[c] = "done" /\ req[c].op = "resetPassword" /\ answer[c] = "ok" /\ c \notin degraded
    => resetKey[req[c].user] # req[c].arg.token

CallAt(c) == Place(c) /\ Holds(c) /\ Kept(c) /\ Gone(c) /\ Spent(c)

\* A refresh that began after a logout of its token finds no key.
RefusedAfter(c, d) ==
    OutBefore(c, d) /\ c \notin degraded /\ Sole(req[c].arg) =>
        /\ answer[d] # "ok" /\ phase[d] # "setSession"
        /\ phase[d] = "getKey" => refreshKeys[req[c].arg] = NoKey

UsedOnce(c, d) ==
    /\ c \in before[d] /\ answer[c] = "ok" /\ c \notin degraded
    /\ req[c].op = "resetPassword" /\ req[d].op = "resetPassword"
    /\ req[c].user = req[d].user /\ req[c].arg.token = req[d].arg.token
    => answer[d] \in {"refused", "turnedAway"}

PairAt(c, d) ==
    c \in before[d] => phase[c] = "done" /\ RefusedAfter(c, d) /\ UsedOnce(c, d)

Signers == {c \in Calls : token[c] # None}

Inductive ==
    /\ TypeOK
    /\ \A c \in Calls : CallAt(c)
    /\ \A c, d \in Calls : PairAt(c, d)
    /\ IsFiniteSet(Signers)

-----------------------------------------------------------------------------
(* Steps of calls and of the store.                                        *)

Same(d) ==
    /\ phase'[d] = phase[d] /\ req'[d] = req[d] /\ held'[d] = held[d]
    /\ token'[d] = token[d] /\ answer'[d] = answer[d] /\ before'[d] = before[d]
    /\ d \in degraded' <=> d \in degraded

\* What every step of a call leaves in place.
Moves(d) ==
    /\ phase[d] # "done" /\ phase'[d] # "idle"
    /\ phase[d] # "idle" => req'[d] = req[d] /\ answer'[d] # "turnedAway"
    /\ token[d] # None => token'[d] = token[d]

StoreMoves ==
    /\ now <= now' /\ mailed \subseteq mailed'
    /\ \A u \in Users : resetKey'[u] = resetKey[u] \/ resetKey'[u] \notin mailed
    /\ \A t \in Token :
          refreshKeys[t] >= t.iat + Life => refreshKeys'[t] >= t.iat + Life \/ LoggedOut(t)
    /\ \A t \in Token : Closed(t) /\ refreshKeys[t] = NoKey => refreshKeys'[t] = NoKey

\* A token that was handed out is a token that a call was answered with.
LEMMA HandedTokens ==
    ASSUME TypeOK, NEW t \in Handed
    PROVE  t \in Token /\ \E c \in Calls : token[c] = t /\ answer[c] # "none"
BY DEF Handed, Answered, TypeOK

\* Tokens go on to be handed out and logged out, and one that two sign-ins were handed
\* never has a single owner again.
LEMMA TokensMonotone ==
    ASSUME Inductive, TypeOK', \A d \in Calls : Same(d) \/ Moves(d)
    PROVE  /\ Handed \subseteq Handed'
           /\ \A t : LoggedOut(t) => LoggedOut(t)'
           /\ \A t \in Handed : Sole(t)' => Sole(t)
<1>1. \A d \in Calls : token[d] # None => token'[d] = token[d]
  BY DEF Same, Moves
<1>2. \A d \in Calls : answer[d] # "none" => Same(d)
  BY DEF Inductive, CallAt, Place, Moves
<1>3. Handed \subseteq Handed'
  BY <1>2 DEF Handed, Answered, Same
<1>4. ASSUME NEW t, LoggedOut(t) PROVE LoggedOut(t)'
  BY <1>4 DEF LoggedOut, Same, Moves
<1>5. ASSUME NEW t \in Handed, Sole(t)' PROVE Sole(t)
  <2>1. PICK y \in Calls : token[y] = t /\ t # None
    BY HandedTokens, SessionsNone DEF Inductive
  <2>2. PICK x \in Calls : SignedIn(t)' = {x}
    BY <1>5 DEF Sole
  <2>3. SignedIn(t) \subseteq SignedIn(t)'
    BY <1>1, <2>1 DEF SignedIn
  <2>4. y \in SignedIn(t)
    BY <2>1 DEF SignedIn
  <2>5. QED BY <2>2, <2>3, <2>4 DEF Sole
<1>6. QED BY <1>3, <1>4, <1>5

\* What holds of a call goes on to hold while others act.
LEMMA OtherCall ==
    ASSUME Inductive, TypeOK', StoreMoves, \A e \in Calls : Same(e) \/ Moves(e),
           NEW d \in Calls, Same(d)
    PROVE  CallAt(d)'
<1>1. /\ Handed \subseteq Handed'
      /\ \A t : LoggedOut(t) => LoggedOut(t)'
      /\ \A t \in Handed : Sole(t)' => Sole(t)
  BY TokensMonotone
<1>2. CallAt(d) /\ TypeOK
  BY DEF Inductive
<1>3. Place(d)'
  BY <1>2 DEF CallAt, Place, Same
<1>4. now \in Int /\ now' \in Int /\ now <= now' /\ Life \in Int
  BY <1>2, SessionsConstants DEF TypeOK, StoreMoves
<1>5. token[d] # None => token[d] \in Token /\ token[d].iat \in Int
  BY <1>2, SessionsConstants DEF TypeOK, Token
<1>6. Holds(d)'
  BY <1>1, <1>2, <1>4, <1>5 DEF CallAt, Holds, Same, StoreMoves
<1>7. Kept(d)'
  BY <1>1, <1>2, <1>5 DEF CallAt, Kept, Same, StoreMoves
<1>8. Gone(d)'
  <2> SUFFICES ASSUME answer[d] = "ok", req[d].op = "logout", d \notin degraded,
                      Sole(req[d].arg)'
               PROVE  refreshKeys'[req[d].arg] = NoKey \/ ~Verify(req[d].arg)'
    BY DEF Gone, Same, NoKey
  <2> DEFINE t == req[d].arg
  <2>1. t \in Handed
    BY <1>2 DEF CallAt, Place, Holds
  <2>2. t \in Token /\ t.iat \in Int
    BY <2>1, <1>2, HandedTokens, SessionsConstants DEF Token
  <2>3. Closed(t)
    BY <1>1, <2>1 DEF Closed, Sole, SignedIn, Same
  <2>4. refreshKeys[t] = NoKey \/ ~Verify(t)
    BY <1>2, <2>3 DEF CallAt, Gone, Closed
  <2>5. Verify(t)' => Verify(t)
    BY <1>4, <2>2 DEF Verify, Same
  <2>6. QED BY <2>2, <2>3, <2>4, <2>5 DEF StoreMoves
<1>9. Spent(d)'
  <2> SUFFICES ASSUME phase[d] = "done", req[d].op = "resetPassword", answer[d] = "ok",
                      d \notin degraded
               PROVE  resetKey'[req[d].user] # req[d].arg.token
    BY DEF Spent, Same
  <2>1. req[d] \in Request /\ req[d].arg.token \in mailed
    BY <1>2 DEF TypeOK, CallAt, Place, Holds
  <2>2. req[d].user \in Users
    BY <2>1 DEF Request
  <2>3. QED BY <1>2, <2>1, <2>2 DEF CallAt, Spent, StoreMoves
<1>10. QED BY <1>3, <1>6, <1>7, <1>8, <1>9 DEF CallAt

\* So does what holds of a call and one that was answered before it began.
LEMMA OtherPair ==
    ASSUME Inductive, TypeOK', StoreMoves, \A e \in Calls : Same(e) \/ Moves(e),
           NEW c \in Calls, NEW d \in Calls, Same(d)
    PROVE  PairAt(c, d)'
<1> SUFFICES ASSUME c \in before[d] PROVE PairAt(c, d)'
  BY DEF PairAt, Same
<1>1. phase[c] = "done" /\ RefusedAfter(c, d) /\ UsedOnce(c, d)
  BY DEF Inductive, PairAt
<1>2. Same(c)
  BY <1>1 DEF Moves
<1>3. RefusedAfter(c, d)'
  <2> SUFFICES ASSUME OutBefore(c, d), c \notin degraded, Sole(req[c].arg)'
               PROVE  /\ answer[d] # "ok" /\ phase[d] # "setSession"
                      /\ phase[d] = "getKey" => refreshKeys'[req[c].arg] = NoKey
    BY <1>2 DEF RefusedAfter, OutBefore, Same, NoKey
  <2>1. req[c].arg \in Handed
    BY <1>1 DEF OutBefore, Inductive, CallAt, Holds
  <2>2. Sole(req[c].arg)
    BY <1>2, <2>1, TokensMonotone DEF Sole, SignedIn, Same
  <2>3. Closed(req[c].arg) /\ req[c].arg \in Token
    BY <2>1, <2>2, HandedTokens DEF Inductive, Closed
  <2>4. QED BY <1>1, <2>3 DEF RefusedAfter, Closed, StoreMoves
<1>4. UsedOnce(c, d)'
  BY <1>1, <1>2 DEF UsedOnce, Same
<1>5. QED BY <1>1, <1>2, <1>3, <1>4 DEF PairAt, Same

LEMMA Step ==
    ASSUME Inductive, TypeOK', StoreMoves, IsFiniteSet(Signers)',
           \A d \in Calls : \/ Same(d)
                            \/ Moves(d) /\ CallAt(d)' /\ \A x \in Calls : PairAt(x, d)'
    PROVE  Inductive'
<1>1. \A d \in Calls : Same(d) \/ Moves(d)
  OBVIOUS
<1>2. ASSUME NEW d \in Calls PROVE CallAt(d)'
  BY <1>1, OtherCall
<1>3. ASSUME NEW x \in Calls, NEW d \in Calls PROVE PairAt(x, d)'
  BY <1>1, OtherPair
<1>4. QED BY <1>2, <1>3 DEF Inductive

\* A call goes on: a refresh gets past its key only when the key is there.
LEMMA ContinueStep ==
    ASSUME Inductive, TypeOK', StoreMoves, NEW c \in Calls, phase[c] \notin {"idle", "done"},
           \A d \in Calls \ {c} : Same(d), UNCHANGED <<req, before>>,
           phase'[c] \notin {"idle", "getKey"}, answer'[c] # "turnedAway",
           token[c] # None => token'[c] = token[c], c \in degraded => c \in degraded',
           CallAt(c)',
           req[c].op = "refreshAccessToken" /\ (answer'[c] = "ok" \/ phase'[c] = "setSession")
              => \/ phase[c] = "setSession"
                 \/ phase[c] = "getKey" /\ refreshKeys[req[c].arg] # NoKey
    PROVE  Inductive'
<1>1. Moves(c)
  BY DEF Moves
<1>2. \A d \in Calls : Same(d) \/ Moves(d)
  BY <1>1
<1>3. ASSUME NEW x \in Calls PROVE PairAt(x, c)'
  <2> SUFFICES ASSUME x \in before[c] PROVE PairAt(x, c)'
    BY DEF PairAt
  <2>1. phase[x] = "done" /\ RefusedAfter(x, c) /\ UsedOnce(x, c) /\ Same(x)
    BY DEF Inductive, PairAt
  <2>2. RefusedAfter(x, c)'
    <3> SUFFICES ASSUME OutBefore(x, c), x \notin degraded, Sole(req[x].arg)'
                 PROVE  answer'[c] # "ok" /\ phase'[c] # "setSession"
      BY <2>1 DEF RefusedAfter, OutBefore, Same
    <3>1. req[x].arg \in Handed
      BY <2>1 DEF OutBefore, Inductive, CallAt, Holds
    <3>2. Sole(req[x].arg)
      BY <1>2, <3>1, TokensMonotone DEF Sole, SignedIn
    <3>3. QED BY <2>1, <3>2 DEF RefusedAfter, OutBefore
  <2>3. UsedOnce(x, c)'
    <3>1. answer[c] = "none"
      BY DEF Inductive, CallAt, Place, TypeOK
    <3>2. QED BY <2>1, <3>1 DEF UsedOnce, Same
  <2>4. QED BY <2>1, <2>2, <2>3 DEF PairAt, Same
<1>4. IsFiniteSet(Signers)'
  <2>1. Signers' \subseteq Signers \cup {c}
    BY DEF Signers, Same
  <2>2. IsFiniteSet(Signers \cup {c})
    BY FS_AddElement DEF Inductive
  <2>3. QED BY <2>1, <2>2, FS_Subset
<1>5. QED BY <1>1, <1>3, <1>4, Step

LEMMA BeginStep ==
    ASSUME Inductive, TypeOK', NEW c \in Calls, phase[c] = "idle",
           \A d \in Calls \ {c} : Same(d), UNCHANGED <<now, store, token>>,
           phase'[c] # "idle", before'[c] = Answered, CallAt(c)',
           \A x \in Answered : RefusedAfter(x, c)' /\ UsedOnce(x, c)'
    PROVE  Inductive'
<1>1. Moves(c)
  BY DEF Moves
<1>2. StoreMoves
  BY DEF StoreMoves, store, Inductive, TypeOK
<1>3. ASSUME NEW x \in Calls PROVE PairAt(x, c)'
  <2> SUFFICES ASSUME x \in Answered PROVE PairAt(x, c)'
    BY DEF PairAt
  <2>1. phase[x] = "done" /\ Same(x)
    BY DEF Answered, Inductive, CallAt, Place
  <2>2. QED BY <2>1 DEF PairAt, Same
<1>4. IsFiniteSet(Signers)'
  BY DEF Signers, Inductive
<1>5. QED BY <1>1, <1>2, <1>3, <1>4, Step

-----------------------------------------------------------------------------
(* One lemma per action.                                                   *)

Phases == {"idle", "compare", "setSession", "setRefresh", "expireRefresh", "getKey",
           "delKey", "savePassword", "delReset", "done", "lost"}
Answers == {"none", "ok", "refused", "error", "turnedAway"}

\* The two ways in which a step leaves its call.
LEMMA Leaves ==
    ASSUME TypeOK, NEW c \in Calls
    PROVE  /\ \A p \in Phases : Goto(c, p) =>
                /\ phase' \in [Calls -> Phases] /\ phase'[c] = p
                /\ \A d \in Calls \ {c} : phase'[d] = phase[d]
                /\ answer' = answer
           /\ \A a \in Answers : Finish(c, a) =>
                /\ phase' \in [Calls -> Phases] /\ phase'[c] = "done"
                /\ answer' \in [Calls -> Answers] /\ answer'[c] = a
                /\ \A d \in Calls \ {c} : phase'[d] = phase[d] /\ answer'[d] = answer[d]
BY DEF TypeOK, Goto, Finish, Phases, Answers

\* The request that a call begins with.
LEMMA Begins ==
    ASSUME Inductive, NEW c \in Calls, NEW op, NEW u, NEW arg,
           [op |-> op, user |-> u, arg |-> arg] \in Request, Begin(c, op, u, arg)
    PROVE  /\ phase[c] = "idle" /\ answer[c] = "none" /\ token[c] = None
           /\ req' \in [Calls -> Request \cup {None}] /\ req'[c] \in Request /\ req'[c] # None
           /\ req'[c].op = op /\ req'[c].user = u /\ req'[c].arg = arg
           /\ before' \in [Calls -> SUBSET Calls] /\ before'[c] = Answered
           /\ \A d \in Calls \ {c} : req'[d] = req[d] /\ before'[d] = before[d]
<1> DEFINE q == [op |-> op, user |-> u, arg |-> arg]
<1>1. q \in Request /\ q # None /\ q.op = op /\ q.user = u /\ q.arg = arg
  BY SessionsNone
<1>2. req' = [req EXCEPT ![c] = q]
  BY DEF Begin
<1> HIDE DEF q
<1>3. phase[c] = "idle" /\ answer[c] = "none" /\ token[c] = None
  BY DEF Begin, Inductive, CallAt, Place, Holds
<1>4. Answered \in SUBSET Calls /\ before' = [before EXCEPT ![c] = Answered]
  BY DEF Answered, Begin
<1>5. QED BY <1>1, <1>2, <1>3, <1>4 DEF Inductive, TypeOK

\* What holds of a call that begins: it has no token, and its key is not yet asked for.
LEMMA Begun ==
    ASSUME Inductive, TypeOK', NEW c \in Calls, token'[c] = None, UNCHANGED store, Place(c)',
           phase'[c] \notin {"setSession", "setRefresh", "expireRefresh"},
           req'[c].op \in {"refreshAccessToken", "logout"} => req'[c].arg \in Handed',
           req'[c].op = "resetPassword" =>
              req'[c].arg.token \in mailed' /\ answer'[c] # "ok",
           req'[c].op = "logout" /\ answer'[c] = "ok" /\ c \notin degraded' =>
              ~Verify(req[c].arg)'
    PROVE  CallAt(c)'
<1>1. Holds(c)' /\ Kept(c)' /\ Gone(c)' /\ Spent(c)'
  BY DEF Holds, Kept, Gone, Spent, Verify
<1>2. QED BY <1>1 DEF CallAt

LEMMA SignInStep ==
    ASSUME Inductive, NEW c \in Calls, NEW u \in Users, NEW p \in Passwords, SignIn(c, u, p)
    PROVE  Inductive'
<1>1. [op |-> "signIn", user |-> u, arg |-> p] \in Request
  BY DEF Request
<1>2. /\ phase[c] = "idle" /\ answer[c] = "none" /\ token[c] = None
      /\ req' \in [Calls -> Request \cup {None}] /\ req'[c] # None /\ req'[c].op = "signIn"
      /\ before' \in [Calls -> SUBSET Calls] /\ before'[c] = Answered
      /\ \A d \in Calls \ {c} : req'[d] = req[d] /\ before'[d] = before[d]
  BY <1>1, Begins DEF SignIn
<1>3. /\ phase' \in [Calls -> Phases] /\ answer' \in [Calls -> Answers]
      /\ \A d \in Calls \ {c} : phase'[d] = phase[d] /\ answer'[d] = answer[d]
      /\ \/ phase'[c] = "compare" /\ answer'[c] = "none"
         \/ phase'[c] = "done" /\ answer'[c] # "none"
  BY <1>2, Leaves DEF SignIn, QueryFails, TurnAway, Inductive, TypeOK, Phases, Answers
<1>4. /\ held' \in [Calls -> Passwords \cup 0 .. MaxTime \cup {None}]
      /\ \A d \in Calls \ {c} : held'[d] = held[d] /\ (d \in degraded' <=> d \in degraded)
      /\ degraded' \subseteq Calls
  BY DEF SignIn, QueryFails, TurnAway, Note, Inductive, TypeOK
<1>5. UNCHANGED <<now, store, token>>
  BY DEF SignIn
<1>6. TypeOK'
  BY <1>2, <1>3, <1>4, <1>5 DEF Inductive, TypeOK, store, Phases, Answers
<1>7. Place(c)'
  BY <1>2, <1>3 DEF Place
<1>8. CallAt(c)'
  BY <1>2, <1>3, <1>5, <1>6, <1>7, Begun
<1>9. \A d \in Calls \ {c} : Same(d)
  BY <1>2, <1>3, <1>4, <1>5 DEF Same
<1>10. \A x \in Answered : RefusedAfter(x, c)' /\ UsedOnce(x, c)'
  BY <1>2 DEF RefusedAfter, UsedOnce, OutBefore
<1>11. QED BY <1>2, <1>3, <1>5, <1>6, <1>8, <1>9, <1>10, BeginStep

\* A refresh that begins after a logout of its token: the key is gone, or the token has
\* expired, and then it is turned away at once.
LEMMA RefreshAccessTokenStep ==
    ASSUME Inductive, NEW c \in Calls, NEW t \in Token, RefreshAccessToken(c, t)
    PROVE  Inductive'
<1>1. [op |-> "refreshAccessToken", user |-> t.user, arg |-> t] \in Request
  BY DEF Request, Token
<1>2. /\ phase[c] = "idle" /\ answer[c] = "none" /\ token[c] = None
      /\ req' \in [Calls -> Request \cup {None}] /\ req'[c] # None
      /\ req'[c].op = "refreshAccessToken" /\ req'[c].arg = t
      /\ before' \in [Calls -> SUBSET Calls] /\ before'[c] = Answered
      /\ \A d \in Calls \ {c} : req'[d] = req[d] /\ before'[d] = before[d]
  BY <1>1, Begins DEF RefreshAccessToken
<1>3. /\ phase' \in [Calls -> Phases] /\ answer' \in [Calls -> Answers]
      /\ \A d \in Calls \ {c} : phase'[d] = phase[d] /\ answer'[d] = answer[d]
      /\ \/ phase'[c] = "getKey" /\ answer'[c] = "none" /\ Verify(t)
         \/ phase'[c] = "done" /\ answer'[c] \in {"refused", "error", "turnedAway"}
  BY <1>2, Leaves DEF RefreshAccessToken, QueryFails, TurnAway, Inductive, TypeOK, Phases, Answers
<1>4. /\ held' = held /\ degraded' \subseteq Calls
      /\ \A d \in Calls \ {c} : d \in degraded' <=> d \in degraded
  BY DEF RefreshAccessToken, QueryFails, TurnAway, Note, Inductive, TypeOK
<1>5. UNCHANGED <<now, store, token>>
  BY DEF RefreshAccessToken
<1>6. TypeOK'
  BY <1>2, <1>3, <1>4, <1>5 DEF Inductive, TypeOK, store, Phases, Answers
<1>7. Place(c)'
  BY <1>2, <1>3 DEF Place
<1>8. \A d \in Calls \ {c} : Same(d)
  BY <1>2, <1>3, <1>4, <1>5 DEF Same
<1>9. t \in Handed /\ t \in Handed'
  <2>1. \A d \in Calls : Same(d) \/ Moves(d)
    BY <1>2, <1>3, <1>5, <1>8 DEF Moves
  <2>2. QED BY <1>6, <2>1, TokensMonotone DEF RefreshAccessToken
<1>10. CallAt(c)'
  BY <1>2, <1>3, <1>5, <1>6, <1>7, <1>9, Begun
<1>11. ASSUME NEW x \in Answered PROVE RefusedAfter(x, c)' /\ UsedOnce(x, c)'
  <2>1. x \in Calls /\ x # c /\ phase[x] = "done" /\ Same(x)
    BY <1>2, <1>8 DEF Answered, Inductive, CallAt, Place
  <2>2. UsedOnce(x, c)'
    BY <1>2 DEF UsedOnce
  <2>3. RefusedAfter(x, c)'
    <3> SUFFICES ASSUME req[x].op = "logout", req[x].arg = t, x \notin degraded,
                        answer[x] = "ok", Sole(req[x].arg)', phase'[c] = "getKey"
                 PROVE  refreshKeys[t] = NoKey
      BY <1>2, <1>3, <1>5, <2>1 DEF RefusedAfter, OutBefore, Same, store, NoKey
    <3>1. Sole(req[x].arg)
      BY <1>5, <2>1 DEF Sole, SignedIn, Same
    <3>2. QED BY <1>3, <2>1, <3>1 DEF Inductive, CallAt, Gone
  <2>4. QED BY <2>2, <2>3
<1>12. QED BY <1>2, <1>3, <1>5, <1>6, <1>8, <1>10, <1>11, BeginStep

LEMMA LogoutStep ==
    ASSUME Inductive, NEW c \in Calls, NEW t \in Token, Logout(c, t)
    PROVE  Inductive'
<1>1. [op |-> "logout", user |-> t.user, arg |-> t] \in Request
  BY DEF Request, Token
<1>2. /\ phase[c] = "idle" /\ answer[c] = "none" /\ token[c] = None
      /\ req' \in [Calls -> Request \cup {None}] /\ req'[c] # None
      /\ req'[c].op = "logout" /\ req'[c].arg = t
      /\ before' \in [Calls -> SUBSET Calls] /\ before'[c] = Answered
      /\ \A d \in Calls \ {c} : req'[d] = req[d] /\ before'[d] = before[d]
  BY <1>1, Begins DEF Logout
<1>3. /\ phase' \in [Calls -> Phases] /\ answer' \in [Calls -> Answers]
      /\ \A d \in Calls \ {c} : phase'[d] = phase[d] /\ answer'[d] = answer[d]
      /\ \/ phase'[c] = "delKey" /\ answer'[c] = "none"
         \/ phase'[c] = "done" /\ answer'[c] = "ok" /\ (c \in degraded' \/ ~Verify(t))
         \/ phase'[c] = "done" /\ answer'[c] = "turnedAway"
  BY <1>2, Leaves DEF Logout, QueryFails, TurnAway, Note, Inductive, TypeOK, Phases, Answers
<1>4. /\ held' = held /\ degraded' \subseteq Calls
      /\ \A d \in Calls \ {c} : d \in degraded' <=> d \in degraded
  BY DEF Logout, QueryFails, TurnAway, Note, Inductive, TypeOK
<1>5. UNCHANGED <<now, store, token>>
  BY DEF Logout
<1>6. TypeOK'
  BY <1>2, <1>3, <1>4, <1>5 DEF Inductive, TypeOK, store, Phases, Answers
<1>7. Place(c)'
  BY <1>2, <1>3 DEF Place
<1>8. \A d \in Calls \ {c} : Same(d)
  BY <1>2, <1>3, <1>4, <1>5 DEF Same
<1>9. t \in Handed'
  <2>1. \A d \in Calls : Same(d) \/ Moves(d)
    BY <1>2, <1>3, <1>5, <1>8 DEF Moves
  <2>2. QED BY <1>6, <2>1, TokensMonotone DEF Logout
<1>10. answer'[c] = "ok" /\ c \notin degraded' => ~Verify(req[c].arg)'
  BY <1>2, <1>3, <1>5 DEF Verify
<1>11. CallAt(c)'
  BY <1>2, <1>3, <1>5, <1>6, <1>7, <1>9, <1>10, Begun
<1>12. \A x \in Answered : RefusedAfter(x, c)' /\ UsedOnce(x, c)'
  BY <1>2 DEF RefusedAfter, UsedOnce, OutBefore
<1>13. QED BY <1>2, <1>3, <1>5, <1>6, <1>8, <1>11, <1>12, BeginStep

\* A reset that begins after its token was used does not find it in the cache.
LEMMA ResetPasswordStep ==
    ASSUME Inductive, NEW c \in Calls, NEW u \in Users, NEW r \in ResetTokens,
           NEW p \in Passwords, NEW ok, ResetPassword(c, u, r, p, ok)
    PROVE  Inductive'
<1> DEFINE arg == [token |-> r, password |-> p]
<1>1. [op |-> "resetPassword", user |-> u, arg |-> arg] \in Request /\ arg.token = r
  BY DEF Request
<1> HIDE DEF arg
<1>2. /\ phase[c] = "idle" /\ answer[c] = "none" /\ token[c] = None
      /\ req' \in [Calls -> Request \cup {None}] /\ req'[c] # None
      /\ req'[c].op = "resetPassword" /\ req'[c].user = u /\ req'[c].arg.token = r
      /\ before' \in [Calls -> SUBSET Calls] /\ before'[c] = Answered
      /\ \A d \in Calls \ {c} : req'[d] = req[d] /\ before'[d] = before[d]
  BY <1>1, Begins DEF ResetPassword, arg
<1>3. /\ phase' \in [Calls -> Phases] /\ answer' \in [Calls -> Answers]
      /\ \A d \in Calls \ {c} : phase'[d] = phase[d] /\ answer'[d] = answer[d]
      /\ \/ phase'[c] = "savePassword" /\ answer'[c] = "none" /\ resetKey[u] = r
         \/ phase'[c] = "done" /\ answer'[c] \in {"refused", "turnedAway"}
  BY <1>2, Leaves DEF ResetPassword, TurnAway, Inductive, TypeOK, Phases, Answers
<1>4. /\ held' = held /\ degraded' \subseteq Calls
      /\ \A d \in Calls \ {c} : d \in degraded' <=> d \in degraded
  BY DEF ResetPassword, TurnAway, Note, Inductive, TypeOK
<1>5. UNCHANGED <<now, store, token>>
  BY DEF ResetPassword
<1>6. TypeOK'
  BY <1>2, <1>3, <1>4, <1>5 DEF Inductive, TypeOK, store, Phases, Answers
<1>7. Place(c)'
  BY <1>2, <1>3 DEF Place
<1>8. \A d \in Calls \ {c} : Same(d)
  BY <1>2, <1>3, <1>4, <1>5 DEF Same
<1>9. req'[c].arg.token \in mailed'
  BY <1>2, <1>5 DEF ResetPassword, store
<1>10. CallAt(c)'
  BY <1>2, <1>3, <1>5, <1>6, <1>7, <1>9, Begun
<1>11. ASSUME NEW x \in Answered PROVE RefusedAfter(x, c)' /\ UsedOnce(x, c)'
  <2>1. x \in Calls /\ x # c /\ phase[x] = "done" /\ Same(x)
    BY <1>2, <1>8 DEF Answered, Inductive, CallAt, Place
  <2>2. RefusedAfter(x, c)'
    BY <1>2 DEF RefusedAfter, OutBefore
  <2>3. Spent(x)
    BY <2>1 DEF Inductive, CallAt
  <2>4. UsedOnce(x, c)'
    BY <1>2, <1>3, <2>1, <2>3 DEF UsedOnce, Spent, Same
  <2>5. QED BY <2>2, <2>4
<1>12. QED BY <1>2, <1>3, <1>5, <1>6, <1>8, <1>10, <1>11, BeginStep

-----------------------------------------------------------------------------
\* A store that a step leaves alone.
LEMMA StoreSame ==
    ASSUME TypeOK, UNCHANGED <<now, refreshKeys, resetKey, mailed>>
    PROVE  StoreMoves
BY DEF StoreMoves, TypeOK

\* A call that is being answered for the first time still has its own token to itself, or
\* shares it: a token that was handed out to one sign-in alone is not this call's.
LEMMA UnansweredNotClosed ==
    ASSUME Inductive, NEW c \in Calls, token[c] # None, answer[c] = "none"
    PROVE  ~Closed(token[c])
<1> SUFFICES ASSUME Closed(token[c]) PROVE FALSE
  OBVIOUS
<1>1. PICK y \in Calls : token[y] = token[c] /\ answer[y] # "none"
  BY HandedTokens DEF Closed, Inductive
<1>2. PICK x \in Calls : SignedIn(token[c]) = {x}
  BY DEF Closed, Sole
<1>3. y \in SignedIn(token[c]) /\ c \in SignedIn(token[c])
  BY <1>1 DEF SignedIn
<1>4. QED BY <1>1, <1>2, <1>3

\* A step of a call that is neither its first nor its last leaves the argument in place.
LEMMA StillHolds ==
    ASSUME Inductive, TypeOK', NEW c \in Calls, phase[c] \notin {"idle", "done"},
           \A d \in Calls \ {c} : Same(d), UNCHANGED req, mailed \subseteq mailed',
           token[c] # None => token'[c] = token[c], phase'[c] # "idle",
           answer'[c] # "turnedAway"
    PROVE  /\ req[c] \in Request /\ req[c] # None /\ answer[c] = "none"
           /\ phase'[c] # "idle" /\ req'[c].op \in {"refreshAccessToken", "logout"} =>
                 req'[c].arg \in Handed'
           /\ phase'[c] # "idle" /\ req'[c].op = "resetPassword" => req'[c].arg.token \in mailed'
           /\ \A t : LoggedOut(t) => LoggedOut(t)'
<1>1. \A d \in Calls : Same(d) \/ Moves(d)
  BY DEF Moves
<1>2. CallAt(c) /\ TypeOK
  BY DEF Inductive
<1>3. QED BY <1>1, <1>2, TokensMonotone DEF TypeOK, CallAt, Place, Holds

LEMMA CompareStep ==
    ASSUME Inductive, NEW c \in Calls, Compare(c)
    PROVE  Inductive'
<1>1. CallAt(c) /\ TypeOK /\ phase[c] = "compare"
  BY DEF Inductive, Compare, At
<1>2. req[c] \in Request /\ req[c].op = "signIn" /\ token[c] = None
  BY <1>1 DEF CallAt, Place, Holds, TypeOK
<1> DEFINE t == [user |-> req[c].user, iat |-> now]
<1>3. t \in Token /\ t # None /\ t.iat = now
  BY <1>1, <1>2, SessionsNone DEF Request, Token, TypeOK
<1> HIDE DEF t
<1>4. \/ Goto(c, "setSession") /\ token' = [token EXCEPT ![c] = t]
      \/ Finish(c, "refused") /\ UNCHANGED token
  BY DEF Compare, t
<1>5. UNCHANGED <<now, store, req, held, degraded, before>>
  BY DEF Compare
<1>6. /\ phase' \in [Calls -> Phases] /\ answer' \in [Calls -> Answers]
      /\ \A d \in Calls \ {c} : phase'[d] = phase[d] /\ answer'[d] = answer[d]
      /\ \/ phase'[c] = "setSession" /\ answer'[c] = "none"
         \/ phase'[c] = "done" /\ answer'[c] = "refused"
  BY <1>1, <1>4, Leaves DEF TypeOK, CallAt, Place, Phases, Answers
<1>7. /\ token' \in [Calls -> Token \cup {None}]
      /\ \A d \in Calls \ {c} : token'[d] = token[d]
      /\ \/ phase'[c] = "setSession" /\ token'[c] = t
         \/ phase'[c] = "done" /\ token'[c] = None
  BY <1>1, <1>2, <1>3, <1>4, Leaves DEF TypeOK, Phases, Answers
<1>8. TypeOK'
  BY <1>1, <1>3, <1>5, <1>6, <1>7 DEF TypeOK, store, Phases, Answers
<1>9. \A d \in Calls \ {c} : Same(d)
  BY <1>5, <1>6, <1>7 DEF Same
<1>10. Place(c)' /\ Holds(c)'
  BY <1>1, <1>2, <1>3, <1>5, <1>6, <1>7 DEF CallAt, Place, Holds, TypeOK
<1>11. Kept(c)' /\ Gone(c)' /\ Spent(c)'
  BY <1>1, <1>2, <1>5, <1>6 DEF CallAt, Place, Kept, Gone, Spent
<1>12. QED
  BY <1>1, <1>2, <1>5, <1>6, <1>8, <1>9, <1>10, <1>11, StoreSame, ContinueStep
     DEF CallAt, store

LEMMA SetSessionStep ==
    ASSUME Inductive, NEW c \in Calls, NEW ok, SetSession(c, ok)
    PROVE  Inductive'
<1>1. CallAt(c) /\ TypeOK /\ phase[c] = "setSession"
  BY DEF Inductive, SetSession, At
<1>2. /\ req[c] \in Request /\ req[c].user \in Users
      /\ req[c].op \in {"signIn", "refreshAccessToken"}
      /\ req[c].op = "signIn" => token[c] \in Token
  BY <1>1 DEF CallAt, Place, Holds, TypeOK, Request
<1> DEFINE i == IF req[c].op = "signIn" THEN token[c].iat ELSE held[c]
           s == [user |-> req[c].user, by |-> req[c].op, iat |-> i]
<1>3. i \in 0 .. MaxTime
  BY <1>1, <1>2 DEF CallAt, Holds, Token
<1>4. s \in Access
  BY <1>2, <1>3 DEF Access
<1>5. sessions' \in {sessions, sessions \cup {s}}
  BY DEF SetSession
<1> HIDE DEF s, i
<1>6. /\ UNCHANGED <<now, password, refreshKeys, resetKey, mailed, req, held, token, before>>
      /\ degraded' \in {degraded, degraded \cup {c}}
  BY DEF SetSession, Note
<1>7. /\ phase' \in [Calls -> Phases] /\ answer' \in [Calls -> Answers]
      /\ \A d \in Calls \ {c} : phase'[d] = phase[d] /\ answer'[d] = answer[d]
      /\ \/ req[c].op = "signIn" /\ phase'[c] = "setRefresh" /\ answer'[c] = "none"
         \/ /\ req[c].op = "refreshAccessToken"
            /\ phase'[c] = "done" /\ answer'[c] = "ok"
  BY <1>1, <1>2, Leaves DEF SetSession, TypeOK, CallAt, Place, Phases, Answers
<1>8. TypeOK'
  BY <1>1, <1>4, <1>5, <1>6, <1>7 DEF TypeOK, Phases, Answers
<1>9. \A d \in Calls \ {c} : Same(d)
  BY <1>6, <1>7 DEF Same
<1>10. /\ req'[c].op = "refreshAccessToken" => req'[c].arg \in Handed'
       /\ req[c] # None /\ answer[c] = "none"
  BY <1>1, <1>6, <1>7, <1>8, <1>9, StillHolds
<1>11. Place(c)' /\ Holds(c)'
  BY <1>1, <1>2, <1>6, <1>7, <1>10 DEF CallAt, Place, Holds
<1>12. Kept(c)' /\ Gone(c)' /\ Spent(c)'
  BY <1>1, <1>2, <1>6, <1>7, <1>10 DEF CallAt, Holds, Kept, Gone, Spent
<1>13. StoreMoves
  BY <1>1, <1>6, StoreSame
<1>14. CallAt(c)'
  BY <1>11, <1>12 DEF CallAt
<1>15. /\ phase[c] \notin {"idle", "done"} /\ phase'[c] \notin {"idle", "getKey"}
       /\ c \in degraded => c \in degraded'
       /\ UNCHANGED <<req, before>> /\ token'[c] = token[c]
  BY <1>1, <1>6, <1>7
<1>16. QED
  BY <1>1, <1>7, <1>8, <1>9, <1>13, <1>14, <1>15, ContinueStep

\* The key of a token is written without an end only while its sign-in has no answer.
LEMMA SetRefreshStep ==
    ASSUME Inductive, NEW c \in Calls, NEW ok, SetRefresh(c, ok)
    PROVE  Inductive'
<1> DEFINE t == token[c]
<1>1. CallAt(c) /\ TypeOK /\ phase[c] = "setRefresh"
  BY DEF Inductive, SetRefresh, At
<1>2. /\ req[c].op = "signIn" /\ t \in Token /\ t # None /\ t.iat \in Int /\ answer[c] = "none"
      /\ Forever \in Int /\ Forever >= t.iat + Life /\ Forever # NoKey
  BY <1>1, SessionsConstants DEF CallAt, Place, Holds, TypeOK, Token, Forever, NoKey
<1>3. /\ UNCHANGED <<now, password, sessions, resetKey, mailed, req, held, token, before>>
      /\ degraded' \in {degraded, degraded \cup {c}}
      /\ phase'[c] = "done" => c \in degraded'
  BY <1>1 DEF SetRefresh, Note, Goto, TypeOK
<1>4. /\ phase' \in [Calls -> Phases] /\ answer' \in [Calls -> Answers]
      /\ \A d \in Calls \ {c} : phase'[d] = phase[d] /\ answer'[d] = answer[d]
      /\ \/ phase'[c] = "expireRefresh" /\ answer'[c] = "none"
         \/ phase'[c] = "done" /\ answer'[c] = "ok"
  BY <1>1, Leaves DEF SetRefresh, TypeOK, CallAt, Place, Phases, Answers
<1>5. /\ refreshKeys' \in [Token -> 0 .. Forever]
      /\ \A v \in Token \ {t} : refreshKeys'[v] = refreshKeys[v]
      /\ refreshKeys'[t] \in {Forever, refreshKeys[t]}
      /\ phase'[c] = "expireRefresh" => refreshKeys'[t] = Forever
  <2>1. Forever \in 0 .. Forever
    BY SessionsConstants DEF Forever
  <2>2. CASE ok
    BY <1>1, <1>2, <2>1, <2>2 DEF SetRefresh, TypeOK
  <2>3. CASE ~ok
    BY <1>1, <2>3, Leaves DEF SetRefresh, TypeOK, Answers
  <2>4. QED BY <2>2, <2>3
<1>6. TypeOK'
  BY <1>1, <1>3, <1>4, <1>5 DEF TypeOK, Phases, Answers
<1>7. \A d \in Calls \ {c} : Same(d)
  BY <1>3, <1>4 DEF Same
<1>8. StoreMoves
  <2>1. ~Closed(t)
    BY <1>2, UnansweredNotClosed
  <2>2. QED BY <1>1, <1>2, <1>3, <1>5, <2>1 DEF StoreMoves, TypeOK
<1>9. Place(c)' /\ Holds(c)'
  BY <1>1, <1>2, <1>3, <1>4 DEF CallAt, Place, Holds
<1>10. Kept(c)' /\ Gone(c)' /\ Spent(c)'
  BY <1>1, <1>2, <1>3, <1>4, <1>5 DEF Kept, Gone, Spent
<1>11. CallAt(c)'
  BY <1>9, <1>10 DEF CallAt
<1>12. QED
  BY <1>1, <1>2, <1>3, <1>4, <1>6, <1>7, <1>8, <1>11, ContinueStep

\* EXPIRE comes after the token was signed, and so never ends a key before its token.
LEMMA ExpireRefreshStep ==
    ASSUME Inductive, NEW c \in Calls, NEW ok, ExpireRefresh(c, ok)
    PROVE  Inductive'
<1> DEFINE t == token[c]
<1>1. CallAt(c) /\ TypeOK /\ phase[c] = "expireRefresh"
  BY DEF Inductive, ExpireRefresh, At
<1>2. /\ req[c].op = "signIn" /\ t \in Token /\ t # None /\ t.iat \in Int /\ t.iat <= now
      /\ answer[c] = "none" /\ now \in 0 .. MaxTime /\ Life \in Nat /\ MaxTime \in Nat
  BY <1>1, SessionsConstants DEF CallAt, Place, Holds, TypeOK, Token
<1>3. /\ UNCHANGED <<now, password, sessions, resetKey, mailed, req, held, token, before>>
      /\ degraded' \in {degraded, degraded \cup {c}}
  BY DEF ExpireRefresh, Note
<1>4. /\ phase' \in [Calls -> Phases] /\ answer' \in [Calls -> Answers]
      /\ \A d \in Calls \ {c} : phase'[d] = phase[d] /\ answer'[d] = answer[d]
      /\ phase'[c] = "done" /\ answer'[c] = "ok"
  BY <1>1, Leaves DEF ExpireRefresh, Phases, Answers
<1>5. /\ refreshKeys' \in [Token -> 0 .. Forever]
      /\ \A v \in Token \ {t} : refreshKeys'[v] = refreshKeys[v]
      /\ refreshKeys'[t] \in {refreshKeys[t], now + Life}
      /\ refreshKeys[t] = NoKey => refreshKeys'[t] = NoKey
  <2>1. now + Life \in 0 .. Forever /\ ~(NoKey > now)
    BY <1>2 DEF Forever, NoKey
  <2>2. refreshKeys \in [Token -> 0 .. Forever]
    BY <1>1 DEF TypeOK
  <2>3. refreshKeys' = [refreshKeys EXCEPT ![t] = IF ok /\ @ > now THEN now + Life ELSE @]
    BY DEF ExpireRefresh
  <2>4. QED BY <1>2, <2>1, <2>2, <2>3
<1>6. TypeOK'
  BY <1>1, <1>3, <1>4, <1>5 DEF TypeOK, Phases, Answers
<1>7. \A d \in Calls \ {c} : Same(d)
  BY <1>3, <1>4 DEF Same
<1>8. StoreMoves
  BY <1>1, <1>2, <1>3, <1>5 DEF StoreMoves, TypeOK
<1>9. /\ req[c] # None
      /\ \A v : LoggedOut(v) => LoggedOut(v)'
  BY <1>1, <1>3, <1>4, <1>6, <1>7, StillHolds
<1>10. Place(c)' /\ Holds(c)'
  BY <1>1, <1>2, <1>3, <1>4, <1>9 DEF CallAt, Place, Holds
<1>11. Kept(c)'
  <2> SUFFICES ASSUME c \notin degraded, ~LoggedOut(t)
               PROVE  refreshKeys'[t] >= t.iat + Life
    BY <1>3, <1>9 DEF Kept
  <2>1. refreshKeys[t] >= t.iat + Life
    BY <1>1, <1>2 DEF CallAt, Kept
  <2>2. QED BY <1>2, <1>5, <2>1
<1>12. Gone(c)' /\ Spent(c)'
  BY <1>2, <1>3 DEF Gone, Spent
<1>13. CallAt(c)'
  BY <1>10, <1>11, <1>12 DEF CallAt
<1>14. QED
  BY <1>1, <1>2, <1>3, <1>4, <1>6, <1>7, <1>8, <1>13, ContinueStep

LEMMA GetKeyStep ==
    ASSUME Inductive, NEW c \in Calls, NEW ok, GetKey(c, ok)
    PROVE  Inductive'
<1>1. CallAt(c) /\ TypeOK /\ phase[c] = "getKey"
  BY DEF Inductive, GetKey, At
<1>2. /\ req[c].op = "refreshAccessToken" /\ req[c].arg \in Handed /\ token[c] = None
      /\ now \in 0 .. MaxTime
  BY <1>1 DEF CallAt, Place, Holds, TypeOK
<1>3. refreshKeys[req[c].arg] \in Nat
  BY <1>1, <1>2, HandedTokens DEF TypeOK
<1>4. /\ UNCHANGED <<now, store, req, token, before>>
      /\ degraded' \in {degraded, degraded \cup {c}}
  BY DEF GetKey, Note
<1>5. /\ phase' \in [Calls -> Phases] /\ answer' \in [Calls -> Answers]
      /\ \A d \in Calls \ {c} : phase'[d] = phase[d] /\ answer'[d] = answer[d]
      /\ \/ phase'[c] = "setSession" /\ answer'[c] = "none"
            /\ refreshKeys[req[c].arg] > now /\ held' = [held EXCEPT ![c] = now]
         \/ phase'[c] = "done" /\ answer'[c] = "refused" /\ held' = held
  BY <1>1, Leaves DEF GetKey, TypeOK, CallAt, Place, Phases, Answers
<1>6. held' \in [Calls -> Passwords \cup 0 .. MaxTime \cup {None}]
  BY <1>1, <1>2, <1>5 DEF TypeOK
<1>7. TypeOK'
  BY <1>1, <1>2, <1>4, <1>5, <1>6 DEF TypeOK, store, Phases, Answers
<1>8. \A d \in Calls \ {c} : held'[d] = held[d]
  BY <1>1, <1>5 DEF TypeOK
<1>9. \A d \in Calls \ {c} : Same(d)
  BY <1>4, <1>5, <1>8 DEF Same
<1>10. /\ req'[c].arg \in Handed' /\ req[c] # None /\ answer[c] = "none"
  BY <1>1, <1>2, <1>4, <1>5, <1>7, <1>9, StillHolds DEF store
<1>11. phase'[c] = "setSession" => held'[c] \in 0 .. MaxTime
  BY <1>1, <1>2, <1>5 DEF TypeOK
<1>12. Place(c)' /\ Holds(c)'
  BY <1>1, <1>2, <1>4, <1>5, <1>10, <1>11 DEF CallAt, Place, Holds
<1>13. Kept(c)' /\ Gone(c)' /\ Spent(c)'
  BY <1>2, <1>4 DEF Kept, Gone, Spent
<1>14. CallAt(c)'
  BY <1>12, <1>13 DEF CallAt
<1>15. refreshKeys[req[c].arg] > now => refreshKeys[req[c].arg] # NoKey
  BY <1>2, <1>3 DEF NoKey
<1>16. StoreMoves
  BY <1>1, <1>4, StoreSame DEF store
<1>17. QED
  BY <1>1, <1>2, <1>4, <1>5, <1>7, <1>9, <1>14, <1>15, <1>16, ContinueStep

LEMMA DelKeyStep ==
    ASSUME Inductive, NEW c \in Calls, NEW ok, DelKey(c, ok)
    PROVE  Inductive'
<1> DEFINE t == req[c].arg
<1>1. CallAt(c) /\ TypeOK /\ phase[c] = "delKey"
  BY DEF Inductive, DelKey, At
<1>2. req[c].op = "logout" /\ t \in Handed /\ token[c] = None
  BY <1>1 DEF CallAt, Place, Holds, TypeOK
<1>3. t \in Token /\ t.iat \in Int /\ Life \in Nat
  BY <1>1, <1>2, HandedTokens, SessionsConstants DEF Token
<1>4. /\ UNCHANGED <<now, password, sessions, resetKey, mailed, req, held, token, before>>
      /\ degraded' \in {degraded, degraded \cup {c}}
  BY DEF DelKey, Note
<1>5. /\ phase' \in [Calls -> Phases] /\ answer' \in [Calls -> Answers]
      /\ \A d \in Calls \ {c} : phase'[d] = phase[d] /\ answer'[d] = answer[d]
      /\ phase'[c] = "done" /\ answer'[c] = "ok"
  BY <1>1, Leaves DEF DelKey, Phases, Answers
<1>6. /\ refreshKeys' \in [Token -> 0 .. Forever]
      /\ \A v \in Token \ {t} : refreshKeys'[v] = refreshKeys[v]
      /\ refreshKeys'[t] \in {refreshKeys[t], NoKey}
      /\ c \notin degraded' => refreshKeys'[t] = NoKey
  <2>1. NoKey \in 0 .. Forever
    BY SessionsConstants DEF Forever, NoKey
  <2>2. refreshKeys \in [Token -> 0 .. Forever]
    BY <1>1 DEF TypeOK
  <2>3. CASE ok
    BY <1>3, <2>1, <2>2, <2>3 DEF DelKey
  <2>4. CASE ~ok
    BY <1>3, <2>2, <2>4 DEF DelKey, Note
  <2>5. QED BY <2>3, <2>4
<1>7. TypeOK'
  BY <1>1, <1>4, <1>5, <1>6 DEF TypeOK, Phases, Answers
<1>8. \A d \in Calls \ {c} : Same(d)
  BY <1>4, <1>5 DEF Same
<1>9. StoreMoves
  <2>1. LoggedOut(t)
    BY <1>1, <1>2 DEF LoggedOut, CallAt, Place
  <2>2. QED BY <1>1, <1>4, <1>6, <2>1 DEF StoreMoves, TypeOK
<1>10. t \in Handed' /\ req[c] # None /\ answer[c] = "none"
  BY <1>1, <1>2, <1>4, <1>5, <1>7, <1>8, StillHolds
<1>11. Place(c)' /\ Holds(c)'
  BY <1>1, <1>2, <1>4, <1>5, <1>10 DEF CallAt, Place, Holds
<1>12. Kept(c)' /\ Gone(c)' /\ Spent(c)'
  BY <1>2, <1>4, <1>6 DEF Kept, Gone, Spent, NoKey
<1>13. CallAt(c)'
  BY <1>11, <1>12 DEF CallAt
<1>14. QED
  BY <1>1, <1>2, <1>4, <1>5, <1>7, <1>8, <1>9, <1>13, ContinueStep

LEMMA SavePasswordStep ==
    ASSUME Inductive, NEW c \in Calls, SavePassword(c)
    PROVE  Inductive'
<1>1. CallAt(c) /\ TypeOK /\ phase[c] = "savePassword"
  BY DEF Inductive, SavePassword, At
<1>2. /\ req[c].op = "resetPassword" /\ req[c] \in Request /\ token[c] = None
      /\ req[c].user \in Users /\ req[c].arg.password \in Passwords
  BY <1>1 DEF CallAt, Place, Holds, TypeOK, Request
<1>3. /\ UNCHANGED <<now, refreshKeys, sessions, resetKey, mailed, req, held, token, before>>
      /\ degraded' \in {degraded, degraded \cup {c}}
      /\ password' \in [Users -> Passwords]
  BY <1>1, <1>2 DEF SavePassword, QueryFails, Note, TypeOK
<1>4. /\ phase' \in [Calls -> Phases] /\ answer' \in [Calls -> Answers]
      /\ \A d \in Calls \ {c} : phase'[d] = phase[d] /\ answer'[d] = answer[d]
      /\ \/ phase'[c] = "delReset" /\ answer'[c] = "none"
         \/ phase'[c] = "done" /\ answer'[c] = "error"
  BY <1>1, Leaves DEF SavePassword, QueryFails, TypeOK, CallAt, Place, Phases, Answers
<1>5. TypeOK'
  BY <1>1, <1>3, <1>4 DEF TypeOK, Phases, Answers
<1>6. \A d \in Calls \ {c} : Same(d)
  BY <1>3, <1>4 DEF Same
<1>7. req'[c].arg.token \in mailed' /\ req[c] # None /\ answer[c] = "none"
  BY <1>1, <1>2, <1>3, <1>4, <1>5, <1>6, StillHolds
<1>8. Place(c)' /\ Holds(c)'
  BY <1>1, <1>2, <1>3, <1>4, <1>7 DEF CallAt, Place, Holds
<1>9. Kept(c)' /\ Gone(c)' /\ Spent(c)'
  BY <1>2, <1>3, <1>4, <1>7 DEF Kept, Gone, Spent
<1>10. CallAt(c)'
  BY <1>8, <1>9 DEF CallAt
<1>11. StoreMoves
  BY <1>1, <1>3, StoreSame
<1>12. QED
  BY <1>1, <1>2, <1>3, <1>4, <1>5, <1>6, <1>10, <1>11, ContinueStep

LEMMA DelResetStep ==
    ASSUME Inductive, NEW c \in Calls, NEW ok, DelReset(c, ok)
    PROVE  Inductive'
<1> DEFINE u == req[c].user
<1>1. CallAt(c) /\ TypeOK /\ phase[c] = "delReset"
  BY DEF Inductive, DelReset, At
<1>2. /\ req[c].op = "resetPassword" /\ req[c] \in Request /\ token[c] = None
      /\ u \in Users /\ req[c].arg.token \in ResetTokens
  BY <1>1 DEF CallAt, Place, Holds, TypeOK, Request
<1>3. /\ UNCHANGED <<now, password, refreshKeys, sessions, mailed, req, held, token, before>>
      /\ degraded' \in {degraded, degraded \cup {c}}
  BY DEF DelReset, Note
<1>4. /\ phase' \in [Calls -> Phases] /\ answer' \in [Calls -> Answers]
      /\ \A d \in Calls \ {c} : phase'[d] = phase[d] /\ answer'[d] = answer[d]
      /\ phase'[c] = "done" /\ answer'[c] = "ok"
  BY <1>1, Leaves DEF DelReset, Phases, Answers
<1>5. /\ resetKey' \in [Users -> ResetTokens \cup {None}]
      /\ \A v \in Users : resetKey'[v] \in {resetKey[v], None}
      /\ c \notin degraded' => resetKey'[u] = None
  <2>1. CASE ok
    BY <1>1, <1>2, <2>1 DEF DelReset, TypeOK
  <2>2. CASE ~ok
    BY <1>1, <1>2, <2>2 DEF DelReset, Note, TypeOK
  <2>3. QED BY <2>1, <2>2
<1>6. TypeOK'
  BY <1>1, <1>3, <1>4, <1>5 DEF TypeOK, Phases, Answers
<1>7. \A d \in Calls \ {c} : Same(d)
  BY <1>3, <1>4 DEF Same
<1>8. StoreMoves
  BY <1>1, <1>3, <1>5, SessionsConstants DEF StoreMoves, TypeOK
<1>9. req'[c].arg.token \in mailed' /\ req[c] # None
  BY <1>1, <1>2, <1>3, <1>4, <1>6, <1>7, StillHolds
<1>10. Place(c)' /\ Holds(c)'
  BY <1>1, <1>2, <1>3, <1>4, <1>9 DEF CallAt, Place, Holds
<1>11. Kept(c)' /\ Gone(c)' /\ Spent(c)'
  BY <1>2, <1>3, <1>5, SessionsConstants DEF Kept, Gone, Spent
<1>12. CallAt(c)'
  BY <1>10, <1>11 DEF CallAt
<1>13. QED
  BY <1>1, <1>2, <1>3, <1>4, <1>6, <1>7, <1>8, <1>12, ContinueStep

LEMMA ExitStep ==
    ASSUME Inductive, NEW c \in Calls, Exit(c)
    PROVE  Inductive'
<1>1. CallAt(c) /\ TypeOK /\ phase[c] \notin {"idle", "done"}
  BY DEF Inductive, Exit
<1>2. UNCHANGED <<now, store, req, held, token, answer, degraded, before>>
  BY DEF Exit
<1>3. /\ phase' \in [Calls -> Phases] /\ phase'[c] = "lost"
      /\ \A d \in Calls \ {c} : phase'[d] = phase[d]
  BY <1>1 DEF Exit, TypeOK, Phases
<1>4. TypeOK'
  BY <1>1, <1>2, <1>3 DEF TypeOK, store, Phases
<1>5. \A d \in Calls \ {c} : Same(d)
  BY <1>2, <1>3 DEF Same
<1>6. /\ req'[c].op \in {"refreshAccessToken", "logout"} => req'[c].arg \in Handed'
      /\ req[c] # None /\ answer[c] = "none"
  BY <1>1, <1>2, <1>3, <1>4, <1>5, StillHolds DEF store, CallAt, Place
<1>7. Place(c)' /\ Holds(c)'
  BY <1>1, <1>2, <1>3, <1>6 DEF CallAt, Place, Holds, store
<1>8. Kept(c)' /\ Gone(c)' /\ Spent(c)'
  BY <1>2, <1>3, <1>6 DEF Kept, Gone, Spent
<1>9. CallAt(c)'
  BY <1>7, <1>8 DEF CallAt
<1>10. StoreMoves
  BY <1>1, <1>2, StoreSame DEF store
<1>11. QED
  BY <1>1, <1>2, <1>3, <1>4, <1>5, <1>6, <1>9, <1>10, ContinueStep

\* The clock, and the mail that nobody in the repository sends.
LEMMA OtherSteps ==
    ASSUME Inductive, Tick \/ \E u \in Users, r \in ResetTokens : MailResetToken(u, r)
    PROVE  Inductive'
<1>1. TypeOK
  BY DEF Inductive
<1>2. \A d \in Calls : Same(d)
  BY DEF Tick, MailResetToken, Same
<1>3. TypeOK' /\ StoreMoves
  <2>1. CASE Tick
    BY <1>1, <2>1, SessionsConstants DEF Tick, TypeOK, StoreMoves, store
  <2>2. ASSUME NEW u \in Users, NEW r \in ResetTokens, MailResetToken(u, r)
        PROVE  TypeOK' /\ StoreMoves
    BY <1>1, <2>2 DEF MailResetToken, TypeOK, StoreMoves
  <2>3. QED BY <2>1, <2>2
<1>4. IsFiniteSet(Signers)'
  <2>1. UNCHANGED token
    BY DEF Tick, MailResetToken
  <2>2. QED BY <2>1 DEF Signers, Inductive
<1>5. QED BY <1>2, <1>3, <1>4, Step

-----------------------------------------------------------------------------
LEMMA InitInductive == Init => Inductive
<1> SUFFICES ASSUME Init PROVE Inductive
  OBVIOUS
<1>1. TypeOK
  BY SessionsConstants DEF Init, TypeOK, NoKey, Forever
<1>2. ASSUME NEW c \in Calls PROVE CallAt(c)
  BY DEF Init, CallAt, Place, Holds, Kept, Gone, Spent
<1>3. \A c, d \in Calls : PairAt(c, d)
  BY DEF Init, PairAt
<1>4. Signers = {}
  BY DEF Init, Signers
<1>5. IsFiniteSet(Signers)
  BY <1>4, FS_EmptySet
<1>6. QED BY <1>1, <1>2, <1>3, <1>5 DEF Inductive

THEOREM InductiveHolds == Spec => []Inductive
<1>1. Inductive /\ [Next]_vars => Inductive'
  <2> SUFFICES ASSUME Inductive, [Next]_vars PROVE Inductive'
    OBVIOUS
  <2>1. ASSUME NEW c \in Calls, Start(c) PROVE Inductive'
    <3>1. ASSUME NEW u \in Users, NEW p \in Passwords, SignIn(c, u, p) PROVE Inductive'
      BY <3>1, SignInStep
    <3>2. ASSUME NEW t \in Token, RefreshAccessToken(c, t) PROVE Inductive'
      BY <3>2, RefreshAccessTokenStep
    <3>3. ASSUME NEW t \in Token, Logout(c, t) PROVE Inductive'
      BY <3>3, LogoutStep
    <3>4. ASSUME NEW u \in Users, NEW r \in ResetTokens, NEW p \in Passwords,
                 NEW ok \in Outcome, ResetPassword(c, u, r, p, ok)
          PROVE  Inductive'
      BY <3>4, ResetPasswordStep
    <3>5. QED BY <2>1, <3>1, <3>2, <3>3, <3>4 DEF Start
  <2>2. ASSUME NEW c \in Calls, Continue(c) PROVE Inductive'
    BY <2>2, CompareStep, SavePasswordStep, SetSessionStep, SetRefreshStep,
       ExpireRefreshStep, GetKeyStep, DelKeyStep, DelResetStep DEF Continue
  <2>3. ASSUME NEW c \in Calls, Exit(c) PROVE Inductive'
    BY <2>3, ExitStep
  <2>4. CASE Tick \/ \E u \in Users, r \in ResetTokens : MailResetToken(u, r)
    BY <2>4, OtherSteps
  <2>5. CASE UNCHANGED vars
    <3>1. TypeOK' /\ IsFiniteSet(Signers)'
      BY <2>5 DEF vars, store, Inductive, TypeOK, Signers
    <3>2. \A d \in Calls : Same(d)
      BY <2>5 DEF vars, Same
    <3>3. StoreMoves
      BY <2>5, StoreSame DEF vars, store, Inductive
    <3>4. QED BY <3>1, <3>2, <3>3, Step
  <2>6. QED BY <2>1, <2>2, <2>3, <2>4, <2>5 DEF Next
<1>2. QED BY <1>1, InitInductive, PTL DEF Spec

\* Every variable has its type; a session key is written with the refresh token that
\* signIn signed, or with the second in which refreshAccessToken did.
THEOREM TypeCorrect == Spec => []TypeOK
<1>1. Inductive => TypeOK
  BY DEF Inductive
<1>2. QED BY <1>1, InductiveHolds, PTL

\* A refresh token that was handed out can be used until it expires, unless it was named
\* by a logout or a command of its own sign-in failed: SET and EXPIRE come in an order in
\* which no other call, of the same second or later, shortens the life of its key.
THEOREM IssuedTokensUsable == Spec => []IssuedTokenUsable
<1>1. Inductive => IssuedTokenUsable
  <2> SUFFICES ASSUME Inductive, NEW c \in Calls, answer[c] = "ok", token[c] # None,
                      c \notin degraded, Verify(token[c]), ~LoggedOut(token[c])
               PROVE  refreshKeys[token[c]] > now
    BY DEF IssuedTokenUsable
  <2>1. TypeOK /\ Kept(c) /\ \A d \in Calls : Place(d)
    BY DEF Inductive, CallAt
  <2>2. token[c] \in Token /\ now \in 0 .. MaxTime /\ refreshKeys \in [Token -> 0 .. Forever]
    BY <2>1 DEF TypeOK
  <2>3. /\ token[c].iat \in Int /\ refreshKeys[token[c]] \in Int
        /\ now \in Int /\ Life \in Int
    <3>1. MaxTime \in Int /\ Forever \in Int /\ Life \in Int
      BY SessionsConstants DEF Forever
    <3>2. token[c].iat \in 0 .. MaxTime
      BY <2>2 DEF Token
    <3>3. refreshKeys[token[c]] \in 0 .. Forever
      BY <2>2
    <3>4. QED BY <2>2, <3>1, <3>2, <3>3
  <2>4. refreshKeys[token[c]] >= token[c].iat + Life
    BY <2>1 DEF Kept
  <2>5. QED BY <2>3, <2>4 DEF Verify
<1>2. QED BY <1>1, InductiveHolds, PTL

\* A refresh that begins after a logout of its token was answered is refused, unless the
\* logout met a failure or two sign-ins of one second share the token. Only signers have
\* tokens and they are finitely many, so a token with one owner is a singleton's.
THEOREM LogoutsAreFinal == Spec => []LogoutIsFinal
<1>1. Inductive => LogoutIsFinal
  <2> SUFFICES ASSUME Inductive, NEW c \in Calls, NEW d \in Calls, OutBefore(c, d),
                      c \notin degraded, Cardinality(SignedIn(req[c].arg)) = 1
               PROVE  answer[d] # "ok" /\ phase[d] # "setSession"
    BY DEF LogoutIsFinal
  <2>1. phase[c] = "done" /\ RefusedAfter(c, d)
    BY DEF OutBefore, Inductive, PairAt
  <2>2. req[c].arg \in Handed
    BY <2>1 DEF OutBefore, Inductive, CallAt, Holds
  <2>3. SignedIn(req[c].arg) \subseteq Signers
    BY <2>2, HandedTokens, SessionsNone DEF SignedIn, Signers, Inductive
  <2>4. IsFiniteSet(SignedIn(req[c].arg))
    BY <2>3, FS_Subset DEF Inductive
  <2>5. PICK x : SignedIn(req[c].arg) = {x}
    BY <2>4, FS_Singleton
  <2>6. Sole(req[c].arg)
    BY <2>5 DEF Sole, SignedIn
  <2>7. QED BY <2>1, <2>6 DEF RefusedAfter
<1>2. QED BY <1>1, InductiveHolds, PTL

\* A reset token changes the password once, for calls that do not overlap: it leaves the
\* cache with the answer, and no mail brings the same token back.
THEOREM ResetTokensUsedOnce == Spec => []ResetTokenUsedOnce
<1>1. Inductive => ResetTokenUsedOnce
  BY DEF Inductive, PairAt, UsedOnce, ResetTokenUsedOnce
<1>2. QED BY <1>1, InductiveHolds, PTL
=============================================================================
