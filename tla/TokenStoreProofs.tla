-------------------------- MODULE TokenStoreProofs --------------------------
(***************************************************************************)
(* Sessions implements TokenStore, for every value of its constants. The   *)
(* argument rests on the Inductive invariant of SessionsProofs and on Ready *)
(* here; Frame says what a step of one call leaves of the mapped state.     *)
(***************************************************************************)
EXTENDS SessionsProofs

\* A key that was written goes no sooner than its token, and a call that has not begun
\* has not failed.
Ready ==
    /\ \A t \in Token : refreshKeys[t] # NoKey => refreshKeys[t] >= t.iat + Life
    /\ \A c \in Calls : phase[c] = "idle" => c \notin degraded

\* The numbers that the keys are made of.
LEMMA Times ==
    ASSUME TypeOK, NEW t \in Token
    PROVE  /\ t.iat \in Nat /\ t.iat <= MaxTime /\ now \in Nat /\ now <= MaxTime
           /\ refreshKeys[t] \in Nat /\ Life \in Nat /\ Life > 0 /\ MaxTime \in Nat
<1>1. Life \in Nat /\ Life > 0 /\ MaxTime \in Nat
  BY SessionsConstants
<1>2. Forever \in Nat
  BY <1>1 DEF Forever
<1>3. t.iat \in 0 .. MaxTime /\ now \in 0 .. MaxTime /\ refreshKeys[t] \in 0 .. Forever
  BY DEF TypeOK, Token
<1>4. QED BY <1>1, <1>2, <1>3

\* Ready is inductive: SetRefresh writes a key without end, ExpireRefresh gives it a time
\* that lies Life after the signature or later.
LEMMA ReadyHolds == Spec => []Ready
<1>1. Init => Ready
  BY DEF Init, Ready
<1>2. Inductive /\ Ready /\ [Next]_vars => Ready'
  <2> SUFFICES ASSUME Inductive, Ready, [Next]_vars PROVE Ready'
    OBVIOUS
  <2> USE DEF store
  <2>1. TypeOK /\ \A c \in Calls : CallAt(c)
    BY DEF Inductive
  <2>2. ASSUME UNCHANGED refreshKeys, UNCHANGED <<phase, degraded>> PROVE Ready'
    BY <2>2 DEF Ready
  <2>3. ASSUME NEW c \in Calls, phase'[c] # "idle",
               \A d \in Calls \ {c} : phase'[d] = phase[d],
               degraded' = degraded \/ degraded' = degraded \cup {c}
        PROVE  \A d \in Calls : phase'[d] = "idle" => d \notin degraded'
    BY <2>3 DEF Ready
  <2>4. ASSUME NEW c \in Calls, Start(c) PROVE Ready'
    <3>1. UNCHANGED refreshKeys
      BY <2>4 DEF Start, SignIn, RefreshAccessToken, Logout, ResetPassword
    <3>2. degraded' = degraded \/ degraded' = degraded \cup {c}
      BY <2>4 DEF Start, SignIn, RefreshAccessToken, Logout, ResetPassword, QueryFails,
                  TurnAway, Note
    <3>3. \E p \in Phases \ {"idle"} : phase' = [phase EXCEPT ![c] = p]
      BY <2>4 DEF Start, SignIn, RefreshAccessToken, Logout, ResetPassword, QueryFails,
                  TurnAway, Finish, Goto, Phases
    <3>4. phase'[c] # "idle" /\ \A d \in Calls \ {c} : phase'[d] = phase[d]
      BY <2>1, <3>3 DEF TypeOK
    <3>5. QED BY <2>3, <3>1, <3>2, <3>4 DEF Ready
  <2>5. ASSUME NEW c \in Calls, Continue(c) PROVE Ready'
    <3>1. degraded' = degraded \/ degraded' = degraded \cup {c}
      BY <2>5 DEF Continue, Compare, SavePassword, SetSession, SetRefresh, ExpireRefresh,
                  GetKey, DelKey, DelReset, QueryFails, Note
    <3>2. \E p \in Phases \ {"idle"} : phase' = [phase EXCEPT ![c] = p]
      BY <2>5 DEF Continue, Compare, SavePassword, SetSession, SetRefresh, ExpireRefresh,
                  GetKey, DelKey, DelReset, QueryFails, Finish, Goto, Phases
    <3>3. phase'[c] # "idle" /\ \A d \in Calls \ {c} : phase'[d] = phase[d]
      BY <2>1, <3>2 DEF TypeOK
    <3>4. ASSUME NEW t \in Token, refreshKeys'[t] # NoKey
          PROVE  refreshKeys'[t] >= t.iat + Life
      <4>1. CASE refreshKeys'[t] = refreshKeys[t]
        BY <3>4, <4>1 DEF Ready
      <4>2. ASSUME NEW ok, SetRefresh(c, ok), refreshKeys'[t] # refreshKeys[t]
            PROVE  refreshKeys'[t] = Forever
        BY <2>1, <4>2 DEF SetRefresh, TypeOK
      <4>3. ASSUME NEW ok, ExpireRefresh(c, ok), refreshKeys'[t] # refreshKeys[t]
            PROVE  t = token[c] /\ refreshKeys'[t] = now + Life
        BY <2>1, <4>3 DEF ExpireRefresh, TypeOK
      <4>4. ASSUME NEW ok, DelKey(c, ok) PROVE refreshKeys'[t] \in {refreshKeys[t], NoKey}
        BY <2>1, <4>4 DEF DelKey, TypeOK
      <4>5. ASSUME Compare(c) \/ SavePassword(c) \/ \E ok \in Outcome :
                      SetSession(c, ok) \/ GetKey(c, ok) \/ DelReset(c, ok)
            PROVE  UNCHANGED refreshKeys
        BY <4>5 DEF Compare, SavePassword, SetSession, GetKey, DelReset
      <4>6. token[c] # None => token[c].iat <= now
        BY <2>1 DEF CallAt, Holds
      <4>7. t # None
        BY SessionsNone
      <4>8. \/ refreshKeys'[t] \in {refreshKeys[t], NoKey, Forever}
            \/ t = token[c] /\ refreshKeys'[t] = now + Life
        BY <2>5, <4>2, <4>3, <4>4, <4>5 DEF Continue
      <4>9. QED BY <2>1, <3>4, <4>1, <4>6, <4>7, <4>8, Times DEF Forever
    <3>5. QED BY <2>3, <3>1, <3>3, <3>4 DEF Ready
  <2>6. ASSUME NEW c \in Calls, Exit(c) PROVE Ready'
    <3>1. phase'[c] = "lost" /\ \A d \in Calls \ {c} : phase'[d] = phase[d]
      BY <2>1, <2>6 DEF Exit, TypeOK
    <3>2. UNCHANGED <<refreshKeys, degraded>>
      BY <2>6 DEF Exit
    <3>3. QED BY <2>3, <3>1, <3>2 DEF Ready
  <2>7. CASE Tick \/ \E u \in Users, r \in ResetTokens : MailResetToken(u, r)
    BY <2>2, <2>7 DEF Tick, MailResetToken
  <2>8. CASE UNCHANGED vars
    BY <2>2, <2>8 DEF vars
  <2>9. QED BY <2>4, <2>5, <2>6, <2>7, <2>8 DEF Next
<1>3. QED BY <1>1, <1>2, InductiveHolds, PTL DEF Spec
-----------------------------------------------------------------------------
\* What a step leaves of the calls that do not take it.
Bystander(d) ==
    /\ phase'[d] = phase[d] /\ req'[d] = req[d] /\ token'[d] = token[d]
    /\ answer'[d] = answer[d] /\ (d \in degraded' <=> d \in degraded)

\* A set that changes at one call at most.
Grows(S, T, c) ==
    /\ c \in T => T = S \cup {c}
    /\ c \notin T => T = S \ {c}
    /\ (c \in T <=> c \in S) => T = S

LEMMA OneMember ==
    ASSUME NEW S \in SUBSET Calls, NEW T \in SUBSET Calls, NEW c \in Calls,
           \A d \in Calls \ {c} : d \in T <=> d \in S
    PROVE  Grows(S, T, c)
BY DEF Grows

\* A function that changes at one call at most.
Alters(f, g, c) ==
    /\ g = [f EXCEPT ![c] = g[c]]
    /\ g[c] = f[c] => g = f

LEMMA OneValue ==
    ASSUME NEW f, NEW g, f = [d \in Calls |-> f[d]], g = [d \in Calls |-> g[d]],
           NEW c \in Calls, \A d \in Calls \ {c} : g[d] = f[d]
    PROVE  Alters(f, g, c)
<1>1. g = [f EXCEPT ![c] = g[c]]
  OBVIOUS
<1>2. ASSUME g[c] = f[c] PROVE g = f
  <2>1. \A d \in Calls : g[d] = f[d]
    BY <1>2
  <2>2. QED BY <2>1
<1>3. QED BY <1>1, <1>2 DEF Alters

\* The mapped state changes at one call.
LEMMA Frame ==
    ASSUME TypeOK, TypeOK', NEW c \in Calls, \A d \in Calls \ {c} : Bystander(d)
    PROVE  /\ Alters(Asked, Asked', c) /\ Alters(Told, Told', c) /\ Alters(token, token', c)
           /\ Grows(Served, Served', c) /\ Grows(Over, Over', c) /\ Grows(Failed, Failed', c)
<1>1. \A d \in Calls \ {c} : d \in Resets' <=> d \in Resets
  BY DEF Resets, Bystander
<1>2. Alters(Asked, Asked', c)
  <2>1. \A d \in Calls \ {c} : Asked'[d] = Asked[d]
    BY DEF Asked, Bystander
  <2>2. Asked = [d \in Calls |-> Asked[d]] /\ Asked' = [d \in Calls |-> Asked'[d]]
    BY DEF Asked
  <2>3. QED BY <2>1, <2>2, OneValue
<1>3. Alters(Told, Told', c)
  <2>1. \A d \in Calls \ {c} : Told'[d] = Told[d]
    BY <1>1 DEF Told, Bystander
  <2>2. Told = [d \in Calls |-> Told[d]] /\ Told' = [d \in Calls |-> Told'[d]]
    BY DEF Told
  <2>3. QED BY <2>1, <2>2, OneValue
<1>4. Alters(token, token', c)
  <2>1. \A d \in Calls \ {c} : token'[d] = token[d]
    BY DEF Bystander
  <2>2. token = [d \in Calls |-> token[d]] /\ token' = [d \in Calls |-> token'[d]]
    BY DEF TypeOK
  <2>3. QED BY <2>1, <2>2, OneValue
<1>5. Grows(Served, Served', c)
  <2>1. Served \in SUBSET Calls /\ Served' \in SUBSET Calls
    BY DEF Served
  <2>2. \A d \in Calls \ {c} : d \in Served' <=> d \in Served
    BY DEF Served, Bystander
  <2>3. QED BY <2>1, <2>2, OneMember
<1>6. Grows(Over, Over', c)
  <2>1. Over \in SUBSET Calls /\ Over' \in SUBSET Calls
    BY DEF Over
  <2>2. \A d \in Calls \ {c} : d \in Over' <=> d \in Over
    BY <1>1 DEF Over, Bystander
  <2>3. QED BY <2>1, <2>2, OneMember
<1>7. Grows(Failed, Failed', c)
  <2>1. Failed \in SUBSET Calls /\ Failed' \in SUBSET Calls
    BY DEF Failed, TypeOK
  <2>2. \A d \in Calls \ {c} : d \in Failed' <=> d \in Failed
    BY <1>1 DEF Failed, Bystander
  <2>3. QED BY <2>1, <2>2, OneMember
<1>8. QED BY <1>2, <1>3, <1>4, <1>5, <1>6, <1>7

\* The mapped state of one call, by its operation and phase.
SignInView(c) ==
    phase[c] = "idle" \/ req[c].op = "signIn" =>
        /\ Asked[c] = None
        /\ c \in Over <=> phase[c] \in {"done", "lost"}
        /\ c \in Served <=> phase[c] = "expireRefresh"
        /\ c \in Failed <=> c \in degraded
        /\ Told[c] = answer[c]

TokenView(c) ==
    phase[c] # "idle" /\ req[c].op \in {"refreshAccessToken", "logout"} =>
        /\ Asked[c] = req[c] /\ req[c] \in Asking
        /\ c \in Over <=> phase[c] \in {"done", "lost"}
        /\ c \in Served <=> \/ phase[c] = "expireRefresh"
                            \/ phase[c] = "setSession" /\ req[c].op = "refreshAccessToken"
        /\ c \in Failed <=> c \in degraded
        /\ Told[c] = answer[c]

ResetView(c) ==
    phase[c] # "idle" /\ req[c].op = "resetPassword" =>
        /\ Asked[c] = None
        /\ c \notin Over /\ c \notin Failed
        /\ c \in Served <=> phase[c] = "expireRefresh"
        /\ Told[c] = "none"

View(c) == SignInView(c) /\ TokenView(c) /\ ResetView(c)

LEMMA Views ==
    ASSUME Inductive, Inductive', NEW c \in Calls
    PROVE  View(c) /\ View(c)'
<1>1. /\ IF phase[c] = "idle" THEN req[c] = None ELSE req[c] \in Request
      /\ IF phase'[c] = "idle" THEN req'[c] = None ELSE req'[c] \in Request
  BY DEF Inductive, TypeOK, CallAt, Place
<1>2. None \notin Request
  BY SessionsNone
<1> USE DEF Asking, Asked, Over, Served, Failed, Told, Resets
<1>3. SignInView(c) /\ SignInView(c)'
  BY <1>1, <1>2 DEF SignInView
<1>4. TokenView(c) /\ TokenView(c)'
  BY <1>1 DEF TokenView
<1>5. ResetView(c) /\ ResetView(c)'
  BY <1>1, <1>2 DEF ResetView
<1>6. QED BY <1>3, <1>4, <1>5 DEF View

\* A token that a client was handed is given, as TokenStore sees it.
LEMMA HandedIsGiven ==
    ASSUME Inductive, NEW t \in Handed
    PROVE  t \in Store!Given /\ t \in Token /\ t # None
<1>1. PICK d \in Calls : token[d] = t /\ answer[d] # "none"
  BY HandedTokens DEF Inductive
<1>2. t \in Token /\ t # None
  BY HandedTokens, SessionsNone DEF Inductive
<1>3. phase[d] # "idle" /\ req[d].op = "signIn"
  BY <1>1, <1>2 DEF Inductive, CallAt, Place, Holds
<1>4. Told[d] = answer[d]
  BY <1>3 DEF Told, Resets
<1>5. QED BY <1>1, <1>2, <1>4 DEF Store!Given
-----------------------------------------------------------------------------
mapped == <<now, Live, token, Asked, Served, Over, Failed, Told>>

\* A step that leaves the view of its call is a stutter.
LEMMA StutterStep ==
    ASSUME TypeOK, TypeOK', NEW c \in Calls, \A d \in Calls \ {c} : Bystander(d),
           Asked'[c] = Asked[c], token'[c] = token[c], Told'[c] = Told[c],
           c \in Served' <=> c \in Served, c \in Over' <=> c \in Over,
           c \in Failed' <=> c \in Failed, now' = now, Live' = Live
    PROVE  UNCHANGED mapped
BY Frame DEF Alters, Grows, mapped

\* A step that ends its call.
LEMMA EndStep ==
    ASSUME TypeOK, TypeOK', NEW c \in Calls, \A d \in Calls \ {c} : Bystander(d),
           NEW a \in {"ok", "refused", "error"},
           c \notin Over, c \in Over', c \notin Served', c \in Failed => c \in Failed',
           Asked'[c] = Asked[c], token'[c] = token[c], Told'[c] = a, now' = now, Live' = Live,
           a = "ok" => c \in Served \/ c \in Failed',
           a = "refused" => /\ c \notin Served /\ token[c] = None
                            /\ Asked[c] # None => \/ Asked[c].arg \notin Live
                                                 \/ c \in Failed',
           a = "error" => c \in Failed' /\ c \notin Served
    PROVE  Store!Next
<1>1. /\ Asked' = Asked /\ token' = token /\ Told' = [Told EXCEPT ![c] = a]
      /\ Served' = Served \ {c} /\ Over' = Over \cup {c}
  BY Frame DEF Alters, Grows
<1>2. Failed' \in {Failed, Failed \cup {c}}
  <2>1. CASE c \in Failed'
    BY <2>1, Frame DEF Grows
  <2>2. CASE c \notin Failed'
    BY <2>2, Frame DEF Grows
  <2>3. QED BY <2>1, <2>2
<1>3. Store!End(c, a)
  BY <1>1, <1>2 DEF Store!End
<1>4. QED BY <1>3 DEF Store!Next

\* A step that begins a call and ends it at once, or leaves it open.
LEMMA AskStep ==
    ASSUME Inductive, TypeOK', NEW c \in Calls, \A d \in Calls \ {c} : Bystander(d),
           NEW q \in Asking, NEW t \in Handed, q.arg = t,
           c \notin Over, c \notin Served, c \notin Served', c \notin Failed,
           token[c] = None, token'[c] = None,
           Asked[c] = None, Asked'[c] = q,
           now' = now, Live' = Live,
           \/ Verify(t) /\ c \notin Over' /\ c \notin Failed' /\ Told'[c] = Told[c]
           \/ /\ c \in Over' /\ (c \in Failed' <=> Verify(t))
              /\ Told'[c] \in {"ok", "refused", "error"} /\ (Told'[c] = "ok" <=> q.op = "logout")
           \/ c \in Over' /\ c \notin Failed' /\ Told'[c] = "turnedAway"
    PROVE  Store!Next
<1>1. TypeOK /\ t \in Store!Given /\ t \in Token
  BY HandedIsGiven DEF Inductive
<1>2. Store!Expired(t, now) <=> ~Verify(t)
  BY <1>1, Times DEF Store!Expired, Verify
<1>3. /\ Asked' = [Asked EXCEPT ![c] = q] /\ token' = token
      /\ Served' = Served
  BY <1>1, Frame DEF Alters, Grows
<1>4. Store!Fresh(c)
  BY DEF Store!Fresh
<1>5. CASE Verify(t) /\ c \notin Over' /\ c \notin Failed' /\ Told'[c] = Told[c]
  <2>1. Over' = Over /\ Failed' = Failed /\ Told' = Told
    BY <1>1, <1>5, Frame DEF Alters, Grows
  <2>2. Store!Ask(c, q)
    BY <1>1, <1>2, <1>3, <1>4, <1>5, <2>1 DEF Store!Ask
  <2>3. QED BY <2>2 DEF Store!Next
<1>6. CASE /\ c \in Over' /\ (c \in Failed' <=> Verify(t))
           /\ Told'[c] \in {"ok", "refused", "error"} /\ (Told'[c] = "ok" <=> q.op = "logout")
  <2>1. /\ Over' = Over \cup {c} /\ Told' = [Told EXCEPT ![c] = Told'[c]]
        /\ ~Verify(t) => Failed' = Failed
        /\ Verify(t) => Failed' = Failed \cup {c}
    BY <1>1, <1>6, Frame DEF Alters, Grows
  <2>2. Store!Ask(c, q)
    BY <1>1, <1>2, <1>3, <1>4, <1>6, <2>1 DEF Store!Ask
  <2>3. QED BY <2>2 DEF Store!Next
<1>7. CASE c \in Over' /\ c \notin Failed' /\ Told'[c] = "turnedAway"
  <2>1. /\ Over' = Over \cup {c} /\ Told' = [Told EXCEPT ![c] = "turnedAway"]
        /\ Failed' = Failed
    BY <1>1, <1>7, Frame DEF Alters, Grows
  <2>2. Store!Ask(c, q)
    BY <1>1, <1>3, <1>4, <2>1 DEF Store!Ask
  <2>3. QED BY <2>2 DEF Store!Next
<1>8. QED BY <1>5, <1>6, <1>7

-----------------------------------------------------------------------------
(* The steps of Sessions.                                                  *)

Maps == Store!Next \/ UNCHANGED mapped

\* What is known of the call that takes a step.
LEMMA Caller ==
    ASSUME Inductive, Ready, Inductive', NEW c \in Calls
    PROVE  /\ View(c) /\ View(c)' /\ Place(c) /\ Holds(c) /\ TypeOK /\ TypeOK'
           /\ phase[c] = "idle" => c \notin degraded
           /\ token[c] # None => phase[c] # "idle" /\ req[c].op = "signIn"
BY Views DEF Inductive, CallAt, Ready, Holds

\* The keys that are left alone keep what is live.
LEMMA KeysKeepLive ==
    ASSUME UNCHANGED <<refreshKeys, now>>
    PROVE  Live' = Live
BY DEF Live

\* signIn reads the user: it waits for its compare, or ends without a token.
LEMMA SignInMaps ==
    ASSUME Inductive, Ready, Inductive', NEW c \in Calls, NEW u \in Users, NEW p \in Passwords,
           SignIn(c, u, p)
    PROVE  Maps
<1>1. [op |-> "signIn", user |-> u, arg |-> p] \in Request
  BY DEF Request
<1>2. /\ phase[c] = "idle" /\ answer[c] = "none" /\ token[c] = None /\ req'[c].op = "signIn"
      /\ \A d \in Calls \ {c} : req'[d] = req[d]
  BY <1>1, Begins DEF SignIn
<1>3. /\ UNCHANGED <<now, refreshKeys, token>> /\ Live' = Live
  BY KeysKeepLive DEF SignIn, store
<1>4. CASE QueryFails(c, "signIn")
  <2>1. /\ phase'[c] = "done" /\ answer'[c] = "error" /\ c \in degraded'
        /\ \A d \in Calls \ {c} : Bystander(d)
    BY <1>2, <1>3, <1>4, Leaves DEF QueryFails, Note, Answers, Inductive, Bystander
  <2>2. QED
    BY <1>2, <1>3, <2>1, Caller, EndStep DEF View, SignInView, Maps
<1>5. CASE Goto(c, "compare") /\ UNCHANGED degraded
  <2>1. /\ phase'[c] = "compare" /\ answer'[c] = "none"
        /\ \A d \in Calls \ {c} : Bystander(d)
    BY <1>2, <1>3, <1>5, Leaves DEF Phases, Inductive, Bystander
  <2>2. QED
    BY <1>2, <1>3, <1>5, <2>1, Caller, StutterStep DEF View, SignInView, Maps
<1>6. CASE Finish(c, "refused") /\ UNCHANGED degraded
  <2>1. /\ phase'[c] = "done" /\ answer'[c] = "refused"
        /\ \A d \in Calls \ {c} : Bystander(d)
    BY <1>2, <1>3, <1>6, Leaves DEF Answers, Inductive, Bystander
  <2>2. QED
    BY <1>2, <1>3, <1>6, <2>1, Caller, EndStep DEF View, SignInView, Maps
<1>7. CASE TurnAway(c)
  <2>1. /\ phase'[c] = "done" /\ answer'[c] = "turnedAway" /\ degraded' = degraded
        /\ \A d \in Calls \ {c} : Bystander(d)
    BY <1>2, <1>3, <1>7, Leaves DEF TurnAway, Answers, Inductive, Bystander
  <2>2. /\ Over' = Over \cup {c} /\ Told' = [Told EXCEPT ![c] = "turnedAway"]
        /\ UNCHANGED <<token, Asked, Served, Failed>>
    BY <1>2, <1>3, <2>1, Caller, Frame DEF Alters, Grows, View, SignInView
  <2>3. Store!TurnAway(c)
    BY <1>2, <1>3, <2>2, Caller DEF Store!TurnAway, Store!Fresh, View, SignInView
  <2>4. QED BY <2>3 DEF Store!Next, Maps
<1>8. QED BY <1>4, <1>5, <1>6, <1>7 DEF SignIn

\* Compare signs the token, or turns the call away.
LEMMA CompareMaps ==
    ASSUME Inductive, Ready, Inductive', NEW c \in Calls, Compare(c)
    PROVE  Maps
<1>1. /\ phase[c] = "compare" /\ req[c].op = "signIn" /\ answer[c] = "none"
      /\ token[c] = None /\ req'[c] = req[c]
      /\ c \in degraded' <=> c \in degraded
  BY Caller DEF Compare, At, Place, Holds
<1>2. UNCHANGED <<now, refreshKeys, req, degraded>> /\ Live' = Live
  BY KeysKeepLive DEF Compare, store
<1>3. CASE held[c] = req[c].arg
  <2> DEFINE t == [user |-> req[c].user, iat |-> now]
  <2>1. /\ phase'[c] = "setSession" /\ answer'[c] = "none" /\ token'[c] = t /\ t.iat = now
        /\ \A d \in Calls \ {c} : Bystander(d)
    BY <1>1, <1>2, <1>3, Leaves, Caller DEF Compare, Phases, TypeOK, Bystander
  <2>2. t \in Token
    <3>1. req[c] \in Request /\ now \in 0 .. MaxTime
      BY <1>1, Caller DEF Place, TypeOK
    <3>2. QED BY <1>1, <3>1 DEF Request, Token
  <2> HIDE DEF t
  <2>3. /\ token' = [token EXCEPT ![c] = t]
        /\ UNCHANGED <<Asked, Served, Over, Failed, Told>>
    BY <1>1, <2>1, Caller, Frame DEF Alters, Grows, View, SignInView
  <2>4. Store!Issue(c, t)
    BY <1>1, <1>2, <2>1, <2>3, Caller DEF Store!Issue, Store!Fresh, View, SignInView
  <2>5. QED BY <2>2, <2>4 DEF Store!Next, Maps
<1>4. CASE held[c] # req[c].arg
  <2>1. /\ phase'[c] = "done" /\ answer'[c] = "refused" /\ token'[c] = token[c]
        /\ \A d \in Calls \ {c} : Bystander(d)
    BY <1>1, <1>2, <1>4, Leaves, Caller DEF Compare, Answers, Bystander
  <2>2. QED
    BY <1>1, <1>2, <2>1, Caller, EndStep DEF View, SignInView, Maps
<1>5. QED BY <1>3, <1>4

\* The session key is no concern of the store, but the last write of a refresh.
LEMMA SetSessionMaps ==
    ASSUME Inductive, Ready, Inductive', NEW c \in Calls, NEW ok, SetSession(c, ok)
    PROVE  Maps
<1>1. /\ phase[c] = "setSession" /\ answer[c] = "none"
      /\ req[c].op \in {"signIn", "refreshAccessToken"} /\ req'[c] = req[c]
      /\ token'[c] = token[c]
  BY Caller DEF SetSession, At, Place
<1>2. UNCHANGED <<now, refreshKeys, req, token>> /\ Live' = Live
  BY KeysKeepLive DEF SetSession
<1>3. degraded' = degraded \/ degraded' = degraded \cup {c}
  BY DEF SetSession, Note
<1>4. CASE req[c].op = "signIn"
  <2>1. /\ phase'[c] = "setRefresh" /\ answer'[c] = "none"
        /\ \A d \in Calls \ {c} : Bystander(d)
    BY <1>1, <1>2, <1>3, <1>4, Leaves, Caller DEF SetSession, Phases, Bystander
  <2>2. CASE degraded' = degraded
    BY <1>1, <1>2, <1>4, <2>1, <2>2, Caller, StutterStep DEF View, SignInView, Maps
  <2>3. CASE degraded' = degraded \cup {c}
    <3>1. /\ Failed' = Failed \cup {c}
          /\ UNCHANGED <<token, Asked, Served, Over, Told>>
      BY <1>1, <1>2, <1>4, <2>1, <2>3, Caller, Frame DEF Alters, Grows, View, SignInView
    <3>2. Store!Fail(c)
      BY <1>1, <1>2, <1>4, <3>1, Caller DEF Store!Fail, View, SignInView
    <3>3. QED BY <3>2 DEF Store!Next, Maps
  <2>4. QED BY <1>3, <2>2, <2>3
<1>5. CASE req[c].op = "refreshAccessToken"
  <2>1. /\ phase'[c] = "done" /\ answer'[c] = "ok"
        /\ \A d \in Calls \ {c} : Bystander(d)
    BY <1>1, <1>2, <1>3, <1>5, Leaves, Caller DEF SetSession, Answers, Bystander
  <2>2. QED
    BY <1>1, <1>2, <1>3, <1>5, <2>1, Caller, EndStep DEF View, TokenView, Maps
<1>6. QED BY <1>1, <1>4, <1>5

\* SET makes the token live; a failing one leaves the call to end with its failure.
LEMMA SetRefreshMaps ==
    ASSUME Inductive, Ready, Inductive', NEW c \in Calls, NEW ok, SetRefresh(c, ok)
    PROVE  Maps
<1>1. /\ phase[c] = "setRefresh" /\ req[c].op = "signIn" /\ answer[c] = "none"
      /\ token[c] \in Token /\ token[c] # None
  BY Caller DEF SetRefresh, At, Place, Holds, TypeOK
<1>2. UNCHANGED <<now, req, token>>
  BY DEF SetRefresh
<1>3. CASE ok
  <2>1. /\ phase'[c] = "expireRefresh" /\ answer'[c] = "none" /\ degraded' = degraded
        /\ \A d \in Calls \ {c} : Bystander(d)
    BY <1>1, <1>2, <1>3, Leaves, Caller DEF SetRefresh, Note, Phases, Bystander
  <2>2. refreshKeys' = [refreshKeys EXCEPT ![token[c]] = Forever] /\ Forever > now
    BY <1>1, <1>3, Caller, Times DEF SetRefresh, Forever
  <2>3. Live' = Live \cup {token[c]}
    BY <1>1, <1>2, <2>2, Caller DEF Live, TypeOK
  <2>4. /\ Served' = Served \cup {c}
        /\ UNCHANGED <<token, Asked, Over, Failed, Told>>
    BY <1>1, <1>2, <2>1, Caller, Frame DEF Alters, Grows, View, SignInView
  <2>5. Store!Activate(c)
    BY <1>1, <1>2, <2>3, <2>4, Caller DEF Store!Activate, View, SignInView
  <2>6. QED BY <2>5 DEF Store!Next, Maps
<1>4. CASE ~ok
  <2>1. /\ phase'[c] = "done" /\ answer'[c] = "ok" /\ c \in degraded'
        /\ \A d \in Calls \ {c} : Bystander(d)
    BY <1>1, <1>2, <1>4, Leaves, Caller DEF SetRefresh, Note, Answers, Bystander
  <2>2. Live' = Live
    BY <1>2, <1>4, KeysKeepLive DEF SetRefresh
  <2>3. QED
    BY <1>1, <1>2, <2>1, <2>2, Caller, EndStep DEF View, SignInView, Maps
<1>5. QED BY <1>3, <1>4

\* EXPIRE leaves a live key live.
LEMMA ExpireRefreshMaps ==
    ASSUME Inductive, Ready, Inductive', NEW c \in Calls, NEW ok, ExpireRefresh(c, ok)
    PROVE  Maps
<1>1. /\ phase[c] = "expireRefresh" /\ req[c].op = "signIn" /\ answer[c] = "none"
      /\ token[c] \in Token
  BY Caller DEF ExpireRefresh, At, Place, Holds, TypeOK
<1>2. UNCHANGED <<now, req, token>>
  BY DEF ExpireRefresh
<1>3. Live' = Live
  <2>1. \A t \in Token : refreshKeys'[t] = refreshKeys[t] \/
                         (refreshKeys[t] > now /\ refreshKeys'[t] = now + Life)
    BY Caller DEF ExpireRefresh, TypeOK
  <2>2. \A t \in Token : refreshKeys'[t] > now <=> refreshKeys[t] > now
    BY <2>1, Caller, Times
  <2>3. QED BY <1>2, <2>2 DEF Live
<1>4. /\ phase'[c] = "done" /\ answer'[c] = "ok"
      /\ c \in degraded => c \in degraded'
      /\ \A d \in Calls \ {c} : Bystander(d)
  BY <1>1, <1>2, Leaves, Caller DEF ExpireRefresh, Note, Answers, Bystander
<1>5. QED
  BY <1>1, <1>2, <1>3, <1>4, Caller, EndStep DEF View, SignInView, Maps

\* A call that names a token it was handed.
LEMMA AskMaps ==
    ASSUME Inductive, Ready, Inductive', NEW c \in Calls, NEW t \in Token,
           NEW op \in {"refreshAccessToken", "logout"}, NEW a \in {"ok", "refused", "error"},
           t \in Handed, Begin(c, op, t.user, t), UNCHANGED <<now, store, token>>,
           a = "ok" <=> op = "logout",
           \/ /\ Verify(t) /\ UNCHANGED degraded
              /\ Goto(c, "getKey") \/ Goto(c, "delKey")
           \/ Verify(t) /\ Note(c, FALSE) /\ Finish(c, a)
           \/ ~Verify(t) /\ UNCHANGED degraded /\ Finish(c, a)
           \/ TurnAway(c)
    PROVE  Store!Next
<1>1. [op |-> op, user |-> t.user, arg |-> t] \in Request
  BY DEF Request, Token
<1>2. /\ phase[c] = "idle" /\ answer[c] = "none" /\ token[c] = None
      /\ req'[c].op = op /\ req'[c].arg = t /\ req'[c] \in Asking
      /\ \A d \in Calls \ {c} : req'[d] = req[d]
  BY <1>1, Begins DEF Asking
<1>3. token' = token /\ now' = now /\ Live' = Live
  BY KeysKeepLive DEF store
<1>4. ASSUME Verify(t), UNCHANGED degraded, Goto(c, "getKey") \/ Goto(c, "delKey")
      PROVE  Store!Next
  <2>1. /\ phase'[c] \in {"getKey", "delKey"} /\ answer'[c] = "none"
        /\ \A d \in Calls \ {c} : Bystander(d)
    BY <1>2, <1>3, <1>4, Leaves, Caller DEF Phases, Bystander
  <2>2. QED
    BY <1>2, <1>3, <1>4, <2>1, Caller, AskStep DEF View, SignInView, TokenView
<1>5. ASSUME Verify(t), Note(c, FALSE), Finish(c, a) PROVE Store!Next
  <2>1. /\ phase'[c] = "done" /\ answer'[c] = a /\ c \in degraded'
        /\ \A d \in Calls \ {c} : Bystander(d)
    BY <1>2, <1>3, <1>5, Leaves, Caller DEF Note, Answers, Bystander
  <2>2. QED
    BY <1>2, <1>3, <1>5, <2>1, Caller, AskStep DEF View, SignInView, TokenView
<1>6. ASSUME ~Verify(t), UNCHANGED degraded, Finish(c, a) PROVE Store!Next
  <2>1. /\ phase'[c] = "done" /\ answer'[c] = a
        /\ \A d \in Calls \ {c} : Bystander(d)
    BY <1>2, <1>3, <1>6, Leaves, Caller DEF Answers, Bystander
  <2>2. QED
    BY <1>2, <1>3, <1>6, <2>1, Caller, AskStep DEF View, SignInView, TokenView
<1>7. ASSUME TurnAway(c) PROVE Store!Next
  <2>1. /\ phase'[c] = "done" /\ answer'[c] = "turnedAway" /\ degraded' = degraded
        /\ \A d \in Calls \ {c} : Bystander(d)
    BY <1>2, <1>3, <1>7, Leaves, Caller DEF TurnAway, Answers, Bystander
  <2>2. QED
    BY <1>2, <1>3, <2>1, Caller, AskStep DEF View, SignInView, TokenView
<1>8. QED BY <1>4, <1>5, <1>6, <1>7

LEMMA RefreshAccessTokenMaps ==
    ASSUME Inductive, Ready, Inductive', NEW c \in Calls, NEW t \in Token,
           RefreshAccessToken(c, t)
    PROVE  Maps
<1>1. /\ t \in Handed /\ Begin(c, "refreshAccessToken", t.user, t)
      /\ UNCHANGED <<now, store, token>>
  BY DEF RefreshAccessToken
<1>2. CASE Verify(t) /\ Goto(c, "getKey") /\ UNCHANGED degraded
  BY <1>1, <1>2, AskMaps DEF Maps
<1>3. CASE Verify(t) /\ QueryFails(c, "refreshAccessToken")
  <2>1. Note(c, FALSE) /\ Finish(c, "error")
    BY <1>3 DEF QueryFails
  <2>2. QED BY <1>1, <1>3, <2>1, AskMaps DEF Maps
<1>4. CASE ~Verify(t) /\ Finish(c, "refused") /\ UNCHANGED degraded
  BY <1>1, <1>4, AskMaps DEF Maps
<1>5. CASE TurnAway(c)
  BY <1>1, <1>5, AskMaps DEF Maps
<1>6. QED BY <1>2, <1>3, <1>4, <1>5 DEF RefreshAccessToken

LEMMA LogoutMaps ==
    ASSUME Inductive, Ready, Inductive', NEW c \in Calls, NEW t \in Token, Logout(c, t)
    PROVE  Maps
<1>1. /\ t \in Handed /\ Begin(c, "logout", t.user, t)
      /\ UNCHANGED <<now, store, token>>
  BY DEF Logout
<1>2. CASE Verify(t) /\ Goto(c, "delKey") /\ UNCHANGED degraded
  BY <1>1, <1>2, AskMaps DEF Maps
<1>3. CASE Verify(t) /\ QueryFails(c, "logout")
  <2>1. Note(c, FALSE) /\ Finish(c, "ok")
    BY <1>3 DEF QueryFails
  <2>2. QED BY <1>1, <1>3, <2>1, AskMaps DEF Maps
<1>4. CASE ~Verify(t) /\ Finish(c, "ok") /\ UNCHANGED degraded
  BY <1>1, <1>4, AskMaps DEF Maps
<1>5. CASE TurnAway(c)
  BY <1>1, <1>5, AskMaps DEF Maps
<1>6. QED BY <1>2, <1>3, <1>4, <1>5 DEF Logout

\* GET finds the key of a live token, and no other.
LEMMA GetKeyMaps ==
    ASSUME Inductive, Ready, Inductive', NEW c \in Calls, NEW ok, GetKey(c, ok)
    PROVE  Maps
<1> DEFINE t == req[c].arg
<1>1. /\ phase[c] = "getKey" /\ req[c].op = "refreshAccessToken" /\ answer[c] = "none"
      /\ t \in Token /\ token[c] = None
  BY Caller, HandedIsGiven DEF GetKey, At, Place, Holds
<1>2. UNCHANGED <<now, req, token>> /\ Live' = Live
  BY KeysKeepLive DEF GetKey, store
<1>3. t \in Live <=> refreshKeys[t] > now
  BY <1>1 DEF Live
<1> HIDE DEF t
<1>4. /\ Asked[c] = req[c] /\ Asked[c].arg = t /\ Asked'[c] = Asked[c]
      /\ Asked[c].op = "refreshAccessToken" /\ Asked[c] # None
      /\ c \notin Over /\ c \notin Served
  <2>1. phase'[c] # "idle"
    BY Caller, Leaves DEF GetKey, Phases, Answers
  <2>2. req[c] # None
    BY <1>1, Caller DEF Place
  <2>3. QED BY <1>1, <1>2, <2>1, <2>2, Caller DEF View, TokenView, t
<1>5. CASE ok /\ t \in Live
  <2>1. /\ phase'[c] = "setSession" /\ answer'[c] = "none" /\ degraded' = degraded
        /\ \A d \in Calls \ {c} : Bystander(d)
    BY <1>1, <1>2, <1>3, <1>5, Leaves, Caller DEF GetKey, Note, Phases, Bystander, t
  <2>2. /\ Served' = Served \cup {c}
        /\ UNCHANGED <<token, Asked, Over, Failed, Told>>
    BY <1>1, <1>2, <1>4, <2>1, Caller, Frame DEF Alters, Grows, View, TokenView
  <2>3. Store!Find(c)
    BY <1>2, <1>4, <1>5, <2>2 DEF Store!Find, Store!Asks
  <2>4. QED BY <2>3 DEF Store!Next, Maps
<1>6. CASE ~(ok /\ t \in Live)
  <2>1. /\ phase'[c] = "done" /\ answer'[c] = "refused"
        /\ c \in degraded => c \in degraded'
        /\ ~ok => c \in degraded'
        /\ \A d \in Calls \ {c} : Bystander(d)
    BY <1>1, <1>2, <1>3, <1>6, Leaves, Caller DEF GetKey, Note, Answers, Bystander, t
  <2>2. QED
    BY <1>1, <1>2, <1>4, <1>6, <2>1, Caller, EndStep DEF View, TokenView, Maps
<1>7. QED BY <1>5, <1>6

\* DEL takes the token away and ends the logout; a failing one only ends it.
LEMMA DelKeyMaps ==
    ASSUME Inductive, Ready, Inductive', NEW c \in Calls, NEW ok, DelKey(c, ok)
    PROVE  Maps
<1> DEFINE t == req[c].arg
<1>1. /\ phase[c] = "delKey" /\ req[c].op = "logout" /\ answer[c] = "none"
      /\ t \in Token /\ token[c] = None
  BY Caller, HandedIsGiven DEF DelKey, At, Place, Holds
<1>2. UNCHANGED <<now, req, token>>
  BY DEF DelKey
<1>3. /\ phase'[c] = "done" /\ answer'[c] = "ok"
      /\ c \in degraded => c \in degraded'
      /\ ok => degraded' = degraded
      /\ ~ok => c \in degraded'
      /\ \A d \in Calls \ {c} : Bystander(d)
  BY <1>1, <1>2, Leaves, Caller DEF DelKey, Note, Answers, Bystander
<1>4. CASE ok
  <2>1. refreshKeys' = [refreshKeys EXCEPT ![t] = NoKey]
    BY <1>4 DEF DelKey
  <2>2. Live' = Live \ {t}
    BY <1>1, <1>2, <2>1, Caller, Times DEF Live, TypeOK, NoKey
  <2>3. /\ Asked[c] = req[c] /\ c \notin Served \cup Over
        /\ Over' = Over \cup {c} /\ Told' = [Told EXCEPT ![c] = "ok"]
        /\ UNCHANGED <<token, Asked, Served, Failed>>
    BY <1>1, <1>2, <1>3, <1>4, Caller, Frame DEF Alters, Grows, View, TokenView
  <2>4. Asked[c] # None /\ Asked[c].arg = t /\ Asked[c].op = "logout"
    BY <1>1, <2>3, Caller DEF Place
  <2> HIDE DEF t
  <2>5. Store!Revoke(c)
    BY <1>2, <2>2, <2>3, <2>4 DEF Store!Revoke, Store!Asks
  <2>6. QED BY <2>5 DEF Store!Next, Maps
<1>5. CASE ~ok
  <2>1. Live' = Live
    <3>1. refreshKeys' = refreshKeys
      BY <1>1, <1>5, Caller DEF DelKey, TypeOK
    <3>2. QED BY <1>2, <3>1 DEF Live
  <2>2. QED
    BY <1>1, <1>2, <1>3, <1>5, <2>1, Caller, EndStep DEF View, TokenView, Maps
<1>6. QED BY <1>4, <1>5

\* The store sees nothing of a reset, whatever becomes of it.
LEMMA ResetMaps ==
    ASSUME Inductive, Ready, Inductive', NEW c \in Calls,
           phase[c] = "idle" \/ req[c].op = "resetPassword",
           phase'[c] # "idle", phase'[c] # "expireRefresh", req'[c].op = "resetPassword",
           token'[c] = token[c], UNCHANGED <<now, refreshKeys>>,
           \A d \in Calls \ {c} : Bystander(d)
    PROVE  Maps
<1>1. Live' = Live
  BY KeysKeepLive
<1>2. Asked[c] = None /\ Told[c] = "none" /\ c \notin Served /\ c \notin Over /\ c \notin Failed
  <2>1. CASE phase[c] = "idle"
    <3>1. answer[c] = "none"
      BY <2>1, Caller DEF Place
    <3>2. QED BY <2>1, <3>1, Caller DEF View, SignInView
  <2>2. CASE phase[c] # "idle"
    BY <2>2, Caller DEF View, ResetView, Place
  <2>3. QED BY <2>1, <2>2
<1>3. /\ Asked'[c] = None /\ Told'[c] = "none"
      /\ c \notin Served' /\ c \notin Over' /\ c \notin Failed'
  BY Caller DEF View, ResetView
<1>4. QED BY <1>1, <1>2, <1>3, Caller, StutterStep DEF Maps

LEMMA ResetPasswordMaps ==
    ASSUME Inductive, Ready, Inductive', NEW c \in Calls, NEW u \in Users,
           NEW r \in ResetTokens, NEW p \in Passwords, NEW ok, ResetPassword(c, u, r, p, ok)
    PROVE  Maps
<1> DEFINE arg == [token |-> r, password |-> p]
<1>1. [op |-> "resetPassword", user |-> u, arg |-> arg] \in Request
  BY DEF Request
<1>2. Begin(c, "resetPassword", u, arg) /\ UNCHANGED <<now, refreshKeys, token>>
  BY DEF ResetPassword, store
<1> HIDE DEF arg
<1>3. /\ phase[c] = "idle" /\ answer[c] = "none" /\ req'[c].op = "resetPassword"
      /\ \A d \in Calls \ {c} : req'[d] = req[d]
  BY <1>1, <1>2, Begins
<1>4. Goto(c, "savePassword") \/ Finish(c, "refused") \/ Finish(c, "turnedAway")
  BY DEF ResetPassword, TurnAway
<1>5. /\ phase'[c] \in {"savePassword", "done"}
      /\ \A d \in Calls \ {c} : phase'[d] = phase[d] /\ answer'[d] = answer[d]
  BY <1>4, Caller, Leaves DEF Phases, Answers
<1>6. \A d \in Calls \ {c} : Bystander(d)
  BY <1>2, <1>3, <1>5 DEF ResetPassword, TurnAway, Note, Bystander
<1>7. QED BY <1>2, <1>3, <1>5, <1>6, ResetMaps

LEMMA SavePasswordMaps ==
    ASSUME Inductive, Ready, Inductive', NEW c \in Calls, SavePassword(c)
    PROVE  Maps
<1>1. phase[c] = "savePassword" /\ req[c].op = "resetPassword"
  BY Caller DEF SavePassword, At, Place
<1>2. UNCHANGED <<now, refreshKeys, req, token>>
  BY DEF SavePassword
<1>3. Goto(c, "delReset") \/ Finish(c, "error")
  BY DEF SavePassword, QueryFails
<1>4. /\ phase'[c] \in {"delReset", "done"}
      /\ \A d \in Calls \ {c} : phase'[d] = phase[d] /\ answer'[d] = answer[d]
  BY <1>3, Caller, Leaves DEF Phases, Answers
<1>5. \A d \in Calls \ {c} : Bystander(d)
  BY <1>2, <1>4 DEF SavePassword, QueryFails, Note, Bystander
<1>6. QED BY <1>1, <1>2, <1>4, <1>5, ResetMaps

LEMMA DelResetMaps ==
    ASSUME Inductive, Ready, Inductive', NEW c \in Calls, NEW ok, DelReset(c, ok)
    PROVE  Maps
<1>1. phase[c] = "delReset" /\ req[c].op = "resetPassword"
  BY Caller DEF DelReset, At, Place
<1>2. UNCHANGED <<now, refreshKeys, req, token>>
  BY DEF DelReset
<1>3. /\ phase'[c] = "done"
      /\ \A d \in Calls \ {c} : phase'[d] = phase[d] /\ answer'[d] = answer[d]
  BY Caller, Leaves DEF DelReset, Answers
<1>4. \A d \in Calls \ {c} : Bystander(d)
  BY <1>2, <1>3 DEF DelReset, Note, Bystander
<1>5. QED BY <1>1, <1>2, <1>3, <1>4, ResetMaps

\* Time takes a live key away only when its token has expired.
LEMMA TickMaps ==
    ASSUME Inductive, Ready, Tick
    PROVE  Maps
<1>1. TypeOK /\ now' = now + 1 /\ UNCHANGED <<refreshKeys, phase, req, token, answer, degraded>>
  BY DEF Inductive, Tick, store
<1>2. UNCHANGED <<token, Asked, Served, Over, Failed, Told>>
  BY <1>1 DEF Asked, Served, Over, Failed, Told, Resets
<1>3. Live' \subseteq Live
  BY <1>1, Times DEF Live
<1>4. ASSUME NEW t \in Live \ Live' PROVE Store!Expired(t, now')
  <2>1. t \in Token /\ refreshKeys[t] > now /\ ~(refreshKeys[t] > now + 1)
    BY <1>1 DEF Live
  <2>2. refreshKeys[t] >= t.iat + Life
    BY <1>1, <2>1, Times DEF Ready, NoKey
  <2>3. QED BY <1>1, <2>1, <2>2, Times DEF Store!Expired
<1>5. Store!Pass
  BY <1>1, <1>2, <1>3, <1>4 DEF Store!Pass
<1>6. QED BY <1>5 DEF Store!Next, Maps

\* A worker's exit loses the call and nothing else.
LEMMA ExitMaps ==
    ASSUME Inductive, Ready, Inductive', NEW c \in Calls, Exit(c)
    PROVE  Maps
<1>1. /\ phase[c] \notin {"idle", "done", "lost"} /\ req[c] \in Request
      /\ UNCHANGED <<now, refreshKeys, req, token, answer, degraded>>
  BY Caller DEF Exit, store, TypeOK, Place
<1>2. phase'[c] = "lost" /\ \A d \in Calls \ {c} : Bystander(d)
  BY <1>1, Caller DEF Exit, TypeOK, Bystander
<1>3. Live' = Live
  BY <1>1, KeysKeepLive
<1>4. CASE req[c].op = "resetPassword"
  BY <1>1, <1>2, <1>4, ResetMaps
<1>5. CASE req[c].op \in {"signIn", "refreshAccessToken", "logout"}
  <2>1. /\ c \notin Over /\ Over' = Over \cup {c} /\ Served' = Served \ {c}
        /\ UNCHANGED <<token, Asked, Failed, Told>>
    BY <1>1, <1>2, <1>5, Caller, Frame DEF Alters, Grows, View, SignInView, TokenView
  <2>2. Store!Lose(c)
    BY <1>1, <1>3, <2>1 DEF Store!Lose
  <2>3. QED BY <2>2 DEF Store!Next, Maps
<1>6. QED BY <1>1, <1>4, <1>5 DEF Request

-----------------------------------------------------------------------------
\* Sessions implements TokenStore: with keys, passwords and resets hidden, every step is
\* one of the store's or a stutter.
THEOREM KeepsTokenStoreHolds == Spec => KeepsTokenStore
<1>1. Init => Store!Init
  <2> SUFFICES ASSUME Init PROVE Store!Init
    OBVIOUS
  <2>1. Live = {} /\ Served = {} /\ Over = {} /\ Failed = {}
    BY DEF Init, Live, Served, Over, Failed, NoKey
  <2>2. Asked = [c \in Calls |-> None]
    BY SessionsNone DEF Init, Asked, Asking
  <2>3. Told = [c \in Calls |-> "none"]
    BY DEF Init, Told, Resets
  <2>4. QED BY <2>1, <2>2, <2>3 DEF Init, Store!Init
<1>2. Inductive /\ Inductive' /\ Ready /\ [Next]_vars => [Store!Next]_(Store!vars)
  <2> SUFFICES ASSUME Inductive, Inductive', Ready, [Next]_vars PROVE Maps
    BY DEF Maps, mapped, Store!vars
  <2>1. ASSUME NEW c \in Calls, Start(c) PROVE Maps
    BY <2>1, SignInMaps, RefreshAccessTokenMaps, LogoutMaps, ResetPasswordMaps DEF Start
  <2>2. ASSUME NEW c \in Calls, Continue(c) PROVE Maps
    BY <2>2, CompareMaps, SavePasswordMaps, SetSessionMaps, SetRefreshMaps,
       ExpireRefreshMaps, GetKeyMaps, DelKeyMaps, DelResetMaps DEF Continue
  <2>3. ASSUME NEW c \in Calls, Exit(c) PROVE Maps
    BY <2>3, ExitMaps
  <2>4. CASE Tick
    BY <2>4, TickMaps
  <2>5. CASE UNCHANGED <<now, refreshKeys, phase, req, token, answer, degraded>>
    BY <2>5 DEF Maps, mapped, Live, Asked, Served, Over, Failed, Told, Resets
  <2>6. ASSUME NEW u \in Users, NEW r \in ResetTokens, MailResetToken(u, r)
        PROVE  UNCHANGED <<now, refreshKeys, phase, req, token, answer, degraded>>
    BY <2>6 DEF MailResetToken
  <2>7. CASE UNCHANGED vars
    BY <2>5, <2>7 DEF vars, store
  <2>8. QED BY <2>1, <2>2, <2>3, <2>4, <2>5, <2>6, <2>7 DEF Next
<1>3. QED
  BY <1>1, <1>2, InductiveHolds, ReadyHolds, PTL DEF Spec, KeepsTokenStore, Store!Spec
=============================================================================
