----------------------------- MODULE TokenStore -----------------------------
(***************************************************************************)
(* What a client may rely on of the refresh token it was handed, without   *)
(* accounts, passwords, cache keys and times to live.  A token is live     *)
(* from before its sign-in is answered until its own expiry or a logout    *)
(* that names it.  An unexpired token is refreshed if it was live at some  *)
(* moment of the call and refused if it was not.  A call may be turned     *)
(* away before it has done anything: then it changes nothing, and a logout *)
(* leaves its token live.  Only a call that failed makes an exception, and *)
(* only for itself.                                                        *)
(***************************************************************************)
EXTENDS Integers

CONSTANTS
    Token,      \* refresh tokens, each with the time iat of its signature
    Calls,
    Asking,     \* what calls ask: an operation op on the token arg
    Life,       \* how long a token is good for
    None

VARIABLES
    now,        \* the clock
    live,       \* tokens that can be refreshed
    issued,     \* the token that a sign-in has signed
    asked,      \* what a call asks of a token it was handed
    served,     \* calls that had their effect on live, or found their token there
    over,       \* calls that do nothing any more
    failed,     \* calls that met a failure of a query or a command
    answer

vars == <<now, live, issued, asked, served, over, failed, answer>>

Expired(t, time) == time >= t.iat + Life
Given == {issued[c] : c \in {d \in Calls : issued[d] # None /\ answer[d] # "none"}}

Init ==
    /\ now = 0
    /\ live = {}
    /\ issued = [c \in Calls |-> None]
    /\ asked = [c \in Calls |-> None]
    /\ served = {} /\ over = {} /\ failed = {}
    /\ answer = [c \in Calls |-> "none"]

Fresh(c) == c \notin served \cup over /\ issued[c] = None /\ asked[c] = None

\* Time takes tokens away that have expired, and no other.
Pass ==
    /\ now' = now + 1
    /\ live' \subseteq live
    /\ \A t \in live \ live' : Expired(t, now')
    /\ UNCHANGED <<issued, asked, served, over, failed, answer>>

Issue(c, t) ==
    /\ Fresh(c) /\ t.iat = now
    /\ issued' = [issued EXCEPT ![c] = t]
    /\ UNCHANGED <<now, live, asked, served, over, failed, answer>>

Activate(c) ==
    /\ c \notin served \cup over /\ issued[c] # None
    /\ live' = live \cup {issued[c]}
    /\ served' = served \cup {c}
    /\ UNCHANGED <<now, issued, asked, over, failed, answer>>

\* A call names a token. One that is turned away, names an expired token or fails at
\* once is over: a logout that was not turned away says "ok" even then.
Ask(c, q) ==
    /\ Fresh(c) /\ q.arg \in Given
    /\ asked' = [asked EXCEPT ![c] = q]
    /\ \/ ~Expired(q.arg, now) /\ UNCHANGED <<over, failed, answer>>
       \/ /\ over' = over \cup {c}
          /\ answer' = [answer EXCEPT ![c] = "turnedAway"]
          /\ UNCHANGED failed
       \/ /\ over' = over \cup {c}
          /\ failed' = IF Expired(q.arg, now) THEN failed ELSE failed \cup {c}
          /\ \E a \in {"ok", "refused", "error"} :
                (a = "ok" <=> q.op = "logout") /\ answer' = [answer EXCEPT ![c] = a]
    /\ UNCHANGED <<now, live, issued, served>>

\* A sign-in is turned away.
TurnAway(c) ==
    /\ Fresh(c)
    /\ over' = over \cup {c}
    /\ answer' = [answer EXCEPT ![c] = "turnedAway"]
    /\ UNCHANGED <<now, live, issued, asked, served, failed>>

Asks(c, op) == c \notin served \cup over /\ asked[c] # None /\ asked[c].op = op

Find(c) ==
    /\ Asks(c, "refreshAccessToken") /\ asked[c].arg \in live
    /\ served' = served \cup {c}
    /\ UNCHANGED <<now, live, issued, asked, over, failed, answer>>

Fail(c) ==
    /\ c \notin over
    /\ failed' = failed \cup {c}
    /\ UNCHANGED <<now, live, issued, asked, served, over, answer>>

\* A logout takes its token away and ends at once.
Revoke(c) ==
    /\ Asks(c, "logout")
    /\ live' = live \ {asked[c].arg}
    /\ over' = over \cup {c}
    /\ answer' = [answer EXCEPT ![c] = "ok"]
    /\ UNCHANGED <<now, issued, asked, served, failed>>

\* Short of a failure, a call that ends says "ok" if it was served and "refused" if it has
\* signed no token and cannot find the one it asks for.
End(c, a) ==
    /\ c \notin over
    /\ failed' \in {failed, failed \cup {c}}
    /\ a = "ok" => c \in served \cup failed'
    /\ a = "refused" =>
          /\ c \notin served /\ issued[c] = None
          /\ asked[c] # None => asked[c].arg \notin live \/ c \in failed'
    /\ a = "error" => c \in failed' \ served
    /\ answer' = [answer EXCEPT ![c] = a]
    /\ served' = served \ {c} /\ over' = over \cup {c}
    /\ UNCHANGED <<now, live, issued, asked>>

\* A call that is lost ends without an answer, and leaves the tokens as they are.
Lose(c) ==
    /\ c \notin over
    /\ served' = served \ {c} /\ over' = over \cup {c}
    /\ UNCHANGED <<now, live, issued, asked, failed, answer>>

Next ==
    \/ Pass
    \/ \E c \in Calls :
          \/ \E t \in Token : Issue(c, t)
          \/ \E q \in Asking : Ask(c, q)
          \/ TurnAway(c) \/ Activate(c) \/ Find(c) \/ Fail(c) \/ Revoke(c) \/ Lose(c)
          \/ \E a \in {"ok", "refused", "error"} : End(c, a)

Spec == Init /\ [][Next]_vars
=============================================================================
