----------------------------- MODULE ReadingLog -----------------------------
(***************************************************************************)
(* What POST /telemetry promises of a reading, without vehicles, workers,  *)
(* transactions and subscriptions: it is shown at most once, then kept at  *)
(* most once and for good, and neither happens any more once the call has  *)
(* been answered, unless the database failed while it was keeping it.      *)
(***************************************************************************)
EXTENDS Sequences

CONSTANTS
    Requests,   \* POST /telemetry calls, one reading each
    Sockets     \* dashboards

VARIABLES
    shown,      \* readings that went to the dashboards of their fleet
    feed,       \* what each dashboard was shown, oldest first
    log,        \* readings that are kept
    doubtful,   \* readings of which nobody knows yet whether they are kept
    answer      \* the answer to each call

vars == <<shown, feed, log, doubtful, answer>>

Open(r) == r \notin log \cup doubtful /\ answer[r] = "none"

Init ==
    /\ shown = {}
    /\ feed = [s \in Sockets |-> <<>>]
    /\ log = {}
    /\ doubtful = {}
    /\ answer = [r \in Requests |-> "none"]

\* Which dashboards follow the fleet is not this specification's concern.
Show(r) ==
    /\ Open(r) /\ r \notin shown
    /\ shown' = shown \cup {r}
    /\ \E followers \in SUBSET Sockets :
         feed' = [s \in Sockets |->
                    IF s \in followers THEN Append(feed[s], r) ELSE feed[s]]
    /\ UNCHANGED <<log, doubtful, answer>>

Keep(r) ==
    /\ Open(r) \/ r \in doubtful
    /\ log' = log \cup {r}
    /\ doubtful' = doubtful \ {r}
    /\ UNCHANGED <<shown, feed, answer>>

\* The database fails while it is asked to keep the reading ...
Doubt(r) ==
    /\ Open(r)
    /\ doubtful' = doubtful \cup {r}
    /\ UNCHANGED <<shown, feed, log, answer>>

\* ... and turns out not to have kept it.
Drop(r) ==
    /\ r \in doubtful
    /\ doubtful' = doubtful \ {r}
    /\ UNCHANGED <<shown, feed, log, answer>>

\* A reading may be accepted and not kept, but one that is turned away, or whose
\* call fails, is neither shown nor kept.
Reply(r, a) ==
    /\ answer[r] = "none"
    /\ a # "success" => r \notin shown \cup log \cup doubtful
    /\ answer' = [answer EXCEPT ![r] = a]
    /\ UNCHANGED <<shown, feed, log, doubtful>>

Next ==
    \E r \in Requests :
        \/ Show(r) \/ Keep(r) \/ Doubt(r) \/ Drop(r)
        \/ \E a \in {"success", "notFound", "error"} : Reply(r, a)

Spec == Init /\ [][Next]_vars
=============================================================================
