------------------------------- MODULE Outbox -------------------------------
(***************************************************************************)
(* What the push queue promises of a message, without workers, locks,      *)
(* attempts and backoff: a message that was accepted goes out at least     *)
(* once and at most Copies times before it is called sent, or is given up, *)
(* and either end is final: no copy goes out after it.                     *)
(***************************************************************************)
EXTENDS Integers

CONSTANTS
    Messages,
    Copies      \* how often one message may go out

VARIABLES
    fate,       \* "none", "pending", "sent" or "givenUp"
    copies      \* copies that reached the recipient

vars == <<fate, copies>>

Init ==
    /\ fate = [m \in Messages |-> "none"]
    /\ copies = [m \in Messages |-> 0]

Accept(m) ==
    /\ fate[m] = "none"
    /\ fate' = [fate EXCEPT ![m] = "pending"]
    /\ UNCHANGED copies

Deliver(m) ==
    /\ fate[m] = "pending" /\ copies[m] < Copies
    /\ copies' = [copies EXCEPT ![m] = @ + 1]
    /\ UNCHANGED fate

Settle(m, end) ==
    /\ fate[m] = "pending"
    /\ end = "sent" => copies[m] > 0
    /\ fate' = [fate EXCEPT ![m] = end]
    /\ UNCHANGED copies

Next ==
    \E m \in Messages :
        Accept(m) \/ Deliver(m) \/ \E end \in {"sent", "givenUp"} : Settle(m, end)

Spec == Init /\ [][Next]_vars
=============================================================================
