---------------------------- MODULE MCPushQueue ----------------------------
(* PushQueue for TLC. A call is made once, and the attempts of its job and    *)
(* the workers are used up, so the state space is finite without a constraint. *)
EXTENDS PushQueue
=============================================================================
