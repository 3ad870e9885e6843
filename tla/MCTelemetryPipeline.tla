------------------------ MODULE MCTelemetryPipeline ------------------------
(* Model values and bounds for TelemetryPipeline: every request and socket is *)
(* used at most once, so the state space is finite without a constraint.      *)
EXTENDS TelemetryPipeline
=============================================================================
