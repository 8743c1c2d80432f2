-------------------------- MODULE MCTelemetryLink --------------------------
(* Instances of TelemetryLink for TLC; the constants are in the cfg files. *)
EXTENDS TelemetryLink
=============================================================================
