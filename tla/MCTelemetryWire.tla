-------------------------- MODULE MCTelemetryWire --------------------------
(* An instance of TelemetryWire for TLC: enough samples that a message has *)
(* two frames of them, one with more than one sample; that a full ring     *)
(* drops its oldest; and that an acknowledgement of timestamps with a gap  *)
(* gives up more samples than it is for.                                   *)
EXTENDS TelemetryWire
=============================================================================
