----------------------------- MODULE MCSampler -----------------------------
(* Instances of Sampler for TLC; the constants are given in the cfg files. *)
EXTENDS Sampler
=============================================================================
