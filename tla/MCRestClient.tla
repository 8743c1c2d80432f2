---------------------------- MODULE MCRestClient ----------------------------
(* Instances of RestClient for TLC.  Objects are told apart by numbers, of *)
(* which the least free one is taken, so that no two states differ only in *)
(* their objects' names.                                                   *)
EXTENDS RestClient
=============================================================================
