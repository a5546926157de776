---------------------------- MODULE MCResolvFile ----------------------------
(* Instances of ResolvFile for TLC. *)
EXTENDS ResolvFile, TLC
=============================================================================
