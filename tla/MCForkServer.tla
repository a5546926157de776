---------------------------- MODULE MCForkServer ----------------------------
(* Instances of ForkServer for TLC. *)
EXTENDS ForkServer, TLC
=============================================================================
