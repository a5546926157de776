---------------------------- MODULE MCOneServer ----------------------------
(* Instance of OneServer for TLC. *)
EXTENDS OneServer
=============================================================================
