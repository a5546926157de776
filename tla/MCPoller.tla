------------------------------ MODULE MCPoller ------------------------------
(* Instance of Poller for TLC. *)
EXTENDS Poller
=============================================================================
