------------------------------ MODULE MCMycat ------------------------------
(* Instances of Mycat for TLC. *)
EXTENDS Mycat, TLC
=============================================================================
