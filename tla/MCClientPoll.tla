---------------------------- MODULE MCClientPoll ----------------------------
(* Instances of ClientPoll for TLC. *)
EXTENDS ClientPoll, TLC
=============================================================================
