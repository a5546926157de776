------------------------------ MODULE MCSha512 ------------------------------
(* Instances of Sha512 for TLC. *)
EXTENDS Sha512

\* One key shorter than KeySize, one between KeySize and BlockSize.
MCShaKeys == {<<0>>, <<0, 0, 0, 0>>}
=============================================================================
