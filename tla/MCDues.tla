------------------------------- MODULE MCDues -------------------------------
(* Small instances of Dues for TLC. *)
EXTENDS Dues, TLC

Alike == Permutations(Requests)
=============================================================================
