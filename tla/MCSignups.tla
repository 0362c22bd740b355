----------------------------- MODULE MCSignups -----------------------------
(* Small instances of Signups for TLC. *)
EXTENDS Signups, TLC

Alike == Permutations(Members) \cup Permutations(Threads)
=============================================================================
