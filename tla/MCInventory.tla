---------------------------- MODULE MCInventory ----------------------------
(* Small instances of Inventory for TLC. *)
EXTENDS Inventory, TLC

Alike == Permutations(Members) \cup Permutations(Threads)
             \cup Permutations(Loans) \cup Permutations(Places)
=============================================================================
