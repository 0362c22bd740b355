---------------------------- MODULE MCReminders ----------------------------
(* A small instance of Reminders for TLC. *)
EXTENDS Reminders, TLC

SameLoops == Permutations(Loops)
=============================================================================
