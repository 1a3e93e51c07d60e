---------------------------- MODULE MCSchedules ----------------------------
(* Instances of Schedules for TLC. *)
EXTENDS Schedules, TLC
CONSTANTS a, b, x
MCDue == [y \in Items |-> {1, 3}]
Symmetry == Permutations(Engines)
=============================================================================
