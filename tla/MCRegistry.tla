---------------------------- MODULE MCRegistry -----------------------------
(* Instances of Registry for TLC. *)
EXTENDS Registry, TLC

PidNameSymmetry == Permutations(Pids) \cup Permutations(Names)
=============================================================================
