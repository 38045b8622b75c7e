---------------------------- MODULE MCCallReply ----------------------------
(* Instances of CallReply for TLC. *)
EXTENDS CallReply, TLC

ActorSymmetry == Permutations(Actors)
=============================================================================
