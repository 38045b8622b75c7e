---------------------------- MODULE MCSupervisor ----------------------------
(* Instances of Supervisor for TLC. *)
EXTENDS Supervisor

CONSTANT worker

\* One permanent worker from the start.
OneBoot == <<worker>>
=============================================================================
