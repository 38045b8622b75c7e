---------------------------- MODULE MCNodeLink ----------------------------
(* Instances of NodeLink for TLC: two links and no traffic, to connect from   *)
(* both ends; one link with casts, with pings, with calls.                    *)
EXTENDS NodeLink

B(l, c, k, t, f, g) ==
  [links |-> l, casts |-> c, calls |-> k, ticks |-> t, faults |-> f, getters |-> g]

\* Two links, also with casts; one link with casts or a process that looks the
\* other node up; calls on a link that breaks or falls silent; pings on one that
\* falls silent.
MCBounds == {B(2, 0, 0, FALSE, {"broken"}, {}), B(2, 2, 0, FALSE, {}, {}),
             B(1, 2, 0, FALSE, {"broken"}, {}), B(1, 2, 0, FALSE, {}, Getters),
             B(1, 0, 0, FALSE, {"broken"}, Getters),
             B(1, 0, 1, FALSE, {"broken", "silent"}, {}), B(1, 1, 0, TRUE, {"silent"}, {})}
===========================================================================
