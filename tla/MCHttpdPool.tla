---------------------------- MODULE MCHttpdPool -----------------------------
(* Instances of HttpdPool for TLC.                                           *)
EXTENDS HttpdPool

CONSTANT k1  \* a connection

B(c, r, w) == [conns |-> c, requests |-> r, workers |-> w]

\* Two connections; workers that are idle twice, for which the ring of idle
\* workers outgrows its maximum; requests that wait twice for one worker, for
\* which the ring of waiting requests does.
MCBounds == {B(Conns, 3, 2), B({k1}, 4, 2), B({k1}, 5, 1)}
=============================================================================
