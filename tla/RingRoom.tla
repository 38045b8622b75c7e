------------------------------ MODULE RingRoom ------------------------------
(***************************************************************************)
(* What the user of a ringbuffer.SingleRingBuffer can tell of its room: a  *)
(* Put into a full ring doubles it, a Pop that empties a ring larger than  *)
(* maxCap narrows it.  narrow leaves s.cap as it is, so that a Put behind  *)
(* the last slot of the narrowed ring panics: the room ends there until    *)
(* the ring has been empty again.  RingQueue has the ring itself.          *)
(***************************************************************************)
EXTENDS Integers

CONSTANTS InitCap,   \* size of NewSingleRingBuffer
          MaxCap     \* maxSize of NewSingleRingBuffer

\* NewSingleRingBuffer returns nil for anything else.
ASSUME PowerAssumption == /\ \E k \in 0..62 : InitCap = 2^k
                          /\ \E k \in 0..62 : MaxCap = 2^k
ASSUME CapsAssumption == InitCap \in Nat \ {0} /\ MaxCap \in Nat \ {0} /\ InitCap <= MaxCap

\* s.cap, and s.tail since narrow took slots away, or -1 when all are there.
Rooms == [cap : Nat \ {0}, tail : Nat \cup {-1}]

NewRoom == [cap |-> InitCap, tail |-> -1]

\* In a ring of n values the next slot behind the tail is the head.
Full(r, n) == n + 1 = r.cap

\* Put finds a slot, or makes some.
HasRoom(r, n) == Full(r, n) \/ r.tail < MaxCap

RoomPut(r, n) ==
  IF Full(r, n) THEN [cap |-> 2 * r.cap, tail |-> -1]
  ELSE [r EXCEPT !.tail = IF @ = -1 THEN @ ELSE @ + 1]

RoomPop(r, n) == [r EXCEPT !.tail = IF n = 1 /\ r.cap > MaxCap THEN 0 ELSE @]
=============================================================================
