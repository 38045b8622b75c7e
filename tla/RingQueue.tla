----------------------------- MODULE RingQueue -----------------------------
(***************************************************************************)
(* ringbuffer.SingleRingBuffer: a queue in a slice that is used as a ring, *)
(* doubled when it is full and given back when it is empty and larger than *)
(* maxCap.  It is the stash (Context.msgQ) of every actor, made with       *)
(* NewSingleRingBuffer(4, 32).                                             *)
(*                                                                         *)
(* s.cap and len(s.cache) are two things: expand sets both, narrow only    *)
(* replaces the slice.  The slots are numbered from 0 as in the code; as   *)
(* cap is a power of two, (i + 1) & (cap - 1) is the next slot of a ring   *)
(* of cap slots.                                                           *)
(***************************************************************************)
EXTENDS RingRoom, Sequences

CONSTANTS Values,    \* what is queued
          Nil,       \* an empty slot; the result of Pop on an empty queue
          MaxLen     \* bound: values in the queue

ASSUME NilAssumption == Nil \notin Values

VARIABLES head, tail,   \* next slot to read, next slot to write
          cap,          \* s.cap, the size the indices wrap at
          len,          \* len(s.cache), the slots that exist
          cache,        \* s.cache
          out           \* what the last Pop returned

vars == <<head, tail, cap, len, cache, out>>

Blank(n) == [i \in 0..(n - 1) |-> Nil]

Init == /\ head = 0 /\ tail = 0
        /\ cap = InitCap /\ len = InitCap
        /\ cache = Blank(InitCap)
        /\ out = Nil

\* (i + 1) & (cap - 1)
After(i) == IF i + 1 = cap THEN 0 ELSE i + 1

Size == IF head > tail THEN cap - head + tail ELSE tail - head

\* The slot of the k-th value from the front, k = 0, 1, ...
Slot(k) == IF head + k < cap THEN head + k ELSE head + k - cap

-----------------------------------------------------------------------------
PutRoom(v) == /\ After(tail) # head
              /\ tail < len
              /\ cache' = [cache EXCEPT ![tail] = v]
              /\ tail' = After(tail)
              /\ UNCHANGED <<head, cap, len, out>>

\* cache[tail] is out of range: the run-time panics before anything changes.
PutPanics(v) == /\ After(tail) # head
                /\ tail >= len
                /\ UNCHANGED vars

\* Mutant: expand copies only the part behind head.
GrownHalf(v) == [i \in 0..(2 * cap - 1) |->
                   IF i < Size /\ head + i < cap THEN cache[head + i]
                   ELSE IF i = Size THEN v ELSE Nil]

\* The slice after expand and the write: the old values from slot 0 on.
Grown(v) == [i \in 0..(2 * cap - 1) |->
               IF i < Size THEN cache[Slot(i)] ELSE IF i = Size THEN v ELSE Nil]

PutGrow(v) == /\ After(tail) = head
              /\ cache' = Grown(v)
              /\ head' = 0
              /\ tail' = Size + 1
              /\ cap' = 2 * cap /\ len' = 2 * cap
              /\ out' = out

Put(v) == Size < MaxLen /\ (PutRoom(v) \/ PutPanics(v) \/ PutGrow(v))

\* Mutant: the slot keeps its value.
Cleared == cache

\* s.cache[s.head] = nil
Emptied == [cache EXCEPT ![head] = Nil]

\* The queue has outgrown maxCap.
OverMax == cap > MaxCap

PopKeep == /\ head # tail
           /\ ~(After(head) = tail /\ OverMax)
           /\ cache' = Emptied
           /\ head' = After(head)
           /\ out' = cache[head]
           /\ UNCHANGED <<tail, cap, len>>

\* Pop of the last value: narrow makes a slice of maxCap slots; cap stays.
PopNarrow == /\ head # tail
             /\ After(head) = tail /\ OverMax
             /\ cache' = Blank(MaxCap)
             /\ len' = MaxCap
             /\ head' = 0 /\ tail' = 0
             /\ out' = cache[head]
             /\ cap' = cap

PopEmpty == /\ head = tail
            /\ out' = Nil
            /\ UNCHANGED <<head, tail, cap, len, cache>>

Pop == PopKeep \/ PopNarrow \/ PopEmpty

Next == (\E v \in Values : Put(v)) \/ Pop

Spec == Init /\ [][Next]_vars
-----------------------------------------------------------------------------
(* Properties *)

\* Type invariant.  After narrow there are fewer slots than cap says, and the
\* queue then does not wrap and stays inside them: no Pop reads a slot that
\* does not exist.
TypeOK == /\ cap \in Nat \ {0} /\ len \in 1..cap
          /\ head \in 0..(cap - 1) /\ tail \in 0..(cap - 1)
          /\ cache \in [0..(len - 1) -> Values \cup {Nil}]
          /\ out \in Values \cup {Nil}
          /\ len < cap => head <= tail /\ tail <= len

Queue == [k \in 1..Size |-> cache[Slot(k - 1)]]

\* What is left of the ring for its user: see RingRoom.
RoomLeft == [cap |-> cap, tail |-> IF len < cap THEN tail ELSE -1]

\* The ring is a FIFO queue through wrapping, growing and shrinking: every Pop
\* returns the oldest value not popped, and expand neither loses nor reorders
\* anything, and a Put that FifoQueue has no room for puts nothing.
Fifo == INSTANCE FifoQueue WITH queue <- Queue, room <- RoomLeft
RefinesFifo == Fifo!Spec

\* Slots outside the queue hold nothing, so the ring keeps no popped value alive
\* (Pop: "gc"), wherever expand and the wrapping have moved the queue.
OnlyQueuedHeld == \A i \in DOMAIN cache :
                    cache[i] # Nil => \E k \in 1..Size : Slot(k - 1) = i

\* An empty queue occupies at most maxCap slots, however long it has been
\* (maxCap: the limit that is looked at when the queue is idle).
ShrunkWhenEmpty == Size = 0 => len <= MaxCap

\* A Put panics exactly when RingRoom says that there is no room.
PanicsWithoutRoom == After(tail) # head /\ tail >= len <=> ~HasRoom(RoomLeft, Size)

\* The indices, the slots and what they hold fit each other at every size.
Consistent == TypeOK /\ OnlyQueuedHeld /\ ShrunkWhenEmpty /\ PanicsWithoutRoom
=============================================================================
