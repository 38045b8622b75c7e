----------------------------- MODULE FifoQueue -----------------------------
(***************************************************************************)
(* What ringbuffer.SingleRingBuffer promises its user: a queue of any      *)
(* length, as long as it has room.                                         *)
(***************************************************************************)
EXTENDS RingRoom, Sequences

CONSTANTS Values,  \* what is queued
          Nil      \* Pop of an empty queue

VARIABLES queue,   \* the values not popped yet, oldest first
          room,    \* see RingRoom
          out      \* result of the last Pop

Init == queue = <<>> /\ room = NewRoom /\ out = Nil

Put(v) == /\ HasRoom(room, Len(queue))
          /\ queue' = Append(queue, v)
          /\ room' = RoomPut(room, Len(queue))
          /\ out' = out

Pop == /\ queue # <<>>
       /\ queue' = Tail(queue)
       /\ room' = RoomPop(room, Len(queue))
       /\ out' = Head(queue)

PopEmpty == /\ queue = <<>>
            /\ UNCHANGED <<queue, room>>
            /\ out' = Nil

Next == (\E v \in Values : Put(v)) \/ Pop \/ PopEmpty

Spec == Init /\ [][Next]_<<queue, room, out>>
=============================================================================
