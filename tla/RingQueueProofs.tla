-------------------------- MODULE RingQueueProofs --------------------------
(***************************************************************************)
(* Theorems about the ring of SingleRingBuffer, for rings and limits of    *)
(* any size and queues of any length.                                      *)
(***************************************************************************)
EXTENDS RingQueue, SequenceTheorems, TLAPS

\* What the indices mean: where the queue is, when it is empty and when full.
LEMMA Indices ==
  ASSUME TypeOK
  PROVE  /\ Size \in 0..(cap - 1)
         /\ Size = 0 <=> head = tail
         /\ After(tail) = head <=> Size = cap - 1
         /\ After(tail) \in 0..(cap - 1) /\ After(head) \in 0..(cap - 1)
         /\ \A k \in 0..(Size - 1) : Slot(k) \in 0..(len - 1)
  BY DEF TypeOK, Size, After, Slot

\* A queue is a sequence of values and empty slots.
LEMMA QueueIsSequence ==
  ASSUME TypeOK
  PROVE  /\ Queue \in Seq(Values \cup {Nil})
         /\ Len(Queue) = Size
  <1>1. Size \in Nat /\ \A k \in 0..(Size - 1) : Slot(k) \in 0..(len - 1)
    BY Indices
  <1>2. \A k \in 1..Size : cache[Slot(k - 1)] \in Values \cup {Nil}
    BY <1>1 DEF TypeOK
  <1> QED
    BY <1>1, <1>2 DEF Queue

\* The same in the state after a step.
LEMMA QueueIsSequenceNext ==
  ASSUME TypeOK'
  PROVE  Queue' \in Seq(Values \cup {Nil}) /\ Len(Queue') = Size'
  <1>1. PICK h, t, c, n, s : h = head' /\ t = tail' /\ c = cap' /\ n = len' /\ s = cache'
    OBVIOUS
  <1>2. /\ c \in Nat \ {0} /\ n \in 1..c /\ h \in 0..(c - 1) /\ t \in 0..(c - 1)
        /\ s \in [0..(n - 1) -> Values \cup {Nil}]
        /\ n < c => h <= t /\ t <= n
    BY <1>1 DEF TypeOK
  <1>3. PICK z : z = IF h > t THEN c - h + t ELSE t - h
    OBVIOUS
  <1>4. z \in Nat
    BY <1>2, <1>3
  <1>5. Size' = z
    BY <1>1, <1>3 DEF Size
  <1>6. ASSUME NEW k \in 1..z
        PROVE  s[IF h + (k - 1) < c THEN h + (k - 1) ELSE h + (k - 1) - c] \in Values \cup {Nil}
    BY <1>2, <1>3, <1>6
  <1>7. Queue' = [k \in 1..z |-> s[IF h + (k - 1) < c THEN h + (k - 1)
                                                      ELSE h + (k - 1) - c]]
    BY <1>1, <1>5 DEF Queue, Slot
  <1> QED
    BY <1>4, <1>5, <1>6, <1>7

\* The initial ring is well formed.
LEMMA InitTypeOK == Init => TypeOK
  BY CapsAssumption, PowerAssumption DEF Init, TypeOK, Blank

\* Every operation keeps the ring well formed.
LEMMA StepTypeOK == TypeOK /\ [Next]_vars => TypeOK'
  <1> SUFFICES ASSUME TypeOK, [Next]_vars PROVE TypeOK'
    OBVIOUS
  <1>1. ASSUME NEW v \in Values, PutRoom(v) PROVE TypeOK'
    BY <1>1 DEF TypeOK, PutRoom, After
  <1>2. ASSUME NEW v \in Values, PutPanics(v) PROVE TypeOK'
    BY <1>2 DEF TypeOK, PutPanics, vars
  <1>3. ASSUME NEW v \in Values, PutGrow(v) PROVE TypeOK'
    <2>1. /\ Size \in 0..(cap - 1) /\ Size = cap - 1
          /\ \A k \in 0..(Size - 1) : Slot(k) \in 0..(len - 1)
      BY <1>3, Indices DEF PutGrow
    <2>2. Grown(v) \in [0..(2 * cap - 1) -> Values \cup {Nil}]
      BY <2>1 DEF Grown, TypeOK
    <2> QED
      BY <1>3, <2>1, <2>2 DEF TypeOK, PutGrow
  <1>4. CASE PopKeep
    BY <1>4 DEF TypeOK, PopKeep, Emptied, After
  <1>5. CASE PopNarrow
    BY <1>5, CapsAssumption DEF TypeOK, PopNarrow, OverMax, Blank
  <1>6. CASE PopEmpty
    BY <1>6 DEF TypeOK, PopEmpty
  <1>7. CASE UNCHANGED vars
    BY <1>7 DEF TypeOK, vars
  <1> QED
    BY <1>1, <1>2, <1>3, <1>4, <1>5, <1>6, <1>7 DEF Next, Put, Pop

\* The indices stay inside the slice that exists, also after narrow has made
\* it shorter than cap.
THEOREM TypeCorrect == Spec => []TypeOK
  BY InitTypeOK, StepTypeOK, PTL DEF Spec

-----------------------------------------------------------------------------
\* A sequence that adds one element to another one.
LEMMA IsAppend ==
  ASSUME NEW S, NEW s \in Seq(S), NEW t \in Seq(S), NEW e \in S,
         Len(t) = Len(s) + 1, t[Len(s) + 1] = e,
         \A i \in 1..Len(s) : t[i] = s[i]
  PROVE  t = Append(s, e)
  <1>1. /\ Append(s, e) \in Seq(S) /\ Len(Append(s, e)) = Len(s) + 1
        /\ \A i \in 1..(Len(s) + 1) : Append(s, e)[i] = t[i]
    OBVIOUS
  <1> QED
    BY <1>1, SeqEqual

\* A sequence that lacks the first element of another one.
LEMMA IsTail ==
  ASSUME NEW S, NEW s \in Seq(S), NEW t \in Seq(S), s # <<>>,
         Len(t) = Len(s) - 1, \A i \in 1..Len(t) : t[i] = s[i + 1]
  PROVE  t = Tail(s)
  <1>1. /\ Tail(s) \in Seq(S) /\ Len(Tail(s)) = Len(s) - 1
        /\ \A i \in 1..Len(Tail(s)) : Tail(s)[i] = s[i + 1]
    BY HeadTailProperties
  <1> QED
    BY <1>1, SeqEqual

\* Slots one after another are different slots: a write behind the queue does
\* not touch it.
LEMMA TailIsFree ==
  ASSUME TypeOK
  PROVE  \A k \in 0..(Size - 1) : Slot(k) # tail
  BY DEF TypeOK, Size, Slot

\* A write into the next slot appends to the queue.
LEMMA PutRoomAppends ==
  ASSUME TypeOK, TypeOK', NEW v \in Values, PutRoom(v)
  PROVE  Queue' = Append(Queue, v)
  <1>1. /\ Size \in Nat /\ Size' = Size + 1
        /\ Slot(Size) = tail
    BY DEF TypeOK, PutRoom, Size, Slot, After
  <1>2. \A k \in 0..(Size - 1) : Slot(k) \in 0..(len - 1) /\ Slot(k) # tail
    BY Indices, TailIsFree
  <1>3. \A k \in 0..(Size - 1) : cache'[Slot(k)] = cache[Slot(k)]
    BY <1>1, <1>2 DEF TypeOK, PutRoom
  <1>4. cache'[Slot(Size)] = v
    BY <1>1 DEF TypeOK, PutRoom
  <1>5. Queue' = [k \in 1..(Size + 1) |-> cache'[Slot(k - 1)]]
    BY <1>1 DEF Queue, Slot, PutRoom
  <1>6. /\ \A k \in 1..Size : Queue'[k] = Queue[k]
        /\ Queue'[Size + 1] = v
    BY <1>1, <1>3, <1>4, <1>5 DEF Queue
  <1>7. /\ Queue \in Seq(Values \cup {Nil}) /\ Len(Queue) = Size
        /\ Queue' \in Seq(Values \cup {Nil}) /\ Len(Queue') = Size + 1
    BY <1>1, QueueIsSequence, QueueIsSequenceNext
  <1> QED
    BY <1>1, <1>6, <1>7, IsAppend

\* expand moves the queue to the front of a larger slice and appends.
LEMMA PutGrowAppends ==
  ASSUME TypeOK, TypeOK', NEW v \in Values, PutGrow(v)
  PROVE  Queue' = Append(Queue, v)
  <1>1. cap \in Nat /\ Size \in Nat /\ Size = cap - 1
    BY Indices DEF PutGrow, TypeOK
  <1>2. Size' = Size + 1
    BY <1>1 DEF PutGrow, Size
  <1>3. Queue' = [k \in 1..(Size + 1) |-> cache'[k - 1]]
    <2>1. \A k \in 1..(Size + 1) : (0 + (k - 1) < 2 * cap) /\ 0 + (k - 1) = k - 1
      BY <1>1
    <2> QED
      BY <1>2, <2>1 DEF Queue, Slot, PutGrow
  <1>4. \A k \in 1..(Size + 1) :
           cache'[k - 1] = IF k = Size + 1 THEN v ELSE cache[Slot(k - 1)]
    <2>1. cache' = Grown(v)
      BY DEF PutGrow
    <2> QED
      BY <1>1, <2>1 DEF Grown
  <1>5. /\ \A k \in 1..Size : Queue'[k] = Queue[k]
        /\ Queue'[Size + 1] = v
    <2>1. \A k \in 1..Size : Queue[k] = cache[Slot(k - 1)]
      BY DEF Queue
    <2> QED
      BY <1>1, <1>3, <1>4, <2>1
  <1>6. /\ Queue \in Seq(Values \cup {Nil}) /\ Len(Queue) = Size
        /\ Queue' \in Seq(Values \cup {Nil}) /\ Len(Queue') = Size + 1
    BY <1>2, QueueIsSequence, QueueIsSequenceNext
  <1> QED
    BY <1>1, <1>5, <1>6, IsAppend

\* Pop returns the front of the queue and leaves the rest, whether it goes on
\* with the same slice or gives it back.
LEMMA PopTakesFront ==
  ASSUME TypeOK, TypeOK', PopKeep \/ PopNarrow
  PROVE  Queue # <<>> /\ Queue' = Tail(Queue) /\ out' = Head(Queue)
  <1>1. head # tail
    BY DEF PopKeep, PopNarrow
  <1>2. Queue \in Seq(Values \cup {Nil}) /\ Len(Queue) = Size /\ Size \in Nat /\ Size > 0
    BY <1>1, QueueIsSequence, Indices
  <1>3. Slot(0) = head
    BY DEF Slot, TypeOK
  <1>4. Queue # <<>> /\ Head(Queue) = cache[head] /\ out' = cache[head]
    BY <1>2, <1>3 DEF Queue, PopKeep, PopNarrow
  <1>5. /\ Size' = Size - 1
        /\ \A k \in 0..(Size - 2) : cache'[Slot(k)'] = cache[Slot(k + 1)]
    <2>1. CASE PopKeep
      <3>1. /\ Size' = Size - 1
            /\ \A k \in 0..(Size - 2) : Slot(k)' = Slot(k + 1) /\ Slot(k + 1) # head
        <4>1. Size' = Size - 1
          <5>1. /\ cap \in Nat /\ head \in 0..(cap - 1) /\ tail \in 0..(cap - 1)
                /\ head' = After(head) /\ tail' = tail /\ cap' = cap
            BY <2>1 DEF TypeOK, PopKeep
          <5>2. CASE head + 1 = cap
            BY <1>1, <5>1, <5>2 DEF Size, After
          <5>3. CASE head + 1 # cap
            BY <1>1, <5>1, <5>3 DEF Size, After
          <5> QED
            BY <5>2, <5>3
        <4>2. \A k \in 0..(Size - 2) : Slot(k + 1) # head
          BY DEF TypeOK, Size, Slot
        <4>3. \A k \in 0..(Size - 2) :
                (IF After(head) + k < cap THEN After(head) + k ELSE After(head) + k - cap)
                  = Slot(k + 1)
          BY <1>1 DEF TypeOK, Size, Slot, After
        <4> QED
          BY <2>1, <4>1, <4>2, <4>3 DEF PopKeep, Slot
      <3>2. \A k \in 0..(Size - 2) : Slot(k + 1) \in 0..(len - 1)
        BY <1>2, Indices
      <3> QED
        BY <2>1, <3>1, <3>2 DEF PopKeep, Emptied, TypeOK
    <2>2. CASE PopNarrow
      <3>1. Size = 1
        BY <2>2 DEF TypeOK, PopNarrow, Size, After
      <3> QED
        BY <2>2, <3>1 DEF PopNarrow, Size
    <2> QED
      BY <2>1, <2>2
  <1>6. \A k \in 1..(Size - 1) : Queue'[k] = Queue[k + 1]
    BY <1>2, <1>5 DEF Queue
  <1>7. Queue' \in Seq(Values \cup {Nil}) /\ Len(Queue') = Size - 1
    BY <1>5, QueueIsSequenceNext
  <1> QED
    BY <1>2, <1>4, <1>6, <1>7, IsTail

\* The slice has cap slots, or the maxCap of narrow.
RoomOK == len = cap \/ (len = MaxCap /\ len < cap)

\* The ring is as RingRoom says: what Put and Pop do to it, and when Put panics.
LEMMA RoomOfRing ==
  ASSUME TypeOK, RoomOK
  PROVE  /\ Full(RoomLeft, Size) <=> After(tail) = head
         /\ HasRoom(RoomLeft, Size) <=> After(tail) = head \/ tail < len
         /\ \A v : PutRoom(v) => RoomLeft' = RoomPut(RoomLeft, Size)
         /\ \A v : PutGrow(v) => RoomLeft' = RoomPut(RoomLeft, Size)
         /\ PopKeep \/ PopNarrow => RoomLeft' = RoomPop(RoomLeft, Size)
  <1> USE CapsAssumption DEF TypeOK, RoomOK, RoomLeft
  <1>1. Full(RoomLeft, Size) <=> After(tail) = head
    <2>1. RoomLeft.cap = cap
      OBVIOUS
    <2>2. Size + 1 = cap <=> After(tail) = head
      BY DEF Size, After
    <2> QED
      BY <2>1, <2>2 DEF Full
  <1>2. HasRoom(RoomLeft, Size) <=> After(tail) = head \/ tail < len
    BY <1>1 DEF HasRoom
  <1>3. ASSUME NEW v, PutRoom(v)
        PROVE  RoomLeft' = RoomPut(RoomLeft, Size)
    <2>1. ~Full(RoomLeft, Size)
      BY <1>1, <1>3 DEF PutRoom
    <2>2. len < cap => tail' = tail + 1 /\ tail # -1
      BY <1>3 DEF PutRoom, After
    <2> QED
      BY <1>3, <2>1, <2>2 DEF PutRoom, RoomPut
  <1>4. ASSUME NEW v, PutGrow(v)
        PROVE  RoomLeft' = RoomPut(RoomLeft, Size)
    BY <1>1, <1>4 DEF PutGrow, RoomPut
  <1>5. ASSUME PopKeep
        PROVE  RoomLeft' = RoomPop(RoomLeft, Size)
    <2>1. Size = 1 => After(head) = tail
      BY <1>5 DEF PopKeep, Size, After
    <2>2. ~(Size = 1 /\ cap > MaxCap)
      BY <1>5, <2>1 DEF PopKeep, OverMax
    <2> QED
      BY <1>5, <2>2 DEF PopKeep, RoomPop
  <1>6. ASSUME PopNarrow
        PROVE  RoomLeft' = RoomPop(RoomLeft, Size)
    <2>1. Size = 1 /\ cap > MaxCap
      BY <1>6 DEF PopNarrow, Size, After, OverMax
    <2> QED
      BY <1>6, <2>1 DEF PopNarrow, RoomPop
  <1> QED
    BY <1>1, <1>2, <1>3, <1>4, <1>5, <1>6

\* Only expand and narrow change how many slots there are.
LEMMA RoomStep == TypeOK /\ RoomOK /\ [Next]_vars => RoomOK'
  BY CapsAssumption DEF TypeOK, RoomOK, Next, Put, PutRoom, PutPanics, PutGrow,
     Pop, PopKeep, PopNarrow, PopEmpty, OverMax, vars

\* Every step of the ring is a step of the abstract queue, or invisible.
LEMMA StepRefines ==
  TypeOK /\ RoomOK /\ TypeOK' /\ [Next]_vars => [Fifo!Next]_<<Queue, RoomLeft, out>>
  <1> SUFFICES ASSUME TypeOK, RoomOK, TypeOK', [Next]_vars
               PROVE  [Fifo!Next]_<<Queue, RoomLeft, out>>
    OBVIOUS
  <1>0. Len(Queue) = Size
    BY QueueIsSequence
  <1>1. ASSUME NEW v \in Values, PutRoom(v) PROVE Fifo!Put(v)
    <2>1. HasRoom(RoomLeft, Size) /\ RoomLeft' = RoomPut(RoomLeft, Size)
      BY <1>1, RoomOfRing DEF PutRoom
    <2> QED
      BY <1>0, <1>1, <2>1, PutRoomAppends
         DEF Fifo!Put, PutRoom, Fifo!HasRoom, Fifo!RoomPut, Fifo!Full, HasRoom, RoomPut, Full
  <1>2. ASSUME NEW v \in Values, PutPanics(v) PROVE UNCHANGED <<Queue, RoomLeft, out>>
    BY <1>2 DEF PutPanics, vars, Queue, Size, Slot, RoomLeft
  <1>3. ASSUME NEW v \in Values, PutGrow(v) PROVE Fifo!Put(v)
    <2>1. HasRoom(RoomLeft, Size) /\ RoomLeft' = RoomPut(RoomLeft, Size)
      BY <1>3, RoomOfRing DEF PutGrow
    <2> QED
      BY <1>0, <1>3, <2>1, PutGrowAppends
         DEF Fifo!Put, PutGrow, Fifo!HasRoom, Fifo!RoomPut, Fifo!Full, HasRoom, RoomPut, Full
  <1>4. CASE PopKeep \/ PopNarrow
    <2>1. RoomLeft' = RoomPop(RoomLeft, Size)
      BY <1>4, RoomOfRing
    <2> QED
      BY <1>0, <1>4, <2>1, PopTakesFront DEF Fifo!Next, Fifo!Pop, Fifo!RoomPop, RoomPop
  <1>5. CASE PopEmpty
    <2>1. Size = 0
      BY <1>5, Indices DEF PopEmpty
    <2>2. Queue = <<>>
      BY <2>1, QueueIsSequence
    <2>3. Queue' = Queue /\ RoomLeft' = RoomLeft
      BY <1>5 DEF PopEmpty, Queue, Size, Slot, RoomLeft
    <2> QED
      BY <1>5, <2>2, <2>3 DEF PopEmpty, Fifo!Next, Fifo!PopEmpty
  <1>6. CASE UNCHANGED vars
    BY <1>6 DEF vars, Queue, Size, Slot, RoomLeft
  <1> QED
    BY <1>1, <1>2, <1>3, <1>4, <1>5, <1>6 DEF Next, Put, Pop, Fifo!Next

\* The slots are cap or maxCap, in every state.
LEMMA RoomAlways == Spec => []RoomOK
  <1>1. Init => RoomOK
    BY DEF Init, RoomOK
  <1> QED
    BY <1>1, RoomStep, TypeCorrect, PTL DEF Spec

\* The ring implements the queue: wrapping, expand and narrow are invisible but
\* for the room that narrow takes, for every capacity, limit and length.
THEOREM Refinement == Spec => RefinesFifo
  <1>1. Init => Fifo!Init
    <2> SUFFICES ASSUME Init PROVE Fifo!Init
      OBVIOUS
    <2>1. TypeOK /\ Size = 0
      BY InitTypeOK, CapsAssumption DEF Init, Size
    <2>2. RoomLeft = Fifo!NewRoom
      BY CapsAssumption DEF Init, RoomLeft, Fifo!NewRoom
    <2>3. Queue \in Seq(Values \cup {Nil}) /\ Len(Queue) = 0
      BY <2>1, QueueIsSequence
    <2>4. Queue = <<>>
      BY <2>3
    <2> QED
      BY <2>2, <2>4 DEF Init, Fifo!Init
  <1> QED
    BY <1>1, StepRefines, TypeCorrect, RoomAlways, PTL DEF Spec, RefinesFifo, Fifo!Spec

-----------------------------------------------------------------------------
\* An empty ring is not larger than maxCap: the Pop that empties it narrows it.
THEOREM IdleIsSmall == Spec => []ShrunkWhenEmpty
  <1>1. Init => ShrunkWhenEmpty
    BY CapsAssumption DEF Init, ShrunkWhenEmpty
  <1>2. TypeOK /\ TypeOK' /\ ShrunkWhenEmpty /\ [Next]_vars => ShrunkWhenEmpty'
    <2> SUFFICES ASSUME TypeOK, TypeOK', ShrunkWhenEmpty, [Next]_vars, Size' = 0
                 PROVE  len' <= MaxCap
      BY DEF ShrunkWhenEmpty
    <2>1. ASSUME NEW v \in Values, PutRoom(v) PROVE FALSE
      BY <2>1 DEF TypeOK, PutRoom, Size, After
    <2>2. ASSUME NEW v \in Values, PutGrow(v) PROVE FALSE
      <3>1. Size \in Nat
        BY Indices DEF TypeOK
      <3> QED
        BY <2>2, <3>1 DEF PutGrow, Size
    <2>3. CASE PopKeep
      <3>1. head' = tail'
        BY <2>3 DEF TypeOK, PopKeep, Size, After
      <3> QED
        BY <2>3, <3>1, CapsAssumption DEF TypeOK, PopKeep, OverMax
    <2>4. CASE PopNarrow
      BY <2>4, CapsAssumption DEF PopNarrow
    <2>5. ASSUME UNCHANGED <<head, tail, cap, len, cache>> PROVE len' <= MaxCap
      BY <2>5 DEF ShrunkWhenEmpty, Size
    <2>6. ASSUME NEW v \in Values, PutPanics(v) PROVE len' <= MaxCap
      BY <2>5, <2>6 DEF PutPanics, vars
    <2>7. CASE PopEmpty \/ UNCHANGED vars
      BY <2>5, <2>7 DEF PopEmpty, vars
    <2> QED
      BY <2>1, <2>2, <2>3, <2>4, <2>6, <2>7 DEF Next, Put, Pop
  <1> QED
    BY <1>1, <1>2, TypeCorrect, PTL DEF Spec
-----------------------------------------------------------------------------
\* The slots from head up to tail, around the end of the ring.
Occupied(i) == IF head <= tail THEN head <= i /\ i < tail ELSE head <= i \/ i < tail

\* These are the slots of the queue.
LEMMA QueueSlots ==
  ASSUME TypeOK, NEW i \in 0..(len - 1)
  PROVE  (\E k \in 1..Size : Slot(k - 1) = i) <=> Occupied(i)
  <1>1. /\ cap \in Nat /\ head \in 0..(cap - 1) /\ tail \in 0..(cap - 1)
        /\ len \in 1..cap /\ i \in 0..(cap - 1)
    BY DEF TypeOK
  <1>2. ASSUME NEW k \in 1..Size, Slot(k - 1) = i PROVE Occupied(i)
    BY <1>1, <1>2 DEF Size, Slot, Occupied
  <1>3. ASSUME Occupied(i), head <= i PROVE \E k \in 1..Size : Slot(k - 1) = i
    <2>1. i - head + 1 \in 1..Size
      BY <1>1, <1>3 DEF Size, Occupied
    <2>2. Slot((i - head + 1) - 1) = i
      BY <1>1, <1>3 DEF Slot
    <2> QED
      BY <2>1, <2>2
  <1>4. ASSUME Occupied(i), ~ (head <= i) PROVE \E k \in 1..Size : Slot(k - 1) = i
    <2>1. cap - head + i + 1 \in 1..Size
      BY <1>1, <1>4 DEF Size, Occupied
    <2>2. Slot((cap - head + i + 1) - 1) = i
      BY <1>1, <1>4 DEF Slot
    <2> QED
      BY <2>1, <2>2
  <1> QED
    BY <1>2, <1>3, <1>4

\* What is held is between the indices.
HeldOK == \A i \in 0..(len - 1) : cache[i] # Nil => Occupied(i)

LEMMA HeldStep == TypeOK /\ HeldOK /\ [Next]_vars => HeldOK'
  <1> SUFFICES ASSUME TypeOK, HeldOK, [Next]_vars, NEW i \in 0..(len' - 1), cache'[i] # Nil
               PROVE  Occupied(i)'
    BY DEF HeldOK
  <1>0. /\ cap \in Nat /\ head \in 0..(cap - 1) /\ tail \in 0..(cap - 1) /\ len \in 1..cap
        /\ cache \in [0..(len - 1) -> Values \cup {Nil}]
    BY DEF TypeOK
  <1>1. ASSUME NEW v \in Values, PutRoom(v) PROVE Occupied(i)'
    <2>1. i \in 0..(len - 1) /\ (i = tail \/ cache'[i] = cache[i])
      BY <1>0, <1>1 DEF PutRoom
    <2>2. i = tail \/ Occupied(i)
      BY <2>1 DEF HeldOK
    <2> QED
      BY <1>0, <1>1, <2>1, <2>2 DEF PutRoom, Occupied, After
  <1>2. ASSUME NEW v \in Values, PutGrow(v) PROVE Occupied(i)'
    <2>1. Size \in Nat /\ i \in 0..(2 * cap - 1)
      BY <1>0, <1>2, Indices DEF PutGrow
    <2>2. i < Size \/ i = Size
      BY <1>2, <2>1 DEF PutGrow, Grown
    <2> QED
      BY <1>2, <2>1, <2>2 DEF PutGrow, Occupied
  <1>3. CASE PopKeep
    <2>1. i \in 0..(len - 1) /\ i # head /\ cache'[i] = cache[i]
      BY <1>0, <1>3 DEF PopKeep, Emptied
    <2>2. Occupied(i)
      BY <2>1 DEF HeldOK
    <2> QED
      BY <1>0, <1>3, <2>1, <2>2 DEF PopKeep, Occupied, After
  <1>4. CASE PopNarrow
    BY <1>4, CapsAssumption DEF PopNarrow, Blank
  <1>5. ASSUME UNCHANGED <<head, tail, cap, len, cache>> PROVE Occupied(i)'
    BY <1>5 DEF HeldOK, Occupied
  <1>6. ASSUME NEW v \in Values, PutPanics(v) PROVE Occupied(i)'
    BY <1>5, <1>6 DEF PutPanics, vars
  <1>7. CASE PopEmpty \/ UNCHANGED vars
    BY <1>5, <1>7 DEF PopEmpty, vars
  <1> QED
    BY <1>1, <1>2, <1>3, <1>4, <1>6, <1>7 DEF Next, Put, Pop

\* What the ring keeps alive is what is queued: Pop clears the slot it reads,
\* and expand and narrow move nothing else into the new slice.
THEOREM HoldsOnlyQueued == Spec => []OnlyQueuedHeld
  <1>1. Init => HeldOK
    BY CapsAssumption DEF Init, HeldOK, Blank
  <1>2. ASSUME TypeOK, HeldOK PROVE OnlyQueuedHeld
    <2>1. DOMAIN cache = 0..(len - 1)
      BY <1>2 DEF TypeOK
    <2> QED
      BY <1>2, <2>1, QueueSlots DEF HeldOK, OnlyQueuedHeld
  <1> QED
    BY <1>1, <1>2, HeldStep, TypeCorrect, PTL DEF Spec

\* Indices, slots and contents fit each other, for every size and limit.
THEOREM RingConsistent == Spec => []Consistent
  <1>1. TypeOK /\ RoomOK => PanicsWithoutRoom
    BY RoomOfRing DEF PanicsWithoutRoom, TypeOK
  <1>2. TypeOK /\ RoomOK /\ OnlyQueuedHeld /\ ShrunkWhenEmpty => Consistent
    BY <1>1 DEF Consistent
  <1> QED
    BY <1>2, TypeCorrect, RoomAlways, HoldsOnlyQueued, IdleIsSmall, PTL
=============================================================================
