--------------------------- MODULE MailboxProofs ---------------------------
(***************************************************************************)
(* Proofs about Mailbox, for any number of senders, any capacity of the    *)
(* channel and of the selfSender's queue, and any number of messages:      *)
(* type correctness, the refinement of FifoMailbox, and SenderFifo.        *)
(***************************************************************************)
EXTENDS Mailbox, TLAPS

Ops == {"user", "exit"}

USE DEF stash

\* A message is held exactly while a handler runs or the actor is exiting.
CurOK == cur \in Msgs <=> pc \notin {"idle", "dead"}

\* CastSelf keeps its argument until it has put it away.
PendOK == pc \in {"putting", "relaying"} => pend \in Msgs /\ pend.from = Self

\* Only what the actor casts to itself takes the detour.
RelayOK == \A i \in 1..Len(relay) : relay[i] # Foreign => relay[i].from = Self

\* Slots are missing only from a stash that has outgrown its maximum.
Outgrew == room.tail # -1 => Outgrown

\* Type correctness needs the facts about cur, pend and relay.
Base == TypeOK /\ CurOK /\ PendOK /\ RelayOK

\* The numbers of a sender that wait or were taken have been issued.
Issued == /\ \A i \in 1..Len(Queue) :
                Queue[i].from \in Senders => Queue[i].n <= sent[Queue[i].from]
          /\ \A s \in Senders : \A k \in done[s] : k <= sent[s]

\* SenderFifo alone is not inductive: a fresh number is larger than those that
\* wait or were taken only because those have been issued before.
Fifo == SenderFifo /\ Issued

-----------------------------------------------------------------------------
(* Facts about sequences *)

\* Moving the head of one queue to the end of the other changes nothing for
\* the concatenation: the stash of a call is invisible.
LEMMA MoveHead ==
  ASSUME NEW S, NEW a \in Seq(S), NEW b \in Seq(S), b # <<>>
  PROVE  Append(a, Head(b)) \o Tail(b) = a \o b
  OBVIOUS

\* What arrives in the channel arrives at the end of the whole queue.
LEMMA ConcatAppend ==
  ASSUME NEW S, NEW a \in Seq(S), NEW b \in Seq(S), NEW e \in S
  PROVE  a \o Append(b, e) = Append(a \o b, e)
  OBVIOUS

\* What is taken from the stash is the head of the whole queue.
LEMMA TailConcat ==
  ASSUME NEW S, NEW a \in Seq(S), NEW b \in Seq(S), a # <<>>
  PROVE  /\ Tail(a \o b) = Tail(a) \o b
         /\ Head(a \o b) = Head(a)
         /\ a \o b # <<>>
  OBVIOUS

\* What is lost behind the messages of the stash is one element of the queue.
LEMMA LoseMiddle ==
  ASSUME NEW S, NEW a \in Seq(S), NEW b \in Seq(S), b # <<>>
  PROVE  /\ Len(a) + 1 \in 1..Len(a \o b)
         /\ a \o Tail(b) = Abs!Without(a \o b, Len(a) + 1)
<1> DEFINE q == a \o b
           t == a \o Tail(b)
           w == Abs!Without(q, Len(a) + 1)
<1>1. /\ Len(a) \in Nat /\ Len(b) \in Nat \ {0} /\ Tail(b) \in Seq(S)
      /\ Len(Tail(b)) = Len(b) - 1
      /\ \A k \in 1..(Len(b) - 1) : Tail(b)[k] = b[k + 1]
  OBVIOUS
<1>2. /\ Len(q) = Len(a) + Len(b)
      /\ \A k \in 1..Len(q) : q[k] = IF k <= Len(a) THEN a[k] ELSE b[k - Len(a)]
  BY <1>1
<1>3. /\ t \in Seq(S) /\ Len(t) = Len(a) + Len(Tail(b))
      /\ \A k \in 1..Len(t) : t[k] = IF k <= Len(a) THEN a[k] ELSE Tail(b)[k - Len(a)]
  BY <1>1
<1> HIDE DEF q, t
<1>4. w = [k \in 1..(Len(q) - 1) |-> IF k < Len(a) + 1 THEN q[k] ELSE q[k + 1]]
  BY DEF w, Abs!Without
<1>5. \A k \in 1..(Len(q) - 1) : t[k] = w[k]
  <2>1. ASSUME NEW k \in 1..(Len(q) - 1) PROVE t[k] = w[k]
    <3>1. w[k] = IF k < Len(a) + 1 THEN q[k] ELSE q[k + 1]
      BY <1>4
    <3>2. CASE k <= Len(a)
      BY <1>1, <1>2, <1>3, <3>1, <3>2
    <3>3. CASE k > Len(a)
      <4>1. k - Len(a) \in 1..(Len(b) - 1) /\ k + 1 \in 1..Len(q) /\ k \in 1..Len(t)
        BY <1>1, <1>2, <1>3, <3>3
      <4>2. w[k] = b[k + 1 - Len(a)]
        BY <1>1, <1>2, <3>1, <3>3, <4>1
      <4>3. t[k] = b[k - Len(a) + 1]
        BY <1>1, <1>3, <3>3, <4>1
      <4> QED
        BY <1>1, <4>1, <4>2, <4>3
    <3> QED
      BY <1>1, <3>2, <3>3
  <2> QED
    BY <2>1
<1>6. t = [k \in 1..(Len(q) - 1) |-> t[k]]
  BY <1>1, <1>2, <1>3
<1>7. t = w
  BY <1>4, <1>5, <1>6
<1> QED
  BY <1>1, <1>2, <1>7 DEF q, t, w

-----------------------------------------------------------------------------
(* Type correctness *)

LEMMA FreshType ==
  ASSUME TypeOK, NEW f \in Origins, NEW op \in Ops, sent[f] < MaxSend
  PROVE  Fresh(f, op) \in Msgs /\ Fresh(f, op).from = f
  BY MaxSendAssumption DEF TypeOK, Fresh, Msgs, Ops

LEMMA DeliverType ==
  ASSUME TypeOK, NEW m \in Msgs, Deliver(m)
  PROVE  ch' \in Seq(Msgs) /\ Len(ch') <= ChanCap
  BY CapAssumption DEF TypeOK, Deliver

LEMMA BaseInit == Init => Base
<1> USE CapsAssumption, SelfAssumption, CapAssumption, MaxSendAssumption, NoMsgAssumption
<1>1. NewRoom \in Rooms
  BY DEF NewRoom, Rooms
<1> QED
  BY <1>1 DEF Init, Base, TypeOK, CurOK, PendOK, RelayOK, PCs, Origins

\* What Put and Pop leave is a room again.
LEMMA RoomType ==
  ASSUME NEW r \in Rooms, NEW n \in Nat
  PROVE  RoomPut(r, n) \in Rooms /\ RoomPop(r, n) \in Rooms
  BY CapsAssumption DEF Rooms, RoomPut, RoomPop, Full

\* The stash has outgrown its maximum for good, and only when more than half
\* of it was full.
LEMMA OutgrownStays ==
  ASSUME NEW r \in Rooms, NEW n \in Nat
  PROVE  /\ RoomPop(r, n).cap = r.cap
         /\ r.cap > MaxCap => RoomPut(r, n).cap > MaxCap
         /\ RoomPut(r, n).cap > MaxCap => r.cap > MaxCap \/ 2 * (n + 1) > MaxCap
  BY CapsAssumption DEF Rooms, RoomPut, RoomPop, Full

LEMMA BaseStep == Base /\ [Next]_vars => Base'
<1> SUFFICES ASSUME Base, [Next]_vars PROVE Base'
  OBVIOUS
<1> USE CapAssumption, MaxSendAssumption, NoMsgAssumption
    DEF Base, TypeOK, CurOK, PendOK, RelayOK, PCs, stash
<1>1. ASSUME NEW s \in Senders, NEW op \in Ops, Cast(s, op) PROVE Base'
  <2>1. Fresh(s, op) \in Msgs
    BY <1>1, FreshType DEF Cast, Origins
  <2>2. ch' \in Seq(Msgs) /\ Len(ch') <= ChanCap
    BY <1>1, <2>1, DeliverType DEF Cast
  <2>3. sent[s] \in 0..MaxSend /\ sent[s] < MaxSend
    BY <1>1 DEF Cast, Origins
  <2>4. sent' \in [Origins -> 0..MaxSend]
    <3>1. sent[s] + 1 \in 0..MaxSend
      BY <2>3
    <3> QED
      BY <1>1, <3>1 DEF Cast
  <2> QED
    BY <1>1, <2>2, <2>4 DEF Cast
<1>2. CASE TakeStashed
  <2>1. Head(msgQ) \in Msgs /\ Tail(msgQ) \in Seq(Msgs) /\ room' \in Rooms
    BY <1>2, RoomType DEF TakeStashed
  <2> QED
    BY <1>2, <2>1 DEF TakeStashed, Dispatch, Msgs
<1>3. CASE TakeReceived
  <2>1. Head(ch) \in Msgs /\ Tail(ch) \in Seq(Msgs) /\ Len(Tail(ch)) <= ChanCap
    BY <1>3 DEF TakeReceived
  <2> QED
    BY <1>3, <2>1 DEF TakeReceived, Dispatch, Msgs
<1>4. ASSUME NEW op \in Ops, CastSelf(op) PROVE Base'
  <2>1. Fresh(Self, op) \in Msgs /\ Fresh(Self, op).from = Self
    BY <1>4, FreshType DEF CastSelf, Origins
  <2> QED
    BY <1>4, <2>1 DEF CastSelf, Origins
<1>5. CASE PutSelf
  <2>1. Len(msgQ) \in Nat /\ room' = RoomPut(room, Len(msgQ))
    BY <1>5 DEF PutSelf, PutStash
  <2>2. room' \in Rooms
    BY <2>1, RoomType
  <2>3. pend \in Msgs /\ msgQ' \in Seq(Msgs)
    BY <1>5 DEF PutSelf, PutStash
  <2> QED
    BY <1>5, <2>2, <2>3 DEF PutSelf, PutStash
<1>6. CASE RelaySelf
  BY <1>6 DEF RelaySelf
<1>7. CASE Forward
  <2>1. /\ Head(relay) \in Msgs
        /\ Tail(relay) \in Seq(Msgs \cup {Foreign})
        /\ Len(Tail(relay)) <= RelayCap
        /\ \A i \in 1..Len(Tail(relay)) :
              Tail(relay)[i] # Foreign => Tail(relay)[i].from = Self
    BY <1>7 DEF Forward
  <2>2. ch' \in Seq(Msgs) /\ Len(ch') <= ChanCap
    BY <1>7, <2>1, DeliverType DEF Forward
  <2>3. RelayOK'
    BY <1>7, <2>1 DEF Forward
  <2>4. relay' \in Seq(Msgs \cup {Foreign}) /\ Len(relay') <= RelayCap
    BY <1>7, <2>1 DEF Forward
  <2> QED
    BY <1>7, <2>2, <2>3, <2>4 DEF Forward
<1>8. CASE BeginCall
  BY <1>8 DEF BeginCall
<1>9. CASE Stash
  <2>1. Head(ch) \in Msgs /\ Tail(ch) \in Seq(Msgs) /\ Len(Tail(ch)) <= ChanCap
    BY <1>9 DEF Stash
  <2>2. room' \in Rooms
    BY <1>9, RoomType DEF Stash, PutStash
  <2> QED
    BY <1>9, <2>1, <2>2 DEF Stash, PutStash
<1>10. CASE EndCall
  BY <1>10 DEF EndCall
<1>11. CASE Finish
  BY <1>11 DEF Finish
<1>12. CASE Crash
  BY <1>12 DEF Crash
<1>13. CASE CloseChan
  BY <1>13 DEF CloseChan
<1>14. CASE PutSelfPanics
  <2>1. pend \in Msgs
    BY <1>14 DEF PutSelfPanics
  <2>2. lost' \in [Origins -> SUBSET (1..MaxSend)]
    BY <1>14, <2>1 DEF PutSelfPanics, PutStashPanics, Msgs
  <2> QED
    BY <1>14, <2>2 DEF PutSelfPanics, PutStashPanics
<1>15. CASE StashPanics
  <2>1. Head(ch) \in Msgs /\ Tail(ch) \in Seq(Msgs) /\ Len(Tail(ch)) <= ChanCap
    BY <1>15 DEF StashPanics
  <2>2. lost' \in [Origins -> SUBSET (1..MaxSend)]
    BY <1>15, <2>1 DEF StashPanics, PutStashPanics, Msgs
  <2> QED
    BY <1>15, <2>1, <2>2 DEF StashPanics, PutStashPanics
<1>16. CASE ForeignCast
  BY <1>16 DEF ForeignCast
<1>17. CASE ForwardForeign
  <2>1. /\ Tail(relay) \in Seq(Msgs \cup {Foreign})
        /\ Len(Tail(relay)) <= RelayCap
        /\ \A i \in 1..Len(Tail(relay)) :
              Tail(relay)[i] # Foreign => Tail(relay)[i].from = Self
    BY <1>17 DEF ForwardForeign
  <2> QED
    BY <1>17, <2>1 DEF ForwardForeign
<1>18. CASE UNCHANGED vars
  BY <1>18 DEF vars
<1> QED
  BY <1>1, <1>2, <1>3, <1>4, <1>5, <1>6, <1>7, <1>8, <1>9, <1>10, <1>11,
     <1>12, <1>13, <1>14, <1>15, <1>16, <1>17, <1>18 DEF Next, Ops

\* Channel and relay never exceed their capacities and every variable holds
\* what the code keeps there, in every reachable state.
THEOREM TypeCorrect == Spec => []TypeOK
<1>1. Spec => []Base
  BY BaseInit, BaseStep, PTL DEF Spec
<1>2. Base => TypeOK
  BY DEF Base
<1> QED
  BY <1>1, <1>2, PTL
-----------------------------------------------------------------------------
(* The queue as a whole *)

LEMMA QueueType == Base => /\ Queue \in Seq(Msgs)
                           /\ msgQ \o Putting \in Seq(Msgs)
  BY DEF Base, TypeOK, PendOK, Queue, Putting

\* A message put into the channel is accepted at the end of the whole queue.
LEMMA AcceptChannel ==
  ASSUME Base, NEW m \in Msgs, ch' = Append(ch, m),
         UNCHANGED <<msgQ, pc, pend>>
  PROVE  Queue' = Append(Queue, m)
<1>1. ch \in Seq(Msgs) /\ msgQ \o Putting \in Seq(Msgs)
  BY QueueType DEF Base, TypeOK
<1>2. (msgQ \o Putting)' = msgQ \o Putting
  BY DEF Putting
<1> QED
  BY <1>1, <1>2, ConcatAppend DEF Queue

\* The loop takes the head of the whole queue, from wherever it is.
LEMMA TakeHead ==
  ASSUME Base, TakeStashed \/ TakeReceived
  PROVE  /\ Queue # <<>>
         /\ Dispatch(Head(Queue))
         /\ Queue' = Tail(Queue)
<1>1. /\ Putting = <<>> /\ Putting' = <<>>
      /\ ch \in Seq(Msgs) /\ msgQ \in Seq(Msgs)
  BY DEF Base, TypeOK, Putting, TakeStashed, TakeReceived, Dispatch
<1>2. Queue = msgQ \o ch /\ Queue' = msgQ' \o ch'
  <2>1. msgQ' \in Seq(Msgs)
    <3>1. CASE TakeStashed
      BY <1>1, <3>1 DEF TakeStashed
    <3>2. CASE TakeReceived
      BY <1>1, <3>2 DEF TakeReceived
    <3> QED
      BY <3>1, <3>2
  <2> QED
    BY <1>1, <2>1 DEF Queue
<1>3. CASE TakeStashed
  BY <1>1, <1>2, <1>3, TailConcat DEF TakeStashed
<1>4. CASE TakeReceived
  BY <1>1, <1>2, <1>4 DEF TakeReceived
<1> QED
  BY <1>3, <1>4

\* Moving a message from the channel into the stash is invisible.
LEMMA StashInvisible ==
  ASSUME Base, Stash
  PROVE  Queue' = Queue
<1>1. /\ Putting = <<>> /\ Putting' = <<>>
      /\ ch \in Seq(Msgs) /\ msgQ \in Seq(Msgs)
      /\ msgQ' \in Seq(Msgs) /\ ch # <<>>
      /\ msgQ' = Append(msgQ, Head(ch)) /\ ch' = Tail(ch)
  BY DEF Base, TypeOK, Putting, Stash, PutStash
<1> QED
  BY <1>1, MoveHead DEF Queue

\* CastSelf accepts its message when it sees the empty channel; that other
\* goroutines fill the channel before the message is in the stash does not
\* let them overtake it.
LEMMA CastSelfAccepts ==
  ASSUME Base, NEW op \in Ops, CastSelf(op)
  PROVE  Queue' = IF ch = <<>> THEN Append(Queue, Fresh(Self, op)) ELSE Queue
<1>1. Fresh(Self, op) \in Msgs /\ ch \in Seq(Msgs) /\ msgQ \in Seq(Msgs)
  BY FreshType DEF CastSelf, Origins, Base, TypeOK
<1> QED
  BY <1>1 DEF CastSelf, Queue, Putting

LEMMA PutSelfInvisible ==
  ASSUME Base, PutSelf
  PROVE  Queue' = Queue
<1>1. pend \in Msgs /\ ch \in Seq(Msgs) /\ msgQ \in Seq(Msgs)
  BY DEF PutSelf, Base, TypeOK, PendOK
<1> QED
  BY <1>1 DEF PutSelf, PutStash, Queue, Putting

\* A panic of Put takes one message out of the queue, behind those that were
\* in the stash before.
LEMMA PanicLoses ==
  ASSUME Base, PutSelfPanics \/ StashPanics
  PROVE  LET i == Len(msgQ) + 1
             m == IF PutSelfPanics THEN pend ELSE Head(ch)
         IN  /\ i \in 1..Len(Queue) /\ Queue[i] = m /\ m \in Msgs
             /\ Queue' = Abs!Without(Queue, i)
             /\ PutStashPanics(m)
<1>0. ch \in Seq(Msgs) /\ msgQ \in Seq(Msgs)
  BY DEF Base, TypeOK
<1>1. CASE PutSelfPanics
  <2>1. pend \in Msgs /\ Putting = <<pend>> /\ Putting' = <<>> /\ ch' = ch /\ msgQ' = msgQ
    BY <1>1 DEF PutSelfPanics, PutStashPanics, Base, PendOK, Putting
  <2>2. PICK b \in Seq(Msgs) : b = <<pend>> \o ch
    <3>1. <<pend>> \in Seq(Msgs)
      BY <2>1
    <3>2. <<pend>> \o ch \in Seq(Msgs)
      BY <1>0, <3>1
    <3> QED
      BY <3>2
  <2>3. b # <<>> /\ Head(b) = pend /\ Tail(b) = ch
    BY <1>0, <2>1, <2>2
  <2>4. Queue = msgQ \o b
    BY <1>0, <2>1, <2>2 DEF Queue
  <2>5. Queue' = msgQ \o ch
    BY <1>0, <2>1 DEF Queue
  <2>6. Len(msgQ) + 1 \in 1..Len(Queue) /\ Queue' = Abs!Without(Queue, Len(msgQ) + 1)
    BY <1>0, <2>2, <2>3, <2>4, <2>5, LoseMiddle
  <2>7. Queue[Len(msgQ) + 1] = pend
    BY <1>0, <2>2, <2>3, <2>4
  <2> QED
    BY <1>1, <2>1, <2>6, <2>7 DEF PutSelfPanics
<1>2. CASE StashPanics /\ ~PutSelfPanics
  <2>1. /\ Putting = <<>> /\ Putting' = <<>> /\ ch # <<>> /\ Head(ch) \in Msgs
        /\ ch' = Tail(ch) /\ msgQ' = msgQ
    BY <1>0, <1>2 DEF StashPanics, PutStashPanics, Putting
  <2>2. Queue = msgQ \o ch /\ Queue' = msgQ \o Tail(ch)
    BY <1>0, <2>1 DEF Queue
  <2>3. Len(msgQ) + 1 \in 1..Len(Queue) /\ Queue' = Abs!Without(Queue, Len(msgQ) + 1)
    BY <1>0, <2>1, <2>2, LoseMiddle
  <2>4. Queue[Len(msgQ) + 1] = Head(ch)
    BY <1>0, <2>1, <2>2
  <2> QED
    BY <1>2, <2>1, <2>3, <2>4 DEF StashPanics
<1> QED
  BY <1>1, <1>2

\* That needs a stash which has outgrown its maximum.
LEMMA PanicNeedsOutgrown ==
  ASSUME Base, Outgrew, NEW m, PutStashPanics(m)
  PROVE  Outgrown /\ Outgrown' = Outgrown
  BY CapsAssumption DEF Outgrew, PutStashPanics, HasRoom, Base, TypeOK, Rooms, Outgrown

\* A Put makes it outgrow its maximum only if more than half of that waits.
LEMMA PutMayOutgrow ==
  ASSUME Base, PutSelf \/ Stash
  PROVE  Outgrown' = Outgrown \/ (Outgrown' /\ 2 * Len(Queue) > MaxCap)
<1>1. /\ Len(msgQ) \in Nat /\ room \in Rooms /\ room' = RoomPut(room, Len(msgQ))
  BY DEF Base, TypeOK, PutSelf, Stash, PutStash
<1>2. Len(Queue) \in Nat /\ Len(Queue) >= Len(msgQ) + 1
  <2>1. ch \in Seq(Msgs) /\ msgQ \in Seq(Msgs)
    BY DEF Base, TypeOK
  <2>2. CASE PutSelf
    BY <2>1, <2>2 DEF Base, PendOK, PutSelf, Queue, Putting
  <2>3. CASE Stash
    BY <2>1, <2>3 DEF Stash, Queue, Putting
  <2> QED
    BY <2>2, <2>3
<1>3. /\ room.cap > MaxCap => room'.cap > MaxCap
      /\ room'.cap > MaxCap => room.cap > MaxCap \/ 2 * (Len(msgQ) + 1) > MaxCap
  BY <1>1, OutgrownStays
<1>4. 2 * (Len(msgQ) + 1) > MaxCap => 2 * Len(Queue) > MaxCap
  BY <1>1, <1>2, CapsAssumption
<1> QED
  BY <1>3, <1>4 DEF Outgrown

-----------------------------------------------------------------------------
(* Refinement *)

LEMMA OutgrewInit == Init => Outgrew
  BY DEF Init, NewRoom, Outgrew

LEMMA OutgrewStep == Base /\ Outgrew /\ [Next]_vars => Outgrew'
<1> SUFFICES ASSUME Base, Outgrew, [Next]_vars PROVE Outgrew'
  OBVIOUS
<1>0. room \in Rooms /\ Len(msgQ) \in Nat
  BY DEF Base, TypeOK
<1>1. CASE TakeStashed
  <2>1. room' = RoomPop(room, Len(msgQ))
    BY <1>1 DEF TakeStashed
  <2> QED
    BY <1>0, <2>1, CapsAssumption DEF RoomPop, Outgrew, Outgrown, Rooms
<1>2. CASE PutSelf \/ Stash
  <2>1. room' = RoomPut(room, Len(msgQ))
    BY <1>2 DEF PutSelf, Stash, PutStash
  <2> QED
    BY <1>0, <2>1, CapsAssumption DEF RoomPut, Outgrew, Outgrown, Rooms
<1>3. CASE UNCHANGED room
  BY <1>3 DEF Outgrew, Outgrown
<1> QED
  BY <1>1, <1>2, <1>3
     DEF Next, Cast, TakeReceived, CastSelf, PutSelfPanics, RelaySelf, Forward, ForeignCast,
         ForwardForeign, BeginCall, StashPanics, PutStashPanics, EndCall, Finish, Crash,
         CloseChan, vars

LEMMA RefineInit == Init => Abs!Init
  BY CapsAssumption DEF Init, NewRoom, Abs!Init, Queue, Putting, Outgrown

LEMMA RefineStep == Base /\ Outgrew /\ [Next]_vars => [Abs!Next]_(Abs!vars)
<1> SUFFICES ASSUME Base, Outgrew, [Next]_vars PROVE [Abs!Next]_(Abs!vars)
  OBVIOUS
<1> USE DEF Abs!vars, Outgrown
<1>1. ASSUME NEW s \in Senders, NEW op \in Ops, Cast(s, op)
      PROVE  [Abs!Next]_(Abs!vars)
  <2>1. Fresh(s, op) \in Msgs
    BY <1>1, FreshType DEF Cast, Origins, Base
  <2>2. CASE pc = "dead"
    BY <1>1, <2>2 DEF Cast, Queue, Putting
  <2>3. CASE pc # "dead"
    <3>1. Queue' = Append(Queue, Fresh(s, op))
      BY <1>1, <2>1, <2>3, AcceptChannel DEF Cast, Deliver
    <3> QED
      BY <1>1, <2>1, <2>3, <3>1 DEF Cast, Abs!Next, Abs!Accept
  <2> QED
    BY <2>2, <2>3
<1>2. CASE TakeStashed \/ TakeReceived
  <2>1. Queue # <<>> /\ Dispatch(Head(Queue)) /\ Queue' = Tail(Queue)
    BY <1>2, TakeHead
  <2>2. pc = "idle" /\ cur = NoMsg /\ pc' # "dead"
    BY <1>2, <2>1 DEF TakeStashed, TakeReceived, Base, TypeOK, CurOK, Dispatch
  <2>3. room'.cap = room.cap
    BY <1>2, OutgrownStays DEF TakeStashed, TakeReceived, Base, TypeOK
  <2> QED
    BY <2>1, <2>2, <2>3 DEF Dispatch, Abs!Next, Abs!Take
<1>3. ASSUME NEW op \in Ops, CastSelf(op) PROVE [Abs!Next]_(Abs!vars)
  <2>1. Fresh(Self, op) \in Msgs
    BY <1>3, FreshType DEF CastSelf, Origins, Base
  <2>2. pc = "handling" /\ pc' # "dead" /\ cur' = cur /\ room' = room
    BY <1>3 DEF CastSelf
  <2>3. Queue' = Queue \/ Queue' = Append(Queue, Fresh(Self, op))
    BY <1>3, CastSelfAccepts
  <2> QED
    BY <2>1, <2>2, <2>3 DEF Abs!Next, Abs!Accept
<1>4. CASE PutSelf
  <2>1. Queue' = Queue /\ cur' = cur /\ pc # "dead" /\ pc' # "dead"
    BY <1>4, PutSelfInvisible DEF PutSelf
  <2> QED
    BY <1>4, <2>1, PutMayOutgrow DEF Abs!Next, Abs!Outgrow
<1>5. CASE RelaySelf
  BY <1>5 DEF RelaySelf, Queue, Putting
<1>6. CASE Forward
  <2>1. CASE pc = "dead"
    BY <1>6, <2>1 DEF Forward, Queue, Putting
  <2>2. CASE pc # "dead"
    <3>1. Head(relay) \in Msgs
      BY <1>6 DEF Forward, Base, TypeOK
    <3>2. Queue' = Append(Queue, Head(relay))
      BY <1>6, <2>2, <3>1, AcceptChannel DEF Forward, Deliver
    <3> QED
      BY <1>6, <2>2, <3>1, <3>2 DEF Forward, Abs!Next, Abs!Accept
  <2> QED
    BY <2>1, <2>2
<1>7. CASE BeginCall
  BY <1>7 DEF BeginCall, Queue, Putting
<1>8. CASE Stash
  <2>1. Queue' = Queue /\ cur' = cur /\ pc' = pc
    BY <1>8, StashInvisible DEF Stash
  <2> QED
    BY <1>8, <2>1, PutMayOutgrow DEF Abs!Next, Abs!Outgrow
<1>9. CASE EndCall
  BY <1>9 DEF EndCall, Queue, Putting
<1>10. CASE Finish
  <2>1. Queue' = Queue /\ cur # NoMsg
    BY <1>10, NoMsgAssumption DEF Finish, Queue, Putting, Base, CurOK
  <2> QED
    BY <1>10, <2>1 DEF Finish, Abs!Next, Abs!Release
<1>11. CASE Crash
  BY <1>11 DEF Crash, Queue, Putting
<1>12. CASE CloseChan
  <2>1. Queue' = <<>>
    BY <1>12 DEF CloseChan, Queue, Putting
  <2> QED
    BY <1>12, <2>1 DEF CloseChan, Abs!Next, Abs!Close
<1>13. CASE PutSelfPanics \/ StashPanics
  <2>1. PICK i \in 1..Len(Queue) : Queue' = Abs!Without(Queue, i)
    BY <1>13, PanicLoses
  <2>2. Outgrown /\ Outgrown' = Outgrown
    BY <1>13, PanicNeedsOutgrown DEF PutSelfPanics, StashPanics
  <2>3. pc \notin {"idle", "dead"} /\ pc' # "dead" /\ cur' \in {cur, NoMsg}
    BY <1>13 DEF PutSelfPanics, StashPanics
  <2>4. cur # NoMsg
    BY <2>3, NoMsgAssumption DEF Base, CurOK
  <2> QED
    BY <2>1, <2>2, <2>3, <2>4 DEF Abs!Next, Abs!Lose
<1>14. CASE ForeignCast \/ ForwardForeign
  BY <1>14 DEF ForeignCast, ForwardForeign, Queue, Putting
<1>15. CASE UNCHANGED vars
  BY <1>15 DEF vars, Queue, Putting
<1> QED
  BY <1>1, <1>2, <1>3, <1>4, <1>5, <1>6, <1>7, <1>8, <1>9, <1>10, <1>11,
     <1>12, <1>13, <1>14, <1>15 DEF Next, Ops

\* recMsg, Context.recResult and CastSelf together are one FIFO mailbox:
\* stash, channel and the window in CastSelf are invisible to who casts.
THEOREM Refinement == Spec => RefinesFifo
<1>1. Spec => []Base
  BY BaseInit, BaseStep, PTL DEF Spec
<1>2. Spec => []Outgrew
  BY <1>1, OutgrewInit, OutgrewStep, PTL DEF Spec
<1> QED
  BY <1>1, <1>2, RefineInit, RefineStep, PTL DEF Spec, RefinesFifo, Abs!Spec
-----------------------------------------------------------------------------
(* First in, first out per sender *)

LEMMA FifoInit == Init => Fifo
<1> SUFFICES ASSUME Init PROVE Fifo
  OBVIOUS
<1>1. Queue = <<>>
  BY DEF Init, Queue, Putting
<1>2. Len(Queue) = 0
  BY <1>1
<1>3. \A f \in Origins : done[f] = {}
  BY DEF Init
<1> QED
  BY <1>2, <1>3 DEF Fifo, SenderFifo, Issued, Origins

LEMMA QueueElements ==
  ASSUME Base
  PROVE  /\ Len(Queue) \in Nat
         /\ \A i \in 1..Len(Queue) :
              /\ Queue[i] \in Msgs
              /\ Queue[i].n \in Nat
              /\ Queue[i].from \in Origins
<1>1. Queue \in Seq(Msgs)
  BY QueueType
<1>2. \A m \in Msgs : m.n \in Nat /\ m.from \in Origins
  BY MaxSendAssumption DEF Msgs
<1> QED
  BY <1>1, <1>2

LEMMA IssuedTypes ==
  ASSUME TypeOK, NEW f \in Origins
  PROVE  sent[f] \in Nat /\ done[f] \subseteq Nat
  BY MaxSendAssumption DEF TypeOK

\* A message of the actor itself, or a sender's fresh message, which is
\* younger than all others of that sender, may join the end of the queue.
LEMMA FifoAccept ==
  ASSUME Base, Fifo, NEW m \in Msgs, Queue' = Append(Queue, m), done' = done,
         \/ m.from = Self /\ \A s \in Senders : sent'[s] = sent[s]
         \/ /\ m.from \in Senders
            /\ m.n = sent[m.from] + 1
            /\ sent' = [sent EXCEPT ![m.from] = @ + 1]
  PROVE  Fifo'
<1>1. /\ Len(Queue') = Len(Queue) + 1
      /\ \A i \in 1..Len(Queue) : Queue'[i] = Queue[i]
      /\ Queue'[Len(Queue) + 1] = m
  BY QueueType
<1>2. \A i \in 1..Len(Queue') : i \in 1..Len(Queue) \/ i = Len(Queue) + 1
  BY <1>1, QueueElements
<1>3. \A s \in Senders : /\ sent[s] \in Nat /\ sent'[s] \in Nat
                         /\ sent[s] <= sent'[s]
                         /\ m.from = s => m.n = sent[s] + 1 /\ sent'[s] = m.n
  BY IssuedTypes, SelfAssumption DEF Base, TypeOK, Origins
<1>4. \A i \in 1..Len(Queue) : Queue[i].from \in Senders
        => /\ Queue[i].n \in Nat
           /\ Queue[i].n <= sent[Queue[i].from]
           /\ Queue[i].from = m.from => Queue[i].n < m.n
  BY <1>3, QueueElements DEF Fifo, Issued
<1>5. \A s \in Senders : \A k \in done[s] :
        k \in Nat /\ k <= sent[s] /\ (m.from = s => k < m.n)
  BY <1>3, IssuedTypes DEF Fifo, Issued, Base, Origins
<1>6. SenderFifo'
  <2>1. ASSUME NEW i \in 1..Len(Queue'), NEW j \in 1..Len(Queue'), i < j,
               Queue'[i].from = Queue'[j].from, Queue'[i].from \in Senders
        PROVE  Queue'[i].n < Queue'[j].n
    <3>1. i \in 1..Len(Queue)
      BY <2>1, <1>1, QueueElements
    <3>2. CASE j \in 1..Len(Queue)
      BY <2>1, <3>1, <3>2, <1>1 DEF Fifo, SenderFifo
    <3>3. CASE j = Len(Queue) + 1
      BY <2>1, <3>1, <3>3, <1>1, <1>4
    <3> QED
      BY <1>2, <3>2, <3>3
  <2>2. ASSUME NEW i \in 1..Len(Queue'), Queue'[i].from \in Senders,
               NEW k \in done[Queue'[i].from]
        PROVE  k < Queue'[i].n
    <3>1. CASE i \in 1..Len(Queue)
      BY <2>2, <3>1, <1>1 DEF Fifo, SenderFifo
    <3>2. CASE i = Len(Queue) + 1
      BY <2>2, <3>2, <1>1, <1>5
    <3> QED
      BY <1>2, <3>1, <3>2
  <2> QED
    BY <2>1, <2>2 DEF SenderFifo
<1>7. Issued'
  <2>1. ASSUME NEW i \in 1..Len(Queue'), Queue'[i].from \in Senders
        PROVE  Queue'[i].n <= sent'[Queue'[i].from]
    <3>1. CASE i \in 1..Len(Queue)
      BY <2>1, <3>1, <1>1, <1>3, <1>4
    <3>2. CASE i = Len(Queue) + 1
      BY <2>1, <3>2, <1>1, <1>3
    <3> QED
      BY <1>2, <3>1, <3>2
  <2>2. \A s \in Senders : \A k \in done'[s] : k <= sent'[s]
    BY <1>3, <1>5
  <2> QED
    BY <2>1, <2>2 DEF Issued
<1> QED
  BY <1>6, <1>7 DEF Fifo

\* Taking the head leaves only younger messages of the same sender.
LEMMA FifoTake ==
  ASSUME Base, Fifo, Queue # <<>>, Queue' = Tail(Queue),
         Dispatch(Head(Queue)), sent' = sent
  PROVE  Fifo'
<1>1. /\ Len(Queue) >= 1
      /\ Len(Queue') = Len(Queue) - 1
      /\ \A i \in 1..Len(Queue') : i + 1 \in 1..Len(Queue) /\ Queue'[i] = Queue[i + 1]
  BY QueueType
<1>2. Head(Queue) = Queue[1] /\ 1 \in 1..Len(Queue)
  BY <1>1, QueueType
<1>3. \A s \in Senders : done'[s] = IF Queue[1].from = s THEN done[s] \cup {Queue[1].n}
                                                       ELSE done[s]
  BY <1>2 DEF Dispatch, Base, TypeOK, Origins
<1>4. \A i \in 1..Len(Queue') : Queue[1].from = Queue'[i].from /\ Queue[1].from \in Senders
        => Queue[1].n < Queue'[i].n
  BY <1>1, <1>2 DEF Fifo, SenderFifo
<1>5. SenderFifo'
  <2>1. ASSUME NEW i \in 1..Len(Queue'), NEW j \in 1..Len(Queue'), i < j,
               Queue'[i].from = Queue'[j].from, Queue'[i].from \in Senders
        PROVE  Queue'[i].n < Queue'[j].n
    <3>1. i + 1 < j + 1
      BY <2>1, <1>1, QueueElements
    <3> QED
      BY <2>1, <3>1, <1>1 DEF Fifo, SenderFifo
  <2>2. ASSUME NEW i \in 1..Len(Queue'), Queue'[i].from \in Senders,
               NEW k \in done'[Queue'[i].from]
        PROVE  k < Queue'[i].n
    <3>1. CASE k \in done[Queue'[i].from]
      BY <2>2, <3>1, <1>1 DEF Fifo, SenderFifo
    <3>2. CASE k = Queue[1].n /\ Queue[1].from = Queue'[i].from
      BY <2>2, <3>2, <1>4
    <3> QED
      BY <2>2, <3>1, <3>2, <1>3
  <2> QED
    BY <2>1, <2>2 DEF SenderFifo
<1>6. Issued'
  <2>1. \A i \in 1..Len(Queue') : Queue'[i].from \in Senders
          => Queue'[i].n <= sent'[Queue'[i].from]
    BY <1>1 DEF Fifo, Issued
  <2>2. \A s \in Senders : \A k \in done'[s] : k <= sent'[s]
    BY <1>2, <1>3 DEF Fifo, Issued
  <2> QED
    BY <2>1, <2>2 DEF Issued
<1> QED
  BY <1>5, <1>6 DEF Fifo

\* A step that leaves the queue alone, or drops all of it, keeps the order.
LEMMA FifoKeep ==
  ASSUME Base, Fifo, Queue' = Queue \/ Queue' = <<>>, done' = done,
         \A s \in Senders : sent'[s] \in Nat /\ sent[s] <= sent'[s]
  PROVE  Fifo'
<1>1. \A s \in Senders : sent[s] \in Nat /\ done[s] \subseteq Nat
  BY IssuedTypes DEF Base, Origins
<1>2. SenderFifo'
  BY DEF Fifo, SenderFifo
<1>3. Issued'
  BY <1>1, QueueElements DEF Fifo, Issued
<1> QED
  BY <1>2, <1>3 DEF Fifo

\* So does a step that loses a message.
LEMMA FifoLose ==
  ASSUME Base, Fifo, NEW i \in 1..Len(Queue), Queue' = Abs!Without(Queue, i),
         done' = done, sent' = sent
  PROVE  Fifo'
<1>0. Len(Queue) \in Nat
  BY QueueElements
<1>1. Len(Queue') = Len(Queue) - 1
  <2>1. Queue' = [k \in 1..(Len(Queue) - 1) |-> IF k < i THEN Queue[k] ELSE Queue[k + 1]]
    BY DEF Abs!Without
  <2> QED
    BY <1>0, <2>1
<1>2. \A k \in 1..(Len(Queue) - 1) :
         LET o == IF k < i THEN k ELSE k + 1
         IN  o \in 1..Len(Queue) /\ Queue'[k] = Queue[o]
  BY <1>0 DEF Abs!Without
<1>3. SenderFifo'
  <2>1. ASSUME NEW j \in 1..Len(Queue'), NEW k \in 1..Len(Queue'), j < k,
               Queue'[j].from = Queue'[k].from, Queue'[j].from \in Senders
        PROVE  Queue'[j].n < Queue'[k].n
    <3> DEFINE a == IF j < i THEN j ELSE j + 1
               b == IF k < i THEN k ELSE k + 1
    <3>1. a \in 1..Len(Queue) /\ Queue'[j] = Queue[a]
      BY <1>1, <1>2
    <3>2. b \in 1..Len(Queue) /\ Queue'[k] = Queue[b]
      BY <1>1, <1>2
    <3>3. a < b
      BY <1>0, <1>1, <2>1
    <3> QED
      BY <2>1, <3>1, <3>2, <3>3 DEF Fifo, SenderFifo
  <2>2. ASSUME NEW j \in 1..Len(Queue'), Queue'[j].from \in Senders,
               NEW k \in done'[Queue'[j].from]
        PROVE  k < Queue'[j].n
    <3>1. PICK a \in 1..Len(Queue) : Queue'[j] = Queue[a]
      BY <1>1, <1>2
    <3> QED
      BY <2>2, <3>1 DEF Fifo, SenderFifo
  <2> QED
    BY <2>1, <2>2 DEF SenderFifo
<1>4. Issued'
  <2>1. ASSUME NEW j \in 1..Len(Queue'), Queue'[j].from \in Senders
        PROVE  Queue'[j].n <= sent'[Queue'[j].from]
    <3>1. PICK a \in 1..Len(Queue) : Queue'[j] = Queue[a]
      BY <1>1, <1>2
    <3> QED
      BY <2>1, <3>1 DEF Fifo, Issued
  <2> QED
    BY <2>1 DEF Fifo, Issued
<1> QED
  BY <1>3, <1>4 DEF Fifo

LEMMA FifoStep == Base /\ Fifo /\ [Next]_vars => Fifo'
<1> SUFFICES ASSUME Base, Fifo, [Next]_vars PROVE Fifo'
  OBVIOUS
<1>0. \A s \in Senders : sent[s] \in Nat
  BY IssuedTypes DEF Base, Origins
<1>1. ASSUME NEW s \in Senders, NEW op \in Ops, Cast(s, op) PROVE Fifo'
  <2>1. /\ Fresh(s, op) \in Msgs
        /\ Fresh(s, op).from = s /\ Fresh(s, op).n = sent[s] + 1
        /\ done' = done /\ sent' = [sent EXCEPT ![s] = @ + 1]
    BY <1>1, FreshType DEF Cast, Origins, Base, Fresh
  <2>2. CASE pc = "dead"
    <3>1. Queue' = Queue
      BY <1>1, <2>2 DEF Cast, Queue, Putting
    <3>2. \A r \in Senders : sent'[r] \in Nat /\ sent[r] <= sent'[r]
      BY <2>1, <1>0 DEF Base, TypeOK, Origins
    <3> QED
      BY <2>1, <3>1, <3>2, FifoKeep
  <2>3. CASE pc # "dead"
    <3>1. Queue' = Append(Queue, Fresh(s, op))
      BY <1>1, <2>1, <2>3, AcceptChannel DEF Cast, Deliver
    <3> QED
      BY <2>1, <3>1, FifoAccept
  <2> QED
    BY <2>2, <2>3
<1>2. CASE TakeStashed \/ TakeReceived
  BY <1>2, TakeHead, FifoTake DEF TakeStashed, TakeReceived
<1>3. ASSUME NEW op \in Ops, CastSelf(op) PROVE Fifo'
  <2>1. Fresh(Self, op) \in Msgs /\ Fresh(Self, op).from = Self
    BY <1>3, FreshType DEF CastSelf, Origins, Base
  <2>2. done' = done /\ \A s \in Senders : sent'[s] = sent[s]
    BY <1>3, SelfAssumption DEF CastSelf, Base, TypeOK, Origins
  <2>3. CASE ch = <<>>
    BY <1>3, <2>1, <2>2, <2>3, CastSelfAccepts, FifoAccept
  <2>4. CASE ch # <<>>
    BY <1>0, <1>3, <2>2, <2>4, CastSelfAccepts, FifoKeep
  <2> QED
    BY <2>3, <2>4
<1>4. CASE PutSelf
  BY <1>0, <1>4, PutSelfInvisible, FifoKeep DEF PutSelf
<1>5. CASE RelaySelf
  <2>1. Queue' = Queue
    BY <1>5 DEF RelaySelf, Queue, Putting
  <2> QED
    BY <1>0, <1>5, <2>1, FifoKeep DEF RelaySelf
<1>6. CASE Forward
  <2>1. CASE pc = "dead"
    <3>1. Queue' = Queue
      BY <1>6, <2>1 DEF Forward, Queue, Putting
    <3> QED
      BY <1>0, <1>6, <3>1, FifoKeep DEF Forward
  <2>2. CASE pc # "dead"
    <3>1. Head(relay) \in Msgs /\ Head(relay).from = Self
      BY <1>6 DEF Forward, Base, TypeOK, RelayOK
    <3>2. Queue' = Append(Queue, Head(relay))
      BY <1>6, <2>2, <3>1, AcceptChannel DEF Forward, Deliver
    <3> QED
      BY <1>6, <3>1, <3>2, FifoAccept DEF Forward
  <2> QED
    BY <2>1, <2>2
<1>7. CASE Stash
  BY <1>0, <1>7, StashInvisible, FifoKeep DEF Stash
<1>8. CASE BeginCall \/ EndCall \/ Finish \/ Crash
  <2>1. Queue' = Queue /\ done' = done /\ sent' = sent
    BY <1>8 DEF BeginCall, EndCall, Finish, Crash, Queue, Putting
  <2> QED
    BY <1>0, <2>1, FifoKeep
<1>9. CASE CloseChan
  <2>1. Queue' = <<>>
    BY <1>9 DEF CloseChan, Queue, Putting
  <2> QED
    BY <1>0, <1>9, <2>1, FifoKeep DEF CloseChan
<1>11. CASE PutSelfPanics \/ StashPanics
  <2>1. PICK i \in 1..Len(Queue) : Queue' = Abs!Without(Queue, i)
    BY <1>11, PanicLoses
  <2> QED
    BY <1>11, <2>1, FifoLose DEF PutSelfPanics, StashPanics
<1>12. CASE ForeignCast \/ ForwardForeign
  <2>1. Queue' = Queue
    BY <1>12 DEF ForeignCast, ForwardForeign, Queue, Putting
  <2> QED
    BY <1>0, <1>12, <2>1, FifoKeep DEF ForeignCast, ForwardForeign
<1>10. CASE UNCHANGED vars
  <2>1. Queue' = Queue
    BY <1>10 DEF vars, Queue, Putting
  <2> QED
    BY <1>0, <1>10, <2>1, FifoKeep DEF vars
<1> QED
  BY <1>1, <1>2, <1>3, <1>4, <1>5, <1>6, <1>7, <1>8, <1>9, <1>10,
     <1>11, <1>12 DEF Next, Ops

\* What one goroutine casts is taken in the order in which it was cast,
\* however much of it a pending call has moved into msgQ.
THEOREM SenderOrder == Spec => []SenderFifo
<1>1. Spec => []Base
  BY BaseInit, BaseStep, PTL DEF Spec
<1>2. Spec => []Fifo
  BY <1>1, FifoInit, FifoStep, PTL DEF Spec
<1>3. Fifo => SenderFifo
  BY DEF Fifo
<1> QED
  BY <1>2, <1>3, PTL
-----------------------------------------------------------------------------
(* Nothing is lost, nothing is there twice *)

\* Origin and number are what tells messages apart.
Key(m) == <<m.from, m.n>>
Own(q) == {i \in 1..Len(q) : q[i] # Foreign}
Keys(q) == {Key(q[i]) : i \in Own(q)}
Distinct(q) == \A i, j \in Own(q) : Key(q[i]) = Key(q[j]) => i = j

\* Where a message that was sent can be.
Queued == Keys(Queue)
AtRelay == Keys(relay)
Offered == IF pc = "relaying" THEN {Key(pend)} ELSE {}
Taken == {x \in Origins \X (1..MaxSend) : x[2] \in done[x[1]]}
Sent == {x \in Origins \X (1..MaxSend) : x[2] <= sent[x[1]]}

Lost == {x \in Origins \X (1..MaxSend) : x[2] \in lost[x[1]]}

\* The places share the messages that were sent among them, with those that a
\* panic lost; the closing of the channel is the only other thing that drops some.
Gone == Taken \cup Lost

Placed == /\ Distinct(Queue) /\ Distinct(relay)
          /\ Queued \cap AtRelay = {} /\ Queued \cap Offered = {} /\ Queued \cap Gone = {}
          /\ AtRelay \cap Offered = {} /\ AtRelay \cap Gone = {} /\ Offered \cap Gone = {}
          /\ Taken \cap Lost = {}
          /\ Queued \cup AtRelay \cup Offered \cup Gone \subseteq Sent
          /\ pc # "dead" => Sent = Queued \cup AtRelay \cup Offered \cup Gone

LEMMA KeysAppend ==
  ASSUME NEW q \in Seq(Msgs \cup {Foreign}), NEW m \in Msgs
  PROVE  /\ Keys(Append(q, m)) = Keys(q) \cup {Key(m)}
         /\ Distinct(q) /\ Key(m) \notin Keys(q) => Distinct(Append(q, m))
<1> DEFINE t == Append(q, m)
<1>1. /\ Len(q) \in Nat /\ Len(t) = Len(q) + 1 /\ t[Len(q) + 1] = m
      /\ \A i \in 1..Len(q) : t[i] = q[i]
  OBVIOUS
<1> HIDE DEF t
<1>2. \A i \in 1..Len(t) : i \in 1..Len(q) \/ i = Len(q) + 1
  BY <1>1
<1>3. /\ \A i \in 1..Len(q) : i \in 1..Len(t)
      /\ Len(q) + 1 \in 1..Len(t)
  BY <1>1
<1>4. /\ \A i \in Own(q) : i \in Own(t) /\ t[i] = q[i]
      /\ Len(q) + 1 \in Own(t)
      /\ \A i \in Own(t) : i \in Own(q) \/ i = Len(q) + 1
  BY <1>1, <1>2, <1>3, NoMsgAssumption DEF Own
<1>5. Keys(t) = Keys(q) \cup {Key(m)}
  <2>1. ASSUME NEW x \in Keys(t) PROVE x \in Keys(q) \cup {Key(m)}
    BY <1>1, <1>4, <2>1 DEF Keys
  <2>2. ASSUME NEW x \in Keys(q) PROVE x \in Keys(t)
    BY <1>1, <1>4, <2>2 DEF Keys
  <2>3. Key(m) \in Keys(t)
    BY <1>1, <1>4 DEF Keys
  <2> QED
    BY <2>1, <2>2, <2>3
<1>6. ASSUME Distinct(q), Key(m) \notin Keys(q) PROVE Distinct(t)
  BY <1>1, <1>4, <1>6 DEF Distinct, Keys
<1> QED
  BY <1>5, <1>6 DEF t

\* The routerMsg of another actor has no key here.
LEMMA KeysForeign ==
  ASSUME NEW q \in Seq(Msgs \cup {Foreign})
  PROVE  /\ Keys(Append(q, Foreign)) = Keys(q)
         /\ Distinct(q) => Distinct(Append(q, Foreign))
<1> DEFINE t == Append(q, Foreign)
<1>1. /\ Len(q) \in Nat /\ Len(t) = Len(q) + 1 /\ t[Len(q) + 1] = Foreign
      /\ \A i \in 1..Len(q) : t[i] = q[i]
  OBVIOUS
<1> HIDE DEF t
<1>2. Own(t) = Own(q) /\ \A i \in Own(q) : t[i] = q[i]
  BY <1>1 DEF Own
<1> QED
  BY <1>2 DEF Keys, Distinct, t

LEMMA KeysTail ==
  ASSUME NEW q \in Seq(Msgs \cup {Foreign}), q # <<>>, Distinct(q)
  PROVE  /\ Distinct(Tail(q))
         /\ Head(q) = Foreign => Keys(Tail(q)) = Keys(q)
         /\ Head(q) # Foreign => /\ Keys(Tail(q)) = Keys(q) \ {Key(Head(q))}
                                 /\ Key(Head(q)) \in Keys(q)
<1> DEFINE t == Tail(q)
<1>1. /\ Len(q) \in Nat /\ Len(t) = Len(q) - 1 /\ 1 \in 1..Len(q) /\ Head(q) = q[1]
      /\ \A i \in 1..Len(t) : t[i] = q[i + 1] /\ i + 1 \in 1..Len(q) /\ i + 1 # 1
  OBVIOUS
<1> HIDE DEF t
<1>2. \A i \in Own(q) : i # 1 => i - 1 \in Own(t) /\ t[i - 1] = q[i]
  BY <1>1 DEF Own
<1>3. \A i \in Own(t) : i + 1 \in Own(q) /\ i + 1 # 1 /\ t[i] = q[i + 1]
  BY <1>1 DEF Own
<1>4. Distinct(t)
  <2>1. ASSUME NEW i \in Own(t), NEW j \in Own(t), Key(t[i]) = Key(t[j]) PROVE i = j
    <3>1. i + 1 = j + 1
      BY <1>3, <2>1 DEF Distinct
    <3>2. i \in 1..Len(t) /\ j \in 1..Len(t)
      BY DEF Own
    <3> QED
      BY <1>1, <3>1, <3>2
  <2> QED
    BY <2>1 DEF Distinct
<1>5. CASE Head(q) = Foreign
  <2>1. 1 \notin Own(q)
    BY <1>1, <1>5 DEF Own
  <2>2. Keys(t) \subseteq Keys(q)
    BY <1>3 DEF Keys
  <2>3. Keys(q) \subseteq Keys(t)
    BY <1>2, <2>1 DEF Keys
  <2> QED
    BY <1>4, <1>5, <2>2, <2>3 DEF t
<1>6. CASE Head(q) # Foreign
  <2>1. 1 \in Own(q)
    BY <1>1, <1>6 DEF Own
  <2>2. \A i \in Own(q) : Key(q[i]) = Key(q[1]) => i = 1
    BY <2>1 DEF Distinct
  <2>3. ASSUME NEW x \in Keys(t) PROVE x \in Keys(q) \ {Key(Head(q))}
    BY <1>1, <1>3, <2>2, <2>3 DEF Keys
  <2>4. ASSUME NEW x \in Keys(q) \ {Key(Head(q))} PROVE x \in Keys(t)
    BY <1>1, <1>2, <2>4 DEF Keys
  <2>5. Key(Head(q)) \in Keys(q)
    BY <1>1, <2>1 DEF Keys
  <2> QED
    BY <1>4, <1>6, <2>3, <2>4, <2>5 DEF t
<1> QED
  BY <1>5, <1>6

LEMMA KeysWithout ==
  ASSUME NEW q \in Seq(Msgs), NEW i \in 1..Len(q), Distinct(q)
  PROVE  /\ Distinct(Abs!Without(q, i))
         /\ Keys(Abs!Without(q, i)) = Keys(q) \ {Key(q[i])}
         /\ Key(q[i]) \in Keys(q)
<1> DEFINE t == Abs!Without(q, i)
           o(k) == IF k < i THEN k ELSE k + 1
<1>0. Len(q) \in Nat
  OBVIOUS
<1>1. /\ Len(t) = Len(q) - 1
      /\ \A k \in 1..(Len(q) - 1) : t[k] = q[o(k)]
  <2>1. t = [k \in 1..(Len(q) - 1) |-> IF k < i THEN q[k] ELSE q[k + 1]]
    BY DEF Abs!Without
  <2> HIDE DEF t
  <2> QED
    BY <1>0, <2>1
<1> HIDE DEF t
<1>2. Own(q) = 1..Len(q) /\ \A k \in 1..Len(q) : q[k] # Foreign
  BY NoMsgAssumption DEF Own
<1>3. \A k \in 1..(Len(q) - 1) : o(k) \in 1..Len(q) /\ o(k) # i
  BY <1>0
<1>4. Own(t) = 1..(Len(q) - 1)
  BY <1>1, <1>2, <1>3 DEF Own
<1>5. Distinct(t)
  <2>1. ASSUME NEW j \in Own(t), NEW k \in Own(t), Key(t[j]) = Key(t[k]) PROVE j = k
    <3>1. o(j) = o(k)
      <4>1. Key(q[o(j)]) = Key(q[o(k)]) /\ o(j) \in Own(q) /\ o(k) \in Own(q)
        BY <1>1, <1>2, <1>3, <1>4, <2>1
      <4> QED
        BY <4>1 DEF Distinct
    <3> QED
      BY <1>0, <1>4, <3>1
  <2> QED
    BY <2>1 DEF Distinct
<1>6. ASSUME NEW x \in Keys(t) PROVE x \in Keys(q) \ {Key(q[i])}
  <2>1. PICK k \in 1..(Len(q) - 1) : x = Key(t[k])
    BY <1>4 DEF Keys
  <2>2. x = Key(q[o(k)]) /\ o(k) \in Own(q) /\ o(k) # i /\ i \in Own(q)
    BY <1>1, <1>2, <1>3, <2>1
  <2> HIDE DEF o
  <2> QED
    BY <2>2 DEF Keys, Distinct
<1>7. ASSUME NEW x \in Keys(q) \ {Key(q[i])} PROVE x \in Keys(t)
  <2>1. PICK k \in 1..Len(q) : x = Key(q[k]) /\ k # i
    BY <1>2 DEF Keys
  <2>2. PICK j \in 1..(Len(q) - 1) : o(j) = k
    <3>1. CASE k < i
      <4>1. k \in 1..(Len(q) - 1) /\ o(k) = k
        BY <1>0, <3>1
      <4> QED
        BY <4>1
    <3>2. CASE k > i
      <4>1. k - 1 \in 1..(Len(q) - 1) /\ o(k - 1) = k
        BY <1>0, <3>2
      <4> QED
        BY <4>1
    <3> QED
      BY <1>0, <2>1, <3>1, <3>2
  <2>3. t[j] = q[k]
    BY <1>1, <2>2
  <2>4. j \in Own(t)
    BY <1>4
  <2>5. Key(t[j]) \in Keys(t)
    BY <2>4 DEF Keys
  <2> QED
    BY <2>1, <2>3, <2>5
<1>8. Key(q[i]) \in Keys(q)
  BY <1>2 DEF Keys
<1> QED
  BY <1>5, <1>6, <1>7, <1>8 DEF t

\* A fresh message has a key that was not sent before.
LEMMA FreshKey ==
  ASSUME TypeOK, NEW f \in Origins, NEW op \in Ops, sent[f] < MaxSend,
         sent' = [sent EXCEPT ![f] = @ + 1]
  PROVE  /\ Fresh(f, op) \in Msgs
         /\ Sent' = Sent \cup {Key(Fresh(f, op))} /\ Key(Fresh(f, op)) \notin Sent
<1>1. Key(Fresh(f, op)) = <<f, sent[f] + 1>>
  BY DEF Key, Fresh
<1>2. sent[f] \in 0..MaxSend /\ sent[f] + 1 \in 1..MaxSend
  BY MaxSendAssumption DEF TypeOK
<1>3. /\ \A g \in Origins \ {f} : sent'[g] = sent[g]
      /\ sent'[f] = sent[f] + 1
  BY DEF TypeOK
<1>4. \A g \in Origins, k \in 1..MaxSend :
        k <= sent'[g] <=> k <= sent[g] \/ (g = f /\ k = sent[f] + 1)
  BY <1>2, <1>3, MaxSendAssumption
<1>5. Sent' = Sent \cup {<<f, sent[f] + 1>>}
  <2>1. ASSUME NEW x, x \in Sent' PROVE x \in Sent \cup {<<f, sent[f] + 1>>}
    <3>1. PICK g \in Origins, k \in 1..MaxSend : x = <<g, k>> /\ k <= sent'[g]
      BY <2>1 DEF Sent
    <3> QED
      BY <1>4, <3>1 DEF Sent
  <2>2. ASSUME NEW x \in Sent \cup {<<f, sent[f] + 1>>} PROVE x \in Sent'
    <3>1. PICK g \in Origins, k \in 1..MaxSend :
            x = <<g, k>> /\ (k <= sent[g] \/ (g = f /\ k = sent[f] + 1))
      BY <1>2, <2>2 DEF Sent
    <3> QED
      BY <1>4, <3>1 DEF Sent
  <2> QED
    BY <2>1, <2>2
<1>6. <<f, sent[f] + 1>> \notin Sent
  BY <1>2 DEF Sent
<1> QED
  BY <1>1, <1>5, <1>6, FreshType

LEMMA PlacedInit == Init => Placed
<1> SUFFICES ASSUME Init PROVE Placed
  OBVIOUS
<1>1. Queue = <<>> /\ relay = <<>>
  BY DEF Init, Queue, Putting
<1>2. Len(<<>>) = 0 /\ 1..0 = {}
  OBVIOUS
<1>3. /\ Queued = {} /\ AtRelay = {} /\ Offered = {} /\ Distinct(Queue) /\ Distinct(relay)
  BY <1>1, <1>2 DEF Queued, AtRelay, Offered, Keys, Own, Distinct, Init
<1>4. Taken = {} /\ Sent = {} /\ Lost = {}
  BY MaxSendAssumption DEF Taken, Sent, Lost, Init
<1> QED
  BY <1>3, <1>4 DEF Placed, Gone

LEMMA PlacedAccept ==
  ASSUME Base, NEW m \in Msgs, Queue' = Append(Queue, m),
         Distinct(Queue), Key(m) \notin Queued
  PROVE  Queued' = Queued \cup {Key(m)} /\ Distinct(Queue)'
<1>1. PICK q : q = Append(Queue, m)
  OBVIOUS
<1>2. Queue \in Seq(Msgs \cup {Foreign})
  BY QueueType
<1>3. Keys(q) = Queued \cup {Key(m)} /\ Distinct(q)
  BY <1>1, <1>2, KeysAppend DEF Queued
<1> QED
  BY <1>1, <1>3 DEF Queued, Keys, Own, Distinct

LEMMA PlacedKeep ==
  ASSUME Placed, UNCHANGED <<relay, sent, done, lost>>,
         \/ Queue' = Queue /\ Offered' = Offered
         \/ Queue' = <<>> /\ pc' = "dead",
         pc = "dead" => pc' = "dead"
  PROVE  Placed'
<1>1. Taken' = Taken /\ Lost' = Lost /\ Gone' = Gone /\ Sent' = Sent /\ AtRelay' = AtRelay /\ Distinct(relay)'
  BY DEF Taken, Lost, Gone, Sent, AtRelay, Keys, Own, Distinct, Placed
<1>2. CASE Queue' = Queue /\ Offered' = Offered
  <2>1. Queued' = Queued /\ Distinct(Queue)'
    BY <1>2 DEF Queued, Keys, Own, Distinct, Placed
  <2> QED
    BY <1>1, <1>2, <2>1 DEF Placed
<1>3. CASE Queue' = <<>> /\ pc' = "dead"
  <2>1. Len(<<>>) = 0 /\ 1..0 = {}
    OBVIOUS
  <2>2. Queued' = {} /\ Distinct(Queue)' /\ Offered' = {}
    BY <1>3, <2>1 DEF Queued, Keys, Own, Distinct, Offered
  <2> QED
    BY <1>1, <1>3, <2>2 DEF Placed
<1> QED
  BY <1>2, <1>3

LEMMA PlacedStep == Base /\ Placed /\ [Next]_vars => Placed'
<1> SUFFICES ASSUME Base, Placed, [Next]_vars PROVE Placed'
  OBVIOUS
<1>0. TypeOK /\ relay \in Seq(Msgs \cup {Foreign})
  BY DEF Base, TypeOK
<1>1. ASSUME NEW s \in Senders, NEW op \in Ops, Cast(s, op) PROVE Placed'
  <2>1. /\ Fresh(s, op) \in Msgs
        /\ Sent' = Sent \cup {Key(Fresh(s, op))} /\ Key(Fresh(s, op)) \notin Sent
    BY <1>0, <1>1, FreshKey DEF Cast, Origins
  <2>2. AtRelay' = AtRelay /\ Taken' = Taken /\ Lost' = Lost /\ Offered' = Offered /\ Distinct(relay)'
    BY <1>1 DEF Cast, AtRelay, Taken, Lost, Offered, Placed, Keys, Own, Distinct
  <2>3. CASE pc = "dead"
    <3>1. Queue' = Queue
      BY <1>1, <2>3 DEF Cast, Queue, Putting
    <3>2. Queued' = Queued /\ Distinct(Queue)'
      BY <3>1 DEF Queued, Placed, Keys, Own, Distinct
    <3> QED
      BY <1>1, <2>1, <2>2, <2>3, <3>2 DEF Cast, Placed, Gone
  <2>4. CASE pc # "dead"
    <3>1. Queue' = Append(Queue, Fresh(s, op))
      BY <1>1, <2>1, <2>4, AcceptChannel DEF Cast, Deliver
    <3>2. Queued' = Queued \cup {Key(Fresh(s, op))} /\ Distinct(Queue)'
      BY <2>1, <3>1, PlacedAccept DEF Placed, Gone
    <3> QED
      BY <2>1, <2>2, <2>4, <3>2 DEF Placed, Gone
  <2> QED
    BY <2>3, <2>4
<1>2. CASE TakeStashed \/ TakeReceived
  <2>1. Queue # <<>> /\ Dispatch(Head(Queue)) /\ Queue' = Tail(Queue)
    BY <1>2, TakeHead
  <2>2. PICK m \in Msgs : m = Head(Queue)
    BY <2>1, QueueType
  <2>3. Key(m) \in Queued /\ Queued' = Queued \ {Key(m)} /\ Distinct(Queue)'
    <3>1. PICK q : q = Tail(Queue)
      OBVIOUS
    <3>2. Queue \in Seq(Msgs \cup {Foreign}) /\ m # Foreign
      BY QueueType, NoMsgAssumption
    <3>3. Keys(q) = Queued \ {Key(m)} /\ Key(m) \in Queued /\ Distinct(q)
      BY <2>1, <2>2, <3>1, <3>2, KeysTail DEF Queued, Placed
    <3> QED
      <4>1. Queue' = q
        BY <2>1, <3>1
      <4>2. Queued' = Keys(q)
        BY <4>1 DEF Queued, Keys, Own
      <4>3. Distinct(Queue)'
        BY <3>3, <4>1 DEF Distinct, Own
      <4> QED
        BY <3>3, <4>2, <4>3
  <2>4. Taken' = Taken \cup {Key(m)}
    <3>1. m.from \in Origins /\ m.n \in 1..MaxSend
      BY DEF Msgs
    <3>2. \A f \in Origins : done'[f] = IF f = m.from THEN done[f] \cup {m.n} ELSE done[f]
      BY <1>0, <2>1, <2>2, <3>1 DEF Dispatch, TypeOK
    <3> QED
      <4>1. ASSUME NEW x, x \in Taken' PROVE x \in Taken \cup {<<m.from, m.n>>}
        <5>1. PICK f \in Origins, k \in 1..MaxSend : x = <<f, k>> /\ k \in done'[f]
          BY <4>1 DEF Taken
        <5> QED
          BY <3>2, <5>1 DEF Taken
      <4>2. ASSUME NEW x \in Taken \cup {<<m.from, m.n>>} PROVE x \in Taken'
        <5>1. PICK f \in Origins, k \in 1..MaxSend :
                x = <<f, k>> /\ (k \in done[f] \/ (f = m.from /\ k = m.n))
          BY <3>1, <4>2 DEF Taken
        <5> QED
          BY <3>2, <5>1 DEF Taken
      <4> QED
        BY <4>1, <4>2 DEF Key
  <2>5. AtRelay' = AtRelay /\ Sent' = Sent /\ Lost' = Lost /\ Distinct(relay)' /\ pc = "idle" /\ pc' # "relaying"
    BY <1>2, <2>1 DEF TakeStashed, TakeReceived, Dispatch, AtRelay, Sent, Lost, Placed, Keys, Own, Distinct
  <2>6. Offered = {} /\ Offered' = {}
    BY <2>5 DEF Offered
  <2> QED
    BY <2>3, <2>4, <2>5, <2>6 DEF Placed, Gone
<1>3. ASSUME NEW op \in Ops, CastSelf(op) PROVE Placed'
  <2>1. /\ Fresh(Self, op) \in Msgs
        /\ Sent' = Sent \cup {Key(Fresh(Self, op))} /\ Key(Fresh(Self, op)) \notin Sent
    BY <1>0, <1>3, FreshKey DEF CastSelf, Origins
  <2>2. AtRelay' = AtRelay /\ Taken' = Taken /\ Lost' = Lost /\ Distinct(relay)' /\ Offered = {} /\ pc # "dead"
    BY <1>3 DEF CastSelf, AtRelay, Taken, Lost, Offered, Placed, Keys, Own, Distinct
  <2>3. CASE ch = <<>>
    <3>1. Queue' = Append(Queue, Fresh(Self, op)) /\ Offered' = {}
      BY <1>3, <2>3, CastSelfAccepts DEF CastSelf, Offered
    <3>2. Queued' = Queued \cup {Key(Fresh(Self, op))} /\ Distinct(Queue)'
      BY <2>1, <3>1, PlacedAccept DEF Placed, Gone
    <3> QED
      BY <2>1, <2>2, <3>1, <3>2 DEF Placed, Gone
  <2>4. CASE ch # <<>>
    <3>1. Queue' = Queue /\ Offered' = {Key(Fresh(Self, op))}
      BY <1>3, <2>4, CastSelfAccepts DEF CastSelf, Offered
    <3>2. Queued' = Queued /\ Distinct(Queue)'
      BY <3>1 DEF Queued, Placed, Keys, Own, Distinct
    <3> QED
      BY <2>1, <2>2, <3>1, <3>2 DEF Placed, Gone
  <2> QED
    BY <2>3, <2>4
<1>4. CASE PutSelf
  <2>1. Queue' = Queue /\ Offered' = Offered
    BY <1>4, PutSelfInvisible DEF PutSelf, Offered
  <2> QED
    BY <1>4, <2>1, PlacedKeep DEF PutSelf, PutStash
<1>5. CASE RelaySelf
  <2>1. pend \in Msgs /\ relay' = Append(relay, pend) /\ Offered = {Key(pend)} /\ Offered' = {}
    BY <1>5 DEF RelaySelf, Base, PendOK, Offered
  <2>2. Queued' = Queued /\ Distinct(Queue)' /\ Sent' = Sent /\ Taken' = Taken /\ Lost' = Lost /\ pc # "dead"
    <3>1. Queue' = Queue
      BY <1>5 DEF RelaySelf, Queue, Putting
    <3> QED
      BY <1>5, <3>1 DEF RelaySelf, Queued, Sent, Taken, Lost, Placed, Keys, Own, Distinct
  <2>3. AtRelay' = AtRelay \cup {Key(pend)} /\ Distinct(relay)'
    <3>1. PICK q : q = Append(relay, pend)
      OBVIOUS
    <3>2. Key(pend) \notin AtRelay /\ Distinct(relay)
      BY <2>1 DEF Placed, Gone
    <3>3. Keys(q) = AtRelay \cup {Key(pend)} /\ Distinct(q)
      BY <1>0, <2>1, <3>1, <3>2, KeysAppend DEF AtRelay
    <3> QED
      BY <2>1, <3>1, <3>3 DEF AtRelay, Keys, Own, Distinct
  <2> QED
    BY <2>1, <2>2, <2>3 DEF Placed, Gone
<1>6. CASE Forward
  <2>1. PICK m \in Msgs : m = Head(relay)
    BY <1>0, <1>6 DEF Forward
  <2>2. Key(m) \in AtRelay /\ AtRelay' = AtRelay \ {Key(m)} /\ Distinct(relay)'
    <3>1. PICK q : q = Tail(relay)
      OBVIOUS
    <3>2. Keys(q) = AtRelay \ {Key(m)} /\ Key(m) \in AtRelay /\ Distinct(q)
      BY <1>0, <1>6, <2>1, <3>1, KeysTail DEF Forward, AtRelay, Placed
    <3> QED
      <4>1. relay' = q
        BY <1>6, <3>1 DEF Forward
      <4>2. AtRelay' = Keys(q)
        BY <4>1 DEF AtRelay, Keys, Own
      <4>3. Distinct(relay)'
        BY <3>2, <4>1 DEF Distinct, Own
      <4> QED
        BY <3>2, <4>2, <4>3
  <2>3. Sent' = Sent /\ Taken' = Taken /\ Lost' = Lost /\ Offered' = Offered /\ pc' = pc
    BY <1>6 DEF Forward, Sent, Taken, Lost, Offered
  <2>4. CASE pc = "dead"
    <3>1. Queue' = Queue
      BY <1>6, <2>4 DEF Forward, Queue, Putting
    <3>2. Queued' = Queued /\ Distinct(Queue)'
      BY <3>1 DEF Queued, Placed, Keys, Own, Distinct
    <3> QED
      BY <2>2, <2>3, <2>4, <3>2 DEF Placed, Gone
  <2>5. CASE pc # "dead"
    <3>1. Queue' = Append(Queue, m)
      BY <1>6, <2>1, <2>5, AcceptChannel DEF Forward, Deliver
    <3>2. Queued' = Queued \cup {Key(m)} /\ Distinct(Queue)'
      BY <2>2, <3>1, PlacedAccept DEF Placed, Gone
    <3> QED
      BY <2>2, <2>3, <2>5, <3>2 DEF Placed, Gone
  <2> QED
    BY <2>4, <2>5
<1>7. CASE Stash
  BY <1>7, StashInvisible, PlacedKeep DEF Stash, PutStash, Offered
<1>8. CASE BeginCall \/ EndCall \/ Finish \/ Crash
  <2>1. Queue' = Queue /\ Offered' = Offered
    BY <1>8 DEF BeginCall, EndCall, Finish, Crash, Queue, Putting, Offered
  <2> QED
    BY <1>8, <2>1, PlacedKeep DEF BeginCall, EndCall, Finish, Crash
<1>9. CASE CloseChan
  <2>1. Queue' = <<>>
    BY <1>9 DEF CloseChan, Queue, Putting
  <2> QED
    BY <1>9, <2>1, PlacedKeep DEF CloseChan
<1>10. CASE PutSelfPanics \/ StashPanics
  <2>1. PICK i \in 1..Len(Queue), m \in Msgs :
          Queue[i] = m /\ Queue' = Abs!Without(Queue, i) /\ PutStashPanics(m)
    BY <1>10, PanicLoses
  <2>2. Key(m) \in Queued /\ Queued' = Queued \ {Key(m)} /\ Distinct(Queue)'
    <3>1. PICK q : q = Abs!Without(Queue, i)
      OBVIOUS
    <3>2. Keys(q) = Queued \ {Key(m)} /\ Key(m) \in Queued /\ Distinct(q)
      BY <2>1, <3>1, KeysWithout, QueueType DEF Queued, Placed
    <3>3. Queue' = q
      BY <2>1, <3>1
    <3>4. Queued' = Keys(q) /\ Distinct(Queue)'
      BY <3>2, <3>3 DEF Queued, Keys, Own, Distinct
    <3> QED
      BY <3>2, <3>4
  <2>3. Lost' = Lost \cup {Key(m)}
    <3>1. m.from \in Origins /\ m.n \in 1..MaxSend
      BY DEF Msgs
    <3>2. \A f \in Origins : lost'[f] = IF f = m.from THEN lost[f] \cup {m.n} ELSE lost[f]
      BY <1>0, <2>1, <3>1 DEF PutStashPanics, TypeOK
    <3>3. ASSUME NEW x, x \in Lost' PROVE x \in Lost \cup {<<m.from, m.n>>}
      <4>1. PICK f \in Origins, k \in 1..MaxSend : x = <<f, k>> /\ k \in lost'[f]
        BY <3>3 DEF Lost
      <4> QED
        BY <3>2, <4>1, Zenon DEF Lost
    <3>4. ASSUME NEW x \in Lost \cup {<<m.from, m.n>>} PROVE x \in Lost'
      <4>1. PICK f \in Origins, k \in 1..MaxSend :
              x = <<f, k>> /\ (k \in lost[f] \/ (f = m.from /\ k = m.n))
        BY <3>1, <3>4 DEF Lost
      <4> QED
        BY <3>2, <4>1, Zenon DEF Lost
    <3> QED
      BY <3>3, <3>4 DEF Key
  <2>4. /\ AtRelay' = AtRelay /\ Sent' = Sent /\ Taken' = Taken /\ Distinct(relay)'
        /\ pc \notin {"relaying", "dead"} /\ pc' # "relaying"
    BY <1>10 DEF PutSelfPanics, StashPanics, AtRelay, Sent, Taken, Placed, Keys, Own, Distinct
  <2>5. Offered = {} /\ Offered' = {}
    BY <2>4 DEF Offered
  <2> QED
    BY <2>2, <2>3, <2>4, <2>5 DEF Placed, Gone
<1>11. CASE ForeignCast \/ ForwardForeign
  <2>1. /\ Queue' = Queue /\ Offered' = Offered /\ Sent' = Sent /\ Taken' = Taken
        /\ Lost' = Lost /\ pc' = pc
    BY <1>11 DEF ForeignCast, ForwardForeign, Queue, Putting, Offered, Sent, Taken, Lost
  <2>2. Queued' = Queued /\ Distinct(Queue)'
    BY <2>1 DEF Queued, Keys, Own, Distinct, Placed
  <2>3. PICK q : q = relay'
    OBVIOUS
  <2>4. Keys(q) = AtRelay /\ Distinct(q)
    <3>1. CASE ForeignCast
      BY <1>0, <2>3, <3>1, KeysForeign DEF ForeignCast, AtRelay, Placed
    <3>2. CASE ForwardForeign
      BY <1>0, <2>3, <3>2, KeysTail DEF ForwardForeign, AtRelay, Placed
    <3> QED
      BY <1>11, <3>1, <3>2
  <2>5. AtRelay' = AtRelay /\ Distinct(relay)'
    <3>1. relay' = q
      BY <2>3
    <3>2. AtRelay' = Keys(q)
      BY <3>1 DEF AtRelay, Keys, Own
    <3>3. Distinct(relay)'
      BY <2>4, <3>1 DEF Distinct, Own
    <3> QED
      BY <2>4, <3>2, <3>3
  <2> QED
    BY <2>1, <2>2, <2>5 DEF Placed, Gone
<1>12. CASE UNCHANGED vars
  <2>1. Queue' = Queue /\ Offered' = Offered
    BY <1>12 DEF vars, Queue, Putting, Offered
  <2> QED
    BY <1>12, <2>1, PlacedKeep DEF vars
<1> QED
  BY <1>1, <1>2, <1>3, <1>4, <1>5, <1>6, <1>7, <1>8, <1>9, <1>10,
     <1>11, <1>12 DEF Next, Ops

LEMMA PlacedMeans ==
  ASSUME Base, Placed
  PROVE  (pc # "dead" => \A f \in Origins : \A k \in 1..sent[f] :
                            k \in done[f] \/ Waiting(f, k) \/ k \in lost[f]) /\ AtMostOnce
<1>1. /\ \A i \in 1..Len(Queue) : Queue[i] \in Msgs /\ Queue[i] # Foreign
      /\ \A i \in 1..Len(relay) : relay[i] = Foreign \/ relay[i] \in Msgs
  BY QueueType, NoMsgAssumption DEF Base, TypeOK
<1>2. /\ Own(Queue) = 1..Len(Queue)
      /\ \A i \in 1..Len(relay) : relay[i] # Foreign <=> i \in Own(relay)
  BY <1>1 DEF Own
<1>3. ASSUME pc # "dead", NEW f \in Origins, NEW k \in 1..sent[f]
      PROVE  k \in done[f] \/ Waiting(f, k) \/ k \in lost[f]
  <2>1. k \in 1..MaxSend /\ k <= sent[f]
    BY <1>3, MaxSendAssumption DEF Base, TypeOK
  <2>2. <<f, k>> \in Queued \cup AtRelay \cup Offered \cup Taken \cup Lost
    BY <1>3, <2>1 DEF Placed, Sent, Gone
  <2>3. CASE <<f, k>> \in Queued
    BY <1>2, <2>3 DEF Queued, Keys, Key, Waiting
  <2>4. CASE <<f, k>> \in AtRelay
    BY <2>4 DEF AtRelay, Keys, Own, Key, Waiting, Relayed
  <2>5. CASE <<f, k>> \in Offered
    BY <2>5 DEF Offered, Key, Waiting
  <2>6. CASE <<f, k>> \in Taken \cup Lost
    BY <2>6 DEF Taken, Lost
  <2> QED
    BY <2>2, <2>3, <2>4, <2>5, <2>6
<1>4. ASSUME NEW f \in Origins, NEW k \in 1..MaxSend, Waiting(f, k)
      PROVE  k \notin done[f] /\ k \notin lost[f]
  <2>1. <<f, k>> \in Queued \cup AtRelay \cup Offered
    <3>1. CASE \E i \in 1..Len(Queue) : Queue[i].from = f /\ Queue[i].n = k
      BY <1>2, <3>1 DEF Queued, Keys, Key
    <3>2. CASE Relayed(f, k)
      BY <3>2 DEF AtRelay, Keys, Own, Key, Relayed
    <3>3. CASE pc = "relaying" /\ pend.from = f /\ pend.n = k
      BY <3>3 DEF Offered, Key
    <3> QED
      BY <1>4, <3>1, <3>2, <3>3 DEF Waiting
  <2>2. <<f, k>> \notin Taken /\ <<f, k>> \notin Lost
    BY <2>1 DEF Placed, Gone
  <2> QED
    BY <2>2 DEF Taken, Lost
<1>5. AtMostOnce
  <2>1. \A i, j \in 1..Len(Queue) : Queue[i] = Queue[j] => i = j
    BY <1>2 DEF Placed, Distinct
  <2>2. \A i, j \in 1..Len(relay) : relay[i] = relay[j] => i = j \/ relay[i] = Foreign
    BY <1>2 DEF Placed, Distinct
  <2>3. \A i \in 1..Len(Queue) : Key(Queue[i]) \in Queued
    BY <1>2 DEF Queued, Keys
  <2>4. \A j \in 1..Len(relay) : relay[j] # Foreign => Key(relay[j]) \in AtRelay
    BY <1>2 DEF AtRelay, Keys
  <2>5. \A i \in 1..Len(Queue), j \in 1..Len(relay) : Queue[i] # relay[j]
    BY <1>1, <2>3, <2>4 DEF Placed
  <2>6. \A f \in Origins : done[f] \subseteq 1..MaxSend /\ lost[f] \subseteq 1..MaxSend
    BY DEF Base, TypeOK
  <2>7. \A f \in Origins : \A k \in done[f] \cup lost[f] : ~Waiting(f, k)
    BY <1>4, <2>6
  <2>8. \A f \in Origins : done[f] \cap lost[f] = {}
    <3>1. ASSUME NEW f \in Origins, NEW k \in done[f], k \in lost[f] PROVE FALSE
      <4>1. k \in 1..MaxSend
        BY <2>6
      <4>2. <<f, k>> \in Taken /\ <<f, k>> \in Lost
        BY <3>1, <4>1 DEF Taken, Lost
      <4> QED
        BY <4>2 DEF Placed
    <3> QED
      BY <3>1
  <2> QED
    BY <2>1, <2>2, <2>5, <2>7, <2>8 DEF AtMostOnce
<1> QED
  BY <1>3, <1>5

\* Only a stash that has outgrown its maximum loses messages.
LossOK == \A f \in Origins : lost[f] # {} => Outgrown

LEMMA LossStep == Base /\ Outgrew /\ LossOK /\ [Next]_vars => LossOK'
<1> SUFFICES ASSUME Base, Outgrew, LossOK, [Next]_vars PROVE LossOK'
  OBVIOUS
<1>1. CASE TakeStashed \/ PutSelf \/ Stash
  <2>1. lost' = lost /\ room \in Rooms /\ Len(msgQ) \in Nat
    BY <1>1 DEF TakeStashed, PutSelf, Stash, PutStash, Base, TypeOK
  <2>2. room' = RoomPop(room, Len(msgQ)) \/ room' = RoomPut(room, Len(msgQ))
    BY <1>1 DEF TakeStashed, PutSelf, Stash, PutStash
  <2>3. room.cap > MaxCap => room'.cap > MaxCap
    BY <2>1, <2>2, OutgrownStays
  <2> QED
    BY <2>1, <2>3 DEF LossOK, Outgrown
<1>2. CASE PutSelfPanics \/ StashPanics
  BY <1>2, PanicNeedsOutgrown DEF PutSelfPanics, StashPanics, LossOK
<1>3. CASE UNCHANGED <<room, lost>>
  BY <1>3 DEF LossOK, Outgrown
<1> QED
  BY <1>1, <1>2, <1>3
     DEF Next, Cast, TakeReceived, CastSelf, RelaySelf, Forward, ForeignCast,
         ForwardForeign, BeginCall, EndCall, Finish, Crash, CloseChan, vars

\* Whatever detour a message takes - the stash of a call, the selfSender - it
\* is in exactly one place until it is taken or the channel is closed; a stash
\* that has outgrown its maximum may lose it, and then it is nowhere.
THEOREM EachOnce == Spec => []Consistent
<1>1. Spec => []Base
  BY BaseInit, BaseStep, PTL DEF Spec
<1>2. Spec => []Placed
  BY <1>1, PlacedInit, PlacedStep, PTL DEF Spec
<1>3. Spec => []Outgrew
  BY <1>1, OutgrewInit, OutgrewStep, PTL DEF Spec
<1>4. Init => LossOK
  BY DEF Init, LossOK
<1>5. Spec => []LossOK
  BY <1>1, <1>3, <1>4, LossStep, PTL DEF Spec
<1>6. Base /\ Placed /\ LossOK => Consistent
  BY PlacedMeans DEF Base, LossOK, NothingLost, Consistent
<1> QED
  BY <1>1, <1>2, <1>5, <1>6, PTL
=============================================================================
