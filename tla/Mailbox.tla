------------------------------ MODULE Mailbox ------------------------------
(***************************************************************************)
(* One actor of kernel/actor.go and everything that puts messages into its *)
(* mailbox: other goroutines (Cast), the actor itself (Context.CastSelf)   *)
(* and the selfSender actor that forwards what CastSelf hands to it.       *)
(*                                                                         *)
(* A message waits in one of two places: the buffered channel pid.c, or    *)
(* the ring buffer msgQ, into which the actor moves what arrives while its *)
(* handler is blocked in a Call.  The loop serves msgQ before the channel. *)
(* A cast to a full channel blocks, so Cast is a guarded action; a cast to *)
(* a closed channel panics inside Cast, is recovered there and lost.       *)
(*                                                                         *)
(* There is one selfSender for all actors.  What it has to do for others   *)
(* stands in the same queue, and while one of them has a full mailbox it   *)
(* forwards nothing.                                                       *)
(*                                                                         *)
(* msgQ has the room of a SingleRingBuffer (RingRoom): once it has         *)
(* outgrown its maximum and was emptied, a Put may panic, and the message  *)
(* is lost.                                                                *)
(***************************************************************************)
EXTENDS RingRoom, Sequences, FiniteSets

CONSTANTS Senders,    \* goroutines that cast to the actor
          Self,       \* origin of the messages the actor casts to itself
          NoMsg,      \* no message is being handled
          Foreign,    \* a routerMsg of another actor
          ChanCap,    \* ActorChanCacheSize: capacity of pid.c
          RelayCap,   \* capacity of the selfSender's own mailbox
          MaxSend     \* bound: messages per origin

ASSUME SelfAssumption == Self \notin Senders
ASSUME CapAssumption == ChanCap \in Nat \ {0} /\ RelayCap \in Nat \ {0}
ASSUME MaxSendAssumption == MaxSend \in Nat

Origins == Senders \cup {Self}

\* An "exit" message is an actorOP carrying a *Terminate or an *initStop.
Msgs == [from : Origins, n : 1..MaxSend, op : {"user", "exit"}]

ASSUME NoMsgAssumption == NoMsg \notin Msgs /\ Foreign \notin Msgs

VARIABLES ch,      \* pid.c
          msgQ,    \* Context.msgQ
          room,    \* how large msgQ is, see RingRoom
          relay,   \* routerMsgs queued at the selfSender
          pc,      \* where the actor's goroutine is
          cur,     \* the message of the running handler
          pend,    \* argument of the CastSelf in progress
          sent,    \* messages sent so far, per origin
          done,    \* numbers of the messages taken so far, per origin
          lost     \* numbers of those a Put into msgQ panicked with

stash == <<msgQ, room>>
vars == <<ch, stash, relay, pc, cur, pend, sent, done, lost>>

PCs == {"idle",        \* top of the loop of recMsg
        "handling",    \* inside HandleCast / HandleCall
        "putting",     \* CastSelf saw an empty channel
        "relaying",    \* CastSelf is casting to the selfSender
        "calling",     \* inside Context.recResult
        "exiting",     \* inside exitFinal, the channel is still open
        "dead"}        \* the channel is closed

-----------------------------------------------------------------------------
Init == /\ ch = <<>> /\ msgQ = <<>> /\ room = NewRoom /\ relay = <<>>
        /\ pc = "idle" /\ cur = NoMsg /\ pend = NoMsg
        /\ sent = [f \in Origins |-> 0]
        /\ done = [f \in Origins |-> {}]
        /\ lost = [f \in Origins |-> {}]

\* The next message of origin f.
Fresh(f, op) == [from |-> f, n |-> sent[f] + 1, op |-> op]

\* pid.c <- msg on an open channel with room.
Deliver(m) == /\ Len(ch) < ChanCap
              /\ ch' = Append(ch, m)

\* Cast: blocks while the channel is full; on a closed channel the send
\* panics, the deferred recover swallows it and the message is gone.
Cast(s, op) == /\ sent[s] < MaxSend
               /\ sent' = [sent EXCEPT ![s] = @ + 1]
               /\ IF pc = "dead" THEN UNCHANGED ch ELSE Deliver(Fresh(s, op))
               /\ UNCHANGED <<stash, relay, pc, cur, pend, done, lost>>

\* The type switch of recMsg: an exit operation leaves the loop, everything
\* else runs a handler.
Dispatch(m) == /\ cur' = m
               /\ pc' = IF m.op = "exit" THEN "exiting" ELSE "handling"
               /\ done' = [done EXCEPT ![m.from] = @ \cup {m.n}]

\* Mutant: recMsg forgets the stash.
TakeStashedNever == FALSE /\ UNCHANGED vars

\* recMsg serves the stash first ...
TakeStashed == /\ pc = "idle"
               /\ msgQ # <<>>
               /\ Dispatch(Head(msgQ))
               /\ msgQ' = Tail(msgQ)
               /\ room' = RoomPop(room, Len(msgQ))
               /\ UNCHANGED <<ch, relay, pend, sent, lost>>

\* Mutant: the channel is served although the stash is not empty.
TakeReceivedEager == /\ pc = "idle"
                     /\ ch # <<>>
                     /\ Dispatch(Head(ch))
                     /\ ch' = Tail(ch)
                     /\ UNCHANGED <<stash, relay, pend, sent, lost>>

\* ... and receives from the channel only when the stash is empty.
TakeReceived == /\ pc = "idle"
                /\ msgQ = <<>>
                /\ ch # <<>>
                /\ Dispatch(Head(ch))
                /\ ch' = Tail(ch)
                /\ UNCHANGED <<stash, relay, pend, sent, lost>>

\* Mutant: the message always goes to msgQ, overtaking what is in the channel.
CastSelfUnchecked(op) == /\ pc = "handling"
                         /\ sent[Self] < MaxSend
                         /\ sent' = [sent EXCEPT ![Self] = @ + 1]
                         /\ pend' = Fresh(Self, op)
                         /\ pc' = "putting"
                         /\ UNCHANGED <<ch, stash, relay, cur, done, lost>>

\* CastSelf reads len(c.self.c), which another goroutine may change before
\* the message is put away; hence the two steps.
CastSelf(op) == /\ pc = "handling"
                /\ sent[Self] < MaxSend
                /\ sent' = [sent EXCEPT ![Self] = @ + 1]
                /\ pend' = Fresh(Self, op)
                /\ pc' = IF ch = <<>> THEN "putting" ELSE "relaying"
                /\ UNCHANGED <<ch, stash, relay, cur, done, lost>>

\* c.msgQ.Put(msg)
PutStash(m) == /\ HasRoom(room, Len(msgQ))
               /\ msgQ' = Append(msgQ, m)
               /\ room' = RoomPut(room, Len(msgQ))
               /\ lost' = lost

\* The slot behind the last value is gone since narrow: Put panics.
PutStashPanics(m) == /\ ~HasRoom(room, Len(msgQ))
                     /\ UNCHANGED stash
                     /\ lost' = [lost EXCEPT ![m.from] = @ \cup {m.n}]

PutSelf == /\ pc = "putting"
           /\ PutStash(pend)
           /\ pend' = NoMsg
           /\ pc' = "handling"
           /\ UNCHANGED <<ch, relay, cur, sent, done>>

\* The panic ends the handler; recMsg recovers, and the ErrorHandler decides
\* whether the actor goes on.
PutSelfPanics == /\ pc = "putting"
                 /\ PutStashPanics(pend)
                 /\ pend' = NoMsg
                 /\ \/ pc' = "idle" /\ cur' = NoMsg
                    \/ pc' = "exiting" /\ cur' = cur
                 /\ UNCHANGED <<ch, relay, sent, done>>

RelaySelf == /\ pc = "relaying"
             /\ Len(relay) < RelayCap
             /\ relay' = Append(relay, pend)
             /\ pend' = NoMsg
             /\ pc' = "handling"
             /\ UNCHANGED <<ch, stash, cur, sent, done, lost>>

\* Mutant: the selfSender does not consume the routerMsg.
ForwardTwice == /\ relay # <<>> /\ Head(relay) # Foreign
                /\ UNCHANGED relay
                /\ IF pc = "dead" THEN UNCHANGED ch ELSE Deliver(Head(relay))
                /\ UNCHANGED <<stash, pc, cur, pend, sent, done, lost>>

\* The selfSender casts the oldest routerMsg to its addressee; it blocks
\* while the addressee's channel is full.
Forward == /\ relay # <<>> /\ Head(relay) # Foreign
           /\ relay' = Tail(relay)
           /\ IF pc = "dead" THEN UNCHANGED ch ELSE Deliver(Head(relay))
           /\ UNCHANGED <<stash, pc, cur, pend, sent, done, lost>>

\* Another actor hands a message of its own to the selfSender.
ForeignCast == /\ Len(relay) < RelayCap
               /\ relay' = Append(relay, Foreign)
               /\ UNCHANGED <<ch, stash, pc, cur, pend, sent, done, lost>>

\* The other actor has room in its mailbox, or has closed it.
ForwardForeign == /\ relay # <<>> /\ Head(relay) = Foreign
                  /\ relay' = Tail(relay)
                  /\ UNCHANGED <<ch, stash, pc, cur, pend, sent, done, lost>>

\* A handler issues a Call and waits in Context.recResult.
BeginCall == /\ pc = "handling"
             /\ pc' = "calling"
             /\ UNCHANGED <<ch, stash, relay, cur, pend, sent, done, lost>>

\* While it waits it keeps emptying its channel into the stash, so that its
\* peers do not block.  Terminate callbacks run in exitFinal may call too.
Stash == /\ pc \in {"calling", "exiting"}
         /\ ch # <<>>
         /\ PutStash(Head(ch))
         /\ ch' = Tail(ch)
         /\ UNCHANGED <<relay, pc, cur, pend, sent, done>>

\* Here the deferred recover of callTimeOut swallows the panic: the call has
\* failed, the handler goes on, and the message is gone.  A call of Terminate
\* fails in the same way.
StashPanics == /\ pc \in {"calling", "exiting"}
               /\ ch # <<>>
               /\ PutStashPanics(Head(ch))
               /\ ch' = Tail(ch)
               /\ pc' = IF pc = "calling" THEN "handling" ELSE pc
               /\ UNCHANGED <<relay, cur, pend, sent, done>>

\* The result or the timeout ends the call.
EndCall == /\ pc = "calling"
           /\ pc' = "handling"
           /\ UNCHANGED <<ch, stash, relay, cur, pend, sent, done, lost>>

\* The handler returns, or panics and the ErrorHandler answers TRUE.
Finish == /\ pc = "handling"
          /\ pc' = "idle"
          /\ cur' = NoMsg
          /\ UNCHANGED <<ch, stash, relay, pend, sent, done, lost>>

\* The handler panics and there is no ErrorHandler, or it answers FALSE.
Crash == /\ pc = "handling"
         /\ pc' = "exiting"
         /\ UNCHANGED <<ch, stash, relay, cur, pend, sent, done, lost>>

\* The end of exitFinal: close(pid.c); what still waits is never handled.
CloseChan == /\ pc = "exiting"
             /\ pc' = "dead"
             /\ ch' = <<>> /\ msgQ' = <<>> /\ cur' = NoMsg
             /\ UNCHANGED <<room, relay, pend, sent, done, lost>>

Next == \/ \E s \in Senders, op \in {"user", "exit"} : Cast(s, op)
        \/ TakeStashed \/ TakeReceived
        \/ \E op \in {"user", "exit"} : CastSelf(op)
        \/ PutSelf \/ PutSelfPanics \/ RelaySelf
        \/ Forward \/ ForeignCast \/ ForwardForeign
        \/ BeginCall \/ Stash \/ StashPanics \/ EndCall
        \/ Finish \/ Crash \/ CloseChan

Spec == Init /\ [][Next]_vars

(***************************************************************************)
(* The Go scheduler runs every runnable goroutine: the actor's goes on     *)
(* wherever it stands, and a call ends at its timer, whether or not its    *)
(* wait has moved messages into the stash.  Handlers are assumed to return *)
(* (strong fairness, because a handler may leave "handling" for a nested   *)
(* call and come back).  Senders blocked on a Go channel are served first  *)
(* come first served, which makes Forward and RelaySelf strongly fair      *)
(* although other casts compete for the same slots.  Nothing is said of    *)
(* ForwardForeign: the other actor may leave its mailbox full for ever.    *)
(***************************************************************************)
Fairness == /\ WF_vars(\/ TakeStashed \/ TakeReceived \/ PutSelf \/ PutSelfPanics
                       \/ EndCall \/ CloseChan)
            /\ SF_vars(Finish)
            /\ SF_vars(RelaySelf) /\ SF_vars(Forward)

FairSpec == Spec /\ Fairness

-----------------------------------------------------------------------------
(* Properties *)

\* Type invariant: where each kind of value may be.
TypeOK == /\ ch \in Seq(Msgs) /\ Len(ch) <= ChanCap
          /\ msgQ \in Seq(Msgs) /\ room \in Rooms
          /\ relay \in Seq(Msgs \cup {Foreign}) /\ Len(relay) <= RelayCap
          /\ pc \in PCs
          /\ cur \in Msgs \cup {NoMsg}
          /\ pend \in Msgs \cup {NoMsg}
          /\ sent \in [Origins -> 0..MaxSend]
          /\ done \in [Origins -> SUBSET (1..MaxSend)]
          /\ lost \in [Origins -> SUBSET (1..MaxSend)]

\* The message CastSelf has decided to put at the end of the stash.
Putting == IF pc = "putting" THEN <<pend>> ELSE <<>>

\* All accepted messages in the order in which they will be taken.
Queue == msgQ \o Putting \o ch

\* The stash a Call fills must not let messages overtake each other: what one
\* goroutine casts is taken in the order in which it was cast, although part
\* of it waits in msgQ and part in the channel.
SenderFifo ==
  /\ \A i, j \in 1..Len(Queue) :
        i < j /\ Queue[i].from = Queue[j].from /\ Queue[i].from \in Senders
          => Queue[i].n < Queue[j].n
  /\ \A i \in 1..Len(Queue) : Queue[i].from \in Senders
          => \A k \in done[Queue[i].from] : k < Queue[i].n

Relayed(f, k) == \E i \in 1..Len(relay) :
                   relay[i] # Foreign /\ relay[i].from = f /\ relay[i].n = k

Waiting(f, k) ==
  \/ \E i \in 1..Len(Queue) : Queue[i].from = f /\ Queue[i].n = k
  \/ Relayed(f, k)
  \/ pc = "relaying" /\ pend.from = f /\ pend.n = k

\* Put can panic only when the stash has outgrown its maximum.
Outgrown == room.cap > MaxCap

\* Until the mailbox closes, a message that Cast or CastSelf accepted is
\* somewhere: in the channel, in the stash of a call, with the selfSender, or
\* already taken.  Only a stash that has outgrown its maximum loses some.
NothingLost ==
  /\ pc # "dead" => \A f \in Origins : \A k \in 1..sent[f] :
                       k \in done[f] \/ Waiting(f, k) \/ k \in lost[f]
  /\ \A f \in Origins : lost[f] # {} => Outgrown

\* No message is taken twice: it waits in one place only, and not after it
\* was taken, or the panic of Put has lost it.  The detour of CastSelf over the
\* selfSender is where a copy could appear.
AtMostOnce ==
  /\ \A i, j \in 1..Len(Queue) : Queue[i] = Queue[j] => i = j
  /\ \A i, j \in 1..Len(relay) : relay[i] = relay[j] => i = j \/ relay[i] = Foreign
  /\ \A i \in 1..Len(Queue), j \in 1..Len(relay) : Queue[i] # relay[j]
  /\ \A f \in Origins : \A k \in done[f] \cup lost[f] : ~Waiting(f, k)
  /\ \A f \in Origins : done[f] \cap lost[f] = {}

\* The mailbox is consistent at every step of a call, an exit or a detour over
\* the selfSender: no message it has accepted is there twice, and none is lost
\* but in a stash that has outgrown its maximum.
Consistent == TypeOK /\ NothingLost /\ AtMostOnce

\* The two-level mailbox implements the plain one: CastSelf and Cast append,
\* the loop takes from the front, and moving a message into the stash is not
\* visible.
Abs == INSTANCE FifoMailbox
         WITH queue <- Queue, cur <- cur, open <- (pc # "dead"), outgrown <- Outgrown,
              Msgs <- Msgs, NoMsg <- NoMsg, StashMax <- MaxCap
RefinesFifo == Abs!Spec

\* The actor waits in CastSelf for room at the selfSender, the selfSender for
\* room in the actor's channel: neither ever moves again.
Jammed == /\ pc = "relaying" /\ Len(relay) = RelayCap /\ Len(ch) = ChanCap
          /\ Head(relay) # Foreign

\* What f has sent and the actor has not taken.
Unserved(f) == 1..sent[f] \ (done[f] \cup lost[f])

\* The selfSender waits for room in the mailbox of another actor, and the
\* messages of f, or the CastSelf of a handler, wait for the selfSender.
HeldUp(f) == /\ relay # <<>> /\ Head(relay) = Foreign
             /\ pc = "relaying" \/ \A k \in Unserved(f) : Relayed(f, k)

\* Every message that was sent is eventually taken, in particular one that was
\* moved into the stash while a call was pending or that took the detour over
\* the selfSender.  The only ways out are the exit of the actor, the panic of
\* Put, the jam of CastSelf when both queues are full, and another actor that
\* leaves its full mailbox in the way of the selfSender for ever.
Delivered == \A f \in Origins :
               (Unserved(f) # {}) ~> (\/ Unserved(f) = {}
                                      \/ pc \in {"exiting", "dead"}
                                      \/ Jammed
                                      \/ []HeldUp(f))
=============================================================================
