----------------------------- MODULE CallReply -----------------------------
(***************************************************************************)
(* Calls between goroutines of one node (kernel/actor.go, context.go): how *)
(* a request reaches an actor, how its result finds the way back, and what *)
(* happens to results that come too late and to processes that exit.       *)
(*                                                                         *)
(* There are two kinds of calls.  A "fresh" one (CallTimeOut) makes an     *)
(* unbuffered result channel and closes it when it returns.  An "own" one  *)
(* (Context.Call) uses the callResult channel of the calling actor, which  *)
(* holds one result and lives as long as the actor.  A result carries the  *)
(* id of its call, and a result with another id is dropped.                *)
(***************************************************************************)
EXTENDS Naturals, Sequences

CONSTANTS Actors,     \* goroutines that run the loop of an actor
          Clients,    \* goroutines that only call
          Work,       \* a message that is not a request
          NoCall,     \* no call, no request, no result
          Kinds,      \* the kinds of calls the actors make
          ChanCap,    \* ActorChanCacheSize: capacity of pid.c
          MaxCall,    \* bound: calls each process makes
          MaxWork     \* bound: casts each actor receives

ASSUME DisjointAssumption == Actors \cap Clients = {}
ASSUME KindsAssumption == Kinds \subseteq {"own", "fresh"}
ASSUME BoundAssumption == ChanCap \in Nat \ {0} /\ MaxCall \in Nat /\ MaxWork \in Nat

Procs == Actors \cup Clients

\* makeCallID hands out a number nobody else has; here it is the number of the
\* call among the calls of its caller.
Calls == [by : Procs, n : 1..MaxCall, kind : {"own", "fresh"}, to : Actors]

ASSUME DistinctAssumption == Work \notin Calls /\ NoCall \notin Calls /\ Work # NoCall

VARIABLES pc,       \* where each goroutine is
          ch,       \* pid.c of each actor
          msgQ,     \* Context.msgQ of each actor
          box,      \* callResult of each actor: results not read yet
          call,     \* the call each process is making
          serving,  \* the request each actor is handling
          issued,   \* calls made so far
          answers,  \* per process, what its calls returned, in order
          casts     \* casts received so far

vars == <<pc, ch, msgQ, box, call, serving, issued, answers, casts>>

PCs == {"idle",      \* recMsg
        "running",   \* in a handler; a client always runs
        "sending",   \* callTimeOut: pid.c <- ci
        "waiting",   \* in recResult
        "replying",  \* in Reply: recCh <- r
        "exiting",   \* in exitFinal
        "dead"}      \* its channels are closed

Init == /\ pc = [p \in Procs |-> IF p \in Actors THEN "idle" ELSE "running"]
        /\ ch = [a \in Actors |-> <<>>]
        /\ msgQ = [a \in Actors |-> <<>>]
        /\ box = [a \in Actors |-> <<>>]
        /\ call = [p \in Procs |-> NoCall]
        /\ serving = [a \in Actors |-> NoCall]
        /\ issued = [p \in Procs |-> 0]
        /\ answers = [p \in Procs |-> <<>>]
        /\ casts = [a \in Actors |-> 0]

Go(p, where) == pc' = [pc EXCEPT ![p] = where]

-----------------------------------------------------------------------------
(* The caller *)

\* Somebody casts work to an actor.
Cast(a) == /\ casts[a] < MaxWork
           /\ casts' = [casts EXCEPT ![a] = @ + 1]
           /\ IF pc[a] = "dead" THEN UNCHANGED ch
              ELSE /\ Len(ch[a]) < ChanCap
                   /\ ch' = [ch EXCEPT ![a] = Append(@, Work)]
           /\ UNCHANGED <<pc, msgQ, box, call, serving, issued, answers>>

\* callTimeOut: a new call id; the channel for the result is chosen.  An actor
\* that calls itself waits for its own timer; no code here does so.
BeginCall(p, a, kind) ==
  /\ pc[p] = "running"
  /\ a # p
  /\ issued[p] < MaxCall
  /\ kind \in IF p \in Actors THEN Kinds ELSE {"fresh"}
  /\ issued' = [issued EXCEPT ![p] = @ + 1]
  /\ call' = [call EXCEPT ![p] = [by |-> p, n |-> issued[p] + 1, kind |-> kind, to |-> a]]
  /\ Go(p, "sending")
  /\ UNCHANGED <<ch, msgQ, box, serving, answers, casts>>

\* pid.c <- ci: blocks while the channel is full, and nothing limits how long.
Send(p) ==
  /\ pc[p] = "sending"
  /\ LET a == call[p].to IN
       /\ pc[a] # "dead"
       /\ Len(ch[a]) < ChanCap
       /\ ch' = [ch EXCEPT ![a] = Append(@, call[p])]
  /\ Go(p, "waiting")
  /\ UNCHANGED <<msgQ, box, call, serving, issued, answers, casts>>

\* The call returns r; for a fresh call the deferred close(rc) closes its channel.
Return(p, r) == /\ answers' = [answers EXCEPT ![p] = Append(@, r)]
                /\ call' = [call EXCEPT ![p] = NoCall]

\* The channel is closed: the send panics, callTimeOut recovers and returns
\* false.  This also ends a send that was already blocked.
SendFails(p) ==
  /\ pc[p] = "sending"
  /\ pc[call[p].to] = "dead"
  /\ Return(p, NoCall)
  /\ Go(p, "running")
  /\ UNCHANGED <<ch, msgQ, box, serving, issued, casts>>

\* Mutant: the id of the result is not compared.
ReceiveAny(p) ==
  /\ pc[p] = "waiting"
  /\ call[p].kind = "own"
  /\ box[p] # <<>>
  /\ box' = [box EXCEPT ![p] = Tail(@)]
  /\ Return(p, Head(box[p])) /\ Go(p, "running")
  /\ UNCHANGED <<ch, msgQ, serving, issued, casts>>

\* recResult on the actor's own channel: a result of another call is dropped.
Receive(p) ==
  /\ pc[p] = "waiting"
  /\ call[p].kind = "own"
  /\ box[p] # <<>>
  /\ box' = [box EXCEPT ![p] = Tail(@)]
  /\ IF Head(box[p]) = call[p]
       THEN Return(p, call[p]) /\ Go(p, "running")
       ELSE UNCHANGED <<pc, call, answers>>
  /\ UNCHANGED <<ch, msgQ, serving, issued, casts>>

\* Context.recResult also empties the mailbox into the stash.  The stash has room:
\* Mailbox has the Put that panics after narrow.
Stash(a) ==
  /\ pc[a] = "waiting"
  /\ ch[a] # <<>>
  /\ msgQ' = [msgQ EXCEPT ![a] = Append(@, Head(ch[a]))]
  /\ ch' = [ch EXCEPT ![a] = Tail(@)]
  /\ UNCHANGED <<pc, box, call, serving, issued, answers, casts>>

\* Mutant: a call without a timer.
TimeoutNever(p) == pc[p] = "timer" /\ UNCHANGED vars

\* The timer of recResult fires.
Timeout(p) ==
  /\ pc[p] = "waiting"
  /\ Return(p, NoCall)
  /\ Go(p, "running")
  /\ UNCHANGED <<ch, msgQ, box, serving, issued, casts>>

-----------------------------------------------------------------------------
(* The callee *)

\* recMsg: the stash first, then the channel; a request makes the handler run
\* for it, everything else is cast.
Take(a) ==
  /\ pc[a] = "idle"
  /\ \/ /\ msgQ[a] # <<>>
        /\ serving' = [serving EXCEPT ![a] = Head(msgQ[a])]
        /\ msgQ' = [msgQ EXCEPT ![a] = Tail(@)]
        /\ UNCHANGED ch
     \/ /\ msgQ[a] = <<>> /\ ch[a] # <<>>
        /\ serving' = [serving EXCEPT ![a] = Head(ch[a])]
        /\ ch' = [ch EXCEPT ![a] = Tail(@)]
        /\ UNCHANGED msgQ
  /\ Go(a, "running")
  /\ UNCHANGED <<box, call, issued, answers, casts>>

\* recMsg waiting for a message also reads callResult and drops what it finds.
DrainBox(a) ==
  /\ pc[a] = "idle"
  /\ msgQ[a] = <<>>
  /\ box[a] # <<>>
  /\ box' = [box EXCEPT ![a] = Tail(@)]
  /\ UNCHANGED <<pc, ch, msgQ, call, serving, issued, answers, casts>>

\* The handler returns: after HandleCast the loop goes on, after HandleCall it
\* replies.
HandlerReturns(a) ==
  /\ pc[a] = "running"
  /\ Go(a, IF serving[a] = Work THEN "idle" ELSE "replying")
  /\ serving' = IF serving[a] = Work THEN [serving EXCEPT ![a] = NoCall] ELSE serving
  /\ UNCHANGED <<ch, msgQ, box, call, issued, answers, casts>>

\* The handler panics and the ErrorHandler lets the loop go on: no reply.  A
\* HandleCall returns without one as well after ChangeCallMode; that it may call
\* Reply later is left out.
HandlerPanics(a) ==
  /\ pc[a] = "running"
  /\ Go(a, "idle")
  /\ serving' = [serving EXCEPT ![a] = NoCall]
  /\ UNCHANGED <<ch, msgQ, box, call, issued, answers, casts>>

\* Reply is done, the loop goes on.
Replied(a) == /\ pc[a] = "replying"
              /\ Go(a, "idle")
              /\ serving' = [serving EXCEPT ![a] = NoCall]
              /\ UNCHANGED <<ch, msgQ, issued, casts>>

\* Mutant: Reply sends again after its result was taken.
ReplyOwnTwice(a) == LET r == serving[a] IN
  /\ pc[a] = "replying"
  /\ r.kind = "own"
  /\ pc[r.by] # "dead"
  /\ Len(box[r.by]) < 1
  /\ box' = [box EXCEPT ![r.by] = Append(@, r)]
  /\ UNCHANGED <<pc, ch, msgQ, call, serving, issued, answers, casts>>

\* Reply to an own call: blocks while an unread result is in callResult.
ReplyOwn(a) == LET r == serving[a] IN
  /\ Replied(a)
  /\ r.kind = "own"
  /\ pc[r.by] # "dead"
  /\ Len(box[r.by]) < 1
  /\ box' = [box EXCEPT ![r.by] = Append(@, r)]
  /\ UNCHANGED <<call, answers>>

\* Reply to a fresh call whose caller is still there: the unbuffered channel
\* hands the result over.
ReplyFresh(a) == LET r == serving[a] IN
  /\ pc[a] = "replying"
  /\ r.kind = "fresh"
  /\ call[r.by] = r
  /\ Return(r.by, r)
  /\ pc' = [pc EXCEPT ![a] = "idle", ![r.by] = "running"]
  /\ serving' = [serving EXCEPT ![a] = NoCall]
  /\ UNCHANGED <<ch, msgQ, box, issued, casts>>

\* Mutant: Reply without its recover is stuck for good on a closed channel.
ReplyPanicsNever(a) == pc[a] = "closed" /\ UNCHANGED vars

\* Reply on a closed channel: the send panics and Reply recovers.
ReplyPanics(a) == LET r == serving[a] IN
  /\ Replied(a)
  /\ \/ r.kind = "own" /\ pc[r.by] = "dead"
     \/ r.kind = "fresh" /\ call[r.by] # r
  /\ UNCHANGED <<box, call, answers>>

\* The handler panics and the actor leaves the loop, or it handled an exit.
Exit(a) == /\ pc[a] = "running"
           /\ Go(a, "exiting")
           /\ UNCHANGED <<ch, msgQ, box, call, serving, issued, answers, casts>>

\* The end of exitFinal: close(callResult) and close(c).
Close(a) == /\ pc[a] = "exiting"
            /\ Go(a, "dead")
            /\ ch' = [ch EXCEPT ![a] = <<>>]
            /\ msgQ' = [msgQ EXCEPT ![a] = <<>>]
            /\ box' = [box EXCEPT ![a] = <<>>]
            /\ serving' = [serving EXCEPT ![a] = NoCall]
            /\ UNCHANGED <<call, issued, answers, casts>>

Next == \/ \E p \in Procs, a \in Actors, k \in {"own", "fresh"} : BeginCall(p, a, k)
        \/ \E p \in Procs : Send(p) \/ SendFails(p) \/ Timeout(p)
        \/ \E a \in Actors : \/ Cast(a) \/ Receive(a) \/ Stash(a) \/ Take(a)
                             \/ DrainBox(a) \/ HandlerReturns(a) \/ HandlerPanics(a)
                             \/ ReplyOwn(a) \/ ReplyFresh(a) \/ ReplyPanics(a)
                             \/ Exit(a) \/ Close(a)

Spec == Init /\ [][Next]_vars

(***************************************************************************)
(* Every goroutine that can go on does; timers fire; handlers return.      *)
(* Blocked senders of a Go channel are served in their order, so a send    *)
(* that is possible again and again happens (strong fairness).             *)
(***************************************************************************)
Fairness ==
  /\ \A p \in Procs : SF_vars(Send(p)) /\ WF_vars(SendFails(p)) /\ WF_vars(Timeout(p))
  /\ \A a \in Actors :
       /\ WF_vars(Receive(a)) /\ WF_vars(Stash(a)) /\ WF_vars(Take(a))
       /\ WF_vars(DrainBox(a)) /\ WF_vars(HandlerReturns(a))
       /\ SF_vars(ReplyOwn(a)) /\ WF_vars(ReplyFresh(a)) /\ WF_vars(ReplyPanics(a))
       /\ WF_vars(Close(a))

FairSpec == Spec /\ Fairness
-----------------------------------------------------------------------------
(* Properties *)

\* Type invariant; callResult never holds more than one result.
TypeOK ==
  /\ pc \in [Procs -> PCs]
  /\ ch \in [Actors -> Seq(Calls \cup {Work})]
  /\ msgQ \in [Actors -> Seq(Calls \cup {Work})]
  /\ box \in [Actors -> Seq(Calls)]
  /\ \A a \in Actors : Len(ch[a]) <= ChanCap /\ Len(box[a]) <= 1
  /\ call \in [Procs -> Calls \cup {NoCall}]
  /\ serving \in [Actors -> Calls \cup {Work, NoCall}]
  /\ issued \in [Procs -> 0..MaxCall]
  /\ answers \in [Procs -> Seq(Calls \cup {NoCall})]
  /\ casts \in [Actors -> 0..MaxWork]

\* callResult outlives the calls that use it and late results stay in it, yet
\* a call that succeeds returns the result of its own request, never that of
\* an earlier call that timed out (recResult, "not match callResult ID").
OwnResult == \A p \in Procs : \A n \in 1..Len(answers[p]) :
               answers[p][n] # NoCall => /\ answers[p][n].by = p
                                         /\ answers[p][n].n = n

InSeq(c, s) == \E i \in 1..Len(s) : s[i] = c

\* A request is in one place only, between the caller that sends it and the
\* call that returns its result: it is neither handled nor answered twice,
\* although it moves from the channel into the stash and its result may be
\* waiting in callResult while the call it belongs to is over.
InOnePlace == \A p \in Procs : \A c \in Calls : c.by = p =>
  LET places == {<<"ch", a>> : a \in {b \in Actors : InSeq(c, ch[b])}}
           \cup {<<"msgQ", a>> : a \in {b \in Actors : InSeq(c, msgQ[b])}}
           \cup {<<"serving", a>> : a \in {b \in Actors : serving[b] = c}}
           \cup {<<"box", a>> : a \in {b \in Actors : InSeq(c, box[b])}}
           \cup {<<"answers", q>> : q \in {r \in Procs : InSeq(c, answers[r])}}
  IN \A x, y \in places : x = y

\* Channels keep to their capacities, and every request is in one place.
Consistent == TypeOK /\ InOnePlace

\* A call always returns to its caller: with a result, because its time is
\* over, or because the callee is gone.
CallReturns == \A p \in Procs :
                 (pc[p] \in {"sending", "waiting"}) ~> (pc[p] = "running")

\* No actor is stuck in Reply because of what its caller does or fails to do
\* (actor.go:276: recMsg reads callResult so that a peer does not block).
ReplyReturns == \A a \in Actors : (pc[a] = "replying") ~> (pc[a] # "replying")
=============================================================================
