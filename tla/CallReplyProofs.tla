-------------------------- MODULE CallReplyProofs --------------------------
(***************************************************************************)
(* Proofs about CallReply, for any set of processes, any mix of the two    *)
(* kinds of calls and any bounds: type correctness, OwnResult, and that a  *)
(* request is in one place from its send to the return of its call.        *)
(***************************************************************************)
EXTENDS CallReply, TLAPS

InCall(p) == pc[p] \in {"sending", "waiting"}

\* The call a process is making is its latest one.
CallOK == \A p \in Procs :
            IF InCall(p) THEN /\ call[p] \in Calls
                              /\ call[p].by = p
                              /\ call[p].n = issued[p]
                         ELSE call[p] = NoCall

\* All earlier calls have returned.
AnswersOK == \A p \in Procs :
               Len(answers[p]) = IF InCall(p) THEN issued[p] - 1 ELSE issued[p]

\* A handler runs for a message, and only a request is replied to.
ServingOK == \A a \in Actors :
  /\ pc[a] \in {"running", "sending", "waiting", "replying"} => serving[a] # NoCall
  /\ pc[a] = "replying" => serving[a] \in Calls

Base == TypeOK /\ CallOK /\ AnswersOK /\ ServingOK

\* OwnResult alone is not inductive: that the n-th answer is that of the n-th
\* call needs that calls are answered one after the other.
IInv == Base /\ OwnResult

-----------------------------------------------------------------------------
LEMMA ActorsAreProcs == \A a \in Actors : a \in Procs
  BY DEF Procs

LEMMA CallFields ==
  ASSUME NEW c \in Calls
  PROVE  /\ c.by \in Procs /\ c.to \in Actors /\ c.to \in Procs
         /\ c.n \in 1..MaxCall /\ c.n \in Nat
         /\ c # NoCall /\ c # Work
  BY DistinctAssumption, BoundAssumption DEF Calls, Procs

\* The shape of most steps: one goroutine moves between two places that are
\* both outside, or both inside, of a call.
LEMMA MoveOK ==
  ASSUME CallOK, AnswersOK, TypeOK, NEW p \in Procs, NEW w \in PCs, Go(p, w),
         InCall(p) <=> w \in {"sending", "waiting"},
         UNCHANGED <<call, issued, answers>>
  PROVE  CallOK' /\ AnswersOK' /\ pc' \in [Procs -> PCs]
<1>1. \A q \in Procs : InCall(q)' <=> InCall(q)
  BY DEF Go, InCall, TypeOK
<1> QED
  BY <1>1 DEF CallOK, AnswersOK, TypeOK, Go

\* The other shape: the call of p returns.
LEMMA ReturnOK ==
  ASSUME IInv, NEW p \in Procs, InCall(p), NEW r, r = NoCall \/ r = call[p],
         Return(p, r), UNCHANGED issued,
         pc' \in [Procs -> PCs], ~ InCall(p)',
         \A q \in Procs \ {p} : InCall(q)' <=> InCall(q)
  PROVE  /\ CallOK' /\ AnswersOK' /\ OwnResult'
         /\ answers' \in [Procs -> Seq(Calls \cup {NoCall})]
         /\ call' \in [Procs -> Calls \cup {NoCall}]
<1>1. /\ call[p] \in Calls /\ call[p].by = p /\ call[p].n = issued[p]
      /\ r \in Calls \cup {NoCall}
  BY DEF IInv, Base, CallOK
<1>2. /\ answers[p] \in Seq(Calls \cup {NoCall})
      /\ issued[p] \in Nat
      /\ Len(answers[p]) = issued[p] - 1
  BY BoundAssumption DEF IInv, Base, TypeOK, AnswersOK
<1>3. /\ \A q \in Procs : answers'[q] = IF q = p THEN Append(answers[p], r) ELSE answers[q]
      /\ \A q \in Procs : call'[q] = IF q = p THEN NoCall ELSE call[q]
      /\ answers' \in [Procs -> Seq(Calls \cup {NoCall})]
      /\ call' \in [Procs -> Calls \cup {NoCall}]
  BY <1>1, <1>2 DEF Return, IInv, Base, TypeOK
<1>4. /\ Len(answers'[p]) = issued[p]
      /\ \A n \in 1..Len(answers[p]) : answers'[p][n] = answers[p][n]
      /\ answers'[p][issued[p]] = r
      /\ \A n \in 1..Len(answers'[p]) : n \in 1..Len(answers[p]) \/ n = issued[p]
  <2>1. answers'[p] = Append(answers[p], r)
    BY <1>3
  <2>2. /\ Len(answers'[p]) = Len(answers[p]) + 1
        /\ \A n \in 1..Len(answers[p]) : answers'[p][n] = answers[p][n]
        /\ answers'[p][Len(answers[p]) + 1] = r
    BY <1>1, <1>2, <2>1
  <2>3. Len(answers[p]) \in Nat
    BY <1>2
  <2> QED
    BY <1>2, <2>2, <2>3
<1>5. CallOK'
  BY <1>3 DEF IInv, Base, CallOK
<1>6. AnswersOK'
  BY <1>3, <1>4 DEF IInv, Base, AnswersOK
<1>7. OwnResult'
  <2> SUFFICES ASSUME NEW q \in Procs, NEW n \in 1..Len(answers'[q]), answers'[q][n] # NoCall
               PROVE  answers'[q][n].by = q /\ answers'[q][n].n = n
    BY DEF OwnResult
  <2>1. CASE q # p
    <3>1. answers'[q] = answers[q]
      BY <1>3, <2>1
    <3> QED
      BY <3>1 DEF IInv, OwnResult
  <2>2. CASE q = p /\ n \in 1..Len(answers[p])
    <3>1. answers'[p][n] = answers[p][n] /\ answers[p][n] # NoCall
      BY <1>4, <2>2
    <3>2. answers[p][n].by = p /\ answers[p][n].n = n
      BY <2>2, <3>1 DEF IInv, OwnResult
    <3> QED
      BY <2>2, <3>1, <3>2
  <2>3. CASE q = p /\ n = issued[p]
    BY <1>1, <1>4, <2>3
  <2> QED
    BY <1>4, <2>1, <2>2, <2>3
<1> QED
  BY <1>3, <1>5, <1>6, <1>7

LEMMA InitOK == Init => IInv
<1> SUFFICES ASSUME Init PROVE IInv
  OBVIOUS
<1>1. TypeOK
  BY BoundAssumption DEF Init, TypeOK, PCs, Procs
<1>2. \A p \in Procs : /\ ~ InCall(p) /\ call[p] = NoCall
                       /\ Len(answers[p]) = 0 /\ issued[p] = 0
  BY DEF Init, InCall
<1>3. ServingOK
  BY DisjointAssumption, ActorsAreProcs DEF Init, ServingOK
<1> QED
  BY <1>1, <1>2, <1>3 DEF IInv, Base, CallOK, AnswersOK, OwnResult

\* What TypeOK says about the queues of the actors, the part most steps touch.
QueuesOK ==
  /\ ch \in [Actors -> Seq(Calls \cup {Work})]
  /\ msgQ \in [Actors -> Seq(Calls \cup {Work})]
  /\ box \in [Actors -> Seq(Calls)]
  /\ \A a \in Actors : Len(ch[a]) <= ChanCap /\ Len(box[a]) <= 1
  /\ serving \in [Actors -> Calls \cup {Work, NoCall}]
  /\ casts \in [Actors -> 0..MaxWork]

RestOK == /\ call \in [Procs -> Calls \cup {NoCall}]
          /\ issued \in [Procs -> 0..MaxCall]
          /\ answers \in [Procs -> Seq(Calls \cup {NoCall})]

LEMMA TypeSplit == TypeOK <=> pc \in [Procs -> PCs] /\ QueuesOK /\ RestOK
  BY DEF TypeOK, QueuesOK, RestOK

LEMMA Assemble ==
  ASSUME pc' \in [Procs -> PCs], QueuesOK', RestOK', CallOK', AnswersOK',
         ServingOK', OwnResult'
  PROVE  IInv'
  BY DEF IInv, Base, TypeOK, QueuesOK, RestOK

\* A step that leaves calls and answers alone and moves no goroutine.
LEMMA StayOK ==
  ASSUME IInv, UNCHANGED <<pc, call, issued, answers, serving>>, QueuesOK'
  PROVE  IInv'
<1>1. pc' \in [Procs -> PCs] /\ RestOK'
  BY DEF IInv, Base, TypeOK, RestOK
<1>2. CallOK' /\ AnswersOK' /\ ServingOK' /\ OwnResult'
  BY DEF IInv, Base, CallOK, AnswersOK, ServingOK, OwnResult, InCall
<1> QED
  BY <1>1, <1>2, Assemble

\* A step that moves one goroutine, not across the border of a call.
LEMMA MoveStep ==
  ASSUME IInv, NEW p \in Procs, NEW w \in PCs, Go(p, w),
         InCall(p) <=> w \in {"sending", "waiting"},
         UNCHANGED <<call, issued, answers>>, QueuesOK', ServingOK'
  PROVE  IInv'
<1>1. CallOK' /\ AnswersOK' /\ pc' \in [Procs -> PCs]
  BY MoveOK DEF IInv, Base
<1>2. RestOK' /\ OwnResult'
  BY DEF IInv, Base, TypeOK, RestOK, OwnResult
<1> QED
  BY <1>1, <1>2, Assemble

\* A step in which the call of p returns r and nothing else changes but box.
LEMMA ReturnStep ==
  ASSUME IInv, NEW p \in Procs, InCall(p), NEW r, r = NoCall \/ r = call[p],
         Return(p, r), Go(p, "running"), UNCHANGED <<issued, serving>>, QueuesOK'
  PROVE  IInv'
<1>1. /\ pc' \in [Procs -> PCs] /\ ~ InCall(p)'
      /\ \A q \in Procs \ {p} : InCall(q)' <=> InCall(q)
  BY DEF IInv, Base, TypeOK, Go, InCall, PCs
<1>2. ServingOK'
  BY DEF IInv, Base, TypeOK, ServingOK, Go, InCall, Procs
<1>3. issued' \in [Procs -> 0..MaxCall]
  BY DEF IInv, Base, TypeOK
<1> QED
  BY <1>1, <1>2, <1>3, ReturnOK, Assemble DEF RestOK

LEMMA BeginStep ==
  ASSUME IInv, NEW p \in Procs, NEW a \in Actors, NEW k \in {"own", "fresh"},
         BeginCall(p, a, k)
  PROVE  IInv'
<1>1. pc \in [Procs -> PCs] /\ QueuesOK /\ RestOK
  BY TypeSplit DEF IInv, Base
<1>2. /\ issued[p] \in Nat /\ issued[p] + 1 \in 1..MaxCall
      /\ pc[p] = "running"
  BY <1>1, BoundAssumption DEF BeginCall, RestOK
<1> DEFINE c == [by |-> p, n |-> issued[p] + 1, kind |-> k, to |-> a]
<1>3. c \in Calls /\ c.by = p /\ c.n = issued[p] + 1
  BY <1>2 DEF Calls
<1>4. /\ pc' = [pc EXCEPT ![p] = "sending"]
      /\ issued' = [issued EXCEPT ![p] = issued[p] + 1]
      /\ call' = [call EXCEPT ![p] = c]
      /\ UNCHANGED <<ch, msgQ, box, serving, answers, casts>>
  BY DEF BeginCall, Go
<1> HIDE DEF c
<1>5. QueuesOK'
  BY <1>1, <1>4 DEF QueuesOK
<1>6. RestOK'
  BY <1>1, <1>2, <1>3, <1>4 DEF RestOK
<1>7. pc' \in [Procs -> PCs]
  BY <1>1, <1>4 DEF PCs
<1>8. \A q \in Procs : /\ InCall(q)' <=> (q = p \/ InCall(q))
                       /\ call'[q] = IF q = p THEN c ELSE call[q]
                       /\ issued'[q] = IF q = p THEN issued[p] + 1 ELSE issued[q]
  BY <1>1, <1>4 DEF InCall, RestOK
<1>9. CallOK'
  BY <1>3, <1>8 DEF IInv, Base, CallOK
<1>10. AnswersOK'
  BY <1>2, <1>4, <1>8 DEF IInv, Base, AnswersOK, InCall
<1>11. ServingOK' /\ OwnResult'
  BY <1>1, <1>2, <1>4 DEF IInv, Base, ServingOK, OwnResult, Procs
<1> QED
  BY <1>5, <1>6, <1>7, <1>9, <1>10, <1>11, Assemble

\* The result of a fresh call goes from the replying actor to the caller in
\* one step of both.
LEMMA ReplyFreshStep ==
  ASSUME IInv, NEW a \in Actors, ReplyFresh(a)
  PROVE  IInv'
<1>1. pc \in [Procs -> PCs] /\ QueuesOK /\ RestOK
  BY TypeSplit DEF IInv, Base
<1>0. PICK r \in Calls, p \in Procs : r = serving[a] /\ p = r.by
  BY CallFields DEF ReplyFresh, IInv, Base, ServingOK
<1>2. /\ call[p] = r /\ r # NoCall
      /\ a \in Procs /\ pc[a] = "replying"
  BY <1>0, CallFields DEF ReplyFresh, Procs
<1>3. InCall(p) /\ ~ InCall(a)
  BY <1>2 DEF IInv, Base, CallOK, InCall
<1>4. /\ pc' = [pc EXCEPT ![a] = "idle", ![p] = "running"]
      /\ serving' = [serving EXCEPT ![a] = NoCall]
      /\ Return(p, r)
      /\ UNCHANGED <<ch, msgQ, box, issued, casts>>
  BY <1>0 DEF ReplyFresh
<1>5. /\ pc' \in [Procs -> PCs] /\ ~ InCall(p)'
      /\ \A q \in Procs \ {p} : InCall(q)' <=> InCall(q)
  <2>1. \A q \in Procs : pc'[q] = IF q = p THEN "running"
                                  ELSE IF q = a THEN "idle" ELSE pc[q]
    BY <1>1, <1>2, <1>4
  <2>2. pc' \in [Procs -> PCs]
    BY <1>1, <1>2, <1>4 DEF PCs
  <2>3. ASSUME NEW q \in Procs \ {p} PROVE InCall(q)' <=> InCall(q)
    <3>1. CASE q = a
      BY <1>3, <2>1, <3>1 DEF InCall
    <3>2. CASE q # a
      BY <2>1, <3>2 DEF InCall
    <3> QED
      BY <3>1, <3>2
  <2>4. ~ InCall(p)'
    BY <1>2, <2>1 DEF InCall
  <2> QED
    BY <2>2, <2>3, <2>4
<1>6. QueuesOK' /\ issued' \in [Procs -> 0..MaxCall]
  BY <1>1, <1>4 DEF QueuesOK, RestOK
<1>7. ServingOK'
  BY <1>1, <1>2, <1>3, <1>4 DEF IInv, Base, ServingOK, InCall, QueuesOK, Procs
<1>8. /\ CallOK' /\ AnswersOK' /\ OwnResult'
      /\ answers' \in [Procs -> Seq(Calls \cup {NoCall})]
      /\ call' \in [Procs -> Calls \cup {NoCall}]
  BY <1>2, <1>3, <1>4, <1>5, ReturnOK
<1> QED
  BY <1>5, <1>6, <1>7, <1>8, Assemble DEF RestOK

LEMMA StepOK == IInv /\ [Next]_vars => IInv'
<1> SUFFICES ASSUME IInv, [Next]_vars PROVE IInv'
  OBVIOUS
<1>1. pc \in [Procs -> PCs] /\ QueuesOK /\ RestOK
  BY TypeSplit DEF IInv, Base
<1>2. \A p \in Procs : InCall(p) => call[p] \in Calls /\ call[p].to \in Actors
  BY CallFields DEF IInv, Base, CallOK
<1>3. ASSUME NEW a \in Actors, Cast(a) PROVE IInv'
  <2>1. ch' \in [Actors -> Seq(Calls \cup {Work})] /\ \A b \in Actors : Len(ch'[b]) <= ChanCap
    <3>1. CASE pc[a] = "dead"
      BY <1>1, <1>3, <3>1 DEF Cast, QueuesOK
    <3>2. CASE pc[a] # "dead"
      <4>1. Len(ch[a]) < ChanCap /\ ch' = [ch EXCEPT ![a] = Append(@, Work)]
        BY <1>3, <3>2 DEF Cast
      <4>2. /\ Append(ch[a], Work) \in Seq(Calls \cup {Work})
            /\ Len(Append(ch[a], Work)) <= ChanCap
        BY <1>1, <4>1, BoundAssumption DEF QueuesOK
      <4> QED
        BY <1>1, <4>1, <4>2 DEF QueuesOK
    <3> QED
      BY <3>1, <3>2
  <2>2. casts[a] + 1 \in 0..MaxWork
    BY <1>1, <1>3, BoundAssumption DEF Cast, QueuesOK
  <2>3. casts' \in [Actors -> 0..MaxWork] /\ UNCHANGED <<msgQ, box, serving>>
    BY <1>1, <1>3, <2>2 DEF Cast, QueuesOK
  <2>4. QueuesOK'
    BY <1>1, <2>1, <2>3 DEF QueuesOK
  <2> QED
    BY <1>3, <2>4, StayOK DEF Cast
<1>4. ASSUME NEW p \in Procs, NEW a \in Actors, NEW k \in {"own", "fresh"},
             BeginCall(p, a, k)
      PROVE  IInv'
  BY <1>4, BeginStep
<1>5. ASSUME NEW p \in Procs, Send(p) PROVE IInv'
  <2>1. InCall(p) /\ Go(p, "waiting") /\ UNCHANGED <<call, issued, answers, serving>>
    BY <1>5 DEF Send, InCall
  <2>2. QueuesOK'
    <3> DEFINE a == call[p].to
    <3>1. /\ a \in Actors /\ call[p] \in Calls
          /\ ch' = [ch EXCEPT ![a] = Append(@, call[p])] /\ Len(ch[a]) < ChanCap
          /\ UNCHANGED <<msgQ, box, serving, casts>>
      BY <1>2, <1>5, <2>1 DEF Send
    <3> HIDE DEF a
    <3>2. Append(ch[a], call[p]) \in Seq(Calls \cup {Work})
          /\ Len(Append(ch[a], call[p])) <= ChanCap
      BY <1>1, <3>1, BoundAssumption DEF QueuesOK
    <3> QED
      BY <1>1, <3>1, <3>2 DEF QueuesOK
  <2>3. ServingOK'
    BY <1>1, <2>1 DEF IInv, Base, ServingOK, InCall, Go, Procs
  <2> QED
    BY <2>1, <2>2, <2>3, MoveStep DEF PCs
<1>6. ASSUME NEW p \in Procs, SendFails(p) \/ Timeout(p) PROVE IInv'
  <2>1. /\ InCall(p) /\ Go(p, "running") /\ Return(p, NoCall)
        /\ UNCHANGED <<ch, msgQ, box, serving, issued, casts>>
    BY <1>6 DEF SendFails, Timeout, InCall
  <2>2. QueuesOK'
    BY <1>1, <2>1 DEF QueuesOK
  <2> QED
    BY <2>1, <2>2, ReturnStep
<1>7. ASSUME NEW a \in Actors, Receive(a) PROVE IInv'
  <2>0. a \in Procs /\ InCall(a)
    BY <1>7 DEF Receive, InCall, Procs
  <2>1. QueuesOK'
    <3>1. /\ Tail(box[a]) \in Seq(Calls) /\ Len(Tail(box[a])) <= 1
          /\ box' = [box EXCEPT ![a] = Tail(@)]
          /\ UNCHANGED <<ch, msgQ, serving, casts>>
      BY <1>1, <1>7 DEF Receive, QueuesOK
    <3> QED
      BY <1>1, <3>1 DEF QueuesOK
  <2>2. CASE Head(box[a]) = call[a]
    BY <1>7, <2>0, <2>1, <2>2, ReturnStep DEF Receive
  <2>3. CASE Head(box[a]) # call[a]
    BY <1>7, <2>1, <2>3, StayOK DEF Receive
  <2> QED
    BY <2>2, <2>3
<1>8. ASSUME NEW a \in Actors, Stash(a) PROVE IInv'
  <2>1. /\ Head(ch[a]) \in Calls \cup {Work}
        /\ Tail(ch[a]) \in Seq(Calls \cup {Work})
        /\ Len(Tail(ch[a])) <= ChanCap
    BY <1>1, <1>8, BoundAssumption DEF Stash, QueuesOK
  <2>2. Append(msgQ[a], Head(ch[a])) \in Seq(Calls \cup {Work})
    BY <1>1, <2>1 DEF QueuesOK
  <2>3. QueuesOK'
    BY <1>1, <1>8, <2>1, <2>2 DEF Stash, QueuesOK
  <2> QED
    BY <1>8, <2>3, StayOK DEF Stash
<1>9. ASSUME NEW a \in Actors, DrainBox(a) PROVE IInv'
  <2>1. Tail(box[a]) \in Seq(Calls) /\ Len(Tail(box[a])) <= 1
    BY <1>1, <1>9 DEF DrainBox, QueuesOK
  <2>2. QueuesOK'
    BY <1>1, <1>9, <2>1 DEF DrainBox, QueuesOK
  <2> QED
    BY <1>9, <2>2, StayOK DEF DrainBox
<1>10. ASSUME NEW a \in Actors, Take(a) PROVE IInv'
  <2>1. /\ a \in Procs /\ ~ InCall(a) /\ Go(a, "running")
        /\ UNCHANGED <<call, issued, answers>>
    BY <1>10 DEF Take, InCall, Procs
  <2>2. \A m \in Calls \cup {Work} : m # NoCall
    BY DistinctAssumption
  <2>3. QueuesOK' /\ serving' = [serving EXCEPT ![a] = serving'[a]] /\ serving'[a] # NoCall
    <3>1. CASE msgQ[a] # <<>> /\ msgQ' = [msgQ EXCEPT ![a] = Tail(@)]
               /\ serving' = [serving EXCEPT ![a] = Head(msgQ[a])] /\ UNCHANGED ch
      <4>1. Head(msgQ[a]) \in Calls \cup {Work} /\ Tail(msgQ[a]) \in Seq(Calls \cup {Work})
        BY <1>1, <3>1 DEF QueuesOK
      <4> QED
        BY <1>1, <1>10, <2>2, <3>1, <4>1 DEF Take, QueuesOK
    <3>2. CASE ch[a] # <<>> /\ ch' = [ch EXCEPT ![a] = Tail(@)]
               /\ serving' = [serving EXCEPT ![a] = Head(ch[a])] /\ UNCHANGED msgQ
      <4>1. /\ Head(ch[a]) \in Calls \cup {Work}
            /\ Tail(ch[a]) \in Seq(Calls \cup {Work})
            /\ Len(Tail(ch[a])) <= ChanCap
        BY <1>1, <3>2, BoundAssumption DEF QueuesOK
      <4> QED
        BY <1>1, <1>10, <2>2, <3>2, <4>1 DEF Take, QueuesOK
    <3> QED
      BY <1>10, <3>1, <3>2 DEF Take
  <2>4. ServingOK'
    BY <1>1, <2>1, <2>3 DEF IInv, Base, ServingOK, Go, QueuesOK, Procs
  <2> QED
    BY <2>1, <2>3, <2>4, MoveStep DEF PCs
<1>11. ASSUME NEW a \in Actors,
              \/ HandlerReturns(a) \/ HandlerPanics(a) \/ Exit(a)
              \/ ReplyPanics(a) \/ ReplyOwn(a) \/ Close(a)
       PROVE  IInv'
  <2>1. /\ a \in Procs /\ ~ InCall(a)
        /\ UNCHANGED <<call, issued, answers>>
        /\ \E w \in {"idle", "replying", "exiting", "dead"} : Go(a, w)
    BY <1>11 DEF HandlerReturns, HandlerPanics, Exit, ReplyPanics, ReplyOwn, Replied,
                 Close, InCall, Procs
  <2>2. QueuesOK'
    <3>1. CASE HandlerReturns(a) \/ HandlerPanics(a) \/ Exit(a)
      BY <1>1, <3>1 DEF HandlerReturns, HandlerPanics, Exit, QueuesOK
    <3>2. CASE ReplyPanics(a)
      BY <1>1, <3>2 DEF ReplyPanics, Replied, QueuesOK
    <3>3. CASE ReplyOwn(a)
      <4> DEFINE r == serving[a]
                 p == r.by
      <4>1. /\ r \in Calls /\ Len(box[p]) < 1
            /\ box' = [box EXCEPT ![p] = Append(@, r)]
            /\ serving' = [serving EXCEPT ![a] = NoCall]
            /\ UNCHANGED <<ch, msgQ, casts>>
        BY <3>3 DEF ReplyOwn, Replied, IInv, Base, ServingOK
      <4> HIDE DEF r, p
      <4>2. p \in Actors => Append(box[p], r) \in Seq(Calls) /\ Len(Append(box[p], r)) <= 1
        BY <1>1, <4>1 DEF QueuesOK
      <4> QED
        BY <1>1, <4>1, <4>2 DEF QueuesOK
    <3>4. CASE Close(a)
      BY <1>1, <3>4, BoundAssumption DEF Close, QueuesOK
    <3> QED
      BY <1>11, <3>1, <3>2, <3>3, <3>4
  <2>3. ServingOK'
    <3>1. CASE HandlerReturns(a)
      BY <1>1, <2>1, <3>1 DEF HandlerReturns, Go, IInv, Base, ServingOK, QueuesOK
    <3>2. CASE HandlerPanics(a) \/ Exit(a) \/ ReplyPanics(a) \/ ReplyOwn(a) \/ Close(a)
      BY <1>1, <2>1, <3>2 DEF HandlerPanics, Exit, ReplyPanics, ReplyOwn, Replied, Close,
                              Go, IInv, Base, ServingOK, QueuesOK
    <3> QED
      BY <1>11, <3>1, <3>2
  <2> QED
    BY <2>1, <2>2, <2>3, MoveStep DEF PCs
<1>12. ASSUME NEW a \in Actors, ReplyFresh(a) PROVE IInv'
  BY <1>12, ReplyFreshStep
<1>13. CASE UNCHANGED vars
  <2>1. QueuesOK'
    BY <1>1, <1>13 DEF vars, QueuesOK
  <2> QED
    BY <1>13, <2>1, StayOK DEF vars
<1> QED
  BY <1>3, <1>4, <1>5, <1>6, <1>7, <1>8, <1>9, <1>10, <1>11, <1>12, <1>13 DEF Next

\* Every channel stays within its capacity and holds only what the code sends
\* through it, in particular callResult at most one result.
THEOREM TypeCorrect == Spec => []TypeOK
<1>1. IInv => TypeOK
  BY DEF IInv, Base
<1> QED
  BY <1>1, InitOK, StepOK, PTL DEF Spec

\* A call that succeeds returns the result of its own request, however many
\* late results of earlier calls arrive in callResult.
THEOREM ResultIsOwn == Spec => []OwnResult
<1>1. IInv => OwnResult
  BY DEF IInv
<1> QED
  BY <1>1, InitOK, StepOK, PTL DEF Spec
-----------------------------------------------------------------------------
(* A request is in one place *)

PlaceKinds == {"ch", "msgQ", "serving", "box", "answers"}

\* Where a call can be, with whom.
At(k, a, c) == \/ k = "ch" /\ a \in Actors /\ InSeq(c, ch[a])
               \/ k = "msgQ" /\ a \in Actors /\ InSeq(c, msgQ[a])
               \/ k = "serving" /\ a \in Actors /\ serving[a] = c
               \/ k = "box" /\ a \in Actors /\ InSeq(c, box[a])
               \/ k = "answers" /\ a \in Procs /\ InSeq(c, answers[a])

Unique == \A c \in Calls : \A k, l \in PlaceKinds : \A a, b \in Procs :
            At(k, a, c) /\ At(l, b, c) => k = l /\ a = b

\* A mailbox does not hold a request twice.
Once(s) == \A i, j \in 1..Len(s) : s[i] = s[j] /\ s[i] # Work => i = j
QueuesOnce == \A a \in Actors : Once(ch[a]) /\ Once(msgQ[a])

\* What is anywhere was sent: it is not the call that is about to be.
SentOK == \A c \in Calls : \A k \in PlaceKinds : \A a \in Procs :
            At(k, a, c) => c.n <= issued[c.by] /\ ~ (pc[c.by] = "sending" /\ call[c.by] = c)

\* InOnePlace alone is not inductive: a second copy in the same mailbox would
\* move on by itself, and a request is sent only when it is nowhere yet.
PlaceOK == Unique /\ QueuesOnce /\ SentOK

LEMMA AddLast ==
  ASSUME NEW S, NEW s \in Seq(S), NEW e \in S
  PROVE  /\ \A c : InSeq(c, Append(s, e)) <=> InSeq(c, s) \/ c = e
         /\ Once(s) /\ (e = Work \/ ~ InSeq(e, s)) => Once(Append(s, e))
<1> DEFINE t == Append(s, e)
<1>1. /\ Len(s) \in Nat /\ Len(t) = Len(s) + 1 /\ t[Len(s) + 1] = e
      /\ \A i \in 1..Len(s) : t[i] = s[i] /\ i \in 1..Len(t)
      /\ Len(s) + 1 \in 1..Len(t)
  OBVIOUS
<1> HIDE DEF t
<1>2. \A i \in 1..Len(t) : i \in 1..Len(s) \/ i = Len(s) + 1
  BY <1>1
<1>3. \A c : InSeq(c, t) <=> InSeq(c, s) \/ c = e
  BY <1>1, <1>2 DEF InSeq
<1>4. ASSUME Once(s), e = Work \/ ~ InSeq(e, s) PROVE Once(t)
  BY <1>1, <1>2, <1>4 DEF Once, InSeq
<1> QED
  BY <1>3, <1>4 DEF t

LEMMA DropFirst ==
  ASSUME NEW S, NEW s \in Seq(S), s # <<>>
  PROVE  /\ \A c : InSeq(c, Tail(s)) => InSeq(c, s)
         /\ InSeq(Head(s), s)
         /\ Once(s) => /\ Once(Tail(s))
                       /\ Head(s) # Work => ~ InSeq(Head(s), Tail(s))
<1> DEFINE t == Tail(s)
<1>1. /\ Len(s) \in Nat /\ Len(t) = Len(s) - 1 /\ Head(s) = s[1] /\ 1 \in 1..Len(s)
      /\ \A i \in 1..Len(t) : t[i] = s[i + 1] /\ i + 1 \in 1..Len(s) /\ i + 1 # 1
  OBVIOUS
<1> HIDE DEF t
<1>2. \A c : InSeq(c, t) => InSeq(c, s)
  BY <1>1 DEF InSeq
<1>3. InSeq(Head(s), s)
  BY <1>1 DEF InSeq
<1>4. ASSUME Once(s) PROVE Once(t)
  <2> SUFFICES ASSUME NEW i \in 1..Len(t), NEW j \in 1..Len(t), t[i] = t[j], t[i] # Work
               PROVE  i = j
    BY DEF Once
  <2>1. i + 1 = j + 1
    BY <1>1, <1>4 DEF Once
  <2> QED
    BY <2>1
<1>5. ASSUME Once(s), Head(s) # Work PROVE ~ InSeq(Head(s), t)
  BY <1>1, <1>5 DEF Once, InSeq
<1> QED
  BY <1>2, <1>3, <1>4, <1>5 DEF t

\* A step that puts nothing anywhere.
LEMMA UniqueLess ==
  ASSUME Unique, \A c \in Calls, k \in PlaceKinds, a \in Procs : At(k, a, c)' => At(k, a, c)
  PROVE  Unique'
  BY DEF Unique

\* A step that begins no call, moves nobody into "sending" and puts nowhere
\* what has not been anywhere.
LEMMA SentStep ==
  ASSUME SentOK, issued' = issued,
         \A p \in Procs : pc'[p] = "sending" => pc[p] = "sending" /\ call'[p] = call[p],
         \A c \in Calls, k \in PlaceKinds, a \in Procs :
            At(k, a, c)' => \E l \in PlaceKinds, b \in Procs : At(l, b, c)
  PROVE  SentOK'
<1> SUFFICES ASSUME NEW c \in Calls, NEW k \in PlaceKinds, NEW a \in Procs, At(k, a, c)'
             PROVE  c.n <= issued'[c.by] /\ ~ (pc'[c.by] = "sending" /\ call'[c.by] = c)
  BY DEF SentOK
<1>1. PICK l \in PlaceKinds, b \in Procs : At(l, b, c)
  OBVIOUS
<1>2. c.n <= issued[c.by] /\ ~ (pc[c.by] = "sending" /\ call[c.by] = c) /\ c.by \in Procs
  BY <1>1, CallFields DEF SentOK
<1> QED
  BY <1>2

LEMMA PlaceInit == Init => PlaceOK
<1> SUFFICES ASSUME Init PROVE PlaceOK
  OBVIOUS
<1>1. \A c \in Calls, k \in PlaceKinds, a \in Procs : ~ At(k, a, c)
  <2>1. Len(<<>>) = 0 /\ 1..0 = {}
    OBVIOUS
  <2> QED
    BY <2>1, CallFields DEF Init, At, InSeq
<1>2. QueuesOnce
  <2>1. Once(<<>>)
    BY DEF Once
  <2> QED
    BY <2>1 DEF Init, QueuesOnce
<1> QED
  BY <1>1, <1>2 DEF PlaceOK, Unique, SentOK

\* Messages are the actors' own and answers the callers'.
LEMMA QueueTypes ==
  ASSUME TypeOK
  PROVE  /\ \A a \in Actors : /\ ch[a] \in Seq(Calls \cup {Work})
                              /\ msgQ[a] \in Seq(Calls \cup {Work})
                              /\ box[a] \in Seq(Calls) /\ Len(box[a]) <= 1
         /\ \A p \in Procs : answers[p] \in Seq(Calls \cup {NoCall})
  BY DEF TypeOK

\* The result of a call is appended to the answers of its caller.
LEMMA ReturnPlaces ==
  ASSUME TypeOK, NEW p \in Procs, NEW r \in Calls \cup {NoCall}, Return(p, r)
  PROVE  \A q \in Procs, c \in Calls :
           InSeq(c, answers'[q]) => InSeq(c, answers[q]) \/ (q = p /\ c = r)
<1>1. answers[p] \in Seq(Calls \cup {NoCall}) /\ DOMAIN answers = Procs
  BY DEF TypeOK
<1>2. \A q \in Procs : answers'[q] = IF q = p THEN Append(answers[p], r) ELSE answers[q]
  BY <1>1 DEF Return, TypeOK
<1>3. \A c : InSeq(c, Append(answers[p], r)) <=> InSeq(c, answers[p]) \/ c = r
  BY <1>1, AddLast
<1> QED
  BY <1>2, <1>3

LEMMA PlaceStep == IInv /\ PlaceOK /\ [Next]_vars => PlaceOK'
<1> SUFFICES ASSUME IInv, PlaceOK, [Next]_vars PROVE PlaceOK'
  OBVIOUS
<1>0. TypeOK /\ Unique /\ QueuesOnce /\ SentOK
  BY DEF IInv, Base, PlaceOK
<1>1. \A a \in Actors : /\ ch[a] \in Seq(Calls \cup {Work})
                        /\ msgQ[a] \in Seq(Calls \cup {Work})
                        /\ box[a] \in Seq(Calls) /\ Len(box[a]) <= 1
                        /\ Once(ch[a]) /\ Once(msgQ[a]) /\ a \in Procs
  BY <1>0, QueueTypes, ActorsAreProcs DEF QueuesOnce
<1>2. /\ \A c \in Calls : c # NoCall /\ c # Work
      /\ \A p \in Procs : InCall(p) => call[p] \in Calls /\ call[p].by = p /\ call[p].to \in Actors
  BY CallFields DEF IInv, Base, CallOK
<1>3. ASSUME NEW a \in Actors, Cast(a) PROVE PlaceOK'
  <2>1. \A b \in Actors : ch'[b] = ch[b] \/ ch'[b] = Append(ch[b], Work)
    BY <1>0, <1>3 DEF Cast, TypeOK
  <2>2. \A b \in Actors : /\ \A c \in Calls : InSeq(c, ch'[b]) => InSeq(c, ch[b])
                          /\ Once(ch'[b])
    <3> SUFFICES ASSUME NEW b \in Actors
                 PROVE  (\A c \in Calls : InSeq(c, ch'[b]) => InSeq(c, ch[b])) /\ Once(ch'[b])
      OBVIOUS
    <3>1. /\ \A c : InSeq(c, Append(ch[b], Work)) <=> InSeq(c, ch[b]) \/ c = Work
          /\ Once(Append(ch[b], Work))
      BY <1>1, AddLast
    <3> QED
      BY <1>1, <1>2, <2>1, <3>1
  <2>3. UNCHANGED <<pc, msgQ, box, call, serving, issued, answers>>
    BY <1>3 DEF Cast
  <2>4. \A c \in Calls, k \in PlaceKinds, b \in Procs : At(k, b, c)' => At(k, b, c)
    BY <2>2, <2>3 DEF At
  <2>5. QueuesOnce'
    BY <1>1, <2>2, <2>3 DEF QueuesOnce
  <2> QED
    BY <1>0, <2>3, <2>4, <2>5, UniqueLess, SentStep DEF PlaceOK
<1>4. ASSUME NEW p \in Procs, NEW a \in Actors, NEW k \in {"own", "fresh"}, BeginCall(p, a, k)
      PROVE  PlaceOK'
  <2>1. UNCHANGED <<ch, msgQ, box, serving, answers>>
    BY <1>4 DEF BeginCall
  <2>2. \A c \in Calls, l \in PlaceKinds, b \in Procs : At(l, b, c)' <=> At(l, b, c)
    BY <2>1 DEF At
  <2>3. Unique' /\ QueuesOnce'
    BY <1>0, <2>1, <2>2, UniqueLess DEF QueuesOnce
  <2>4. SentOK'
    <3> SUFFICES ASSUME NEW c \in Calls, NEW l \in PlaceKinds, NEW b \in Procs, At(l, b, c)'
                 PROVE  c.n <= issued'[c.by] /\ ~ (pc'[c.by] = "sending" /\ call'[c.by] = c)
      BY DEF SentOK
    <3>1. /\ c.by \in Procs /\ c.n \in Nat /\ c.n <= issued[c.by]
          /\ ~ (pc[c.by] = "sending" /\ call[c.by] = c)
      BY <1>0, <2>2, CallFields DEF SentOK
    <3>2. issued[p] \in Nat /\ issued' = [issued EXCEPT ![p] = @ + 1]
      BY <1>0, <1>4, BoundAssumption DEF BeginCall, TypeOK
    <3>3. CASE c.by = p
      <4>1. call'[p].n = issued[p] + 1 /\ issued'[p] = issued[p] + 1
        BY <1>0, <1>4, <3>2 DEF BeginCall, TypeOK
      <4> QED
        BY <3>1, <3>2, <3>3, <4>1
    <3>4. CASE c.by # p
      BY <1>0, <1>4, <3>1, <3>2, <3>4 DEF BeginCall, Go, TypeOK
    <3> QED
      BY <3>3, <3>4
  <2> QED
    BY <2>3, <2>4 DEF PlaceOK
<1>5. ASSUME NEW p \in Procs, Send(p) PROVE PlaceOK'
  <2>1. PICK m \in Calls, a \in Actors : m = call[p] /\ a = call[p].to
    BY <1>2, <1>5 DEF Send, InCall
  <2>2. /\ m.by = p /\ \A k \in PlaceKinds, b \in Procs : ~ At(k, b, m)
    BY <1>0, <1>2, <1>5, <2>1 DEF Send, InCall, SentOK
  <2>3. /\ ch' = [ch EXCEPT ![a] = Append(@, m)] /\ pc' = [pc EXCEPT ![p] = "waiting"]
        /\ UNCHANGED <<msgQ, box, call, serving, issued, answers>>
    BY <1>5, <2>1 DEF Send, Go
  <2>4. \A b \in Actors : ch'[b] = IF b = a THEN Append(ch[a], m) ELSE ch[b]
    BY <1>0, <2>3 DEF TypeOK
  <2>5. /\ \A c : InSeq(c, Append(ch[a], m)) <=> InSeq(c, ch[a]) \/ c = m
        /\ Once(Append(ch[a], m))
    <3>1. ~ InSeq(m, ch[a])
      BY <1>1, <2>2 DEF At, PlaceKinds
    <3> QED
      BY <1>1, <3>1, AddLast
  <2>6. \A c \in Calls, k \in PlaceKinds, b \in Procs :
          At(k, b, c)' => At(k, b, c) \/ (c = m /\ k = "ch" /\ b = a)
    BY <2>3, <2>4, <2>5 DEF At
  <2>7. Unique'
    BY <1>0, <2>2, <2>6 DEF Unique
  <2>8. QueuesOnce'
    BY <1>1, <2>3, <2>4, <2>5 DEF QueuesOnce
  <2>9. SentOK'
    <3> SUFFICES ASSUME NEW c \in Calls, NEW k \in PlaceKinds, NEW b \in Procs, At(k, b, c)'
                 PROVE  c.n <= issued'[c.by] /\ ~ (pc'[c.by] = "sending" /\ call'[c.by] = c)
      BY DEF SentOK
    <3>1. pc'[p] = "waiting" /\ \A q \in Procs \ {p} : pc'[q] = pc[q]
      BY <1>0, <2>3 DEF TypeOK
    <3>2. CASE c = m
      <4>1. m.n = issued[p] /\ issued[p] \in Nat
        BY <1>0, <1>5, <2>1, BoundAssumption DEF Send, IInv, Base, CallOK, InCall, TypeOK
      <4> QED
        BY <2>2, <2>3, <3>1, <3>2, <4>1
    <3>3. CASE c # m
      <4>1. c.by \in Procs /\ c.n <= issued[c.by] /\ ~ (pc[c.by] = "sending" /\ call[c.by] = c)
        BY <1>0, <2>6, <3>3, CallFields DEF SentOK
      <4> QED
        BY <2>3, <3>1, <4>1
    <3> QED
      BY <3>2, <3>3
  <2> QED
    BY <2>7, <2>8, <2>9 DEF PlaceOK
<1>6. ASSUME NEW p \in Procs, SendFails(p) \/ Timeout(p) PROVE PlaceOK'
  <2>1. /\ Return(p, NoCall) /\ pc' = [pc EXCEPT ![p] = "running"]
        /\ UNCHANGED <<ch, msgQ, box, serving, issued>>
    BY <1>6 DEF SendFails, Timeout, Go
  <2>2. \A q \in Procs, c \in Calls : InSeq(c, answers'[q]) => InSeq(c, answers[q])
    BY <1>0, <1>2, <2>1, ReturnPlaces
  <2>3. \A c \in Calls, k \in PlaceKinds, b \in Procs : At(k, b, c)' => At(k, b, c)
    BY <2>1, <2>2 DEF At
  <2>4. \A q \in Procs : pc'[q] = "sending" => pc[q] = "sending" /\ call'[q] = call[q]
    BY <1>0, <2>1 DEF Return, TypeOK
  <2>5. QueuesOnce'
    BY <1>0, <2>1 DEF QueuesOnce
  <2> QED
    BY <1>0, <2>1, <2>3, <2>4, <2>5, UniqueLess, SentStep DEF PlaceOK
<1>7. ASSUME NEW a \in Actors, Receive(a) PROVE PlaceOK'
  <2>1. /\ box[a] # <<>> /\ box' = [box EXCEPT ![a] = Tail(@)]
        /\ UNCHANGED <<ch, msgQ, serving, issued>>
        /\ pc[a] = "waiting"
    BY <1>7 DEF Receive
  <2>2. PICK m \in Calls : m = Head(box[a])
    BY <1>1, <2>1
  <2>3. \A b \in Actors : box'[b] = IF b = a THEN <<>> ELSE box[b]
    <3>1. Tail(box[a]) = <<>>
      BY <1>1, <2>1
    <3> QED
      BY <1>0, <2>1, <3>1 DEF TypeOK
  <2>4. At("box", a, m)
    BY <1>1, <2>1, <2>2, DropFirst DEF At
  <2>5. \A b \in Actors, c \in Calls : InSeq(c, box'[b]) => InSeq(c, box[b]) /\ b # a
    BY <2>3 DEF InSeq
  <2>6. QueuesOnce'
    BY <1>0, <2>1 DEF QueuesOnce
  <2>7. CASE m = call[a]
    <3>1. Return(a, m) /\ pc' = [pc EXCEPT ![a] = "running"]
      BY <1>7, <2>2, <2>7 DEF Receive, Go
    <3>2. \A q \in Procs, c \in Calls :
            InSeq(c, answers'[q]) => InSeq(c, answers[q]) \/ (q = a /\ c = m)
      BY <1>0, <1>1, <3>1, ReturnPlaces
    <3>3. \A c \in Calls, k \in PlaceKinds, b \in Procs :
            At(k, b, c)' => (At(k, b, c) /\ ~ (k = "box" /\ b = a))
                            \/ (c = m /\ k = "answers" /\ b = a)
      BY <2>1, <2>5, <3>2 DEF At
    <3>4. \A c \in Calls, k \in PlaceKinds, b \in Procs :
            At(k, b, c)' => IF c = m THEN k = "answers" /\ b = a ELSE At(k, b, c)
      BY <1>0, <1>1, <2>4, <3>3 DEF Unique, PlaceKinds
    <3>5. \A q \in Procs : pc'[q] = "sending" => pc[q] = "sending" /\ call'[q] = call[q]
      BY <1>0, <1>1, <3>1 DEF Return, TypeOK
    <3>6. Unique'
      BY <1>0, <3>4 DEF Unique
    <3>7. SentOK'
      BY <1>0, <1>1, <2>1, <2>4, <3>3, <3>5, SentStep DEF PlaceKinds
    <3> QED
      BY <2>6, <3>6, <3>7 DEF PlaceOK
  <2>8. CASE m # call[a]
    <3>1. UNCHANGED <<pc, call, answers>>
      BY <1>7, <2>2, <2>8 DEF Receive
    <3>2. \A c \in Calls, k \in PlaceKinds, b \in Procs : At(k, b, c)' => At(k, b, c)
      BY <2>1, <2>5, <3>1 DEF At
    <3> QED
      BY <1>0, <2>1, <2>6, <3>1, <3>2, UniqueLess, SentStep DEF PlaceOK
  <2> QED
    BY <2>7, <2>8
<1>8. ASSUME NEW a \in Actors, Stash(a) PROVE PlaceOK'
  <2>1. /\ ch[a] # <<>> /\ msgQ' = [msgQ EXCEPT ![a] = Append(@, Head(ch[a]))]
        /\ ch' = [ch EXCEPT ![a] = Tail(@)]
        /\ UNCHANGED <<pc, box, call, serving, issued, answers>>
    BY <1>8 DEF Stash
  <2>2. PICK m \in Calls \cup {Work} : m = Head(ch[a])
    BY <1>1, <2>1
  <2>3. /\ \A b \in Actors : ch'[b] = IF b = a THEN Tail(ch[a]) ELSE ch[b]
        /\ \A b \in Actors : msgQ'[b] = IF b = a THEN Append(msgQ[a], m) ELSE msgQ[b]
    BY <1>0, <2>1, <2>2 DEF TypeOK
  <2>4. /\ \A c : InSeq(c, Tail(ch[a])) => InSeq(c, ch[a])
        /\ InSeq(m, ch[a]) /\ Once(Tail(ch[a]))
        /\ m # Work => ~ InSeq(m, Tail(ch[a]))
    BY <1>1, <2>1, <2>2, DropFirst
  <2>5. m # Work => ~ InSeq(m, msgQ[a]) /\ At("ch", a, m)
    BY <1>0, <1>1, <2>4 DEF Unique, PlaceKinds, At
  <2>6. /\ \A c : InSeq(c, Append(msgQ[a], m)) <=> InSeq(c, msgQ[a]) \/ c = m
        /\ Once(Append(msgQ[a], m))
    BY <1>1, <2>5, AddLast
  <2>7. \A c \in Calls, k \in PlaceKinds, b \in Procs :
          At(k, b, c)' => (At(k, b, c) /\ ~ (k = "ch" /\ b = a /\ c = m))
                          \/ (c = m /\ k = "msgQ" /\ b = a)
    BY <1>2, <2>1, <2>3, <2>4, <2>6 DEF At
  <2>8. \A c \in Calls, k \in PlaceKinds, b \in Procs :
          At(k, b, c)' => IF c = m THEN k = "msgQ" /\ b = a ELSE At(k, b, c)
    BY <1>0, <1>1, <1>2, <2>5, <2>7 DEF Unique, PlaceKinds
  <2>9. Unique'
    BY <1>0, <2>8 DEF Unique
  <2>10. SentOK'
    BY <1>0, <1>1, <1>2, <2>1, <2>5, <2>7, SentStep DEF PlaceKinds
  <2>11. QueuesOnce'
    BY <1>1, <2>3, <2>4, <2>6 DEF QueuesOnce
  <2> QED
    BY <2>9, <2>10, <2>11 DEF PlaceOK
<1>9. ASSUME NEW a \in Actors, DrainBox(a) PROVE PlaceOK'
  <2>1. /\ box[a] # <<>> /\ box' = [box EXCEPT ![a] = Tail(@)]
        /\ UNCHANGED <<pc, ch, msgQ, call, serving, issued, answers>>
    BY <1>9 DEF DrainBox
  <2>2. \A b \in Actors, c \in Calls : InSeq(c, box'[b]) => InSeq(c, box[b])
    <3>1. \A b \in Actors : box'[b] = IF b = a THEN Tail(box[a]) ELSE box[b]
      BY <1>0, <2>1 DEF TypeOK
    <3>2. \A c : InSeq(c, Tail(box[a])) => InSeq(c, box[a])
      BY <1>1, <2>1, DropFirst
    <3> QED
      BY <3>1, <3>2
  <2>3. \A c \in Calls, k \in PlaceKinds, b \in Procs : At(k, b, c)' => At(k, b, c)
    BY <2>1, <2>2 DEF At
  <2>4. QueuesOnce'
    BY <1>0, <2>1 DEF QueuesOnce
  <2> QED
    BY <1>0, <2>1, <2>3, <2>4, UniqueLess, SentStep DEF PlaceOK
<1>10. ASSUME NEW a \in Actors, Take(a) PROVE PlaceOK'
  <2>1. /\ pc' = [pc EXCEPT ![a] = "running"] /\ UNCHANGED <<box, call, issued, answers>>
    BY <1>10 DEF Take, Go
  <2>2. \A q \in Procs : pc'[q] = "sending" => pc[q] = "sending" /\ call'[q] = call[q]
    BY <1>0, <2>1 DEF TypeOK
  <2>3. CASE /\ msgQ[a] # <<>> /\ serving' = [serving EXCEPT ![a] = Head(msgQ[a])]
             /\ msgQ' = [msgQ EXCEPT ![a] = Tail(@)] /\ UNCHANGED ch
    <3>1. PICK m \in Calls \cup {Work} : m = Head(msgQ[a])
      BY <1>1, <2>3
    <3>2. /\ \A b \in Actors : msgQ'[b] = IF b = a THEN Tail(msgQ[a]) ELSE msgQ[b]
          /\ \A b \in Actors : serving'[b] = IF b = a THEN m ELSE serving[b]
      BY <1>0, <2>3, <3>1 DEF TypeOK
    <3>3. /\ \A c : InSeq(c, Tail(msgQ[a])) => InSeq(c, msgQ[a])
          /\ InSeq(m, msgQ[a]) /\ Once(Tail(msgQ[a]))
          /\ m # Work => ~ InSeq(m, Tail(msgQ[a]))
      BY <1>1, <2>3, <3>1, DropFirst
    <3>4. \A c \in Calls, k \in PlaceKinds, b \in Procs :
            At(k, b, c)' => (At(k, b, c) /\ ~ (k = "msgQ" /\ b = a /\ c = m))
                            \/ (c = m /\ k = "serving" /\ b = a)
      BY <1>2, <2>1, <2>3, <3>2, <3>3 DEF At
    <3>5. m # Work => At("msgQ", a, m)
      BY <3>3 DEF At
    <3>6. \A c \in Calls, k \in PlaceKinds, b \in Procs :
            At(k, b, c)' => IF c = m THEN k = "serving" /\ b = a ELSE At(k, b, c)
      BY <1>0, <1>1, <1>2, <3>4, <3>5 DEF Unique, PlaceKinds
    <3>7. Unique'
      BY <1>0, <3>6 DEF Unique
    <3>8. SentOK'
      BY <1>0, <1>1, <1>2, <2>1, <2>2, <3>4, <3>5, SentStep DEF PlaceKinds
    <3>9. QueuesOnce'
      BY <1>1, <2>3, <3>2, <3>3 DEF QueuesOnce
    <3> QED
      BY <3>7, <3>8, <3>9 DEF PlaceOK
  <2>4. CASE /\ ch[a] # <<>> /\ serving' = [serving EXCEPT ![a] = Head(ch[a])]
             /\ ch' = [ch EXCEPT ![a] = Tail(@)] /\ UNCHANGED msgQ
    <3>1. PICK m \in Calls \cup {Work} : m = Head(ch[a])
      BY <1>1, <2>4
    <3>2. /\ \A b \in Actors : ch'[b] = IF b = a THEN Tail(ch[a]) ELSE ch[b]
          /\ \A b \in Actors : serving'[b] = IF b = a THEN m ELSE serving[b]
      BY <1>0, <2>4, <3>1 DEF TypeOK
    <3>3. /\ \A c : InSeq(c, Tail(ch[a])) => InSeq(c, ch[a])
          /\ InSeq(m, ch[a]) /\ Once(Tail(ch[a]))
          /\ m # Work => ~ InSeq(m, Tail(ch[a]))
      BY <1>1, <2>4, <3>1, DropFirst
    <3>4. \A c \in Calls, k \in PlaceKinds, b \in Procs :
            At(k, b, c)' => (At(k, b, c) /\ ~ (k = "ch" /\ b = a /\ c = m))
                            \/ (c = m /\ k = "serving" /\ b = a)
      BY <1>2, <2>1, <2>4, <3>2, <3>3 DEF At
    <3>5. m # Work => At("ch", a, m)
      BY <3>3 DEF At
    <3>6. \A c \in Calls, k \in PlaceKinds, b \in Procs :
            At(k, b, c)' => IF c = m THEN k = "serving" /\ b = a ELSE At(k, b, c)
      BY <1>0, <1>1, <1>2, <3>4, <3>5 DEF Unique, PlaceKinds
    <3>7. Unique'
      BY <1>0, <3>6 DEF Unique
    <3>8. SentOK'
      BY <1>0, <1>1, <1>2, <2>1, <2>2, <3>4, <3>5, SentStep DEF PlaceKinds
    <3>9. QueuesOnce'
      BY <1>1, <2>4, <3>2, <3>3 DEF QueuesOnce
    <3> QED
      BY <3>7, <3>8, <3>9 DEF PlaceOK
  <2> QED
    BY <1>10, <2>3, <2>4 DEF Take
<1>11. ASSUME NEW a \in Actors,
              HandlerReturns(a) \/ HandlerPanics(a) \/ Exit(a) \/ ReplyPanics(a) \/ Close(a)
       PROVE  PlaceOK'
  <2>1. /\ \E w \in {"idle", "replying", "exiting", "dead"} : pc' = [pc EXCEPT ![a] = w]
        /\ UNCHANGED <<call, issued, answers>>
        /\ serving' = serving \/ serving' = [serving EXCEPT ![a] = NoCall]
    BY <1>11 DEF HandlerReturns, HandlerPanics, Exit, ReplyPanics, Replied, Close, Go
  <2>2. \A b \in Actors : /\ ch'[b] = ch[b] \/ ch'[b] = <<>>
                          /\ msgQ'[b] = msgQ[b] \/ msgQ'[b] = <<>>
                          /\ box'[b] = box[b] \/ box'[b] = <<>>
    BY <1>0, <1>11 DEF HandlerReturns, HandlerPanics, Exit, ReplyPanics, Replied, Close, TypeOK
  <2>3. \A c : ~ InSeq(c, <<>>)
    BY DEF InSeq
  <2>4. Once(<<>>)
    BY DEF Once
  <2>5. \A b \in Actors, c \in Calls : serving'[b] = c => serving[b] = c
    BY <1>0, <1>2, <2>1 DEF TypeOK
  <2>6. \A c \in Calls, k \in PlaceKinds, b \in Procs : At(k, b, c)' => At(k, b, c)
    BY <2>1, <2>2, <2>3, <2>5 DEF At
  <2>7. QueuesOnce'
    BY <1>0, <2>2, <2>4 DEF QueuesOnce
  <2>8. \A q \in Procs : pc'[q] = "sending" => pc[q] = "sending" /\ call'[q] = call[q]
    BY <1>0, <2>1 DEF TypeOK
  <2> QED
    BY <1>0, <2>1, <2>6, <2>7, <2>8, UniqueLess, SentStep DEF PlaceOK
<1>12. ASSUME NEW a \in Actors, ReplyOwn(a) PROVE PlaceOK'
  <2>1. PICK m \in Calls, p \in Procs : m = serving[a] /\ p = m.by
    BY <1>12, CallFields DEF ReplyOwn, Replied, IInv, Base, ServingOK
  <2>2. /\ box' = [box EXCEPT ![p] = Append(@, m)] /\ pc' = [pc EXCEPT ![a] = "idle"]
        /\ serving' = [serving EXCEPT ![a] = NoCall]
        /\ UNCHANGED <<ch, msgQ, call, issued, answers>>
    BY <1>12, <2>1 DEF ReplyOwn, Replied, Go
  <2>3. /\ \A b \in Actors : box'[b] = IF b = p THEN Append(box[p], m) ELSE box[b]
        /\ \A b \in Actors : serving'[b] = IF b = a THEN NoCall ELSE serving[b]
    BY <1>0, <2>2 DEF TypeOK
  <2>4. p \in Actors => \A c : InSeq(c, Append(box[p], m)) <=> InSeq(c, box[p]) \/ c = m
    BY <1>1, AddLast
  <2>5. \A c \in Calls, k \in PlaceKinds, b \in Procs :
          At(k, b, c)' => (At(k, b, c) /\ ~ (k = "serving" /\ b = a))
                          \/ (c = m /\ k = "box" /\ b = p)
    BY <1>2, <2>2, <2>3, <2>4 DEF At
  <2>6. At("serving", a, m)
    BY <2>1 DEF At
  <2>7. \A c \in Calls, k \in PlaceKinds, b \in Procs :
          At(k, b, c)' => IF c = m THEN k = "box" /\ b = p ELSE At(k, b, c)
    BY <1>0, <1>1, <2>5, <2>6 DEF Unique, PlaceKinds
  <2>8. Unique'
    BY <1>0, <2>7 DEF Unique
  <2>9. \A q \in Procs : pc'[q] = "sending" => pc[q] = "sending" /\ call'[q] = call[q]
    BY <1>0, <2>2 DEF TypeOK
  <2>10. SentOK'
    BY <1>0, <1>1, <2>2, <2>5, <2>6, <2>9, SentStep DEF PlaceKinds
  <2>11. QueuesOnce'
    BY <1>0, <2>2 DEF QueuesOnce
  <2> QED
    BY <2>8, <2>10, <2>11 DEF PlaceOK
<1>13. ASSUME NEW a \in Actors, ReplyFresh(a) PROVE PlaceOK'
  <2>1. PICK m \in Calls, p \in Procs : m = serving[a] /\ p = m.by
    BY <1>13, CallFields DEF ReplyFresh, IInv, Base, ServingOK
  <2>2. /\ Return(p, m) /\ pc' = [pc EXCEPT ![a] = "idle", ![p] = "running"]
        /\ serving' = [serving EXCEPT ![a] = NoCall]
        /\ UNCHANGED <<ch, msgQ, box, issued>>
    BY <1>13, <2>1 DEF ReplyFresh
  <2>3. \A b \in Actors : serving'[b] = IF b = a THEN NoCall ELSE serving[b]
    BY <1>0, <2>2 DEF TypeOK
  <2>4. \A q \in Procs, c \in Calls :
          InSeq(c, answers'[q]) => InSeq(c, answers[q]) \/ (q = p /\ c = m)
    BY <1>0, <2>2, ReturnPlaces
  <2>5. \A c \in Calls, k \in PlaceKinds, b \in Procs :
          At(k, b, c)' => (At(k, b, c) /\ ~ (k = "serving" /\ b = a))
                          \/ (c = m /\ k = "answers" /\ b = p)
    BY <1>2, <2>2, <2>3, <2>4 DEF At
  <2>6. At("serving", a, m)
    BY <2>1 DEF At
  <2>7. \A c \in Calls, k \in PlaceKinds, b \in Procs :
          At(k, b, c)' => IF c = m THEN k = "answers" /\ b = p ELSE At(k, b, c)
    BY <1>0, <1>1, <2>5, <2>6 DEF Unique, PlaceKinds
  <2>8. Unique'
    BY <1>0, <2>7 DEF Unique
  <2>9. \A q \in Procs : pc'[q] = "sending" => pc[q] = "sending" /\ call'[q] = call[q]
    BY <1>0, <2>2 DEF TypeOK, Return
  <2>10. SentOK'
    BY <1>0, <1>1, <2>2, <2>5, <2>6, <2>9, SentStep DEF PlaceKinds
  <2>11. QueuesOnce'
    BY <1>0, <2>2 DEF QueuesOnce
  <2> QED
    BY <2>8, <2>10, <2>11 DEF PlaceOK
<1>14. CASE UNCHANGED vars
  BY <1>0, <1>14 DEF vars, PlaceOK, Unique, At, QueuesOnce, SentOK
<1> QED
  BY <1>3, <1>4, <1>5, <1>6, <1>7, <1>8, <1>9, <1>10, <1>11, <1>12, <1>13, <1>14 DEF Next

\* A request is in a channel, in a stash, being handled, in callResult or
\* answered, and never in two of these: nothing is handled or answered twice.
THEOREM OnePlace == Spec => []Consistent
<1>1. Spec => []IInv
  BY InitOK, StepOK, PTL DEF Spec
<1>2. Spec => []PlaceOK
  BY <1>1, PlaceInit, PlaceStep, PTL DEF Spec
<1>3. ASSUME Unique PROVE InOnePlace
  <2> SUFFICES ASSUME NEW c \in Calls
               PROVE  LET places == {<<"ch", a>> : a \in {b \in Actors : InSeq(c, ch[b])}}
                            \cup {<<"msgQ", a>> : a \in {b \in Actors : InSeq(c, msgQ[b])}}
                            \cup {<<"serving", a>> : a \in {b \in Actors : serving[b] = c}}
                            \cup {<<"box", a>> : a \in {b \in Actors : InSeq(c, box[b])}}
                            \cup {<<"answers", q>> : q \in {r \in Procs : InSeq(c, answers[r])}}
                      IN \A x, y \in places : x = y
    BY DEF InOnePlace
  <2> DEFINE places == {<<"ch", a>> : a \in {b \in Actors : InSeq(c, ch[b])}}
                  \cup {<<"msgQ", a>> : a \in {b \in Actors : InSeq(c, msgQ[b])}}
                  \cup {<<"serving", a>> : a \in {b \in Actors : serving[b] = c}}
                  \cup {<<"box", a>> : a \in {b \in Actors : InSeq(c, box[b])}}
                  \cup {<<"answers", q>> : q \in {r \in Procs : InSeq(c, answers[r])}}
  <2>1. ASSUME NEW x \in places
        PROVE  \E k \in PlaceKinds, a \in Procs : x = <<k, a>> /\ At(k, a, c)
    BY ActorsAreProcs DEF At, PlaceKinds
  <2> HIDE DEF places
  <2>2. \A x, y \in places : x = y
    BY <1>3, <2>1 DEF Unique
  <2> QED
    BY <2>2 DEF places
<1>4. IInv /\ PlaceOK => Consistent
  BY <1>3 DEF IInv, Base, PlaceOK, Consistent
<1> QED
  BY <1>1, <1>2, <1>4, PTL
=============================================================================
