-------------------------- MODULE HttpdPoolProofs ---------------------------
(* Proofs about HttpdPool, for every number of connections, workers and      *)
(* Request structures: a worker is always in one place (WorkerInOnePlace),   *)
(* and an answer is that of the request it is given to, once (OwnAnswer).    *)
EXTENDS HttpdPool, FiniteSetTheorems, TLAPS

-----------------------------------------------------------------------------
(* What the variables hold.                                                  *)
Reqs == Conns \X Nat
Messages == [slot : Slots] \cup [worker : Workers]
Works == [at : {"idle", "given", "handler", "reply", "done"}, slot : Slots \cup {0},
          req : Reqs \cup {None}]

SlotTypes ==
  /\ slot \in [Slots -> [req : Reqs \cup {None}, conn : Conns \cup {None}, replied : BOOLEAN]]
  /\ \A s \in Slots : slot[s].conn \in Conns => slot[s].req \in Reqs

WorkTypes ==
  /\ work \in [Workers -> Works]
  /\ \A w \in Workers : IF work[w].at = "idle" THEN work[w] = Resting ELSE work[w].slot \in Slots

Answers == [to : Reqs, of : Reqs \cup {None}]
AnswerTypes == answers \in [Conns -> Seq(Answers)]

OtherTypes ==
  /\ sent \in [Conns -> Nat]
  /\ open \subseteq Conns
  /\ made \in 0..MaxSlots /\ pool \subseteq Slots
  /\ workers \subseteq Workers
  /\ reused \in BOOLEAN

QueueTypes == mq \in Seq(Messages) /\ idle \in Seq(Workers) /\ wait \in Seq(Slots)

Types == SlotTypes /\ WorkTypes /\ AnswerTypes /\ OtherTypes /\ QueueTypes

(* The ring of idle workers has no room only when it has outgrown its size.  *)
Outgrown ==
  /\ DOMAIN rooms = {"idle", "wait"} /\ rooms.idle \in IdleRing!Rooms
  /\ rooms.idle.tail # -1 \/ lost # {} => rooms.idle.cap > IdleMax

-----------------------------------------------------------------------------
(* Sequences: x is in q; no member of M is in q twice.                       *)
In(q, x) == \E i \in DOMAIN q : q[i] = x
Distinct(q, M) == \A i, j \in DOMAIN q : q[i] = q[j] /\ q[i] \in M => i = j

-----------------------------------------------------------------------------
(* Where the workers are: idle, told to the manager, busy, or lost by a Put  *)
(* that panicked, and each in one of these places; only a worker that was    *)
(* started is anywhere.                                                      *)
Told(w) == In(mq, [worker |-> w])

Placed ==
  /\ Distinct(idle, Workers) /\ Distinct(mq, [worker : Workers])
  /\ \A w \in Workers :
       /\ In(idle, w) => ~Told(w) /\ work[w].at = "idle" /\ w \in workers
       /\ Told(w) => work[w].at = "idle" /\ w \in workers
       /\ w \notin workers => work[w].at = "idle"
       /\ w \in lost => ~In(idle, w) /\ ~Told(w) /\ work[w].at = "idle" /\ w \in workers
       /\ w \in workers /\ work[w].at = "idle" => In(idle, w) \/ Told(w) \/ w \in lost

-----------------------------------------------------------------------------
(* Where the Requests are, as long as none was reused under a worker: with   *)
(* the manager, waiting or with a worker, and each in one of these places.   *)
Asked(s) == In(mq, [slot |-> s])
Live(s) == slot[s].req # None

SlotsPlaced ==
  /\ Distinct(mq, [slot : Slots]) /\ Distinct(wait, Slots)
  /\ \A s \in Slots :
       /\ Asked(s) \/ In(wait, s) => s \notin pool /\ Live(s) /\ ~slot[s].replied
       /\ Asked(s) => ~In(wait, s)
       /\ \A w \in Workers : work[w].slot = s => ~Asked(s) /\ ~In(wait, s)
  /\ \A v, w \in Workers : work[v].slot = work[w].slot /\ work[v].at # "idle" => v = w

(* A worker has the request it was given until its Request is answered.      *)
SlotsHeld ==
  \A w \in Workers : work[w].at # "idle" =>
    LET s == work[w].slot IN
    /\ s <= made
    /\ work[w].at = "given" => ~slot[s].replied
    /\ ~slot[s].replied => s \notin pool /\ Live(s) /\ work[w].req = slot[s].req

(* A Request that lives is of a request sent; one that rests has none.       *)
SlotsLive ==
  /\ \A s \in Slots :
       /\ Live(s) => /\ s <= made /\ s \notin pool /\ ~slot[s].replied
                     /\ slot[s].conn \in Conns /\ slot[s].req[1] = slot[s].conn
                     /\ slot[s].req[2] <= sent[slot[s].conn]
       /\ ~Live(s) => slot[s].conn = None
       /\ s \in pool => s <= made
  /\ \A s, t \in Slots : Live(s) /\ slot[s].req = slot[t].req => s = t

(* What is answered was sent on that connection, and no Request has it now.  *)
Given ==
  \A k \in Conns :
    /\ \A i \in DOMAIN answers[k] :
         LET a == answers[k][i] IN
         /\ a.to[1] = k /\ a.to[2] <= sent[k] /\ a.of = a.to
         /\ \A s \in Slots : slot[s].req # a.to
    /\ \A i, j \in DOMAIN answers[k] : answers[k][i].to = answers[k][j].to => i = j

Own == ~reused => SlotsPlaced /\ SlotsHeld /\ SlotsLive /\ Given

-----------------------------------------------------------------------------
(* Lemmas about sequences.                                                   *)

(* What a queue holds when something is put at its end (Cast, append).       *)
LEMMA AppendHolds ==
  ASSUME NEW S, NEW q \in Seq(S), NEW m \in S, NEW M
  PROVE  /\ Append(q, m) \in Seq(S)
         /\ \A x : In(Append(q, m), x) <=> In(q, x) \/ x = m
         /\ Distinct(q, M) /\ ~In(q, m) => Distinct(Append(q, m), M)
         /\ Distinct(q, M) /\ m \notin M => Distinct(Append(q, m), M)
<1> PICK t : t = Append(q, m) OBVIOUS
<1>1. t \in Seq(S) /\ Len(t) = Len(q) + 1 /\ t[Len(q) + 1] = m /\ Len(q) \in Nat
  OBVIOUS
<1>2. \A i \in 1..Len(q) : t[i] = q[i]
  OBVIOUS
<1>3. DOMAIN q = 1..Len(q) /\ DOMAIN t = 1..(Len(q) + 1)
  BY <1>1
<1>4. \A i \in DOMAIN t : i \in DOMAIN q \/ i = Len(q) + 1
  BY <1>1, <1>3
<1>5. \A i \in DOMAIN q : i \in DOMAIN t /\ t[i] = q[i] /\ i # Len(q) + 1
  BY <1>1, <1>2, <1>3
<1>6. Len(q) + 1 \in DOMAIN t
  BY <1>1, <1>3
<1>7. ASSUME NEW x PROVE In(t, x) <=> In(q, x) \/ x = m
  BY <1>1, <1>4, <1>5, <1>6, Zenon DEF In
<1>8. Distinct(q, M) /\ ~In(q, m) => Distinct(t, M)
  BY <1>1, <1>4, <1>5 DEF In, Distinct
<1>9. Distinct(q, M) /\ m \notin M => Distinct(t, M)
  BY <1>1, <1>4, <1>5 DEF In, Distinct
<1> QED
  BY <1>1, <1>7, <1>8, <1>9

LEMMA ElementOf ==
  ASSUME NEW S, NEW q \in Seq(S), NEW i \in DOMAIN q
  PROVE  q[i] \in S
OBVIOUS

LEMMA AppendAt ==
  ASSUME NEW S, NEW q \in Seq(S), NEW m \in S
  PROVE  /\ DOMAIN Append(q, m) = DOMAIN q \cup {Len(q) + 1}
         /\ Append(q, m)[Len(q) + 1] = m
         /\ \A i \in DOMAIN q : Append(q, m)[i] = q[i]
OBVIOUS

LEMMA AppendOther ==
  ASSUME NEW S, NEW q \in Seq(S), NEW m \in S, NEW M, m \notin M
  PROVE  Distinct(q, M) => Distinct(Append(q, m), M)
BY AppendHolds, Zenon

LEMMA AppendNew ==
  ASSUME NEW S, NEW q \in Seq(S), NEW m \in S, NEW M, ~In(q, m)
  PROVE  Distinct(q, M) => Distinct(Append(q, m), M)
BY AppendHolds, Zenon

(* What a queue holds when its head is taken.                                *)
LEMMA TailHolds ==
  ASSUME NEW S, NEW q \in Seq(S), q # <<>>, NEW M
  PROVE  /\ Tail(q) \in Seq(S) /\ Head(q) \in S /\ In(q, Head(q))
         /\ \A x : In(Tail(q), x) => In(q, x)
         /\ \A x : In(q, x) => x = Head(q) \/ In(Tail(q), x)
         /\ Distinct(q, M) => Distinct(Tail(q), M)
         /\ Distinct(q, M) /\ Head(q) \in M => ~In(Tail(q), Head(q))
<1> PICK t : t = Tail(q) OBVIOUS
<1> PICK h : h = Head(q) OBVIOUS
<1>1. t \in Seq(S) /\ Len(t) = Len(q) - 1 /\ Len(q) \in Nat \ {0} /\ h = q[1] /\ h \in S
  OBVIOUS
<1>2. \A i \in 1..(Len(q) - 1) : t[i] = q[i + 1]
  OBVIOUS
<1>3. DOMAIN q = 1..Len(q) /\ DOMAIN t = 1..(Len(q) - 1)
  BY <1>1
<1>4. \A i \in DOMAIN t : i + 1 \in DOMAIN q /\ t[i] = q[i + 1] /\ i + 1 # 1 /\ i \in Nat
  BY <1>1, <1>2, <1>3
<1>5. \A i \in DOMAIN q : i = 1 \/ (i - 1 \in DOMAIN t /\ t[i - 1] = q[i])
  BY <1>1, <1>2, <1>3
<1>6. 1 \in DOMAIN q
  BY <1>1, <1>3
<1>7. In(q, h)
  BY <1>1, <1>6 DEF In
<1>8. ASSUME NEW x PROVE In(t, x) => In(q, x)
  BY <1>4, Zenon DEF In
<1>9. ASSUME NEW x PROVE In(q, x) => x = h \/ In(t, x)
  BY <1>1, <1>5, Zenon DEF In
<1>10. Distinct(q, M) => Distinct(t, M)
  BY <1>4 DEF Distinct
<1>11. Distinct(q, M) /\ h \in M => ~In(t, h)
  BY <1>1, <1>4, <1>6 DEF Distinct, In
<1> QED
  BY <1>1, <1>7, <1>8, <1>9, <1>10, <1>11

(* A queue without a value, or with one value at one place, counts it.       *)
LEMMA CountIn ==
  ASSUME NEW q, NEW x, NEW M, x \in M, Distinct(q, M)
  PROVE  Count(q, x) = IF In(q, x) THEN 1 ELSE 0
<1>1. CASE In(q, x)
  <2>1. PICK i \in DOMAIN q : q[i] = x
    BY <1>1 DEF In
  <2>2. {j \in DOMAIN q : q[j] = x} = {i}
    BY <2>1 DEF Distinct
  <2> QED
    BY <1>1, <2>2, FS_Singleton, Zenon DEF Count
<1>2. CASE ~In(q, x)
  <2>1. {j \in DOMAIN q : q[j] = x} = {}
    BY <1>2 DEF In
  <2> QED
    BY <1>2, <2>1, FS_EmptySet, Zenon DEF Count
<1> QED
  BY <1>1, <1>2

(* The two kinds of messages of the manager are told apart.                  *)
LEMMA Kinds ==
  /\ \A w \in Workers : [worker |-> w] \in Messages /\ [worker |-> w] \in [worker : Workers]
                       /\ [worker |-> w] \notin [slot : Slots]
  /\ \A s \in Slots : [slot |-> s] \in Messages /\ [slot |-> s] \in [slot : Slots]
                     /\ [slot |-> s] \notin [worker : Workers]
  /\ \A m \in Messages : "slot" \in DOMAIN m => m.slot \in Slots /\ m = [slot |-> m.slot]
  /\ \A m \in Messages : "worker" \in DOMAIN m => m.worker \in Workers /\ m = [worker |-> m.worker]
  /\ \A w, s : [worker |-> w] # [slot |-> s]
  /\ \A v, w : [worker |-> v] = [worker |-> w] => v = w
  /\ \A s, t : [slot |-> s] = [slot |-> t] => s = t
<1>1. \A w, s : [worker |-> w] # [slot |-> s]
  <2> SUFFICES ASSUME NEW w, NEW s, [worker |-> w] = [slot |-> s] PROVE FALSE
    OBVIOUS
  <2> DOMAIN [worker |-> w] = {"worker"} /\ DOMAIN [slot |-> s] = {"slot"}
    OBVIOUS
  <2> QED
    OBVIOUS
<1>2. \A v, w : [worker |-> v] = [worker |-> w] => v = w
  <2> SUFFICES ASSUME NEW v, NEW w, [worker |-> v] = [worker |-> w] PROVE v = w
    OBVIOUS
  <2> [worker |-> v].worker = [worker |-> w].worker
    OBVIOUS
  <2> QED
    OBVIOUS
<1>3. \A s, t : [slot |-> s] = [slot |-> t] => s = t
  <2> SUFFICES ASSUME NEW s, NEW t, [slot |-> s] = [slot |-> t] PROVE s = t
    OBVIOUS
  <2> [slot |-> s].slot = [slot |-> t].slot
    OBVIOUS
  <2> QED
    OBVIOUS
<1>4. \A w \in Workers : [worker |-> w] \in Messages /\ [worker |-> w] \in [worker : Workers]
  BY DEF Messages
<1>5. \A s \in Slots : [slot |-> s] \in Messages /\ [slot |-> s] \in [slot : Slots]
  BY DEF Messages
<1>6. \A w \in Workers : [worker |-> w] \notin [slot : Slots]
  BY <1>1
<1>7. \A s \in Slots : [slot |-> s] \notin [worker : Workers]
  BY <1>1
<1>8. \A m \in Messages : "slot" \in DOMAIN m => m.slot \in Slots /\ m = [slot |-> m.slot]
  BY DEF Messages
<1>9. \A m \in Messages : "worker" \in DOMAIN m => m.worker \in Workers /\ m = [worker |-> m.worker]
  BY DEF Messages
<1> QED
  BY <1>1, <1>2, <1>3, <1>4, <1>5, <1>6, <1>7, <1>8, <1>9, Zenon

-----------------------------------------------------------------------------
(* Types.                                                                    *)
LEMMA TypesInit == Init => Types
<1> SUFFICES ASSUME Init PROVE Types
  OBVIOUS
<1>1. SlotTypes
  BY BoundsAssumption DEF Init, SlotTypes, Empty
<1>2. WorkTypes
  BY DEF Init, WorkTypes, Works, Resting
<1>3. AnswerTypes /\ QueueTypes
  BY DEF Init, AnswerTypes, QueueTypes
<1>4. OtherTypes
  <2>1. sent \in [Conns -> Nat] /\ open \subseteq Conns /\ pool \subseteq Slots /\ workers \subseteq Workers
    BY BoundsAssumption DEF Init
  <2>2. made \in 0..MaxSlots
    BY BoundsAssumption DEF Init
  <2>3. reused \in BOOLEAN
    BY DEF Init
  <2> QED
    BY <2>1, <2>2, <2>3 DEF OtherTypes
<1> QED
  BY <1>1, <1>2, <1>3, <1>4 DEF Types

LEMMA GiveTypes ==
  ASSUME Types, NEW w \in Workers, NEW s \in Slots, Give(w, s)
  PROVE  WorkTypes'
BY DEF Types, SlotTypes, WorkTypes, Give, Works

LEMMA AtTypes ==
  ASSUME Types, NEW w \in Workers, NEW step \in {"handler", "reply", "done"}, At(w, step),
         work[w].at # "idle"
  PROVE  WorkTypes'
BY DEF Types, WorkTypes, At, Works

LEMMA AnswerTypesStep ==
  ASSUME Types, NEW w \in Workers, NEW c \in BOOLEAN, Answer(w, c), work[w].at # "idle"
  PROVE  open' \subseteq Conns /\ pool' \subseteq Slots /\ SlotTypes' /\ AnswerTypes'
<1> DEFINE s == work[w].slot
           k == slot[s].conn
           a == [to |-> slot[s].req, of |-> work[w].req]
<1>1. s \in Slots /\ work[w].req \in Reqs \cup {None}
  BY DEF Types, WorkTypes, Works
<1>2. slot' = [slot EXCEPT ![s] = [req |-> None, conn |-> None, replied |-> TRUE]]
  BY DEF Answer
<1>3. SlotTypes'
  BY <1>1, <1>2, BoundsAssumption DEF Types, SlotTypes
<1>4. AnswerTypes'
  <2>1. CASE k \in open
    <3>1. k \in Conns /\ slot[s].req \in Reqs
      BY <2>1, <1>1 DEF Types, OtherTypes, SlotTypes
    <3>2. a \in Answers
      BY <3>1, <1>1 DEF Answers
    <3>3. answers' = [answers EXCEPT ![k] = Append(@, a)]
      BY <2>1 DEF Answer
    <3>4. answers \in [Conns -> Seq(Answers)]
      BY DEF Types, AnswerTypes
    <3> HIDE DEF a, k
    <3>5. Append(answers[k], a) \in Seq(Answers)
      BY <3>1, <3>2, <3>4
    <3>6. answers' \in [Conns -> Seq(Answers)]
      BY <3>3, <3>4, <3>5
    <3> QED
      BY <3>6 DEF AnswerTypes
  <2>2. CASE k \notin open
    BY <2>2 DEF Answer, Types, AnswerTypes
  <2> QED
    BY <2>1, <2>2
<1>5. open' \subseteq Conns /\ pool' \subseteq Slots
  BY <1>1 DEF Answer, Types, OtherTypes
<1> QED
  BY <1>3, <1>4, <1>5

(* Each action keeps the types.                                              *)
LEMMA TypesStep == Types /\ [Next]_vars => Types'
<1> SUFFICES ASSUME Types, [Next]_vars PROVE Types'
  OBVIOUS
<1> USE BoundsAssumption DEF Types
<1>1. ASSUME NEW k \in Conns, Arrive(k) PROVE Types'
  <2> PICK s \in pool \cup (Slots \cap {made + 1}) :
        /\ pool' = pool \ {s}
        /\ made' = IF s > made THEN s ELSE made
        /\ slot' = [slot EXCEPT ![s] = [req |-> <<k, sent'[k]>>, conn |-> k, replied |-> FALSE]]
        /\ mq' = Append(mq, [slot |-> s])
        /\ reused' = (reused \/ \E w \in workers : work[w].slot = s)
    BY <1>1 DEF Arrive
  <2>1. s \in Slots
    BY DEF OtherTypes
  <2>2. sent' \in [Conns -> Nat] /\ <<k, sent'[k]>> \in Reqs
    BY <1>1 DEF Arrive, OtherTypes, Reqs
  <2>3. SlotTypes'
    BY <2>1, <2>2 DEF SlotTypes
  <2>4. OtherTypes'
    BY <1>1, <2>1, <2>2 DEF OtherTypes, Slots, Arrive
  <2>5. QueueTypes'
    BY <1>1, <2>1 DEF QueueTypes, Messages, Arrive, rings
  <2> QED
    BY <1>1, <2>3, <2>4, <2>5 DEF Arrive, AnswerTypes, WorkTypes
<1>2. ASSUME NEW k \in Conns, ConnCloses(k) PROVE Types'
  BY <1>2 DEF ConnCloses, rings, SlotTypes, WorkTypes, AnswerTypes, OtherTypes, QueueTypes
<1>3. CASE ManagerRequest
  <2>1. Head(mq) \in Messages /\ Head(mq).slot \in Slots /\ mq' \in Seq(Messages)
    BY <1>3, TailHolds, Kinds DEF ManagerRequest, QueueTypes
  <2>2. SlotTypes' /\ AnswerTypes' /\ UNCHANGED <<sent, open, slot, made, pool, answers, reused>>
    BY <1>3 DEF ManagerRequest, SlotTypes, AnswerTypes
  <2>3. CASE idle # <<>>
    <3>1. Give(Head(idle), Head(mq).slot) /\ idle' = Tail(idle) /\ UNCHANGED <<workers, wait>>
      BY <1>3, <2>3 DEF ManagerRequest, PopIdle
    <3>2. Head(idle) \in Workers /\ idle' \in Seq(Workers)
      BY <2>3, <3>1, TailHolds DEF QueueTypes
    <3>3. WorkTypes'
      BY <2>1, <3>1, <3>2, GiveTypes
    <3> QED
      BY <2>1, <2>2, <3>1, <3>2, <3>3 DEF OtherTypes, QueueTypes
  <2>4. CASE idle = <<>> /\ Cardinality(workers) < bound.workers
    <3>1. PICK w \in Workers \ workers : Give(w, Head(mq).slot) /\ workers' = workers \cup {w}
                                        /\ UNCHANGED <<idle, wait>>
      BY <1>3, <2>4 DEF ManagerRequest
    <3>2. WorkTypes'
      BY <2>1, <3>1, GiveTypes
    <3> QED
      BY <2>1, <2>2, <3>1, <3>2 DEF OtherTypes, QueueTypes
  <2>5. CASE idle = <<>> /\ ~(Cardinality(workers) < bound.workers)
    <3>1. wait' = Append(wait, Head(mq).slot) /\ UNCHANGED <<workers, idle, work>>
      BY <1>3, <2>5 DEF ManagerRequest, PutWait
    <3> QED
      BY <2>1, <2>2, <3>1 DEF OtherTypes, QueueTypes, WorkTypes
  <2> QED
    BY <2>3, <2>4, <2>5
<1>4. CASE ManagerWorker
  <2>1. Head(mq) \in Messages /\ Head(mq).worker \in Workers /\ mq' \in Seq(Messages)
    BY <1>4, TailHolds, Kinds DEF ManagerWorker, QueueTypes
  <2>2. SlotTypes' /\ AnswerTypes' /\ OtherTypes'
    BY <1>4 DEF ManagerWorker, SlotTypes, AnswerTypes, OtherTypes
  <2>3. CASE wait # <<>>
    <3>1. Give(Head(mq).worker, Head(wait)) /\ wait' = Tail(wait) /\ UNCHANGED idle
      BY <1>4, <2>3 DEF ManagerWorker, PopWait
    <3>2. Head(wait) \in Slots /\ wait' \in Seq(Slots)
      BY <2>3, <3>1, TailHolds DEF QueueTypes
    <3>3. WorkTypes'
      BY <2>1, <3>1, <3>2, GiveTypes
    <3> QED
      BY <2>1, <2>2, <3>1, <3>2, <3>3 DEF QueueTypes
  <2>4. CASE wait = <<>>
    <3>1. idle' = Append(idle, Head(mq).worker) /\ UNCHANGED <<wait, work>>
      BY <1>4, <2>4 DEF ManagerWorker, PutIdle
    <3> QED
      BY <2>1, <2>2, <3>1 DEF QueueTypes, WorkTypes
  <2> QED
    BY <2>3, <2>4
<1>5. ASSUME NEW w \in Workers, Take(w) PROVE Types'
  <2>1. WorkTypes'
    BY <1>5, AtTypes DEF Take
  <2> QED
    BY <1>5, <2>1 DEF Take, rings, SlotTypes, AnswerTypes, OtherTypes, QueueTypes
<1>6. ASSUME NEW w \in Workers, ReplyEarly(w) PROVE Types'
  <2>1. open' \subseteq Conns /\ pool' \subseteq Slots /\ SlotTypes' /\ AnswerTypes'
    BY <1>6, AnswerTypesStep DEF ReplyEarly
  <2> QED
    BY <1>6, <2>1 DEF ReplyEarly, rings, WorkTypes, OtherTypes, QueueTypes
<1>7. ASSUME NEW w \in Workers, HandlerReturns(w) PROVE Types'
  <2>1. WorkTypes'
    BY <1>7, AtTypes DEF HandlerReturns
  <2> QED
    BY <1>7, <2>1 DEF HandlerReturns, rings, SlotTypes, AnswerTypes, OtherTypes, QueueTypes
<1>8. ASSUME NEW w \in Workers, ReplyNormal(w) PROVE Types'
  <2>1. work[w].at # "idle" /\ At(w, "done") /\ UNCHANGED <<sent, made, mq, idle, wait, workers, reused>>
    BY <1>8 DEF ReplyNormal, rings
  <2>2. WorkTypes'
    BY <2>1, AtTypes
  <2>3. open' \subseteq Conns /\ pool' \subseteq Slots /\ SlotTypes' /\ AnswerTypes'
    <3>1. CASE slot[work[w].slot].replied
      BY <1>8, <3>1 DEF ReplyNormal, OtherTypes, SlotTypes, AnswerTypes
    <3>2. CASE ~slot[work[w].slot].replied
      BY <1>8, <2>1, <3>2, AnswerTypesStep DEF ReplyNormal
    <3> QED
      BY <3>1, <3>2
  <2> QED
    BY <2>1, <2>2, <2>3 DEF OtherTypes, QueueTypes
<1>9. ASSUME NEW w \in Workers, NotFound(w) PROVE Types'
  <2>1. work[w].at # "idle" /\ At(w, "done") /\ UNCHANGED <<sent, made, mq, idle, wait, workers, reused>>
        /\ Answer(w, TRUE)
    BY <1>9 DEF NotFound, rings
  <2>2. WorkTypes'
    BY <2>1, AtTypes
  <2>3. open' \subseteq Conns /\ pool' \subseteq Slots /\ SlotTypes' /\ AnswerTypes'
    BY <2>1, AnswerTypesStep
  <2> QED
    BY <2>1, <2>2, <2>3 DEF OtherTypes, QueueTypes
<1>10. ASSUME NEW w \in Workers, HandlerPanics(w) PROVE Types'
  <2>1. WorkTypes'
    BY <1>10, AtTypes DEF HandlerPanics
  <2> QED
    BY <1>10, <2>1 DEF HandlerPanics, rings, SlotTypes, AnswerTypes, OtherTypes, QueueTypes
<1>11. ASSUME NEW w \in Workers, Done(w) PROVE Types'
  <2>1. QueueTypes'
    BY <1>11 DEF Done, rings, QueueTypes, Messages
  <2>2. WorkTypes'
    BY <1>11 DEF Done, WorkTypes, Resting, Works
  <2> QED
    BY <1>11, <2>1, <2>2 DEF Done, SlotTypes, AnswerTypes, OtherTypes
<1>12. CASE UNCHANGED vars
  BY <1>12 DEF vars, rings, SlotTypes, WorkTypes, AnswerTypes, OtherTypes, QueueTypes
<1>13. CASE ManagerRequestPanics \/ ManagerWorkerPanics
  <2>1. mq \in Seq(Messages) /\ mq # <<>> /\ mq' = Tail(mq)
    BY <1>13 DEF ManagerRequestPanics, ManagerWorkerPanics, QueueTypes
  <2>2. mq' \in Seq(Messages)
    BY <2>1, TailHolds
  <2> QED
    BY <1>13, <2>2 DEF ManagerRequestPanics, ManagerWorkerPanics, SlotTypes, WorkTypes,
                       AnswerTypes, OtherTypes, QueueTypes
<1> QED
  BY <1>1, <1>2, <1>3, <1>4, <1>5, <1>6, <1>7, <1>8, <1>9, <1>10, <1>11, <1>12, <1>13 DEF Next, Work

(* What a change of one worker leaves alone.                                 *)
LEMMA GiveMeans ==
  ASSUME Types, NEW w \in Workers, NEW s, Give(w, s)
  PROVE  /\ work'[w].at = "given" /\ work'[w].slot = s /\ work'[w].req = slot[s].req
         /\ \A v \in Workers : v # w => work'[v] = work[v]
BY DEF Types, WorkTypes, Give

LEMMA AtMeans ==
  ASSUME Types, NEW w \in Workers, NEW step, At(w, step)
  PROVE  /\ work'[w].at = step /\ work'[w].slot = work[w].slot /\ work'[w].req = work[w].req
         /\ \A v \in Workers : v # w => work'[v] = work[v]
<1>1. work[w] \in Works /\ work' = [work EXCEPT ![w] = [work[w] EXCEPT !.at = step]]
  BY DEF Types, WorkTypes, At
<1>2. work'[w] = [work[w] EXCEPT !.at = step] /\ \A v \in Workers : v # w => work'[v] = work[v]
  BY <1>1 DEF Types, WorkTypes
<1> QED
  BY <1>1, <1>2 DEF Works

-----------------------------------------------------------------------------
(* A worker is in one place.                                                 *)

(* A worker goes on with its request: it stays busy.                         *)
LEMMA PlacedBusy ==
  ASSUME Types, Placed, NEW w \in Workers, NEW step, At(w, step), step # "idle",
         work[w].at # "idle", UNCHANGED <<mq, idle, workers, lost>>
  PROVE  Placed'
BY AtMeans DEF Placed, Told

(* The manager takes the message of a worker: it is told no more.            *)
LEMMA TakeWorker ==
  ASSUME Types, Placed, mq # <<>>, "worker" \in DOMAIN Head(mq), mq' = Tail(mq),
         NEW w, w = Head(mq).worker
  PROVE  /\ Told(w) /\ ~Told(w)' /\ \A v \in Workers : v # w => (Told(v)' <=> Told(v))
         /\ Distinct(mq', [worker : Workers])
<1>1. w \in Workers /\ Head(mq) = [worker |-> w] /\ mq \in Seq(Messages)
  BY TailHolds, Kinds DEF Types, QueueTypes
<1>2. /\ \A x : In(mq', x) => In(mq, x)
      /\ \A x : In(mq, x) => x = [worker |-> w] \/ In(mq', x)
      /\ In(mq, [worker |-> w]) /\ ~In(mq', [worker |-> w])
      /\ Distinct(mq', [worker : Workers])
  BY <1>1, TailHolds, Kinds DEF Placed
<1> QED
  BY <1>2, Kinds DEF Told

LEMMA PlacedStep == Types /\ Placed /\ [Next]_vars => Placed'
<1> SUFFICES ASSUME Types, Placed, [Next]_vars PROVE Placed'
  OBVIOUS
<1>1. ASSUME NEW k \in Conns, Arrive(k) PROVE Placed'
  <2> PICK s \in pool \cup (Slots \cap {made + 1}) : mq' = Append(mq, [slot |-> s])
    BY <1>1 DEF Arrive
  <2>1. s \in Slots /\ mq \in Seq(Messages)
    BY DEF Types, OtherTypes, QueueTypes
  <2>2. /\ \A x : In(mq', x) <=> In(mq, x) \/ x = [slot |-> s]
        /\ Distinct(mq', [worker : Workers])
    <3> PICK m : m = [slot |-> s]
      OBVIOUS
    <3>1. m \in Messages /\ m \notin [worker : Workers]
      BY <2>1, Kinds
    <3>2. \A x : In(Append(mq, m), x) <=> In(mq, x) \/ x = m
      BY <2>1, <3>1, AppendHolds
    <3>3. Distinct(mq, [worker : Workers]) => Distinct(Append(mq, m), [worker : Workers])
      BY <2>1, <3>1, AppendOther, Zenon
    <3>4. Distinct(mq, [worker : Workers])
      BY DEF Placed
    <3> QED
      BY <3>2, <3>3, <3>4
  <2>3. \A w \in Workers : Told(w)' <=> Told(w)
    BY <2>2, Kinds DEF Told
  <2> QED
    BY <1>1, <2>2, <2>3 DEF Arrive, rings, Placed
<1>2. ASSUME NEW k \in Conns, ConnCloses(k) PROVE Placed'
  BY <1>2 DEF ConnCloses, rings, Placed, Told
<1>3. CASE ManagerRequest
  <2>1. /\ Head(mq) \in Messages /\ Head(mq) \notin [worker : Workers] /\ Head(mq).slot \in Slots
        /\ mq \in Seq(Messages) /\ mq # <<>> /\ mq' = Tail(mq)
    BY <1>3, TailHolds, Kinds DEF ManagerRequest, Types, QueueTypes
  <2>2. /\ \A x : In(mq', x) => In(mq, x)
        /\ \A x : In(mq, x) => x = Head(mq) \/ In(mq', x)
        /\ Distinct(mq', [worker : Workers])
    BY <2>1, TailHolds DEF Placed
  <2>3. \A w \in Workers : Told(w)' <=> Told(w)
    BY <2>1, <2>2, Kinds DEF Told
  <2>4. CASE idle # <<>>
    <3>1. Give(Head(idle), Head(mq).slot) /\ idle' = Tail(idle) /\ UNCHANGED <<workers, lost>>
      BY <1>3, <2>4 DEF ManagerRequest, PopIdle
    <3>2. /\ Head(idle) \in Workers /\ In(idle, Head(idle))
          /\ \A x : In(idle', x) => In(idle, x)
          /\ \A x : In(idle, x) => x = Head(idle) \/ In(idle', x)
          /\ Distinct(idle', Workers) /\ ~In(idle', Head(idle))
      BY <2>4, <3>1, TailHolds DEF Placed, Types, QueueTypes
    <3>3. /\ work'[Head(idle)].at = "given"
          /\ \A v \in Workers : v # Head(idle) => work'[v] = work[v]
      BY <3>1, <3>2, GiveMeans
    <3> QED
      BY <2>2, <2>3, <3>1, <3>2, <3>3 DEF Placed
  <2>5. CASE idle = <<>> /\ Cardinality(workers) < bound.workers
    <3>1. PICK w \in Workers \ workers : Give(w, Head(mq).slot) /\ workers' = workers \cup {w}
                                        /\ UNCHANGED <<idle, lost>>
      BY <1>3, <2>5 DEF ManagerRequest
    <3>2. work'[w].at = "given" /\ \A v \in Workers : v # w => work'[v] = work[v]
      BY <3>1, GiveMeans
    <3> QED
      BY <2>2, <2>3, <3>1, <3>2 DEF Placed
  <2>6. CASE idle = <<>> /\ ~(Cardinality(workers) < bound.workers)
    <3>1. UNCHANGED <<workers, idle, work, lost>>
      BY <1>3, <2>6 DEF ManagerRequest
    <3> QED
      BY <2>2, <2>3, <3>1 DEF Placed
  <2> QED
    BY <2>4, <2>5, <2>6
<1>4. CASE ManagerWorker
  <2> PICK w : w = Head(mq).worker
    OBVIOUS
  <2>1. w \in Workers /\ mq # <<>> /\ "worker" \in DOMAIN Head(mq) /\ mq' = Tail(mq)
    BY <1>4, TailHolds, Kinds DEF ManagerWorker, Types, QueueTypes
  <2>2. Distinct(mq', [worker : Workers])
    BY <2>1, TakeWorker
  <2>3. Told(w) /\ ~Told(w)' /\ \A v \in Workers : v # w => (Told(v)' <=> Told(v))
    BY <2>1, TakeWorker
  <2>4. work[w].at = "idle" /\ ~In(idle, w) /\ w \in workers \ lost /\ UNCHANGED <<workers, lost>>
    BY <1>4, <2>1, <2>3 DEF Placed, ManagerWorker
  <2>5. CASE wait # <<>>
    <3>1. Give(w, Head(wait)) /\ UNCHANGED idle
      BY <1>4, <2>5 DEF ManagerWorker
    <3>2. work'[w].at = "given" /\ \A v \in Workers : v # w => work'[v] = work[v]
      BY <2>1, <3>1, GiveMeans
    <3> QED
      BY <2>2, <2>3, <2>4, <3>1, <3>2 DEF Placed
  <2>6. CASE wait = <<>>
    <3>1. idle' = Append(idle, w) /\ UNCHANGED work
      BY <1>4, <2>6 DEF ManagerWorker, PutIdle
    <3>2. (\A x : In(idle', x) <=> In(idle, x) \/ x = w) /\ Distinct(idle', Workers)
      BY <2>1, <2>4, <3>1, AppendHolds DEF Placed, Types, QueueTypes
    <3> QED
      BY <2>2, <2>3, <2>4, <3>1, <3>2 DEF Placed
  <2> QED
    BY <2>5, <2>6
<1>5. ASSUME NEW w \in Workers, Take(w) PROVE Placed'
  BY <1>5, PlacedBusy DEF Take, rings
<1>6. ASSUME NEW w \in Workers, ReplyEarly(w) PROVE Placed'
  BY <1>6 DEF ReplyEarly, rings, Placed, Told
<1>7. ASSUME NEW w \in Workers, HandlerReturns(w) PROVE Placed'
  BY <1>7, PlacedBusy DEF HandlerReturns, rings
<1>8. ASSUME NEW w \in Workers, ReplyNormal(w) PROVE Placed'
  BY <1>8, PlacedBusy DEF ReplyNormal, rings
<1>9. ASSUME NEW w \in Workers, NotFound(w) PROVE Placed'
  BY <1>9, PlacedBusy DEF NotFound, rings
<1>10. ASSUME NEW w \in Workers, HandlerPanics(w) PROVE Placed'
  BY <1>10, PlacedBusy DEF HandlerPanics, rings
<1>11. ASSUME NEW w \in Workers, Done(w) PROVE Placed'
  <2>1. /\ mq \in Seq(Messages) /\ mq' = Append(mq, [worker |-> w]) /\ work[w].at = "done"
        /\ UNCHANGED <<idle, workers, lost>> /\ ~In(mq, [worker |-> w]) /\ ~In(idle, w)
        /\ w \in workers \ lost
    BY <1>11 DEF Done, rings, Types, QueueTypes, Placed, Told
  <2>2. /\ \A x : In(mq', x) <=> In(mq, x) \/ x = [worker |-> w]
        /\ Distinct(mq', [worker : Workers])
    BY <2>1, AppendHolds, Kinds DEF Placed
  <2>3. Told(w)' /\ \A v \in Workers : v # w => (Told(v)' <=> Told(v))
    BY <2>2, Kinds DEF Told
  <2>4. work'[w].at = "idle" /\ \A v \in Workers : v # w => work'[v] = work[v]
    BY <1>11 DEF Done, Resting, Types, WorkTypes
  <2> QED
    BY <2>1, <2>2, <2>3, <2>4 DEF Placed
<1>12. CASE UNCHANGED vars
  BY <1>12 DEF vars, rings, Placed, Told
<1>13. CASE ManagerRequestPanics
  <2>1. /\ Head(mq) \in Messages /\ Head(mq) \notin [worker : Workers]
        /\ mq \in Seq(Messages) /\ mq # <<>> /\ mq' = Tail(mq)
    BY <1>13, TailHolds, Kinds DEF ManagerRequestPanics, Types, QueueTypes
  <2>2. /\ \A x : In(mq', x) => In(mq, x)
        /\ \A x : In(mq, x) => x = Head(mq) \/ In(mq', x)
        /\ Distinct(mq', [worker : Workers])
    BY <2>1, TailHolds DEF Placed
  <2>3. \A w \in Workers : Told(w)' <=> Told(w)
    BY <2>1, <2>2, Kinds DEF Told
  <2> QED
    BY <1>13, <2>2, <2>3 DEF ManagerRequestPanics, Placed
<1>14. CASE ManagerWorkerPanics
  <2> PICK w : w = Head(mq).worker
    OBVIOUS
  <2>1. w \in Workers /\ mq # <<>> /\ "worker" \in DOMAIN Head(mq) /\ mq' = Tail(mq)
    BY <1>14, TailHolds, Kinds DEF ManagerWorkerPanics, Types, QueueTypes
  <2>2. /\ Told(w) /\ ~Told(w)' /\ \A v \in Workers : v # w => (Told(v)' <=> Told(v))
        /\ Distinct(mq', [worker : Workers])
    BY <2>1, TakeWorker
  <2>3. lost' = lost \cup {w} /\ UNCHANGED <<idle, work, workers>>
    BY <1>14 DEF ManagerWorkerPanics
  <2> QED
    BY <2>1, <2>2, <2>3 DEF Placed
<1> QED
  BY <1>1, <1>2, <1>3, <1>4, <1>5, <1>6, <1>7, <1>8, <1>9, <1>10, <1>11, <1>12, <1>13, <1>14 DEF Next, Work

LEMMA PlacedInit == Init => Placed
BY DEF Init, Placed, Told, In, Distinct, Resting

LEMMA PlacedMeans == Types /\ Placed /\ Outgrown => WorkerInOnePlace
<1> SUFFICES ASSUME Types, Placed, NEW w \in workers
             PROVE  Count(idle, w) + Count(mq, [worker |-> w]) + (IF w \in lost THEN 1 ELSE 0)
                      + (IF work[w].at = "idle" THEN 0 ELSE 1) = 1
  BY DEF WorkerInOnePlace, Outgrown
<1>1. w \in Workers
  BY DEF Types, OtherTypes
<1>2. Count(idle, w) = IF In(idle, w) THEN 1 ELSE 0
  BY <1>1, CountIn DEF Placed
<1>3. Count(mq, [worker |-> w]) = IF Told(w) THEN 1 ELSE 0
  BY <1>1, CountIn, Kinds DEF Placed, Told
<1>4. /\ In(idle, w) => ~Told(w) /\ w \notin lost /\ work[w].at = "idle"
      /\ Told(w) => w \notin lost /\ work[w].at = "idle"
      /\ w \in lost => work[w].at = "idle"
      /\ work[w].at = "idle" => In(idle, w) \/ Told(w) \/ w \in lost
  BY <1>1 DEF Placed
<1> QED
  BY <1>2, <1>3, <1>4

(* A ring that grows stays larger than its maximum, whatever narrow does; no *)
(* Put into a ring that has not been narrowed panics.                        *)
LEMMA OutgrownStep == Types /\ Outgrown /\ [Next]_vars => Outgrown'
<1> SUFFICES ASSUME Types, Outgrown, [Next]_vars PROVE Outgrown'
  OBVIOUS
<1> USE RingsAssumption
<1>1. IdleRing!Rooms = [cap : Nat \ {0}, tail : Nat \cup {-1}]
  BY DEF IdleRing!Rooms
<1>2. CASE rooms'.idle = rooms.idle /\ DOMAIN rooms' = DOMAIN rooms /\ lost' = lost
  BY <1>2 DEF Outgrown
<1>3. CASE UNCHANGED <<rooms, lost>>
  BY <1>3 DEF Outgrown
<1>4. CASE PopIdle /\ lost' = lost
  <2>1. DOMAIN rooms' = {"idle", "wait"} /\ rooms'.idle = IdleRing!RoomPop(rooms.idle, Len(idle))
    BY <1>4 DEF PopIdle, Outgrown
  <2>2. /\ rooms'.idle \in IdleRing!Rooms /\ rooms'.idle.cap = rooms.idle.cap
        /\ rooms'.idle.tail = rooms.idle.tail \/ rooms.idle.cap > IdleMax
    BY <1>1, <2>1 DEF Outgrown, IdleRing!RoomPop
  <2> QED
    BY <1>4, <2>1, <2>2 DEF Outgrown
<1>5. ASSUME NEW w \in Workers, PutIdle(w), lost' = lost PROVE Outgrown'
  <2>1. DOMAIN rooms' = {"idle", "wait"} /\ rooms'.idle = IdleRing!RoomPut(rooms.idle, Len(idle))
    BY <1>5 DEF PutIdle, Outgrown
  <2>2. CASE IdleRing!Full(rooms.idle, Len(idle))
    <3>1. rooms'.idle = [cap |-> 2 * rooms.idle.cap, tail |-> -1]
      BY <2>1, <2>2 DEF IdleRing!RoomPut
    <3>2. rooms'.idle \in IdleRing!Rooms /\ rooms'.idle.cap > rooms.idle.cap /\ rooms'.idle.tail = -1
      BY <1>1, <3>1 DEF Outgrown
    <3>3. rooms.idle.cap \in Nat /\ rooms'.idle.cap \in Nat
      BY <1>1, <3>2 DEF Outgrown
    <3> QED
      BY <1>5, <2>1, <3>2, <3>3 DEF Outgrown
  <2>3. CASE ~IdleRing!Full(rooms.idle, Len(idle))
    <3>1. rooms'.idle = [rooms.idle EXCEPT !.tail = IF @ = -1 THEN @ ELSE @ + 1]
      BY <2>1, <2>3 DEF IdleRing!RoomPut
    <3>2. /\ rooms'.idle \in IdleRing!Rooms /\ rooms'.idle.cap = rooms.idle.cap
          /\ rooms.idle.tail = -1 => rooms'.idle.tail = -1
      BY <1>1, <3>1 DEF Outgrown
    <3> QED
      BY <1>5, <2>1, <3>2 DEF Outgrown
  <2> QED
    BY <2>2, <2>3
<1>6. CASE ManagerRequest
  <2>1. CASE idle # <<>>
    BY <1>4, <1>6, <2>1 DEF ManagerRequest
  <2>2. CASE idle = <<>> /\ Cardinality(workers) < bound.workers
    BY <1>3, <1>6, <2>2 DEF ManagerRequest
  <2>3. CASE idle = <<>> /\ ~(Cardinality(workers) < bound.workers)
    <3>1. PutWait(Head(mq).slot) /\ lost' = lost
      BY <1>6, <2>3 DEF ManagerRequest
    <3> QED
      BY <1>2, <3>1 DEF PutWait, Outgrown
  <2> QED
    BY <2>1, <2>2, <2>3
<1>7. CASE ManagerWorker
  <2>1. Head(mq).worker \in Workers /\ lost' = lost
    BY <1>7, TailHolds, Kinds DEF ManagerWorker, Types, QueueTypes
  <2>2. CASE wait # <<>>
    <3>1. PopWait
      BY <1>7, <2>2 DEF ManagerWorker
    <3> QED
      BY <1>2, <2>1, <3>1 DEF PopWait, Outgrown
  <2>3. CASE wait = <<>>
    BY <1>5, <1>7, <2>1, <2>3 DEF ManagerWorker
  <2> QED
    BY <2>2, <2>3
<1>8. CASE ManagerRequestPanics
  BY <1>3, <1>8 DEF ManagerRequestPanics
<1>9. CASE ManagerWorkerPanics
  <2>1. ~(rooms.idle.tail < IdleMax) /\ UNCHANGED rooms
    BY <1>9 DEF ManagerWorkerPanics, IdleRing!HasRoom
  <2>2. rooms.idle.tail # -1
    BY <2>1
  <2> QED
    BY <2>1, <2>2 DEF Outgrown
<1>10. ASSUME NEW k \in Conns, Arrive(k) \/ ConnCloses(k) PROVE Outgrown'
  BY <1>3, <1>10 DEF Arrive, ConnCloses, rings
<1>11. ASSUME NEW w \in Workers, Work(w) PROVE Outgrown'
  BY <1>3, <1>11 DEF Work, Take, ReplyEarly, HandlerReturns, ReplyNormal, NotFound, HandlerPanics,
                     Done, rings
<1>12. CASE UNCHANGED vars
  BY <1>3, <1>12 DEF vars, rings
<1> QED
  BY <1>6, <1>7, <1>8, <1>9, <1>10, <1>11, <1>12 DEF Next

LEMMA OutgrownInit == Init => Outgrown
<1> SUFFICES ASSUME Init PROVE Outgrown
  OBVIOUS
<1>1. rooms = [idle |-> IdleRing!NewRoom, wait |-> WaitRing!NewRoom] /\ lost = {}
  BY DEF Init
<1>2. rooms.idle = [cap |-> IdleInit, tail |-> -1] /\ DOMAIN rooms = {"idle", "wait"}
  BY <1>1 DEF IdleRing!NewRoom
<1>3. rooms.idle \in IdleRing!Rooms /\ rooms.idle.tail = -1
  BY <1>2, RingsAssumption DEF IdleRing!Rooms
<1> QED
  BY <1>1, <1>2, <1>3 DEF Outgrown

(* A worker of the pool is idle, on its way to the manager, or busy with a   *)
(* request, and in only one of these places: newRequest and the cast of a    *)
(* worker that is done never give one a second request, and lose a worker    *)
(* only by the panic of Put in a ring of idle workers that has grown beyond  *)
(* its maximum (WorkerInOnePlace of HttpdPool).                              *)
THEOREM WorkersPlaced == Spec => []WorkerInOnePlace
<1> DEFINE IInv == Types /\ Placed /\ Outgrown
<1>1. Init => IInv
  BY TypesInit, PlacedInit, OutgrownInit
<1>2. IInv /\ [Next]_vars => IInv'
  BY TypesStep, PlacedStep, OutgrownStep
<1>3. IInv => WorkerInOnePlace
  BY PlacedMeans
<1> HIDE DEF IInv
<1> QED
  BY <1>1, <1>2, <1>3, PTL DEF Spec

-----------------------------------------------------------------------------
(* An answer is that of its request.                                         *)
LEMMA OwnInit == Init => Own
<1> SUFFICES ASSUME Init PROVE SlotsPlaced /\ SlotsHeld /\ SlotsLive /\ Given
  BY DEF Own
<1>1. mq = <<>> /\ wait = <<>> /\ pool = {} /\ \A w \in Workers : work[w].at = "idle" /\ work[w].slot = 0
  BY DEF Init, Resting
<1>2. \A s \in Slots : slot[s].req = None /\ slot[s].conn = None
  BY DEF Init, Empty
<1>3. SlotsPlaced
  BY <1>1 DEF SlotsPlaced, Asked, In, Distinct, Slots
<1>4. SlotsHeld
  BY <1>1 DEF SlotsHeld
<1>5. SlotsLive
  BY <1>1, <1>2 DEF SlotsLive, Live
<1>6. Given
  BY DEF Init, Given
<1> QED
  BY <1>3, <1>4, <1>5, <1>6

(* Slots and answers that stay as they are.                                  *)
LEMMA LiveKept ==
  ASSUME SlotsLive, Given, UNCHANGED <<sent, slot, made, pool, answers>>
  PROVE  SlotsLive' /\ Given'
BY DEF SlotsLive, Given, Live

(* A worker goes on with its Request, which stays as it is.                  *)
LEMMA HeldGoesOn ==
  ASSUME Types, SlotsPlaced, SlotsHeld, NEW w \in Workers, NEW step \in {"handler", "reply", "done"},
         At(w, step), work[w].at # "idle", UNCHANGED <<slot, made, pool, mq, wait>>
  PROVE  SlotsPlaced' /\ SlotsHeld'
<1>1. /\ work'[w].at = step /\ work'[w].slot = work[w].slot /\ work'[w].req = work[w].req
      /\ \A v \in Workers : v # w => work'[v] = work[v]
  BY AtMeans
<1>2. SlotsPlaced'
  BY <1>1 DEF SlotsPlaced, Asked, Live
<1>3. SlotsHeld'
  BY <1>1 DEF SlotsHeld, Live
<1> QED
  BY <1>2, <1>3

(* The manager gives a Request that was asked or that waits to a worker that *)
(* has none: the worker gets the request the Request lives of.               *)
LEMMA HeldGiven ==
  ASSUME Types, SlotsPlaced, SlotsHeld, SlotsLive, NEW w \in Workers, NEW s \in Slots, Give(w, s),
         work[w].at = "idle", Asked(s) \/ In(wait, s), UNCHANGED <<slot, made, pool>>,
         Distinct(mq, [slot : Slots])', Distinct(wait, Slots)', ~Asked(s)', ~In(wait, s)',
         \A t \in Slots : (Asked(t)' => Asked(t)) /\ (In(wait, t)' => In(wait, t))
  PROVE  SlotsPlaced' /\ SlotsHeld'
<1>1. /\ work'[w].at = "given" /\ work'[w].slot = s /\ work'[w].req = slot[s].req
      /\ \A v \in Workers : v # w => work'[v] = work[v]
  BY GiveMeans
<1>2. s \notin pool /\ Live(s) /\ ~slot[s].replied /\ s <= made
  BY DEF SlotsPlaced, SlotsLive
<1>3. \A v \in Workers : work[v].slot # s
  BY DEF SlotsPlaced
<1>4. \A t \in Slots : Live(t)' <=> Live(t)
  BY DEF Live
<1>5. \A v \in Workers : work[v].at # "idle" => work[v].slot \in Slots
  BY DEF Types, WorkTypes
<1>6. SlotsHeld'
  BY <1>1, <1>2, <1>4, <1>5 DEF SlotsHeld
<1>7. \A u, v \in Workers : work'[u].slot = work'[v].slot /\ work'[u].at # "idle" => u = v
  BY <1>1, <1>3 DEF SlotsPlaced
<1>8. ASSUME NEW t \in Slots
      PROVE  /\ Asked(t)' \/ In(wait, t)' => t \notin pool' /\ Live(t)' /\ ~slot'[t].replied
             /\ Asked(t)' => ~In(wait, t)'
             /\ \A v \in Workers : work'[v].slot = t => ~Asked(t)' /\ ~In(wait, t)'
  BY <1>1, <1>4 DEF SlotsPlaced
<1>9. SlotsPlaced'
  BY <1>7, <1>8 DEF SlotsPlaced
<1> QED
  BY <1>6, <1>9

LEMMA AnswerTo ==
  ASSUME Types, NEW k \in Conns, NEW i \in DOMAIN answers[k]
  PROVE  answers[k][i].to \in Reqs /\ answers[k][i].to # None
<1>1. answers[k] \in Seq(Answers)
  BY DEF Types, AnswerTypes
<1>2. answers[k][i] \in Answers
  BY <1>1, ElementOf
<1> QED
  BY <1>2, BoundsAssumption DEF Reqs, Answers

(* An answer is given to the connection k: it is of what k sent, nothing was *)
(* answered to that request before, and no Request has it any more.          *)
LEMMA AnswerGiven ==
  ASSUME Types, Given, NEW k \in Conns, NEW a \in Answers,
         a.of = a.to, a.to[1] = k, a.to[2] <= sent[k],
         \A t \in Slots : slot'[t].req # a.to,
         \A t \in Slots : slot'[t].req = None \/ slot'[t].req = slot[t].req,
         \A i \in DOMAIN answers[k] : answers[k][i].to # a.to,
         answers' = [answers EXCEPT ![k] = Append(@, a)], sent' = sent
  PROVE  Given'
<1>1. answers[k] \in Seq(Answers) /\ answers \in [Conns -> Seq(Answers)]
  BY DEF Types, AnswerTypes
<1>2. answers'[k] = Append(answers[k], a) /\ \A j \in Conns : j # k => answers'[j] = answers[j]
  BY <1>1
<1>3. /\ DOMAIN answers'[k] = DOMAIN answers[k] \cup {Len(answers[k]) + 1}
      /\ answers'[k][Len(answers[k]) + 1] = a
      /\ \A i \in DOMAIN answers[k] : answers'[k][i] = answers[k][i]
  BY <1>1, <1>2, AppendAt
<1>4. ASSUME NEW j \in Conns, NEW i \in DOMAIN answers[j]
      PROVE  /\ answers[j][i].to[1] = j /\ answers[j][i].to[2] <= sent'[j]
             /\ answers[j][i].of = answers[j][i].to
             /\ \A t \in Slots : slot'[t].req # answers[j][i].to
  <2>1. answers[j][i].to # None
    BY AnswerTo
  <2>2. \A t \in Slots : slot[t].req # answers[j][i].to
    BY DEF Given
  <2>3. \A t \in Slots : slot'[t].req # answers[j][i].to
    BY <2>1, <2>2
  <2> QED
    BY <2>3 DEF Given
<1>5. ASSUME NEW j \in Conns, NEW i \in DOMAIN answers'[j]
      PROVE  /\ answers'[j][i].to[1] = j /\ answers'[j][i].to[2] <= sent'[j]
             /\ answers'[j][i].of = answers'[j][i].to
             /\ \A t \in Slots : slot'[t].req # answers'[j][i].to
  <2>1. CASE j = k /\ i = Len(answers[k]) + 1
    BY <2>1, <1>3
  <2>2. CASE j = k /\ i \in DOMAIN answers[k]
    <3>1. answers'[j][i] = answers[j][i]
      BY <2>2, <1>3
    <3> QED
      BY <2>2, <3>1, <1>4
  <2>3. CASE j # k
    <3>1. answers'[j] = answers[j]
      BY <2>3, <1>2
    <3> QED
      BY <3>1, <1>4
  <2> QED
    BY <2>1, <2>2, <2>3, <1>3
<1>6. ASSUME NEW i \in DOMAIN answers'[k], NEW j \in DOMAIN answers'[k],
             answers'[k][i].to = answers'[k][j].to
      PROVE  i = j
  <2>1. CASE i \in DOMAIN answers[k] /\ j \in DOMAIN answers[k]
    <3>1. answers[k][i].to = answers[k][j].to
      BY <2>1, <1>3, <1>6
    <3> QED
      BY <2>1, <3>1 DEF Given
  <2>2. CASE i = Len(answers[k]) + 1 /\ j \in DOMAIN answers[k]
    BY <2>2, <1>3, <1>6
  <2>3. CASE i \in DOMAIN answers[k] /\ j = Len(answers[k]) + 1
    BY <2>3, <1>3, <1>6
  <2> QED
    BY <2>1, <2>2, <2>3, <1>3
<1>7. \A j \in Conns : \A i, m \in DOMAIN answers'[j] :
        answers'[j][i].to = answers'[j][m].to => i = m
  <2>1. \A j \in Conns : j # k => \A i, m \in DOMAIN answers'[j] :
          answers'[j][i].to = answers'[j][m].to => i = m
    BY <1>2 DEF Given
  <2> QED
    BY <2>1, <1>6
<1> QED
  BY <1>5, <1>7 DEF Given

(* A worker answers: the Request it has goes back to rPool.  Nobody else has *)
(* it, and its request was not answered before.                              *)
LEMMA AnswerStep ==
  ASSUME Types, SlotsPlaced, SlotsHeld, SlotsLive, Given, NEW w \in Workers, NEW c \in BOOLEAN,
         Answer(w, c), work[w].at # "idle", ~slot[work[w].slot].replied,
         (UNCHANGED work /\ work[w].at # "given") \/ At(w, "done"),
         UNCHANGED <<sent, made, mq, wait>>
  PROVE  SlotsPlaced' /\ SlotsHeld' /\ SlotsLive' /\ Given'
<1> PICK s : s = work[w].slot
  OBVIOUS
<1> PICK r : r = slot[s].req
  OBVIOUS
<1> PICK k : k = slot[s].conn
  OBVIOUS
<1>1. s \in Slots /\ s <= made /\ s \notin pool /\ Live(s) /\ r # None /\ work[w].req = r
  BY DEF Types, WorkTypes, SlotsHeld, Live
<1>2. k \in Conns /\ r[1] = k /\ r[2] <= sent[k] /\ r \in Reqs
  BY <1>1 DEF Types, SlotTypes, SlotsLive
<1>3. /\ slot'[s].req = None /\ slot'[s].conn = None /\ slot'[s].replied
      /\ \A t \in Slots : t # s => slot'[t] = slot[t]
  BY <1>1 DEF Answer, Types, SlotTypes
<1>4. pool' = pool \cup {s}
  BY DEF Answer
<1>5. ~Asked(s) /\ ~In(wait, s)
  BY <1>1 DEF SlotsPlaced
<1>6. /\ work'[w].slot = s /\ work'[w].at # "given" /\ work'[w].at # "idle"
      /\ \A v \in Workers : v # w => work'[v] = work[v]
  BY AtMeans
<1>7. \A v \in Workers : v # w => work[v].slot # s
  BY <1>1 DEF SlotsPlaced
<1>8. Live(s)' = FALSE /\ \A t \in Slots : t # s => (Live(t)' <=> Live(t))
  BY <1>3 DEF Live
<1>9. SlotsPlaced'
  <2>1. \A t \in Slots : Asked(t)' \/ In(wait, t)' => t \notin pool' /\ Live(t)' /\ ~slot'[t].replied
    BY <1>3, <1>4, <1>5, <1>8 DEF SlotsPlaced, Asked
  <2>2. \A u, v \in Workers : work'[u].slot = work'[v].slot /\ work'[u].at # "idle" => u = v
    BY <1>6, <1>7 DEF SlotsPlaced
  <2>3. \A t \in Slots : \A v \in Workers : work'[v].slot = t => ~Asked(t)' /\ ~In(wait, t)'
    BY <1>5, <1>6 DEF SlotsPlaced, Asked
  <2> QED
    BY <2>1, <2>2, <2>3 DEF SlotsPlaced, Asked
<1>10. SlotsHeld'
  <2> SUFFICES ASSUME NEW v \in Workers, work'[v].at # "idle"
               PROVE  /\ work'[v].slot <= made
                      /\ work'[v].at = "given" => ~slot'[work'[v].slot].replied
                      /\ ~slot'[work'[v].slot].replied =>
                           /\ work'[v].slot \notin pool' /\ Live(work[v].slot)'
                           /\ work'[v].req = slot'[work'[v].slot].req
    BY DEF SlotsHeld
  <2>1. CASE v = w
    <3>1. work'[v].slot = s /\ work'[v].at # "given"
      BY <2>1, <1>6
    <3> QED
      BY <3>1, <1>1, <1>3
  <2>2. CASE v # w
    <3>1. work'[v] = work[v] /\ work[v].slot # s
      BY <2>2, <1>6, <1>7
    <3>2. work[v].slot \in Slots /\ work[v].at # "idle"
      BY <3>1 DEF Types, WorkTypes
    <3>3. slot'[work[v].slot] = slot[work[v].slot]
      BY <3>1, <3>2, <1>3
    <3>4. /\ work[v].slot <= made /\ (work[v].at = "given" => ~slot[work[v].slot].replied)
          /\ ~slot[work[v].slot].replied =>
               work[v].slot \notin pool /\ Live(work[v].slot) /\ work[v].req = slot[work[v].slot].req
      BY <3>2 DEF SlotsHeld
    <3>5. Live(work[v].slot)' <=> Live(work[v].slot)
      BY <3>1, <3>3 DEF Live
    <3> QED
      BY <3>1, <3>3, <3>4, <3>5, <1>4
  <2> QED
    BY <2>1, <2>2
<1>11. SlotsLive'
  <2>1. ASSUME NEW t \in Slots
        PROVE  /\ Live(t)' => /\ t <= made' /\ t \notin pool' /\ ~slot'[t].replied
                              /\ slot'[t].conn \in Conns /\ slot'[t].req[1] = slot'[t].conn
                              /\ slot'[t].req[2] <= sent'[slot'[t].conn]
               /\ ~Live(t)' => slot'[t].conn = None
               /\ t \in pool' => t <= made'
    <3>1. CASE t = s
      BY <3>1, <1>1, <1>3, <1>4, <1>8
    <3>2. CASE t # s
      BY <3>2, <1>3, <1>4, <1>8 DEF SlotsLive
    <3> QED
      BY <3>1, <3>2
  <2>2. \A t, u \in Slots : Live(t)' /\ slot'[t].req = slot'[u].req => t = u
    BY <1>3, <1>8 DEF SlotsLive, Live
  <2> QED
    BY <2>1, <2>2 DEF SlotsLive
<1>12. \A t \in Slots : slot'[t].req # r
  BY <1>1, <1>3 DEF SlotsLive
<1>13. \A t \in Slots : slot'[t].req = None \/ slot'[t].req = slot[t].req
  BY <1>3
<1>14. Given'
  <2>1. CASE k \in open
    <3> DEFINE a == [to |-> r, of |-> work[w].req]
    <3>1. a \in Answers /\ a.to = r /\ a.of = r
      BY <1>1, <1>2 DEF Answers
    <3>2. answers' = [answers EXCEPT ![k] = Append(@, a)]
      BY <2>1 DEF Answer
    <3>3. \A i \in DOMAIN answers[k] : answers[k][i].to # r
      BY <1>1, <1>2 DEF Given
    <3> HIDE DEF a
    <3> QED
      BY <1>2, <1>12, <1>13, <3>1, <3>2, <3>3, AnswerGiven
  <2>2. CASE k \notin open
    <3>1. answers' = answers
      BY <2>2 DEF Answer
    <3>2. ASSUME NEW j \in Conns, NEW i \in DOMAIN answers[j], NEW t \in Slots
          PROVE  slot'[t].req # answers[j][i].to
      <4>1. answers[j][i].to # None
        BY AnswerTo
      <4> QED
        BY <4>1, <1>13 DEF Given
    <3> QED
      BY <3>1, <3>2 DEF Given
  <2> QED
    BY <2>1, <2>2
<1> QED
  BY <1>9, <1>10, <1>11, <1>14

(* A request arrives: the Request it gets lives of nothing and nobody has    *)
(* it, and the request is one that was never answered.                       *)
LEMMA ArriveStep ==
  ASSUME Types, Placed, SlotsPlaced, SlotsHeld, SlotsLive, Given, NEW k \in Conns, Arrive(k), ~reused'
  PROVE  SlotsPlaced' /\ SlotsHeld' /\ SlotsLive' /\ Given'
<1> PICK s \in pool \cup (Slots \cap {made + 1}) :
      /\ pool' = pool \ {s}
      /\ made' = IF s > made THEN s ELSE made
      /\ slot' = [slot EXCEPT ![s] = [req |-> <<k, sent'[k]>>, conn |-> k, replied |-> FALSE]]
      /\ mq' = Append(mq, [slot |-> s])
      /\ reused' = (reused \/ \E w \in workers : work[w].slot = s)
  BY DEF Arrive
<1> PICK r : r = <<k, sent[k] + 1>>
  OBVIOUS
<1>1. s \in Slots /\ ~Live(s) /\ made \in Nat /\ s \in Nat
  <2>1. s \in Slots /\ made \in Nat
    BY BoundsAssumption DEF Types, OtherTypes
  <2>2. s \in Nat
    BY <2>1 DEF Slots
  <2> QED
    BY <2>1, <2>2 DEF SlotsLive
<1>2. s <= made' /\ made <= made' /\ made' \in Nat
  BY <1>1
<1>3. /\ sent'[k] = sent[k] + 1 /\ sent[k] \in Nat
      /\ \A j \in Conns : sent[j] <= sent'[j] /\ sent[j] \in Nat /\ sent'[j] \in Nat
  BY DEF Arrive, Types, OtherTypes
<1>4. /\ slot'[s].req = r /\ slot'[s].conn = k /\ ~slot'[s].replied
      /\ \A t \in Slots : t # s => slot'[t] = slot[t]
  BY <1>1, <1>3 DEF Types, SlotTypes
<1>5. r # None /\ r[1] = k /\ r[2] = sent'[k] /\ ~(r[2] <= sent[k])
  BY <1>3, BoundsAssumption
<1>6. Live(s)' /\ \A t \in Slots : t # s => (Live(t)' <=> Live(t))
  BY <1>4, <1>5 DEF Live
<1>7. \A w \in Workers : work[w].slot # s
  <2> SUFFICES ASSUME NEW w \in Workers PROVE work[w].slot # s
    OBVIOUS
  <2>1. CASE w \in workers
    BY <2>1
  <2>2. CASE w \notin workers
    <3>1. work[w] = Resting
      BY <2>2 DEF Placed, Types, WorkTypes
    <3> QED
      BY <3>1, <1>1 DEF Resting, Slots
  <2> QED
    BY <2>1, <2>2
<1>8. ~Asked(s) /\ ~In(wait, s)
  BY <1>1 DEF SlotsPlaced
<1>9. /\ \A t \in Slots : Asked(t)' <=> Asked(t) \/ t = s
      /\ Distinct(mq, [slot : Slots])'
  <2> PICK m : m = [slot |-> s]
    OBVIOUS
  <2>1. mq \in Seq(Messages) /\ m \in Messages /\ ~In(mq, m) /\ mq' = Append(mq, m)
    BY <1>1, <1>8, Kinds DEF Types, QueueTypes, Asked
  <2>2. \A x : In(mq', x) <=> In(mq, x) \/ x = m
    BY <2>1, AppendHolds
  <2>3. Distinct(mq, [slot : Slots]) => Distinct(mq', [slot : Slots])
    BY <2>1, AppendNew, Zenon
  <2>4. \A t \in Slots : [slot |-> t] = m <=> t = s
    BY Kinds
  <2>5. \A t \in Slots : Asked(t)' <=> Asked(t) \/ t = s
    BY <2>2, <2>4, Zenon DEF Asked
  <2> QED
    BY <2>3, <2>5 DEF SlotsPlaced
<1>10. UNCHANGED <<open, idle, wait, workers, work, answers>>
  BY DEF Arrive, rings
<1>11. SlotsPlaced'
  <2>1. ASSUME NEW t \in Slots
        PROVE  /\ Asked(t)' \/ In(wait, t)' => t \notin pool' /\ Live(t)' /\ ~slot'[t].replied
               /\ Asked(t)' => ~In(wait, t)'
               /\ \A w \in Workers : work'[w].slot = t => ~Asked(t)' /\ ~In(wait, t)'
    <3>1. CASE t = s
      BY <3>1, <1>4, <1>6, <1>7, <1>8, <1>10
    <3>2. CASE t # s
      BY <3>2, <1>4, <1>6, <1>9, <1>10 DEF SlotsPlaced
    <3> QED
      BY <3>1, <3>2
  <2>2. \A v, w \in Workers : work'[v].slot = work'[w].slot /\ work'[v].at # "idle" => v = w
    BY <1>10 DEF SlotsPlaced
  <2> QED
    BY <2>1, <2>2, <1>9, <1>10 DEF SlotsPlaced
<1>12. SlotsHeld'
  <2> SUFFICES ASSUME NEW w \in Workers, work[w].at # "idle", NEW t, t = work[w].slot
               PROVE  /\ t <= made'
                      /\ work[w].at = "given" => ~slot'[t].replied
                      /\ ~slot'[t].replied => t \notin pool' /\ slot'[t].req # None /\ work[w].req = slot'[t].req
    BY <1>10 DEF SlotsHeld, Live
  <2>1. t \in Slots /\ t # s /\ t \in Nat
    BY <1>7 DEF Types, WorkTypes, Slots
  <2>2. /\ t <= made
        /\ work[w].at = "given" => ~slot[t].replied
        /\ ~slot[t].replied => t \notin pool /\ slot[t].req # None /\ work[w].req = slot[t].req
    BY DEF SlotsHeld, Live
  <2>3. slot'[t] = slot[t] /\ t <= made'
    BY <2>1, <2>2, <1>1, <1>2, <1>4
  <2> QED
    BY <2>2, <2>3
<1>13. SlotsLive'
  <2>1. ASSUME NEW t \in Slots
        PROVE  /\ Live(t)' => /\ t <= made' /\ t \notin pool' /\ ~slot'[t].replied
                              /\ slot'[t].conn \in Conns /\ slot'[t].req[1] = slot'[t].conn
                              /\ slot'[t].req[2] <= sent'[slot'[t].conn]
               /\ ~Live(t)' => slot'[t].conn = None
               /\ t \in pool' => t <= made'
    <3>1. CASE t = s
      BY <3>1, <1>2, <1>3, <1>4, <1>5, <1>6
    <3>2. CASE t # s
      <4>1. slot'[t] = slot[t] /\ (Live(t)' <=> Live(t)) /\ t \in Nat
        BY <3>2, <1>4, <1>6 DEF Slots
      <4>2. Live(t) => slot[t].req[2] \in Nat
        BY DEF SlotsLive, Types, SlotTypes, Reqs
      <4> QED
        BY <4>1, <4>2, <1>1, <1>2, <1>3 DEF SlotsLive
    <3> QED
      BY <3>1, <3>2
  <2>2. \A t \in Slots : t # s => slot'[t].req # r
    BY <1>4, <1>5 DEF SlotsLive, Live
  <2>3. \A t, u \in Slots : Live(t)' /\ slot'[t].req = slot'[u].req => t = u
    BY <2>2, <1>4, <1>6 DEF SlotsLive
  <2> QED
    BY <2>1, <2>3 DEF SlotsLive
<1>14. Given'
  <2>1. ASSUME NEW j \in Conns, NEW i \in DOMAIN answers[j]
        PROVE  /\ answers[j][i].to[1] = j /\ answers[j][i].to[2] <= sent'[j]
               /\ answers[j][i].of = answers[j][i].to
               /\ \A t \in Slots : slot'[t].req # answers[j][i].to
    <3>1. answers[j][i].to \in Reqs
      BY AnswerTo
    <3>2. answers[j][i].to[2] \in Nat
      BY <3>1 DEF Reqs
    <3>3. /\ answers[j][i].to[1] = j /\ answers[j][i].to[2] <= sent[j]
          /\ answers[j][i].of = answers[j][i].to
          /\ \A t \in Slots : slot[t].req # answers[j][i].to
      BY DEF Given
    <3>4. answers[j][i].to # r
      BY <3>3, <1>5
    <3> QED
      BY <3>2, <3>3, <3>4, <1>3, <1>4
  <2>2. \A j \in Conns : \A i, m \in DOMAIN answers[j] : answers[j][i].to = answers[j][m].to => i = m
    BY DEF Given
  <2> QED
    BY <2>1, <2>2, <1>10 DEF Given
<1> QED
  BY <1>11, <1>12, <1>13, <1>14

LEMMA OwnStep == Types /\ Placed /\ Own /\ [Next]_vars => Own'
<1> SUFFICES ASSUME Types, Placed, Own, [Next]_vars, ~reused'
             PROVE  SlotsPlaced' /\ SlotsHeld' /\ SlotsLive' /\ Given'
  BY DEF Own
<1>1. ASSUME NEW k \in Conns, Arrive(k)
      PROVE  SlotsPlaced' /\ SlotsHeld' /\ SlotsLive' /\ Given'
  <2>1. ~reused
    BY <1>1 DEF Arrive
  <2> QED
    BY <1>1, <2>1, ArriveStep DEF Own
<1>2. CASE ~(\E k \in Conns : Arrive(k))
  <2>1. ~reused
    BY <1>2 DEF Next, Work, ConnCloses, ManagerRequest, ManagerRequestPanics, ManagerWorker,
                ManagerWorkerPanics, Take, ReplyEarly,
                HandlerReturns, ReplyNormal, NotFound, HandlerPanics, Done, vars, rings
  <2>2. SlotsPlaced /\ SlotsHeld /\ SlotsLive /\ Given
    BY <2>1 DEF Own
  <2>3. ASSUME NEW k \in Conns, ConnCloses(k)
        PROVE  SlotsPlaced' /\ SlotsHeld' /\ SlotsLive' /\ Given'
    <3>1. UNCHANGED <<sent, slot, made, pool, mq, wait, work, answers>>
      BY <2>3 DEF ConnCloses, rings
    <3>2. SlotsPlaced'
      BY <2>2, <3>1 DEF SlotsPlaced, Asked, Live
    <3>3. SlotsHeld'
      BY <2>2, <3>1 DEF SlotsHeld, Live
    <3> QED
      BY <2>2, <3>1, <3>2, <3>3, LiveKept
  <2>4. CASE ManagerRequest
    <3> PICK s : s = Head(mq).slot
      OBVIOUS
    <3>1. /\ s \in Slots /\ Head(mq) = [slot |-> s]
          /\ mq \in Seq(Messages) /\ mq # <<>> /\ mq' = Tail(mq)
      BY <2>4, TailHolds, Kinds DEF ManagerRequest, Types, QueueTypes
    <3>2. UNCHANGED <<sent, open, slot, made, pool, answers, reused>>
      BY <2>4 DEF ManagerRequest
    <3>3. /\ \A x : In(mq', x) => In(mq, x)
          /\ In(mq, [slot |-> s]) /\ ~In(mq', [slot |-> s])
          /\ Distinct(mq', [slot : Slots])
      <4>1. Distinct(mq, [slot : Slots]) /\ Head(mq) \in [slot : Slots]
        BY <2>2, <3>1, Kinds DEF SlotsPlaced
      <4> QED
        BY <3>1, <4>1, TailHolds
    <3>4. Asked(s) /\ ~Asked(s)' /\ ~In(wait, s) /\ \A t \in Slots : Asked(t)' => Asked(t)
      BY <2>2, <3>1, <3>3 DEF Asked, SlotsPlaced
    <3>5. SlotsLive' /\ Given'
      BY <2>2, <3>2, LiveKept
    <3>6. CASE idle # <<>>
      <4>1. Give(Head(idle), s) /\ UNCHANGED wait
        BY <2>4, <3>6 DEF ManagerRequest, PopIdle
      <4>2. Head(idle) \in Workers /\ In(idle, Head(idle))
        BY <3>6, TailHolds DEF Types, QueueTypes
      <4>3. work[Head(idle)].at = "idle"
        BY <4>2 DEF Placed
      <4>4. Distinct(wait, Slots)' /\ ~In(wait, s)' /\ \A t \in Slots : In(wait, t)' => In(wait, t)
        BY <2>2, <3>4, <4>1 DEF SlotsPlaced
      <4>5. SlotsPlaced' /\ SlotsHeld'
        BY <2>2, <3>1, <3>2, <3>3, <3>4, <4>1, <4>2, <4>3, <4>4, HeldGiven
      <4> QED
        BY <3>5, <4>5
    <3>7. CASE idle = <<>> /\ Cardinality(workers) < bound.workers
      <4>1. PICK w \in Workers \ workers : Give(w, s) /\ UNCHANGED wait
        BY <2>4, <3>7 DEF ManagerRequest
      <4>2. work[w].at = "idle"
        BY <4>1 DEF Placed
      <4>3. Distinct(wait, Slots)' /\ ~In(wait, s)' /\ \A t \in Slots : In(wait, t)' => In(wait, t)
        BY <2>2, <3>4, <4>1 DEF SlotsPlaced
      <4>4. SlotsPlaced' /\ SlotsHeld'
        BY <2>2, <3>1, <3>2, <3>3, <3>4, <4>1, <4>2, <4>3, HeldGiven
      <4> QED
        BY <3>5, <4>4
    <3>8. CASE idle = <<>> /\ ~(Cardinality(workers) < bound.workers)
      <4>1. wait' = Append(wait, s) /\ UNCHANGED work
        BY <2>4, <3>8 DEF ManagerRequest, PutWait
      <4>2. (\A x : In(wait', x) <=> In(wait, x) \/ x = s) /\ Distinct(wait', Slots)
        BY <2>2, <3>1, <3>4, <4>1, AppendHolds DEF SlotsPlaced, Types, QueueTypes
      <4>3. SlotsPlaced'
        <5>1. ASSUME NEW t \in Slots
              PROVE  /\ Asked(t)' \/ In(wait, t)' => t \notin pool' /\ Live(t)' /\ ~slot'[t].replied
                     /\ Asked(t)' => ~In(wait, t)'
                     /\ \A v \in Workers : work'[v].slot = t => ~Asked(t)' /\ ~In(wait, t)'
          BY <2>2, <3>2, <3>4, <4>1, <4>2 DEF SlotsPlaced, Live
        <5>2. \A u, v \in Workers : work'[u].slot = work'[v].slot /\ work'[u].at # "idle" => u = v
          BY <2>2, <4>1 DEF SlotsPlaced
        <5> QED
          BY <5>1, <5>2, <3>3, <4>2 DEF SlotsPlaced
      <4>4. SlotsHeld'
        BY <2>2, <3>2, <4>1 DEF SlotsHeld, Live
      <4> QED
        BY <3>5, <4>3, <4>4
    <3> QED
      BY <3>6, <3>7, <3>8
  <2>5. CASE ManagerWorker
    <3> PICK w : w = Head(mq).worker
      OBVIOUS
    <3>1. /\ w \in Workers /\ Head(mq) = [worker |-> w]
          /\ mq \in Seq(Messages) /\ mq # <<>> /\ mq' = Tail(mq)
      BY <2>5, TailHolds, Kinds DEF ManagerWorker, Types, QueueTypes
    <3>2. UNCHANGED <<sent, open, slot, made, pool, workers, answers, reused>>
      BY <2>5 DEF ManagerWorker
    <3>3. /\ \A x : In(mq', x) => In(mq, x)
          /\ In(mq, [worker |-> w])
          /\ Distinct(mq', [slot : Slots])
      BY <2>2, <3>1, TailHolds DEF SlotsPlaced
    <3>4. work[w].at = "idle" /\ \A t \in Slots : Asked(t)' => Asked(t)
      BY <3>1, <3>3 DEF Asked, Placed, Told
    <3>5. SlotsLive' /\ Given'
      BY <2>2, <3>2, LiveKept
    <3>6. CASE wait # <<>>
      <4>1. Give(w, Head(wait)) /\ wait' = Tail(wait)
        BY <2>5, <3>6 DEF ManagerWorker, PopWait
      <4>2. wait \in Seq(Slots) /\ Distinct(wait, Slots)
        BY <2>2 DEF SlotsPlaced, Types, QueueTypes
      <4>3. /\ Head(wait) \in Slots /\ In(wait, Head(wait)) /\ ~In(wait', Head(wait))
            /\ Distinct(wait', Slots) /\ \A x : In(wait', x) => In(wait, x)
        BY <3>6, <4>1, <4>2, TailHolds
      <4> PICK s : s = Head(wait)
        OBVIOUS
      <4>4. /\ s \in Slots /\ Give(w, s) /\ In(wait, s) /\ ~In(wait, s)' /\ ~Asked(s)'
            /\ \A t \in Slots : In(wait, t)' => In(wait, t)
        BY <2>2, <3>4, <4>1, <4>3 DEF SlotsPlaced
      <4>5. SlotsPlaced' /\ SlotsHeld'
        BY <2>2, <3>1, <3>2, <3>3, <3>4, <4>3, <4>4, HeldGiven
      <4> QED
        BY <3>5, <4>5
    <3>7. CASE wait = <<>>
      <4>1. UNCHANGED <<wait, work>>
        BY <2>5, <3>7 DEF ManagerWorker, PutIdle
      <4>2. SlotsPlaced'
        BY <2>2, <3>2, <3>3, <3>4, <4>1 DEF SlotsPlaced, Live
      <4>3. SlotsHeld'
        BY <2>2, <3>2, <4>1 DEF SlotsHeld, Live
      <4> QED
        BY <3>5, <4>2, <4>3
    <3> QED
      BY <3>6, <3>7
  <2>6. ASSUME NEW w \in Workers, Take(w) \/ HandlerReturns(w) \/ HandlerPanics(w)
        PROVE  SlotsPlaced' /\ SlotsHeld' /\ SlotsLive' /\ Given'
    <3>1. PICK step \in {"handler", "reply", "done"} : At(w, step)
      BY <2>6 DEF Take, HandlerReturns, HandlerPanics
    <3>2. work[w].at # "idle" /\ UNCHANGED <<sent, slot, made, pool, mq, wait, answers>>
      BY <2>6 DEF Take, HandlerReturns, HandlerPanics, rings
    <3> QED
      BY <2>2, <3>1, <3>2, HeldGoesOn, LiveKept
  <2>7. ASSUME NEW w \in Workers, ReplyEarly(w)
        PROVE  SlotsPlaced' /\ SlotsHeld' /\ SlotsLive' /\ Given'
    <3>1. /\ Answer(w, FALSE) /\ work[w].at = "handler" /\ ~slot[work[w].slot].replied
          /\ UNCHANGED <<sent, made, mq, wait, work>>
      BY <2>7 DEF ReplyEarly, rings
    <3> QED
      BY <2>2, <3>1, AnswerStep
  <2>8. ASSUME NEW w \in Workers, ReplyNormal(w)
        PROVE  SlotsPlaced' /\ SlotsHeld' /\ SlotsLive' /\ Given'
    <3>1. work[w].at = "reply" /\ At(w, "done") /\ UNCHANGED <<sent, made, mq, wait>>
      BY <2>8 DEF ReplyNormal, rings
    <3>2. CASE slot[work[w].slot].replied
      <4>1. UNCHANGED <<answers, slot, pool>>
        BY <2>8, <3>2 DEF ReplyNormal
      <4> QED
        BY <2>2, <3>1, <4>1, HeldGoesOn, LiveKept
    <3>3. CASE ~slot[work[w].slot].replied
      <4>1. PICK c \in BOOLEAN : Answer(w, c)
        BY <2>8, <3>3 DEF ReplyNormal
      <4> QED
        BY <2>2, <3>1, <3>3, <4>1, AnswerStep
    <3> QED
      BY <3>2, <3>3
  <2>9. ASSUME NEW w \in Workers, NotFound(w)
        PROVE  SlotsPlaced' /\ SlotsHeld' /\ SlotsLive' /\ Given'
    <3>1. /\ work[w].at = "given" /\ Answer(w, TRUE) /\ At(w, "done")
          /\ UNCHANGED <<sent, made, mq, wait>>
      BY <2>9 DEF NotFound, rings
    <3>2. ~slot[work[w].slot].replied
      BY <2>2, <3>1 DEF SlotsHeld
    <3> QED
      BY <2>2, <3>1, <3>2, AnswerStep
  <2>10. ASSUME NEW w \in Workers, Done(w)
         PROVE  SlotsPlaced' /\ SlotsHeld' /\ SlotsLive' /\ Given'
    <3>1. /\ mq' = Append(mq, [worker |-> w]) /\ work' = [work EXCEPT ![w] = Resting]
          /\ UNCHANGED <<sent, slot, made, pool, wait, answers>>
      BY <2>10 DEF Done, rings
    <3>2. work'[w].at = "idle" /\ work'[w].slot = 0 /\ \A v \in Workers : v # w => work'[v] = work[v]
      BY <3>1 DEF Resting, Types, WorkTypes
    <3>3. (\A t \in Slots : Asked(t)' <=> Asked(t)) /\ Distinct(mq', [slot : Slots])
      <4> PICK m : m = [worker |-> w]
        OBVIOUS
      <4>1. mq \in Seq(Messages) /\ m \in Messages /\ m \notin [slot : Slots] /\ mq' = Append(mq, m)
        BY <3>1, Kinds DEF Types, QueueTypes
      <4>2. \A x : In(mq', x) <=> In(mq, x) \/ x = m
        BY <4>1, AppendHolds
      <4>3. Distinct(mq, [slot : Slots]) => Distinct(mq', [slot : Slots])
        BY <4>1, AppendOther, Zenon
      <4>4. \A t : [slot |-> t] # m
        BY Kinds
      <4>5. \A t \in Slots : Asked(t)' <=> Asked(t)
        BY <4>2, <4>4, Zenon DEF Asked
      <4> QED
        BY <2>2, <4>3, <4>5 DEF SlotsPlaced
    <3>4. SlotsPlaced'
      <4>1. \A v \in Workers : \A t \in Slots : work'[v].slot = t => work[v].slot = t
        BY <3>2 DEF Slots
      <4>2. \A u, v \in Workers : work'[u].slot = work'[v].slot /\ work'[u].at # "idle" => u = v
        <5>1. \A u \in Workers : work[u].at # "idle" => work[u].slot \in Slots /\ work[u].slot # 0
          BY DEF Types, WorkTypes, Slots
        <5> QED
          BY <2>2, <3>2, <5>1 DEF SlotsPlaced
      <4>3. ASSUME NEW t \in Slots
            PROVE  /\ Asked(t)' \/ In(wait, t)' => t \notin pool' /\ Live(t)' /\ ~slot'[t].replied
                   /\ Asked(t)' => ~In(wait, t)'
                   /\ \A v \in Workers : work'[v].slot = t => ~Asked(t)' /\ ~In(wait, t)'
        BY <2>2, <3>1, <3>3, <4>1 DEF SlotsPlaced, Live
      <4> QED
        BY <2>2, <3>1, <3>3, <4>2, <4>3 DEF SlotsPlaced
    <3>5. SlotsHeld'
      BY <2>2, <3>1, <3>2 DEF SlotsHeld, Live
    <3> QED
      BY <2>2, <3>1, <3>4, <3>5, LiveKept
  <2>11. CASE UNCHANGED vars
    <3>1. UNCHANGED <<sent, slot, made, pool, mq, wait, work, answers>>
      BY <2>11 DEF vars, rings
    <3>2. SlotsPlaced'
      BY <2>2, <3>1 DEF SlotsPlaced, Asked, Live
    <3>3. SlotsHeld'
      BY <2>2, <3>1 DEF SlotsHeld, Live
    <3> QED
      BY <2>2, <3>1, <3>2, <3>3, LiveKept
  <2>12. CASE ManagerRequestPanics \/ ManagerWorkerPanics
    <3>1. /\ mq \in Seq(Messages) /\ mq # <<>> /\ mq' = Tail(mq)
          /\ UNCHANGED <<sent, slot, made, pool, wait, work, answers>>
      BY <2>12 DEF ManagerRequestPanics, ManagerWorkerPanics, Types, QueueTypes
    <3>2. (\A x : In(mq', x) => In(mq, x)) /\ Distinct(mq', [slot : Slots])
      BY <2>2, <3>1, TailHolds DEF SlotsPlaced
    <3>3. \A t \in Slots : Asked(t)' => Asked(t)
      BY <3>2 DEF Asked
    <3>4. SlotsPlaced'
      BY <2>2, <3>1, <3>2, <3>3 DEF SlotsPlaced, Live
    <3>5. SlotsHeld'
      BY <2>2, <3>1 DEF SlotsHeld, Live
    <3> QED
      BY <2>2, <3>1, <3>4, <3>5, LiveKept
  <2> QED
    BY <1>2, <2>3, <2>4, <2>5, <2>6, <2>7, <2>8, <2>9, <2>10, <2>11, <2>12 DEF Next, Work
<1> QED
  BY <1>1, <1>2

(* Unless a Request is reused while a worker still has it, what goes out on  *)
(* a connection is the answer to a request of this connection, made by the   *)
(* worker that got this request, and no request is answered twice: Reply,    *)
(* release and newRequest of rPool (OwnAnswer of HttpdPool).                 *)
THEOREM AnswersOwn == Spec => []OwnAnswer
<1> DEFINE IInv == Types /\ Placed /\ Own
<1>1. Init => IInv
  BY TypesInit, PlacedInit, OwnInit
<1>2. IInv /\ [Next]_vars => IInv'
  BY TypesStep, PlacedStep, OwnStep
<1>3. IInv => OwnAnswer
  BY DEF Own, Given, OwnAnswer
<1> HIDE DEF IInv
<1> QED
  BY <1>1, <1>2, <1>3, PTL DEF Spec
=============================================================================
