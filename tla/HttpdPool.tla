----------------------------- MODULE HttpdPool ------------------------------
(* How httpd serves requests (httpd.go, manager.go, worker.go, request.go).  *)
(* The event loops put each request into a Request of rPool and cast it to a *)
(* manager; the manager gives it to an idle worker, starts a worker, or lets *)
(* it wait.  Worker and manager cast to each other.  What is answered goes   *)
(* back into rPool, from where the next request may get it while the worker  *)
(* of the first one still has it.                                            *)
(* Idle workers and waiting requests are in two SingleRingBuffers: RingRoom  *)
(* says when their Put panics.                                               *)
EXTENDS Integers, Sequences, FiniteSets, Functions

CONSTANTS Conns,       \* connections
          Workers,     \* names for the workers
          Bounds,      \* bounds to choose from: the connections, the requests of
                       \* all of them, and maxWorkerNum of the manager
          MaxSlots,    \* bound: Request structures
          IdleInit, IdleMax,  \* sizes of the ring of state.worker (128, and 128 or more)
          WaitInit, WaitMax,  \* sizes of the ring of state.wait (128 and 2048)
          None         \* no request, no connection

ASSUME BoundsAssumption ==
  /\ Bounds \subseteq [conns : SUBSET Conns, requests : Nat, workers : Nat \ {0}]
  /\ None \notin Conns \cup Workers \cup (Conns \X Nat) /\ MaxSlots \in Nat

ASSUME RingsAssumption ==
  /\ IdleInit \in Nat \ {0} /\ IdleMax \in Nat \ {0} /\ IdleInit <= IdleMax
  /\ WaitInit \in Nat \ {0} /\ WaitMax \in Nat \ {0} /\ WaitInit <= WaitMax

IdleRing == INSTANCE RingRoom WITH InitCap <- IdleInit, MaxCap <- IdleMax
WaitRing == INSTANCE RingRoom WITH InitCap <- WaitInit, MaxCap <- WaitMax

Slots == 1..MaxSlots

VARIABLES bound,    \* one of Bounds
          sent,     \* number of requests of each connection
          open,     \* connections that are open
          slot,     \* the Requests: request and connection, isReply
          made,     \* Requests made by rPool.New so far: 1..made
          pool,     \* rPool
          mq,       \* mailbox of the manager: [slot] or [worker]
          idle,     \* state.worker
          wait,     \* state.wait
          rooms,    \* how large these two rings are
          workers,  \* workers that have been started
          work,     \* what each worker does: step, slot, and the request it was given
          answers,  \* answers on each connection: the request of the slot, and that of the worker
          reused,   \* a Request was taken from rPool while a worker had it (history)
          lost,     \* workers a Put panicked with (history)
          dropped   \* requests a Put panicked with (history)

rings == <<idle, wait, rooms, lost, dropped>>
vars == <<bound, sent, open, slot, made, pool, mq, rings, workers, work, answers, reused>>

Resting == [at |-> "idle", slot |-> 0, req |-> None]
Empty == [req |-> None, conn |-> None, replied |-> FALSE]

Init ==
  /\ bound \in Bounds
  /\ sent = [k \in Conns |-> 0]
  /\ open = bound.conns
  /\ slot = [s \in Slots |-> Empty]
  /\ made = 0 /\ pool = {}
  /\ mq = <<>>
  /\ idle = <<>> /\ wait = <<>>
  /\ rooms = [idle |-> IdleRing!NewRoom, wait |-> WaitRing!NewRoom]
  /\ workers = {}
  /\ work = [w \in Workers |-> Resting]
  /\ answers = [k \in Conns |-> <<>>]
  /\ reused = FALSE
  /\ lost = {} /\ dropped = {}

Total == FoldFunction(+, 0, sent)

\* handler: newRequest and Cast to the manager
Arrive(k) ==
  /\ k \in open /\ Total < bound.requests
  /\ sent' = [sent EXCEPT ![k] = @ + 1]
  /\ \E s \in pool \cup (Slots \cap {made + 1}) :
       /\ pool' = pool \ {s}
       /\ made' = IF s > made THEN s ELSE made
       /\ slot' = [slot EXCEPT ![s] = [req |-> <<k, sent'[k]>>, conn |-> k, replied |-> FALSE]]
       /\ mq' = Append(mq, [slot |-> s])
       /\ reused' = (reused \/ \E w \in workers : work[w].slot = s)
  /\ UNCHANGED <<bound, open, rings, workers, work, answers>>

ConnCloses(k) ==
  /\ k \in open
  /\ open' = open \ {k}
  /\ UNCHANGED <<bound, sent, slot, made, pool, mq, rings, workers, work, answers, reused>>

-----------------------------------------------------------------------------
(* The manager.                                                              *)
Give(w, s) == work' = [work EXCEPT ![w] = [at |-> "given", slot |-> s, req |-> slot[s].req]]

PopIdle == idle' = Tail(idle) /\ rooms' = [rooms EXCEPT !.idle = IdleRing!RoomPop(@, Len(idle))]
PutIdle(w) == /\ IdleRing!HasRoom(rooms.idle, Len(idle))
              /\ idle' = Append(idle, w)
              /\ rooms' = [rooms EXCEPT !.idle = IdleRing!RoomPut(@, Len(idle))]
PopWait == wait' = Tail(wait) /\ rooms' = [rooms EXCEPT !.wait = WaitRing!RoomPop(@, Len(wait))]
PutWait(s) == /\ WaitRing!HasRoom(rooms.wait, Len(wait))
              /\ wait' = Append(wait, s)
              /\ rooms' = [rooms EXCEPT !.wait = WaitRing!RoomPut(@, Len(wait))]

AllBusy == idle = <<>> /\ Cardinality(workers) >= bound.workers

\* newRequest
ManagerRequest ==
  /\ mq # <<>> /\ "slot" \in DOMAIN Head(mq)
  /\ mq' = Tail(mq)
  /\ LET s == Head(mq).slot IN
     CASE idle # <<>> ->
            Give(Head(idle), s) /\ PopIdle /\ UNCHANGED <<workers, wait>>
       [] idle = <<>> /\ Cardinality(workers) < bound.workers ->
            \E w \in Workers \ workers :
              Give(w, s) /\ workers' = workers \cup {w} /\ UNCHANGED <<idle, wait, rooms>>
       [] OTHER -> PutWait(s) /\ UNCHANGED <<workers, idle, work>>
  /\ UNCHANGED <<bound, sent, open, slot, made, pool, answers, reused, lost, dropped>>

\* The slot behind the last waiting request is gone since narrow: Put panics,
\* ErrorHandler lets the manager go on, and nobody has the request.
ManagerRequestPanics ==
  /\ mq # <<>> /\ "slot" \in DOMAIN Head(mq)
  /\ AllBusy /\ ~WaitRing!HasRoom(rooms.wait, Len(wait))
  /\ mq' = Tail(mq)
  /\ dropped' = dropped \cup {slot[Head(mq).slot].req}
  /\ UNCHANGED <<bound, sent, open, slot, made, pool, idle, wait, rooms, workers, work,
                 answers, reused, lost>>

\* Mutant: a worker that gets a waiting request is put to the idle ones, too.
ManagerWorkerKeeps ==
  /\ mq # <<>> /\ "worker" \in DOMAIN Head(mq)
  /\ mq' = Tail(mq)
  /\ IF wait # <<>>
     THEN /\ Give(Head(mq).worker, Head(wait)) /\ PopWait
          /\ idle' = Append(idle, Head(mq).worker)
     ELSE PutIdle(Head(mq).worker) /\ UNCHANGED <<wait, work>>
  /\ UNCHANGED <<bound, sent, open, slot, made, pool, workers, answers, reused, lost, dropped>>

\* Mutant: a worker that comes back is idle, whoever waits.
ManagerWorkerIdles ==
  /\ mq # <<>> /\ "worker" \in DOMAIN Head(mq)
  /\ mq' = Tail(mq)
  /\ PutIdle(Head(mq).worker)
  /\ UNCHANGED <<bound, sent, open, slot, made, pool, wait, workers, work, answers, reused, lost, dropped>>

ManagerWorker ==
  /\ mq # <<>> /\ "worker" \in DOMAIN Head(mq)
  /\ mq' = Tail(mq)
  /\ IF wait # <<>>
     THEN Give(Head(mq).worker, Head(wait)) /\ PopWait /\ UNCHANGED idle
     ELSE PutIdle(Head(mq).worker) /\ UNCHANGED <<wait, work>>
  /\ UNCHANGED <<bound, sent, open, slot, made, pool, workers, answers, reused, lost, dropped>>

\* Put panics in the same way: the worker lives, and gets nothing to do any more.
ManagerWorkerPanics ==
  /\ mq # <<>> /\ "worker" \in DOMAIN Head(mq)
  /\ wait = <<>> /\ ~IdleRing!HasRoom(rooms.idle, Len(idle))
  /\ mq' = Tail(mq)
  /\ lost' = lost \cup {Head(mq).worker}
  /\ UNCHANGED <<bound, sent, open, slot, made, pool, idle, wait, rooms, workers, work,
                 answers, reused, dropped>>

-----------------------------------------------------------------------------
(* A worker.                                                                 *)
At(w, step) == work' = [work EXCEPT ![w].at = step]

\* the connection is closed: the Request is not even released
Take(w) ==
  /\ work[w].at = "given"
  /\ At(w, IF slot[work[w].slot].conn \in open THEN "handler" ELSE "done")
  /\ UNCHANGED <<bound, sent, open, slot, made, pool, mq, rings, workers, answers, reused>>

\* Mutant: isReply is not set.
AnswerUnmarked(w, closes) ==
  LET s == work[w].slot
      k == slot[s].conn
  IN  /\ answers' = IF k \in open
                    THEN [answers EXCEPT ![k] = Append(@, [to |-> slot[s].req, of |-> work[w].req])]
                    ELSE answers
      /\ open' = IF closes THEN open \ {k} ELSE open
      /\ pool' = pool \cup {s}
      /\ UNCHANGED slot

\* reply and release.  The Conn of a Request that has been released is nil.  The
\* writes of a response are one step: what they mix with is not modelled.
Answer(w, closes) ==
  LET s == work[w].slot
      k == slot[s].conn
  IN  /\ answers' = IF k \in open
                    THEN [answers EXCEPT ![k] = Append(@, [to |-> slot[s].req, of |-> work[w].req])]
                    ELSE answers
      /\ open' = IF closes THEN open \ {k} ELSE open
      /\ slot' = [slot EXCEPT ![s] = [req |-> None, conn |-> None, replied |-> TRUE]]
      /\ pool' = pool \cup {s}

\* Reply called by the handler
ReplyEarly(w) ==
  /\ work[w].at = "handler" /\ ~slot[work[w].slot].replied
  /\ Answer(w, FALSE)
  /\ UNCHANGED <<bound, sent, made, mq, rings, workers, work, reused>>

HandlerReturns(w) ==
  /\ work[w].at = "handler"
  /\ At(w, "reply")
  /\ UNCHANGED <<bound, sent, open, slot, made, pool, mq, rings, workers, answers, reused>>

\* replyNormal after the handler; the request may ask to close the connection
ReplyNormal(w) ==
  /\ work[w].at = "reply"
  /\ IF slot[work[w].slot].replied THEN UNCHANGED <<answers, open, slot, pool>>
     ELSE \E closes \in BOOLEAN : Answer(w, closes)
  /\ At(w, "done")
  /\ UNCHANGED <<bound, sent, made, mq, rings, workers, reused>>

\* no route: reply404
NotFound(w) ==
  /\ work[w].at = "given" /\ slot[work[w].slot].conn \in open
  /\ Answer(w, TRUE)
  /\ At(w, "done")
  /\ UNCHANGED <<bound, sent, made, mq, rings, workers, reused>>

\* the deferred function closes r.Conn
HandlerPanics(w) ==
  /\ work[w].at = "handler"
  /\ open' = open \ {slot[work[w].slot].conn}
  /\ At(w, "done")
  /\ UNCHANGED <<bound, sent, slot, made, pool, mq, rings, workers, answers, reused>>

\* deferred: Cast(state.manager, ctx.Self())
Done(w) ==
  /\ work[w].at = "done"
  /\ work' = [work EXCEPT ![w] = Resting]
  /\ mq' = Append(mq, [worker |-> w])
  /\ UNCHANGED <<bound, sent, open, slot, made, pool, rings, workers, answers, reused>>

Work(w) ==
  \/ Take(w) \/ ReplyEarly(w) \/ HandlerReturns(w) \/ ReplyNormal(w)
  \/ NotFound(w) \/ HandlerPanics(w) \/ Done(w)

Next ==
  \/ \E k \in Conns : Arrive(k) \/ ConnCloses(k)
  \/ ManagerRequest \/ ManagerRequestPanics
  \/ ManagerWorker \/ ManagerWorkerPanics
  \/ \E w \in Workers : Work(w)

\* goroutines that can run do run, and handlers return
Fairness ==
  /\ WF_vars(ManagerRequest) /\ WF_vars(ManagerRequestPanics)
  /\ WF_vars(ManagerWorker) /\ WF_vars(ManagerWorkerPanics)
  /\ \A w \in Workers : WF_vars(Work(w))

Spec == Init /\ [][Next]_vars /\ Fairness

-----------------------------------------------------------------------------
(* OwnAnswer: an answer goes to the connection of its request, is the work   *)
(* of the handler that got this request, and is the only one; unless a       *)
(* handler that replied early still runs when its Request is reused.         *)
OwnAnswer ==
  ~reused => \A k \in Conns : \A i \in DOMAIN answers[k] :
    LET a == answers[k][i] IN
    /\ a.to[1] = k /\ a.of = a.to
    /\ \A j \in DOMAIN answers[k] : answers[k][j].to = a.to => i = j

(* WorkerInOnePlace: a worker is busy, idle or on its way to the manager,    *)
(* never in two places: none gets a second request while it serves one, and  *)
(* none is lost but by a ring that has outgrown its maximum.                 *)
Count(q, x) == Cardinality({i \in DOMAIN q : q[i] = x})
WorkerInOnePlace ==
  /\ \A w \in workers :
       Count(idle, w) + Count(mq, [worker |-> w]) + (IF w \in lost THEN 1 ELSE 0)
         + (IF work[w].at = "idle" THEN 0 ELSE 1) = 1
  /\ lost # {} => rooms.idle.cap > IdleMax

(* AllAnswered: every request gets its answer or its connection is closed,   *)
(* also when it has to wait for a worker; unless its Request was reused, Put *)
(* panicked with it, or Put has taken the last of the workers.               *)
Unanswered(k) == {n \in 1..sent[k] : /\ <<k, n>> \notin dropped
                                     /\ \A i \in DOMAIN answers[k] : answers[k][i].to # <<k, n>>}
AllAnswered ==
  \A k \in Conns :
    (Unanswered(k) # {}) ~> (\/ Unanswered(k) = {} \/ k \notin open \/ reused
                             \/ Cardinality(lost) = bound.workers)
=============================================================================
