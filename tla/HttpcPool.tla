----------------------------- MODULE HttpcPool -----------------------------
(***************************************************************************)
(* The client of httpc (src/httpc): requests go to a manager, which hands  *)
(* them to an idle worker.  A worker does one request at a time and then   *)
(* offers itself again.  Who waits for a request closes its channel when   *)
(* it stops waiting, with an answer or without one.                        *)
(*                                                                         *)
(* NewSingleRingBuffer(10, 100) is nil, for 10 and 100 are no powers of    *)
(* two.  Size and Put of the nil queue panic, Pop of it finds nothing: no  *)
(* request ever waits in the manager, and it starts no worker but that of  *)
(* its Init.  Manager and worker never exit by themselves (their error     *)
(* handlers go on), so PidExit does not happen here.                       *)
(***************************************************************************)
EXTENDS Naturals, Sequences, SequencesExt, FiniteSets

CONSTANTS Callers,       \* each makes one request
          Worker,        \* the worker that Init starts
          None

VARIABLES mail,       \* of the manager: callers' requests, the worker, and "loop"
          idle,
          inbox,      \* of the worker
          doing,      \* the request the worker has sent out
          request,    \* "new", "waits", "late", "answered", "timeout"
          chan,       \* the channel of a request: "empty", "full", "closed"
          sends,      \* how often a request was sent to its server (history)
          away,       \* the worker did not come back (history)
          dropped     \* requests the manager panicked with (history)

vars == <<mail, idle, inbox, doing, request, chan, sends, away, dropped>>

manager == <<idle, dropped>>
worker == <<inbox, doing, sends, away>>

Init ==
  /\ mail = <<>> /\ idle = <<Worker>>
  /\ inbox = <<>> /\ doing = None
  /\ request = [r \in Callers |-> "new"] /\ chan = [r \in Callers |-> "empty"]
  /\ sends = [r \in Callers |-> 0] /\ away = FALSE /\ dropped = {}

----------------------------------------------------------------------------
(* Request: the message, then the answer or the timeout.  A caller that is *)
(* late first marks its request, then closes the channel.                  *)
Request(r) ==
  /\ request[r] = "new"
  /\ request' = [request EXCEPT ![r] = "waits"]
  /\ mail' = Append(mail, r)
  /\ UNCHANGED <<manager, worker, chan>>

Receive(r) ==
  /\ request[r] = "waits" /\ chan[r] = "full"
  /\ request' = [request EXCEPT ![r] = "answered"] /\ chan' = [chan EXCEPT ![r] = "closed"]
  /\ UNCHANGED <<mail, manager, worker>>

Timeout(r) ==
  /\ request[r] = "waits"
  /\ request' = [request EXCEPT ![r] = "late"]
  /\ UNCHANGED <<mail, manager, worker, chan>>

Close(r) ==
  /\ request[r] = "late"
  /\ request' = [request EXCEPT ![r] = "timeout"] /\ chan' = [chan EXCEPT ![r] = "closed"]
  /\ UNCHANGED <<mail, manager, worker>>

----------------------------------------------------------------------------
(* The manager. *)
Tick ==
  /\ ~Contains(mail, "loop") /\ mail' = Append(mail, "loop")
  /\ UNCHANGED <<manager, worker, request, chan>>

(* The newest of the idle workers gets the request.  Without one Put       *)
(* panics on the nil queue: the request is gone.                           *)
HandleRequest ==
  /\ mail # <<>> /\ mail[1] \in Callers /\ mail' = Tail(mail)
  /\ IF idle # <<>>
       THEN inbox' = Append(inbox, mail[1]) /\ idle' = Front(idle) /\ UNCHANGED dropped
       ELSE dropped' = dropped \union {mail[1]} /\ UNCHANGED <<idle, inbox>>
  /\ UNCHANGED <<doing, sends, away, request, chan>>

(* The worker comes back: Pop of the nil queue has nothing for it. *)
HandleWorker ==
  /\ mail # <<>> /\ mail[1] = Worker /\ mail' = Tail(mail)
  /\ idle' = Append(idle, mail[1])
  /\ UNCHANGED <<dropped, worker, request, chan>>

(* Every 5 seconds: Size panics before anything is done. *)
HandleLoop ==
  /\ mail # <<>> /\ mail[1] = "loop" /\ mail' = Tail(mail)
  /\ UNCHANGED <<manager, worker, request, chan>>

----------------------------------------------------------------------------
\* Mutant: the worker that drops a late request does not offer itself again.
TakeAndStay ==
  /\ doing = None /\ inbox # <<>>
  /\ LET r == inbox[1]
     IN  IF request[r] \in {"late", "timeout"}
           THEN UNCHANGED <<doing, sends>>
           ELSE doing' = r /\ sends' = [sends EXCEPT ![r] = @ + 1]
  /\ inbox' = Tail(inbox)
  /\ UNCHANGED <<mail, manager, away, request, chan>>

(* The worker: a request whose caller is late is dropped. *)
Take ==
  /\ doing = None /\ inbox # <<>>
  /\ LET r == inbox[1]
     IN  IF request[r] \in {"late", "timeout"}
           THEN mail' = Append(mail, Worker) /\ UNCHANGED <<doing, sends>>
           ELSE doing' = r /\ sends' = [sends EXCEPT ![r] = @ + 1] /\ UNCHANGED mail
  /\ inbox' = Tail(inbox)
  /\ UNCHANGED <<manager, away, request, chan>>

(* The answer is put into the channel.  A send on the closed channel       *)
(* panics, and a request that http.NewRequest refuses returns early: in    *)
(* both cases the worker does not offer itself again.                      *)
Answer(refused) ==
  LET r == doing
  IN  /\ doing # None /\ doing' = None
      /\ chan' = IF chan[r] = "empty" THEN [chan EXCEPT ![r] = "full"] ELSE chan
      /\ IF refused \/ chan[r] = "closed"
           THEN away' = TRUE /\ UNCHANGED mail
           ELSE mail' = Append(mail, Worker) /\ UNCHANGED away
      /\ UNCHANGED <<manager, inbox, sends, request>>

Next ==
  \/ \E r \in Callers : Request(r) \/ Receive(r) \/ Timeout(r) \/ Close(r)
  \/ Tick \/ HandleRequest \/ HandleWorker \/ HandleLoop
  \/ Take \/ Answer(FALSE) \/ Answer(TRUE)

Spec == Init /\ [][Next]_vars

----------------------------------------------------------------------------
Count(s, x) == Cardinality({i \in DOMAIN s : s[i] = x})
One(b) == IF b THEN 1 ELSE 0

WorkerPlaces == Count(idle, Worker) + Count(mail, Worker) + Len(inbox) + One(doing # None)
                + One(away)
RequestPlaces(r) == Count(mail, r) + Count(inbox, r) + One(doing = r) + One(r \in dropped)

(***************************************************************************)
(* The worker is not lost and has one request at a time: it is idle, on    *)
(* its way to the manager or busy with one request, unless a request it    *)
(* did was refused or had nobody left to answer to.  A request whose       *)
(* caller waits is at one place, on its way to the worker or with it,      *)
(* unless the manager panicked with it, and none is sent to its server     *)
(* twice, whoever stops waiting.                                           *)
(***************************************************************************)
PoolRight ==
  /\ WorkerPlaces = 1
  /\ \A r \in Callers :
       /\ sends[r] <= 1
       /\ request[r] = "waits" /\ chan[r] = "empty" => RequestPlaces(r) = 1
=============================================================================
