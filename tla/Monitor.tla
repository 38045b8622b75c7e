------------------------------ MODULE Monitor ------------------------------
(***************************************************************************)
(* The actor that tells processes when a node connects or is lost          *)
(* (src/node/monitor.go).  It keeps who watches a node and, the other way  *)
(* round, the nodes a process watches, which is what it needs when the     *)
(* process exits; both must stay the same relation.                        *)
(***************************************************************************)
EXTENDS Naturals, Sequences, SequencesExt, FiniteSets

CONSTANTS Watchers, Peers,
          MaxMessages    \* bound of the model

VARIABLES node2pid,    \* watchers of each node
          id2node,     \* nodes of each watcher
          mail,        \* the mailbox
          asked,       \* messages sent so far
          handled,     \* the messages the monitor has handled (history)
          told         \* NodeOP messages each watcher was sent

vars == <<node2pid, id2node, mail, asked, handled, told>>

Messages ==
  [t : {"monitor", "demonitor"}, w : Watchers, n : Peers]
  \union [t : {"connect", "disconnect"}, n : Peers]
  \union [t : {"exit"}, w : Watchers]

Init ==
  /\ node2pid = [n \in Peers |-> {}] /\ id2node = [w \in Watchers |-> {}]
  /\ mail = <<>> /\ asked = 0 /\ handled = <<>> /\ told = [w \in Watchers |-> <<>>]

(* Monitor, DeMonitor, a link that comes or goes, and the exit of a        *)
(* watcher that somebody has linked to the monitor.  The mailbox keeps     *)
(* their order, so it is enough to have one of them in it.                 *)
Send(m) ==
  /\ mail = <<>> /\ asked < MaxMessages /\ asked' = asked + 1
  /\ mail' = Append(mail, m)
  /\ UNCHANGED <<node2pid, id2node, handled, told>>

Received(t) ==
  /\ mail # <<>> /\ mail[1].t \in t
  /\ mail' = Tail(mail) /\ handled' = Append(handled, mail[1])
  /\ UNCHANGED asked

MonitorNode ==
  LET m == mail[1]
  IN  /\ Received({"monitor"})
      /\ id2node' = [id2node EXCEPT ![m.w] = @ \union {m.n}]
      /\ node2pid' = [node2pid EXCEPT ![m.n] = @ \union {m.w}]
      /\ UNCHANGED told

DeMonitorNode ==
  LET m == mail[1]
  IN  /\ Received({"demonitor"})
      /\ node2pid' = [node2pid EXCEPT ![m.n] = @ \ {m.w}]
      /\ id2node' = IF m.w \in node2pid[m.n] THEN [id2node EXCEPT ![m.w] = @ \ {m.n}] ELSE id2node
      /\ UNCHANGED told

\* Mutant: only the map from processes to nodes is cleared.
ExitedHalf ==
  /\ Received({"exit"})
  /\ id2node' = [id2node EXCEPT ![mail[1].w] = {}]
  /\ UNCHANGED <<node2pid, told>>

Exited ==
  LET m == mail[1]
  IN  /\ Received({"exit"})
      /\ node2pid' = [n \in Peers |-> IF n \in id2node[m.w] THEN node2pid[n] \ {m.w}
                                      ELSE node2pid[n]]
      /\ id2node' = [id2node EXCEPT ![m.w] = {}]
      /\ UNCHANGED told

NodeOP ==
  LET m == mail[1]
  IN  /\ Received({"connect", "disconnect"})
      /\ told' = [w \in Watchers |-> IF w \in node2pid[m.n] THEN Append(told[w], m) ELSE told[w]]
      /\ UNCHANGED <<node2pid, id2node>>

Next ==
  \/ \E m \in Messages : Send(m)
  \/ MonitorNode \/ DeMonitorNode \/ Exited \/ NodeOP

Spec == Init /\ [][Next]_vars

----------------------------------------------------------------------------
Op(m) == m.t \in {"connect", "disconnect"}
About(m, w, n) == ~Op(m) /\ m.w = w /\ (m.t # "exit" => m.n = n)

(* Before its i-th message the monitor has been asked to watch n for w,    *)
(* and nothing has ended that since.                                       *)
Watches(w, n, i) ==
  \E j \in 1 .. i - 1 :
    /\ handled[j].t = "monitor" /\ About(handled[j], w, n)
    /\ \A k \in j + 1 .. i - 1 : About(handled[k], w, n) => handled[k].t = "monitor"

(* What w must be told of: it watches the node of that message.            *)
Due(w) == {i \in DOMAIN handled : Op(handled[i]) /\ Watches(w, handled[i].n, i)}

(***************************************************************************)
(* A watcher is told of what happens to a node exactly while it watches    *)
(* it, each time once and in order, whatever it has asked for before and   *)
(* whichever of the two maps a request has gone through.                   *)
(***************************************************************************)
ToldRight ==
  \A w \in Watchers :
    /\ Len(told[w]) = Cardinality(Due(w))
    /\ \A i \in Due(w) : told[w][Cardinality({j \in Due(w) : j <= i})] = handled[i]
=============================================================================
