----------------------------- MODULE NodeLink -----------------------------
(***************************************************************************)
(* Two nodes and the links between them (src/node, src/kernel/node.go).  A *)
(* link is a TCP connection with a client actor on each side.  The clients *)
(* shake hands, enter themselves in the node table of their side, carry    *)
(* casts and calls to named processes, answer pings, and leave the table   *)
(* when they end.  Any number of processes may connect at once, so two     *)
(* nodes may have two links.                                               *)
(*                                                                         *)
(* tcp: a connection is open, silent when the network swallows everything  *)
(* that is sent, or broken when one side closed it or the peer is gone.    *)
(* Casts and calls go from the node First to the other one.                *)
(***************************************************************************)
EXTENDS Naturals, Sequences, SequencesExt, FiniteSets, TLC

CONSTANTS First, Second,   \* the two nodes
          Callers,         \* processes that call ConnectNode
          Getters,         \* processes that look the other node up (GetNode) while
                           \* nobody has done so yet
          MaxLinks, MaxCalls,
          Bounds,          \* bounds of a behaviour: how many connections, casts and
                           \* calls it has, which Getters there are, whether the timers tick, and what may
                           \* happen to a connection ("silent", "broken")
          None

ASSUME BoundsAssumption ==
  /\ First # Second /\ MaxLinks \in Nat /\ MaxCalls \in Nat /\ None \notin 1 .. MaxLinks
  /\ \A b \in Bounds : b.links \in 0 .. MaxLinks /\ b.casts \in Nat
  /\ Getters \intersect (1 .. MaxLinks) = {} /\ None \notin Getters

Nodes == {First, Second}
Links == 1 .. MaxLinks
Calls == 1 .. MaxCalls
\* A Node has a new id for each GetNode that did not find one: it is named here
\* by the process that asked, a getter or the client of a link.
Ids == Links \union Getters
Other(n) == IF n = First THEN Second ELSE First

VARIABLES bound,     \* the bounds of this behaviour
          at,        \* the node of each caller
          caller,    \* "idle", "checked", a link it waits for, "true", "false", "panic"
          tcp, by,   \* of a link: its connection, the node that dialed
          client,    \* [link][node]: "none", "accepted", "dialing", "naming",
                     \* "entering", "up", "down"
          fails,     \* [link][node]: pingFail
          q,         \* [link][node]: the mailbox of the client
          wire,      \* [link][node]: frames on their way to the node
          chans,     \* [link]: calls in callID2Channel of the client of First
          entry,     \* nodeMap: the id of the other node
          made,      \* the ids that were ever stored there
          idOf,      \* [link][node]: the id of the node that the client keeps
          net,       \* nodeNetWork: id -> link
          names,     \* the client registered under the name of the other node
          dropped,   \* the ids under which a client of this node has ended (history)
          casts,     \* how many casts were made, and the link each got
          inbox,     \* what the target has received
          call,      \* "new", "waiting", "ok", "nil", "false"
          serving    \* calls the server works on, with their links

vars == <<bound, at, caller, tcp, by, client, fails, q, wire, chans, entry, made, idOf, net, names, dropped,
          casts, inbox, call, serving>>

ids == <<entry, made, idOf>>
table == <<ids, net, names, dropped>>
calls == <<chans, call, serving>>

Frame(t, k) == [t |-> t, k |-> k]
Ping == Frame("ping", 0)
Pong == Frame("pong", 0)
Tick == Frame("tick", 0)
Err == Frame("error", 0)

Has(s, m) == \E i \in DOMAIN s : s[i] = m
Up(l, n) == client[l][n] = "up"
Unused(l) == tcp[l] = "unused"

\* Mutant: a frame is written in front of those on their way.
SentFirst(l, n, m) ==
  IF tcp[l] = "open" THEN [wire EXCEPT ![l][Other(n)] = <<m>> \o @] ELSE wire

(* SendBufHead of the client of n: what goes on the wire of an open connection. *)
Sent(l, n, m) ==
  IF tcp[l] = "open" THEN [wire EXCEPT ![l][Other(n)] = Append(@, m)] ELSE wire

Init ==
  /\ bound \in Bounds
  /\ at \in [Callers -> Nodes]
  /\ caller = [c \in Callers |-> "idle"]
  /\ tcp = [l \in Links |-> "unused"] /\ by = [l \in Links |-> None]
  /\ client = [l \in Links |-> [n \in Nodes |-> "none"]]
  /\ fails = [l \in Links |-> [n \in Nodes |-> 0]]
  /\ q = [l \in Links |-> [n \in Nodes |-> <<>>]] /\ wire = q
  /\ chans = [l \in Links |-> {}]
  /\ entry = [n \in Nodes |-> None] /\ made = [n \in Nodes |-> {}] /\ names = entry
  /\ idOf = [l \in Links |-> [n \in Nodes |-> None]]
  /\ net = [n \in Nodes |-> [i \in Ids |-> None]] /\ dropped = made
  /\ casts = <<>> /\ inbox = <<>>
  /\ call = [k \in Calls |-> "new"] /\ serving = {}

----------------------------------------------------------------------------
(* nodeNetWork of the node n for the other one, as the Node with id i.     *)
LinkOf(n, i) == IF i = None THEN None ELSE net[n][i]

(* ConnectNode: a node that is connected (IsNodeConnect looks for the id   *)
(* in nodeMap) is not dialed again.                                        *)
Check(c) ==
  /\ caller[c] = "idle"
  /\ caller' = [caller EXCEPT ![c] = IF LinkOf(at[c], entry[at[c]]) # None THEN "true" ELSE "checked"]
  /\ UNCHANGED <<bound, at, tcp, by, client, fails, q, wire, calls, table, casts, inbox>>

DialFails(c) ==
  /\ caller[c] = "checked"
  /\ caller' = [caller EXCEPT ![c] = "false"]
  /\ UNCHANGED <<bound, at, tcp, by, client, fails, q, wire, calls, table, casts, inbox>>

(* tryConnect, StartName and the call of the client, which sends Connect   *)
(* and waits.  The listener of the other side starts a client for the      *)
(* connection.  When the name is taken the start fails and gives the name  *)
(* back, whoever holds it (initExit); there is no client to call, and the  *)
(* caller panics on the result of the call; the connection stays.          *)
Dial(c) ==
  LET n == at[c]
      l == 1 + Cardinality({x \in Links : ~Unused(x)})
      free == names[n] = None
  IN  /\ caller[c] = "checked" /\ l <= bound.links
      /\ tcp' = [tcp EXCEPT ![l] = "open"] /\ by' = [by EXCEPT ![l] = n]
      /\ client' = [client EXCEPT ![l][Other(n)] = "accepted",
                                  ![l][n] = IF free THEN "dialing" ELSE "none"]
      /\ caller' = [caller EXCEPT ![c] = IF free THEN ToString(l) ELSE "panic"]
      /\ names' = [names EXCEPT ![n] = IF free THEN l ELSE None]
      /\ wire' = IF free THEN [wire EXCEPT ![l][Other(n)] = <<Frame("connect", 0)>>] ELSE wire
      /\ UNCHANGED <<bound, at, fails, q, calls, ids, net, dropped, casts, inbox>>

(* The call of the client times out: the result is not a bool. *)
DialTimeout(c) ==
  /\ \E l \in Links : caller[c] = ToString(l)
  /\ caller' = [caller EXCEPT ![c] = "panic"]
  /\ UNCHANGED <<bound, at, tcp, by, client, fails, q, wire, calls, table, casts, inbox>>

Answered(l, n, a) ==
  caller' = [c \in Callers |-> IF caller[c] = ToString(l) /\ at[c] = n THEN a ELSE caller[c]]

(* startWorker reads Connect with the right cookie, startWorkerConnect     *)
(* reads ConnectSucc.  GetNode looks for the name of the other node: when  *)
(* it is not there it makes a Node with an id of its own ...               *)
GetNode(l, n) ==
  /\ client[l][n] \in {"accepted", "dialing"} /\ wire[l][n] # <<>>
  /\ client' = [client EXCEPT ![l][n] = IF entry[n] = None THEN "naming" ELSE "entering"]
  /\ idOf' = [idOf EXCEPT ![l][n] = IF entry[n] = None THEN l ELSE entry[n]]
  /\ wire' = [wire EXCEPT ![l][n] = Tail(@)]
  /\ UNCHANGED <<bound, at, caller, tcp, by, fails, q, calls, entry, made, net, names, dropped,
                 casts, inbox>>

(* ... and stores it, although another one may have been stored meanwhile. *)
StoreNode(l, n) ==
  /\ client[l][n] = "naming"
  /\ client' = [client EXCEPT ![l][n] = "entering"]
  /\ entry' = [entry EXCEPT ![n] = idOf[l][n]]
  /\ made' = [made EXCEPT ![n] = @ \union {idOf[l][n]}]
  /\ UNCHANGED <<bound, at, caller, tcp, by, fails, q, wire, calls, idOf, net, names, dropped,
                 casts, inbox>>

(* GetNode of a process that casts to a name of the other node or decodes  *)
(* a pid of it, which found no entry when it looked, at the beginning.     *)
StoreGetter(g, n) ==
  /\ g \in bound.getters /\ g \notin made[n]
  /\ entry' = [entry EXCEPT ![n] = g]
  /\ made' = [made EXCEPT ![n] = @ \union {g}]
  /\ UNCHANGED <<bound, at, caller, tcp, by, client, fails, q, wire, calls, idOf, net, names,
                 dropped, casts, inbox>>

(* SetNodeNetWork: the new link takes the place of an older one with the   *)
(* same id.  The accepted side answers ConnectSucc, the dialing side its   *)
(* caller, and from now on the link is read.                               *)
SetNodeNetWork(l, n) ==
  /\ client[l][n] = "entering"
  /\ client' = [client EXCEPT ![l][n] = "up"]
  /\ net' = [net EXCEPT ![n][idOf[l][n]] = l]
  /\ wire' = IF by[l] = n THEN wire ELSE Sent(l, n, Frame("succ", 0))
  /\ Answered(l, n, "true")
  /\ UNCHANGED <<bound, at, tcp, by, fails, q, calls, ids, names, dropped, casts, inbox>>

\* Mutant: Terminate does not call NodeDisconnect.
EndsListed(l, n) ==
  /\ client' = [client EXCEPT ![l][n] = "down"]
  /\ tcp' = [tcp EXCEPT ![l] = IF @ = "open" THEN "broken" ELSE @]
  /\ dropped' = IF Up(l, n) THEN [dropped EXCEPT ![n] = @ \union {idOf[l][n]}] ELSE dropped
  /\ names' = IF by[l] = n THEN [names EXCEPT ![n] = None] ELSE names
  /\ q' = [q EXCEPT ![l][n] = <<>>]
  /\ chans' = IF n = First THEN [chans EXCEPT ![l] = {}] ELSE chans
  /\ Answered(l, n, "false") /\ UNCHANGED <<ids, net>>

(* The end of a client: the connection is closed, a client that was up     *)
(* deletes the entry of its node id (NodeDisconnect), whoever is in it,    *)
(* and a client that was started with the name gives it back, whoever has  *)
(* it.  Its mailbox and its channels are gone.                             *)
Ends(l, n) ==
  /\ client' = [client EXCEPT ![l][n] = "down"]
  /\ tcp' = [tcp EXCEPT ![l] = IF @ = "open" THEN "broken" ELSE @]
  /\ net' = IF Up(l, n) THEN [net EXCEPT ![n][idOf[l][n]] = None] ELSE net
  /\ dropped' = IF Up(l, n) THEN [dropped EXCEPT ![n] = @ \union {idOf[l][n]}] ELSE dropped
  /\ names' = IF by[l] = n THEN [names EXCEPT ![n] = None] ELSE names
  /\ q' = [q EXCEPT ![l][n] = <<>>]
  /\ chans' = IF n = First THEN [chans EXCEPT ![l] = {}] ELSE chans
  /\ Answered(l, n, "false") /\ UNCHANGED ids

(* The handshake meets a connection that is gone, or a cookie is refused   *)
(* (it is another one, or older than a minute).                            *)
HandshakeEnds(l, n) ==
  /\ client[l][n] \in {"accepted", "dialing"}
  /\ \/ wire[l][n] = <<>> /\ tcp[l] = "broken"
     \/ wire[l][n] # <<>> /\ client[l][n] = "accepted"
  /\ Ends(l, n)
  /\ UNCHANGED <<bound, at, by, fails, wire, call, serving, casts, inbox>>

----------------------------------------------------------------------------
(* The network. *)
Fail(l, how) ==
  /\ tcp[l] = "open" /\ how \in bound.faults
  /\ tcp' = [tcp EXCEPT ![l] = how]
  /\ wire' = IF how = "silent" THEN [wire EXCEPT ![l] = [n \in Nodes |-> <<>>]] ELSE wire
  /\ UNCHANGED <<bound, at, caller, by, client, fails, q, calls, table, casts, inbox>>

(* Frames that were sent may be lost with their connection. *)
Lose(l, n) ==
  /\ tcp[l] = "broken" /\ wire[l][n] # <<>>
  /\ wire' = [wire EXCEPT ![l][n] = Front(@)]
  /\ UNCHANGED <<bound, at, caller, tcp, by, client, fails, q, calls, table, casts, inbox>>

(* The timer of the client.  Its period is long: what the last tick of the *)
(* link has caused is over when it ticks again.                            *)
Beating(l) == \E n \in Nodes : \E m \in {Tick, Ping, Pong} : Has(q[l][n], m) \/ Has(wire[l][n], m)

TimerTick(l, n) ==
  /\ bound.ticks /\ Up(l, n) /\ ~Beating(l)
  /\ q' = [q EXCEPT ![l][n] = Append(@, Tick)]
  /\ UNCHANGED <<bound, at, caller, tcp, by, client, fails, wire, calls, table, casts, inbox>>

----------------------------------------------------------------------------
(* Processes of First: a cast to a process of Second, and a call by name.  *)
(* They may find the links of the Nodes that pids of Second were decoded   *)
(* with, and the one of the name.                                          *)
Reached == {LinkOf(First, i) : i \in made[First] \union {entry[First]}}

Cast ==
  /\ Len(casts) < bound.casts
  /\ \E l \in Reached :
       /\ casts' = Append(casts, l)
       /\ q' = IF l = None THEN q
               ELSE [q EXCEPT ![l][First] = Append(@, Frame("cast", Len(casts) + 1))]
  /\ UNCHANGED <<bound, at, caller, tcp, by, client, fails, wire, calls, table, inbox>>

CallNameNode(k) ==
  /\ call[k] = "new" /\ k <= bound.calls
  /\ \E l \in Reached :
       /\ call' = [call EXCEPT ![k] = IF l = None THEN "false" ELSE "waiting"]
       /\ q' = IF l = None THEN q ELSE [q EXCEPT ![l][First] = Append(@, Frame("call", k))]
  /\ UNCHANGED <<bound, at, caller, tcp, by, client, fails, wire, chans, serving, table, casts, inbox>>

CallTimeout(k) ==
  /\ call[k] = "waiting"
  /\ call' = [call EXCEPT ![k] = "false"]
  /\ UNCHANGED <<bound, at, caller, tcp, by, client, fails, q, wire, chans, serving, table, casts, inbox>>

(* The server of Second answers a call with a pointer, or with nil.        *)
Serve(k, l, t) ==
  /\ <<k, l>> \in serving /\ t \in {"result", "nilresult"}
  /\ serving' = serving \ {<<k, l>>}
  /\ q' = IF Up(l, Second) THEN [q EXCEPT ![l][Second] = Append(@, Frame(t, k))] ELSE q
  /\ UNCHANGED <<bound, at, caller, tcp, by, client, fails, wire, chans, call, table, casts, inbox>>

----------------------------------------------------------------------------
(* recPacket of n reads the next frame: what is for the client goes to its *)
(* mailbox, a cast to its target, a call to the server; a name nobody has  *)
(* is answered with a nil result at once (replyNil).                       *)
RecPacket(l, n) ==
  LET f == wire[l][n][1]
  IN  /\ Up(l, n) /\ wire[l][n] # <<>>
      /\ wire' = [wire EXCEPT ![l][n] = Tail(@)]
      /\ inbox' = IF f.t = "cast" THEN Append(inbox, f.k) ELSE inbox
      /\ \/ /\ f.t = "call" /\ serving' = serving \union {<<f.k, l>>} /\ UNCHANGED q
         \/ /\ f.t = "call" /\ q' = [q EXCEPT ![l][n] = Append(@, Frame("bytes", f.k))]
            /\ UNCHANGED serving
         \/ /\ f.t \in {"ping", "pong", "reply", "nilreply"}
            /\ q' = [q EXCEPT ![l][n] = Append(@, f)] /\ UNCHANGED serving
         \/ f.t = "cast" /\ UNCHANGED <<q, serving>>
      /\ UNCHANGED <<bound, at, caller, tcp, by, client, fails, chans, call, table, casts>>

(* recPacket meets the end of the connection and tells the client. *)
RecEnds(l, n) ==
  /\ Up(l, n) /\ wire[l][n] = <<>> /\ tcp[l] = "broken" /\ ~Has(q[l][n], Err)
  /\ q' = [q EXCEPT ![l][n] = Append(@, Err)]
  /\ UNCHANGED <<bound, at, caller, tcp, by, client, fails, wire, calls, table, casts, inbox>>

(* HandleCast of the client of n: the messages it only writes. *)
Next1(l, n) == q[l][n][1]
Handles(l, n) == Up(l, n) /\ q[l][n] # <<>> /\ q' = [q EXCEPT ![l][n] = Tail(@)]

\* Mutant: the channel of a call is not kept.
HandleWriteForgets(l, n) ==
  LET m == Next1(l, n)
      out(t) == CASE t = "result" -> "reply" [] t = "bytes" -> "nilreply" [] OTHER -> t
  IN  /\ Handles(l, n) /\ m.t \in {"cast", "call", "result", "bytes"}
      /\ wire' = Sent(l, n, Frame(out(m.t), m.k))
      /\ UNCHANGED <<bound, at, caller, tcp, by, client, fails, chans, call, serving, table, casts, inbox>>

HandleWrite(l, n) ==
  LET m == Next1(l, n)
      out(t) == CASE t = "result" -> "reply" [] t = "bytes" -> "nilreply" [] OTHER -> t
  IN  /\ Handles(l, n) /\ m.t \in {"cast", "call", "result", "bytes"}
      /\ wire' = Sent(l, n, Frame(out(m.t), m.k))
      /\ chans' = IF m.t = "call" THEN [chans EXCEPT ![l] = @ \union {m.k}] ELSE chans
      /\ UNCHANGED <<bound, at, caller, tcp, by, client, fails, call, serving, table, casts, inbox>>

(* A reply goes to the channel of its call; a call that has timed out has  *)
(* closed it, and the panic of the send is caught.                         *)
HandleReply(l, n) ==
  LET m == Next1(l, n)
  IN  /\ Handles(l, n) /\ m.t \in {"reply", "nilreply"}
      /\ chans' = [chans EXCEPT ![l] = @ \ {m.k}]
      /\ call' = IF m.k \in chans[l] /\ call[m.k] = "waiting"
                   THEN [call EXCEPT ![m.k] = IF m.t = "reply" THEN "ok" ELSE "nil"] ELSE call
      /\ UNCHANGED <<bound, at, caller, tcp, by, client, fails, wire, serving, table, casts, inbox>>

HandlePing(l, n) ==
  LET m == Next1(l, n)
  IN  /\ Handles(l, n) /\ m.t \in {"ping", "pong"}
      /\ fails' = [fails EXCEPT ![l][n] = 0]
      /\ wire' = IF m.t = "ping" THEN Sent(l, n, Pong) ELSE wire
      /\ UNCHANGED <<bound, at, caller, tcp, by, client, calls, table, casts, inbox>>

\* Mutant: pingFail is not counted.
HandleTickForgets(l, n) ==
  /\ Handles(l, n) /\ Next1(l, n) = Tick /\ fails[l][n] < 2
  /\ wire' = Sent(l, n, Ping)
  /\ UNCHANGED <<bound, at, caller, tcp, by, client, fails, calls, table, casts, inbox>>

HandleTick(l, n) ==
  /\ Handles(l, n) /\ Next1(l, n) = Tick /\ fails[l][n] < 2
  /\ fails' = [fails EXCEPT ![l][n] = @ + 1]
  /\ wire' = Sent(l, n, Ping)
  /\ UNCHANGED <<bound, at, caller, tcp, by, client, calls, table, casts, inbox>>

(* The client ends: the connection is gone, two pings in a row had no      *)
(* answer, or a result is nil, which the reflection on it does not survive *)
(* (the error handler ends the client).                                    *)
ClientEnds(l, n) ==
  LET m == Next1(l, n)
  IN  /\ Up(l, n) /\ q[l][n] # <<>>
      /\ m = Err \/ m.t = "nilresult" \/ (m = Tick /\ fails[l][n] >= 2)
      /\ Ends(l, n)
      /\ UNCHANGED <<bound, at, by, fails, wire, call, serving, casts, inbox>>

Handle(l, n) == \/ HandleWrite(l, n) \/ HandleReply(l, n) \/ HandlePing(l, n)
                \/ HandleTick(l, n) \/ ClientEnds(l, n)

Next ==
  \/ \E c \in Callers : Check(c) \/ DialFails(c) \/ Dial(c) \/ DialTimeout(c)
  \/ \E l \in Links, n \in Nodes :
       \/ GetNode(l, n) \/ StoreNode(l, n) \/ SetNodeNetWork(l, n) \/ HandshakeEnds(l, n)
       \/ Lose(l, n) \/ TimerTick(l, n)
       \/ RecPacket(l, n) \/ RecEnds(l, n) \/ Handle(l, n)
  \/ \E g \in Getters, n \in Nodes : StoreGetter(g, n)
  \/ \E l \in Links, how \in {"silent", "broken"} : Fail(l, how)
  \/ Cast
  \/ \E k \in Calls : CallNameNode(k) \/ CallTimeout(k)
  \/ \E k \in Calls, l \in Links, t \in {"result", "nilresult"} : Serve(k, l, t)

(* What runs on a link keeps running: the reading goroutine, the actor and  *)
(* its timer.  The timer waits while the last tick is at work, hence SF.    *)
Fairness ==
  \A l \in Links, n \in Nodes :
    /\ SF_vars(TimerTick(l, n))
    /\ WF_vars(Handle(l, n))
    /\ WF_vars(RecPacket(l, n) \/ RecEnds(l, n))

Spec == Init /\ [][Next]_vars /\ Fairness

----------------------------------------------------------------------------
(***************************************************************************)
(* nodeNetWork lists a link only while its client is up, under the id that *)
(* the client keeps, and it lists a link for the id of each client that is *)
(* up, except after another client of the same id has ended, which deletes *)
(* the entry whoever stored it.  So a node that has a client which is up   *)
(* is found by its name, with this exception, and with the one that        *)
(* GetNode gave it two ids: then it may be found by pids only.             *)
(***************************************************************************)
Listed(n, i) == i # None /\ (net[n][i] # None \/ i \in dropped[n])

TableRight ==
  \A n \in Nodes :
    /\ \A i \in Ids : net[n][i] # None => Up(net[n][i], n) /\ idOf[net[n][i]][n] = i
    /\ \A l \in Links : Up(l, n) => Listed(n, idOf[l][n])
    /\ (\E l \in Links : Up(l, n)) /\ (\A i, j \in made[n] : i = j) => Listed(n, entry[n])

(***************************************************************************)
(* A cast reaches its target at most once, and two casts that went over    *)
(* the same link arrive in their order.                                    *)
(***************************************************************************)
CastsInOrder ==
  \A i, j \in DOMAIN inbox :
    i < j => /\ inbox[i] # inbox[j]
             /\ casts[inbox[i]] = casts[inbox[j]] => inbox[i] < inbox[j]

(***************************************************************************)
(* A call never waits for nothing: while it waits it is in the mailbox of  *)
(* the client or in its channels.  What stays in the channels of a link    *)
(* that is up are calls.  Only a link that ended loses them, and then the  *)
(* caller has to time out.                                                 *)
(***************************************************************************)
CallsKnown ==
  \A k \in Calls :
    /\ Cardinality({l \in Links : k \in chans[l] \/ Has(q[l][First], Frame("call", k))}) <= 1
    /\ call[k] = "waiting" =>
         \/ \E l \in Links : k \in chans[l] \/ Has(q[l][First], Frame("call", k))
         \/ dropped[First] # {}

(***************************************************************************)
(* A connection that is lost is noticed.  When it is broken the reading    *)
(* goroutine tells the client; when it is only silent the pings have no    *)
(* answer.                                                                 *)
(***************************************************************************)
LostUp(n) == {l \in Links : Up(l, n) /\ (tcp[l] = "broken" \/ (tcp[l] = "silent" /\ bound.ticks))}
LossNoticed == \A n \in Nodes : (LostUp(n) # {}) ~> (LostUp(n) = {})
===========================================================================
