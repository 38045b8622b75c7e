----------------------------- MODULE GateConn -----------------------------
(***************************************************************************)
(* One connection of the gate over nbio (src/gate/nb_conn.go) from its     *)
(* opening to its end: the event loop of nbio hands the connection to the  *)
(* connect starter, which starts the client actor; the client receives one *)
(* packet itself (Recv) and then asks for the others to be cast to it      *)
(* (StartReader).  Client and event loop run concurrently and share the    *)
(* buffer, the mutex covers a part of it only: when both read at once the  *)
(* bytes that one has read may be written over.                            *)
(*                                                                         *)
(* A packet is a sequence of bytes after a head of HeadSize bytes that holds   *)
(* its length, in bytes of Base values.                                    *)
(***************************************************************************)
EXTENDS Integers, Sequences, SequencesExt, FiniteSetsExt

CONSTANTS Streams,      \* the sequences of packets a peer may send
          HeadSize, Base,
          SmallCap,     \* the smallest buffer of bpool
          FirstCap      \* the buffer that onRead starts with

VARIABLES packets,      \* what the peer sends
          wire,         \* bytes that have not arrived
          sock,         \* bytes that have arrived and were not read
          event,        \* the event loop has a read event (edge triggered)
          hangup,       \* the peer has closed: "no", "pending", "handled"
          client,       \* "starter", "recv", "reading", "waiting", "start", "checked",
                        \*   then in onRead, or "active", "refused", "failed", "panicked"
          need,         \* bytes Recv still wants; frame, what it has
          frame,
          loop,         \* the event loop: "idle", "checked", in onRead, "closing",
                        \*   "cleared", "stopped"
          conn,         \* ConnNbio.Conn is set
          handler,      \* recvPid is set
          recvState,
          wake,         \* recvChan: "empty", "token", "closed"
          buffer, total,
          chunk,        \* in onRead: the bytes a goroutine has read, whether they filled
                        \*   the buffer, and whether the other goroutine came between
          told,         \* what the client has got: packets, and "closed"
          met           \* what the properties know of the past: "overlap", "late", "missed"

vars == <<packets, wire, sock, event, hangup, client, need, frame, loop, conn, handler,
          recvState, wake, buffer, total, chunk, told, met>>

connVars == <<conn, handler, recvState, wake>>
recvVars == <<need, frame>>
bufVars == <<buffer, total, chunk>>

Closed == <<-1>>

(* WriteSize and ReadHead. *)
HeadOf(size) == [n \in 1 .. HeadSize |-> (size \div Base ^ (HeadSize - n)) % Base]
ReadHead(b) == FoldLeft(LAMBDA a, x : Base * a + x, 0, SubSeq(b, 1, HeadSize))
OnWire(p) == HeadOf(Len(p)) \o p

From(s, n) == SubSeq(s, n + 1, Len(s))
First(s, n) == SubSeq(s, 1, n)

(* bpool.New(size): the capacity of the smallest buffer that holds size. *)
Cap(size) == Min({c \in {SmallCap * 2 ^ k : k \in 0 .. 6} : c >= size})
NewBuff == [b |-> <<>>, cap |-> FirstCap]

----------------------------------------------------------------------------
(* readBuf: the buffer, the size of its first packet if that is known, and *)
(* the packets that are cast to the client (Send's head cut off).          *)
RECURSIVE ReadBuf(_, _, _)
ReadBuf(buf, size, out) ==
  LET known == IF size = 0 /\ Len(buf.b) >= HeadSize THEN ReadHead(buf.b) + HeadSize ELSE size
      grown == IF buf.cap < known THEN [buf EXCEPT !.cap = Cap(known)] ELSE buf
      done == Append(out, SubSeq(buf.b, HeadSize + 1, known))
  IN  IF known = 0 \/ Len(buf.b) < known
        THEN [buf |-> grown, total |-> known, out |-> out]
      ELSE IF Len(buf.b) = known
        THEN [buf |-> NewBuff, total |-> 0, out |-> done]
      ELSE ReadBuf([b |-> From(buf.b, known), cap |-> Cap(Len(buf.b) - known)], 0, done)

(***************************************************************************)
(* onRead: "draining" (the client) or "reading" (the loop) before it,      *)
(* "cutting" between a read of what there is room for and SetSize and      *)
(* readBuf, "again" when the read filled the buffer, so that there may be  *)
(* more.  The two goroutines take no lock against each other: a step of    *)
(* one while the other is inside onRead may overwrite what that has read,  *)
(* or replace the buffer it reads into.                                    *)
(***************************************************************************)
Inside(state) == state \in {"cutting", "again"}
NoChunk == [bytes |-> <<>>, full |-> FALSE, hit |-> FALSE]
Other(g) == IF g = "client" THEN "loop" ELSE "client"
StateOf(g) == IF g = "client" THEN client ELSE loop

Goes(g, state) ==
  IF g = "client" THEN client' = state /\ UNCHANGED loop ELSE loop' = state /\ UNCHANGED client

\* g writes while the other is inside.
Meets(g, bytes) == bytes # <<>> /\ Inside(StateOf(Other(g)))
Hit(g, ch, bytes) == [ch EXCEPT ![Other(g)].hit = @ \/ Meets(g, bytes)]
Overlap(g, bytes) == met' = IF Meets(g, bytes) THEN met \cup {"overlap"} ELSE met

ReadSome(g) ==
  LET room == buffer.cap - Len(buffer.b)
      n == IF hangup = "handled" THEN 0 ELSE Min({room, Len(sock)})
  IN  /\ sock' = From(sock, n)
      /\ chunk' = Hit(g, [chunk EXCEPT ![g].bytes = First(sock, n), ![g].full = (n = room)],
                       First(sock, n))
      /\ Goes(g, "cutting") /\ Overlap(g, First(sock, n))
      /\ UNCHANGED <<packets, wire, event, hangup, recvVars, connVars, buffer, total, told>>

(* What the buffer may hold where g has read: its bytes, or those of the   *)
(* other, or of a buffer nobody has written to.                            *)
MayHold(g) ==
  LET mine == chunk[g].bytes
      other == chunk[Other(g)].bytes
  IN  IF ~chunk[g].hit THEN {mine}
      ELSE {mine, [n \in DOMAIN mine |-> IF n <= Len(other) THEN other[n] ELSE 0]}

(* SetSize panics beyond the capacity, which takes an overlap. *)
CutSome(g) ==
  /\ StateOf(g) = "cutting"
  /\ \E bytes \in MayHold(g) :
       LET cut == ReadBuf([buffer EXCEPT !.b = @ \o bytes], total, <<>>)
       IN  IF Len(buffer.b) + Len(bytes) > buffer.cap
             THEN /\ Goes(g, IF g = "client" THEN "failed" ELSE "stopped")
                  /\ chunk' = Hit(g, [chunk EXCEPT ![g] = NoChunk], bytes)
                  /\ UNCHANGED <<buffer, total, told>>
             ELSE /\ IF bytes = <<>> THEN UNCHANGED <<buffer, total, told>>
                     ELSE buffer' = cut.buf /\ total' = cut.total /\ told' = told \o cut.out
                  /\ Goes(g, IF chunk[g].full THEN "again" ELSE IF g = "client" THEN "active" ELSE "idle")
                  /\ chunk' = Hit(g, IF chunk[g].full THEN chunk ELSE [chunk EXCEPT ![g] = NoChunk], bytes)
  /\ Overlap(g, chunk[g].bytes)
  /\ UNCHANGED <<packets, wire, sock, event, hangup, recvVars, connVars>>

Init ==
  /\ packets \in Streams
  /\ wire = FlattenSeq([n \in DOMAIN packets |-> OnWire(packets[n])])
  /\ sock = <<>> /\ event = FALSE /\ hangup = "no"
  /\ client = "starter" /\ need = 0 /\ frame = <<>> /\ loop = "idle"
  /\ conn = TRUE /\ handler = FALSE /\ recvState = FALSE /\ wake = "empty"
  /\ buffer = NewBuff /\ total = 0 /\ told = <<>> /\ met = {}
  /\ chunk = [client |-> NoChunk, loop |-> NoChunk]

----------------------------------------------------------------------------
(* The peer and the socket. *)
Arrive(n) ==
  /\ hangup = "no" /\ n \in 1 .. Len(wire)
  /\ sock' = sock \o First(wire, n) /\ wire' = From(wire, n)
  /\ event' = TRUE
  /\ UNCHANGED <<packets, hangup, client, loop, recvVars, connVars, bufVars, told, met>>

PeerCloses ==
  /\ hangup = "no" /\ hangup' = "pending"
  /\ UNCHANGED <<packets, wire, sock, event, client, loop, recvVars, connVars, bufVars, told, met>>

----------------------------------------------------------------------------
(* The connect starter starts the client and sends it the first message;   *)
(* when the start fails nobody looks after the connection any more.        *)
StartClient ==
  /\ client = "starter" /\ client' = "recv"
  /\ need' = HeadSize /\ frame' = <<>>
  /\ UNCHANGED <<packets, wire, sock, event, hangup, loop, connVars, bufVars, told, met>>

StartFails ==
  /\ client = "starter" /\ client' = "failed"
  /\ UNCHANGED <<packets, wire, sock, event, hangup, loop, recvVars, connVars, bufVars, told, met>>

(* Recv and Read: the client locks, reads what there is, and waits when    *)
(* that is not enough.                                                     *)
MutexFree == client \notin {"reading", "panicked", "draining", "cutting", "again"}

EnterRead ==
  /\ client = "recv" /\ client' = "reading"
  /\ UNCHANGED <<packets, wire, sock, event, hangup, loop, recvVars, connVars, bufVars, told, met>>

(* The read of the client; the packet it was waiting for is complete when  *)
(* the head said so.  A closed connection is an error.                     *)
Read ==
  LET n == Min({need, Len(sock)})
      got == frame \o First(sock, n)
      size == ReadHead(got)
      open == conn /\ hangup # "handled"
  IN  /\ client = "reading"
      /\ \/ /\ ~open
            /\ told' = Append(told, Closed) /\ client' = "failed"
            /\ UNCHANGED <<sock, recvVars, recvState>>
         \/ /\ open /\ n < need
            /\ sock' = From(sock, n) /\ frame' = got /\ need' = need - n
            /\ recvState' = TRUE /\ client' = "waiting"
            /\ UNCHANGED told
         \/ /\ open /\ n = need /\ Len(got) = HeadSize /\ size > 0
            /\ sock' = From(sock, n) /\ frame' = got /\ need' = size
            /\ client' = "recv"
            /\ UNCHANGED <<told, recvState>>
         \/ /\ open /\ n = need /\ (Len(got) > HeadSize \/ size = 0)
            /\ sock' = From(sock, n) /\ frame' = <<>> /\ need' = 0
            /\ told' = Append(told, From(got, HeadSize)) /\ client' = "start"
            /\ UNCHANGED recvState
      /\ UNCHANGED <<packets, wire, event, hangup, loop, conn, handler, wake, bufVars, met>>

(* The client takes the token, or finds the channel closed. *)
Wake ==
  /\ client = "waiting" /\ wake # "empty"
  /\ wake' = IF wake = "token" THEN "empty" ELSE wake
  /\ client' = "reading"
  /\ UNCHANGED <<packets, wire, sock, event, hangup, loop, recvVars, conn, handler,
                 recvState, bufVars, told, met>>

(* StartReader: on a closed connection it only writes a log line. *)
StartReader ==
  /\ client = "start"
  /\ client' = IF conn THEN "checked" ELSE "refused"
  /\ UNCHANGED <<packets, wire, sock, event, hangup, loop, recvVars, connVars, bufVars, told, met>>

(* Under the mutex: the channel is closed and the handler is set. *)
SetHandler ==
  /\ client = "checked" /\ client' = "draining"
  /\ recvState' = FALSE /\ wake' = "closed" /\ handler' = TRUE
  /\ met' = IF hangup = "handled" THEN met \cup {"missed"} ELSE met
  /\ UNCHANGED <<packets, wire, sock, event, hangup, loop, recvVars, conn, bufVars, told>>

(* onRead of the client, after which it unlocks; on a nil connection it    *)
(* panics, and the deferred Unlock runs.                                   *)
Drain ==
  /\ client \in {"draining", "again"}
  /\ (client = "draining" => conn)
  /\ ReadSome("client")

DrainCut == CutSome("client")

DrainNil ==
  /\ client = "draining" /\ ~conn /\ client' = "failed"
  /\ UNCHANGED <<packets, wire, sock, event, hangup, loop, recvVars, connVars, bufVars, told, met>>

----------------------------------------------------------------------------
(* The event loop: OnRead looks at the handler first. *)
OnRead ==
  /\ event /\ loop = "idle" /\ hangup # "handled"
  /\ event' = FALSE
  /\ loop' = IF handler THEN "reading" ELSE "checked"
  /\ UNCHANGED <<packets, wire, sock, hangup, client, recvVars, connVars, bufVars, told, met>>

\* Mutant: a client that waits is not woken.
OnReadPassiveSilent ==
  /\ loop = "checked" /\ MutexFree
  /\ loop' = "idle"
  /\ recvState' = FALSE
  /\ UNCHANGED <<packets, wire, sock, event, hangup, client, recvVars, conn, handler, wake,
                 bufVars, told, met>>

(* No handler: a client that waits is woken. *)
OnReadPassive ==
  /\ loop = "checked" /\ MutexFree
  /\ loop' = "idle"
  /\ recvState' = FALSE
  /\ wake' = IF recvState THEN "token" ELSE wake
  /\ UNCHANGED <<packets, wire, sock, event, hangup, client, recvVars, conn, handler,
                 bufVars, told, met>>

OnReadActive == loop \in {"reading", "again"} /\ ReadSome("loop")

OnReadCut == CutSome("loop")

(***************************************************************************)
(* OnClose, when nbio has closed the connection: an active client is told; *)
(* for one that is not active yet Close clears Conn, and only then takes   *)
(* the mutex.  A client that is reading may have looked at Conn just       *)
(* before: it panics, and keeps the mutex.                                 *)
(***************************************************************************)
OnClose ==
  /\ hangup = "pending" /\ loop = "idle" /\ hangup' = "handled"
  /\ IF handler
       THEN told' = Append(told, Closed) /\ UNCHANGED loop
       ELSE loop' = "closing" /\ UNCHANGED told
  /\ met' = IF handler /\ client # "active" THEN met \cup {"late"} ELSE met
  /\ UNCHANGED <<packets, wire, sock, event, client, recvVars, connVars, bufVars>>

ClearConn ==
  /\ loop = "closing" /\ loop' = "cleared" /\ conn' = FALSE
  /\ client' \in IF client = "reading" THEN {client, "panicked"} ELSE {client}
  /\ UNCHANGED <<packets, wire, sock, event, hangup, recvVars, handler, recvState, wake,
                 bufVars, told, met>>

CloseWake ==
  /\ loop = "cleared" /\ MutexFree /\ loop' = "idle"
  /\ recvState' = FALSE
  /\ wake' = IF recvState THEN "closed" ELSE wake
  /\ UNCHANGED <<packets, wire, sock, event, hangup, client, recvVars, conn, handler,
                 bufVars, told, met>>

Next ==
  \/ \E n \in 1 .. Len(wire) : Arrive(n)
  \/ PeerCloses
  \/ StartClient \/ StartFails
  \/ EnterRead \/ Read \/ Wake
  \/ StartReader \/ SetHandler \/ Drain \/ DrainCut \/ DrainNil
  \/ OnRead \/ OnReadPassive \/ OnReadActive \/ OnReadCut
  \/ OnClose \/ ClearConn \/ CloseWake

Spec == Init /\ [][Next]_vars

----------------------------------------------------------------------------
Got == SelectSeq(told, LAMBDA p : p # Closed)
Complete ==
  LET ends == {n \in 0 .. Len(packets) :
                 Len(FlattenSeq([k \in 1 .. n |-> OnWire(packets[k])]))
                   <= Len(FlattenSeq([k \in DOMAIN packets |-> OnWire(packets[k])])) - Len(wire)}
  IN  First(packets, Max(ends))

(***************************************************************************)
(* The client gets the packets of the peer whole, once and in their order, *)
(* however the bytes arrive and whichever of the two goroutines reads      *)
(* them, but for the two in onRead at once; the client is told of          *)
(* the end once, and of nothing after it, unless it was casting to itself  *)
(* what it had read when the end came.                                     *)
(***************************************************************************)
PacketsWhole ==
  /\ "overlap" \notin met => IsPrefix(Got, packets)
  /\ Cardinality({n \in DOMAIN told : told[n] = Closed}) <= 1
  /\ "late" \notin met => \A n \in DOMAIN told : told[n] = Closed => n = Len(told)

(***************************************************************************)
(* No wake-up is lost: when nothing more happens, a client has all packets *)
(* that have arrived, or the end of the connection.  The exceptions are    *)
(* two goroutines in onRead at once, a client whose start failed, and one  *)
(* that calls StartReader around the end of the connection, which nobody   *)
(* tells it.                                                               *)
(***************************************************************************)
NothingStuck ==
  /\ met \cap {"overlap", "missed"} = {}
  /\ ~event /\ loop = "idle" /\ hangup # "pending"
  /\ client \in {"waiting", "active"} /\ ~(client = "waiting" /\ wake # "empty")
  => IF hangup = "handled" THEN \E n \in DOMAIN told : told[n] = Closed
     ELSE Got = Complete
=============================================================================
