----------------------------- MODULE WebSocket ------------------------------
(* A connection that a request has turned into a websocket                   *)
(* (httpd/httpd.go, httpd/websocket/conn.go).  The event loop upgrades it,   *)
(* starts the actor that handles it, then reads frames; goroutines write     *)
(* messages at the same time.  Bytes are numbers below 256; those above 127  *)
(* are no UTF-8.  Deflate is an injective code: a 2 in front of the data.    *)
(* The body of a frame that is not the last one in the buffer stays in a     *)
(* buffer that has been given back to bpool, where others may overwrite it.  *)
EXTENDS Integers, Sequences, SequencesExt

CONSTANTS Inputs,       \* what a client may send: sequences of frames
          Writers,      \* goroutines that call WriteMessage, once each
          Written,      \* what they write: [Writers -> [op, data]]
          Compression,  \* config.EnableCompression, and negotiated
          MaxRead,      \* config.ReadLimit
          MaxMessage,   \* config.MaxMessageSize
          MaxPayload,   \* MaxWebsocketFramePayloadSize
          Max7, Max16   \* 125 and 65535

Fragment == 0
Text == 1
Binary == 2
CloseOp == 8
Ping == 9
Pong == 10
Data == {Fragment, Text, Binary}

VARIABLES frames,   \* the frames that the client sends
          wire,     \* their bytes that have not arrived
          c,        \* the Conn
          loop,     \* the event loop: "upgrade", "start", "session", "idle", "frames",
                    \*   "reply", "closing", "stopped" (closed with an error, or the
                    \*   loop panicked)
          reply,    \* control frames that the loop has to write
          open,     \* the TCP connection is open
          onClose,  \* OnClose of the engine: "pending", "told", "missed"
          casts,    \* what became of each message: sent to the handler, or Refused
          sent,     \* frames written to the connection
          mux,      \* holder of c.mux
          todo,     \* frames that a writer has still to write
          spoilt    \* the messages and pongs with a body that was overwritten (history)

vars == <<frames, wire, c, loop, reply, open, onClose, casts, sent, mux, todo, spoilt>>
Refused == <<-1>>

-----------------------------------------------------------------------------
(* Bytes, masks, compression.                                                *)
Xor(a, b) ==
  LET bit(x, j) == (x \div (2^j)) % 2
  IN  FoldLeft(LAMBDA s, j : s + (2^j) * ((bit(a, j) + bit(b, j)) % 2), 0, <<0, 1, 2, 3, 4, 5, 6, 7>>)

Masked(body, key) == [i \in DOMAIN body |-> Xor(body[i], key[1 + ((i - 1) % 4)])]

Compress(data) == <<2>> \o data
Inflates(data) == data # <<>> /\ data[1] = 2
ValidText(data) == \A i \in DOMAIN data : data[i] < 128

ValidCloseCode(code) ==
  \/ code \in (1000..1011) \ 1004..1006
  \/ code = 1015
  \/ code \in 3000..4999

-----------------------------------------------------------------------------
(* WriteMessage: the frames of a message.                                    *)
Frame(op, fin, z, body) ==
  [op |-> op, fin |-> fin, z |-> z, rsv |-> FALSE, body |-> body, key |-> <<>>]

Cut(data) ==
  IF data = <<>> THEN << <<>> >>
  ELSE [j \in 1..((Len(data) + MaxPayload - 1) \div MaxPayload) |->
          SubSeq(data, (j - 1) * MaxPayload + 1,
                 IF j * MaxPayload < Len(data) THEN j * MaxPayload ELSE Len(data))]

FramesOf(op, data, compress) ==
  LET z == compress /\ op \in {Text, Binary}
      parts == Cut(IF z THEN Compress(data) ELSE data)
  IN  [j \in DOMAIN parts |->
         Frame(IF j = 1 THEN op ELSE Fragment, j = Len(parts), z, parts[j])]

\* writeFrame: the bytes of a frame
Bit(b, n) == IF b THEN n ELSE 0
Header(f) ==
  LET l == Len(f.body)
      m == Bit(f.key # <<>>, 128)
      b == f.op + Bit(f.fin, 128) + Bit(f.z, 64) + Bit(f.rsv, 32)
  IN  CASE l <= Max7 -> <<b, l + m>>
        [] l > Max7 /\ l <= Max16 -> <<b, Max7 + 1 + m, l \div 256, l % 256>>
        [] OTHER -> <<b, Max7 + 2 + m, 0, 0, 0, 0, 0, 0, l \div 256, l % 256>>

Bytes(f) ==
  Header(f) \o f.key \o (IF f.key = <<>> THEN f.body ELSE Masked(f.body, f.key))

-----------------------------------------------------------------------------
(* nextFrame                                                                 *)
NoFrame == [ok |-> FALSE]

BodyLen(buf) ==
  LET l == buf[2] % 128
  IN  CASE l = Max7 + 1 -> IF Len(buf) >= 4 THEN 256 * buf[3] + buf[4] ELSE -1
        [] l = Max7 + 2 -> IF Len(buf) >= 10 THEN 256 * buf[9] + buf[10] ELSE -1
        [] OTHER -> l

NextFrame(buf) ==
  IF Len(buf) < 2 \/ BodyLen(buf) < 0 THEN NoFrame
  ELSE LET l    == buf[2] % 128
           mask == IF buf[2] >= 128 THEN 4 ELSE 0
           head == mask + (CASE l = Max7 + 1 -> 4 [] l = Max7 + 2 -> 10 [] OTHER -> 2)
           end  == head + BodyLen(buf)
           body == SubSeq(buf, head + 1, end)
       IN  IF Len(buf) < end THEN NoFrame
           ELSE [ok |-> TRUE, op |-> buf[1] % 16, fin |-> buf[1] >= 128,
                 z |-> (buf[1] \div 64) % 2 = 1, rsv |-> (buf[1] \div 16) % 4 # 0, head |-> head,
                 body |-> IF mask = 0 THEN body ELSE Masked(body, SubSeq(buf, head - 3, head)),
                 rest |-> SubSeq(buf, end + 1, Len(buf))]

\* The body lies behind its head in the array of the buffer.  When more bytes
\* followed, the buffer was freed: bpool.New may give it to the growing message
\* itself, which then starts with what it has, or to a goroutine that writes a
\* frame.  (Other connections use the pool as well; they write other bytes.)
Overlaid(f, over) ==
  [i \in DOMAIN f.body |-> IF f.head + i <= Len(over) THEN over[f.head + i] ELSE f.body[i]]

Overwritten(f, message) ==
  IF f.rest = <<>> THEN {<<>>}
  ELSE {<<>>} \union (IF f.op \in Data THEN {message} ELSE {})
              \union {Bytes(Head(todo[w])) : w \in mux}

ValidFrame(f, expecting) ==
  /\ f.z => Compression
  /\ ~f.rsv
  /\ f.op \notin 3..7
  /\ f.fin \/ f.op \in Data
  /\ ~(expecting /\ f.op \in {Text, Binary})

-----------------------------------------------------------------------------
(* handlerWebSocket: upgrade the connection, start the actor, then tell the  *)
(* Conn its handler and the engine its new session.                          *)
Init ==
  /\ frames \in Inputs
  /\ wire = FlattenSeq([j \in DOMAIN frames |-> Bytes(frames[j])])
  /\ c = [buffer |-> <<>>, message |-> <<>>, opcode |-> 0, compress |-> FALSE, expecting |-> FALSE]
  /\ loop = "upgrade"
  /\ reply = <<>>
  /\ open = TRUE
  /\ onClose = "pending"
  /\ casts = <<>>
  /\ sent = <<>>
  /\ mux = {}
  /\ todo = [w \in Writers |-> FramesOf(Written[w].op, Written[w].data, Compression)]
  /\ spoilt = {}

Upgrade ==
  /\ loop = "upgrade"
  /\ loop' = IF open THEN "start" ELSE "stopped"
  /\ UNCHANGED <<frames, wire, c, reply, open, onClose, casts, sent, mux, todo, spoilt>>

StartHandler ==
  /\ loop = "start"
  /\ loop' = "session"
  /\ UNCHANGED <<frames, wire, c, reply, open, onClose, casts, sent, mux, todo, spoilt>>

SetSession ==
  /\ loop = "session"
  /\ loop' = "idle"
  /\ UNCHANGED <<frames, wire, c, reply, open, onClose, casts, sent, mux, todo, spoilt>>

-----------------------------------------------------------------------------
(* Read, one action for each turn of its loop.                               *)
CloseWithError == open' = FALSE /\ loop' = "stopped"

Receive ==
  /\ loop = "idle" /\ open /\ wire # <<>>
  /\ \E n \in 1..Len(wire) :
       /\ wire' = SubSeq(wire, n + 1, Len(wire))
       /\ IF \/ Len(c.buffer) + n > MaxRead
             \/ Len(c.buffer) + Len(c.message) > MaxRead
          THEN CloseWithError /\ UNCHANGED c
          ELSE /\ c' = [c EXCEPT !.buffer = @ \o SubSeq(wire, 1, n)]
               /\ loop' = "frames"
               /\ UNCHANGED open
  /\ UNCHANGED <<frames, reply, onClose, casts, sent, mux, todo, spoilt>>

\* The message is complete: inflate it, check it, hand it over.  An empty one
\* is a nil buffer: ToBytes on it panics, and the loop reads no more.
HandleMessage(k, after) ==
  LET inflated == IF k.compress THEN Tail(k.message) ELSE k.message
      reset == [k EXCEPT !.message = <<>>, !.opcode = 0, !.compress = FALSE, !.expecting = FALSE]
      text  == k.opcode = Text
  IN  CASE k.message = <<>> /\ (text \/ k.compress) ->
             loop' = "stopped" /\ UNCHANGED <<c, casts, open>>
        [] k.compress /\ k.message # <<>> /\ ~Inflates(k.message) ->
             CloseWithError /\ UNCHANGED <<c, casts>>
        [] OTHER ->
             /\ c' = reset
             /\ loop' = after
             /\ IF text /\ ~ValidText(inflated)
                THEN open' = FALSE /\ casts' = Append(casts, Refused)
                ELSE casts' = Append(casts, inflated) /\ UNCHANGED open

\* Mutant: a fragment takes the place of the one before it.
DataFrameAlone(f, k, after) ==
  LET started == IF k.opcode = 0 THEN [k EXCEPT !.opcode = f.op, !.compress = f.z] ELSE k
      grown   == [started EXCEPT !.message = f.body]
  IN  CASE f.body # <<>> /\ Len(grown.message) > MaxMessage ->
             CloseWithError /\ UNCHANGED <<c, casts>>
        [] f.fin -> HandleMessage(grown, after)
        [] OTHER -> c' = [grown EXCEPT !.expecting = TRUE] /\ loop' = after /\ UNCHANGED <<open, casts>>

DataFrame(f, k, after) ==
  LET started == IF k.opcode = 0 THEN [k EXCEPT !.opcode = f.op, !.compress = f.z] ELSE k
      grown   == [started EXCEPT !.message = @ \o f.body]
  IN  CASE f.body # <<>> /\ Len(grown.message) > MaxMessage ->
             CloseWithError /\ UNCHANGED <<c, casts>>
        [] f.fin -> HandleMessage(grown, after)
        [] OTHER -> /\ c' = [grown EXCEPT !.expecting = TRUE]
                    /\ loop' = after
                    /\ UNCHANGED <<open, casts>>

Pongs == SelectSeq(sent, LAMBDA f : f.op = Pong)

\* What the loop writes back; a close frame is followed by Close
Answer(f) ==
  LET code == 256 * f.body[1] + f.body[2]
      text == SubSeq(f.body, 3, Len(f.body))
      close(body) == <<Frame(CloseOp, TRUE, FALSE, body)>>
  IN  CASE f.op = Ping /\ Len(f.body) <= Max7 -> <<Frame(Pong, TRUE, FALSE, f.body)>>
        [] f.op = CloseOp /\ Len(f.body) < 2 -> close(<<>>)
        [] f.op = CloseOp /\ Len(f.body) >= 2 ->
             CASE ~(ValidCloseCode(code) /\ ValidText(text)) -> close(<<3, 234>>)
               [] Len(f.body) <= Max7 -> close(f.body)
               [] OTHER -> <<>>
        [] OTHER -> <<>>

ControlFrame(f, k, after) ==
  /\ UNCHANGED casts
  /\ IF Len(f.body) > MaxMessage
     THEN CloseWithError /\ UNCHANGED <<c, reply>>
     ELSE
     /\ c' = k
     /\ LET answer == Answer(f)
        IN  /\ reply' = answer
            /\ loop' = IF answer = <<>> THEN after ELSE "reply"
            /\ open' = (open /\ (f.op = Pong \/ answer # <<>>))

ReadFrame ==
  /\ loop = "frames"
  /\ LET g == NextFrame(c.buffer)
         k == [c EXCEPT !.buffer = g.rest]
         after == IF g.rest = <<>> THEN "idle" ELSE "frames"
         what == IF g.op \in Data THEN <<"message", Len(casts) + 1>> ELSE <<"pong", 1 + Len(Pongs)>>
     IN  \/ ~g.ok /\ loop' = "idle" /\ UNCHANGED <<c, open, casts, reply, spoilt>>
         \/ /\ g.ok /\ ~ValidFrame(g, c.expecting)
            /\ CloseWithError /\ UNCHANGED <<c, casts, reply, spoilt>>
         \/ /\ g.ok /\ ValidFrame(g, c.expecting)
            /\ \E over \in Overwritten(g, c.message) :
                 LET f == [g EXCEPT !.body = Overlaid(g, over)]
                 IN  /\ IF f.op \in Data THEN DataFrame(f, k, after) /\ UNCHANGED reply
                                         ELSE ControlFrame(f, k, after)
                     /\ spoilt' = IF f.body # g.body THEN spoilt \union {what} ELSE spoilt
  /\ UNCHANGED <<frames, wire, onClose, sent, mux, todo>>

\* WriteMessage of a pong or close frame by the event loop
WriteReply ==
  /\ loop = "reply" /\ mux = {}
  /\ sent' = IF open THEN sent \o reply ELSE sent
  /\ reply' = <<>>
  /\ loop' = CASE reply[1].op = CloseOp -> "closing"
               [] c.buffer = <<>> -> "idle"
               [] OTHER -> "frames"
  /\ UNCHANGED <<frames, wire, c, open, onClose, casts, mux, todo, spoilt>>

\* Close after a close frame; the loop goes on with the next frame even so.
Close ==
  /\ loop = "closing"
  /\ open' = FALSE
  /\ loop' = IF c.buffer = <<>> THEN "idle" ELSE "frames"
  /\ UNCHANGED <<frames, wire, c, reply, onClose, casts, sent, mux, todo, spoilt>>

-----------------------------------------------------------------------------
\* Mutant: a writer does not wait for the lock.
LockAnytime(w) ==
  /\ loop \notin {"upgrade", "start"}
  /\ todo[w] # <<>>
  /\ mux' = {w}
  /\ UNCHANGED <<frames, wire, c, loop, reply, open, onClose, casts, sent, todo, spoilt>>

(* WriteMessage of other goroutines: the lock is held for all its frames.    *)
Lock(w) ==
  /\ loop \notin {"upgrade", "start"}
  /\ mux = {} /\ todo[w] # <<>>
  /\ mux' = {w}
  /\ UNCHANGED <<frames, wire, c, loop, reply, open, onClose, casts, sent, todo, spoilt>>

WriteFrame(w) ==
  /\ mux = {w}
  /\ sent' = IF open THEN Append(sent, Head(todo[w])) ELSE sent
  /\ todo' = [todo EXCEPT ![w] = IF open THEN Tail(@) ELSE <<>>]
  /\ mux' = IF todo'[w] = <<>> THEN {} ELSE mux
  /\ UNCHANGED <<frames, wire, c, loop, reply, open, onClose, casts, spoilt>>

-----------------------------------------------------------------------------
(* The connection ends; the engine calls OnClose.                            *)
PeerClose ==
  /\ open
  /\ open' = FALSE
  /\ UNCHANGED <<frames, wire, c, loop, reply, onClose, casts, sent, mux, todo, spoilt>>

OnClose ==
  /\ ~open /\ onClose = "pending"
  /\ onClose' = IF loop \in {"upgrade", "start", "session"} THEN "missed" ELSE "told"
  /\ UNCHANGED <<frames, wire, c, loop, reply, open, casts, sent, mux, todo, spoilt>>

Next ==
  \/ Upgrade \/ StartHandler \/ SetSession
  \/ Receive \/ ReadFrame \/ WriteReply \/ Close
  \/ \E w \in Writers : Lock(w) \/ WriteFrame(w)
  \/ PeerClose \/ OnClose

Spec == Init /\ [][Next]_vars

-----------------------------------------------------------------------------
(* The messages in a sequence of frames, by the standard: the data frames    *)
(* from one after a final frame to the next final one.                       *)
DataFrames(fs) == SelectSeq(fs, LAMBDA f : f.op \in Data)
Bodies(fs) == FlattenSeq([j \in DOMAIN fs |-> fs[j].body])

Messages(fs) ==
  LET ds   == DataFrames(fs)
      ends == SetToSortSeq({j \in DOMAIN ds : ds[j].fin}, <)
      from(m) == IF m = 1 THEN 1 ELSE ends[m - 1] + 1
      raw(m)  == Bodies(SubSeq(ds, from(m), ends[m]))
      data(m) == IF ds[from(m)].z THEN Tail(raw(m)) ELSE raw(m)
      good(m) == ds[from(m)].op # Text \/ ValidText(data(m))
  IN  [m \in DOMAIN ends |-> IF good(m) THEN data(m) ELSE Refused]

AllRead == loop = "idle" /\ wire = <<>>

(* Reassembled: the handler gets the client's messages, whole and in order,  *)
(* however they are fragmented, whatever control frames stand between the    *)
(* fragments, and however the bytes are cut on their way; texts that are no  *)
(* UTF-8 are refused.  Not whole is a message of which a body was            *)
(* overwritten in a buffer that had been given back to the pool.             *)
Reassembled ==
  LET ms == Messages(frames)
  IN  /\ Len(casts) <= Len(ms)
      /\ \A m \in DOMAIN casts : casts[m] = ms[m] \/ <<"message", m>> \in spoilt
      /\ AllRead => Len(casts) = Len(ms)

(* WrittenWhole: what goroutines write at the same time, and the event loop  *)
(* between them, reaches the client as whole messages, each once.  (The code *)
(* sets the compression bit on continuation frames too; a client that keeps  *)
(* to the standard refuses those, Messages reads the bit of the first.)      *)
WrittenWhole ==
  LET ms == Messages(sent)
  IN  \A i \in DOMAIN ms :
        /\ \E w \in Writers : ms[i] = Written[w].data
        /\ \A j \in DOMAIN ms : ms[i] = ms[j] => i = j

(* Ponged: pings are answered in their order with what they carried, while   *)
(* the connection is open; what they carried may have been overwritten too.  *)
Ponged ==
  LET pings == SelectSeq(frames, LAMBDA f : f.op = Ping)
  IN  /\ Len(Pongs) <= Len(pings)
      /\ \A j \in DOMAIN Pongs : Pongs[j].body = pings[j].body \/ <<"pong", j>> \in spoilt
      /\ AllRead /\ open => Len(Pongs) = Len(pings)
=============================================================================
