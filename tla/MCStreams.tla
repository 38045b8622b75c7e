----------------------------- MODULE MCStreams -----------------------------
(***************************************************************************)
(* The parts of the library that turn a stream of bytes into messages: the *)
(* request parser, a websocket connection and a connection of the gate.    *)
(* They share nothing; the initial state chooses the one a behaviour is    *)
(* about, and the variables of the others keep an empty value.  MCServices *)
(* puts them beside the services.                                          *)
(***************************************************************************)
EXTENDS Integers, Sequences, SequencesExt, TLC

CONSTANTS w1, w2,                                  \* goroutines that write to the websocket
          ReadLimit,                               \* HttpParser
          MaxRead, MaxMessage, MaxPayload, Max7, Max16,   \* WebSocket
          HeadSize, Base, SmallCap, FirstCap       \* GateConn

VARIABLES part,
          stream, rest, p, cut,                    \* HttpParser
          frames, wire, c, loop, reply, open, onClose, casts, sent, mux, todo, spoilt,   \* WebSocket
          packets, link, sock, event, hangup, client, need, frame, turn, conn,   \* GateConn
          handler, recvState, wake, buffer, total, chunk, told, met

parserVars == <<stream, rest, p, cut>>
socketVars == <<frames, wire, c, loop, reply, open, onClose, casts, sent, mux, todo, spoilt>>
gateVars == <<packets, link, sock, event, hangup, client, need, frame, turn, conn,
              handler, recvState, wake, buffer, total, chunk, told, met>>
vars == <<part, parserVars, socketVars, gateVars>>

----------------------------------------------------------------------------
(* HttpParser: one or two requests of four kinds, and requests in which one *)
(* byte is missing.                                                         *)
EndOfLine == <<"\r", "\n">>
Req(h, b, t, n) == [url |-> <<"/">>, header |-> h, body |-> b, trailer |-> t, len |-> n]
TE == <<<<"TE">>, <<"chunked">>>>
Plain == Req(<< <<<<"k">>, <<"x">>>> >>, <<>>, <<>>, -1)
Sized == Req(<< <<<<"CL">>, <<"2">>>> >>, EndOfLine, <<>>, 2)
Chunked == Req(<<TE>>, <<"x">> \o EndOfLine, <<>>, -1)
Trailed == Req(<< <<<<"TR">>, <<"k">>>>, TE>>, <<"x">>, << <<<<"k">>, <<"x">>>> >>, -1)
Requests == {Plain, Sized, Chunked, Trailed}

Headers(hs) == FlattenSeq([j \in DOMAIN hs |-> hs[j][1] \o <<":", " ">> \o hs[j][2] \o EndOfLine])
Chunks(b) ==
  <<"1">> \o EndOfLine \o SubSeq(b, 1, 1) \o EndOfLine
  \o (IF Len(b) > 1 THEN <<"2">> \o EndOfLine \o SubSeq(b, 2, 3) \o EndOfLine ELSE <<>>)
Bytes(r) ==
  <<"G", "T", " ", "/", " ", "V">> \o EndOfLine \o Headers(r.header) \o EndOfLine
  \o (IF TE \in ToSet(r.header)
      THEN Chunks(r.body) \o <<"0">> \o EndOfLine \o Headers(r.trailer) \o EndOfLine
      ELSE r.body)

Batches == {<<r>> : r \in Requests} \cup {<<r, s>> : r \in Requests, s \in Requests}
BytesOf(batch) == FlattenSeq([j \in DOMAIN batch |-> Bytes(batch[j])])
Damaged == UNION {{RemoveAt(Bytes(r), j) : j \in 1..Len(Bytes(r))} : r \in Requests}
HttpInputs == {BytesOf(b) : b \in Batches} \cup Damaged

H == INSTANCE HttpParser WITH Inputs <- HttpInputs

----------------------------------------------------------------------------
(* GateConn: the client receives the first packet; the others fill the     *)
(* buffer, make it grow, or are two in one read, one of them empty.         *)
Streams == {<<<<9>>, <<9, 8>>, <<7>>>>,
            <<<<>>, <<9, 9, 9, 9>>, <<6>>>>,
            <<<<1, 2, 3>>, <<>>, <<4>>>>}

G == INSTANCE GateConn WITH wire <- link, loop <- turn

----------------------------------------------------------------------------
(* WebSocket: whole and fragmented messages, compressed ones, pings between *)
(* fragments, texts that are no UTF-8, frames and sizes that are refused.   *)
F(op, fin, z, body) ==
  [op |-> op, fin |-> fin, z |-> z, rsv |-> FALSE, body |-> body, key |-> <<7, 0, 129, 3>>]
Fragment == 0
Text == 1
Binary == 2
CloseOp == 8
Ping == 9
Pong == 10
Whole == F(Binary, TRUE, FALSE, <<1, 2, 3, 4, 5>>)
Part(fin) == F(Fragment, fin, FALSE, <<9, 200>>)
PingF == F(Ping, TRUE, FALSE, <<6>>)
\* Without a mask the head of a frame is so short that what others write into
\* its buffer reaches the body.
Bare(f) == [f EXCEPT !.key = <<>>]

FrameInputs ==
  { <<Whole, F(Text, TRUE, FALSE, <<65>>)>>,
    <<F(Binary, FALSE, FALSE, <<8>>), PingF, Part(FALSE), F(Pong, TRUE, FALSE, <<>>), Part(TRUE), Whole>>,
    <<F(Text, TRUE, FALSE, <<255>>), Whole>>,
    <<Bare(F(Binary, FALSE, FALSE, <<1, 2, 3>>)), Bare(F(Fragment, TRUE, FALSE, <<4, 5>>)),
      Bare(PingF), F(Pong, TRUE, FALSE, <<>>)>>,
    <<F(Text, TRUE, FALSE, <<>>), Whole>>,
    <<F(Text, FALSE, TRUE, <<2>>), F(Fragment, TRUE, TRUE, <<65, 66>>), PingF>>,
    <<F(Binary, TRUE, TRUE, <<1, 1>>)>>,
    <<F(Binary, FALSE, FALSE, <<1>>), Whole>>,
    <<F(3, TRUE, FALSE, <<>>), Whole>>,
    <<F(Binary, TRUE, FALSE, <<>>), PingF, F(CloseOp, TRUE, FALSE, <<3, 232>>), Whole>>,
    <<F(CloseOp, TRUE, FALSE, <<3, 236>>)>>,
    <<F(CloseOp, TRUE, FALSE, <<>>), F(11, TRUE, FALSE, <<>>)>>,
    <<F(Binary, TRUE, FALSE, <<1, 1, 1, 1, 1, 1, 1>>)>>,
    <<F(Binary, FALSE, FALSE, <<1, 1, 1, 1>>), F(Fragment, TRUE, FALSE, <<2, 2, 2>>)>> }

Writers == {w1, w2}
Written == (w1 :> [op |-> Text, data |-> <<70, 71, 72>>]) @@ (w2 :> [op |-> Binary, data |-> <<80, 81>>])

S == INSTANCE WebSocket WITH Inputs <- FrameInputs, Compression <- TRUE

----------------------------------------------------------------------------
NoParser == stream = <<>> /\ rest = <<>> /\ p = <<>> /\ cut = FALSE
NoSocket ==
  /\ frames = <<>> /\ wire = <<>> /\ c = <<>> /\ loop = "idle" /\ reply = <<>> /\ open = FALSE
  /\ onClose = "told" /\ casts = <<>> /\ sent = <<>> /\ mux = {} /\ todo = <<>> /\ spoilt = {}
NoGate ==
  /\ packets = <<>> /\ link = <<>> /\ sock = <<>> /\ event = FALSE /\ hangup = "no"
  /\ client = "failed" /\ need = 0 /\ frame = <<>> /\ turn = "idle" /\ conn = FALSE
  /\ handler = FALSE /\ recvState = FALSE /\ wake = "empty" /\ buffer = <<>> /\ total = 0
  /\ chunk = <<>> /\ told = <<>> /\ met = {}

Nothing == NoParser /\ NoSocket /\ NoGate

Init ==
  \/ part = "parser" /\ H!Init /\ NoSocket /\ NoGate
  \/ part = "socket" /\ S!Init /\ NoParser /\ NoGate
  \/ part = "gate" /\ G!Init /\ NoParser /\ NoSocket

Next ==
  \/ part = "parser" /\ H!Next /\ UNCHANGED <<part, socketVars, gateVars>>
  \/ part = "socket" /\ S!Next /\ UNCHANGED <<part, parserVars, gateVars>>
  \/ part = "gate" /\ G!Next /\ UNCHANGED <<part, parserVars, socketVars>>

----------------------------------------------------------------------------
(***************************************************************************)
(* However a stream is cut, the parser says the same of it, and a client's *)
(* well-formed requests are delivered as they were sent, in their order    *)
(* and without an error.  Not so for a second request after a chunked one: *)
(* p.chunked and p.trailer are never reset.                                *)
(***************************************************************************)
Batch == {b \in Batches : BytesOf(b) = stream}
StaleChunked(b) == Len(b) = 2 /\ b[1] \in {Chunked, Trailed}
AsSent ==
  ~cut /\ Len(stream) <= ReadLimit =>
    \A b \in Batch : ~StaleChunked(b) =>
      /\ ~p.err
      /\ IsPrefix(p.out, b)
      /\ rest = <<>> => p.out = b
Parsed == part = "parser" => H!CutFree /\ AsSent

(* See WebSocket and GateConn. *)
Reassembled == part = "socket" => S!Reassembled
WrittenWhole == part = "socket" => S!WrittenWhole /\ S!Ponged
PacketsWhole == part = "gate" => G!PacketsWhole /\ G!NothingStuck
=============================================================================
