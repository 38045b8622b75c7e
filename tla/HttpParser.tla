----------------------------- MODULE HttpParser -----------------------------
(* The HTTP/1 request parser of httpd (httpd/parser.go).  The event loop     *)
(* hands it the bytes of a connection in pieces (Read) as they arrive; what  *)
(* belongs to an unfinished token stays in p.cache until the next piece.     *)
(*                                                                           *)
(* A byte is a symbol: "G" and "T" are the letters of the only method, "k"   *)
(* a letter, "TE", "CL" and "TR" stand for the names Transfer-Encoding,      *)
(* Content-Length and Trailer, "V" for HTTP/1.1; digits are hex digits.      *)
(* All errors of Read are one: the engine closes the connection then and     *)
(* calls Read no more.                                                       *)
EXTENDS Integers, Sequences, SequencesExt

CONSTANTS Inputs,      \* streams of bytes that a client may send
          ReadLimit    \* p.readLimit

Digit == [d \in {"0", "1", "2"} |-> CASE d = "0" -> 0 [] d = "1" -> 1 [] d = "2" -> 2]
Hex == DOMAIN Digit
MethodChar == {"G", "T"}
Methods == {<<"G", "T">>}
Alpha == MethodChar \cup {"k", "TE", "CL", "TR", "V", "chunked"}
TokenChar == Alpha \cup Hex
Special == {<<"TE">>, <<"CL">>, <<"TR">>}

VARIABLES stream,    \* what the client sends on this connection
          rest,      \* the part of it that has not been read
          p,         \* the Parser
          cut        \* the first piece ended inside the method (history)

vars == <<stream, rest, p, cut>>

NoHeader == [h \in Special |-> <<>>]

\* cache: <<>> is nil, <<b>> a buffer that holds b.  start, next and halt are
\* the locals of Read: start of the token, index after a body that has been
\* skipped, and goto Exit.
NewParser ==
  [state |-> "MethodBefore", cache |-> << <<>> >>, req |-> <<>>, proto |-> <<>>,
   key |-> <<>>, value |-> <<>>, header |-> NoHeader, trailer |-> {},
   chunked |-> FALSE, chunkSize |-> -1, headerExists |-> FALSE,
   out |-> <<>>, err |-> FALSE, start |-> 1, next |-> 1, halt |-> FALSE]

Go(a, s) == [a EXCEPT !.state = s]
Mark(a, s, i) == [a EXCEPT !.state = s, !.start = i]
Fail(a) == [a EXCEPT !.err = TRUE]
Token(a, d, i) == SubSeq(d, a.start, i - 1)
Kept(old, a, d, i) == IF old = <<>> THEN Token(a, d, i) ELSE old

-----------------------------------------------------------------------------
(* Decimal or hexadecimal numbers: -1 when the text is not one.              *)
Number(base, t) ==
  IF t # <<>> /\ \A j \in DOMAIN t : t[j] \in Hex
  THEN FoldLeft(LAMBDA n, c : base * n + Digit[c], 0, t) ELSE -1

Trimmed(t) ==
  LET inner == {j \in DOMAIN t : t[j] # " "}
  IN  IF inner = {} THEN <<>> ELSE SubSeq(t, Min(inner), Max(inner))

\* strings.Split(key, ","), each part trimmed, empty ones dropped
TrailerKeys(t) ==
  LET cuts == {0, Len(t) + 1} \cup {j \in DOMAIN t : t[j] = ","}
      part(j) == LET e == Min({n \in cuts : n > j}) IN Trimmed(SubSeq(t, j + 1, e - 1))
  IN  {part(j) : j \in cuts \ {Len(t) + 1}} \ {<<>>}

\* oneMessage; chunked and trailer keep their values
OneMessage(a) ==
  [a EXCEPT !.out = Append(@, a.req), !.req = <<>>, !.header = NoHeader,
            !.state = "MethodBefore"]

AddBody(a, b) == [a EXCEPT !.req.body = @ \o b]

-----------------------------------------------------------------------------
(* The request line.                                                         *)
OnMethod(a, d, i) ==
  IF Token(a, d, i) \in Methods
  THEN [Mark(a, "PathBefore", i + 1) EXCEPT
          !.req = [url |-> <<>>, header |-> <<>>, body |-> <<>>, trailer |-> <<>>, len |-> -1]]
  ELSE Fail(a)

InMethod(a, d, i) ==
  CASE a.state = "MethodBefore" -> IF d[i] \in MethodChar THEN Mark(a, "Method", i) ELSE Fail(a)
    [] a.state = "Method" /\ d[i] = " " -> OnMethod(a, d, i)
    [] OTHER -> IF d[i] \in Alpha THEN a ELSE Fail(a)

InPath(a, d, i) ==
  CASE a.state = "PathBefore" /\ d[i] = "/" -> Mark(a, "Path", i)
    [] a.state = "PathBefore" -> IF d[i] = " " THEN a ELSE Fail(a)
    [] d[i] # " " -> a
    [] OTHER -> IF {"\r", "\n"} \cap ToSet(Token(a, d, i)) # {} THEN Fail(a)
                ELSE [Mark(a, "ProtoBefore", i + 1) EXCEPT !.req.url = Token(a, d, i)]

InProto(a, d, i) ==
  CASE a.state = "ProtoBefore" -> IF d[i] = " " THEN a ELSE Mark(a, "Proto", i)
    [] d[i] = " " -> [a EXCEPT !.proto = Kept(@, a, d, i)]
    [] d[i] = "\r" -> IF Kept(a.proto, a, d, i) = <<"V">>
                      THEN [Go(a, "ProtoLF") EXCEPT !.proto = <<>>]
                      ELSE Fail(a)
    [] OTHER -> a

-----------------------------------------------------------------------------
(* The headers.                                                              *)
TransferEncoding(a) ==
  LET raw == a.header[<<"TE">>]
      b   == [a EXCEPT !.header[<<"TE">>] = <<>>]
  IN  CASE raw = <<>> -> a
        [] Len(raw) = 1 /\ Trimmed(raw[1]) = <<"chunked">> ->
             [b EXCEPT !.header[<<"CL">>] = <<>>, !.chunked = TRUE]
        [] OTHER -> Fail(a)

ContentLength(a) ==
  LET raw == a.header[<<"CL">>]
      n   == Number(10, Trimmed(raw[1]))
  IN  CASE raw = <<>> \/ raw[1] = <<>> -> [a EXCEPT !.req.len = -1]
        [] a.chunked \/ n < 0 -> Fail(a)
        [] OTHER -> [a EXCEPT !.req.len = n]

Trailer(a) ==
  LET names == UNION {TrailerKeys(a.header[<<"TR">>][j]) : j \in DOMAIN a.header[<<"TR">>]}
  IN  CASE ~a.chunked \/ a.header[<<"TR">>] = <<>> -> a
        [] names \cap Special # {} -> Fail(a)
        [] OTHER -> [a EXCEPT !.header[<<"TR">>] = <<>>,
                              !.trailer = IF names = {} THEN @ ELSE names]

EndOfHeaders(a, i) ==
  LET t == TransferEncoding(a)
      l == IF t.err THEN t ELSE ContentLength(t)
      r == IF l.err THEN l ELSE Trailer(l)
  IN  IF r.err THEN r ELSE Mark(r, "HeaderOverLF", i + 1)

InKey(a, d, i) ==
  CASE a.state = "HeaderKeyBefore" ->
         CASE d[i] = " " /\ a.headerExists -> a
           [] d[i] = "\r" -> EndOfHeaders(a, i)
           [] d[i] \in Alpha -> [Mark(a, "HeaderKey", i) EXCEPT !.headerExists = TRUE]
           [] OTHER -> Fail(a)
    [] d[i] = " " -> [a EXCEPT !.key = Kept(@, a, d, i)]
    [] d[i] = ":" -> [Mark(a, "HeaderValueBefore", i + 1) EXCEPT !.key = Kept(@, a, d, i)]
    [] OTHER -> IF d[i] \in TokenChar THEN a ELSE Fail(a)

OnHeader(a, d, i) ==
  LET v == Kept(a.value, a, d, i)
      b == IF a.key \in Special THEN [a EXCEPT !.header[a.key] = Append(@, v)] ELSE a
  IN  [Mark(b, "HeaderValueLF", i + 1) EXCEPT
         !.req.header = Append(@, <<a.key, v>>), !.key = <<>>, !.value = <<>>]

InValue(a, d, i) ==
  CASE d[i] = "\r" -> OnHeader(a, d, i)
    [] d[i] = "\n" -> Fail(a)
    [] a.state = "HeaderValueBefore" /\ d[i] # " " -> Mark(a, "HeaderValue", i)
    [] OTHER -> a

-----------------------------------------------------------------------------
(* The body: of known length, or in chunks, then the trailer.                *)
InBody(a, d, i) ==
  IF Len(d) - a.start + 1 < a.req.len THEN [a EXCEPT !.halt = TRUE]
  ELSE LET e == a.start + a.req.len
           b == OneMessage(AddBody(a, SubSeq(d, a.start, e - 1)))
       IN  [b EXCEPT !.start = e, !.next = e]

OnChunkSize(a, d, i) ==
  LET n == Number(16, Token(a, d, i))
  IN  CASE a.chunkSize >= 0 -> a
        [] n < 0 -> Fail(a)
        [] OTHER -> [a EXCEPT !.chunkSize = n]

InChunkSize(a, d, i) ==
  CASE a.state = "BodyChunkSizeBefore" ->
         IF d[i] \in Hex THEN [Mark(a, "BodyChunkSize", i) EXCEPT !.chunkSize = -1] ELSE Fail(a)
    [] d[i] = "\r" -> LET b == OnChunkSize(a, d, i)
                      IN  IF b.err THEN b ELSE Mark(b, "BodyChunkSizeLF", i + 1)
    [] d[i] \notin Hex -> OnChunkSize(a, d, i)
    [] OTHER -> a

InChunkData(a, d, i) ==
  IF Len(d) - a.start + 1 < a.chunkSize THEN [a EXCEPT !.halt = TRUE]
  ELSE LET e == a.start + a.chunkSize
       IN  [AddBody(a, SubSeq(d, a.start, e - 1)) EXCEPT
              !.start = e, !.next = e, !.state = "BodyChunkDataCR"]

InTrailerKey(a, d, i) ==
  CASE a.state = "TrailerKeyBefore" ->
         CASE d[i] \in Alpha -> Mark(a, "TrailerKey", i)
           [] d[i] = "\r" -> IF a.trailer # {} THEN Fail(a) ELSE Mark(a, "TailLF", i + 1)
           [] OTHER -> a
    [] d[i] = " " -> [a EXCEPT !.key = Kept(@, a, d, i)]
    [] d[i] = ":" -> [Mark(a, "TrailerValueBefore", i + 1) EXCEPT !.key = Kept(@, a, d, i)]
    [] OTHER -> IF d[i] \in TokenChar THEN a ELSE Fail(a)

OnTrailerHeader(a, d, i) ==
  [Mark(a, "TrailerValueLF", i + 1) EXCEPT
     !.req.trailer = Append(@, <<a.key, Kept(a.value, a, d, i)>>), !.key = <<>>, !.value = <<>>]

InTrailerValue(a, d, i) ==
  CASE a.state = "TrailerValueBefore" /\ d[i] = "\r" -> OnTrailerHeader(a, d, i)
    [] a.state = "TrailerValueBefore" -> IF d[i] = " " THEN a ELSE Mark(a, "TrailerValue", i)
    [] d[i] = " " -> [a EXCEPT !.value = Kept(@, a, d, i)]
    [] d[i] = "\r" -> IF a.trailer = {} THEN Fail(a)
                      ELSE OnTrailerHeader([a EXCEPT !.trailer = @ \ {a.key}], d, i)
    [] OTHER -> a

-----------------------------------------------------------------------------
(* States that wait for one character of a line end.                         *)
LineEnd ==
  [ProtoLF |-> "\n", HeaderValueLF |-> "\n", HeaderOverLF |-> "\n", BodyChunkSizeLF |-> "\n",
   BodyChunkDataCR |-> "\r", BodyChunkDataLF |-> "\n", TrailerValueLF |-> "\n",
   TailCR |-> "\r", TailLF |-> "\n"]

AfterLine(a, i) ==
  CASE a.state \in {"ProtoLF", "HeaderValueLF"} -> Mark(a, "HeaderKeyBefore", i + 1)
    [] a.state = "HeaderOverLF" ->
         LET b == [a EXCEPT !.headerExists = FALSE, !.start = i + 1]
         IN  CASE a.chunked -> Go(b, "BodyChunkSizeBefore")
               [] ~a.chunked /\ a.req.len > 0 -> Go(b, "BodyContentLength")
               [] OTHER -> OneMessage(b)
    [] a.state = "BodyChunkSizeLF" ->
         Mark(a, CASE a.chunkSize > 0 -> "BodyChunkData"
                   [] a.chunkSize = 0 /\ a.trailer # {} -> "TrailerKeyBefore"
                   [] OTHER -> "TailCR", i + 1)
    [] a.state = "BodyChunkDataCR" -> Go(a, "BodyChunkDataLF")
    [] a.state = "BodyChunkDataLF" -> Go(a, "BodyChunkSizeBefore")
    [] a.state = "TrailerValueLF" -> Mark(a, "TrailerKeyBefore", i)
    [] a.state = "TailCR" -> Go(a, "TailLF")
    [] a.state = "TailLF" -> OneMessage([a EXCEPT !.start = i + 1])

InLineEnd(a, d, i) == IF d[i] = LineEnd[a.state] THEN AfterLine(a, i) ELSE Fail(a)

Byte(a, d, i) ==
  CASE a.err \/ a.halt \/ i < a.next -> a
    [] a.state \in {"MethodBefore", "Method"} -> InMethod(a, d, i)
    [] a.state \in {"PathBefore", "Path"} -> InPath(a, d, i)
    [] a.state \in {"ProtoBefore", "Proto"} -> InProto(a, d, i)
    [] a.state \in {"HeaderKeyBefore", "HeaderKey"} -> InKey(a, d, i)
    [] a.state \in {"HeaderValueBefore", "HeaderValue"} -> InValue(a, d, i)
    [] a.state = "BodyContentLength" -> InBody(a, d, i)
    [] a.state \in {"BodyChunkSizeBefore", "BodyChunkSize"} -> InChunkSize(a, d, i)
    [] a.state = "BodyChunkData" -> InChunkData(a, d, i)
    [] a.state \in {"TrailerKeyBefore", "TrailerKey"} -> InTrailerKey(a, d, i)
    [] a.state \in {"TrailerValueBefore", "TrailerValue"} -> InTrailerValue(a, d, i)
    [] OTHER -> InLineEnd(a, d, i)

-----------------------------------------------------------------------------
(* One call of Read and the life of the connection.                          *)
Offset(q) == IF q.cache = <<>> THEN 0 ELSE Len(q.cache[1])

\* Mutant: what was cached is kept though a part of it is parsed.
LeftUncut(a, d) ==
  CASE a.start > Len(d) -> [a EXCEPT !.cache = <<>>]
    [] a.cache = <<>> -> [a EXCEPT !.cache = <<SubSeq(d, a.start, Len(d))>>]
    [] OTHER -> a

\* Exit: keep what follows start
Left(a, d) ==
  CASE a.start > Len(d) -> [a EXCEPT !.cache = <<>>]
    [] a.cache = <<>> \/ a.start > 1 -> [a EXCEPT !.cache = <<SubSeq(d, a.start, Len(d))>>]
    [] OTHER -> a

ReadBytes(q, data) ==
  LET offset == Offset(q)
      d == IF offset > 0 THEN q.cache[1] \o data ELSE data
      a == [q EXCEPT !.start = 1, !.next = 1, !.halt = FALSE,
                     !.cache = IF offset > 0 THEN <<d>> ELSE @]
      b == FoldLeft(LAMBDA x, i : Byte(x, d, i), a, [j \in 1..(Len(d) - offset) |-> offset + j])
  IN  CASE offset > 0 /\ offset + Len(data) > ReadLimit -> Fail(q)
        [] b.err -> b
        [] OTHER -> [Left(b, d) EXCEPT !.start = 1, !.next = 1, !.halt = FALSE]

Init ==
  /\ stream \in Inputs
  /\ rest = stream
  /\ p = NewParser
  /\ cut = FALSE

Read ==
  /\ rest # <<>>
  /\ ~p.err
  /\ \E n \in 1..Len(rest) :
       /\ p' = ReadBytes(p, SubSeq(rest, 1, n))
       /\ rest' = SubSeq(rest, n + 1, Len(rest))
       /\ cut' = IF rest = stream THEN \A j \in 1..n : rest[j] # " " ELSE cut
  /\ UNCHANGED stream

Next == Read

Spec == Init /\ [][Next]_vars

-----------------------------------------------------------------------------
(* CutFree: what is parsed does not depend on how the bytes arrive.  When    *)
(* all of a stream has been read, or an error was found, the requests that   *)
(* were delivered and the verdict are those of a parser that gets the whole  *)
(* stream at once.  Not so for a first piece that ends inside the method     *)
(* (NewParser has an empty cache, not nil, and Left keeps nothing for it),   *)
(* nor when the limit for unfinished input is passed.                        *)
Whole == ReadBytes(NewParser, stream)

CutFree ==
  ~cut /\ Len(stream) <= ReadLimit =>
    /\ rest = <<>> \/ p.err => p.out = Whole.out /\ p.err = Whole.err
    /\ IsPrefix(p.out, Whole.out)
=============================================================================
