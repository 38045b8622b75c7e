---------------------------- MODULE Handshake ----------------------------
(***************************************************************************)
(* The handshake of a websocket (src/httpd/websocket/upgrader.go): which   *)
(* requests are upgraded, and what the scan of their headers returns.      *)
(*                                                                         *)
(* A line of a header is a sequence of lexemes: a token is one lexeme, the *)
(* others are Comma, Space (which stands for a tab as well), Semicolon,    *)
(* Equals, Quote, Backslash and Odd, any other octet no token holds.  A    *)
(* header is the sequence of its lines, empty when it is not there.        *)
(***************************************************************************)
EXTENDS Integers, Sequences, SequencesExt

CONSTANTS Requests,   \* the requests a run tries
          Fold(_)     \* the lower case of a token

VARIABLES request,    \* the request of the client
          answer      \* what became of it

vars == <<request, answer>>

Comma == ","
Space == " "
Semicolon == ";"
Equals == "="
Quote == "\""
Backslash == "\\"
Odd == "@"
Separators == {Comma, Space, Semicolon, Equals, Quote, Backslash, Odd}

IsToken(x) == x \notin Separators
At(s, x) == s # <<>> /\ Head(s) = x

(* skipSpace, and the rest after the token that nextToken finds. *)
RECURSIVE SkipSpace(_)
SkipSpace(s) == IF At(s, Space) THEN SkipSpace(Tail(s)) ELSE s

HasToken(s) == s # <<>> /\ IsToken(Head(s))
AfterToken(s) == IF HasToken(s) THEN Tail(s) ELSE s

(* nextTokenOrQuoted: what follows it.  The value of a parameter is not    *)
(* used by the caller.  A quoted string that does not end takes all.       *)
RECURSIVE AfterQuoted(_)
AfterQuoted(s) ==
  CASE s = <<>> -> <<>>
    [] At(s, Quote) -> Tail(s)
    [] At(s, Backslash) /\ Len(s) > 1 -> AfterQuoted(SubSeq(s, 3, Len(s)))
    [] OTHER -> AfterQuoted(Tail(s))

AfterValue(s) == IF At(s, Quote) THEN AfterQuoted(Tail(s)) ELSE AfterToken(s)

----------------------------------------------------------------------------
(* One pass of the loop of headerContains.  Its continue starts the next   *)
(* pass over what is left of the same line; when no token is left there,   *)
(* every pass is the same.                                                 *)
RECURSIVE Scan(_, _)
Scan(s, value) ==
  LET at == SkipSpace(s)
      rest == SkipSpace(AfterToken(at))
  IN  IF ~HasToken(at) THEN "hangs"
      ELSE IF rest # <<>> /\ ~At(rest, Comma) THEN Scan(rest, value)
      ELSE IF Fold(Head(at)) = value THEN "yes"
      ELSE IF rest = <<>> THEN Scan(rest, value)
      ELSE Scan(Tail(rest), value)

\* Mutant: the value is searched for anywhere in the header.
HeaderMentions(lines, value) ==
  IF \E n \in DOMAIN lines : \E i \in DOMAIN lines[n] : Fold(lines[n][i]) = value
    THEN "yes" ELSE "no"

(* headerContains: the scan of the first line never goes on to the next.   *)
HeaderContains(lines, value) ==
  IF lines = <<>> THEN "no" ELSE Scan(lines[1], value)

(* The parameters of an extension: what follows them, or that the rest of  *)
(* the line is passed over (continue headers).                             *)
RECURSIVE Parameters(_)
Parameters(s) ==
  LET at == SkipSpace(s)
      key == SkipSpace(Tail(at))
      named == SkipSpace(AfterToken(key))
      rest == IF At(named, Equals) THEN SkipSpace(AfterValue(SkipSpace(Tail(named))))
              ELSE named
      Ends(t) == t = <<>> \/ At(t, Comma)
  IN  IF ~At(at, Semicolon) THEN [ok |-> Ends(at), rest |-> at]
      ELSE IF ~HasToken(key) \/ ~(Ends(rest) \/ At(rest, Semicolon))
        THEN [ok |-> FALSE, rest |-> <<>>]
      ELSE Parameters(rest)

(* parseExtensions for one line: the names of the extensions. *)
RECURSIVE Extensions(_)
Extensions(s) ==
  LET at == SkipSpace(s)
      tail == Parameters(AfterToken(at))
  IN  IF ~HasToken(at) \/ ~tail.ok THEN {}
      ELSE {Head(at)} \union
             (IF tail.rest = <<>> THEN {} ELSE Extensions(Tail(tail.rest)))

(* parseExtensions, and whether permessage-deflate is among them. *)
Compresses(r) ==
  r.compression /\ \E n \in DOMAIN r.extensions :
                     "permessage-deflate" \in Extensions(r.extensions[n])

(* upgrader.Upgrade: the first check that fails answers; r.extended: the   *)
(* response has an extensions header already.  The origin is               *)
(* not looked at: NewUpGrader's CheckOrigin accepts every request.         *)
Upgrade(r) ==
  LET connection == HeaderContains(r.connection, "upgrade")
      upgrade == HeaderContains(r.upgrade, "websocket")
      version == HeaderContains(r.version, "13")
      status == CASE connection # "yes" -> IF connection = "no" THEN "400" ELSE "hangs"
                  [] upgrade # "yes" -> IF upgrade = "no" THEN "400" ELSE "hangs"
                  [] ~r.get -> "405"
                  [] version # "yes" -> IF version = "no" THEN "400" ELSE "hangs"
                  [] r.extended -> "500"
                  [] ~r.key -> "400"
                  [] ~r.written -> "closed"
                  [] OTHER -> "101"
  IN  [status |-> status, compress |-> status = "101" /\ Compresses(r)]

NoAnswer == [status |-> "none", compress |-> FALSE]

Init == request \in Requests /\ answer = NoAnswer

Handle == answer = NoAnswer /\ answer' = Upgrade(request) /\ UNCHANGED request

Next == Handle

Spec == Init /\ [][Next]_vars

----------------------------------------------------------------------------
(* The items of a line: what stands between its commas, without spaces. *)
Items(line) ==
  LET ends == {0, Len(line) + 1} \union {n \in DOMAIN line : line[n] = Comma}
  IN  {SelectSeq(SubSeq(line, a + 1, b - 1), LAMBDA x : x # Space) :
         <<a, b>> \in {e \in ends \X ends :
                         e[1] < e[2] /\ \A n \in ends : n <= e[1] \/ n >= e[2]}}

Names(line, value) == \E i \in Items(line) : Len(i) = 1 /\ Fold(i[1]) = value
Holds(line, value) == \E n \in DOMAIN line : Fold(line[n]) = value

(***************************************************************************)
(* Only a websocket handshake is upgraded, one whose headers each list     *)
(* their token alone between commas is, and compression is agreed on only  *)
(* when an item of the extensions begins with its name.                    *)
(* The scan of a header that does not list its token never ends, and one   *)
(* that meets an odd octet first does not end either: headerContains lost  *)
(* the label of its continue.                                              *)
(***************************************************************************)
HandshakeRight ==
  LET r == request
      fields == {<<r.connection, "upgrade">>, <<r.upgrade, "websocket">>, <<r.version, "13">>}
      Clean(line) == \A i \in Items(line) : Len(i) = 1 /\ IsToken(i[1])
      listed == \A f \in fields : f[1] # <<>> /\ Clean(f[1][1]) /\ Names(f[1][1], f[2])
  IN  answer # NoAnswer =>
        /\ answer.status = "101" =>
             r.get /\ r.key /\ ~r.extended /\ \A f \in fields : f[1] # <<>> /\ Holds(f[1][1], f[2])
        /\ listed /\ r.get /\ r.key /\ ~r.extended /\ r.written => answer.status = "101"
        /\ answer.status = "hangs" =>
             \E f \in fields : f[1] # <<>> /\ ~(Clean(f[1][1]) /\ Names(f[1][1], f[2]))
        /\ answer.compress =>
             \E n \in DOMAIN r.extensions : \E i \in Items(r.extensions[n]) :
               i # <<>> /\ i[1] = "permessage-deflate"
        /\ answer.status = "101" /\ r.compression
             /\ (\E n \in DOMAIN r.extensions : Clean(r.extensions[n])
                   /\ Names(r.extensions[n], "permessage-deflate"))
           => answer.compress
=============================================================================
