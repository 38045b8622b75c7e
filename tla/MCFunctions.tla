---------------------------- MODULE MCFunctions ----------------------------
(***************************************************************************)
(* The sequential parts of the library: the ring of a stash, the router,   *)
(* the coder, the scan of a handshake and the path search.  They share     *)
(* nothing; the initial state chooses the one a behaviour is about, and    *)
(* the others stay as they are.                                            *)
(***************************************************************************)
EXTENDS RingQueue, Integers, FiniteSets, TLC

CONSTANTS None, MaxRoutes, Base, Marks, MaxSearches

VARIABLES part,
          tree, routes, panicked,                   \* Router
          walkable, mark, known, searches, last,    \* AStar
          request, answer,                          \* Handshake
          message, decoded                          \* Pb

routerVars == <<tree, routes, panicked>>
astarVars == <<walkable, mark, known, searches, last>>
handshakeVars == <<request, answer>>
pbVars == <<message, decoded>>
allVars == <<part, vars, routerVars, astarVars, handshakeVars, pbVars>>

----------------------------------------------------------------------------
(* Router: one static segment, parameters of two names, a catch-all. *)
Literal(x) == <<x>>
X == <<":", "x">>
Y == <<":", "y">>
Rest == <<"*", "s">>
A == Literal("a")
B == Literal("b")
Routes == {<<>>, <<A>>, <<A, B>>, <<X>>, <<X, B>>, <<X, Y>>, <<Y>>, <<A, Rest>>,
           <<B, Rest>>, <<Rest>>, <<A, X>>}
Paths == UNION {[1 .. n -> {"a", "b"}] : n \in 0 .. 3}
           \union {<<"a", "">>, <<"b", "a", "">>, <<"">>, <<"", "a">>}

(* AStar: a room with walls, seen in seven ways. *)
Width == 7
Height == 6
Room == (1 .. 5) \X (1 .. 4)
Rough == {<<2, 1>>, <<3, 4>>}
Maps == {Room \ walls : walls \in
          {{}, {<<3, y>> : y \in 1 .. 4}, {<<3, y>> : y \in 1 .. 3},
           {<<2, 2>>, <<3, 2>>, <<4, 2>>, <<4, 3>>, <<2, 3>>},
           {<<2, y>> : y \in 1 .. 3} \union {<<4, y>> : y \in 2 .. 4},
           {<<2, 2>>, <<3, 3>>, <<4, 4>>, <<1, 3>>},
           {c \in Room : (c[1] + c[2]) % 2 = 0}}}
Journeys == {<<a, b>> : a \in {<<1, 1>>, <<2, 2>>, <<0, 3>>}, b \in {<<5, 4>>, <<5, 2>>}}
            \union {<<<<5, 4>>, <<1, 1>>>>, <<<<3, 3>>, <<3, 1>>>>, <<<<2, 2>>, <<2, 2>>>>}

(* Handshake: what each header may hold. *)
Fold(t) == CASE t = "Upgrade" -> "upgrade" [] t = "WebSocket" -> "websocket" [] OTHER -> t
Requests ==
  LET connections == {<<>>, <<<<"upgrade">>>>, <<<<"close">>>>, <<<<"close", ",", " ", "Upgrade">>>>,
                      <<<<"close", " ", "upgrade">>>>, <<<<"@", "upgrade">>>>,
                      <<<<" ", "upgrade", ",", "close">>>>, <<<<"close">>, <<"upgrade">>>>}
      upgrades == {<<>>, <<<<"WebSocket">>>>, <<<<"h2c", ",", "websocket">>>>, <<<<"h2c", ",">>>>}
      deflate == "permessage-deflate"
      offers == {<<>>, <<<<deflate>>>>, <<<<"x", ",", deflate>>>>,
                 <<<<"x", ";", "k", "=", "\"", ",", "\"", ",", deflate>>>>,
                 <<<<"x", ";", ",", deflate>>, <<deflate, ";", " ", "k", "=", "v">>>>,
                 <<<<"x", ";", "k", "=", "\"", "\\", "\"", ",", deflate, "\"">>>>,
                 <<<<"x", "@", ",", deflate>>>>, <<<<deflate, ";", "k", "=", "\"", "v">>>>}
  IN  [connection : connections, upgrade : upgrades, version : {<<>>, <<<<"13">>>>, <<<<"8">>>>},
       extensions : offers, get : BOOLEAN, key : BOOLEAN, compression : BOOLEAN,
       extended : BOOLEAN, written : BOOLEAN]

(* Pb: the processes of this node, messages of every type of the coder with *)
(* values around the limits of their width.                                 *)
Self == <<1>>
Alive == {5}
IntN(w) == [k |-> "int", w |-> w]
Bool == [k |-> "bool"]
Uint16 == [k |-> "uint16"]
Float == [k |-> "float", w |-> 4]
Str == [k |-> "str"]
Pid == [k |-> "pid"]
Other == [k |-> "other"]
Slice(t) == [k |-> "slice", of |-> t]
Map(key, t) == [k |-> "map", key |-> key, of |-> t]
Struct(ts) == [k |-> "struct", fields |-> ts]
ByValue(ts) == [k |-> "value", fields |-> ts]

Half == Base \div 2
Texts == {<<>>, <<0>>, <<Base - 1, 1>>, [n \in 1 .. Base ^ 2 - 1 |-> n % Base],
          [n \in 1 .. Base ^ 2 |-> 1]}
Few == {<<>>, <<1>>, <<-Half, Half - 1, 0>>, [n \in 1 .. Base ^ 2 |-> 0]}
Pairs == {<<1, <<>>>>, <<-1, <<0, 1>>>>}
Pids == {<<[id |-> i, node |-> n]>> : i \in {5, 7}, n \in {Self, <<2>>}}

(* Fields, with the values they take. *)
Fields ==
  {<<Bool, b>> : b \in BOOLEAN}
  \union {<<IntN(1), n>> : n \in {-Half, -1, 0, Half - 1}}
  \union {<<IntN(2), n>> : n \in {-Half * Base, -1, 0, Base, Half * Base - 1}}
  \union {<<Float, n>> : n \in {0, Base ^ 4 - 1, Base}}
  \union {<<Uint16, n>> : n \in {0, 1, Base + 1, Base ^ 2 - 1}}
  \union {<<Str, s>> : s \in Texts}
  \union {<<Slice(IntN(1)), s>> : s \in Few}
  \union {<<Slice(Slice(IntN(1))), <<s, <<>>>>>> : s \in Few}
  \union {<<Slice(Float), s>> : s \in {<<>>, <<1>>}}
  \union {<<Slice(Other), s>> : s \in {<<>>, <<1>>}}
  \union {<<Slice(Pid), <<>>>>, <<Other, 1>>, <<ByValue(<<Bool>>), <<TRUE>>>>}
  \union {<<Slice(Struct(<<IntN(1), Str>>)), s>> :
            s \in {<<>>} \union UNION {{<<<<p>>>>, <<<<>>, <<p>>>>} : p \in Pairs}}
  \union {<<Struct(<<IntN(1), Str>>), s>> : s \in {<<>>} \union {<<p>> : p \in Pairs}}
  \union {<<Struct(<<>>), s>> : s \in {<<>>, <<<<>>>>}}
  \union {<<Map(IntN(1), Str), m>> : m \in {<<>>, 0 :> <<1>> @@ 1 :> <<>>, -1 :> <<1>>}}
  \union {<<Map(ByValue(<<IntN(1)>>), Bool), m>> : m \in {<<>>, <<1>> :> TRUE @@ <<-1>> :> FALSE}}
  \union {<<Map(IntN(1), Struct(<<IntN(2)>>)), m>> :
            m \in {<<>>, 1 :> <<<<0>>>>, 1 :> <<<<Base>>>>, 1 :> <<>>}}
  \union {<<Map(Str, Map(IntN(1), Bool)), m>> : m \in {<<0>> :> <<>>, <<0>> :> <<TRUE>>}}
  \union {<<Pid, p>> : p \in Pids \union {<<>>}}

(* A message: a field followed by another, its number and the size of its head. *)
Messages == {[type |-> Struct(<<f[1], g[1]>>), id |-> i, v |-> <<f[2], g[2]>>, head |-> h] :
              f \in Fields, g \in {<<IntN(1), -1>>, <<Str, <<1>>>>}, i \in {1, Base}, h \in {0, 4}}

----------------------------------------------------------------------------
R == INSTANCE Router
S == INSTANCE AStar WITH cache <- known
H == INSTANCE Handshake
P == INSTANCE Pb

NoMessage == [id |-> 0]

(* A program defines the message, encodes it and decodes what it sent. *)
Carry ==
  /\ message # NoMessage /\ decoded = NoMessage
  /\ LET wire == P!EncodeMessage(message.type, message.id, message.v, message.head)
     IN  decoded' =
           IF ~P!InnerOk(message.type) THEN [refused |-> TRUE]
           ELSE IF \E n \in DOMAIN wire : wire[n] = -1 THEN [refused |-> FALSE, ok |-> FALSE]
           ELSE [refused |-> FALSE] @@
                  P!DecodeMessage([i \in {message.id} |-> message.type],
                                  SubSeq(wire, message.head + 1, Len(wire)))
  /\ UNCHANGED message

FunctionsInit ==
  /\ part \in {"ring", "router", "astar", "handshake", "pb"}
  /\ Init
  /\ IF part = "router" THEN R!Init ELSE tree = {} /\ routes = <<>> /\ panicked = FALSE
  /\ IF part = "astar" THEN S!Init
     ELSE walkable = {} /\ mark = 0 /\ known = <<>> /\ searches = 0 /\ last = {}
  /\ IF part = "handshake" THEN H!Init ELSE request = {} /\ answer = {}
  /\ message \in IF part = "pb" THEN Messages ELSE {NoMessage}
  /\ decoded = NoMessage

FunctionsNext ==
  \/ /\ part = "ring" /\ Next
     /\ UNCHANGED <<part, routerVars, astarVars, handshakeVars, pbVars>>
  \/ /\ part = "router" /\ R!Next
     /\ UNCHANGED <<part, vars, astarVars, handshakeVars, pbVars>>
  \/ /\ part = "astar" /\ S!Next
     /\ UNCHANGED <<part, vars, routerVars, handshakeVars, pbVars>>
  \/ /\ part = "handshake" /\ H!Next
     /\ UNCHANGED <<part, vars, routerVars, astarVars, pbVars>>
  \/ /\ part = "pb" /\ Carry
     /\ UNCHANGED <<part, vars, routerVars, astarVars, handshakeVars>>

FunctionsSpec == FunctionsInit /\ [][FunctionsNext]_allVars

----------------------------------------------------------------------------
(* The values the coder does not carry: a uint16 whose bytes differ, what is *)
(* too long for a 2-byte size, a nil struct in a slice, a struct that writes *)
(* nothing, floats inside a slice or a map, structs and maps inside a map,   *)
(* kinds that are refused in a field only, and a Pid that died.  A struct    *)
(* that is not behind a pointer is refused, but for a key of a map, and a    *)
(* Pid is refused inside a slice.                                            *)
RECURSIVE Carried(_, _)
Carried(t, v) ==
  CASE t.k = "uint16" -> v % (Base + 1) = 0
    [] t.k = "str" -> Len(v) < Base ^ 2
    [] t.k = "slice" ->
         /\ t.of.k # "pid" /\ (v # <<>> => t.of.k # "float")
         /\ \A n \in DOMAIN v : t.of.k = "struct" => v[n] # <<>>
         /\ \A n \in DOMAIN v : Carried(t.of, v[n])
         /\ Len(P!Encode(t, v)) < Base ^ 2 + 2
    [] t.k = "map" -> /\ v # <<>> => t.of.k \notin {"float", "struct", "map"}
                      /\ \A key \in DOMAIN v : Carried(t.key, key) /\ Carried(t.of, v[key])
                      /\ Len(P!Encode(t, v)) < Base ^ 2 + 2
    [] t.k = "struct" -> v # <<>> =>
         t.fields # <<>> /\ \A n \in DOMAIN t.fields :
                              t.fields[n].k # "value" /\ Carried(t.fields[n], v[1][n])
    [] t.k = "value" -> \A n \in DOMAIN t.fields : Carried(t.fields[n], v[n])
    [] t.k = "pid" -> v # <<>> => v[1].node # Self \/ v[1].id \in Alive
    [] t.k = "other" -> FALSE
    [] OTHER -> TRUE

(***************************************************************************)
(* A message of a type that Parse accepts comes back as it was sent, with  *)
(* its number, and what follows a field is found behind it.                *)
(***************************************************************************)
CoderCarries ==
  decoded # NoMessage /\ Carried(message.type, <<message.v>>) =>
    decoded = [refused |-> FALSE, id |-> message.id, v |-> message.v, ok |-> TRUE]

(* See Router, AStar and Handshake, and RingQueue for RefinesFifo. *)
RoutesRight == part = "router" => R!RoutesRight /\ R!GroupsIntercept
SearchRight == part = "astar" => S!SearchRight
HandshakeRight == part = "handshake" => H!HandshakeRight
=============================================================================
