--------------------------- MODULE NodeLinkProofs ---------------------------
(***************************************************************************)
(* Proofs about NodeLink, for every number of links, calls and callers and *)
(* all bounds of a behaviour: the node table is right (TableRight), casts  *)
(* arrive in order and once (CastsInOrder), and a call that waits is known *)
(* to its link (CallsKnown).                                               *)
(***************************************************************************)
EXTENDS NodeLink, FiniteSetTheorems, TLAPS

----------------------------------------------------------------------------
(* What the variables hold. *)
Tags == {"connect", "succ", "error", "tick", "ping", "pong", "cast", "call", "result", "nilresult",
         "bytes", "reply", "nilreply"}
Frames == [t : Tags, k : Nat]
Queues == [Links -> [Nodes -> Seq(Frames)]]

LinkTypes ==
  /\ bound \in Bounds /\ at \in [Callers -> Nodes]
  /\ tcp \in [Links -> {"unused", "open", "silent", "broken"}]
  /\ client \in [Links -> [Nodes -> {"none", "accepted", "dialing", "naming", "entering", "up", "down"}]]

TableTypes ==
  /\ entry \in [Nodes -> Ids \union {None}] /\ made \in [Nodes -> SUBSET Ids]
  /\ idOf \in [Links -> [Nodes -> Ids \union {None}]]
  /\ net \in [Nodes -> [Ids -> Links \union {None}]]
  /\ dropped \in [Nodes -> SUBSET Ids]

QueueTypes == q \in Queues /\ wire \in Queues

TrafficTypes ==
  /\ chans \in [Links -> SUBSET Nat]
  /\ casts \in Seq(Links \union {None}) /\ inbox \in Seq(Nat)
  /\ call \in [Calls -> {"new", "waiting", "ok", "nil", "false"}]

Types == LinkTypes /\ TableTypes /\ QueueTypes /\ TrafficTypes

----------------------------------------------------------------------------
(* The links that were dialed are the first ones: the next one is unused.  *)
(* An unused link has no client, and only a client that is up has mail.    *)
Numbered ==
  /\ \E m \in 0 .. MaxLinks : \A l \in Links : Unused(l) <=> l > m
  /\ \A l \in Links, n \in Nodes :
       /\ Unused(l) => client[l][n] = "none"
       /\ ~Up(l, n) => q[l][n] = <<>>

(* The id in nodeMap is one that was stored.  A client that has left       *)
(* GetNode keeps an id that was stored, one that is in it may have one.    *)
IdsRight ==
  \A n \in Nodes :
    /\ (entry[n] = None /\ made[n] = {}) \/ entry[n] \in made[n]
    /\ \A l \in Links : /\ client[l][n] = "naming" => idOf[l][n] \in Ids
                        /\ client[l][n] \in {"entering", "up"} => idOf[l][n] \in made[n]

----------------------------------------------------------------------------
(* The casts of a sequence of frames, and that they are in order.          *)
Carried(s) == {s[i].k : i \in {j \in DOMAIN s : s[j].t = "cast"}}
Rising(s) ==
  \A i, j \in DOMAIN s : i < j /\ s[i].t = "cast" /\ s[j].t = "cast" => s[i].k < s[j].k

(* Casts that wait in the mailbox of a client of First, those on the wire  *)
(* to Second, and those that have arrived, of one link: those of each kind *)
(* were made after those of the next kind.                                 *)
Mailed(l) == Carried(q[l][First])
OnWire(l) == Carried(wire[l][Second])
Arrived(l) == {inbox[i] : i \in {j \in DOMAIN inbox : casts[inbox[j]] = l}}

CastsRight ==
  /\ \A l \in Links :
       /\ Carried(q[l][Second]) = {} /\ Carried(wire[l][First]) = {}
       /\ Rising(q[l][First]) /\ Rising(wire[l][Second])
       /\ \A c \in Mailed(l) \union OnWire(l) : c \in DOMAIN casts /\ casts[c] = l
       /\ \A c \in OnWire(l), d \in Mailed(l) : c < d
       /\ \A c \in Arrived(l), d \in OnWire(l) \union Mailed(l) : c < d
  /\ \A i \in DOMAIN inbox : inbox[i] \in DOMAIN casts /\ casts[inbox[i]] \in Links

----------------------------------------------------------------------------
(* A call is with one link at most: none while it is new.  The clients of  *)
(* Second have no calls in their mailboxes.  Only a client that is up has  *)
(* channels.                                                               *)
Known(k, l) == k \in chans[l] \/ Has(q[l][First], Frame("call", k))

CallsRight ==
  /\ \A l \in Links, k \in Nat : ~Has(q[l][Second], Frame("call", k))
  /\ \A l \in Links : ~Up(l, First) => chans[l] = {}
  /\ \A k \in Calls :
       /\ call[k] = "new" => \A l \in Links : ~Known(k, l)
       /\ \A l, m \in Links : Known(k, l) /\ Known(k, m) => l = m
       /\ call[k] = "waiting" => (\E l \in Links : Known(k, l)) \/ dropped[First] # {}

----------------------------------------------------------------------------
(* Lemmas about sequences of frames.                                       *)
Fewer(t, s) == Carried(t) \subseteq Carried(s) /\ (Rising(s) => Rising(t))

LEMMA FrameType == \A t \in Tags, k \in Nat : Frame(t, k) \in Frames /\ Frame(t, k).t = t /\ Frame(t, k).k = k
BY DEF Frame, Frames

LEMMA CallFrame == \A m \in Frames, k \in Nat : m = Frame("call", k) <=> m.t = "call" /\ m.k = k
BY DEF Frame, Frames

(* What a mailbox or a wire carries when a frame is added (Cast, Send).    *)
LEMMA Added ==
  ASSUME NEW s \in Seq(Frames), NEW m \in Frames
  PROVE  /\ Append(s, m) \in Seq(Frames)
         /\ \A x : Has(Append(s, m), x) <=> Has(s, x) \/ x = m
         /\ m.t # "cast" => Carried(Append(s, m)) = Carried(s) /\ Fewer(Append(s, m), s)
         /\ m.t = "cast" => Carried(Append(s, m)) = Carried(s) \union {m.k}
         /\ Rising(s) /\ (\A c \in Carried(s) : c < m.k) => Rising(Append(s, m))
<1> PICK t : t = Append(s, m) OBVIOUS
<1>1. t \in Seq(Frames) /\ Len(t) = Len(s) + 1 /\ t[Len(s) + 1] = m /\ Len(s) \in Nat
  OBVIOUS
<1>2. \A i \in 1 .. Len(s) : t[i] = s[i]
  OBVIOUS
<1>3. DOMAIN s = 1 .. Len(s) /\ DOMAIN t = 1 .. (Len(s) + 1)
  BY <1>1
<1>4. \A i \in DOMAIN t : (i \in DOMAIN s /\ t[i] = s[i]) \/ (i = Len(s) + 1 /\ t[i] = m)
  BY <1>1, <1>2, <1>3
<1>5. \A i \in DOMAIN s : i \in DOMAIN t /\ t[i] = s[i] /\ i < Len(s) + 1
  BY <1>1, <1>2, <1>3
<1>6. Len(s) + 1 \in DOMAIN t
  BY <1>1, <1>3
<1>7. ASSUME NEW x PROVE Has(t, x) <=> Has(s, x) \/ x = m
  BY <1>1, <1>4, <1>5, <1>6, Zenon DEF Has
<1>8. ASSUME m.t # "cast" PROVE Carried(t) = Carried(s) /\ (Rising(s) => Rising(t))
  <2>1. Carried(t) = Carried(s)
    BY <1>4, <1>5, <1>8 DEF Carried
  <2>2. Rising(s) => Rising(t)
    BY <1>4, <1>8 DEF Rising
  <2> QED
    BY <2>1, <2>2
<1>9. ASSUME m.t = "cast" PROVE Carried(t) = Carried(s) \union {m.k}
  <2>1. ASSUME NEW c \in Carried(t) PROVE c \in Carried(s) \union {m.k}
    BY <1>4, <2>1 DEF Carried
  <2>2. ASSUME NEW c \in Carried(s) PROVE c \in Carried(t)
    BY <1>5, <2>2 DEF Carried
  <2>3. m.k \in Carried(t)
    BY <1>1, <1>6, <1>9 DEF Carried
  <2> QED
    BY <2>1, <2>2, <2>3
<1>10. ASSUME Rising(s), \A c \in Carried(s) : c < m.k PROVE Rising(t)
  <2> SUFFICES ASSUME NEW i \in DOMAIN t, NEW j \in DOMAIN t, i < j, t[i].t = "cast", t[j].t = "cast"
               PROVE  t[i].k < t[j].k
    BY DEF Rising
  <2>1. i \in DOMAIN s /\ t[i] = s[i]
    BY <1>1, <1>3, <1>4
  <2>2. CASE j \in DOMAIN s
    BY <2>1, <2>2, <1>5, <1>10 DEF Rising
  <2>3. CASE j \notin DOMAIN s
    BY <2>1, <2>3, <1>4, <1>10 DEF Carried
  <2> QED
    BY <2>2, <2>3
<1> QED
  BY <1>1, <1>7, <1>8, <1>9, <1>10 DEF Fewer

(* What it carries when the first frame is taken.                          *)
LEMMA Taken ==
  ASSUME NEW s \in Seq(Frames), s # <<>>
  PROVE  /\ Tail(s) \in Seq(Frames) /\ s[1] \in Frames
         /\ \A x : Has(Tail(s), x) => Has(s, x)
         /\ \A x : Has(s, x) => x = s[1] \/ Has(Tail(s), x)
         /\ Fewer(Tail(s), s) /\ Has(s, s[1])
         /\ s[1].t = "cast" => s[1].k \in Carried(s)
         /\ s[1].t = "cast" /\ Rising(s) => \A c \in Carried(Tail(s)) : s[1].k < c
<1> PICK t : t = Tail(s) OBVIOUS
<1>1. t \in Seq(Frames) /\ Len(t) = Len(s) - 1 /\ Len(s) \in Nat \ {0} /\ s[1] \in Frames
  OBVIOUS
<1>2. \A i \in 1 .. (Len(s) - 1) : t[i] = s[i + 1]
  OBVIOUS
<1>3. DOMAIN s = 1 .. Len(s) /\ DOMAIN t = 1 .. (Len(s) - 1)
  BY <1>1
<1>4. \A i \in DOMAIN t : i + 1 \in DOMAIN s /\ t[i] = s[i + 1] /\ 1 < i + 1 /\ i \in Nat
  BY <1>1, <1>2, <1>3
<1>5. \A i \in DOMAIN s : i = 1 \/ (i - 1 \in DOMAIN t /\ t[i - 1] = s[i])
  BY <1>1, <1>2, <1>3
<1>6. 1 \in DOMAIN s
  BY <1>1, <1>3
<1>7. ASSUME NEW x PROVE Has(t, x) => Has(s, x)
  BY <1>4, Zenon DEF Has
<1>8. ASSUME NEW x PROVE Has(s, x) => x = s[1] \/ Has(t, x)
  BY <1>5, Zenon DEF Has
<1>9. Carried(t) \subseteq Carried(s)
  BY <1>4 DEF Carried
<1>10. Rising(s) => Rising(t)
  BY <1>4 DEF Rising
<1>11. Has(s, s[1])
  BY <1>6 DEF Has
<1>12. s[1].t = "cast" => s[1].k \in Carried(s)
  BY <1>6 DEF Carried
<1>13. s[1].t = "cast" /\ Rising(s) => \A c \in Carried(t) : s[1].k < c
  BY <1>4, <1>6 DEF Carried, Rising
<1> QED
  BY <1>1, <1>7, <1>8, <1>9, <1>10, <1>11, <1>12, <1>13 DEF Fewer

(* What it carries when the last frame is lost.                            *)
LEMMA Lost ==
  ASSUME NEW s \in Seq(Frames), s # <<>>
  PROVE  Front(s) \in Seq(Frames) /\ Fewer(Front(s), s)
<1> PICK t : t = Front(s) OBVIOUS
<1>1. Len(s) \in Nat \ {0} /\ Front(s) = SubSeq(s, 1, Len(s) - 1)
  BY DEF Front
<1>2. t \in Seq(Frames) /\ Len(t) = Len(s) - 1
  <2> PICK n : n = Len(s) - 1 OBVIOUS
  <2>1. n \in Nat /\ n <= Len(s)
    BY <1>1
  <2>2. \A i \in 1 .. n : s[i] \in Frames
    BY <2>1
  <2>3. SubSeq(s, 1, n) \in Seq(Frames)
    BY <2>1, <2>2
  <2>4. Len(SubSeq(s, 1, n)) = n
    BY <2>1
  <2> QED
    BY <1>1, <2>3, <2>4
<1>3. \A i \in 1 .. (Len(s) - 1) : t[i] = s[i]
  BY <1>1
<1>4. \A i \in DOMAIN t : i \in DOMAIN s /\ t[i] = s[i]
  BY <1>1, <1>2, <1>3
<1>5. Carried(t) \subseteq Carried(s)
  BY <1>4 DEF Carried
<1>6. Rising(s) => Rising(t)
  BY <1>4 DEF Rising
<1> QED
  BY <1>2, <1>5, <1>6 DEF Fewer

LEMMA FewerSame == \A s : Fewer(s, s)
BY DEF Fewer

LEMMA FewerNone == \A s : Fewer(<<>>, s) /\ Carried(<<>>) = {} /\ \A x : ~Has(<<>>, x)
BY DEF Fewer, Carried, Rising, Has

LEMMA FewerOne ==
  ASSUME NEW s, NEW m \in Frames, m.t # "cast"
  PROVE  <<m>> \in Seq(Frames) /\ Fewer(<<m>>, s)
BY DEF Fewer, Carried, Rising

----------------------------------------------------------------------------
(* Types. *)
LEMMA NodesAre == First \in Nodes /\ Second \in Nodes /\ \A n \in Nodes : Other(n) \in Nodes /\ Other(n) # n
BY BoundsAssumption DEF Nodes, Other

(* SendBufHead: only the wire from n of an open connection gets the frame. *)
LEMMA SentMeans ==
  ASSUME Types, NEW l \in Links, NEW n \in Nodes, NEW m \in Frames
  PROVE  /\ Sent(l, n, m) \in Queues
         /\ \A j \in Links, x \in Nodes :
              Sent(l, n, m)[j][x] = IF tcp[l] = "open" /\ j = l /\ x = Other(n)
                                      THEN Append(wire[j][x], m) ELSE wire[j][x]
<1>1. wire \in Queues /\ wire[l][Other(n)] \in Seq(Frames) /\ Other(n) \in Nodes
  BY NodesAre DEF Types, QueueTypes, Queues
<1>2. Append(wire[l][Other(n)], m) \in Seq(Frames)
  BY <1>1, Added
<1>3. CASE tcp[l] = "open"
  <2>1. Sent(l, n, m) = [wire EXCEPT ![l][Other(n)] = Append(wire[l][Other(n)], m)]
    BY <1>1, <1>3 DEF Sent, Queues
  <2> PICK o : o = Other(n)
    OBVIOUS
  <2> PICK v : v = Append(wire[l][Other(n)], m)
    OBVIOUS
  <2> PICK g : g = Sent(l, n, m)
    OBVIOUS
  <2>2. wire \in Queues /\ o \in Nodes /\ v \in Seq(Frames) /\ g = [wire EXCEPT ![l][o] = v]
    BY <2>1, <1>1, <1>2
  <2>3. g \in Queues /\ g[l][o] = v /\ \A j \in Links, x \in Nodes : j # l \/ x # o => g[j][x] = wire[j][x]
    BY <2>2 DEF Queues
  <2> QED
    BY <2>3, <1>3
<1>4. CASE tcp[l] # "open"
  BY <1>1, <1>4 DEF Sent
<1> QED
  BY <1>3, <1>4

LEMMA TypesInit == Init => Types
<1> SUFFICES ASSUME Init PROVE Types
  OBVIOUS
<1>1. LinkTypes
  BY DEF Init, LinkTypes
<1>2. TableTypes
  BY DEF Init, TableTypes
<1>3. QueueTypes
  BY DEF Init, QueueTypes, Queues
<1>4. chans \in [Links -> SUBSET Nat]
  BY DEF Init
<1>5. casts \in Seq(Links \union {None}) /\ inbox \in Seq(Nat)
  BY DEF Init
<1>6. call \in [Calls -> {"new", "waiting", "ok", "nil", "false"}]
  BY DEF Init
<1> QED
  BY <1>1, <1>2, <1>3, <1>4, <1>5, <1>6 DEF Types, TrafficTypes

LEMMA EndsTypes ==
  ASSUME Types, IdsRight, NEW l \in Links, NEW n \in Nodes, Ends(l, n)
  PROVE  /\ client' \in [Links -> [Nodes -> {"none", "accepted", "dialing", "naming", "entering", "up", "down"}]]
         /\ tcp' \in [Links -> {"unused", "open", "silent", "broken"}]
         /\ TableTypes' /\ q' \in Queues /\ chans' \in [Links -> SUBSET Nat]
<1>1. client' \in [Links -> [Nodes -> {"none", "accepted", "dialing", "naming", "entering", "up", "down"}]]
  BY DEF Types, LinkTypes, Ends
<1>2. tcp' \in [Links -> {"unused", "open", "silent", "broken"}]
  BY DEF Types, LinkTypes, Ends
<1>3. TableTypes'
  <2>1. net' \in [Nodes -> [Ids -> Links \union {None}]]
    BY DEF Types, TableTypes, Ends
  <2>2. dropped' \in [Nodes -> SUBSET Ids]
    <3>1. CASE Up(l, n)
      BY <3>1 DEF Types, TableTypes, Ends, IdsRight, Up
    <3>2. CASE ~Up(l, n)
      BY <3>2 DEF Types, TableTypes, Ends
    <3> QED
      BY <3>1, <3>2
  <2> QED
    BY <2>1, <2>2 DEF Types, TableTypes, Ends, ids
<1>4. q' \in Queues
  BY DEF Types, QueueTypes, Queues, Ends
<1>5. chans' \in [Links -> SUBSET Nat]
  BY DEF Types, TrafficTypes, Ends
<1> QED
  BY <1>1, <1>2, <1>3, <1>4, <1>5

(* A client takes the next message of its mailbox.                         *)
LEMMA HandlesMeans ==
  ASSUME Types, NEW l \in Links, NEW n \in Nodes, Handles(l, n)
  PROVE  /\ Up(l, n) /\ q[l][n] \in Seq(Frames) /\ q[l][n] # <<>> /\ q[l][n][1] \in Frames
         /\ q' \in Queues /\ q'[l][n] = Tail(q[l][n])
         /\ \A j \in Links, x \in Nodes : j # l \/ x # n => q'[j][x] = q[j][x]
<1> PICK v : v = Tail(q[l][n])
  OBVIOUS
<1>1. q \in Queues /\ q[l][n] \in Seq(Frames) /\ q[l][n] # <<>> /\ Up(l, n)
  BY DEF Types, QueueTypes, Queues, Handles
<1>2. v \in Seq(Frames) /\ q[l][n][1] \in Frames
  BY <1>1, Taken
<1>3. q' = [q EXCEPT ![l][n] = v]
  BY <1>1 DEF Handles, Queues
<1>4. /\ q' \in Queues /\ q'[l][n] = v
      /\ \A j \in Links, x \in Nodes : j # l \/ x # n => q'[j][x] = q[j][x]
  BY <1>1, <1>2, <1>3 DEF Queues
<1> QED
  BY <1>1, <1>2, <1>4

(* A frame is put into the mailbox of a client.                            *)
LEMMA MailMeans ==
  ASSUME Types, NEW l \in Links, NEW n \in Nodes, NEW m \in Frames, q' = [q EXCEPT ![l][n] = Append(@, m)]
  PROVE  /\ q[l][n] \in Seq(Frames) /\ q' \in Queues /\ q'[l][n] = Append(q[l][n], m)
         /\ \A j \in Links, x \in Nodes : j # l \/ x # n => q'[j][x] = q[j][x]
<1> PICK v : v = Append(q[l][n], m)
  OBVIOUS
<1>1. q \in Queues /\ q[l][n] \in Seq(Frames)
  BY DEF Types, QueueTypes, Queues
<1>2. v \in Seq(Frames)
  BY <1>1, Added
<1>3. q' = [q EXCEPT ![l][n] = v]
  BY <1>1 DEF Queues
<1>4. /\ q' \in Queues /\ q'[l][n] = v
      /\ \A j \in Links, x \in Nodes : j # l \/ x # n => q'[j][x] = q[j][x]
  BY <1>1, <1>2, <1>3 DEF Queues
<1> QED
  BY <1>1, <1>2, <1>4

(* The same, of a mail that is named. *)
Mails(l, n, m) == q' = [q EXCEPT ![l][n] = Append(@, m)]

LEMMA MailsMeans ==
  ASSUME Types, NEW l \in Links, NEW n \in Nodes, NEW m \in Frames, Mails(l, n, m)
  PROVE  /\ q[l][n] \in Seq(Frames) /\ q' \in Queues /\ q'[l][n] = Append(q[l][n], m)
         /\ \A j \in Links, x \in Nodes : j # l \/ x # n => q'[j][x] = q[j][x]
<1>1. q' = [q EXCEPT ![l][n] = Append(@, m)]
  BY DEF Mails
<1> QED
  BY <1>1, MailMeans, Zenon

(* A frame is read from the wire.                                          *)
LEMMA ReadMeans ==
  ASSUME Types, NEW l \in Links, NEW n \in Nodes, wire[l][n] # <<>>, wire' = [wire EXCEPT ![l][n] = Tail(@)]
  PROVE  /\ wire[l][n] \in Seq(Frames) /\ wire[l][n][1] \in Frames
         /\ wire' \in Queues /\ wire'[l][n] = Tail(wire[l][n])
         /\ \A j \in Links, x \in Nodes : j # l \/ x # n => wire'[j][x] = wire[j][x]
<1> PICK v : v = Tail(wire[l][n])
  OBVIOUS
<1>1. wire \in Queues /\ wire[l][n] \in Seq(Frames)
  BY DEF Types, QueueTypes, Queues
<1>2. v \in Seq(Frames) /\ wire[l][n][1] \in Frames
  BY <1>1, Taken
<1>3. wire' = [wire EXCEPT ![l][n] = v]
  BY <1>1 DEF Queues
<1>4. /\ wire' \in Queues /\ wire'[l][n] = v
      /\ \A j \in Links, x \in Nodes : j # l \/ x # n => wire'[j][x] = wire[j][x]
  BY <1>1, <1>2, <1>3 DEF Queues
<1> QED
  BY <1>1, <1>2, <1>4

(* The links that a process may find.                                      *)
LEMMA ReachedType == Types => Reached \subseteq Links \union {None}
<1> SUFFICES ASSUME Types, NEW i \in made[First] \union {entry[First]}
             PROVE  LinkOf(First, i) \in Links \union {None}
  BY DEF Reached
<1>1. i \in Ids \union {None} /\ net[First] \in [Ids -> Links \union {None}]
  BY NodesAre DEF Types, TableTypes
<1> QED
  BY <1>1 DEF LinkOf

LEMMA CastMeans ==
  ASSUME Types, Cast
  PROVE  \E o \in Links \union {None} :
           /\ o \in Reached /\ casts' = Append(casts, o)
           /\ q' = IF o = None THEN q
                   ELSE [q EXCEPT ![o][First] = Append(@, Frame("cast", Len(casts) + 1))]
BY ReachedType DEF Cast

LEMMA CallMeans ==
  ASSUME Types, NEW k \in Calls, CallNameNode(k)
  PROVE  \E o \in Links \union {None} :
           /\ o \in Reached
           /\ call' = [call EXCEPT ![k] = IF o = None THEN "false" ELSE "waiting"]
           /\ q' = IF o = None THEN q ELSE [q EXCEPT ![o][First] = Append(@, Frame("call", k))]
BY ReachedType DEF CallNameNode

(* A client enters itself: the accepted side answers.                      *)
LEMMA EnterWire ==
  ASSUME NEW l \in Links, NEW n \in Nodes, SetNodeNetWork(l, n)
  PROVE  wire' = wire \/ \E m \in Frames : m.t # "cast" /\ wire' = Sent(l, n, m)
<1> PICK m : m = Frame("succ", 0)
  OBVIOUS
<1>1. m \in Frames /\ m.t # "cast"
  BY DEF Frame, Frames, Tags
<1> QED
  BY <1>1 DEF SetNodeNetWork

(* The next link is one that was not used.                                 *)
LEMMA NextLink ==
  ASSUME Types, Numbered, NEW c \in Callers, Dial(c),
         NEW l, l = 1 + Cardinality({x \in Links : ~Unused(x)})
  PROVE  l \in Links /\ Unused(l) /\ \A j \in Links : Unused(j) <=> j >= l
<1>1. PICK m \in 0 .. MaxLinks : \A j \in Links : Unused(j) <=> j > m
  BY DEF Numbered
<1>2. m \in Nat /\ MaxLinks \in Nat /\ m <= MaxLinks
  BY BoundsAssumption
<1>3. {x \in Links : ~Unused(x)} = 1 .. m
  BY <1>1, <1>2 DEF Links
<1>4. Cardinality(1 .. m) = m
  <2>1. Cardinality(1 .. m) = IF 1 > m THEN 0 ELSE m - 1 + 1
    BY <1>2, FS_Interval
  <2> QED
    BY <2>1, <1>2
<1>5. l = m + 1
  <2>1. Cardinality({x \in Links : ~Unused(x)}) = m
    BY <1>3, <1>4, Zenon
  <2> QED
    BY <2>1, <1>2
<1>6. l <= bound.links /\ bound.links \in 0 .. MaxLinks
  BY BoundsAssumption DEF Dial, Types, LinkTypes
<1>7. l \in Links
  BY <1>2, <1>5, <1>6 DEF Links
<1>8. \A j \in Links : j > m <=> j >= l
  BY <1>2, <1>5 DEF Links
<1> QED
  BY <1>1, <1>7, <1>8, <1>2

(* A dialed link: its wire to the listener has the Connect, if anything.   *)
LEMMA DialMeans ==
  ASSUME Types, Numbered, NEW c \in Callers, Dial(c)
  PROVE  \E l \in Links, n \in Nodes :
           /\ Unused(l) /\ \A j \in Links : Unused(j) <=> j >= l
           /\ tcp' = [tcp EXCEPT ![l] = "open"]
           /\ \E how \in {"dialing", "none"} :
                client' = [client EXCEPT ![l][Other(n)] = "accepted", ![l][n] = how]
           /\ \/ wire' = wire
              \/ wire' = [wire EXCEPT ![l][Other(n)] = <<Frame("connect", 0)>>]
           /\ UNCHANGED <<bound, at, q, calls, ids, net, dropped, casts, inbox>>
<1> PICK l : l = 1 + Cardinality({x \in Links : ~Unused(x)})
  OBVIOUS
<1> PICK n : n = at[c]
  OBVIOUS
<1>1. n \in Nodes
  BY DEF Types, LinkTypes
<1>2. l \in Links /\ Unused(l) /\ \A j \in Links : Unused(j) <=> j >= l
  BY NextLink
<1>3. tcp' = [tcp EXCEPT ![l] = "open"]
  BY DEF Dial
<1>4. \E how \in {"dialing", "none"} :
        client' = [client EXCEPT ![l][Other(n)] = "accepted", ![l][n] = how]
  <2> DEFINE how == IF names[n] = None THEN "dialing" ELSE "none"
  <2>1. client' = [client EXCEPT ![l][Other(n)] = "accepted", ![l][n] = how]
    BY DEF Dial
  <2> QED
    BY <2>1
<1>5. wire' = wire \/ wire' = [wire EXCEPT ![l][Other(n)] = <<Frame("connect", 0)>>]
  BY DEF Dial
<1>6. UNCHANGED <<bound, at, q, calls, ids, net, dropped, casts, inbox>>
  BY DEF Dial
<1> QED
  BY <1>1, <1>2, <1>3, <1>4, <1>5, <1>6

LEMMA DialWire ==
  ASSUME Types, NEW l \in Links, NEW n \in Nodes, wire' = [wire EXCEPT ![l][n] = <<Frame("connect", 0)>>]
  PROVE  /\ wire' \in Queues /\ \A j \in Links, x \in Nodes : Fewer(wire'[j][x], wire[j][x])
<1> PICK m : m = Frame("connect", 0)
  OBVIOUS
<1>1. m \in Frames /\ m.t # "cast"
  BY DEF Frame, Frames, Tags
<1> PICK v : v = <<m>>
  OBVIOUS
<1>2. v \in Seq(Frames) /\ \A s : Fewer(v, s)
  BY <1>1, FewerOne
<1>3. /\ wire' \in Queues /\ wire'[l][n] = v
      /\ \A j \in Links, x \in Nodes : j # l \/ x # n => wire'[j][x] = wire[j][x]
  BY <1>2 DEF Types, QueueTypes, Queues
<1> QED
  BY <1>2, <1>3, FewerSame

(* Each action keeps the types.                                            *)
LEMMA TypesStep == Types /\ Numbered /\ IdsRight /\ [Next]_vars => Types'
<1> SUFFICES ASSUME Types, Numbered, IdsRight, [Next]_vars PROVE Types'
  OBVIOUS
<1> USE DEF Types
<1>1. ASSUME NEW c \in Callers, Check(c) \/ DialFails(c) \/ DialTimeout(c) PROVE Types'
  BY <1>1 DEF Check, DialFails, DialTimeout, calls, table, ids, LinkTypes, TableTypes, QueueTypes, TrafficTypes
<1>2. ASSUME NEW c \in Callers, Dial(c) PROVE Types'
  <2> PICK l \in Links, n \in Nodes :
        /\ tcp' = [tcp EXCEPT ![l] = "open"]
        /\ \E how \in {"dialing", "none"} :
             client' = [client EXCEPT ![l][Other(n)] = "accepted", ![l][n] = how]
        /\ wire' = wire \/ wire' = [wire EXCEPT ![l][Other(n)] = <<Frame("connect", 0)>>]
        /\ UNCHANGED <<bound, at, q, calls, ids, net, dropped, casts, inbox>>
    BY <1>2, DialMeans
  <2>1. LinkTypes'
    BY NodesAre DEF LinkTypes
  <2>2. QueueTypes'
    BY DialWire, NodesAre DEF QueueTypes
  <2> QED
    BY <2>1, <2>2 DEF TableTypes, TrafficTypes, calls, ids
<1>3. ASSUME NEW l \in Links, NEW n \in Nodes, GetNode(l, n) PROVE Types'
  <2>1. LinkTypes'
    BY <1>3 DEF GetNode, LinkTypes
  <2>2. idOf' \in [Links -> [Nodes -> Ids \union {None}]]
    BY <1>3 DEF GetNode, TableTypes, Ids
  <2>3. QueueTypes'
    BY <1>3, ReadMeans DEF GetNode, QueueTypes
  <2> QED
    BY <1>3, <2>1, <2>2, <2>3 DEF GetNode, TableTypes, TrafficTypes, calls
<1>4. ASSUME NEW l \in Links, NEW n \in Nodes, SetNodeNetWork(l, n) PROVE Types'
  <2>1. LinkTypes'
    BY <1>4 DEF SetNodeNetWork, LinkTypes
  <2>2. net' \in [Nodes -> [Ids -> Links \union {None}]]
    BY <1>4 DEF SetNodeNetWork, TableTypes
  <2>3. wire' \in Queues
    BY <1>4, EnterWire, SentMeans DEF QueueTypes
  <2> QED
    BY <1>4, <2>1, <2>2, <2>3 DEF SetNodeNetWork, TableTypes, QueueTypes, TrafficTypes, calls, ids
<1>16. ASSUME NEW l \in Links, NEW n \in Nodes, StoreNode(l, n), idOf[l][n] \in Ids PROVE Types'
  <2>1. LinkTypes'
    BY <1>16 DEF StoreNode, LinkTypes
  <2>2. entry' \in [Nodes -> Ids \union {None}] /\ made' \in [Nodes -> SUBSET Ids]
    BY <1>16 DEF StoreNode, TableTypes
  <2> QED
    BY <1>16, <2>1, <2>2 DEF StoreNode, TableTypes, QueueTypes, TrafficTypes, calls
<1>17. ASSUME NEW g \in Getters, NEW n \in Nodes, StoreGetter(g, n) PROVE Types'
  <2>1. entry' \in [Nodes -> Ids \union {None}] /\ made' \in [Nodes -> SUBSET Ids]
    BY <1>17 DEF StoreGetter, TableTypes, Ids
  <2> QED
    BY <1>17, <2>1 DEF StoreGetter, LinkTypes, TableTypes, QueueTypes, TrafficTypes, calls
<1>5. ASSUME NEW l \in Links, NEW n \in Nodes, HandshakeEnds(l, n) \/ ClientEnds(l, n) PROVE Types'
  <2>1. Ends(l, n) /\ UNCHANGED <<bound, at, wire, call, casts, inbox>>
    BY <1>5 DEF HandshakeEnds, ClientEnds
  <2> QED
    BY <2>1, EndsTypes DEF LinkTypes, QueueTypes, TrafficTypes
<1>6. ASSUME NEW l \in Links, NEW how \in {"silent", "broken"}, Fail(l, how) PROVE Types'
  <2>1. LinkTypes'
    BY <1>6 DEF Fail, LinkTypes
  <2>2. QueueTypes'
    BY <1>6 DEF Fail, QueueTypes, Queues
  <2> QED
    BY <1>6, <2>1, <2>2 DEF Fail, TableTypes, TrafficTypes, calls, table, ids
<1>7. ASSUME NEW l \in Links, NEW n \in Nodes, Lose(l, n) PROVE Types'
  <2>1. wire[l][n] \in Seq(Frames) /\ wire[l][n] # <<>>
    BY <1>7 DEF Lose, QueueTypes, Queues
  <2> PICK v : v = Front(wire[l][n])
    OBVIOUS
  <2>2. v \in Seq(Frames) /\ wire' = [wire EXCEPT ![l][n] = v]
    BY <1>7, <2>1, Lost DEF Lose, QueueTypes, Queues
  <2>3. QueueTypes'
    BY <1>7, <2>2 DEF Lose, QueueTypes, Queues
  <2> QED
    BY <1>7, <2>3 DEF Lose, LinkTypes, TableTypes, TrafficTypes, calls, table, ids
<1>8. ASSUME NEW l \in Links, NEW n \in Nodes, TimerTick(l, n) \/ RecEnds(l, n) PROVE Types'
  <2>1. PICK m \in Frames : q' = [q EXCEPT ![l][n] = Append(@, m)]
    BY <1>8 DEF TimerTick, RecEnds, Tick, Err, Frame, Frames, Tags
  <2>2. QueueTypes'
    BY <1>8, <2>1, MailMeans DEF TimerTick, RecEnds, QueueTypes
  <2> QED
    BY <1>8, <2>2 DEF TimerTick, RecEnds, LinkTypes, TableTypes, TrafficTypes, calls, table, ids
<1>9. CASE Cast
  <2> PICK o \in Links \union {None} :
        /\ casts' = Append(casts, o)
        /\ q' = IF o = None THEN q
                ELSE [q EXCEPT ![o][First] = Append(@, Frame("cast", Len(casts) + 1))]
    BY <1>9, CastMeans
  <2>1. QueueTypes'
    <3>1. CASE o = None
      BY <1>9, <3>1 DEF Cast, QueueTypes
    <3>2. CASE o # None
      <4>1. Frame("cast", Len(casts) + 1) \in Frames
        BY DEF Frame, Frames, Tags, TrafficTypes
      <4>4. PICK l \in Links, m \in Frames : q' = [q EXCEPT ![l][First] = Append(@, m)]
        BY <3>2, <4>1
      <4>5. q' \in Queues
        BY <4>4, MailMeans, NodesAre
      <4>6. wire' = wire
        BY <1>9 DEF Cast
      <4> QED
        BY <4>5, <4>6 DEF QueueTypes
    <3> QED
      BY <3>1, <3>2
  <2>2. casts' \in Seq(Links \union {None})
    BY DEF TrafficTypes
  <2> QED
    BY <1>9, <2>1, <2>2 DEF Cast, LinkTypes, TableTypes, TrafficTypes, calls, table, ids
<1>10. ASSUME NEW k \in Calls, CallNameNode(k) PROVE Types'
  <2> PICK o \in Links \union {None} :
        /\ call' = [call EXCEPT ![k] = IF o = None THEN "false" ELSE "waiting"]
        /\ q' = IF o = None THEN q ELSE [q EXCEPT ![o][First] = Append(@, Frame("call", k))]
    BY <1>10, CallMeans
  <2>1. QueueTypes'
    <3>1. CASE o = None
      BY <1>10, <3>1 DEF CallNameNode, QueueTypes
    <3>2. CASE o # None
      <4>1. Frame("call", k) \in Frames
        BY DEF Frame, Frames, Tags, Calls
      <4> QED
        BY <1>10, <3>2, <4>1, MailMeans, NodesAre DEF CallNameNode, QueueTypes
    <3> QED
      BY <3>1, <3>2
  <2>2. call' \in [Calls -> {"new", "waiting", "ok", "nil", "false"}]
    BY DEF TrafficTypes
  <2> QED
    BY <1>10, <2>1, <2>2 DEF CallNameNode, LinkTypes, TableTypes, TrafficTypes, table, ids
<1>11. ASSUME NEW k \in Calls, CallTimeout(k) PROVE Types'
  BY <1>11 DEF CallTimeout, LinkTypes, TableTypes, QueueTypes, TrafficTypes, table, ids
<1>12. ASSUME NEW k \in Calls, NEW l \in Links, NEW t \in {"result", "nilresult"}, Serve(k, l, t) PROVE Types'
  <2>1. QueueTypes'
    <3>1. CASE Up(l, Second)
      <4>1. Frame(t, k) \in Frames
        BY DEF Frame, Frames, Tags, Calls
      <4>2. q' = [q EXCEPT ![l][Second] = Append(@, Frame(t, k))]
        BY <1>12, <3>1 DEF Serve
      <4> QED
        BY <1>12, <4>1, <4>2, MailMeans, NodesAre DEF Serve, QueueTypes
    <3>2. CASE ~Up(l, Second)
      BY <1>12, <3>2 DEF Serve, QueueTypes
    <3> QED
      BY <3>1, <3>2
  <2> QED
    BY <1>12, <2>1 DEF Serve, LinkTypes, TableTypes, TrafficTypes, table, ids
<1>13. ASSUME NEW l \in Links, NEW n \in Nodes, RecPacket(l, n) PROVE Types'
  <2>1. /\ wire[l][n][1] \in Frames /\ wire' \in Queues
    BY <1>13, ReadMeans DEF RecPacket
  <2>2. q' \in Queues
    <3>1. q' = q \/ \E m \in Frames : q' = [q EXCEPT ![l][n] = Append(@, m)]
      <4>1. Frame("bytes", wire[l][n][1].k) \in Frames
        BY <2>1 DEF Frame, Frames, Tags
      <4> QED
        BY <1>13, <2>1, <4>1 DEF RecPacket
    <3> QED
      BY <3>1, MailMeans DEF QueueTypes
  <2>3. inbox' \in Seq(Nat)
    BY <1>13, <2>1 DEF RecPacket, TrafficTypes, Frames
  <2> QED
    BY <1>13, <2>1, <2>2, <2>3 DEF RecPacket, LinkTypes, TableTypes, QueueTypes, TrafficTypes, table, ids
<1>14. ASSUME NEW l \in Links, NEW n \in Nodes,
              HandleWrite(l, n) \/ HandleReply(l, n) \/ HandlePing(l, n) \/ HandleTick(l, n)
       PROVE  Types'
  <2>1. q' \in Queues /\ q[l][n][1] \in Frames
    BY <1>14, HandlesMeans DEF HandleWrite, HandleReply, HandlePing, HandleTick
  <2>2. UNCHANGED <<bound, at, tcp, client, entry, made, idOf, net, dropped, casts, inbox>>
    BY <1>14 DEF HandleWrite, HandleReply, HandlePing, HandleTick, table, ids
  <2>3. wire' \in Queues
    <3>1. wire' = wire \/ \E m \in Frames : wire' = Sent(l, n, m)
      <4>1. CASE HandleWrite(l, n)
        BY <4>1, <2>1 DEF HandleWrite, Next1, Frame, Frames, Tags
      <4>2. CASE HandleReply(l, n)
        BY <4>2 DEF HandleReply
      <4>3. CASE HandlePing(l, n) \/ HandleTick(l, n)
        BY <4>3 DEF HandlePing, HandleTick, Ping, Pong, Frame, Frames, Tags
      <4> QED
        BY <1>14, <4>1, <4>2, <4>3
    <3> QED
      BY <3>1, SentMeans DEF QueueTypes
  <2>4. chans' \in [Links -> SUBSET Nat]
    BY <1>14, <2>1 DEF HandleWrite, HandleReply, HandlePing, HandleTick, calls, TrafficTypes, Next1, Frames
  <2>5. call' \in [Calls -> {"new", "waiting", "ok", "nil", "false"}]
    BY <1>14, <2>1 DEF HandleWrite, HandleReply, HandlePing, HandleTick, calls, TrafficTypes
  <2> QED
    BY <2>1, <2>2, <2>3, <2>4, <2>5 DEF LinkTypes, TableTypes, QueueTypes, TrafficTypes
<1>15. CASE UNCHANGED vars
  BY <1>15 DEF vars, calls, table, ids, LinkTypes, TableTypes, QueueTypes, TrafficTypes
<1> QED
  BY <1>1, <1>2, <1>3, <1>4, <1>5, <1>6, <1>7, <1>8, <1>9, <1>10, <1>11, <1>12, <1>13, <1>14, <1>15,
     <1>16, <1>17 DEF Next, Handle, IdsRight, StoreNode

----------------------------------------------------------------------------
(* The node table. *)
TableInv ==
  \A n \in Nodes :
    /\ \A i \in Ids : net[n][i] # None => /\ net[n][i] \in Links /\ Up(net[n][i], n)
                                        /\ idOf[net[n][i]][n] = i
    /\ \A l \in Links : Up(l, n) => net[n][idOf[l][n]] # None \/ idOf[l][n] \in dropped[n]

LinksRight == Numbered /\ IdsRight /\ TableInv

LEMMA LinksInit == Init => LinksRight
<1> SUFFICES ASSUME Init PROVE LinksRight
  OBVIOUS
<1>1. \A l \in Links : Unused(l) /\ chans[l] = {}
  BY DEF Init, Unused
<1>2. \A l \in Links, n \in Nodes : client[l][n] = "none" /\ q[l][n] = <<>> /\ ~Up(l, n)
  BY DEF Init, Up
<1>3. \A n \in Nodes : /\ \A i \in Ids : net[n][i] = None
                       /\ entry[n] = None /\ made[n] = {}
  BY DEF Init
<1>4. \E m \in 0 .. MaxLinks : \A l \in Links : Unused(l) <=> l > m
  <2>1. 0 \in 0 .. MaxLinks /\ \A l \in Links : l > 0
    BY BoundsAssumption DEF Links
  <2> QED
    BY <1>1, <2>1
<1> QED
  BY <1>1, <1>2, <1>3, <1>4 DEF LinksRight, Numbered, IdsRight, TableInv

(* An action that leaves connections, clients and the table alone, and     *)
(* puts mail only to clients that are up.                                  *)
LEMMA LinksKept ==
  ASSUME LinksRight, UNCHANGED <<tcp, client, entry, made, idOf, net, dropped>>,
         \A l \in Links, n \in Nodes : Up(l, n) \/ q'[l][n] = q[l][n]
  PROVE  LinksRight'
<1>1. \A l \in Links, n \in Nodes : (Up(l, n)' <=> Up(l, n)) /\ (Unused(l)' <=> Unused(l))
  BY DEF Up, Unused
<1>2. TableInv'
  BY <1>1 DEF LinksRight, TableInv, Up
<1>3. (\E m \in 0 .. MaxLinks : \A l \in Links : Unused(l) <=> l > m)'
  BY NodesAre, <1>1 DEF LinksRight, Numbered, Unused
<1>4. IdsRight'
  BY DEF LinksRight, IdsRight
<1>5. (\A l \in Links, n \in Nodes : (Unused(l) => client[l][n] = "none") /\ (~Up(l, n) => q[l][n] = <<>>))'
  BY <1>1 DEF LinksRight, Numbered
<1> QED
  BY <1>2, <1>3, <1>4, <1>5 DEF LinksRight, Numbered

(* The end of a client: its entry goes with it, whatever it is.            *)
LEMMA LinksEnd ==
  ASSUME Types, LinksRight, NEW l \in Links, NEW n \in Nodes, Ends(l, n), client[l][n] # "none"
  PROVE  LinksRight'
<1>1. /\ client'[l][n] = "down"
      /\ \A j \in Links, x \in Nodes : j # l \/ x # n => client'[j][x] = client[j][x]
  BY DEF Ends, Types, LinkTypes
<1>2. \A j \in Links : Unused(j)' <=> Unused(j)
  BY DEF Ends, Types, LinkTypes, Unused
<1>3. ~Up(l, n)' /\ \A j \in Links, x \in Nodes : j # l \/ x # n => (Up(j, x)' <=> Up(j, x))
  BY <1>1 DEF Up
<1>4. q'[l][n] = <<>> /\ \A j \in Links, x \in Nodes : j # l \/ x # n => q'[j][x] = q[j][x]
  BY DEF Ends, Types, QueueTypes, Queues
<1>6. ~Unused(l)
  BY DEF LinksRight, Numbered
<1>7. Numbered'
  <2>1. (\E m \in 0 .. MaxLinks : \A j \in Links : Unused(j) <=> j > m)'
    BY <1>2 DEF LinksRight, Numbered
  <2>2. (\A j \in Links, x \in Nodes : (Unused(j) => client[j][x] = "none") /\ (~Up(j, x) => q[j][x] = <<>>))'
    BY <1>1, <1>2, <1>3, <1>4, <1>6 DEF LinksRight, Numbered
  <2> QED
    BY <2>1, <2>2 DEF Numbered
<1>5. UNCHANGED <<entry, made, idOf>>
  BY DEF Ends, ids
<1>9. IdsRight'
  BY <1>1, <1>5 DEF LinksRight, IdsRight
<1>8. TableInv'
  <2>1. CASE Up(l, n)
    <3> PICK d : d = idOf[l][n]
      OBVIOUS
    <3>1. d \in Ids
      BY <2>1 DEF LinksRight, IdsRight, Up, Types, TableTypes
    <3>2. /\ net'[n] = [net[n] EXCEPT ![d] = None] /\ dropped'[n] = dropped[n] \union {d}
          /\ \A x \in Nodes : x # n => net'[x] = net[x] /\ dropped'[x] = dropped[x]
      BY <2>1 DEF Ends, Types, TableTypes
    <3>3. net'[n][d] = None /\ \A i \in Ids : i # d => net'[n][i] = net[n][i]
      BY <3>1, <3>2 DEF Types, TableTypes
    <3>4. ASSUME NEW x \in Nodes, NEW i \in Ids, net'[x][i] # None
          PROVE  net'[x][i] \in Links /\ client'[net'[x][i]][x] = "up" /\ idOf'[net'[x][i]][x] = i
      <4> PICK j : j = net'[x][i]
        OBVIOUS
      <4>1. j = net[x][i] /\ (x # n \/ i # d)
        BY <3>2, <3>3, <3>4
      <4>2. j \in Links /\ Up(j, x) /\ idOf[j][x] = i
        BY <4>1, <3>4 DEF LinksRight, TableInv
      <4>3. j # l \/ x # n
        BY <4>1, <4>2
      <4> QED
        BY <1>1, <1>5, <4>2, <4>3 DEF Up
    <3>5. ASSUME NEW x \in Nodes, NEW j \in Links, Up(j, x)'
          PROVE  net'[x][idOf'[j][x]] # None \/ idOf'[j][x] \in dropped'[x]
      <4>1. Up(j, x) /\ (j # l \/ x # n)
        BY <1>3, <3>5
      <4>2. net[x][idOf[j][x]] # None \/ idOf[j][x] \in dropped[x]
        BY <4>1 DEF LinksRight, TableInv
      <4>3. idOf[j][x] \in Ids
        BY <4>1 DEF LinksRight, IdsRight, Up, Types, TableTypes
      <4> QED
        BY <1>5, <3>2, <3>3, <4>2, <4>3
    <3> QED
      BY <3>4, <3>5 DEF TableInv, Up
  <2>2. CASE ~Up(l, n)
    <3>1. net' = net /\ dropped' = dropped
      BY <2>2 DEF Ends
    <3>3. \A j \in Links, x \in Nodes : Up(j, x)' <=> Up(j, x)
      BY <2>2, <1>3
    <3> QED
      BY <1>5, <3>1, <3>3 DEF LinksRight, TableInv
  <2> QED
    BY <2>1, <2>2
<1> QED
  BY <1>7, <1>8, <1>9 DEF LinksRight

(* A client goes on: nobody else does, and it has no mail.                 *)
LEMMA NumberedOn ==
  ASSUME Numbered, NEW l \in Links, NEW n \in Nodes, client[l][n] # "none", ~Up(l, n),
         tcp' = tcp, q' = q,
         \A j \in Links, x \in Nodes : j # l \/ x # n => client'[j][x] = client[j][x]
  PROVE  Numbered'
<1>1. ~Unused(l) /\ \A j \in Links : Unused(j)' <=> Unused(j)
  BY DEF Numbered, Unused
<1>2. (\E m \in 0 .. MaxLinks : \A j \in Links : Unused(j) <=> j > m)'
  BY <1>1 DEF Numbered
<1>3. q[l][n] = <<>>
  BY DEF Numbered
<1>4. (\A j \in Links, x \in Nodes : (Unused(j) => client[j][x] = "none") /\ (~Up(j, x) => q[j][x] = <<>>))'
  BY <1>1, <1>3 DEF Numbered, Up
<1> QED
  BY <1>2, <1>4 DEF Numbered

(* The Load of GetNode.                                                    *)
LEMMA LinksName ==
  ASSUME Types, LinksRight, NEW l \in Links, NEW n \in Nodes, GetNode(l, n)
  PROVE  LinksRight'
<1> PICK how : how = IF entry[n] = None THEN "naming" ELSE "entering"
  OBVIOUS
<1>1. /\ client[l][n] \in {"accepted", "dialing"} /\ client' = [client EXCEPT ![l][n] = how]
      /\ UNCHANGED <<tcp, q, entry, made, net, dropped>> /\ ~Up(l, n) /\ client[l][n] # "none"
  BY DEF GetNode, Up
<1>2. /\ Numbered' /\ client'[l][n] = how
      /\ \A j \in Links, x \in Nodes : j # l \/ x # n => client'[j][x] = client[j][x]
  <2>1. /\ client'[l][n] = how
        /\ \A j \in Links, x \in Nodes : j # l \/ x # n => client'[j][x] = client[j][x]
    BY <1>1 DEF Types, LinkTypes
  <2>2. Numbered /\ tcp' = tcp /\ q' = q /\ client[l][n] # "none" /\ ~Up(l, n)
    BY <1>1 DEF LinksRight
  <2> QED
    BY <2>1, <2>2, NumberedOn
<1>3. /\ idOf'[l][n] = IF entry[n] = None THEN l ELSE entry[n]
      /\ \A j \in Links, x \in Nodes : j # l \/ x # n => idOf'[j][x] = idOf[j][x]
  BY DEF GetNode, Types, TableTypes
<1>4. \A j \in Links, x \in Nodes : Up(j, x)' <=> Up(j, x)
  BY <1>1, <1>2 DEF Up
<1>5. \A j \in Links, x \in Nodes : Up(j, x) => idOf'[j][x] = idOf[j][x]
  BY <1>1, <1>3
<1>6. TableInv'
  BY <1>1, <1>4, <1>5 DEF LinksRight, TableInv
<1>7. IdsRight'
  <2> SUFFICES ASSUME NEW x \in Nodes
               PROVE  /\ (entry[x] = None /\ made[x] = {}) \/ entry[x] \in made[x]
                      /\ \A j \in Links : /\ client'[j][x] = "naming" => idOf'[j][x] \in Ids
                                          /\ client'[j][x] \in {"entering", "up"} => idOf'[j][x] \in made[x]
    BY <1>1 DEF IdsRight
  <2>1. (entry[x] = None /\ made[x] = {}) \/ entry[x] \in made[x]
    BY DEF LinksRight, IdsRight
  <2>2. ASSUME NEW j \in Links
        PROVE  /\ client'[j][x] = "naming" => idOf'[j][x] \in Ids
               /\ client'[j][x] \in {"entering", "up"} => idOf'[j][x] \in made[x]
    <3>1. CASE j = l /\ x = n
      BY <3>1, <2>1, <1>2, <1>3 DEF Ids
    <3>2. CASE ~(j = l /\ x = n)
      BY <3>2, <1>2, <1>3 DEF LinksRight, IdsRight
    <3> QED
      BY <3>1, <3>2
  <2> QED
    BY <2>1, <2>2
<1> QED
  BY <1>2, <1>6, <1>7 DEF LinksRight

(* Its Store, by a client or by another process.                           *)
LEMMA LinksStore ==
  ASSUME Types, LinksRight, NEW n \in Nodes, NEW d \in Ids,
         entry' = [entry EXCEPT ![n] = d], made' = [made EXCEPT ![n] = @ \union {d}],
         UNCHANGED <<idOf, net, dropped>>, Numbered',
         \A j \in Links, x \in Nodes :
           \/ client'[j][x] = client[j][x]
           \/ /\ client[j][x] = "naming" /\ client'[j][x] = "entering" /\ x = n /\ idOf[j][x] = d
  PROVE  LinksRight'
<1>1. /\ entry'[n] = d /\ made'[n] = made[n] \union {d}
      /\ \A x \in Nodes : x # n => entry'[x] = entry[x] /\ made'[x] = made[x]
  BY DEF Types, TableTypes
<1>2. \A j \in Links, x \in Nodes : Up(j, x)' <=> Up(j, x)
  BY DEF Up
<1>3. TableInv'
  BY <1>2 DEF LinksRight, TableInv
<1>4. IdsRight'
  <2> SUFFICES ASSUME NEW x \in Nodes
               PROVE  /\ (entry'[x] = None /\ made'[x] = {}) \/ entry'[x] \in made'[x]
                      /\ \A j \in Links : /\ client'[j][x] = "naming" => idOf[j][x] \in Ids
                                          /\ client'[j][x] \in {"entering", "up"} => idOf[j][x] \in made'[x]
    BY DEF IdsRight
  <2>1. (entry'[x] = None /\ made'[x] = {}) \/ entry'[x] \in made'[x]
    BY <1>1 DEF LinksRight, IdsRight
  <2>2. ASSUME NEW j \in Links
        PROVE  /\ client'[j][x] = "naming" => idOf[j][x] \in Ids
               /\ client'[j][x] \in {"entering", "up"} => idOf[j][x] \in made'[x]
    <3>1. made[x] \subseteq made'[x]
      BY <1>1
    <3>2. CASE client'[j][x] = client[j][x]
      BY <3>1, <3>2 DEF LinksRight, IdsRight
    <3>3. CASE client'[j][x] = "entering" /\ x = n /\ idOf[j][x] = d
      BY <1>1, <3>3
    <3> QED
      BY <3>2, <3>3
  <2> QED
    BY <2>1, <2>2
<1> QED
  BY <1>3, <1>4 DEF LinksRight

(* A client comes up and enters itself.                                    *)
LEMMA LinksEnter ==
  ASSUME Types, LinksRight, NEW l \in Links, NEW n \in Nodes, SetNodeNetWork(l, n)
  PROVE  LinksRight'
<1>1. /\ client[l][n] = "entering" /\ client' = [client EXCEPT ![l][n] = "up"] /\ ~Up(l, n)
      /\ UNCHANGED <<tcp, q, entry, made, idOf, dropped>>
  BY DEF SetNodeNetWork, Up, ids
<1>2. /\ Numbered' /\ client'[l][n] = "up"
      /\ \A j \in Links, x \in Nodes : j # l \/ x # n => client'[j][x] = client[j][x]
  <2>1. /\ client'[l][n] = "up"
        /\ \A j \in Links, x \in Nodes : j # l \/ x # n => client'[j][x] = client[j][x]
    BY <1>1 DEF Types, LinkTypes
  <2>2. Numbered /\ tcp' = tcp /\ q' = q /\ client[l][n] # "none" /\ ~Up(l, n)
    BY <1>1 DEF LinksRight
  <2> QED
    BY <2>1, <2>2, NumberedOn
<1>3. Up(l, n)' /\ \A j \in Links, x \in Nodes : j # l \/ x # n => (Up(j, x)' <=> Up(j, x))
  BY <1>2 DEF Up
<1> PICK d : d = idOf[l][n]
  OBVIOUS
<1>4. d \in made[n] /\ d \in Ids
  BY <1>1 DEF LinksRight, IdsRight, Types, TableTypes
<1>5. net' = [net EXCEPT ![n][d] = l]
  BY DEF SetNodeNetWork
<1>6. /\ net'[n][d] = l /\ \A i \in Ids : i # d => net'[n][i] = net[n][i]
      /\ \A x \in Nodes : x # n => net'[x] = net[x]
  BY <1>4, <1>5 DEF Types, TableTypes
<1>7. IdsRight'
  BY <1>1, <1>2, <1>4 DEF LinksRight, IdsRight
<1>8. ASSUME NEW x \in Nodes, NEW i \in Ids, net'[x][i] # None
      PROVE  net'[x][i] \in Links /\ client'[net'[x][i]][x] = "up" /\ idOf'[net'[x][i]][x] = i
  <2>1. CASE x = n /\ i = d
    BY <2>1, <1>1, <1>2, <1>6
  <2>2. CASE ~(x = n /\ i = d)
    <3> PICK j : j = net[x][i]
      OBVIOUS
    <3>1. net'[x][i] = j
      BY <2>2, <1>6
    <3>2. j \in Links /\ Up(j, x) /\ idOf[j][x] = i
      BY <3>1, <1>8 DEF LinksRight, TableInv
    <3> QED
      BY <1>1, <1>2, <3>1, <3>2 DEF Up
  <2> QED
    BY <2>1, <2>2
<1>9. ASSUME NEW x \in Nodes, NEW j \in Links, Up(j, x)'
      PROVE  net'[x][idOf'[j][x]] # None \/ idOf'[j][x] \in dropped'[x]
  <2>1. l # None
    BY BoundsAssumption DEF Links
  <2>2. CASE x = n /\ idOf[j][x] = d
    BY <2>1, <2>2, <1>1, <1>6
  <2>3. CASE ~(x = n /\ idOf[j][x] = d)
    <3>1. Up(j, x)
      BY <2>3, <1>3, <1>9
    <3>2. net[x][idOf[j][x]] # None \/ idOf[j][x] \in dropped[x]
      BY <3>1 DEF LinksRight, TableInv
    <3>3. idOf[j][x] \in Ids
      BY <3>1 DEF LinksRight, IdsRight, Up, Types, TableTypes
    <3> QED
      BY <2>3, <1>1, <1>6, <3>2, <3>3
  <2> QED
    BY <2>2, <2>3
<1>10. TableInv'
  BY <1>8, <1>9 DEF TableInv, Up
<1> QED
  BY <1>2, <1>7, <1>10 DEF LinksRight

(* A link is dialed.                                                       *)
LEMMA LinksDial ==
  ASSUME Types, LinksRight, NEW c \in Callers, Dial(c)
  PROVE  LinksRight'
<1> PICK l \in Links, n \in Nodes :
      /\ Unused(l) /\ \A j \in Links : Unused(j) <=> j >= l
      /\ tcp' = [tcp EXCEPT ![l] = "open"]
      /\ \E how \in {"dialing", "none"} :
           client' = [client EXCEPT ![l][Other(n)] = "accepted", ![l][n] = how]
      /\ UNCHANGED <<bound, at, q, calls, ids, net, dropped, casts, inbox>>
  BY DialMeans DEF LinksRight
<1>1. \A x \in Nodes : client[l][x] = "none" /\ ~Up(l, x)
  BY DEF LinksRight, Numbered, Up
<1>2. /\ \A x \in Nodes : client'[l][x] \notin {"naming", "entering", "up"}
      /\ \A j \in Links, x \in Nodes : j # l => client'[j][x] = client[j][x]
  <2> PICK how \in {"dialing", "none"} :
        client' = [client EXCEPT ![l][Other(n)] = "accepted", ![l][n] = how]
    OBVIOUS
  <2>1. \A x \in Nodes : x = n \/ x = Other(n)
    BY DEF Nodes, Other
  <2> QED
    BY <2>1, NodesAre DEF Types, LinkTypes
<1>3. \A j \in Links, x \in Nodes : Up(j, x)' <=> Up(j, x)
  BY <1>1, <1>2 DEF Up
<1>4. \A j \in Links : Unused(j)' <=> Unused(j) /\ j # l
  BY DEF Types, LinkTypes, Unused
<1>5. Numbered'
  <2>1. (\E m \in 0 .. MaxLinks : \A j \in Links : Unused(j) <=> j > m)'
    <3>1. \A j \in Links : Unused(j)' <=> j > l
      BY <1>4 DEF Links
    <3>2. l \in 0 .. MaxLinks
      BY BoundsAssumption DEF Links
    <3> QED
      BY <3>1, <3>2
  <2>2. (\A j \in Links, x \in Nodes : (Unused(j) => client[j][x] = "none") /\ (~Up(j, x) => q[j][x] = <<>>))'
    BY <1>2, <1>3, <1>4, ZenonT(60) DEF LinksRight, Numbered
  <2> QED
    BY <2>1, <2>2 DEF Numbered
<1>6. TableInv'
  BY <1>3 DEF LinksRight, TableInv, ids
<1>7. IdsRight'
  <2>1. \A j \in Links, x \in Nodes :
          client'[j][x] = client[j][x] \/ client'[j][x] \notin {"naming", "entering", "up"}
    BY <1>2
  <2> QED
    BY <2>1 DEF LinksRight, IdsRight, ids
<1> QED
  BY <1>5, <1>6, <1>7 DEF LinksRight

(* Who is in the table is up.                                              *)
LEMMA ReachedUp ==
  ASSUME Types, LinksRight, NEW o \in Reached, o # None
  PROVE  o \in Links /\ Up(o, First)
<1> PICK i \in made[First] \union {entry[First]} : o = LinkOf(First, i)
  BY DEF Reached
<1>1. i \in Ids /\ o = net[First][i]
  BY NodesAre DEF LinkOf, Types, TableTypes
<1> QED
  BY <1>1, NodesAre DEF LinksRight, TableInv

LEMMA LinksStep == Types /\ LinksRight /\ [Next]_vars => LinksRight'
<1> SUFFICES ASSUME Types, LinksRight, [Next]_vars PROVE LinksRight'
  OBVIOUS
<1>1. CASE \/ UNCHANGED vars
           \/ \E c \in Callers : Check(c) \/ DialFails(c) \/ DialTimeout(c)
           \/ \E k \in Calls : CallTimeout(k)
  <2>1. UNCHANGED <<tcp, client, entry, made, idOf, net, dropped, q>>
    BY <1>1 DEF vars, Check, DialFails, DialTimeout, CallTimeout, calls, table, ids
  <2> QED
    BY <2>1, LinksKept
<1>2. ASSUME NEW c \in Callers, Dial(c) PROVE LinksRight'
  BY <1>2, LinksDial
<1>3. ASSUME NEW l \in Links, NEW n \in Nodes, GetNode(l, n) \/ SetNodeNetWork(l, n) PROVE LinksRight'
  BY <1>3, LinksName, LinksEnter
<1>12. ASSUME NEW l \in Links, NEW n \in Nodes, StoreNode(l, n) PROVE LinksRight'
  <2>1. /\ client[l][n] = "naming" /\ client' = [client EXCEPT ![l][n] = "entering"]
        /\ UNCHANGED <<tcp, q, idOf, net, dropped>> /\ ~Up(l, n)
    BY <1>12 DEF StoreNode, Up
  <2>2. /\ Numbered' /\ client'[l][n] = "entering"
        /\ \A j \in Links, x \in Nodes : j # l \/ x # n => client'[j][x] = client[j][x]
    <3>1. /\ client'[l][n] = "entering"
          /\ \A j \in Links, x \in Nodes : j # l \/ x # n => client'[j][x] = client[j][x]
      BY <2>1 DEF Types, LinkTypes
    <3>2. Numbered /\ tcp' = tcp /\ q' = q /\ client[l][n] # "none" /\ ~Up(l, n)
      BY <2>1 DEF LinksRight
    <3> QED
      BY <3>1, <3>2, NumberedOn
  <2> PICK d : d = idOf[l][n]
    OBVIOUS
  <2>3. d \in Ids
    BY <2>1 DEF LinksRight, IdsRight
  <2>4. /\ entry' = [entry EXCEPT ![n] = d]
        /\ made' = [made EXCEPT ![n] = @ \union {d}]
    BY <1>12 DEF StoreNode
  <2>5. \A j \in Links, x \in Nodes :
          \/ client'[j][x] = client[j][x]
          \/ /\ client[j][x] = "naming" /\ client'[j][x] = "entering" /\ x = n /\ idOf[j][x] = d
    BY <2>1, <2>2
  <2>6. LinksRight /\ Types /\ Numbered' /\ UNCHANGED <<idOf, net, dropped>>
    BY <2>1, <2>2
  <2> QED
    BY <2>3, <2>4, <2>5, <2>6, LinksStore
<1>13. ASSUME NEW g \in Getters, NEW n \in Nodes, StoreGetter(g, n) PROVE LinksRight'
  <2>1. /\ UNCHANGED <<tcp, client, q, idOf, net, dropped>> /\ g \in Ids
        /\ entry' = [entry EXCEPT ![n] = g] /\ made' = [made EXCEPT ![n] = @ \union {g}]
    BY <1>13 DEF StoreGetter, calls, Ids
  <2>2. Numbered'
    BY <2>1 DEF LinksRight, Numbered, Unused, Up
  <2> QED
    BY <2>1, <2>2, LinksStore
<1>4. ASSUME NEW l \in Links, NEW n \in Nodes, HandshakeEnds(l, n) \/ ClientEnds(l, n) PROVE LinksRight'
  <2>1. Ends(l, n) /\ client[l][n] # "none"
    BY <1>4 DEF HandshakeEnds, ClientEnds, Up
  <2> QED
    BY <2>1, LinksEnd
<1>5. ASSUME NEW l \in Links, NEW how \in {"silent", "broken"}, Fail(l, how) PROVE LinksRight'
  <2>1. UNCHANGED <<client, entry, made, idOf, net, dropped, q>>
    BY <1>5 DEF Fail, calls, table, ids
  <2>2. \A j \in Links : Unused(j)' <=> Unused(j)
    BY <1>5 DEF Fail, Unused, Types, LinkTypes
  <2>3. \A j \in Links, x \in Nodes : Up(j, x)' <=> Up(j, x)
    BY <2>1 DEF Up
  <2>4. TableInv'
    BY <2>1, <2>3 DEF LinksRight, TableInv, Up
  <2>5. (\E m \in 0 .. MaxLinks : \A j \in Links : Unused(j) <=> j > m)'
    BY <2>2 DEF LinksRight, Numbered
  <2>6. (\A j \in Links, x \in Nodes : (Unused(j) => client[j][x] = "none") /\ (~Up(j, x) => q[j][x] = <<>>))'
    BY <2>1, <2>2, <2>3 DEF LinksRight, Numbered
  <2>7. IdsRight'
    BY <2>1 DEF LinksRight, IdsRight
  <2> QED
    BY <2>4, <2>5, <2>6, <2>7 DEF LinksRight, Numbered
<1>6. ASSUME NEW l \in Links, NEW n \in Nodes, Lose(l, n) PROVE LinksRight'
  <2>1. UNCHANGED <<tcp, client, entry, made, idOf, net, dropped, q>>
    BY <1>6 DEF Lose, calls, table, ids
  <2> QED
    BY <2>1, LinksKept
<1>7. ASSUME NEW l \in Links, NEW n \in Nodes, TimerTick(l, n) \/ RecEnds(l, n) PROVE LinksRight'
  <2>1. UNCHANGED <<tcp, client, entry, made, idOf, net, dropped>> /\ Up(l, n)
    BY <1>7 DEF TimerTick, RecEnds, calls, table, ids
  <2>2. \A j \in Links, x \in Nodes : j # l \/ x # n => q'[j][x] = q[j][x]
    BY <1>7 DEF TimerTick, RecEnds, Types, QueueTypes, Queues
  <2> QED
    BY <2>1, <2>2, LinksKept
<1>8. CASE Cast \/ \E k \in Calls : CallNameNode(k)
  <2>1. UNCHANGED <<tcp, client, entry, made, idOf, net, dropped>>
    BY <1>8 DEF Cast, CallNameNode, calls, table, ids
  <2>2. PICK o \in Reached : q' = q \/ (o # None /\ \E m : q' = [q EXCEPT ![o][First] = Append(@, m)])
    BY <1>8, Zenon DEF Cast, CallNameNode
  <2>3. CASE q' = q
    BY <2>1, <2>3, LinksKept
  <2>4. CASE o # None /\ \E m : q' = [q EXCEPT ![o][First] = Append(@, m)]
    <3>1. o \in Links /\ Up(o, First)
      BY <2>4, ReachedUp
    <3> PICK m : q' = [q EXCEPT ![o][First] = Append(@, m)]
      BY <2>4
    <3>2. \A j \in Links, x \in Nodes : j # o \/ x # First => q'[j][x] = q[j][x]
      BY <3>1, NodesAre DEF Types, QueueTypes, Queues
    <3> QED
      BY <2>1, <3>1, <3>2, LinksKept
  <2> QED
    BY <2>2, <2>3, <2>4
<1>9. ASSUME NEW k \in Calls, NEW l \in Links, NEW t \in {"result", "nilresult"}, Serve(k, l, t) PROVE LinksRight'
  <2>1. UNCHANGED <<tcp, client, entry, made, idOf, net, dropped>>
    BY <1>9 DEF Serve, table, ids
  <2>2. \A j \in Links, x \in Nodes : Up(j, x) \/ q'[j][x] = q[j][x]
    <3>1. CASE Up(l, Second)
      BY <1>9, <3>1, NodesAre DEF Serve, Types, QueueTypes, Queues
    <3>2. CASE ~Up(l, Second)
      BY <1>9, <3>2 DEF Serve
    <3> QED
      BY <3>1, <3>2
  <2> QED
    BY <2>1, <2>2, LinksKept
<1>10. ASSUME NEW l \in Links, NEW n \in Nodes, RecPacket(l, n) PROVE LinksRight'
  <2>1. UNCHANGED <<tcp, client, entry, made, idOf, net, dropped>> /\ Up(l, n)
    BY <1>10 DEF RecPacket, table, ids
  <2>2. \A j \in Links, x \in Nodes : j # l \/ x # n => q'[j][x] = q[j][x]
    BY <1>10 DEF RecPacket, Types, QueueTypes, Queues
  <2> QED
    BY <2>1, <2>2, LinksKept
<1>11. ASSUME NEW l \in Links, NEW n \in Nodes,
              HandleWrite(l, n) \/ HandleReply(l, n) \/ HandlePing(l, n) \/ HandleTick(l, n)
       PROVE  LinksRight'
  <2>1. Handles(l, n) /\ UNCHANGED <<tcp, client, entry, made, idOf, net, dropped>>
    BY <1>11 DEF HandleWrite, HandleReply, HandlePing, HandleTick, table, ids
  <2>2. \A j \in Links, x \in Nodes : Up(j, x) \/ q'[j][x] = q[j][x]
    BY <2>1, HandlesMeans
  <2> QED
    BY <2>1, <2>2, LinksKept
<1> QED
  BY <1>1, <1>2, <1>3, <1>4, <1>5, <1>6, <1>7, <1>8, <1>9, <1>10, <1>11, <1>12, <1>13 DEF Next, Handle

LEMMA LinksMean == Types /\ LinksRight => TableRight
<1> SUFFICES ASSUME Types, LinksRight, NEW n \in Nodes
             PROVE  /\ \A i \in Ids : net[n][i] # None => Up(net[n][i], n) /\ idOf[net[n][i]][n] = i
                    /\ \A l \in Links : Up(l, n) => Listed(n, idOf[l][n])
                    /\ (\E l \in Links : Up(l, n)) /\ (\A i, j \in made[n] : i = j) => Listed(n, entry[n])
  BY DEF TableRight
<1>1. None \notin Ids
  BY BoundsAssumption DEF Ids, Links
<1>2. ASSUME NEW l \in Links, Up(l, n) PROVE Listed(n, idOf[l][n]) /\ idOf[l][n] \in made[n]
  BY <1>1, <1>2 DEF LinksRight, IdsRight, TableInv, Listed, Up, Types, TableTypes
<1>3. ASSUME NEW l \in Links, Up(l, n), \A i, j \in made[n] : i = j PROVE Listed(n, entry[n])
  <2>1. entry[n] \in made[n]
    BY <1>2, <1>3 DEF LinksRight, IdsRight
  <2>2. entry[n] = idOf[l][n]
    BY <1>2, <1>3, <2>1
  <2> QED
    BY <1>2, <1>3, <2>2
<1> QED
  BY <1>2, <1>3 DEF LinksRight, TableInv

(* The node table lists a link only while its client is up, under the id   *)
(* that the client keeps, and misses the id of a client that is up only    *)
(* after another client of this id ended; so a node that has one id is     *)
(* found by its name: GetNode, SetNodeNetWork and NodeDisconnect, in       *)
(* whatever order clients and other processes run them (TableRight of      *)
(* NodeLink).                                                              *)
THEOREM TableIsRight == Spec => []TableRight
<1>1. Init => Types /\ LinksRight
  BY TypesInit, LinksInit
<1>2. Types /\ LinksRight /\ [Next]_vars => Types' /\ LinksRight'
  BY TypesStep, LinksStep DEF LinksRight
<1> QED
  BY <1>1, <1>2, LinksMean, PTL DEF Spec

----------------------------------------------------------------------------
(* Casts. *)
LEMMA CastsInit == Init => CastsRight
<1> SUFFICES ASSUME Init PROVE CastsRight
  OBVIOUS
<1>1. \A l \in Links, n \in Nodes : q[l][n] = <<>> /\ wire[l][n] = <<>>
  BY DEF Init
<1>2. Carried(<<>>) = {} /\ Rising(<<>>)
  BY DEF Carried, Rising
<1>3. inbox = <<>>
  BY DEF Init
<1> QED
  BY <1>1, <1>2, <1>3, NodesAre DEF CastsRight, Mailed, OnWire, Arrived

(* An action that makes no cast and moves none on.                         *)
LEMMA CastsKept ==
  ASSUME CastsRight, UNCHANGED <<casts, inbox>>,
         \A l \in Links, n \in Nodes : Fewer(q'[l][n], q[l][n]) /\ Fewer(wire'[l][n], wire[l][n])
  PROVE  CastsRight'
<1> SUFFICES ASSUME NEW l \in Links
             PROVE  /\ Carried(q[l][Second])' = {} /\ Carried(wire[l][First])' = {}
                    /\ Rising(q[l][First])' /\ Rising(wire[l][Second])'
                    /\ \A c \in Mailed(l)' \union OnWire(l)' : c \in DOMAIN casts /\ casts[c] = l
                    /\ \A c \in OnWire(l)', d \in Mailed(l)' : c < d
                    /\ \A c \in Arrived(l)', d \in OnWire(l)' \union Mailed(l)' : c < d
  BY DEF CastsRight
<1>1. /\ Mailed(l)' \subseteq Mailed(l) /\ OnWire(l)' \subseteq OnWire(l) /\ Arrived(l)' = Arrived(l)
  BY NodesAre DEF Fewer, Mailed, OnWire, Arrived
<1>2. Rising(q'[l][First]) /\ Rising(wire'[l][Second])
  BY NodesAre DEF Fewer, CastsRight
<1>3. Carried(q'[l][Second]) = {} /\ Carried(wire'[l][First]) = {}
  BY NodesAre DEF Fewer, CastsRight
<1>4. \A c \in Mailed(l)' \union OnWire(l)' : c \in DOMAIN casts /\ casts[c] = l
  BY <1>1 DEF CastsRight
<1>5. /\ \A c \in OnWire(l)', d \in Mailed(l)' : c < d
      /\ \A c \in Arrived(l)', d \in OnWire(l)' \union Mailed(l)' : c < d
  BY <1>1 DEF CastsRight
<1> QED
  BY <1>2, <1>3, <1>4, <1>5

LEMMA SentFewer ==
  ASSUME Types, NEW l \in Links, NEW n \in Nodes, NEW m \in Frames, m.t # "cast",
         NEW j \in Links, NEW x \in Nodes
  PROVE  Fewer(Sent(l, n, m)[j][x], wire[j][x])
<1>1. wire[j][x] \in Seq(Frames)
  BY DEF Types, QueueTypes, Queues
<1>2. Fewer(Append(wire[j][x], m), wire[j][x])
  BY <1>1, Added
<1> QED
  BY <1>2, SentMeans, FewerSame

(* A frame that is no cast is mailed.                                      *)
LEMMA MailFewer ==
  ASSUME Types, NEW l \in Links, NEW n \in Nodes, NEW m \in Frames, m.t # "cast",
         q' = [q EXCEPT ![l][n] = Append(@, m)], NEW j \in Links, NEW x \in Nodes
  PROVE  Fewer(q'[j][x], q[j][x])
<1>1. /\ q[l][n] \in Seq(Frames) /\ q'[l][n] = Append(q[l][n], m)
      /\ \A i \in Links, y \in Nodes : i # l \/ y # n => q'[i][y] = q[i][y]
  BY MailMeans, Zenon
<1>2. Fewer(Append(q[l][n], m), q[l][n])
  BY <1>1, Added
<1> QED
  BY <1>1, <1>2, FewerSame

LEMMA HandlesFewer ==
  ASSUME Types, NEW l \in Links, NEW n \in Nodes, Handles(l, n), NEW j \in Links, NEW x \in Nodes
  PROVE  Fewer(q'[j][x], q[j][x])
<1>1. /\ q[l][n] \in Seq(Frames) /\ q[l][n] # <<>> /\ q'[l][n] = Tail(q[l][n])
      /\ j # l \/ x # n => q'[j][x] = q[j][x]
  BY HandlesMeans
<1>2. Fewer(Tail(q[l][n]), q[l][n])
  BY <1>1, Taken
<1> QED
  BY <1>1, <1>2, FewerSame

LEMMA ReadFewer ==
  ASSUME Types, NEW l \in Links, NEW n \in Nodes, wire[l][n] # <<>>, wire' = [wire EXCEPT ![l][n] = Tail(@)],
         NEW j \in Links, NEW x \in Nodes
  PROVE  Fewer(wire'[j][x], wire[j][x])
<1>1. /\ wire[l][n] \in Seq(Frames) /\ wire'[l][n] = Tail(wire[l][n])
      /\ \A i \in Links, y \in Nodes : i # l \/ y # n => wire'[i][y] = wire[i][y]
  BY ReadMeans, Zenon
<1>2. Fewer(Tail(wire[l][n]), wire[l][n])
  BY <1>1, Taken
<1> QED
  BY <1>1, <1>2, FewerSame

(* A cast is made: it is the last one, and goes to the link of the table.  *)
LEMMA CastsMake == Types /\ CastsRight /\ Cast => CastsRight'
<1> SUFFICES ASSUME Types, CastsRight, Cast PROVE CastsRight'
  OBVIOUS
<1> PICK k : k = Len(casts) + 1
  OBVIOUS
<1> PICK o \in Links \union {None} :
      /\ casts' = Append(casts, o)
      /\ q' = IF o = None THEN q ELSE [q EXCEPT ![o][First] = Append(@, Frame("cast", Len(casts) + 1))]
  BY CastMeans
<1>1. casts \in Seq(Links \union {None}) /\ o \in Links \union {None} /\ k \in Nat
  BY DEF Types, TrafficTypes
<1>2. casts' = Append(casts, o) /\ UNCHANGED <<wire, inbox>>
  BY DEF Cast
<1>3. /\ DOMAIN casts' = DOMAIN casts \union {k} /\ casts'[k] = o
      /\ \A c \in DOMAIN casts : casts'[c] = casts[c] /\ c < k /\ c \in Nat
  BY <1>1, <1>2
<1>4. \A i \in DOMAIN inbox : inbox[i] \in DOMAIN casts /\ casts'[inbox[i]] = casts[inbox[i]]
  BY <1>3 DEF CastsRight
<1>5. \A l \in Links : Arrived(l)' = Arrived(l) /\ OnWire(l)' = OnWire(l)
  BY <1>2, <1>4 DEF Arrived, OnWire
<1>6. \A l \in Links : \A c \in Mailed(l) \union OnWire(l) \union Arrived(l) : c \in DOMAIN casts
  BY <1>4 DEF CastsRight, Arrived
<1>7. /\ \A l \in Links, n \in Nodes : l # o \/ n # First => q'[l][n] = q[l][n]
      /\ o # None => /\ q'[o][First] \in Seq(Frames)
                      /\ Mailed(o)' = Mailed(o) \union {k} /\ Rising(q'[o][First])
  <2>1. CASE o = None
    <3>1. q' = q
      BY <2>1
    <3> QED
      BY <2>1, <3>1
  <2>2. CASE o # None
    <3> PICK m : m = Frame("cast", k)
      OBVIOUS
    <3>1. m \in Frames /\ m.t = "cast" /\ m.k = k
      BY <1>1 DEF Frame, Frames, Tags
    <3>2. o \in Links /\ First \in Nodes /\ Mails(o, First, m)
      BY <1>1, <2>2, NodesAre DEF Mails
    <3>3. /\ q[o][First] \in Seq(Frames) /\ q' \in Queues /\ q'[o][First] = Append(q[o][First], m)
          /\ \A l \in Links, n \in Nodes : l # o \/ n # First => q'[l][n] = q[l][n]
      BY <3>1, <3>2, MailsMeans
    <3>4. Carried(q'[o][First]) = Carried(q[o][First]) \union {k}
      BY <3>1, <3>3, Added
    <3>5. \A c \in Carried(q[o][First]) : c < m.k
      BY <3>1, <3>2, <1>3, <1>6 DEF Mailed
    <3>6. Rising(q[o][First])
      BY <3>2 DEF CastsRight
    <3>7. Rising(q'[o][First])
      BY <3>1, <3>3, <3>5, <3>6, Added
    <3>8. q'[o][First] \in Seq(Frames)
      BY <3>1, <3>3, Added
    <3> QED
      BY <3>3, <3>4, <3>7, <3>8 DEF Mailed
  <2> QED
    BY <2>1, <2>2
<1>8. ASSUME NEW l \in Links
      PROVE  /\ Carried(q[l][Second])' = {} /\ Carried(wire[l][First])' = {}
             /\ Rising(q[l][First])' /\ Rising(wire[l][Second])'
             /\ \A c \in Mailed(l)' \union OnWire(l)' : c \in DOMAIN casts' /\ casts'[c] = l
             /\ \A c \in OnWire(l)', d \in Mailed(l)' : c < d
             /\ \A c \in Arrived(l)', d \in OnWire(l)' \union Mailed(l)' : c < d
  <2>1. Carried(q'[l][Second]) = {} /\ Carried(wire'[l][First]) = {} /\ Rising(wire'[l][Second])
    BY <1>2, <1>7, NodesAre, BoundsAssumption DEF CastsRight
  <2>2. Rising(q'[l][First])
    BY <1>1, <1>7, NodesAre, BoundsAssumption DEF CastsRight, Links
  <2>3. IF l = o THEN Mailed(l)' = Mailed(l) \union {k} ELSE Mailed(l)' = Mailed(l)
    BY <1>7, NodesAre, BoundsAssumption DEF Mailed, Links
  <2>4. \A c \in Mailed(l)' \union OnWire(l)' : c \in DOMAIN casts' /\ casts'[c] = l
    BY <2>3, <1>3, <1>5 DEF CastsRight
  <2>5. \A c \in OnWire(l)', d \in Mailed(l)' : c < d
    BY <2>3, <1>3, <1>5, <1>6 DEF CastsRight
  <2>6. \A c \in Arrived(l)', d \in OnWire(l)' \union Mailed(l)' : c < d
    BY <2>3, <1>3, <1>5, <1>6 DEF CastsRight
  <2> QED
    BY <2>1, <2>2, <2>4, <2>5, <2>6
<1>9. \A i \in DOMAIN inbox' : inbox'[i] \in DOMAIN casts' /\ casts'[inbox'[i]] \in Links
  BY <1>2, <1>3, <1>4 DEF CastsRight
<1> QED
  BY <1>8, <1>9 DEF CastsRight

(* The client of First writes a cast: it was the first in the mailbox and  *)
(* is the last on the wire, if the connection is open.                     *)
LEMMA CastsWrite ==
  ASSUME Types, CastsRight, NEW l \in Links, NEW n \in Nodes, HandleWrite(l, n)
  PROVE  CastsRight'
<1> PICK m : m = q[l][n][1]
  OBVIOUS
<1>1. /\ Handles(l, n) /\ m.t \in {"cast", "call", "result", "bytes"} /\ UNCHANGED <<casts, inbox>>
  BY DEF HandleWrite, Next1
<1>2. /\ q[l][n] \in Seq(Frames) /\ q[l][n] # <<>> /\ m \in Frames /\ q'[l][n] = Tail(q[l][n])
      /\ \A j \in Links, x \in Nodes : j # l \/ x # n => q'[j][x] = q[j][x]
  BY <1>1, HandlesMeans
<1>3. \A j \in Links, x \in Nodes : Fewer(q'[j][x], q[j][x])
  BY <1>1, HandlesFewer
<1>4. CASE m.t # "cast"
  <2>1. PICK f \in Frames : f.t # "cast" /\ wire' = Sent(l, n, f)
    BY <1>1, <1>2, <1>4 DEF HandleWrite, Next1, Frame, Frames, Tags
  <2>2. \A j \in Links, x \in Nodes : Fewer(wire'[j][x], wire[j][x])
    BY <2>1, SentFewer
  <2> QED
    BY <1>1, <1>3, <2>2, CastsKept
<1>5. CASE m.t = "cast"
  <2>1. wire' = Sent(l, n, m)
    BY <1>2, <1>5 DEF HandleWrite, Next1, Frame, Frames
  <2>2. /\ m.k \in Carried(q[l][n])
        /\ Rising(q[l][n]) => \A c \in Carried(Tail(q[l][n])) : m.k < c
    BY <1>2, <1>5, Taken
  <2>3. n = First
    BY <2>2 DEF CastsRight, Nodes
  <2>4. /\ m.k \in Mailed(l) /\ \A c \in Mailed(l)' : m.k < c
        /\ \A j \in Links : Mailed(j)' \subseteq Mailed(j)
    BY <1>2, <1>3, <2>2, <2>3, NodesAre DEF Mailed, CastsRight, Fewer
  <2>5. CASE tcp[l] # "open"
    <3>1. \A j \in Links, x \in Nodes : Fewer(wire'[j][x], wire[j][x])
      BY <1>2, <2>1, <2>5, SentMeans, FewerSame
    <3> QED
      BY <1>1, <1>3, <3>1, CastsKept
  <2>6. CASE tcp[l] = "open"
    <3>1. /\ wire'[l][Second] = Append(wire[l][Second], m) /\ wire[l][Second] \in Seq(Frames)
          /\ \A j \in Links, x \in Nodes : j # l \/ x # Second => wire'[j][x] = wire[j][x]
      <4>1. wire[l][Second] \in Seq(Frames) /\ Other(First) = Second
        BY NodesAre DEF Other, Types, QueueTypes, Queues
      <4>2. \A j \in Links, x \in Nodes :
              Sent(l, First, m)[j][x] = IF tcp[l] = "open" /\ j = l /\ x = Other(First)
                                          THEN Append(wire[j][x], m) ELSE wire[j][x]
        BY <1>2, SentMeans, NodesAre
      <4>3. \A j \in Links, x \in Nodes :
              wire'[j][x] = IF j = l /\ x = Second THEN Append(wire[j][x], m) ELSE wire[j][x]
        BY <2>1, <2>3, <2>6, <4>1, <4>2, Zenon
      <4> QED
        BY <4>1, <4>3, NodesAre
    <3>2. OnWire(l)' = OnWire(l) \union {m.k} /\ \A j \in Links : j # l => OnWire(j)' = OnWire(j)
      BY <1>2, <1>5, <3>1, Added, NodesAre DEF OnWire
    <3>3. \A c \in OnWire(l) : c < m.k
      BY <2>4 DEF CastsRight
    <3>4. Rising(wire'[l][Second])
      BY <1>2, <3>1, <3>3, Added DEF OnWire, CastsRight
    <3>5. \A j \in Links : Arrived(j)' = Arrived(j)
      BY <1>1 DEF Arrived
    <3>6. ASSUME NEW j \in Links
          PROVE  /\ Carried(q[j][Second])' = {} /\ Carried(wire[j][First])' = {}
                 /\ Rising(q[j][First])' /\ Rising(wire[j][Second])'
                 /\ \A c \in Mailed(j)' \union OnWire(j)' : c \in DOMAIN casts' /\ casts'[c] = j
                 /\ \A c \in OnWire(j)', d \in Mailed(j)' : c < d
                 /\ \A c \in Arrived(j)', d \in OnWire(j)' \union Mailed(j)' : c < d
      <4>1. Carried(q'[j][Second]) = {} /\ Rising(q'[j][First])
        BY <1>3, NodesAre DEF Fewer, CastsRight
      <4>2. Carried(wire'[j][First]) = {} /\ Rising(wire'[j][Second])
        <5>1. wire'[j][First] = wire[j][First]
          BY <3>1, NodesAre, BoundsAssumption
        <5>2. Carried(wire'[j][First]) = {}
          BY <5>1 DEF CastsRight
        <5>3. CASE j = l
          BY <5>2, <5>3, <3>4
        <5>4. CASE j # l
          <6>1. wire'[j][Second] = wire[j][Second]
            BY <3>1, <5>4, NodesAre
          <6> QED
            BY <5>2, <6>1 DEF CastsRight
        <5> QED
          BY <5>3, <5>4
      <4>3. \A c \in Mailed(j)' \union OnWire(j)' : c \in DOMAIN casts' /\ casts'[c] = j
        BY <1>1, <2>4, <3>2 DEF CastsRight
      <4>4. \A c \in OnWire(j)', d \in Mailed(j)' : c < d
        BY <2>4, <3>2 DEF CastsRight
      <4>5. \A c \in Arrived(j)', d \in OnWire(j)' \union Mailed(j)' : c < d
        BY <2>4, <3>2, <3>5 DEF CastsRight
      <4> QED
        BY <4>1, <4>2, <4>3, <4>4, <4>5
    <3> QED
      BY <1>1, <3>6 DEF CastsRight
  <2> QED
    BY <2>5, <2>6
<1> QED
  BY <1>4, <1>5

(* A cast is read from the wire: it arrives.                               *)
LEMMA CastsArrive ==
  ASSUME Types, CastsRight, NEW l \in Links, NEW n \in Nodes, RecPacket(l, n)
  PROVE  CastsRight'
<1> PICK f : f = wire[l][n][1]
  OBVIOUS
<1>1. wire[l][n] # <<>> /\ wire' = [wire EXCEPT ![l][n] = Tail(@)] /\ UNCHANGED casts
  BY DEF RecPacket
<1>2. /\ wire[l][n] \in Seq(Frames) /\ f \in Frames /\ wire'[l][n] = Tail(wire[l][n])
      /\ \A j \in Links, x \in Nodes : j # l \/ x # n => wire'[j][x] = wire[j][x]
  BY <1>1, ReadMeans, Zenon
<1>3. \A j \in Links, x \in Nodes : Fewer(wire'[j][x], wire[j][x])
  BY <1>1, ReadFewer, Zenon
<1>4. \A j \in Links, x \in Nodes : Fewer(q'[j][x], q[j][x])
  <2>1. q' = q \/ \E m \in Frames : m.t # "cast" /\ q' = [q EXCEPT ![l][n] = Append(@, m)]
    <3>1. Frame("bytes", f.k) \in Frames /\ Frame("bytes", f.k).t # "cast"
      BY <1>2 DEF Frame, Frames, Tags
    <3> QED
      BY <1>2, <3>1 DEF RecPacket
  <2> QED
    BY <2>1, MailFewer, FewerSame
<1>5. CASE f.t # "cast"
  <2>1. inbox' = inbox
    BY <1>5 DEF RecPacket
  <2> QED
    BY <1>1, <1>3, <1>4, <2>1, CastsKept
<1>6. CASE f.t = "cast"
  <2>1. inbox' = Append(inbox, f.k) /\ inbox \in Seq(Nat) /\ f.k \in Nat
    BY <1>2, <1>6 DEF RecPacket, Types, TrafficTypes, Frames
  <2>2. /\ f.k \in Carried(wire[l][n])
        /\ Rising(wire[l][n]) => \A c \in Carried(Tail(wire[l][n])) : f.k < c
    BY <1>1, <1>2, <1>6, Taken
  <2>3. n = Second
    BY <2>2 DEF CastsRight, Nodes
  <2>4. /\ f.k \in OnWire(l) /\ \A c \in OnWire(l)' : f.k < c
        /\ \A j \in Links : OnWire(j)' \subseteq OnWire(j) /\ Mailed(j)' \subseteq Mailed(j)
    BY <1>2, <1>3, <1>4, <2>2, <2>3, NodesAre DEF OnWire, Mailed, CastsRight, Fewer
  <2>5. f.k \in DOMAIN casts /\ casts[f.k] = l
    BY <2>4 DEF CastsRight
  <2>6. /\ DOMAIN inbox' = DOMAIN inbox \union {Len(inbox) + 1} /\ inbox'[Len(inbox) + 1] = f.k
        /\ \A i \in DOMAIN inbox : inbox'[i] = inbox[i]
    BY <2>1
  <2>7. \A j \in Links : Arrived(j)' \subseteq (IF j = l THEN Arrived(j) \union {f.k} ELSE Arrived(j))
    BY <1>1, <2>5, <2>6 DEF Arrived
  <2>8. ASSUME NEW j \in Links
        PROVE  /\ Carried(q[j][Second])' = {} /\ Carried(wire[j][First])' = {}
               /\ Rising(q[j][First])' /\ Rising(wire[j][Second])'
               /\ \A c \in Mailed(j)' \union OnWire(j)' : c \in DOMAIN casts' /\ casts'[c] = j
               /\ \A c \in OnWire(j)', d \in Mailed(j)' : c < d
               /\ \A c \in Arrived(j)', d \in OnWire(j)' \union Mailed(j)' : c < d
    <3>1. Carried(q'[j][Second]) = {} /\ Rising(q'[j][First])
      BY <1>4, NodesAre DEF Fewer, CastsRight
    <3>2. Carried(wire'[j][First]) = {} /\ Rising(wire'[j][Second])
      BY <1>3, NodesAre DEF Fewer, CastsRight
    <3>3. \A c \in Mailed(j)' \union OnWire(j)' : c \in DOMAIN casts' /\ casts'[c] = j
      BY <1>1, <2>4 DEF CastsRight
    <3>4. \A c \in OnWire(j)', d \in Mailed(j)' : c < d
      BY <2>4 DEF CastsRight
    <3>5. \A c \in Arrived(j)', d \in OnWire(j)' \union Mailed(j)' : c < d
      BY <2>4, <2>7 DEF CastsRight
    <3> QED
      BY <3>1, <3>2, <3>3, <3>4, <3>5
  <2>9. \A i \in DOMAIN inbox' : inbox'[i] \in DOMAIN casts' /\ casts'[inbox'[i]] \in Links
    BY <1>1, <2>5, <2>6 DEF CastsRight
  <2> QED
    BY <2>8, <2>9 DEF CastsRight
<1> QED
  BY <1>5, <1>6

LEMMA CastsStep == Types /\ Numbered /\ CastsRight /\ [Next]_vars => CastsRight'
<1> SUFFICES ASSUME Types, Numbered, CastsRight, [Next]_vars PROVE CastsRight'
  OBVIOUS
<1>1. CASE \/ UNCHANGED vars
           \/ \E c \in Callers : Check(c) \/ DialFails(c) \/ DialTimeout(c)
           \/ \E k \in Calls : CallTimeout(k)
           \/ \E l \in Links, n \in Nodes : StoreNode(l, n)
           \/ \E g \in Getters, n \in Nodes : StoreGetter(g, n)
  <2>1. UNCHANGED <<casts, inbox, q, wire>>
    BY <1>1 DEF vars, Check, DialFails, DialTimeout, CallTimeout, StoreNode, StoreGetter
  <2> QED
    BY <2>1, CastsKept, FewerSame
<1>2. ASSUME NEW c \in Callers, Dial(c) PROVE CastsRight'
  <2> PICK l \in Links, n \in Nodes :
        /\ wire' = wire \/ wire' = [wire EXCEPT ![l][Other(n)] = <<Frame("connect", 0)>>]
        /\ UNCHANGED <<bound, at, q, calls, ids, net, dropped, casts, inbox>>
    BY <1>2, DialMeans
  <2>1. \A j \in Links, x \in Nodes : Fewer(wire'[j][x], wire[j][x])
    <3>1. CASE wire' = wire
      BY <3>1, FewerSame
    <3>2. CASE wire' = [wire EXCEPT ![l][Other(n)] = <<Frame("connect", 0)>>]
      BY <3>2, DialWire, NodesAre, Zenon
    <3> QED
      BY <3>1, <3>2
  <2> QED
    BY <2>1, CastsKept, FewerSame
<1>3. ASSUME NEW l \in Links, NEW n \in Nodes, SetNodeNetWork(l, n) PROVE CastsRight'
  <2>1. UNCHANGED <<casts, inbox, q>>
    BY <1>3 DEF SetNodeNetWork
  <2>2. \A j \in Links, x \in Nodes : Fewer(wire'[j][x], wire[j][x])
    BY <1>3, EnterWire, SentFewer, FewerSame
  <2> QED
    BY <2>1, <2>2, CastsKept, FewerSame
<1>4. ASSUME NEW l \in Links, NEW n \in Nodes, GetNode(l, n) PROVE CastsRight'
  <2>1. /\ UNCHANGED <<casts, inbox, q>>
        /\ wire[l][n] # <<>> /\ wire' = [wire EXCEPT ![l][n] = Tail(@)]
    BY <1>4 DEF GetNode
  <2>2. \A j \in Links, x \in Nodes : Fewer(wire'[j][x], wire[j][x])
    BY <2>1, ReadFewer, Zenon
  <2> QED
    BY <2>1, <2>2, CastsKept, FewerSame
<1>5. ASSUME NEW l \in Links, NEW n \in Nodes, HandshakeEnds(l, n) \/ ClientEnds(l, n) PROVE CastsRight'
  <2>1. Ends(l, n) /\ UNCHANGED <<wire, casts, inbox>>
    BY <1>5 DEF HandshakeEnds, ClientEnds
  <2>2. q'[l][n] = <<>> /\ \A j \in Links, x \in Nodes : j # l \/ x # n => q'[j][x] = q[j][x]
    BY <2>1 DEF Ends, Types, QueueTypes, Queues
  <2>3. \A j \in Links, x \in Nodes : Fewer(q'[j][x], q[j][x])
    BY <2>2, FewerSame, FewerNone
  <2> QED
    BY <2>1, <2>3, CastsKept, FewerSame
<1>6. ASSUME NEW l \in Links, NEW how \in {"silent", "broken"}, Fail(l, how) PROVE CastsRight'
  <2>1. UNCHANGED <<casts, inbox, q>>
    BY <1>6 DEF Fail
  <2>2. \A j \in Links, x \in Nodes : wire'[j][x] = wire[j][x] \/ wire'[j][x] = <<>>
    BY <1>6 DEF Fail, Types, QueueTypes, Queues
  <2>3. \A j \in Links, x \in Nodes : Fewer(wire'[j][x], wire[j][x])
    BY <2>2, FewerSame, FewerNone
  <2> QED
    BY <2>1, <2>3, CastsKept, FewerSame
<1>7. ASSUME NEW l \in Links, NEW n \in Nodes, Lose(l, n) PROVE CastsRight'
  <2>1. UNCHANGED <<casts, inbox, q>>
    BY <1>7 DEF Lose
  <2>2. wire[l][n] \in Seq(Frames) /\ wire[l][n] # <<>>
    BY <1>7 DEF Lose, Types, QueueTypes, Queues
  <2>3. Fewer(Front(wire[l][n]), wire[l][n])
    BY <2>2, Lost
  <2> PICK v : v = Front(wire[l][n])
    OBVIOUS
  <2>4. wire' = [wire EXCEPT ![l][n] = v]
    BY <1>7 DEF Lose, Types, QueueTypes, Queues
  <2>5. wire'[l][n] = v /\ \A j \in Links, x \in Nodes : j # l \/ x # n => wire'[j][x] = wire[j][x]
    BY <2>4 DEF Types, QueueTypes, Queues
  <2>6. \A j \in Links, x \in Nodes : Fewer(wire'[j][x], wire[j][x])
    BY <2>3, <2>5, FewerSame
  <2> QED
    BY <2>1, <2>6, CastsKept, FewerSame
<1>8. ASSUME NEW l \in Links, NEW n \in Nodes, TimerTick(l, n) \/ RecEnds(l, n) PROVE CastsRight'
  <2>1. UNCHANGED <<casts, inbox, wire>>
    BY <1>8 DEF TimerTick, RecEnds
  <2>2. PICK m \in Frames : m.t # "cast" /\ q' = [q EXCEPT ![l][n] = Append(@, m)]
    BY <1>8 DEF TimerTick, RecEnds, Tick, Err, Frame, Frames, Tags
  <2>3. \A j \in Links, x \in Nodes : Fewer(q'[j][x], q[j][x])
    BY <2>2, MailFewer, Zenon
  <2> QED
    BY <2>1, <2>3, CastsKept, FewerSame
<1>9. ASSUME NEW k \in Calls, CallNameNode(k) PROVE CastsRight'
  <2>1. UNCHANGED <<casts, inbox, wire>>
    BY <1>9 DEF CallNameNode
  <2> PICK l \in Links \union {None} :
        q' = IF l = None THEN q ELSE [q EXCEPT ![l][First] = Append(@, Frame("call", k))]
    BY <1>9, CallMeans
  <2>2. CASE l = None
    <3>1. q' = q
      BY <2>2
    <3> QED
      BY <2>1, <3>1, CastsKept, FewerSame
  <2>3. CASE l # None
    <3> PICK m : m = Frame("call", k)
      OBVIOUS
    <3>1. m \in Frames /\ m.t # "cast"
      BY DEF Frame, Frames, Tags, Calls
    <3>2. l \in Links /\ q' = [q EXCEPT ![l][First] = Append(@, m)]
      BY <2>3
    <3>3. \A j \in Links, x \in Nodes : Fewer(q'[j][x], q[j][x])
      BY <3>1, <3>2, MailFewer, NodesAre, Zenon
    <3> QED
      BY <2>1, <3>3, CastsKept, FewerSame
  <2> QED
    BY <2>2, <2>3
<1>10. ASSUME NEW k \in Calls, NEW l \in Links, NEW t \in {"result", "nilresult"}, Serve(k, l, t) PROVE CastsRight'
  <2>1. UNCHANGED <<casts, inbox, wire>>
    BY <1>10 DEF Serve
  <2> PICK m : m = Frame(t, k)
    OBVIOUS
  <2>2. m \in Frames /\ m.t # "cast"
    BY DEF Frame, Frames, Tags, Calls
  <2>3. \A j \in Links, x \in Nodes : Fewer(q'[j][x], q[j][x])
    <3>1. CASE q' = q
      BY <3>1, FewerSame
    <3>2. CASE q' = [q EXCEPT ![l][Second] = Append(@, m)]
      BY <2>2, <3>2, MailFewer, NodesAre, Zenon
    <3> QED
      BY <1>10, <3>1, <3>2 DEF Serve
  <2> QED
    BY <2>1, <2>3, CastsKept, FewerSame
<1>11. ASSUME NEW l \in Links, NEW n \in Nodes, HandleReply(l, n) \/ HandlePing(l, n) \/ HandleTick(l, n)
       PROVE  CastsRight'
  <2>1. Handles(l, n) /\ UNCHANGED <<casts, inbox>>
    BY <1>11 DEF HandleReply, HandlePing, HandleTick
  <2>2. \A j \in Links, x \in Nodes : Fewer(q'[j][x], q[j][x])
    BY <2>1, HandlesFewer
  <2>3. \A j \in Links, x \in Nodes : Fewer(wire'[j][x], wire[j][x])
    <3>1. wire' = wire \/ \E m \in Frames : m.t # "cast" /\ wire' = Sent(l, n, m)
      BY <1>11 DEF HandleReply, HandlePing, HandleTick, Ping, Pong, Frame, Frames, Tags
    <3> QED
      BY <3>1, FewerSame, SentFewer
  <2> QED
    BY <2>1, <2>2, <2>3, CastsKept
<1> QED
  BY <1>1, <1>2, <1>3, <1>4, <1>5, <1>6, <1>7, <1>8, <1>9, <1>10, <1>11, CastsMake, CastsArrive, CastsWrite
     DEF Next, Handle

LEMMA OrderStep == Types /\ CastsRight /\ CastsInOrder /\ [Next]_vars => CastsInOrder'
<1> SUFFICES ASSUME Types, CastsRight, CastsInOrder, [Next]_vars PROVE CastsInOrder'
  OBVIOUS
<1>1. CASE UNCHANGED <<casts, inbox>>
  BY <1>1 DEF CastsInOrder
<1>2. CASE Cast
  <2> PICK o \in Links \union {None} : casts' = Append(casts, o)
    BY <1>2, CastMeans
  <2>1. inbox' = inbox /\ casts' = Append(casts, o) /\ casts \in Seq(Links \union {None})
    BY <1>2 DEF Cast, Types, TrafficTypes
  <2>2. o \in Links \union {None}
    OBVIOUS
  <2>3. \A c \in DOMAIN casts : casts'[c] = casts[c]
    BY <2>1, <2>2
  <2> QED
    BY <2>1, <2>3 DEF CastsRight, CastsInOrder
<1>3. ASSUME NEW l \in Links, NEW n \in Nodes, RecPacket(l, n) PROVE CastsInOrder'
  <2> PICK f : f = wire[l][n][1]
    OBVIOUS
  <2>1. casts' = casts /\ wire[l][n] # <<>> /\ wire[l][n] \in Seq(Frames) /\ f \in Frames
    BY <1>3, Taken DEF RecPacket, Types, QueueTypes, Queues
  <2>2. CASE f.t # "cast"
    BY <1>1, <1>3, <2>1, <2>2 DEF RecPacket
  <2>3. CASE f.t = "cast"
    <3>1. inbox' = Append(inbox, f.k) /\ inbox \in Seq(Nat) /\ f.k \in Nat
      BY <1>3, <2>1, <2>3 DEF RecPacket, Types, TrafficTypes, Frames
    <3>2. f.k \in Carried(wire[l][n])
      BY <2>1, <2>3, Taken
    <3>3. n = Second /\ f.k \in OnWire(l)
      BY <3>2 DEF CastsRight, Nodes, OnWire
    <3>4. casts[f.k] = l
      BY <3>3 DEF CastsRight
    <3>5. ASSUME NEW i \in DOMAIN inbox, casts[inbox[i]] = l PROVE inbox[i] < f.k /\ inbox[i] \in Nat
      BY <3>1, <3>3, <3>5 DEF CastsRight, Arrived
    <3>6. /\ DOMAIN inbox' = DOMAIN inbox \union {Len(inbox) + 1} /\ inbox'[Len(inbox) + 1] = f.k
          /\ \A i \in DOMAIN inbox : inbox'[i] = inbox[i] /\ i < Len(inbox) + 1 /\ i \in Nat
          /\ Len(inbox) \in Nat
      BY <3>1
    <3> SUFFICES ASSUME NEW i \in DOMAIN inbox', NEW j \in DOMAIN inbox', i < j
                 PROVE  /\ inbox'[i] # inbox'[j]
                        /\ casts[inbox'[i]] = casts[inbox'[j]] => inbox'[i] < inbox'[j]
      BY <2>1 DEF CastsInOrder
    <3>7. i \in DOMAIN inbox
      BY <3>6
    <3>8. CASE j \in DOMAIN inbox
      BY <3>6, <3>7, <3>8 DEF CastsInOrder
    <3>9. CASE j = Len(inbox) + 1
      BY <3>4, <3>5, <3>6, <3>7, <3>9
    <3> QED
      BY <3>6, <3>8, <3>9
  <2> QED
    BY <2>2, <2>3
<1>4. ASSUME NEW l \in Links, NEW n \in Nodes,
             \/ GetNode(l, n) \/ StoreNode(l, n) \/ SetNodeNetWork(l, n) \/ HandshakeEnds(l, n) \/ Lose(l, n) \/ TimerTick(l, n)
             \/ RecEnds(l, n) \/ Handle(l, n)
      PROVE  UNCHANGED <<casts, inbox>>
  BY <1>4 DEF GetNode, StoreNode, SetNodeNetWork, HandshakeEnds, Lose, TimerTick, RecEnds, Handle, HandleWrite,
              HandleReply, HandlePing, HandleTick, ClientEnds
<1>5. CASE \/ \E c \in Callers : Check(c) \/ DialFails(c) \/ Dial(c) \/ DialTimeout(c)
           \/ \E l \in Links, how \in {"silent", "broken"} : Fail(l, how)
           \/ \E g \in Getters, n \in Nodes : StoreGetter(g, n)
           \/ \E k \in Calls : CallNameNode(k) \/ CallTimeout(k)
           \/ \E k \in Calls, l \in Links, t \in {"result", "nilresult"} : Serve(k, l, t)
           \/ UNCHANGED vars
  <2>1. UNCHANGED <<casts, inbox>>
    BY <1>5 DEF Check, DialFails, Dial, DialTimeout, Fail, CallNameNode, CallTimeout, Serve, StoreGetter, vars
  <2> QED
    BY <1>1, <2>1
<1> QED
  BY <1>1, <1>2, <1>3, <1>4, <1>5 DEF Next

(* A cast reaches its target at most once, and casts that went over one    *)
(* link arrive in the order they were made in, whatever breaks: mailbox,   *)
(* socket and recPacket keep it (CastsInOrder of NodeLink).                *)
THEOREM CastsArriveInOrder == Spec => []CastsInOrder
<1> DEFINE IInv == Types /\ LinksRight /\ CastsRight /\ CastsInOrder
<1>1. Init => IInv
  <2>1. Init => CastsInOrder
    BY DEF Init, CastsInOrder
  <2> QED
    BY <2>1, TypesInit, LinksInit, CastsInit
<1>2. IInv /\ [Next]_vars => IInv'
  BY TypesStep, LinksStep, CastsStep, OrderStep DEF LinksRight
<1>3. IInv => CastsInOrder
  OBVIOUS
<1> HIDE DEF IInv
<1> QED
  BY <1>1, <1>2, <1>3, PTL DEF Spec

----------------------------------------------------------------------------
(* Calls. *)
CallIn(s, k) == Has(s, Frame("call", k))

LEMMA CallsInit == Init => CallsRight
<1> SUFFICES ASSUME Init PROVE CallsRight
  OBVIOUS
<1>1. \A l \in Links, n \in Nodes : q[l][n] = <<>>
  BY DEF Init
<1>2. \A l \in Links : chans[l] = {}
  BY DEF Init
<1>3. \A k \in Calls : call[k] = "new"
  BY DEF Init
<1>4. \A k \in Nat, l \in Links : ~Known(k, l) /\ ~Has(q[l][Second], Frame("call", k))
  BY <1>1, <1>2, FewerNone, NodesAre DEF Known
<1>5. \A k \in Calls : k \in Nat
  BY DEF Calls
<1> QED
  BY <1>2, <1>3, <1>4, <1>5 DEF CallsRight

(* Mail that is no call, taken or put, leaves the calls of a mailbox.      *)
LEMMA MailNoCall ==
  ASSUME Types, NEW l \in Links, NEW n \in Nodes, NEW m \in Frames, m.t # "call",
         q' = [q EXCEPT ![l][n] = Append(@, m)]
  PROVE  \A j \in Links, x \in Nodes, k \in Nat : CallIn(q'[j][x], k) <=> CallIn(q[j][x], k)
<1>1. /\ q[l][n] \in Seq(Frames) /\ q'[l][n] = Append(q[l][n], m)
      /\ \A j \in Links, x \in Nodes : j # l \/ x # n => q'[j][x] = q[j][x]
  BY MailMeans, Zenon
<1>2. \A y : Has(Append(q[l][n], m), y) <=> Has(q[l][n], y) \/ y = m
  BY <1>1, Added
<1>3. \A k \in Nat : Frame("call", k) # m
  BY CallFrame
<1>4. \A k \in Nat : CallIn(q'[l][n], k) <=> CallIn(q[l][n], k)
  BY <1>1, <1>2, <1>3 DEF CallIn
<1> QED
  BY <1>1, <1>4

LEMMA MailsNoCall ==
  ASSUME Types, NEW l \in Links, NEW n \in Nodes, NEW m \in Frames, m.t # "call", Mails(l, n, m)
  PROVE  \A j \in Links, x \in Nodes, k \in Nat : CallIn(q'[j][x], k) <=> CallIn(q[j][x], k)
<1>1. q' = [q EXCEPT ![l][n] = Append(@, m)]
  BY DEF Mails
<1> QED
  BY <1>1, MailNoCall, Zenon

LEMMA HandlesNoCall ==
  ASSUME Types, NEW l \in Links, NEW n \in Nodes, Handles(l, n), q[l][n][1].t # "call"
  PROVE  \A j \in Links, x \in Nodes, k \in Nat : CallIn(q'[j][x], k) <=> CallIn(q[j][x], k)
<1>1. /\ q[l][n] \in Seq(Frames) /\ q[l][n] # <<>> /\ q'[l][n] = Tail(q[l][n]) /\ q[l][n][1] \in Frames
      /\ \A j \in Links, x \in Nodes : j # l \/ x # n => q'[j][x] = q[j][x]
  BY HandlesMeans
<1>2. /\ \A y : Has(Tail(q[l][n]), y) => Has(q[l][n], y)
      /\ \A y : Has(q[l][n], y) => y = q[l][n][1] \/ Has(Tail(q[l][n]), y)
  BY <1>1, Taken
<1>3. \A k \in Nat : Frame("call", k) # q[l][n][1]
  BY <1>1, CallFrame
<1>4. \A k \in Nat : CallIn(q'[l][n], k) <=> CallIn(q[l][n], k)
  BY <1>1, <1>2, <1>3 DEF CallIn
<1> QED
  BY <1>1, <1>4

(* An action that leaves the calls and where they are.                     *)
LEMMA CallsKept ==
  ASSUME CallsRight, call' = call, (dropped[First] # {} => dropped'[First] # {}),
         \A k \in Calls, l \in Links : Known(k, l)' <=> Known(k, l),
         \A k \in Nat, l \in Links : CallIn(q'[l][Second], k) => CallIn(q[l][Second], k),
         \A l \in Links : ~Up(l, First)' => chans'[l] = {}
  PROVE  CallsRight'
BY DEF CallsRight, CallIn

LEMMA CallsStay ==
  ASSUME CallsRight, UNCHANGED <<call, chans>>, (dropped[First] # {} => dropped'[First] # {}),
         \A l \in Links, n \in Nodes, k \in Nat : CallIn(q'[l][n], k) <=> CallIn(q[l][n], k),
         \A l \in Links : Up(l, First) => Up(l, First)'
  PROVE  CallsRight'
<1>1. \A k \in Calls, l \in Links : Known(k, l)' <=> Known(k, l)
  BY NodesAre DEF Known, CallIn, Calls
<1>2. \A k \in Nat, l \in Links : CallIn(q'[l][Second], k) => CallIn(q[l][Second], k)
  BY NodesAre
<1>3. \A l \in Links : ~Up(l, First)' => chans'[l] = {}
  BY DEF CallsRight
<1> QED
  BY <1>1, <1>2, <1>3, CallsKept

(* A call is made.                                                         *)
LEMMA CallsMake ==
  ASSUME Types, LinksRight, CallsRight, NEW k \in Calls, CallNameNode(k)
  PROVE  CallsRight'
<1>1. UNCHANGED <<client, chans, dropped>> /\ k \in Nat /\ call[k] = "new"
  BY DEF CallNameNode, table, Calls
<1>2. \A l \in Links : Up(l, First)' <=> Up(l, First)
  BY <1>1 DEF Up
<1> PICK o \in Links \union {None} :
      /\ o \in Reached
      /\ call' = [call EXCEPT ![k] = IF o = None THEN "false" ELSE "waiting"]
      /\ q' = IF o = None THEN q ELSE [q EXCEPT ![o][First] = Append(@, Frame("call", k))]
  BY CallMeans
<1>3. CASE o = None
  <2>1. q' = q /\ call'[k] = "false" /\ \A j \in Calls : j # k => call'[j] = call[j]
    BY <1>3 DEF Types, TrafficTypes
  <2>2. \A j \in Calls, l \in Links : Known(j, l)' <=> Known(j, l)
    BY <1>1, <2>1 DEF Known
  <2> QED
    BY <1>1, <1>2, <2>1, <2>2 DEF CallsRight
<1>4. CASE o # None
  <2> PICK m : m = Frame("call", k)
    OBVIOUS
  <2>1. o \in Links /\ Up(o, First)
    BY <1>4, ReachedUp
  <2>2. m \in Frames /\ q' = [q EXCEPT ![o][First] = Append(@, m)]
    BY <1>1, <1>4 DEF Frame, Frames, Tags
  <2>3. call'[k] = "waiting" /\ \A j \in Calls : j # k => call'[j] = call[j]
    BY <1>4 DEF Types, TrafficTypes
  <2>4. /\ q[o][First] \in Seq(Frames) /\ q'[o][First] = Append(q[o][First], m)
        /\ \A j \in Links, x \in Nodes : j # o \/ x # First => q'[j][x] = q[j][x]
    <3>1. o \in Links /\ First \in Nodes /\ m \in Frames /\ Mails(o, First, m)
      BY <2>1, <2>2, NodesAre DEF Mails
    <3> QED
      BY <3>1, MailsMeans
  <2>5. \A y : Has(q'[o][First], y) <=> Has(q[o][First], y) \/ y = m
    BY <2>2, <2>4, Added
  <2>6. \A j \in Nat : Frame("call", j) = m <=> j = k
    BY <1>1 DEF Frame
  <2>7. \A j \in Calls, l \in Links : Known(j, l)' <=> Known(j, l) \/ (j = k /\ l = o)
    <3>1. \A j \in Calls : j \in Nat
      BY DEF Calls
    <3>2. \A j \in Calls : Known(j, o)' <=> Known(j, o) \/ j = k
      BY <1>1, <2>5, <2>6, <3>1 DEF Known
    <3>3. \A j \in Calls, l \in Links : l # o => (Known(j, l)' <=> Known(j, l))
      BY <1>1, <2>4, NodesAre DEF Known
    <3> QED
      BY <3>2, <3>3, <2>1
  <2>8. \A l \in Links : q'[l][Second] = q[l][Second]
    BY <2>4, NodesAre, BoundsAssumption
  <2>9. \A l \in Links : ~Known(k, l)
    BY <1>1 DEF CallsRight
  <2>10. ASSUME NEW j \in Calls
         PROVE  /\ call'[j] = "new" => \A l \in Links : ~Known(j, l)'
                /\ \A l, i \in Links : Known(j, l)' /\ Known(j, i)' => l = i
                /\ call'[j] = "waiting" => (\E l \in Links : Known(j, l)') \/ dropped'[First] # {}
    <3>1. CASE j = k
      BY <3>1, <2>1, <2>3, <2>7, <2>9
    <3>2. CASE j # k
      BY <3>2, <1>1, <2>3, <2>7 DEF CallsRight
    <3> QED
      BY <3>1, <3>2
  <2> QED
    BY <1>1, <1>2, <2>8, <2>10 DEF CallsRight
<1> QED
  BY <1>3, <1>4

(* A call is written: from the mailbox it gets to the channels.            *)
LEMMA CallsWrite ==
  ASSUME Types, CallsRight, NEW l \in Links, NEW n \in Nodes, HandleWrite(l, n)
  PROVE  CallsRight'
<1> PICK m : m = q[l][n][1]
  OBVIOUS
<1>1. Handles(l, n) /\ UNCHANGED <<call, dropped, client>>
  BY DEF HandleWrite, table
<1>2. /\ q[l][n] \in Seq(Frames) /\ q[l][n] # <<>> /\ q'[l][n] = Tail(q[l][n]) /\ m \in Frames /\ Up(l, n)
      /\ \A j \in Links, x \in Nodes : j # l \/ x # n => q'[j][x] = q[j][x]
  BY <1>1, HandlesMeans
<1>3. \A j \in Links : Up(j, First)' <=> Up(j, First)
  BY <1>1 DEF Up
<1>4. CASE m.t # "call"
  <2>1. chans' = chans
    BY <1>4 DEF HandleWrite, Next1
  <2> QED
    BY <1>1, <1>3, <1>4, <2>1, HandlesNoCall, CallsStay
<1>5. CASE m.t = "call"
  <2>1. m = Frame("call", m.k) /\ m.k \in Nat
    BY <1>2, <1>5 DEF Frame, Frames
  <2>2. Has(q[l][n], m)
    BY <1>2, Taken
  <2>3. n = First
    BY <2>1, <2>2 DEF CallsRight, Nodes
  <2>4. chans'[l] = chans[l] \union {m.k} /\ \A j \in Links : j # l => chans'[j] = chans[j]
    BY <1>5 DEF HandleWrite, Next1, Types, TrafficTypes
  <2>5. /\ \A y : Has(q'[l][First], y) => Has(q[l][First], y)
        /\ \A y : Has(q[l][First], y) => y = m \/ Has(q'[l][First], y)
    BY <1>2, <2>3, Taken
  <2>6. \A k \in Nat : Frame("call", k) = m => k = m.k
    BY <1>2, CallFrame
  <2>7. \A k \in Calls, j \in Links : Known(k, j)' <=> Known(k, j)
    <3>1. \A k \in Calls : k \in Nat
      BY DEF Calls
    <3>2. \A k \in Calls : Known(k, l)' <=> Known(k, l)
      BY <2>1, <2>2, <2>3, <2>4, <2>5, <2>6, <3>1 DEF Known
    <3>3. \A k \in Calls, j \in Links : j # l => (Known(k, j)' <=> Known(k, j))
      BY <1>2, <2>4, NodesAre DEF Known
    <3> QED
      BY <3>2, <3>3
  <2>8. \A j \in Links : q'[j][Second] = q[j][Second]
    BY <1>2, <2>3, NodesAre, BoundsAssumption
  <2>9. \A j \in Links : ~Up(j, First)' => chans'[j] = {}
    BY <1>2, <1>3, <2>3, <2>4 DEF CallsRight
  <2> QED
    BY <1>1, <2>7, <2>8, <2>9, CallsKept
<1> QED
  BY <1>4, <1>5

(* A reply: the channel of its call is gone, and a call that waits ends.   *)
LEMMA CallsReply ==
  ASSUME Types, CallsRight, NEW l \in Links, NEW n \in Nodes, HandleReply(l, n)
  PROVE  CallsRight'
<1> PICK m : m = q[l][n][1]
  OBVIOUS
<1>1. Handles(l, n) /\ m.t # "call" /\ UNCHANGED <<dropped, client>>
  BY DEF HandleReply, table, Next1
<1>2. \A j \in Links : Up(j, First)' <=> Up(j, First)
  BY <1>1 DEF Up
<1>3. \A j \in Links, x \in Nodes, k \in Nat : CallIn(q'[j][x], k) <=> CallIn(q[j][x], k)
  BY <1>1, HandlesNoCall
<1>4. chans'[l] = chans[l] \ {m.k} /\ \A j \in Links : j # l => chans'[j] = chans[j]
  BY DEF HandleReply, Next1, Types, TrafficTypes
<1>5. \A k \in Calls : k \in Nat
  BY DEF Calls
<1>6. \A k \in Calls, j \in Links : Known(k, j)' <=> Known(k, j) /\ (CallIn(q[j][First], k) \/ k # m.k \/ j # l)
  BY <1>3, <1>4, <1>5, NodesAre DEF Known, CallIn
<1>7. \A k \in Calls : \/ call'[k] = call[k] /\ (k # m.k \/ k \notin chans[l] \/ call[k] # "waiting")
                       \/ call'[k] \in {"ok", "nil"}
  BY DEF HandleReply, Next1, Types, TrafficTypes
<1>8. ASSUME NEW k \in Calls
      PROVE  /\ call'[k] = "new" => \A j \in Links : ~Known(k, j)'
             /\ \A j, i \in Links : Known(k, j)' /\ Known(k, i)' => j = i
             /\ call'[k] = "waiting" => (\E j \in Links : Known(k, j)') \/ dropped'[First] # {}
  <2>1. CASE call'[k] \in {"ok", "nil"}
    BY <2>1, <1>6 DEF CallsRight
  <2>2. CASE call'[k] = call[k] /\ (k # m.k \/ k \notin chans[l] \/ call[k] # "waiting")
    <3>1. call[k] = "waiting" => \A j \in Links : Known(k, j)' <=> Known(k, j)
      BY <2>2, <1>6 DEF Known, CallIn
    <3> QED
      BY <2>2, <3>1, <1>1, <1>6 DEF CallsRight
  <2> QED
    BY <2>1, <2>2, <1>7
<1>9. \A j \in Links : ~Up(j, First)' => chans'[j] = {}
  BY <1>2, <1>4 DEF CallsRight
<1>10. \A j \in Links, k \in Nat : ~CallIn(q'[j][Second], k)
  BY <1>3, NodesAre DEF CallsRight, CallIn
<1> QED
  BY <1>8, <1>9, <1>10 DEF CallsRight, CallIn

(* A client ends: what was with it is lost, and the node has dropped one.  *)
LEMMA CallsEnd ==
  ASSUME Types, Numbered, CallsRight, NEW l \in Links, NEW n \in Nodes, Ends(l, n), UNCHANGED call
  PROVE  CallsRight'
<1>1. q'[l][n] = <<>> /\ \A j \in Links, x \in Nodes : j # l \/ x # n => q'[j][x] = q[j][x]
  BY DEF Ends, Types, QueueTypes, Queues
<1>2. /\ \A j \in Links : chans'[j] = IF n = First /\ j = l THEN {} ELSE chans[j]
      /\ dropped[First] # {} => dropped'[First] # {}
      /\ n = First /\ Up(l, n) => dropped'[First] # {}
  <2>1. \A j \in Links : chans'[j] = IF n = First /\ j = l THEN {} ELSE chans[j]
    BY DEF Ends, Types, TrafficTypes
  <2>2. \A x \in Nodes : dropped[x] \subseteq dropped'[x]
    BY DEF Ends, Types, TableTypes
  <2>3. n = First /\ Up(l, n) => idOf[l][n] \in dropped'[First]
    BY NodesAre DEF Ends, Types, TableTypes
  <2> QED
    BY <2>1, <2>2, <2>3, NodesAre
<1>3. \A j \in Links : j # l \/ n # First => (Up(j, First)' <=> Up(j, First))
  BY NodesAre DEF Ends, Up, Types, LinkTypes
<1>4. \A j \in Links : ~Up(j, First)' => chans'[j] = {}
  BY <1>2, <1>3 DEF CallsRight
<1>5. \A x : ~Has(<<>>, x)
  BY FewerNone
<1>6. \A j \in Links, k \in Nat : ~CallIn(q'[j][Second], k)
  BY <1>1, <1>5, NodesAre DEF CallsRight, CallIn
<1>7. \A j \in Links, k \in Calls : Known(k, j)' => Known(k, j)
  BY <1>1, <1>2, <1>5, NodesAre DEF Known
<1>8. ASSUME NEW k \in Calls, dropped'[First] = {}, NEW j \in Links, Known(k, j) PROVE Known(k, j)'
  <2>1. CASE n = First /\ j = l
    <3>1. ~Up(l, First)
      BY <1>2, <1>8, <2>1
    <3>2. q[l][First] = <<>> /\ chans[l] = {}
      BY <3>1, NodesAre DEF Numbered, CallsRight
    <3> QED
      BY <1>5, <1>8, <2>1, <3>2 DEF Known
  <2>2. CASE ~(n = First /\ j = l)
    <3>1. q'[j][First] = q[j][First] /\ chans'[j] = chans[j]
      BY <1>1, <1>2, <2>2, NodesAre
    <3> QED
      BY <1>8, <3>1 DEF Known
  <2> QED
    BY <2>1, <2>2
<1>9. ASSUME NEW k \in Calls
      PROVE  /\ call'[k] = "new" => \A j \in Links : ~Known(k, j)'
             /\ \A j, i \in Links : Known(k, j)' /\ Known(k, i)' => j = i
             /\ call'[k] = "waiting" => (\E j \in Links : Known(k, j)') \/ dropped'[First] # {}
  BY <1>2, <1>7, <1>8 DEF CallsRight
<1> QED
  BY <1>4, <1>6, <1>9 DEF CallsRight, CallIn

LEMMA CallsStep == Types /\ LinksRight /\ CallsRight /\ [Next]_vars => CallsRight'
<1> SUFFICES ASSUME Types, LinksRight, CallsRight, [Next]_vars PROVE CallsRight'
  OBVIOUS
<1>0. Numbered
  BY DEF LinksRight
<1>1. CASE \/ UNCHANGED vars
           \/ \E c \in Callers : Check(c) \/ DialFails(c) \/ DialTimeout(c)
           \/ \E l \in Links, how \in {"silent", "broken"} : Fail(l, how)
           \/ \E g \in Getters, n \in Nodes : StoreGetter(g, n)
           \/ \E l \in Links, n \in Nodes : Lose(l, n)
           \/ Cast /\ q' = q
           \/ \E g \in Getters, n \in Nodes : StoreGetter(g, n)
  <2>1. UNCHANGED <<call, chans, dropped, client, q>>
    BY <1>1 DEF vars, Check, DialFails, DialTimeout, Fail, Lose, Cast, StoreGetter, calls, table
  <2> QED
    BY <2>1, CallsStay DEF Up
<1>2. ASSUME NEW c \in Callers, Dial(c) PROVE CallsRight'
  <2> PICK l \in Links, n \in Nodes :
        /\ Unused(l)
        /\ \E how \in {"dialing", "none"} :
             client' = [client EXCEPT ![l][Other(n)] = "accepted", ![l][n] = how]
        /\ UNCHANGED <<bound, at, q, calls, ids, net, dropped, casts, inbox>>
    BY <1>0, <1>2, DialMeans
  <2>1. ~Up(l, First)
    BY <1>0, NodesAre DEF Numbered, Up
  <2>2. \A j \in Links : j # l => client'[j] = client[j]
    BY DEF Types, LinkTypes
  <2>3. \A j \in Links : Up(j, First) => Up(j, First)'
    BY <2>1, <2>2 DEF Up
  <2>4. UNCHANGED <<call, chans, dropped, q>>
    BY DEF calls
  <2> QED
    BY <2>3, <2>4, CallsStay
<1>3. ASSUME NEW l \in Links, NEW n \in Nodes, GetNode(l, n) \/ StoreNode(l, n) \/ SetNodeNetWork(l, n)
      PROVE  CallsRight'
  <2>1. UNCHANGED <<call, chans, dropped, q>>
    BY <1>3 DEF GetNode, StoreNode, SetNodeNetWork, calls
  <2>2. /\ client[l][n] # "up"
        /\ \E how \in {"naming", "entering", "up"} : client' = [client EXCEPT ![l][n] = how]
    BY <1>3 DEF GetNode, StoreNode, SetNodeNetWork
  <2>3. \A j \in Links : Up(j, First) => Up(j, First)'
    BY <2>2, NodesAre DEF Up, Types, LinkTypes
  <2> QED
    BY <2>1, <2>3, CallsStay
<1>4. ASSUME NEW l \in Links, NEW n \in Nodes, HandshakeEnds(l, n) \/ ClientEnds(l, n) PROVE CallsRight'
  <2>1. Ends(l, n) /\ UNCHANGED call
    BY <1>4 DEF HandshakeEnds, ClientEnds
  <2> QED
    BY <1>0, <2>1, CallsEnd
<1>5. ASSUME NEW l \in Links, NEW n \in Nodes, TimerTick(l, n) \/ RecEnds(l, n) PROVE CallsRight'
  <2>1. UNCHANGED <<call, chans, dropped, client>>
    BY <1>5 DEF TimerTick, RecEnds, calls, table
  <2>2. PICK m \in Frames : m.t # "call" /\ q' = [q EXCEPT ![l][n] = Append(@, m)]
    BY <1>5 DEF TimerTick, RecEnds, Tick, Err, Frame, Frames, Tags
  <2>3. \A j \in Links, x \in Nodes, k \in Nat : CallIn(q'[j][x], k) <=> CallIn(q[j][x], k)
    BY <2>2, MailNoCall, Zenon
  <2> QED
    BY <2>1, <2>3, CallsStay DEF Up
<1>6. CASE Cast
  <2>1. UNCHANGED <<call, chans, dropped, client>>
    BY <1>6 DEF Cast, calls, table
  <2> PICK l \in Links \union {None} :
        q' = IF l = None THEN q ELSE [q EXCEPT ![l][First] = Append(@, Frame("cast", Len(casts) + 1))]
    BY <1>6, CastMeans
  <2>2. CASE l = None
    BY <1>1, <1>6, <2>2
  <2>3. CASE l # None
    <3> PICK m : m = Frame("cast", Len(casts) + 1)
      OBVIOUS
    <3>1. m \in Frames /\ m.t # "call"
      BY DEF Frame, Frames, Tags, Types, TrafficTypes
    <3>2. l \in Links /\ First \in Nodes /\ Mails(l, First, m)
      BY <2>3, NodesAre DEF Mails
    <3>3. \A j \in Links, x \in Nodes, k \in Nat : CallIn(q'[j][x], k) <=> CallIn(q[j][x], k)
      BY <3>1, <3>2, MailsNoCall
    <3> QED
      BY <2>1, <3>3, CallsStay DEF Up
  <2> QED
    BY <2>2, <2>3
<1>7. ASSUME NEW k \in Calls, CallNameNode(k) PROVE CallsRight'
  BY <1>7, CallsMake
<1>8. ASSUME NEW k \in Calls, CallTimeout(k) PROVE CallsRight'
  <2>1. UNCHANGED <<chans, dropped, client, q>>
    BY <1>8 DEF CallTimeout, table
  <2>2. call'[k] = "false" /\ \A j \in Calls : j # k => call'[j] = call[j]
    BY <1>8 DEF CallTimeout, Types, TrafficTypes
  <2>3. \A j \in Calls, l \in Links : Known(j, l)' <=> Known(j, l)
    BY <2>1 DEF Known
  <2>4. \A l \in Links : Up(l, First)' <=> Up(l, First)
    BY <2>1 DEF Up
  <2> QED
    BY <2>1, <2>2, <2>3, <2>4 DEF CallsRight
<1>9. ASSUME NEW k \in Calls, NEW l \in Links, NEW t \in {"result", "nilresult"}, Serve(k, l, t) PROVE CallsRight'
  <2>1. UNCHANGED <<call, chans, dropped, client>>
    BY <1>9 DEF Serve, table
  <2> PICK m : m = Frame(t, k)
    OBVIOUS
  <2>2. m \in Frames /\ m.t # "call"
    BY DEF Frame, Frames, Tags, Calls
  <2>3. \A j \in Links, x \in Nodes, i \in Nat : CallIn(q'[j][x], i) <=> CallIn(q[j][x], i)
    <3>1. CASE q' = q
      BY <3>1
    <3>2. CASE q' = [q EXCEPT ![l][Second] = Append(@, m)]
      BY <2>2, <3>2, MailNoCall, NodesAre, Zenon
    <3> QED
      BY <1>9, <3>1, <3>2 DEF Serve
  <2> QED
    BY <2>1, <2>3, CallsStay DEF Up
<1>10. ASSUME NEW l \in Links, NEW n \in Nodes, RecPacket(l, n) PROVE CallsRight'
  <2>1. UNCHANGED <<call, chans, dropped, client>>
    BY <1>10 DEF RecPacket, table
  <2> PICK f : f = wire[l][n][1]
    OBVIOUS
  <2>2. f \in Frames
    BY <1>10, Taken DEF RecPacket, Types, QueueTypes, Queues
  <2>3. q' = q \/ \E m \in Frames : m.t # "call" /\ q' = [q EXCEPT ![l][n] = Append(@, m)]
    <3>1. CASE q' = q
      BY <3>1
    <3>2. CASE q' = [q EXCEPT ![l][n] = Append(@, Frame("bytes", f.k))]
      <4>1. Frame("bytes", f.k) \in Frames /\ Frame("bytes", f.k).t # "call"
        BY <2>2 DEF Frame, Frames, Tags
      <4> QED
        BY <3>2, <4>1
    <3>3. CASE f.t \in {"ping", "pong", "reply", "nilreply"} /\ q' = [q EXCEPT ![l][n] = Append(@, f)]
      BY <2>2, <3>3
    <3> QED
      BY <1>10, <3>1, <3>2, <3>3 DEF RecPacket
  <2>4. \A j \in Links, x \in Nodes, k \in Nat : CallIn(q'[j][x], k) <=> CallIn(q[j][x], k)
    <3>1. CASE q' = q
      BY <3>1
    <3>2. ASSUME NEW m \in Frames, m.t # "call", q' = [q EXCEPT ![l][n] = Append(@, m)]
          PROVE  \A j \in Links, x \in Nodes, k \in Nat : CallIn(q'[j][x], k) <=> CallIn(q[j][x], k)
      BY <3>2, MailNoCall, Zenon
    <3> QED
      BY <2>3, <3>1, <3>2
  <2> QED
    BY <2>1, <2>4, CallsStay DEF Up
<1>11. ASSUME NEW l \in Links, NEW n \in Nodes, HandlePing(l, n) \/ HandleTick(l, n) PROVE CallsRight'
  <2>1. Handles(l, n) /\ q[l][n][1].t # "call" /\ UNCHANGED <<call, chans, dropped, client>>
    BY <1>11 DEF HandlePing, HandleTick, Next1, Tick, Frame, calls, table
  <2>2. \A j \in Links, x \in Nodes, k \in Nat : CallIn(q'[j][x], k) <=> CallIn(q[j][x], k)
    BY <2>1, HandlesNoCall
  <2> QED
    BY <2>1, <2>2, CallsStay DEF Up
<1>12. ASSUME NEW l \in Links, NEW n \in Nodes, HandleWrite(l, n) \/ HandleReply(l, n) PROVE CallsRight'
  BY <1>12, CallsWrite, CallsReply
<1> QED
  BY <1>1, <1>2, <1>3, <1>4, <1>5, <1>6, <1>7, <1>8, <1>9, <1>10, <1>11, <1>12 DEF Next, Handle

LEMMA CallsMean == CallsRight => CallsKnown
<1> SUFFICES ASSUME CallsRight, NEW k \in Calls
             PROVE  /\ Cardinality({l \in Links : Known(k, l)}) <= 1
                    /\ call[k] = "waiting" => (\E l \in Links : Known(k, l)) \/ dropped[First] # {}
  BY DEF CallsKnown, Known
<1>1. CASE \A l \in Links : ~Known(k, l)
  <2>1. {l \in Links : Known(k, l)} = {}
    BY <1>1
  <2>2. Cardinality({l \in Links : Known(k, l)}) = 0
    BY <2>1, FS_EmptySet, Zenon
  <2> QED
    BY <2>2 DEF CallsRight
<1>2. ASSUME NEW j \in Links, Known(k, j) PROVE Cardinality({l \in Links : Known(k, l)}) <= 1
  <2>1. {l \in Links : Known(k, l)} = {j}
    BY <1>2 DEF CallsRight
  <2>2. Cardinality({l \in Links : Known(k, l)}) = 1
    BY <2>1, FS_Singleton, Zenon
  <2> QED
    BY <2>2
<1> QED
  BY <1>1, <1>2 DEF CallsRight

(* A call that waits is in the mailbox of the client of its link or in its *)
(* channels, unless a client of this node has ended; and it is with one    *)
(* link only, whichever links come and go: CallNameNode, the writing of    *)
(* the request, the reply and its nil form, Terminate (CallsKnown of       *)
(* NodeLink).                                                              *)
THEOREM CallsAreKnown == Spec => []CallsKnown
<1> DEFINE IInv == Types /\ LinksRight /\ CallsRight
<1>1. Init => IInv
  BY TypesInit, LinksInit, CallsInit
<1>2. IInv /\ [Next]_vars => IInv'
  BY TypesStep, LinksStep, CallsStep DEF LinksRight
<1>3. IInv => CallsKnown
  BY CallsMean
<1> HIDE DEF IInv
<1> QED
  BY <1>1, <1>2, <1>3, PTL DEF Spec
=============================================================================
