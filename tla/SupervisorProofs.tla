-------------------------- MODULE SupervisorProofs --------------------------
(***************************************************************************)
(* Proofs about Supervisor, for any descriptions, any initial children,    *)
(* any number of callers and crashes: the supervisor's list, map, mailbox  *)
(* and children fit each other, a supervisor that is gone leaves no child  *)
(* behind, and children are stopped in the reverse order of their starts.  *)
(***************************************************************************)
EXTENDS Supervisor, FiniteSetTheorems, SequenceTheorems, TLAPS

Reasons == {"normal", "error"}

\* A child in these stages has told its links that it exits.
Ended == {"told", "gone"}

\* The range of every variable.
Types == /\ sup \in SupStages /\ booted \in 0..Len(Boot)
         /\ mail \in Seq(Messages) /\ leaving \in Nat
         /\ list \in Seq(Pids)
         /\ cache \in [Pids -> Children \cup {None}]
         /\ todo \in Seq(Pids) /\ waiting \in Pids \cup {None}
         /\ pass \in Nat /\ asker \in Stoppers \cup {None}
         /\ child \in [Pids -> ChildStages]
         /\ of \in [Pids -> Children \cup {None}]
         /\ why \in [Pids -> {"normal", "error", "stop"}]
         /\ asked \in [Pids -> 0..pass]
         /\ heir \in [Pids -> Pids \cup {None}]
         /\ call \in [Callers -> {"free", "waiting", "answered", "failed"}]

\* Pids are used in their order.
InTurn == \E k \in Nat : \A p \in Pids : child[p] # "unused" <=> p <= k

Newest(s) == \A i, j \in 1..Len(s) : i < j => s[i] > s[j]

\* The newest child comes first, and the map has what the list has.
ListOK == /\ Newest(list)
          /\ Listed = {p \in Pids : cache[p] # None}

\* A child that has not told its links yet is known, one that was never
\* started is not.
KnownOK == \A p \in Pids : /\ child[p] \in {"alive", "dying"} => cache[p] # None
                           /\ child[p] = "unused" => cache[p] = None

\* An exit is told once, after SetDie, and its entry waits for it.
ExitsOK == /\ \A i \in 1..Len(mail), p \in Pids, r \in Reasons :
                 mail[i] = Exit(p, r) => child[p] \in Ended /\ cache[p] # None
           /\ \A i, j \in 1..Len(mail), p \in Pids, r, s \in Reasons :
                 mail[i] = Exit(p, r) /\ mail[j] = Exit(p, s) => i = j

\* Who was replaced has ended, and the new incarnation has been started.
HeirOK == /\ \A p \in Pids : heir[p] # None => child[p] \in Ended /\ child[heir[p]] # "unused"
          /\ \A p, q \in Pids : heir[p] = heir[q] /\ heir[p] # None => p = q

Ahead(p) == \E i \in 1..Len(todo) : todo[i] = p

\* stopAllChild has asked every child that is alive, or still has it in front
\* of it; no new one is started meanwhile.
SweepOK == /\ Newest(todo)
           /\ sup \in {"stopping", "terminating"} =>
                pass > 0 /\ \A p \in Pids : IsAlive(p) => Ahead(p) \/ asked[p] > 0
           /\ sup = "dead" => \A p \in Pids : IsAlive(p) => asked[p] > 0

IInv == Types /\ InTurn /\ ListOK /\ KnownOK /\ ExitsOK /\ HeirOK /\ SweepOK

-----------------------------------------------------------------------------
(* Facts about the data *)

LEMMA MaxPidNat == MaxPid \in Nat
<1>1. IsFiniteSet(Starters)
  BY PidAssumption, FS_Subset DEF Callers
<1>2. Cardinality(Starters) \in Nat
  BY <1>1, FS_CardinalityType
<1>3. Len(Boot) \in Nat
  BY ChildAssumption
<1> QED
  BY <1>2, <1>3, PidAssumption, FlagAssumption

\* Messages of different senders or kinds differ.
LEMMA MessageKinds ==
  /\ \A p, r, q, s : Exit(p, r) = Exit(q, s) => p = q /\ r = s
  /\ \A p, r, c, d : Exit(p, r) # StartOf(c, d)
  /\ \A p, r, c : Exit(p, r) # StopBy(c)
  /\ \A p, r : Exit(p, r) # Leave
<1>1. ASSUME NEW p, NEW r PROVE Exit(p, r).type = "exit" /\ Exit(p, r).pid = p /\ Exit(p, r).reason = r
  BY DEF Exit
<1>2. ASSUME NEW c, NEW d PROVE StartOf(c, d).type = "start"
  BY DEF StartOf
<1>3. ASSUME NEW c PROVE StopBy(c).type = "stop"
  BY DEF StopBy
<1>4. Leave.type = "leave"
  BY DEF Leave
<1> QED
  BY <1>1, <1>2, <1>3, <1>4

LEMMA MessageTypes ==
  /\ \A p \in Pids, r \in Reasons : Exit(p, r) \in Messages
  /\ \A c \in Starters, d \in Children : StartOf(c, d) \in Messages
  /\ \A c \in Stoppers : StopBy(c) \in Messages
  /\ Leave \in Messages
  BY DEF Messages, Reasons

\* The tail of a sequence with the newest first is one as well.
LEMMA NewestTail ==
  ASSUME NEW s \in Seq(Pids), Newest(s), s # <<>>
  PROVE  /\ Tail(s) \in Seq(Pids) /\ Newest(Tail(s))
         /\ \A i \in 1..Len(s) : s[i] = Head(s) \/ \E j \in 1..Len(Tail(s)) : Tail(s)[j] = s[i]
<1>1. /\ Tail(s) \in Seq(Pids) /\ Len(Tail(s)) = Len(s) - 1 /\ Len(s) \in Nat
      /\ \A i \in 1..Len(Tail(s)) : Tail(s)[i] = s[i + 1]
      /\ Head(s) = s[1]
  BY HeadTailProperties, LenProperties
<1>2. ASSUME NEW i \in 1..Len(s), i # 1 PROVE i - 1 \in 1..Len(Tail(s)) /\ Tail(s)[i - 1] = s[i]
  BY <1>1, <1>2
<1> QED
  BY <1>1, <1>2 DEF Newest

\* A pid that is started is the smallest unused one.
LEMMA FreshPid ==
  ASSUME Types, InTurn, NEW p \in Pids, NEW d, Run(p, d)
  PROVE  /\ \A q \in Pids : child[q] # "unused" <=> q < p
         /\ child' = [child EXCEPT ![p] = "alive"]
         /\ InTurn'
<1>1. PICK k \in Nat : \A q \in Pids : child[q] # "unused" <=> q <= k
  BY DEF InTurn
<1>2. PICK m \in Nat : m <= k /\ m <= MaxPid /\ (m = k \/ m = MaxPid)
  BY MaxPidNat
<1>3. {q \in Pids : child[q] # "unused"} = 1..m
  BY <1>1, <1>2, MaxPidNat DEF Pids
<1>4. Cardinality(1..m) = m
  BY <1>2, FS_Interval
<1>5. p = m + 1
  <2>1. Cardinality({q \in Pids : child[q] # "unused"}) = m
    BY <1>3, <1>4
  <2> QED
    BY <2>1 DEF Run
<1>6. m = k
  BY <1>2, <1>5, MaxPidNat DEF Pids
<1>7. child' = [child EXCEPT ![p] = "alive"]
  BY DEF Run
<1>8. \A q \in Pids : child'[q] # "unused" <=> q <= k + 1
  BY <1>1, <1>5, <1>6, <1>7 DEF Types, Pids
<1> QED
  BY <1>1, <1>5, <1>6, <1>7, <1>8 DEF InTurn, Pids

Elements(s) == {s[i] : i \in 1..Len(s)}

\* A younger pid in front of a list.
LEMMA PutFirst ==
  ASSUME NEW s \in Seq(Pids), Newest(s), NEW p \in Pids, \A q \in Elements(s) : q < p
  PROVE  /\ <<p>> \o s \in Seq(Pids)
         /\ Newest(<<p>> \o s)
         /\ Elements(<<p>> \o s) = Elements(s) \cup {p}
<1> DEFINE t == <<p>> \o s
<1>1. /\ t \in Seq(Pids) /\ Len(t) = Len(s) + 1 /\ Len(s) \in Nat
      /\ t[1] = p /\ \A i \in 1..Len(s) : t[i + 1] = s[i]
  BY ConcatProperties
<1>2. \A i \in 1..Len(t) : i # 1 => i - 1 \in 1..Len(s) /\ t[i] = s[i - 1]
  BY <1>1
<1> HIDE DEF t
<1>3. Newest(t)
  <2> SUFFICES ASSUME NEW i \in 1..Len(t), NEW j \in 1..Len(t), i < j PROVE t[i] > t[j]
    BY DEF Newest
  <2>1. j # 1 /\ j - 1 \in 1..Len(s) /\ t[j] = s[j - 1]
    BY <1>1, <1>2
  <2>2. CASE i = 1
    BY <1>1, <2>1, <2>2 DEF Elements, Pids
  <2>3. CASE i # 1
    <3>1. i - 1 \in 1..Len(s) /\ t[i] = s[i - 1] /\ i - 1 < j - 1
      BY <1>1, <1>2, <2>3
    <3> QED
      BY <2>1, <3>1 DEF Newest
  <2> QED
    BY <2>2, <2>3
<1>4. Elements(t) = Elements(s) \cup {p}
  <2>1. ASSUME NEW x \in Elements(t) PROVE x \in Elements(s) \cup {p}
    BY <1>1, <1>2 DEF Elements
  <2>2. ASSUME NEW x \in Elements(s) PROVE x \in Elements(t)
    <3>1. PICK i \in 1..Len(s) : x = s[i]
      BY DEF Elements
    <3>2. i + 1 \in 1..Len(t) /\ t[i + 1] = x
      BY <1>1, <3>1
    <3> QED
      BY <3>2 DEF Elements
  <2>3. p \in Elements(t)
    BY <1>1 DEF Elements
  <2> QED
    BY <2>1, <2>2, <2>3
<1> QED
  BY <1>1, <1>3, <1>4 DEF t

\* BMap.Delete takes out the one element it is asked for and keeps the order.
LEMMA Delete ==
  ASSUME list \in Seq(Pids), Newest(list), NEW p \in Pids
  PROVE  /\ Unlisted(p) \in Seq(Pids)
         /\ Newest(Unlisted(p))
         /\ Elements(Unlisted(p)) = Listed \ {p}
<1>1. CASE p \notin Listed
  BY <1>1 DEF Unlisted, Listed, Elements
<1>2. CASE p \in Listed
  <2> DEFINE at == CHOOSE i \in 1..Len(list) : list[i] = p
             a == SubSeq(list, 1, at - 1)
             b == SubSeq(list, at + 1, Len(list))
             t == a \o b
  <2>1. at \in 1..Len(list) /\ list[at] = p
    BY <1>2 DEF Listed
  <2>2. Unlisted(p) = t
    BY <1>2 DEF Unlisted
  <2> HIDE DEF at
  <2>3. /\ Len(list) \in Nat /\ \A i \in 1..Len(list) : list[i] \in Pids
    BY LenProperties
  <2>4. /\ a \in Seq(Pids) /\ Len(a) = at - 1
        /\ \A i \in 1..(at - 1) : a[i] = list[i]
    BY <2>1, <2>3, SubSeqProperties
  <2>5. /\ b \in Seq(Pids) /\ Len(b) = Len(list) - at
        /\ \A i \in 1..(Len(list) - at) : b[i] = list[at + i]
    BY <2>1, <2>3, SubSeqProperties
  <2> HIDE DEF a, b
  <2>6. /\ t \in Seq(Pids) /\ Len(t) = Len(list) - 1
        /\ \A i \in 1..(Len(list) - 1) : t[i] = IF i < at THEN list[i] ELSE list[i + 1]
    <3>1. /\ t \in Seq(Pids) /\ Len(t) = Len(a) + Len(b)
          /\ \A i \in 1..(Len(a) + Len(b)) : t[i] = IF i <= Len(a) THEN a[i] ELSE b[i - Len(a)]
      BY <2>4, <2>5, ConcatProperties
    <3>2. \A i \in 1..(Len(list) - 1) : i < at => i \in 1..(at - 1)
      BY <2>1, <2>3
    <3>3. \A i \in 1..(Len(list) - 1) : ~(i < at) => /\ i - (at - 1) \in 1..(Len(list) - at)
                                                     /\ at + (i - (at - 1)) = i + 1
      BY <2>1, <2>3
    <3> HIDE DEF t
    <3>4. ASSUME NEW i \in 1..(Len(list) - 1), i < at PROVE t[i] = list[i]
      <4>1. i \in 1..(Len(a) + Len(b)) /\ i <= Len(a) /\ i \in 1..(at - 1)
        BY <3>4, <2>1, <2>3, <2>4, <2>5
      <4> QED
        BY <3>1, <4>1, <2>4
    <3>5. ASSUME NEW i \in 1..(Len(list) - 1), ~(i < at) PROVE t[i] = list[i + 1]
      <4>1. i \in 1..(Len(a) + Len(b)) /\ ~(i <= Len(a)) /\ Len(a) = at - 1
        BY <3>5, <2>1, <2>3, <2>4, <2>5
      <4>2. t[i] = b[i - (at - 1)]
        BY <3>1, <4>1
      <4> QED
        BY <4>2, <3>3, <3>5, <2>5
    <3>6. Len(a) + Len(b) = Len(list) - 1
      BY <2>1, <2>3, <2>4, <2>5
    <3>7. t \in Seq(Pids) /\ Len(t) = Len(list) - 1
      BY <3>1, <3>6
    <3> QED
      BY <3>4, <3>5, <3>7
  <2> HIDE DEF t
  <2>7. Newest(t)
    BY <2>1, <2>3, <2>6 DEF Newest
  <2>8. \A i \in 1..Len(list) : list[i] = p => i = at
    BY <2>1, <2>3 DEF Newest, Pids
  <2>9. \A i \in 1..Len(t) : t[i] \in Listed \ {p}
    BY <2>1, <2>3, <2>6, <2>8 DEF Listed
  <2>10. ASSUME NEW q \in Listed \ {p} PROVE q \in Elements(t)
    <3>1. PICK i \in 1..Len(list) : list[i] = q /\ i # at
      BY <2>1, <2>8 DEF Listed
    <3>2. CASE i < at
      BY <2>1, <2>3, <2>6, <3>1, <3>2 DEF Elements
    <3>3. CASE i > at
      <4>1. i - 1 \in 1..(Len(list) - 1) /\ ~(i - 1 < at) /\ (i - 1) + 1 = i
        BY <2>1, <2>3, <3>3
      <4>2. t[i - 1] = q
        BY <2>6, <3>1, <4>1
      <4> QED
        BY <2>6, <4>1, <4>2 DEF Elements
    <3> QED
      BY <2>1, <3>1, <3>2, <3>3
  <2> QED
    BY <2>2, <2>6, <2>7, <2>9, <2>10 DEF Elements
<1> QED
  BY <1>1, <1>2

-----------------------------------------------------------------------------
(* What steps have in common *)

\* The mailbox loses its first message; if that was an exit, its entry may go.
LEMMA TailMail ==
  ASSUME Types, ExitsOK, mail # <<>>, mail' = Tail(mail),
         \A p \in Pids : child[p] \in Ended => child'[p] \in Ended,
         \A p \in Pids : cache[p] # None
            => cache'[p] # None \/ \E r \in Reasons : Head(mail) = Exit(p, r)
  PROVE  mail' \in Seq(Messages) /\ ExitsOK'
<1>1. /\ mail' \in Seq(Messages) /\ Len(mail') = Len(mail) - 1 /\ Len(mail) \in Nat
      /\ Head(mail) = mail[1]
      /\ \A i \in 1..Len(mail') : mail'[i] = mail[i + 1] /\ i + 1 \in 1..Len(mail) /\ 1 # i + 1
      /\ 1 \in 1..Len(mail)
  BY HeadTailProperties, LenProperties DEF Types
<1>2. ASSUME NEW i \in 1..Len(mail'), NEW p \in Pids, NEW r \in Reasons, mail'[i] = Exit(p, r)
      PROVE  child'[p] \in Ended /\ cache'[p] # None
  <2>1. mail[i + 1] = Exit(p, r) /\ i + 1 \in 1..Len(mail) /\ 1 # i + 1
    BY <1>1, <1>2
  <2>2. child[p] \in Ended /\ cache[p] # None
    BY <2>1 DEF ExitsOK
  <2>3. \A s \in Reasons : Head(mail) # Exit(p, s)
    BY <1>1, <2>1 DEF ExitsOK
  <2> QED
    BY <2>2, <2>3
<1>3. ASSUME NEW i \in 1..Len(mail'), NEW j \in 1..Len(mail'), NEW p \in Pids,
             NEW r \in Reasons, NEW s \in Reasons, mail'[i] = Exit(p, r), mail'[j] = Exit(p, s)
      PROVE  i = j
  <2>1. i + 1 = j + 1
    BY <1>1, <1>3 DEF ExitsOK
  <2> QED
    BY <2>1, <1>1
<1> QED
  BY <1>1, <1>2, <1>3 DEF ExitsOK

\* The mailbox gets a message: an exit only of a child that told it just now.
LEMMA PostMail ==
  ASSUME Types, ExitsOK, NEW m \in Messages, Post(m) \/ mail' = Append(mail, m), cache' = cache,
         \A p \in Pids : child[p] \in Ended => child'[p] \in Ended,
         \A p \in Pids, r \in Reasons : m = Exit(p, r)
            => child'[p] \in Ended /\ child[p] \notin Ended /\ cache[p] # None
  PROVE  mail' \in Seq(Messages) /\ ExitsOK'
<1>1. CASE mail' = mail
  BY <1>1 DEF Types, ExitsOK
<1>2. CASE mail' = Append(mail, m)
  <2>1. /\ mail' \in Seq(Messages) /\ Len(mail') = Len(mail) + 1 /\ Len(mail) \in Nat
        /\ \A i \in 1..Len(mail) : mail'[i] = mail[i]
        /\ mail'[Len(mail) + 1] = m
    BY <1>2, AppendProperties DEF Types
  <2>2. \A i \in 1..Len(mail') : i \in 1..Len(mail) \/ i = Len(mail) + 1
    BY <2>1
  <2>3. ASSUME NEW i \in 1..Len(mail'), NEW p \in Pids, NEW r \in Reasons, mail'[i] = Exit(p, r)
        PROVE  /\ child'[p] \in Ended /\ cache'[p] # None
               /\ i \in 1..Len(mail) => mail[i] = Exit(p, r) /\ child[p] \in Ended
               /\ i \notin 1..Len(mail) => child[p] \notin Ended
    BY <2>1, <2>2, <2>3 DEF ExitsOK
  <2>4. ASSUME NEW i \in 1..Len(mail'), NEW j \in 1..Len(mail'), NEW p \in Pids,
               NEW r \in Reasons, NEW s \in Reasons, mail'[i] = Exit(p, r), mail'[j] = Exit(p, s)
        PROVE  i = j
    <3>1. i \in 1..Len(mail) <=> j \in 1..Len(mail)
      BY <2>3, <2>4
    <3> QED
      BY <2>2, <2>3, <2>4, <3>1 DEF ExitsOK
  <2> QED
    BY <2>1, <2>3, <2>4 DEF ExitsOK
<1> QED
  BY <1>1, <1>2 DEF Post

\* No step but a new sweep and its own steps can disturb it.
LEMMA KeepSweep ==
  ASSUME SweepOK, todo' = todo, pass' = pass, asked' = asked,
         \/ sup' \notin {"stopping", "terminating", "dead"}
         \/ sup' = sup /\ \A p \in Pids : child'[p] = "alive" => IsAlive(p)
  PROVE  SweepOK'
  BY DEF SweepOK, Newest, Ahead, IsAlive

\* A sweep begins with the whole list, in which every living child is.
LEMMA BeginSweep ==
  ASSUME Types, ListOK, KnownOK, Sweep, child' = child, asked' = asked,
         sup' \in {"stopping", "terminating"}
  PROVE  /\ todo' \in Seq(Pids) /\ waiting' \in Pids \cup {None}
         /\ pass' \in Nat /\ asked' \in [Pids -> 0..pass']
         /\ SweepOK'
<1>1. /\ todo' \in Seq(Pids) /\ waiting' \in Pids \cup {None} /\ pass' \in Nat /\ pass' > 0
      /\ asked' \in [Pids -> 0..pass']
  BY DEF Types, Sweep
<1>2. Newest(todo)'
  BY DEF Sweep, ListOK, Newest
<1>3. \A p \in Pids : IsAlive(p)' => Ahead(p)'
  BY DEF KnownOK, ListOK, Listed, IsAlive, Ahead, Sweep
<1> QED
  BY <1>1, <1>2, <1>3 DEF SweepOK

\* A new child is put in front of what is left of the list.
LEMMA NewChild ==
  ASSUME Types, InTurn, ListOK, KnownOK, HeirOK,
         NEW p \in Pids, NEW d \in Children, Run(p, d),
         NEW s \in Seq(Pids), Newest(s), Elements(s) \subseteq Listed,
         list' = <<p>> \o s,
         cache' \in [Pids -> Children \cup {None}], cache'[p] # None,
         \A q \in Pids \ {p} : cache'[q] # None <=> q \in Elements(s),
         \A q \in Pids \ {p} : child[q] \in {"alive", "dying"} => q \in Elements(s)
  PROVE  /\ list' \in Seq(Pids) /\ ListOK' /\ KnownOK' /\ InTurn'
         /\ child' \in [Pids -> ChildStages] /\ of' \in [Pids -> Children \cup {None}]
         /\ child[p] = "unused" /\ child'[p] = "alive"
         /\ \A q \in Pids \ {p} : child'[q] = child[q]
<1>1. /\ \A q \in Pids : child[q] # "unused" <=> q < p
      /\ child' = [child EXCEPT ![p] = "alive"]
      /\ InTurn'
  BY FreshPid
<1>2. \A q \in Elements(s) : q \in Pids /\ q < p
  BY <1>1 DEF ListOK, KnownOK, Listed, Pids
<1>3. list' \in Seq(Pids) /\ Newest(list)' /\ Elements(list)' = Elements(s) \cup {p}
  <2>1. PICK t : t = <<p>> \o s
    OBVIOUS
  <2>2. t \in Seq(Pids) /\ Newest(t) /\ Elements(t) = Elements(s) \cup {p}
    BY <1>2, <2>1, PutFirst
  <2>3. list' = t
    BY <2>1
  <2> QED
    BY <2>2, <2>3 DEF Newest, Elements
<1>4. child' \in [Pids -> ChildStages] /\ of' \in [Pids -> Children \cup {None}]
  BY <1>1 DEF Types, ChildStages, Run
<1>5. child[p] = "unused" /\ child'[p] = "alive" /\ \A q \in Pids \ {p} : child'[q] = child[q]
  BY <1>1, MaxPidNat DEF Types, Pids
<1>6. ListOK'
  BY <1>2, <1>3 DEF ListOK, Listed, Elements
<1>7. KnownOK'
  BY <1>2, <1>1, <1>5 DEF KnownOK
<1> QED
  BY <1>1, <1>3, <1>4, <1>5, <1>6, <1>7

-----------------------------------------------------------------------------
(* The invariant *)

LEMMA InitOK == Init => IInv
<1> SUFFICES ASSUME Init PROVE IInv
  OBVIOUS
<1>1. Len(Boot) \in Nat
  BY ChildAssumption
<1>2. Types
  BY <1>1 DEF Init, Types, SupStages, ChildStages
<1>3. InTurn
  BY DEF Init, InTurn, Pids
<1>4. Len(<<>>) = 0 /\ 1..0 = {}
  OBVIOUS
<1>5. ListOK /\ KnownOK /\ ExitsOK /\ HeirOK /\ SweepOK
  BY <1>4 DEF Init, ListOK, Newest, Listed, KnownOK, ExitsOK, HeirOK, SweepOK
<1> QED
  BY <1>2, <1>3, <1>5 DEF IInv

\* A child is started by supInit or for a request.
LEMMA StartOK ==
  ASSUME IInv, NEW p \in Pids, NEW d \in Children, Run(p, d), AddChild(p, d),
         sup' = sup, sup \in {"booting", "idle"},
         \/ mail' = mail
         \/ mail # <<>> /\ mail' = Tail(mail),
         UNCHANGED <<leaving, stopVars, why, asked, heir>>,
         booted' \in 0..Len(Boot),
         call' \in [Callers -> {"free", "waiting", "answered", "failed"}]
  PROVE  IInv'
<1> USE DEF IInv
<1>1. d # None /\ Listed = Elements(list)
  BY NoneAssumption DEF Listed, Elements
<1>2. cache' = [cache EXCEPT ![p] = d] /\ cache' \in [Pids -> Children \cup {None}]
  BY DEF AddChild, Types
<1>3. /\ list' \in Seq(Pids) /\ ListOK' /\ KnownOK' /\ InTurn'
      /\ child' \in [Pids -> ChildStages] /\ of' \in [Pids -> Children \cup {None}]
      /\ child[p] = "unused" /\ child'[p] = "alive"
      /\ \A q \in Pids \ {p} : child'[q] = child[q]
  <2>1. list' = <<p>> \o list /\ list \in Seq(Pids) /\ Newest(list)
    BY DEF AddChild, Types, ListOK
  <2>2. \A q \in Pids \ {p} : cache'[q] # None <=> q \in Elements(list)
    BY <1>1, <1>2 DEF Types, ListOK
  <2>3. \A q \in Pids \ {p} : child[q] \in {"alive", "dying"} => q \in Elements(list)
    BY <1>1 DEF ListOK, KnownOK
  <2> QED
    BY <1>1, <1>2, <2>1, <2>2, <2>3, NewChild, ZenonT(60) DEF Types
<1>4. \A q \in Pids : /\ child[q] \in Ended => child'[q] \in Ended
                      /\ cache[q] # None => cache'[q] # None
                      /\ child[q] # "unused" => child'[q] # "unused"
  BY <1>1, <1>2, <1>3 DEF Types, Ended
<1>5. mail' \in Seq(Messages) /\ ExitsOK'
  <2>1. CASE mail' = mail
    BY <2>1, <1>4 DEF Types, ExitsOK
  <2>2. CASE mail # <<>> /\ mail' = Tail(mail)
    BY <2>2, <1>4, TailMail
  <2> QED
    BY <2>1, <2>2
<1>6. HeirOK'
  BY <1>4 DEF HeirOK, Types
<1>7. SweepOK'
  BY KeepSweep DEF stopVars
<1>8. Types'
  BY <1>2, <1>3, <1>5 DEF Types, stopVars
<1> QED
  BY <1>3, <1>5, <1>6, <1>7, <1>8

\* supHandleCast for a child that is restarted.
LEMMA RestartOK ==
  ASSUME IInv, NEW p \in Pids, NEW r \in Reasons, NEW q \in Pids, Restart(p, r, q)
  PROVE  IInv'
<1> USE DEF IInv
<1>1. /\ sup = "idle" /\ mail # <<>> /\ Head(mail) = Exit(p, r) /\ mail' = Tail(mail)
      /\ Run(q, cache[p])
      /\ list' = <<q>> \o Unlisted(p)
      /\ cache' = [cache EXCEPT ![q] = cache[p], ![p] = None]
      /\ heir' = [heir EXCEPT ![p] = q]
      /\ UNCHANGED <<sup, booted, leaving, stopVars, why, asked, call>>
  BY DEF Restart, Take
<1>2. child[p] \in Ended /\ cache[p] # None
  <2>1. mail[1] = Exit(p, r) /\ 1 \in 1..Len(mail)
    BY <1>1, HeadTailProperties, LenProperties DEF Types
  <2> QED
    BY <2>1 DEF ExitsOK
<1>3. cache[p] \in Children /\ \A x \in Pids : child[x] # "unused" <=> x < q
  BY <1>1, <1>2, FreshPid DEF Types
<1>4. p # q
  BY <1>2, <1>3, MaxPidNat DEF Ended, Pids
<1>5. /\ Unlisted(p) \in Seq(Pids) /\ Newest(Unlisted(p))
      /\ Elements(Unlisted(p)) = Listed \ {p}
  BY Delete DEF Types, ListOK
<1>6. /\ cache' \in [Pids -> Children \cup {None}]
      /\ cache'[q] # None /\ cache'[p] = None
      /\ \A x \in Pids \ {p, q} : cache'[x] = cache[x]
  BY <1>1, <1>2, <1>4 DEF Types
<1>7. /\ list' \in Seq(Pids) /\ ListOK' /\ KnownOK' /\ InTurn'
      /\ child' \in [Pids -> ChildStages] /\ of' \in [Pids -> Children \cup {None}]
      /\ child[q] = "unused" /\ child'[q] = "alive"
      /\ \A x \in Pids \ {q} : child'[x] = child[x]
  <2>1. Elements(Unlisted(p)) \subseteq Listed
    BY <1>5
  <2>2. \A x \in Pids \ {q} : cache'[x] # None <=> x \in Elements(Unlisted(p))
    BY <1>5, <1>6 DEF ListOK
  <2>3. \A x \in Pids \ {q} : child[x] \in {"alive", "dying"} => x \in Elements(Unlisted(p))
    BY <1>2, <1>5 DEF ListOK, KnownOK, Ended
  <2> QED
    BY <1>1, <1>3, <1>5, <1>6, <2>1, <2>2, <2>3, NewChild
<1>8. \A x \in Pids : child[x] \in Ended => child'[x] \in Ended
  BY <1>7 DEF Ended
<1>9. mail' \in Seq(Messages) /\ ExitsOK'
  BY <1>1, <1>6, <1>8, TailMail
<1>10. HeirOK'
  <2>1. heir' \in [Pids -> Pids \cup {None}] /\ heir'[p] = q
        /\ \A x \in Pids \ {p} : heir'[x] = heir[x] /\ heir[x] # q
    BY <1>1, <1>7, NoneAssumption DEF Types, HeirOK
  <2>2. \A x \in Pids : heir[x] # None => heir[x] \in Pids /\ child'[heir[x]] # "unused"
    BY <1>7 DEF Types, HeirOK
  <2> QED
    BY <1>2, <1>7, <1>8, <2>1, <2>2 DEF HeirOK, Ended
<1>11. SweepOK'
  BY <1>1, KeepSweep DEF stopVars
<1>12. Types'
  BY <1>1, <1>6, <1>7, <1>9 DEF Types, stopVars
<1> QED
  BY <1>7, <1>9, <1>10, <1>11, <1>12

\* A step after which only the mailbox is another, or the loop has left a stage
\* in which nothing is swept.
LEMMA MailStep ==
  ASSUME IInv,
         UNCHANGED <<entryVars, leaving, stopVars, child, of, why, asked, heir>>,
         booted' = booted, sup' = sup \/ sup' \in {"failed", "idle"},
         \/ mail' = mail \/ mail' = <<>>
         \/ mail # <<>> /\ mail' = Tail(mail)
         \/ \E m \in Messages : /\ Post(m)
                               /\ \A p \in Pids, r \in Reasons : m # Exit(p, r),
         call' \in [Callers -> {"free", "waiting", "answered", "failed"}]
  PROVE  IInv'
<1> USE DEF IInv, entryVars, stopVars
<1>1. mail' \in Seq(Messages) /\ ExitsOK'
  <2>1. CASE mail' = mail
    BY <2>1 DEF Types, ExitsOK
  <2>2. CASE mail' = <<>>
    BY <2>2 DEF Types, ExitsOK
  <2>3. CASE mail # <<>> /\ mail' = Tail(mail)
    BY <2>3, TailMail
  <2>4. CASE \E m \in Messages : Post(m) /\ \A p \in Pids, r \in Reasons : m # Exit(p, r)
    BY <2>4, PostMail
  <2> QED
    BY <2>1, <2>2, <2>3, <2>4
<1>2. SweepOK'
  BY KeepSweep DEF IsAlive
<1>3. Types'
  BY <1>1 DEF Types, SupStages
<1>4. InTurn' /\ ListOK' /\ KnownOK' /\ HeirOK'
  BY DEF InTurn, ListOK, Newest, Listed, KnownOK, HeirOK
<1> QED
  BY <1>1, <1>2, <1>3, <1>4

\* A child goes on to its next stage; the last one of them tells the supervisor.
LEMMA ChildStep ==
  ASSUME IInv, NEW p \in Pids,
         \/ /\ IsAlive(p) /\ child' = [child EXCEPT ![p] = "dying"]
            /\ mail' = mail /\ why' \in [Pids -> {"normal", "error", "stop"}]
         \/ /\ child[p] = "dying" /\ child' = [child EXCEPT ![p] = "told"]
            /\ mail' = mail \/ \E r \in Reasons : Post(Exit(p, r))
            /\ why' = why
         \/ /\ child[p] = "told" /\ child' = [child EXCEPT ![p] = "gone"]
            /\ mail' = mail /\ why' = why,
         UNCHANGED <<sup, booted, entryVars, leaving, todo, pass, asker, of, asked, heir, call>>,
         waiting' \in {waiting, None}
  PROVE  IInv'
<1> USE DEF IInv, entryVars
<1>1. /\ child' \in [Pids -> ChildStages] /\ child[p] # "unused" /\ child'[p] # "unused"
      /\ child'[p] # "alive"
      /\ \A q \in Pids \ {p} : child'[q] = child[q]
      /\ child[p] \in Ended => child'[p] \in Ended
      /\ child'[p] \in {"alive", "dying"} => child[p] \in {"alive", "dying"}
      /\ \/ mail' = mail
         \/ child[p] = "dying" /\ child'[p] = "told" /\ \E r \in Reasons : Post(Exit(p, r))
  BY DEF Types, ChildStages, Ended, IsAlive
<1>2. mail' \in Seq(Messages) /\ ExitsOK'
  <2>1. CASE mail' = mail
    <3>1. mail \in Seq(Messages) /\ cache' = cache
      BY DEF Types
    <3>2. \A q \in Pids : child[q] \in Ended => child'[q] \in Ended
      BY <1>1
    <3> QED
      BY <2>1, <3>1, <3>2 DEF ExitsOK
  <2>2. ASSUME NEW r \in Reasons, Post(Exit(p, r)), child[p] = "dying", child'[p] = "told"
        PROVE  mail' \in Seq(Messages) /\ ExitsOK'
    <3>1. \A q \in Pids, s \in Reasons : Exit(p, r) = Exit(q, s)
            => child'[q] \in Ended /\ child[q] \notin Ended /\ cache[q] # None
      BY <2>2, MessageKinds DEF KnownOK, Ended
    <3> QED
      BY <1>1, <2>2, <3>1, PostMail, MessageTypes
  <2> QED
    BY <1>1, <2>1, <2>2
<1>3. InTurn' /\ ListOK' /\ KnownOK' /\ HeirOK'
  <2>1. \A q \in Pids : /\ child'[q] # "unused" <=> child[q] # "unused"
                        /\ child[q] \in Ended => child'[q] \in Ended
                        /\ child'[q] \in {"alive", "dying"} => child[q] \in {"alive", "dying"}
    BY <1>1
  <2>2. InTurn' /\ ListOK' /\ KnownOK'
    BY <2>1 DEF InTurn, ListOK, Newest, Listed, KnownOK
  <2>3. \A q \in Pids : heir[q] # None => heir[q] \in Pids
    BY DEF Types
  <2>4. HeirOK'
    BY <2>1, <2>3 DEF HeirOK
  <2> QED
    BY <2>2, <2>4
<1>4. SweepOK'
  BY <1>1, KeepSweep DEF IsAlive
<1>5. Types'
  BY <1>1, <1>2 DEF Types
<1> QED
  BY <1>2, <1>3, <1>4, <1>5

LEMMA StepOK == IInv /\ [Next]_vars => IInv'
<1> SUFFICES ASSUME IInv, [Next]_vars PROVE IInv'
  OBVIOUS
<1>1. Types /\ ListOK /\ KnownOK /\ ExitsOK /\ SweepOK
  BY DEF IInv
<1>2. ASSUME NEW p \in Pids, BootChild(p) PROVE IInv'
  <2>1. booted + 1 \in 1..Len(Boot) /\ Boot[booted + 1] \in Children
    BY <1>1, <1>2, ChildAssumption, LenProperties DEF BootChild, Types
  <2> QED
    BY <1>1, <1>2, <2>1, StartOK DEF BootChild, Types
<1>3. ASSUME NEW c \in Starters, NEW d \in Children, NEW p \in Pids, StartChild(c, d, p)
      PROVE  IInv'
  BY <1>1, <1>3, StartOK DEF StartChild, Take, Types
<1>4. CASE BootFails \/ Booted
  BY <1>1, <1>4, MailStep DEF BootFails, Booted, Types
<1>5. ASSUME NEW c \in Starters, NEW d \in Children, StartChildPanics(c, d) PROVE IInv'
  BY <1>1, <1>5, MailStep DEF StartChildPanics, Take, Types
<1>6. ASSUME NEW p \in Pids, NEW r \in Reasons, RestartPanics(p, r) PROVE IInv'
  BY <1>1, <1>6, MailStep DEF RestartPanics, Take, Types
<1>7. ASSUME NEW c \in Callers, NEW m \in Messages, \A p \in Pids, r \in Reasons : m # Exit(p, r),
             Request(c, m)
      PROVE  IInv'
  BY <1>1, <1>7, MailStep DEF Request, Types
<1>8. CASE Deliver
  <2>1. Types' /\ ExitsOK'
    BY <1>1, <1>8, MessageKinds, MessageTypes, PostMail DEF Deliver, Types, entryVars, stopVars
  <2>2. SweepOK'
    BY <1>1, <1>8, KeepSweep DEF Deliver, stopVars, IsAlive
  <2> QED
    BY <1>8, <2>1, <2>2
       DEF Deliver, IInv, InTurn, ListOK, Newest, Listed, KnownOK, HeirOK, entryVars
<1>9. ASSUME NEW p \in Pids, NEW r \in Reasons, HandleExit(p, r) PROVE IInv'
  <2>1. /\ mail # <<>> /\ Head(mail) = Exit(p, r) /\ mail' = Tail(mail) /\ sup = "idle"
        /\ list' = Unlisted(p) /\ cache' = [cache EXCEPT ![p] = None]
        /\ UNCHANGED <<sup, booted, leaving, stopVars, child, of, why, asked, heir, call>>
    BY <1>9 DEF HandleExit, Take
  <2>2. child[p] \in Ended
    <3>1. mail[1] = Exit(p, r) /\ 1 \in 1..Len(mail)
      BY <1>1, <2>1, HeadTailProperties, LenProperties DEF Types
    <3> QED
      BY <1>1, <3>1 DEF ExitsOK
  <2>3. /\ cache' \in [Pids -> Children \cup {None}] /\ cache'[p] = None
        /\ \A q \in Pids \ {p} : cache'[q] = cache[q]
    BY <1>1, <2>1 DEF Types
  <2>4. list' \in Seq(Pids) /\ ListOK'
    <3>1. PICK t : t = Unlisted(p)
      OBVIOUS
    <3>2. t \in Seq(Pids) /\ Newest(t) /\ Elements(t) = Listed \ {p}
      BY <1>1, <3>1, Delete DEF Types, ListOK
    <3>3. list' = t
      BY <2>1, <3>1
    <3> QED
      <4>1. list' \in Seq(Pids) /\ Newest(list)'
        BY <3>2, <3>3 DEF Newest
      <4>2. Listed' = Listed \ {p}
        BY <3>2, <3>3 DEF Listed, Elements
      <4>3. {q \in Pids : cache'[q] # None} = {q \in Pids : cache[q] # None} \ {p}
        BY <2>3
      <4> QED
        BY <1>1, <4>1, <4>2, <4>3 DEF ListOK
  <2>5. KnownOK'
    BY <1>1, <2>1, <2>2, <2>3 DEF KnownOK, Ended
  <2>6. mail' \in Seq(Messages) /\ ExitsOK'
    BY <1>1, <2>1, <2>3, TailMail
  <2>7. SweepOK'
    BY <1>1, <2>1, KeepSweep DEF stopVars
  <2>8. Types'
    BY <1>1, <2>1, <2>3, <2>4, <2>6 DEF Types, stopVars
  <2> QED
    BY <2>1, <2>4, <2>5, <2>6, <2>7, <2>8 DEF IInv, InTurn, HeirOK
<1>10. ASSUME NEW p \in Pids, NEW r \in Reasons, NEW q \in Pids, Restart(p, r, q) PROVE IInv'
  BY <1>10, RestartOK
<1>11. CASE HandleLeave \/ \E c \in Stoppers : HandleStop(c)
  <2>1. /\ mail # <<>> /\ mail' = Tail(mail) /\ sup = "idle" /\ Sweep
        /\ sup' \in {"stopping", "terminating"} /\ asker' \in Stoppers \cup {None}
        /\ UNCHANGED <<booted, entryVars, leaving, child, of, why, asked, heir, call>>
    BY <1>1, <1>11 DEF HandleLeave, HandleStop, Take, Types
  <2>2. mail' \in Seq(Messages) /\ ExitsOK'
    BY <1>1, <2>1, TailMail DEF entryVars
  <2>3. /\ todo' \in Seq(Pids) /\ waiting' \in Pids \cup {None}
        /\ pass' \in Nat /\ asked' \in [Pids -> 0..pass']
        /\ SweepOK'
    BY <1>1, <2>1, BeginSweep
  <2>4. Types'
    BY <1>1, <2>1, <2>2, <2>3 DEF Types, SupStages, entryVars
  <2> QED
    BY <2>1, <2>2, <2>3, <2>4
       DEF IInv, InTurn, ListOK, Newest, Listed, KnownOK, HeirOK, entryVars
<1>12. CASE AskToStop \/ SkipDead
  <2>1. /\ sup \in {"stopping", "terminating"} /\ todo # <<>> /\ todo' = Tail(todo)
        /\ \/ IsAlive(Head(todo)) /\ asked' = [asked EXCEPT ![Head(todo)] = IF @ = 0 THEN pass ELSE @]
           \/ ~IsAlive(Head(todo)) /\ asked' = asked
        /\ UNCHANGED <<sup, booted, entryVars, mail, leaving, pass, asker, child, of, why, heir, call>>
        /\ waiting' \in {waiting, Head(todo)}
    BY <1>12 DEF AskToStop, SkipDead, Sweeping
  <2>2. /\ Head(todo) \in Pids /\ todo' \in Seq(Pids) /\ Newest(todo)'
        /\ \A i \in 1..Len(todo) : todo[i] = Head(todo) \/ \E j \in 1..Len(todo') : todo'[j] = todo[i]
    <3>1. Newest(Tail(todo)) /\ Tail(todo) \in Seq(Pids)
      BY <1>1, <2>1, NewestTail DEF SweepOK, Types
    <3>2. Newest(todo)'
      BY <2>1, <3>1 DEF Newest
    <3> QED
      BY <1>1, <2>1, <3>1, <3>2, NewestTail, HeadTailProperties DEF SweepOK, Types
  <2>3. pass > 0 /\ pass \in Nat
    BY <1>1, <2>1 DEF SweepOK, Types
  <2>4. /\ asked' \in [Pids -> 0..pass]
        /\ \A p \in Pids : asked[p] > 0 => asked'[p] > 0
        /\ IsAlive(Head(todo)) => asked'[Head(todo)] > 0
    <3>1. asked \in [Pids -> 0..pass] /\ pass \in 0..pass
      BY <1>1, <2>3 DEF Types
    <3>2. CASE asked' = asked /\ ~IsAlive(Head(todo))
      BY <3>1, <3>2
    <3>3. CASE asked' = [asked EXCEPT ![Head(todo)] = IF @ = 0 THEN pass ELSE @]
      <4>1. PICK h \in Pids : h = Head(todo)
        BY <2>2
      <4>2. asked' = [asked EXCEPT ![h] = IF asked[h] = 0 THEN pass ELSE asked[h]]
        BY <3>3, <4>1
      <4>3. /\ asked' \in [Pids -> 0..pass]
            /\ \A p \in Pids \ {h} : asked'[p] = asked[p]
            /\ asked'[h] = IF asked[h] = 0 THEN pass ELSE asked[h]
        BY <3>1, <4>2
      <4> QED
        BY <2>3, <3>1, <4>1, <4>3
    <3> QED
      BY <2>1, <3>2, <3>3
  <2>5. SweepOK'
    <3>1. ASSUME NEW p \in Pids, IsAlive(p) PROVE Ahead(p)' \/ asked'[p] > 0
      <4>1. Ahead(p) \/ asked[p] > 0
        BY <1>1, <2>1, <3>1 DEF SweepOK
      <4>2. CASE Ahead(p)
        BY <2>2, <2>4, <3>1, <4>2 DEF Ahead
      <4> QED
        BY <2>4, <4>1, <4>2
    <3> QED
      BY <2>1, <2>2, <2>3, <3>1 DEF SweepOK, IsAlive
  <2>6. Types'
    BY <1>1, <2>1, <2>2, <2>4 DEF Types, entryVars
  <2> QED
    BY <2>1, <2>5, <2>6
       DEF IInv, InTurn, ListOK, Newest, Listed, KnownOK, ExitsOK, HeirOK, entryVars
<1>13. CASE GiveUp
  BY <1>1, <1>13, SMTT(60)
     DEF GiveUp, IInv, Types, InTurn, ListOK, Newest, Listed, KnownOK, ExitsOK, HeirOK, SweepOK,
         Ahead, IsAlive, entryVars
<1>14. CASE StopReturns
  <2>1. mail' \in Seq(Messages) /\ ExitsOK'
    <3>1. CASE mail' = mail
      BY <1>1, <1>14, <3>1 DEF StopReturns, Types, ExitsOK, entryVars
    <3>2. CASE mail' = Append(mail, Leave)
      BY <1>1, <1>14, <3>2, MessageKinds, MessageTypes, PostMail DEF StopReturns, entryVars
    <3> QED
      BY <1>14, <3>1, <3>2 DEF StopReturns
  <2>2. SweepOK'
    BY <1>1, <1>14, KeepSweep DEF StopReturns
  <2>3. Types'
    <3>1. /\ leaving' \in Nat /\ sup' \in SupStages /\ asker' \in Stoppers \cup {None}
          /\ call' \in [Callers -> {"free", "waiting", "answered", "failed"}]
      <4>1. leaving' \in {leaving, leaving + 1} /\ sup' = "idle" /\ asker' = None
        BY <1>14 DEF StopReturns
      <4>2. call' = [call EXCEPT ![asker] = "answered"]
        BY <1>14 DEF StopReturns
      <4>3. call' \in [Callers -> {"free", "waiting", "answered", "failed"}]
        BY <1>1, <4>2 DEF Types
      <4> QED
        BY <1>1, <4>1, <4>3 DEF Types, SupStages
    <3>2. UNCHANGED <<booted, list, cache, todo, waiting, pass, child, of, why, asked, heir>>
      BY <1>14 DEF StopReturns, entryVars
    <3> QED
      BY <1>1, <2>1, <3>1, <3>2 DEF Types
  <2> QED
    BY <1>14, <2>1, <2>2, <2>3
       DEF StopReturns, IInv, InTurn, ListOK, Newest, Listed, KnownOK, HeirOK, entryVars
<1>15. CASE Close
  <2>1. Types' /\ ExitsOK'
    BY <1>1, <1>15 DEF Close, Types, SupStages, ExitsOK, entryVars, stopVars
  <2>2. \A p \in Pids : ~Ahead(p)
    BY <1>15 DEF Close, Ahead
  <2>3. SweepOK'
    BY <1>1, <1>15, <2>2 DEF Close, SweepOK, Sweeping, Newest, Ahead, IsAlive, stopVars
  <2> QED
    BY <1>15, <2>1, <2>3
       DEF Close, IInv, InTurn, ListOK, Newest, Listed, KnownOK, HeirOK, entryVars
<1>16. ASSUME NEW p \in Pids, Finish(p) \/ Crash(p) \/ Obey(p) \/ Tell(p) \/ End(p) PROVE IInv'
  <2>1. CASE Finish(p) \/ Crash(p) \/ Obey(p)
    <3>1. \E r \in {"normal", "error", "stop"} : Die(p, r)
      BY <2>1 DEF Finish, Crash, Obey
    <3> QED
      BY <1>1, <3>1, ChildStep DEF Die, Types, stopVars
  <2>2. CASE Tell(p)
    BY <1>1, <2>2, ChildStep DEF Tell, Reasons, stopVars
  <2>3. CASE End(p)
    BY <1>1, <2>3, ChildStep DEF End
  <2> QED
    BY <1>16, <2>1, <2>2, <2>3
<1>17. CASE UNCHANGED vars
  <2>1. Types' /\ InTurn' /\ KnownOK' /\ HeirOK'
    BY <1>17 DEF vars, IInv, Types, InTurn, KnownOK, HeirOK, entryVars, stopVars
  <2>2. ListOK' /\ ExitsOK'
    BY <1>17 DEF vars, IInv, ListOK, Newest, Listed, ExitsOK, entryVars
  <2>3. SweepOK'
    BY <1>17 DEF vars, IInv, SweepOK, Newest, Ahead, IsAlive, stopVars
  <2> QED
    BY <2>1, <2>2, <2>3 DEF IInv
<1>18. CASE Next
  <2>1. ASSUME NEW c \in Starters, NEW d \in Children, Request(c, StartOf(c, d)) PROVE IInv'
    BY <2>1, <1>7, MessageKinds, MessageTypes DEF Callers
  <2>2. ASSUME NEW c \in Stoppers, Request(c, StopBy(c)) PROVE IInv'
    BY <2>2, <1>7, MessageKinds, MessageTypes DEF Callers
  <2> QED
    BY <1>18, <1>2, <1>3, <1>4, <1>5, <1>6, <2>1, <2>2, <1>8, <1>9, <1>10, <1>11, <1>12, <1>13,
       <1>14, <1>15, <1>16 DEF Next, Reasons
<1> QED
  BY <1>17, <1>18

LEMMA Invariance == Spec => []IInv
  BY InitOK, StepOK, PTL DEF Spec

-----------------------------------------------------------------------------
(* Results *)

\* A list with the newest first has every element once.
LEMMA NewestOnce ==
  ASSUME NEW s \in Seq(Pids), Newest(s)
  PROVE  Cardinality(Elements(s)) = Len(s)
<1> DEFINE f == [i \in 1..Len(s) |-> s[i]]
<1>1. Len(s) \in Nat /\ \A i \in 1..Len(s) : s[i] \in Pids
  BY LenProperties
<1>2. \A i, j \in 1..Len(s) : i # j => s[i] # s[j]
  BY <1>1 DEF Newest, Pids
<1>3. f \in Bijection(1..Len(s), Elements(s))
  BY <1>2 DEF Bijection, Injection, Surjection, IsInjective, Elements
<1>4. ExistsBijection(1..Len(s), Elements(s))
  BY <1>3 DEF ExistsBijection
<1>5. IsFiniteSet(1..Len(s)) /\ Cardinality(1..Len(s)) = Len(s)
  BY <1>1, FS_Interval, SMTT(60)
<1> QED
  BY <1>4, <1>5, FS_Bijection

\* The supervisor's list and map know the same children, the exits in its
\* mailbox are of children it knows, and no child runs twice.
THEOREM Consistency == Spec => []Consistent
<1>1. ASSUME IInv PROVE TypeOK
  <2>1. Cardinality(Listed) = Len(list)
    BY <1>1, NewestOnce DEF IInv, Types, ListOK, Listed, Elements
  <2> QED
    BY <1>1, <2>1 DEF IInv, Types, ListOK, TypeOK
<1>2. ASSUME IInv PROVE ExitKnown
  BY <1>2 DEF IInv, ExitsOK, ExitKnown, InMail, Reasons
<1>3. ASSUME IInv PROVE OneIncarnation
  BY <1>3 DEF IInv, HeirOK, KnownOK, OneIncarnation, IsAlive, Ended
<1>4. IInv => Consistent
  BY <1>1, <1>2, <1>3 DEF Consistent
<1> QED
  BY <1>4, Invariance, PTL

\* When the supervisor is gone, every child it had started has ended or has
\* been asked to: stopAllChild misses nobody.
THEOREM NobodyLeft == Spec => []NoOrphan
<1>1. IInv => NoOrphan
  BY DEF IInv, SweepOK, NoOrphan
<1> QED
  BY <1>1, Invariance, PTL

\* stopAllChild asks the children in the reverse order of their starts.
THEOREM StopOrder == Spec => NewestFirst
<1> DEFINE Ordered == \A p \in Pids : waiting' = p /\ waiting # p =>
                        \A q \in Pids : q > p /\ IsAlive(q) => asked[q] > 0
<1>1. ASSUME IInv, [Next]_vars PROVE Ordered
  <2> SUFFICES ASSUME NEW p \in Pids, waiting' = p, waiting # p,
                      NEW q \in Pids, q > p, IsAlive(q)
               PROVE  asked[q] > 0
    OBVIOUS
  <2>1. p # None
    BY NoneAssumption
  <2>2. AskToStop
    BY <1>1, <2>1
       DEF Next, vars, BootFails, Booted, BootChild, Request, StartChildPanics, StartChild,
           HandleStop, HandleExit, RestartPanics, Restart, HandleLeave, SkipDead, GiveUp,
           StopReturns, Close, Deliver, Finish, Crash, Obey, Die, Tell, End, Sweep, stopVars
  <2>3. p = Head(todo) /\ todo # <<>> /\ sup \in {"stopping", "terminating"}
    BY <2>2 DEF AskToStop, Sweeping
  <2>4. p = todo[1] /\ Len(todo) \in Nat /\ Newest(todo)
    BY <1>1, <2>3, HeadTailProperties, LenProperties DEF IInv, Types, SweepOK
  <2>5. ~Ahead(q)
    BY <2>4 DEF Ahead, Newest, Pids
  <2> QED
    BY <1>1, <2>3, <2>5 DEF IInv, SweepOK
<1>2. IInv /\ [Next]_vars => [Ordered]_vars
  BY <1>1
<1> QED
  BY <1>2, Invariance, PTL DEF Spec, NewestFirst
=============================================================================
