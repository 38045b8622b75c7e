--------------------------- MODULE ServiceProofs ---------------------------
(***************************************************************************)
(* Proofs about Services.                                                  *)
(*                                                                         *)
(* The timers of a timer actor are on time, for any number of them, any    *)
(* intervals and any lengths of a second, ten seconds, a minute and an     *)
(* hour of which the last is a multiple of the others.  httpc gives its    *)
(* worker one request at a time, for any number of callers.                *)
(* The monitor tells the watchers of a node, and no others, in order.  A   *)
(* row for the database is inserted or refused once, and a select sees the *)
(* writes before it, for any number of keys, processes and writes.         *)
(* The buffered writer keeps the bytes and their order, whatever the sizes *)
(* and whatever the connection takes.                                      *)
(* When main returns, what was alive when InitStop was called has ended or *)
(* runs its Terminate, and the applications stopped first, for any number  *)
(* of starters, applications and processes.                                *)
(***************************************************************************)
EXTENDS Services, FiniteSetTheorems, SequenceTheorems, TLAPS

(* Remainders *)

\* Quotient and remainder are unique.
LEMMA Quotient ==
  ASSUME NEW L \in Nat \ {0}, NEW q \in Int, NEW r \in 0..(L - 1),
         NEW x \in Int, NEW y \in 0..(L - 1), L * q + r = L * x + y
  PROVE  r = y
  <1>1. L * (q - x) = y - r
    OBVIOUS
  <1>2. CASE q - x >= 1
    <2>1. L * (q - x) >= L
      BY <1>2
    <2> QED
      BY <1>1, <2>1
  <1>3. CASE x - q >= 1
    <2>1. L * (x - q) >= L
      BY <1>3
    <2> QED
      BY <1>1, <2>1
  <1> QED
    BY <1>1, <1>2, <1>3

\* A number is made of its quotient and its remainder.
LEMMA Divide ==
  ASSUME NEW L \in Nat \ {0}, NEW a \in Nat
  PROVE  \E q \in Int, r \in 0..(L - 1) : a = L * q + r /\ r = a % L
  <1>1. a = (L * (a \div L)) + (a % L) /\ a \div L \in Int /\ a % L \in 0..(L - 1)
    OBVIOUS
  <1> QED
    BY <1>1

\* The remainder counts up and starts again.
LEMMA NextRemainder ==
  ASSUME NEW L \in Nat \ {0}, NEW a \in Nat
  PROVE  /\ a % L \in 0..(L - 1)
         /\ (a + 1) % L = IF a % L = L - 1 THEN 0 ELSE (a % L) + 1
  <1> PICK q \in Int, r \in 0..(L - 1) : a = L * q + r /\ r = a % L
    BY Divide
  <1>0. a + 1 \in Nat
    OBVIOUS
  <1> PICK x \in Int, y \in 0..(L - 1) : a + 1 = L * x + y /\ y = (a + 1) % L
    BY <1>0, Divide
  <1>1. CASE r = L - 1
    <2>1. L * (q + 1) = L * q + L
      OBVIOUS
    <2>2. L * (q + 1) + 0 = L * x + y
      BY <1>1, <2>1
    <2> QED
      BY <1>1, <2>2, Quotient
  <1>2. CASE r # L - 1
    <2>1. L * q + (r + 1) = L * x + y /\ r + 1 \in 0..(L - 1)
      BY <1>2
    <2> QED
      BY <1>2, <2>1, Quotient
  <1> QED
    BY <1>1, <1>2

-----------------------------------------------------------------------------
(* The lists *)

LEMMA Periods ==
  ASSUME NEW j \in Coarse
  PROVE  Period(j) \in Nat \ {0} /\ Period(j) >= Sec /\ Hour % Period(j) = 0
  <1>1. Hour % Hour = 0
    <2>1. Hour \in Nat \ {0} /\ Hour - 1 \in Nat
      BY LengthAssumption
    <2>2. (Hour - 1) % Hour = Hour - 1
      BY <2>1
    <2>3. ((Hour - 1) + 1) % Hour = 0
      BY <2>1, <2>2, NextRemainder
    <2> QED
      BY <2>1, <2>3
  <1> QED
    BY <1>1, LengthAssumption DEF Coarse, Period

\* A timer goes to a coarse list only if it is due after more than its period.
LEMMA ListForFar ==
  ASSUME NEW i \in Int
  PROVE  /\ ListFor(i) \in Lists
         /\ ListFor(i) \in Coarse => i > Period(ListFor(i))
         /\ ListFor(i) = "t0" <=> i <= Sec
  <1>1. CASE i <= Sec
    BY <1>1, LengthAssumption DEF ListFor, Lists, Coarse
  <1>2. CASE i > Sec /\ i <= Ten
    BY <1>2, LengthAssumption DEF ListFor, Lists, Coarse, Period
  <1>3. CASE i > Ten /\ i <= Minute
    BY <1>3, LengthAssumption DEF ListFor, Lists, Coarse, Period
  <1>4. CASE i > Minute /\ i <= Hour
    BY <1>4, LengthAssumption DEF ListFor, Lists, Coarse, Period
  <1>5. CASE i > Hour
    BY <1>5, LengthAssumption DEF ListFor, Lists, Coarse, Period
  <1> QED
    BY <1>1, <1>2, <1>3, <1>4, <1>5, LengthAssumption

\* Ticks until list j is looked at.
Left(j) == Period(j) - (tick % Period(j))

\* A tick brings the next look at list j one tick nearer, and after a look
\* the whole period is ahead; the reset of the tick number does not show.
LEMMA Countdown ==
  ASSUME TypeOK, NEW j \in Coarse, tick' = NextTick(tick + 1)
  PROVE  /\ Left(j) \in 1..Period(j) /\ Left(j)' \in 1..Period(j)
         /\ IF LookedAt(j, tick + 1) THEN Left(j) = 1 /\ Left(j)' = Period(j)
                                     ELSE Left(j)' = Left(j) - 1
  <1> PICK L \in Nat \ {0} : L = Period(j) /\ Hour % L = 0
    BY Periods
  <1>1. tick \in Nat /\ tick + 1 \in Nat
    BY LengthAssumption DEF TypeOK
  <1>2. /\ tick % L \in 0..(L - 1)
        /\ (tick + 1) % L = IF tick % L = L - 1 THEN 0 ELSE (tick % L) + 1
    BY <1>1, NextRemainder
  <1>3. tick' % L = (tick + 1) % L
    <2>1. 0 % L = 0
      OBVIOUS
    <2> QED
      BY <2>1 DEF NextTick
  <1>4. Left(j) = L - (tick % L) /\ Left(j)' = L - (tick' % L)
    BY DEF Left, Period
  <1> QED
    BY <1>2, <1>3, <1>4 DEF LookedAt

\* In every state the next look at list j is at most a period away.
LEMMA LeftRange ==
  ASSUME TypeOK, NEW j \in Coarse
  PROVE  Left(j) \in 1..Period(j)
  <1> PICK L \in Nat \ {0} : L = Period(j)
    BY Periods
  <1>1. tick \in Nat
    BY LengthAssumption DEF TypeOK
  <1>2. tick % L \in 0..(L - 1)
    BY <1>1, NextRemainder
  <1> QED
    BY <1>2 DEF Left

-----------------------------------------------------------------------------
(* The invariant *)

IInv == TypeOK /\ OnTime /\ LookedAtInTime

\* Before anything is set.
LEMMA InitIInv == Init => IInv
  BY LengthAssumption
     DEF Init, IInv, TypeOK, OnTime, LookedAtInTime, InWheel, Lists, Coarse

\* What a tick does to one timer: the list p, due time d and slack s it has
\* after loopTimerCheck and the list it has in the end.
LEMMA TickTypes ==
  ASSUME TypeOK, NEW n \in {now, now + 1}, LoopTimer(n), lost' \in Nat
  PROVE  TypeOK'
  <1> PICK k \in Nat : k = tick + 1
    BY LengthAssumption DEF TypeOK
  <1>0. n \in Nat
    BY DEF TypeOK
  <1>1. now' = n /\ tick' = NextTick(k) /\ lost' \in Nat
    BY DEF LoopTimer
  <1>2. NextTick(k) \in 0..(Hour - 1)
    BY LengthAssumption DEF TypeOK, NextTick
  <1>3. ASSUME NEW t \in Timers
        PROVE  /\ NextDue(t, n) \in Int
               /\ NextSlack(t, n) \in Nat
               /\ Settled(Checked(t, n), NextDue(t, n) - n, k)
                    \in Lists \cup {"free", "sent", "done"}
    <2>1. NextDue(t, n) \in Int
      BY DEF TypeOK, NextDue
    <2>2. NextSlack(t, n) \in Nat
      BY <1>0 DEF TypeOK, NextSlack
    <2>3. Checked(t, n) \in Lists \cup {"free", "sent", "done"}
      BY ListForFar DEF TypeOK, Checked
    <2>4. ListFor(NextDue(t, n) - n) \in Lists
      BY <1>0, <2>1, ListForFar
    <2> QED
      BY <2>1, <2>2, <2>3, <2>4 DEF Settled
  <1>4. /\ due' = [t \in Timers |-> NextDue(t, n)]
        /\ place' = [t \in Timers |-> Settled(Checked(t, n), NextDue(t, n) - n, k)]
        /\ slack' = [t \in Timers |-> NextSlack(t, n)]
    BY DEF LoopTimer
  <1>5. \A t \in Timers : place'[t] = "sent" => place[t] = "sent" /\ due'[t] = due[t]
    <2> SUFFICES ASSUME NEW t \in Timers, place'[t] = "sent"
                 PROVE  place[t] = "sent" /\ due'[t] = due[t]
      OBVIOUS
    <2>1. ListFor(NextDue(t, n) - n) # "sent"
      BY <1>0, <1>3, ListForFar DEF Lists, Coarse
    <2>2. Checked(t, n) = "sent"
      BY <1>4, <2>1 DEF Settled
    <2>3. ListFor(inv[t]) # "sent"
      BY ListForFar DEF TypeOK, Lists, Coarse
    <2>4. place[t] = "sent" /\ ~Fires(t, n)
      BY <2>2, <2>3 DEF Checked, Fires
    <2> QED
      BY <1>4, <2>4 DEF NextDue
  <1>6. inv' = inv /\ forever' = forever /\ dead' = dead
    BY DEF LoopTimer
  <1>7. \A t \in Timers : place'[t] = "sent" => due'[t] - inv'[t] <= now'
    BY <1>0, <1>1, <1>5, <1>6 DEF TypeOK
  <1> QED
    BY <1>0, <1>1, <1>2, <1>3, <1>4, <1>6, <1>7 DEF TypeOK

\* A tick leaves no timer overdue or on a list that is looked at too late.
LEMMA TickOnTime ==
  ASSUME IInv, NEW n \in {now, now + 1}, LoopTimer(n), NEW t \in Timers
  PROVE  /\ InWheel(t)' => now' - due'[t] <= slack'[t]
         /\ \A j \in Coarse : place'[t] = j => now' + Left(j)' <= due'[t] + slack'[t]
  <1> USE DEF IInv
  <1> PICK k \in Nat : k = tick + 1
    BY LengthAssumption DEF TypeOK
  <1>0. n \in Nat /\ now <= n /\ n <= now + 1
    BY DEF TypeOK
  <1> PICK p, d, s : p = Checked(t, n) /\ d = NextDue(t, n) /\ s = NextSlack(t, n)
    OBVIOUS
  <1>1. /\ now' = n /\ tick' = NextTick(k)
        /\ due'[t] = d /\ slack'[t] = s /\ place'[t] = Settled(p, d - n, k)
    BY DEF LoopTimer
  <1>2. /\ now \in Nat /\ due[t] \in Int /\ inv[t] \in Nat \ {0} /\ slack[t] \in Nat
        /\ d \in Int /\ s \in Nat
    BY <1>0 DEF TypeOK, NextDue, NextSlack
  <1>3. Sec \in Nat \ {0}
    BY LengthAssumption
  <1>4. \A j \in Coarse : /\ Left(j) \in 1..Period(j) /\ Period(j) \in Nat /\ Period(j) >= Sec
                          /\ Left(j)' \in 1..Period(j)
                          /\ LookedAt(j, k) => Left(j) = 1
                          /\ ~LookedAt(j, k) => Left(j)' = Left(j) - 1
    <2> SUFFICES ASSUME NEW j \in Coarse
                 PROVE  /\ Left(j) \in 1..Period(j) /\ Period(j) \in Nat /\ Period(j) >= Sec
                        /\ Left(j)' \in 1..Period(j)
                        /\ LookedAt(j, k) => Left(j) = 1
                        /\ ~LookedAt(j, k) => Left(j)' = Left(j) - 1
      OBVIOUS
    <2>1. tick' = NextTick(tick + 1)
      BY <1>1
    <2>2. /\ Left(j) \in 1..Period(j) /\ Left(j)' \in 1..Period(j)
          /\ IF LookedAt(j, k) THEN Left(j) = 1 /\ Left(j)' = Period(j)
                               ELSE Left(j)' = Left(j) - 1
      BY <2>1, Countdown
    <2>3. Period(j) \in Nat \ {0} /\ Period(j) >= Sec
      BY Periods
    <2> QED
      BY <2>2, <2>3
  \* loopTimerCheck leaves the timer alone, drops it or sets it again.
  <1>5. \/ p = place[t] /\ d = due[t] /\ s = slack[t] /\ (place[t] = "t0" => n < due[t])
        \/ p = "done"
        \/ /\ place[t] = "t0" /\ n >= due[t]
           /\ p = ListFor(inv[t]) /\ d = due[t] + inv[t]
           /\ p = "t0" => s = slack[t]
           /\ p # "t0" => s >= n - due[t] - 2
    BY <1>0, <1>2 DEF Checked, NextDue, NextSlack, Fires, TypeOK
  <1>6. place[t] \in Lists => now - due[t] <= slack[t]
    BY DEF OnTime, InWheel
  <1>7. \A j \in Coarse : place[t] = j => now + Left(j) <= due[t] + slack[t]
    BY DEF LookedAtInTime, Left
  \* The timer on a coarse list before actTimer.
  <1>8. ASSUME p \in Coarse
        PROVE  /\ n - d <= s + (Period(p) - 1)
               /\ LookedAt(p, k) => n - d <= s
               /\ ~LookedAt(p, k) => n + Left(p)' <= d + s
    <2>1. p # "t0" /\ p # "done"
      BY <1>8 DEF Coarse
    <2>2. CASE p = place[t] /\ d = due[t] /\ s = slack[t]
      BY <1>0, <1>2, <1>4, <1>7, <1>8, <2>2
    <2>3. CASE /\ place[t] = "t0" /\ n >= due[t]
               /\ p = ListFor(inv[t]) /\ d = due[t] + inv[t] /\ s >= n - due[t] - 2
      <3>1. inv[t] > Period(p)
        BY <1>0, <1>2, <1>8, <2>3, ListForFar
      <3> QED
        BY <1>0, <1>2, <1>3, <1>4, <1>8, <2>3, <3>1
    <2> QED
      BY <1>5, <2>1, <2>2, <2>3
  <1>9. CASE p \in Coarse /\ LookedAt(p, k) /\ Moves(d - n, p)
    <2>1. place'[t] = ListFor(d - n)
      BY <1>1, <1>9 DEF Settled
    <2>2. \A j \in Coarse : place'[t] = j => d - n > Period(j)
      BY <1>0, <1>2, <2>1, ListForFar
    <2> QED
      BY <1>0, <1>1, <1>2, <1>4, <1>8, <1>9, <2>2
  <1>10. CASE p \in Coarse /\ ~(LookedAt(p, k) /\ Moves(d - n, p))
    <2>1. place'[t] = p
      BY <1>1, <1>10 DEF Settled
    <2>2. CASE LookedAt(p, k)
      <3>1. d - n > Period(p)
        BY <1>0, <1>2, <1>4, <1>10, <2>2 DEF Moves
      <3> QED
        BY <1>0, <1>1, <1>2, <1>4, <1>10, <2>1, <3>1
    <2>3. CASE ~LookedAt(p, k)
      BY <1>0, <1>1, <1>2, <1>4, <1>8, <1>10, <2>1, <2>3
    <2> QED
      BY <2>2, <2>3
  <1>11. CASE p \notin Coarse
    <2>1. place'[t] = p
      BY <1>1, <1>11 DEF Settled
    <2>2. p = "t0" => n - d <= s
      <3>1. ASSUME place[t] = "t0" PROVE now - due[t] <= slack[t]
        BY <1>6, <3>1 DEF Lists
      <3> QED
        BY <1>0, <1>2, <1>5, <3>1
    <2> QED
      BY <1>1, <1>11, <2>1, <2>2 DEF InWheel, Lists
  <1> QED
    BY <1>9, <1>10, <1>11

\* Every step keeps the invariant.
LEMMA StepIInv == IInv /\ [Next]_vars => IInv'
  <1> SUFFICES ASSUME IInv, [Next]_vars PROVE IInv'
    OBVIOUS
  <1>0. /\ \A t \in Timers : InWheel(t) => now - due[t] <= slack[t]
        /\ \A t \in Timers : \A j \in Coarse : place[t] = j => now + Left(j) <= due[t] + slack[t]
        /\ \A j \in Coarse : Left(j) \in 1..Period(j) /\ Period(j) \in Nat
    BY LeftRange, Periods DEF IInv, OnTime, LookedAtInTime, Left
  \* It is enough to look at the parts.
  <1>A. ASSUME TypeOK',
               \A t \in Timers : InWheel(t)' => now' - due'[t] <= slack'[t],
               \A t \in Timers : \A j \in Coarse :
                  place'[t] = j => now' + Left(j)' <= due'[t] + slack'[t]
        PROVE  IInv'
    BY <1>A DEF IInv, OnTime, LookedAtInTime, Left
  <1>1. ASSUME NEW t \in Timers, NEW i \in Delays, NEW f \in BOOLEAN, Send(t, i, f)
        PROVE  IInv'
    <2>1. TypeOK'
      BY <1>1, DelayAssumption DEF IInv, TypeOK, Send
    <2>2. \A u \in Timers : place'[u] \in Lists => u # t
      BY <1>1 DEF IInv, TypeOK, Send, Lists, Coarse
    <2>3. \A u \in Timers : u # t => place'[u] = place[u] /\ due'[u] = due[u]
      BY <1>1 DEF IInv, TypeOK, Send
    <2>4. now' = now /\ slack' = slack /\ \A j \in Coarse : Left(j)' = Left(j)
      BY <1>1 DEF Send, Left, Period
    <2> QED
      BY <1>0, <1>A, <2>1, <2>2, <2>3, <2>4 DEF InWheel, Lists
  <1>2. ASSUME NEW t \in Timers, Receive(t) PROVE IInv'
    <2>1. inv[t] \in Nat \ {0} /\ due[t] \in Int /\ now \in Nat /\ due[t] - inv[t] <= now
      BY <1>2 DEF IInv, TypeOK, Receive
    <2>2. TypeOK'
      BY <1>2, <2>1, ListForFar DEF IInv, TypeOK, Receive, Lists, Coarse
    <2>3. /\ now' = now /\ due' = due /\ \A j \in Coarse : Left(j)' = Left(j)
          /\ \A u \in Timers : u # t => place'[u] = place[u] /\ slack'[u] = slack[u]
          /\ place'[t] = ListFor(inv[t]) /\ slack'[t] = now - (due[t] - inv[t])
      BY <1>2 DEF IInv, TypeOK, Receive, Left, Period
    <2>4. \A j \in Coarse : place'[t] = j => inv[t] > Period(j)
      <3> SUFFICES ASSUME NEW j \in Coarse, place'[t] = j PROVE inv[t] > Period(j)
        OBVIOUS
      <3>1. ListFor(inv[t]) = j
        BY <2>3
      <3>2. inv[t] \in Int
        BY <2>1
      <3> QED
        BY <3>1, <3>2, ListForFar
    <2>5. now - due[t] <= slack'[t]
      BY <2>1, <2>3
    <2>6. \A j \in Coarse : place'[t] = j => now + Left(j) <= due[t] + slack'[t]
      BY <1>0, <2>1, <2>3, <2>4
    <2> QED
      BY <1>0, <1>A, <2>2, <2>3, <2>5, <2>6 DEF InWheel
  <1>3. ASSUME NEW t \in Timers, AddresseeDies(t) PROVE IInv'
    <2>1. TypeOK'
      BY <1>3 DEF IInv, TypeOK, AddresseeDies
    <2>2. /\ now' = now /\ due' = due /\ place' = place /\ slack' = slack
          /\ \A j \in Coarse : Left(j)' = Left(j)
      BY <1>3 DEF AddresseeDies, Left, Period
    <2> QED
      BY <1>0, <1>A, <2>1, <2>2 DEF InWheel
  <1>4. CASE LoseTick
    <2>1. TypeOK'
      BY <1>4 DEF IInv, TypeOK, LoseTick
    <2>2. /\ now \in Nat /\ now' = now + 1 /\ due' = due /\ place' = place
          /\ \A j \in Coarse : Left(j)' = Left(j)
          /\ \A u \in Timers : due[u] \in Int /\ slack[u] \in Nat
          /\ \A u \in Timers : place[u] \in Lists => slack'[u] = slack[u] + 1
      BY <1>4 DEF IInv, TypeOK, LoseTick, Left, Period, InWheel
    <2>3. \A u \in Timers : place[u] \in Lists => now' - due'[u] <= slack'[u]
      BY <1>0, <2>2 DEF InWheel
    <2>4. ASSUME NEW u \in Timers, NEW j \in Coarse, place[u] = j
          PROVE  now' + Left(j) <= due[u] + slack'[u]
      <3>1. now + Left(j) <= due[u] + slack[u] /\ Left(j) \in Int
        BY <1>0, <2>4
      <3>2. slack'[u] = slack[u] + 1
        BY <2>2, <2>4 DEF Lists
      <3> QED
        BY <2>2, <3>1, <3>2
    <2> QED
      BY <1>A, <2>1, <2>2, <2>3, <2>4 DEF InWheel
  <1>5. CASE Tick \/ LateTick
    <2>1. PICK n \in {now, now + 1} : LoopTimer(n) /\ lost' \in Nat
      BY <1>5 DEF IInv, TypeOK, Tick, LateTick
    <2> QED
      BY <1>A, <2>1, TickTypes, TickOnTime DEF IInv
  <1>6. CASE UNCHANGED vars
    BY <1>6 DEF vars, IInv, TypeOK, OnTime, LookedAtInTime, InWheel, Period
  <1> QED
    BY <1>1, <1>2, <1>3, <1>4, <1>5, <1>6 DEF Next

-----------------------------------------------------------------------------
\* Values keep their types, and a timer that was sent was sent in the past.
THEOREM TypeCorrect == Spec => []TypeOK
  <1>1. IInv => TypeOK
    BY DEF IInv
  <1> QED
    BY <1>1, InitIInv, StepIInv, PTL DEF Spec

\* A timer is overdue by no more ticks than it was held up by others.
THEOREM TimersOnTime == Spec => []OnTime
  <1>1. IInv => OnTime
    BY DEF IInv
  <1> QED
    BY <1>1, InitIInv, StepIInv, PTL DEF Spec

\* A list is looked at before the timers on it are due.
THEOREM ListsInTime == Spec => []LookedAtInTime
  <1>1. IInv => LookedAtInTime
    BY DEF IInv
  <1> QED
    BY <1>1, InitIInv, StepIInv, PTL DEF Spec

\* Periodic timers are kept while their addressee lives.
THEOREM PeriodicKept == Spec => []ForeverKept
  <1>1. Init => ForeverKept
    BY DEF Init, ForeverKept
  <1>2. TypeOK /\ ForeverKept /\ [Next]_vars => ForeverKept'
    <2> SUFFICES ASSUME TypeOK, ForeverKept, [Next]_vars,
                        NEW t \in Timers, place'[t] = "done", forever'[t]
                 PROVE  t \in dead'
      BY DEF ForeverKept
    <2>1. CASE \E u \in Timers : \/ \E i \in Delays, f \in BOOLEAN : Send(u, i, f)
                                 \/ Receive(u) \/ AddresseeDies(u)
      <3>1. \A u \in Timers : ListFor(inv[u]) # "done"
        BY ListForFar DEF TypeOK, Lists, Coarse
      <3>2. place[t] = "done" /\ forever[t]
        BY <2>1, <3>1 DEF TypeOK, Send, Receive, AddresseeDies
      <3> QED
        BY <2>1, <3>2 DEF ForeverKept, Send, Receive, AddresseeDies
    <2>2. CASE LoseTick \/ UNCHANGED vars
      BY <2>2 DEF ForeverKept, LoseTick, vars
    <2>3. CASE Tick \/ LateTick
      <3> PICK n \in Nat, k \in Nat : LoopTimer(n) /\ k = tick + 1
        BY <2>3, LengthAssumption DEF TypeOK, Tick, LateTick
      <3>1. place'[t] = Settled(Checked(t, n), NextDue(t, n) - n, k) /\ forever[t] /\ dead' = dead
        BY DEF LoopTimer
      <3>2. ListFor(inv[t]) # "done" /\ ListFor(NextDue(t, n) - n) # "done"
        BY ListForFar DEF TypeOK, NextDue, Lists, Coarse
      <3>3. Checked(t, n) = "done"
        BY <3>1, <3>2 DEF Settled
      <3> QED
        BY <3>1, <3>2, <3>3 DEF Checked, Again, ForeverKept
    <2> QED
      BY <2>1, <2>2, <2>3 DEF Next
  <1> QED
    BY <1>1, <1>2, TypeCorrect, PTL DEF Spec

-----------------------------------------------------------------------------
(* Sequences. *)
In(q, x) == \E i \in DOMAIN q : q[i] = x
Distinct(q, M) == \A i, j \in DOMAIN q : q[i] = q[j] /\ q[i] \in M => i = j
Count(q, x) == Cardinality({i \in DOMAIN q : q[i] = x})

(* What a queue holds when something is put at its end (Cast, append).       *)
LEMMA AppendHolds ==
  ASSUME NEW S, NEW q \in Seq(S), NEW m \in S, NEW M
  PROVE  /\ Append(q, m) \in Seq(S)
         /\ \A x : In(Append(q, m), x) <=> In(q, x) \/ x = m
         /\ Distinct(q, M) /\ ~In(q, m) => Distinct(Append(q, m), M)
         /\ Distinct(q, M) /\ m \notin M => Distinct(Append(q, m), M)
<1> PICK t : t = Append(q, m) OBVIOUS
<1>1. t \in Seq(S) /\ Len(t) = Len(q) + 1 /\ t[Len(q) + 1] = m /\ Len(q) \in Nat
  OBVIOUS
<1>2. \A i \in 1..Len(q) : t[i] = q[i]
  OBVIOUS
<1>3. DOMAIN q = 1..Len(q) /\ DOMAIN t = 1..(Len(q) + 1)
  BY <1>1
<1>4. \A i \in DOMAIN t : i \in DOMAIN q \/ i = Len(q) + 1
  BY <1>1, <1>3
<1>5. \A i \in DOMAIN q : i \in DOMAIN t /\ t[i] = q[i] /\ i # Len(q) + 1
  BY <1>1, <1>2, <1>3
<1>6. Len(q) + 1 \in DOMAIN t
  BY <1>1, <1>3
<1>7. ASSUME NEW x PROVE In(t, x) <=> In(q, x) \/ x = m
  BY <1>1, <1>4, <1>5, <1>6, Zenon DEF In
<1>8. Distinct(q, M) /\ ~In(q, m) => Distinct(t, M)
  BY <1>1, <1>4, <1>5 DEF In, Distinct
<1>9. Distinct(q, M) /\ m \notin M => Distinct(t, M)
  BY <1>1, <1>4, <1>5 DEF In, Distinct
<1> QED
  BY <1>1, <1>7, <1>8, <1>9

LEMMA AppendIn ==
  ASSUME NEW S, NEW q \in Seq(S), NEW m \in S, NEW t, t = Append(q, m)
  PROVE  t \in Seq(S) /\ \A x : In(t, x) <=> In(q, x) \/ x = m
BY AppendHolds, Zenon

LEMMA AppendKeeps ==
  ASSUME NEW S, NEW q \in Seq(S), NEW m \in S, NEW t, t = Append(q, m), NEW M,
         Distinct(q, M), ~In(q, m) \/ m \notin M
  PROVE  Distinct(t, M)
BY AppendHolds, Zenon

(* What a queue holds when its head is taken.                                *)
LEMMA TailHolds ==
  ASSUME NEW S, NEW q \in Seq(S), q # <<>>, NEW M
  PROVE  /\ Tail(q) \in Seq(S) /\ Head(q) \in S /\ In(q, Head(q))
         /\ \A x : In(Tail(q), x) => In(q, x)
         /\ \A x : In(q, x) => x = Head(q) \/ In(Tail(q), x)
         /\ Distinct(q, M) => Distinct(Tail(q), M)
         /\ Distinct(q, M) /\ Head(q) \in M => ~In(Tail(q), Head(q))
<1> PICK t : t = Tail(q) OBVIOUS
<1> PICK h : h = Head(q) OBVIOUS
<1>1. t \in Seq(S) /\ Len(t) = Len(q) - 1 /\ Len(q) \in Nat \ {0} /\ h = q[1] /\ h \in S
  OBVIOUS
<1>2. \A i \in 1..(Len(q) - 1) : t[i] = q[i + 1]
  OBVIOUS
<1>3. DOMAIN q = 1..Len(q) /\ DOMAIN t = 1..(Len(q) - 1)
  BY <1>1
<1>4. \A i \in DOMAIN t : i + 1 \in DOMAIN q /\ t[i] = q[i + 1] /\ i + 1 # 1 /\ i \in Nat
  BY <1>1, <1>2, <1>3
<1>5. \A i \in DOMAIN q : i = 1 \/ (i - 1 \in DOMAIN t /\ t[i - 1] = q[i])
  BY <1>1, <1>2, <1>3
<1>6. 1 \in DOMAIN q
  BY <1>1, <1>3
<1>7. In(q, h)
  BY <1>1, <1>6 DEF In
<1>8. ASSUME NEW x PROVE In(t, x) => In(q, x)
  BY <1>4, Zenon DEF In
<1>9. ASSUME NEW x PROVE In(q, x) => x = h \/ In(t, x)
  BY <1>1, <1>5, Zenon DEF In
<1>10. Distinct(q, M) => Distinct(t, M)
  BY <1>4 DEF Distinct
<1>11. Distinct(q, M) /\ h \in M => ~In(t, h)
  BY <1>1, <1>4, <1>6 DEF Distinct, In
<1> QED
  BY <1>1, <1>7, <1>8, <1>9, <1>10, <1>11

(* A queue without a value, or with one value at one place, counts it.       *)
LEMMA CountIn ==
  ASSUME NEW q, NEW x, NEW M, x \in M, Distinct(q, M)
  PROVE  Count(q, x) = IF In(q, x) THEN 1 ELSE 0
<1>1. CASE In(q, x)
  <2>1. PICK i \in DOMAIN q : q[i] = x
    BY <1>1 DEF In
  <2>2. {j \in DOMAIN q : q[j] = x} = {i}
    BY <2>1 DEF Distinct
  <2> QED
    BY <1>1, <2>2, FS_Singleton, Zenon DEF Count
<1>2. CASE ~In(q, x)
  <2>1. {j \in DOMAIN q : q[j] = x} = {}
    BY <1>2 DEF In
  <2> QED
    BY <1>2, <2>1, FS_EmptySet, Zenon DEF Count
<1> QED
  BY <1>1, <1>2

-----------------------------------------------------------------------------
(* The client of httpc. *)
ClientMail == Callers \cup {Worker, "loop"}

ClientTypes ==
  /\ mail \in Seq(ClientMail) /\ idle \in {<<>>, <<Worker>>}
  /\ inbox \in {<<>>} \cup {<<r>> : r \in Callers} /\ doing \in Callers \cup {None}
  /\ request \in [Callers -> {"new", "waits", "late", "answered", "timeout"}]
  /\ chan \in [Callers -> {"empty", "full", "closed"}]
  /\ sends \in [Callers -> 0..1]
  /\ away \in BOOLEAN

(* The worker is idle, told to the manager, has a request in its mailbox,    *)
(* does one, or stays away, and only one of these.                           *)
WorkerPlaced ==
  /\ Distinct(mail, {Worker})
  /\ idle # <<>> => ~In(mail, Worker) /\ inbox = <<>> /\ doing = None /\ ~away
  /\ In(mail, Worker) => inbox = <<>> /\ doing = None /\ ~away
  /\ inbox # <<>> => doing = None /\ ~away
  /\ doing # None => ~away
  /\ idle # <<>> \/ In(mail, Worker) \/ inbox # <<>> \/ doing # None \/ away

(* A request was not sent to its server before it is with the worker, and is *)
(* at one place at most; one whose caller waits for the answer is somewhere. *)
RequestsPlaced ==
  /\ Distinct(mail, Callers)
  /\ \A r \in Callers :
       /\ In(mail, r) => inbox # <<r>> /\ r \notin dropped /\ request[r] # "new" /\ sends[r] = 0
       /\ inbox = <<r>> => r \notin dropped /\ request[r] # "new" /\ sends[r] = 0
       /\ r \in dropped => request[r] # "new" /\ sends[r] = 0
       /\ doing = r => sends[r] = 1
       /\ request[r] = "new" => sends[r] = 0
       /\ request[r] = "waits" /\ chan[r] = "empty"
            => In(mail, r) \/ inbox = <<r>> \/ doing = r \/ r \in dropped

ClientInv == ClientTypes /\ WorkerPlaced /\ RequestsPlaced

LEMMA ClientInit == Pool!Init => ClientInv
<1> SUFFICES ASSUME Pool!Init PROVE ClientInv
  OBVIOUS
<1> USE KindsAssumption DEF Pool!Init
<1>0. /\ mail = <<>> /\ inbox = <<>> /\ doing = None /\ dropped = {} /\ away = FALSE
      /\ \A r \in Callers : request[r] = "new" /\ sends[r] = 0
  OBVIOUS
<1>1. ClientTypes
  <2>1. sends \in [Callers -> 0..1] /\ chan \in [Callers -> {"empty", "full", "closed"}]
    OBVIOUS
  <2>2. request \in [Callers -> {"new", "waits", "late", "answered", "timeout"}]
    OBVIOUS
  <2>3. mail \in Seq(ClientMail) /\ idle = <<Worker>>
    OBVIOUS
  <2> HIDE DEF Pool!Init
  <2> QED
    BY <1>0, <2>1, <2>2, <2>3 DEF ClientTypes
<1>2. \A x : ~In(mail, x)
  BY DEF In
<1>3. \A M : Distinct(mail, M)
  BY DEF Distinct
<1>4. idle # <<>>
  OBVIOUS
<1>5. WorkerPlaced
  BY <1>2, <1>3, <1>4 DEF WorkerPlaced
<1>6. RequestsPlaced
  <2>1. \A r \in Callers : inbox # <<r>> /\ doing # r /\ r \notin dropped
    OBVIOUS
  <2> QED
    BY <1>2, <1>3, <2>1 DEF RequestsPlaced
<1> QED
  BY <1>1, <1>5, <1>6 DEF ClientInv

(* What one more message does to the mailbox of the manager.                 *)
LEMMA ClientMailGrows ==
  ASSUME ClientInv, NEW m \in ClientMail, mail' = Append(mail, m), ~In(mail, m) \/ m = "loop"
  PROVE  /\ mail' \in Seq(ClientMail) /\ \A x : In(mail', x) <=> In(mail, x) \/ x = m
         /\ Distinct(mail', {Worker}) /\ Distinct(mail', Callers)
<1>1. mail \in Seq(ClientMail) /\ Distinct(mail, {Worker}) /\ Distinct(mail, Callers)
  BY DEF ClientInv, ClientTypes, WorkerPlaced, RequestsPlaced
<1>2. mail' \in Seq(ClientMail) /\ \A x : In(mail', x) <=> In(mail, x) \/ x = m
  <2> PICK t : t = mail'
    OBVIOUS
  <2>1. t = Append(mail, m)
    OBVIOUS
  <2>2. t \in Seq(ClientMail) /\ \A x : In(t, x) <=> In(mail, x) \/ x = m
    BY <1>1, <2>1, AppendIn, Zenon
  <2> QED
    BY <2>2
<1>3. ~In(mail, m) \/ m \notin {Worker}
  BY KindsAssumption
<1>4. ~In(mail, m) \/ m \notin Callers
  BY KindsAssumption
<1>5. Distinct(mail', {Worker})
  BY <1>1, <1>3, AppendKeeps, Zenon
<1>6. Distinct(mail', Callers)
  BY <1>1, <1>4, AppendKeeps, Zenon
<1> QED
  BY <1>2, <1>5, <1>6

(* A message is taken from it.                                               *)
LEMMA ClientMailTaken ==
  ASSUME ClientInv, mail # <<>>, mail' = Tail(mail), NEW m, m = mail[1]
  PROVE  /\ mail' \in Seq(ClientMail) /\ m \in ClientMail /\ In(mail, m)
         /\ \A x : In(mail', x) => In(mail, x)
         /\ \A x : In(mail, x) => x = m \/ In(mail', x)
         /\ Distinct(mail', {Worker}) /\ Distinct(mail', Callers)
         /\ m # "loop" => ~In(mail', m)
<1>1. mail \in Seq(ClientMail) /\ Distinct(mail, {Worker}) /\ Distinct(mail, Callers) /\ Head(mail) = m
  BY DEF ClientInv, ClientTypes, WorkerPlaced, RequestsPlaced
<1>2. /\ mail' \in Seq(ClientMail) /\ m \in ClientMail /\ In(mail, m)
      /\ \A x : In(mail', x) => In(mail, x)
      /\ \A x : In(mail, x) => x = m \/ In(mail', x)
      /\ Distinct(mail', {Worker}) /\ (m \in {Worker} => ~In(mail', m))
  BY <1>1, TailHolds
<1>3. Distinct(mail', Callers) /\ (m \in Callers => ~In(mail', m))
  BY <1>1, TailHolds
<1>4. m # "loop" => m \in {Worker} \/ m \in Callers
  BY <1>2 DEF ClientMail
<1> QED
  BY <1>2, <1>3, <1>4

(* Each action keeps the invariant. *)
LEMMA ClientAsks ==
  ASSUME ClientInv, NEW r \in Callers, Pool!Request(r)
  PROVE  ClientInv'
<1>1. /\ request[r] = "new" /\ request' = [request EXCEPT ![r] = "waits"] /\ mail' = Append(mail, r)
      /\ UNCHANGED <<idle, inbox, doing, chan, sends, away, dropped>>
  BY DEF Pool!Request, Pool!manager, Pool!worker
<1>2. ~In(mail, r) /\ r # Worker /\ r \in ClientMail
  BY <1>1, KindsAssumption DEF ClientInv, RequestsPlaced, ClientMail
<1>3. /\ mail' \in Seq(ClientMail) /\ \A x : In(mail', x) <=> In(mail, x) \/ x = r
      /\ Distinct(mail', {Worker}) /\ Distinct(mail', Callers)
  BY <1>1, <1>2, ClientMailGrows
<1>4. request'[r] = "waits" /\ \A c \in Callers : c # r => request'[c] = request[c]
  BY <1>1 DEF ClientInv, ClientTypes
<1>5. ClientTypes'
  BY <1>1, <1>3 DEF ClientInv, ClientTypes
<1>6. WorkerPlaced'
  BY <1>1, <1>2, <1>3 DEF ClientInv, WorkerPlaced
<1>7. RequestsPlaced'
  <2>1. inbox # <<r>> /\ r \notin dropped /\ sends[r] = 0 /\ doing # r
    BY <1>1 DEF ClientInv, RequestsPlaced
  <2> QED
    BY <1>1, <1>3, <1>4, <2>1 DEF ClientInv, RequestsPlaced
<1> QED
  BY <1>5, <1>6, <1>7 DEF ClientInv

(* The caller stops waiting: nothing moves.                                  *)
LEMMA ClientStays ==
  ASSUME ClientInv, UNCHANGED <<mail, idle, inbox, doing, sends, away, dropped>>, ClientTypes',
         \A c \in Callers : /\ request'[c] = "new" => request[c] = "new"
                            /\ request'[c] = "waits" /\ chan'[c] = "empty"
                                 => request[c] = "waits" /\ chan[c] = "empty"
  PROVE  ClientInv'
<1>1. WorkerPlaced'
  BY DEF ClientInv, WorkerPlaced
<1>2. RequestsPlaced'
  BY DEF ClientInv, RequestsPlaced
<1> QED
  BY <1>1, <1>2 DEF ClientInv

(* The message of the timer comes and goes.                                  *)
LEMMA ClientLoops ==
  ASSUME ClientInv, Pool!Tick \/ Pool!HandleLoop
  PROVE  ClientInv'
<1>1. UNCHANGED <<idle, inbox, doing, request, chan, sends, away, dropped>>
  BY DEF Pool!Tick, Pool!HandleLoop, Pool!manager, Pool!worker
<1>2. /\ mail' \in Seq(ClientMail) /\ \A x : x # "loop" => (In(mail', x) <=> In(mail, x))
      /\ Distinct(mail', {Worker}) /\ Distinct(mail', Callers)
  <2>1. CASE Pool!Tick
    <3>1. mail' = Append(mail, "loop") /\ "loop" \in ClientMail
      BY <2>1 DEF Pool!Tick, ClientMail
    <3> QED
      BY <3>1, ClientMailGrows
  <2>2. CASE Pool!HandleLoop
    <3>1. mail # <<>> /\ mail' = Tail(mail) /\ mail[1] = "loop"
      BY <2>2 DEF Pool!HandleLoop
    <3> QED
      BY <3>1, ClientMailTaken
  <2> QED
    BY <2>1, <2>2
<1>3. Worker # "loop" /\ "loop" \notin Callers
  BY KindsAssumption
<1>4. ClientTypes'
  BY <1>1, <1>2 DEF ClientInv, ClientTypes
<1>5. WorkerPlaced'
  BY <1>1, <1>2, <1>3 DEF ClientInv, WorkerPlaced
<1>6. RequestsPlaced'
  BY <1>1, <1>2, <1>3 DEF ClientInv, RequestsPlaced
<1> QED
  BY <1>4, <1>5, <1>6 DEF ClientInv

(* The manager has a request: the idle worker gets it, or Put panics.        *)
LEMMA ClientGives ==
  ASSUME ClientInv, Pool!HandleRequest
  PROVE  ClientInv'
<1> PICK r : r = mail[1]
  OBVIOUS
<1>1. /\ r \in Callers /\ mail # <<>> /\ mail' = Tail(mail)
      /\ UNCHANGED <<doing, request, chan, sends, away>>
  BY DEF Pool!HandleRequest
<1>2. r # Worker /\ r # "loop"
  BY <1>1, KindsAssumption
<1>3. /\ mail' \in Seq(ClientMail) /\ In(mail, r) /\ ~In(mail', r)
      /\ \A x : x # r => (In(mail', x) <=> In(mail, x))
      /\ Distinct(mail', {Worker}) /\ Distinct(mail', Callers)
  BY <1>1, <1>2, ClientMailTaken
<1>4. inbox # <<r>> /\ r \notin dropped /\ request[r] # "new" /\ sends[r] = 0 /\ doing # r
  BY <1>1, <1>3 DEF ClientInv, RequestsPlaced
<1>5. CASE idle # <<>>
  <2>1. inbox' = Append(inbox, r) /\ idle' = Pool!Front(idle) /\ dropped' = dropped
    BY <1>5 DEF Pool!HandleRequest
  <2>2. idle = <<Worker>> /\ inbox = <<>> /\ doing = None /\ ~away /\ ~In(mail, Worker)
    BY <1>5 DEF ClientInv, ClientTypes, WorkerPlaced
  <2>3. idle' = <<>>
    BY <2>1, <2>2 DEF Pool!Front
  <2>4. inbox' = <<r>> /\ inbox' # <<>>
    BY <2>1, <2>2
  <2>5. ClientTypes'
    BY <1>1, <1>3, <2>3, <2>4 DEF ClientInv, ClientTypes
  <2>6. WorkerPlaced'
    BY <1>1, <1>2, <1>3, <2>2, <2>3, <2>4 DEF WorkerPlaced
  <2>7. \A c \in Callers : (inbox' = <<c>>) <=> c = r
    BY <2>4
  <2>8. RequestsPlaced'
    <3>1. \A c \in Callers : inbox # <<c>>
      BY <2>2
    <3> QED
      BY <1>1, <1>3, <1>4, <2>1, <2>7, <3>1 DEF ClientInv, RequestsPlaced
  <2> QED
    BY <2>5, <2>6, <2>8 DEF ClientInv
<1>6. CASE idle = <<>>
  <2>1. dropped' = dropped \cup {r} /\ UNCHANGED <<idle, inbox>>
    BY <1>6 DEF Pool!HandleRequest
  <2>2. ClientTypes'
    BY <1>1, <1>3, <2>1 DEF ClientInv, ClientTypes
  <2>3. WorkerPlaced'
    BY <1>1, <1>2, <1>3, <2>1 DEF ClientInv, WorkerPlaced
  <2>4. RequestsPlaced'
    BY <1>1, <1>3, <1>4, <2>1 DEF ClientInv, RequestsPlaced
  <2> QED
    BY <2>2, <2>3, <2>4 DEF ClientInv
<1> QED
  BY <1>5, <1>6

(* The manager has the worker: it is idle.                                   *)
LEMMA ClientOffers ==
  ASSUME ClientInv, Pool!HandleWorker
  PROVE  ClientInv'
<1>1. /\ mail # <<>> /\ mail[1] = Worker /\ mail' = Tail(mail) /\ idle' = Append(idle, Worker)
      /\ UNCHANGED <<inbox, doing, request, chan, sends, away, dropped>>
  BY DEF Pool!HandleWorker, Pool!worker
<1>2. /\ mail' \in Seq(ClientMail) /\ In(mail, Worker) /\ ~In(mail', Worker)
      /\ \A x : x # Worker => (In(mail', x) <=> In(mail, x))
      /\ Distinct(mail', {Worker}) /\ Distinct(mail', Callers)
  <2>1. Worker # "loop"
    BY KindsAssumption
  <2> QED
    BY <1>1, <2>1, ClientMailTaken
<1>3. idle = <<>> /\ inbox = <<>> /\ doing = None /\ ~away
  BY <1>2 DEF ClientInv, WorkerPlaced
<1>4. idle' = <<Worker>> /\ idle' # <<>>
  BY <1>1, <1>3
<1>5. ClientTypes'
  BY <1>1, <1>2, <1>4 DEF ClientInv, ClientTypes
<1>6. WorkerPlaced'
  BY <1>1, <1>2, <1>3, <1>4 DEF WorkerPlaced
<1>7. RequestsPlaced'
  <2>1. Worker \notin Callers
    BY KindsAssumption
  <2> QED
    BY <1>1, <1>2, <2>1 DEF ClientInv, RequestsPlaced
<1> QED
  BY <1>5, <1>6, <1>7 DEF ClientInv

(* The worker takes the request it was given, or drops it.                   *)
LEMMA ClientTakes ==
  ASSUME ClientInv, Pool!Take
  PROVE  ClientInv'
<1> PICK r : r = inbox[1]
  OBVIOUS
<1>1. /\ doing = None /\ inbox # <<>> /\ inbox' = Tail(inbox)
      /\ UNCHANGED <<idle, request, chan, away, dropped>>
  BY DEF Pool!Take, Pool!manager
<1>2. r \in Callers /\ inbox = <<r>>
  BY <1>1 DEF ClientInv, ClientTypes
<1>3. inbox' = <<>> /\ \A c \in Callers : inbox' # <<c>> /\ (inbox = <<c>> => c = r)
  BY <1>1, <1>2
<1>4. idle = <<>> /\ ~In(mail, Worker) /\ ~away
  BY <1>1 DEF ClientInv, WorkerPlaced
<1>5. ~In(mail, r) /\ r \notin dropped /\ request[r] # "new" /\ sends[r] = 0 /\ r # None
  BY <1>2, KindsAssumption DEF ClientInv, RequestsPlaced
<1>6. CASE request[r] \in {"late", "timeout"}
  <2>1. mail' = Append(mail, Worker) /\ UNCHANGED <<doing, sends>> /\ Worker \in ClientMail
    BY <1>6 DEF Pool!Take, ClientMail
  <2>2. /\ mail' \in Seq(ClientMail) /\ \A x : In(mail', x) <=> In(mail, x) \/ x = Worker
        /\ Distinct(mail', {Worker}) /\ Distinct(mail', Callers)
    BY <1>4, <2>1, ClientMailGrows
  <2>3. ClientTypes'
    BY <1>1, <1>3, <2>1, <2>2 DEF ClientInv, ClientTypes
  <2>4. WorkerPlaced'
    BY <1>1, <1>3, <1>4, <2>1, <2>2 DEF WorkerPlaced
  <2>5. RequestsPlaced'
    <3>1. Worker \notin Callers
      BY KindsAssumption
    <3> QED
      BY <1>1, <1>3, <1>6, <2>1, <2>2, <3>1 DEF ClientInv, RequestsPlaced
  <2> QED
    BY <2>3, <2>4, <2>5 DEF ClientInv
<1>7. CASE request[r] \notin {"late", "timeout"}
  <2>1. doing' = r /\ sends' = [sends EXCEPT ![r] = @ + 1] /\ mail' = mail
    BY <1>7 DEF Pool!Take
  <2>2. sends'[r] = 1 /\ \A c \in Callers : c # r => sends'[c] = sends[c]
    BY <1>2, <1>5, <2>1 DEF ClientInv, ClientTypes
  <2>3. sends' \in [Callers -> 0..1]
    BY <1>2, <1>5, <2>1 DEF ClientInv, ClientTypes
  <2>4. ClientTypes'
    BY <1>1, <1>2, <1>3, <2>1, <2>3 DEF ClientInv, ClientTypes
  <2>5. WorkerPlaced'
    BY <1>1, <1>3, <1>4, <1>5, <2>1 DEF ClientInv, WorkerPlaced
  <2>6. RequestsPlaced'
    BY <1>1, <1>2, <1>3, <1>5, <2>1, <2>2, KindsAssumption DEF ClientInv, RequestsPlaced
  <2> QED
    BY <2>4, <2>5, <2>6 DEF ClientInv
<1> QED
  BY <1>6, <1>7

(* The worker has an answer, and comes back unless it meets a closed channel.*)
LEMMA ClientAnswers ==
  ASSUME ClientInv, NEW no \in BOOLEAN, Pool!Answer(no)
  PROVE  ClientInv'
<1> PICK r : r = doing
  OBVIOUS
<1>1. /\ r # None /\ doing' = None
      /\ chan' = IF chan[r] = "empty" THEN [chan EXCEPT ![r] = "full"] ELSE chan
      /\ UNCHANGED <<idle, inbox, request, sends, dropped>>
  BY DEF Pool!Answer, Pool!manager
<1>2. r \in Callers /\ sends[r] = 1 /\ doing = r
  BY <1>1 DEF ClientInv, ClientTypes, RequestsPlaced
<1>3. idle = <<>> /\ ~In(mail, Worker) /\ inbox = <<>> /\ ~away
  BY <1>1 DEF ClientInv, WorkerPlaced
<1>4. /\ chan' \in [Callers -> {"empty", "full", "closed"}] /\ chan'[r] # "empty"
      /\ \A c \in Callers : c # r => chan'[c] = chan[c]
  BY <1>1, <1>2 DEF ClientInv, ClientTypes
<1>5. \A c \in Callers : doing' # c /\ inbox # <<c>>
  BY <1>1, <1>3, KindsAssumption
<1>6. CASE no \/ chan[r] = "closed"
  <2>1. away' = TRUE /\ mail' = mail
    BY <1>6 DEF Pool!Answer
  <2>2. ClientTypes'
    BY <1>1, <1>4, <2>1 DEF ClientInv, ClientTypes
  <2>3. WorkerPlaced'
    BY <1>1, <1>3, <2>1 DEF ClientInv, WorkerPlaced
  <2>4. RequestsPlaced'
    BY <1>1, <1>2, <1>4, <1>5, <2>1 DEF ClientInv, RequestsPlaced
  <2> QED
    BY <2>2, <2>3, <2>4 DEF ClientInv
<1>7. CASE ~(no \/ chan[r] = "closed")
  <2>1. mail' = Append(mail, Worker) /\ away' = away /\ Worker \in ClientMail
    BY <1>7 DEF Pool!Answer, ClientMail
  <2>2. /\ mail' \in Seq(ClientMail) /\ \A x : In(mail', x) <=> In(mail, x) \/ x = Worker
        /\ Distinct(mail', {Worker}) /\ Distinct(mail', Callers)
    BY <1>3, <2>1, ClientMailGrows
  <2>3. ClientTypes'
    BY <1>1, <1>4, <2>1, <2>2 DEF ClientInv, ClientTypes
  <2>4. WorkerPlaced'
    BY <1>1, <1>3, <2>1, <2>2 DEF WorkerPlaced
  <2>5. RequestsPlaced'
    <3>1. Worker \notin Callers
      BY KindsAssumption
    <3> QED
      BY <1>1, <1>2, <1>4, <1>5, <2>1, <2>2, <3>1 DEF ClientInv, RequestsPlaced
  <2> QED
    BY <2>3, <2>4, <2>5 DEF ClientInv
<1> QED
  BY <1>6, <1>7

LEMMA ClientStep == ClientInv /\ [Pool!Next]_(Pool!vars) => ClientInv'
<1> SUFFICES ASSUME ClientInv, [Pool!Next]_(Pool!vars) PROVE ClientInv'
  OBVIOUS
<1>1. ASSUME NEW r \in Callers, Pool!Receive(r) \/ Pool!Timeout(r) \/ Pool!Close(r)
      PROVE  ClientInv'
  <2>1. /\ UNCHANGED <<mail, idle, inbox, doing, sends, away, dropped>>
        /\ \E a \in {"answered", "late", "timeout"} : request' = [request EXCEPT ![r] = a]
        /\ chan' = chan \/ chan' = [chan EXCEPT ![r] = "closed"]
    BY <1>1 DEF Pool!Receive, Pool!Timeout, Pool!Close, Pool!manager, Pool!worker
  <2>2. ClientTypes'
    BY <2>1 DEF ClientInv, ClientTypes
  <2>3. \A c \in Callers : /\ request'[c] = "new" => request[c] = "new"
                           /\ request'[c] = "waits" /\ chan'[c] = "empty"
                                => request[c] = "waits" /\ chan[c] = "empty"
    BY <2>1 DEF ClientInv, ClientTypes
  <2> QED
    BY <2>1, <2>2, <2>3, ClientStays
<1>2. CASE UNCHANGED Pool!vars
  <2>1. UNCHANGED <<mail, idle, inbox, doing, sends, away, dropped, request, chan>>
    BY <1>2 DEF Pool!vars
  <2>2. ClientTypes'
    BY <2>1 DEF ClientInv, ClientTypes
  <2> QED
    BY <2>1, <2>2, ClientStays
<1>3. CASE Pool!Answer(FALSE) \/ Pool!Answer(TRUE)
  <2>1. FALSE \in BOOLEAN /\ TRUE \in BOOLEAN
    OBVIOUS
  <2> QED
    BY <1>3, <2>1, ClientAnswers
<1> QED
  BY <1>1, <1>2, <1>3, ClientAsks, ClientGives, ClientOffers, ClientLoops, ClientTakes DEF Pool!Next

LEMMA ClientMean == ClientInv => Pool!PoolRight
<1> SUFFICES ASSUME ClientInv PROVE Pool!PoolRight
  OBVIOUS
<1> USE DEF ClientInv
<1>1. /\ Len(inbox) = IF inbox = <<>> THEN 0 ELSE 1
      /\ \A r \in Callers : Count(inbox, r) = IF inbox = <<r>> THEN 1 ELSE 0
  <2>1. CASE inbox = <<>>
    <3>1. \A r \in Callers : ~In(inbox, r) /\ Distinct(inbox, Callers) /\ inbox # <<r>>
      BY <2>1 DEF In, Distinct
    <3> QED
      BY <2>1, <3>1, CountIn
  <2>2. ASSUME NEW c \in Callers, inbox = <<c>>
        PROVE  Len(inbox) = 1 /\ inbox # <<>>
               /\ \A r \in Callers : Count(inbox, r) = IF inbox = <<r>> THEN 1 ELSE 0
    <3>1. \A r \in Callers : (In(inbox, r) <=> r = c) /\ Distinct(inbox, Callers)
                             /\ (inbox = <<r>> <=> r = c)
      BY <2>2 DEF In, Distinct
    <3> QED
      BY <2>2, <3>1, CountIn
  <2>3. inbox = <<>> \/ \E c \in Callers : inbox = <<c>>
    BY DEF ClientTypes
  <2> QED
    BY <2>1, <2>2, <2>3
<1>2. Count(idle, Worker) = IF idle = <<>> THEN 0 ELSE 1
  <2>1. /\ Distinct(idle, {Worker}) /\ (In(idle, Worker) <=> idle # <<>>)
        /\ Worker \in {Worker}
    <3>1. CASE idle = <<>>
      BY <3>1 DEF In, Distinct
    <3>2. CASE idle = <<Worker>>
      BY <3>2 DEF In, Distinct
    <3> QED
      BY <3>1, <3>2 DEF ClientTypes
  <2> QED
    BY <2>1, CountIn
<1>3. Count(mail, Worker) = IF In(mail, Worker) THEN 1 ELSE 0
  <2>1. Distinct(mail, {Worker}) /\ Worker \in {Worker}
    BY DEF WorkerPlaced
  <2> QED
    BY <2>1, CountIn
<1>4. \A r \in Callers : Count(mail, r) = IF In(mail, r) THEN 1 ELSE 0
  <2>1. Distinct(mail, Callers)
    BY DEF RequestsPlaced
  <2> QED
    BY <2>1, CountIn
<1>5. \A q, x : Pool!Count(q, x) = Count(q, x)
  BY DEF Pool!Count, Count, Pool!Cardinality, Cardinality
<1>6. Pool!WorkerPlaces = 1
  <2>1. Pool!WorkerPlaces = Count(idle, Worker) + Count(mail, Worker) + Len(inbox)
                              + (IF doing # None THEN 1 ELSE 0) + (IF away THEN 1 ELSE 0)
    BY <1>5 DEF Pool!WorkerPlaces, Pool!One
  <2> QED
    BY <1>1, <1>2, <1>3, <2>1 DEF WorkerPlaced
<1>7. ASSUME NEW r \in Callers, request[r] = "waits", chan[r] = "empty"
      PROVE  Pool!RequestPlaces(r) = 1
  <2>1. Pool!RequestPlaces(r) = Count(mail, r) + Count(inbox, r) + (IF doing = r THEN 1 ELSE 0)
                                  + (IF r \in dropped THEN 1 ELSE 0)
    BY <1>5 DEF Pool!RequestPlaces, Pool!One
  <2> QED
    BY <1>1, <1>4, <1>7, <2>1 DEF RequestsPlaced
<1>8. \A r \in Callers : sends[r] <= 1
  BY DEF ClientTypes
<1> QED
  BY <1>6, <1>7, <1>8 DEF Pool!PoolRight

(* The worker of httpc is not lost but by a request that was refused or had  *)
(* nobody left to answer to; a request whose caller waits is at one place,   *)
(* and none is sent twice, for any number of callers and their time-outs:    *)
(* the casts of httpc_manager and of its worker (PoolRight of HttpcPool).    *)
THEOREM ClientPoolRight == Pool!Spec => [](Pool!PoolRight /\ PoolRight)
<1>1. Pool!Init => ClientInv
  BY ClientInit
<1>2. ClientInv /\ [Pool!Next]_(Pool!vars) => ClientInv'
  BY ClientStep
<1>3. ClientInv => Pool!PoolRight /\ PoolRight
  BY ClientMean DEF PoolRight
<1> QED
  BY <1>1, <1>2, <1>3, PTL DEF Pool!Spec

-----------------------------------------------------------------------------
(* The monitor of nodes. *)
Kinds == {"monitor", "demonitor", "connect", "disconnect", "exit"}

\* Watches and Due of Monitor, over a history that is given.
Watching(h, w, n, i) ==
  \E j \in 1 .. i - 1 :
    /\ h[j].t = "monitor" /\ Nodes!About(h[j], w, n)
    /\ \A k \in j + 1 .. i - 1 : Nodes!About(h[k], w, n) => h[k].t = "monitor"
DueOf(h, w) == {i \in DOMAIN h : Nodes!Op(h[i]) /\ Watching(h, w, h[i].n, i)}
HeardOf(h, q, w) ==
  /\ Len(q) = Cardinality(DueOf(h, w))
  /\ \A i \in DueOf(h, w) : q[Cardinality({j \in DueOf(h, w) : j <= i})] = h[i]

WatchTypes ==
  /\ node2pid \in [Peers -> SUBSET Watchers] /\ id2node \in [Watchers -> SUBSET Peers]
  /\ mail \in Seq(Nodes!Messages) /\ handled \in Seq(Nodes!Messages)
  /\ heard \in [Watchers -> Seq(Nodes!Messages)]

\* The two maps are one relation, and it is who watches what.
SameMaps == \A w \in Watchers, n \in Peers : w \in node2pid[n] <=> n \in id2node[w]
MapsWatch ==
  \A w \in Watchers, n \in Peers : w \in node2pid[n] <=> Watching(handled, w, n, Len(handled) + 1)
AllHeard == \A w \in Watchers : HeardOf(handled, heard[w], w)

WatchInv == WatchTypes /\ SameMaps /\ MapsWatch /\ AllHeard

LEMMA OneCardinality == \A X : Nodes!Cardinality(X) = Cardinality(X)
BY DEF Nodes!Cardinality, Cardinality

(* What a message holds, by its kind.                                        *)
LEMMA MessageFields ==
  ASSUME NEW m \in Nodes!Messages
  PROVE  /\ m.t \in Kinds
         /\ m.t \in {"monitor", "demonitor"} => m.w \in Watchers /\ m.n \in Peers
         /\ m.t \in {"connect", "disconnect"} => m.n \in Peers
         /\ m.t = "exit" => m.w \in Watchers
BY DEF Nodes!Messages, Kinds

(* A message that is handled, or told.                                       *)
Grows(h, m, g) ==
  /\ Len(h) \in Nat /\ Len(g) = Len(h) + 1 /\ g[Len(h) + 1] = m
  /\ DOMAIN h = 1 .. Len(h) /\ DOMAIN g = 1 .. Len(h) + 1
  /\ \A i \in 1 .. Len(h) : g[i] = h[i]

LEMMA OneMore ==
  ASSUME NEW S, NEW h \in Seq(S), NEW m \in S
  PROVE  Append(h, m) \in Seq(S) /\ Grows(h, m, Append(h, m))
BY DEF Grows

LEMMA WatchingOld ==
  ASSUME NEW h, NEW m, NEW g, Grows(h, m, g), NEW w, NEW n,
         NEW i \in 1 .. Len(h) + 1
  PROVE  Watching(g, w, n, i) <=> Watching(h, w, n, i)
<1>1. Len(h) \in Nat /\ \A k \in 1 .. Len(h) : g[k] = h[k]
  BY DEF Grows
<1>2. \A k \in 1 .. i - 1 : k \in 1 .. Len(h) /\ g[k] = h[k]
  BY <1>1
<1>3. \A j \in 1 .. i - 1 : \A k \in j + 1 .. i - 1 : g[k] = h[k]
  BY <1>1, <1>2
<1> QED
  BY <1>2, <1>3, Zenon DEF Watching

LEMMA WatchingNew ==
  ASSUME NEW h, NEW m, NEW g, Grows(h, m, g), NEW w, NEW n
  PROVE  Watching(g, w, n, Len(g) + 1)
           <=> IF Nodes!About(m, w, n) THEN m.t = "monitor" ELSE Watching(h, w, n, Len(h) + 1)
<1>1. /\ Len(h) \in Nat /\ Len(g) = Len(h) + 1 /\ g[Len(h) + 1] = m
      /\ \A k \in 1 .. Len(h) : g[k] = h[k]
  BY DEF Grows
<1> DEFINE L == Len(h)
<1>2. L \in Nat /\ Len(g) + 1 - 1 = L + 1 /\ L + 1 - 1 = L /\ L + 1 \in 1 .. L + 1
  BY <1>1
<1>3. \A k \in 1 .. L + 1 : k \in 1 .. L \/ k = L + 1
  BY <1>2
<1>4. \A j \in 1 .. L : \A k \in j + 1 .. L + 1 : (k \in j + 1 .. L /\ g[k] = h[k]) \/ k = L + 1
  BY <1>1, <1>2
<1>5. \A j \in 1 .. L : L + 1 \in j + 1 .. L + 1 /\ \A k \in j + 1 .. L : k \in j + 1 .. L + 1
  BY <1>2
<1>6. \A k \in L + 1 + 1 .. L + 1 : FALSE
  BY <1>2
<1>7. \A j \in 1 .. L : j \in 1 .. L + 1 /\ g[j] = h[j]
  BY <1>1, <1>2
<1>8. g[L + 1] = m
  BY <1>1
<1> HIDE DEF L
<1>9. Watching(g, w, n, Len(g) + 1)
        <=> \E j \in 1 .. L + 1 :
              /\ g[j].t = "monitor" /\ Nodes!About(g[j], w, n)
              /\ \A k \in j + 1 .. L + 1 : Nodes!About(g[k], w, n) => g[k].t = "monitor"
  BY <1>2 DEF Watching
<1>10. Watching(h, w, n, Len(h) + 1)
         <=> \E j \in 1 .. L :
               /\ h[j].t = "monitor" /\ Nodes!About(h[j], w, n)
               /\ \A k \in j + 1 .. L : Nodes!About(h[k], w, n) => h[k].t = "monitor"
  BY <1>2 DEF Watching, L
<1>11. CASE Nodes!About(m, w, n)
  <2>1. ASSUME m.t = "monitor" PROVE Watching(g, w, n, Len(g) + 1)
    BY <1>2, <1>6, <1>8, <1>9, <1>11, <2>1, Zenon
  <2>2. ASSUME Watching(g, w, n, Len(g) + 1) PROVE m.t = "monitor"
    <3>1. PICK j \in 1 .. L + 1 :
              /\ g[j].t = "monitor" /\ Nodes!About(g[j], w, n)
              /\ \A k \in j + 1 .. L + 1 : Nodes!About(g[k], w, n) => g[k].t = "monitor"
      BY <1>9, <2>2
    <3>2. CASE j = L + 1
      BY <1>8, <3>1, <3>2
    <3>3. CASE j \in 1 .. L
      BY <1>5, <1>8, <1>11, <3>1, <3>3
    <3> QED
      BY <1>3, <3>2, <3>3
  <2> QED
    BY <1>11, <2>1, <2>2
<1>12. CASE ~Nodes!About(m, w, n)
  <2>1. ASSUME Watching(h, w, n, Len(h) + 1) PROVE Watching(g, w, n, Len(g) + 1)
    <3>1. PICK j \in 1 .. L :
               /\ h[j].t = "monitor" /\ Nodes!About(h[j], w, n)
               /\ \A k \in j + 1 .. L : Nodes!About(h[k], w, n) => h[k].t = "monitor"
      BY <1>10, <2>1
    <3>2. \A k \in j + 1 .. L + 1 : Nodes!About(g[k], w, n) => g[k].t = "monitor"
      BY <1>4, <1>8, <1>12, <3>1, Zenon
    <3> QED
      BY <1>7, <1>9, <3>1, <3>2, Zenon
  <2>2. ASSUME Watching(g, w, n, Len(g) + 1) PROVE Watching(h, w, n, Len(h) + 1)
    <3>1. PICK j \in 1 .. L + 1 :
              /\ g[j].t = "monitor" /\ Nodes!About(g[j], w, n)
              /\ \A k \in j + 1 .. L + 1 : Nodes!About(g[k], w, n) => g[k].t = "monitor"
      BY <1>9, <2>2
    <3>2. j \in 1 .. L
      BY <1>3, <1>8, <1>12, <3>1
    <3>3. \A k \in j + 1 .. L : Nodes!About(h[k], w, n) => h[k].t = "monitor"
      <4>1. \A k \in j + 1 .. L : k \in 1 .. L
        BY <1>2, <3>2
      <4> QED
        BY <1>5, <1>7, <3>1, <3>2, <4>1, Zenon
    <3> QED
      BY <1>7, <1>10, <3>1, <3>2, <3>3, Zenon
  <2> QED
    BY <1>12, <2>1, <2>2
<1> QED
  BY <1>11, <1>12

(* What is due after one more message.                                       *)
LEMMA DueMore ==
  ASSUME NEW h, NEW m, NEW g, Grows(h, m, g), NEW w
  PROVE  /\ Nodes!Op(m) /\ Watching(h, w, m.n, Len(h) + 1)
              => DueOf(g, w) = DueOf(h, w) \cup {Len(h) + 1}
         /\ ~(Nodes!Op(m) /\ Watching(h, w, m.n, Len(h) + 1)) => DueOf(g, w) = DueOf(h, w)
<1>1. /\ Len(h) \in Nat /\ Len(g) = Len(h) + 1 /\ g[Len(h) + 1] = m
      /\ DOMAIN h = 1 .. Len(h) /\ DOMAIN g = 1 .. Len(h) + 1
      /\ \A i \in 1 .. Len(h) : g[i] = h[i]
  BY DEF Grows
<1>2. \A n : \A i \in 1 .. Len(h) + 1 : Watching(g, w, n, i) <=> Watching(h, w, n, i)
  BY WatchingOld
<1>3. \A i \in 1 .. Len(h) + 1 : i \in 1 .. Len(h) \/ i = Len(h) + 1
  BY <1>1
<1>4. Len(h) + 1 \in 1 .. Len(h) + 1 /\ \A i \in 1 .. Len(h) : i \in 1 .. Len(h) + 1
  BY <1>1
<1>5. \A i \in 1 .. Len(h) : i \in DueOf(g, w) <=> i \in DueOf(h, w)
  BY <1>1, <1>2, <1>4 DEF DueOf
<1>6. Len(h) + 1 \in DueOf(g, w) <=> Nodes!Op(m) /\ Watching(h, w, m.n, Len(h) + 1)
  BY <1>1, <1>2, <1>4 DEF DueOf
<1>7. DueOf(g, w) \subseteq 1 .. Len(h) + 1 /\ DueOf(h, w) \subseteq 1 .. Len(h)
  BY <1>1 DEF DueOf
<1>8. CASE Nodes!Op(m) /\ Watching(h, w, m.n, Len(h) + 1)
  <2>1. \A i : i \in DueOf(g, w) <=> i \in DueOf(h, w) \/ i = Len(h) + 1
    BY <1>3, <1>5, <1>6, <1>7, <1>8
  <2> QED
    BY <1>8, <2>1
<1>9. CASE ~(Nodes!Op(m) /\ Watching(h, w, m.n, Len(h) + 1))
  <2>1. \A i : i \in DueOf(g, w) <=> i \in DueOf(h, w)
    BY <1>3, <1>4, <1>5, <1>6, <1>7, <1>9
  <2> QED
    BY <1>9, <2>1
<1> QED
  BY <1>8, <1>9

LEMMA DueFinite ==
  ASSUME NEW h, Len(h) \in Nat, DOMAIN h = 1 .. Len(h), NEW w, NEW X \in SUBSET DueOf(h, w)
  PROVE  IsFiniteSet(X) /\ Cardinality(X) \in Nat
<1>1. Len(h) \in Nat /\ DOMAIN h = 1 .. Len(h)
  OBVIOUS
<1>2. X \in SUBSET (1 .. Len(h))
  BY <1>1 DEF DueOf
<1>3. IsFiniteSet(1 .. Len(h))
  BY <1>1, FS_Interval
<1> QED
  BY <1>2, <1>3, FS_Subset, FS_CardinalityType

(* A watcher has heard what was due, and is told what is due now.            *)
LEMMA HeardMore ==
  ASSUME NEW h, NEW m, NEW g, Grows(h, m, g), NEW w,
         NEW q, HeardOf(h, q, w),
         Nodes!Op(m) /\ Watching(h, w, m.n, Len(h) + 1), NEW r, Grows(q, m, r)
  PROVE  HeardOf(g, r, w)
<1> DEFINE D == DueOf(h, w)
           E == DueOf(g, w)
           L == Len(h)
<1>1. /\ L \in Nat /\ g[L + 1] = m /\ DOMAIN h = 1 .. L
      /\ \A i \in 1 .. L : g[i] = h[i]
  BY DEF Grows
<1>2. Len(q) \in Nat /\ Len(r) = Len(q) + 1 /\ r[Len(q) + 1] = m /\ \A i \in 1 .. Len(q) : r[i] = q[i]
  BY DEF Grows
<1>3. E = D \cup {L + 1} /\ D \subseteq 1 .. L /\ L + 1 \notin D
  <2>1. E = D \cup {L + 1}
    BY DueMore
  <2>2. D \subseteq 1 .. L
    BY <1>1 DEF DueOf
  <2> QED
    BY <1>1, <2>1, <2>2
<1>4. Len(q) = Cardinality(D) /\ \A i \in D : q[Cardinality({j \in D : j <= i})] = h[i]
  BY DEF HeardOf
<1>5. IsFiniteSet(D)
  <2>1. Len(h) \in Nat /\ DOMAIN h = 1 .. Len(h) /\ D \in SUBSET DueOf(h, w)
    BY <1>1
  <2> QED
    BY <2>1, DueFinite, Zenon
<1> HIDE DEF D, E, L
<1>6. Cardinality(E) = Len(r)
  <2>1. Cardinality(D \cup {L + 1}) = Cardinality(D) + 1
    BY <1>3, <1>5, FS_AddElement, Zenon
  <2> QED
    BY <1>2, <1>3, <1>4, <2>1
<1>7. ASSUME NEW i \in E PROVE r[Cardinality({j \in E : j <= i})] = g[i]
  <2>1. CASE i = L + 1
    <3>1. \A j \in E : j <= i
      <4>1. \A j \in D : j <= L + 1
        BY <1>1, <1>3
      <4>2. L + 1 <= L + 1
        BY <1>1
      <4> QED
        BY <1>3, <2>1, <4>1, <4>2, Zenon
    <3>2. {j \in E : j <= i} = E
      BY <3>1
    <3> QED
      BY <1>1, <1>2, <1>6, <2>1, <3>2
  <2>2. CASE i \in D
    <3> DEFINE F == {j \in D : j <= i}
    <3>1. {j \in E : j <= i} = F
      <4>1. i <= L /\ i \in Int /\ ~(L + 1 <= i)
        BY <1>1, <1>3, <2>2
      <4>2. \A j : j \in {k \in E : k <= i} <=> j \in F
        BY <1>3, <4>1
      <4> QED
        BY <4>2
    <3>2. F \in SUBSET D /\ i \in F
      BY <1>1, <1>3, <2>2
    <3> HIDE DEF F
    <3>3. IsFiniteSet(F) /\ Cardinality(F) \in Nat /\ Cardinality(F) <= Cardinality(D)
      BY <1>5, <3>2, FS_Subset, FS_CardinalityType
    <3>4. Cardinality(F) # 0
      BY <3>2, <3>3, FS_EmptySet
    <3>5. Cardinality(F) \in 1 .. Len(q)
      BY <1>2, <1>4, <3>3, <3>4
    <3>6. q[Cardinality(F)] = h[i]
      BY <1>4, <2>2 DEF F
    <3> QED
      BY <1>1, <1>2, <1>3, <2>2, <3>1, <3>5, <3>6
  <2> QED
    BY <1>3, <2>1, <2>2
<1> QED
  BY <1>6, <1>7 DEF HeardOf, E

LEMMA HeardSame ==
  ASSUME NEW h, NEW m, NEW g, Grows(h, m, g), NEW w,
         NEW q, HeardOf(h, q, w),
         ~(Nodes!Op(m) /\ Watching(h, w, m.n, Len(h) + 1))
  PROVE  HeardOf(g, q, w)
<1>1. DueOf(g, w) = DueOf(h, w)
  BY DueMore
<1>2. \A i \in DueOf(h, w) : g[i] = h[i]
  BY DEF Grows, DueOf
<1> QED
  BY <1>1, <1>2 DEF HeardOf

-----------------------------------------------------------------------------
LEMMA WatchInit == Nodes!Init => WatchInv
<1> SUFFICES ASSUME Nodes!Init PROVE WatchInv
  OBVIOUS
<1>1. /\ node2pid = [n \in Peers |-> {}] /\ id2node = [w \in Watchers |-> {}]
      /\ mail = <<>> /\ handled = <<>> /\ heard = [w \in Watchers |-> <<>>]
  BY DEF Nodes!Init
<1>2. /\ \A S : <<>> \in Seq(S)
      /\ DOMAIN handled = {} /\ Len(handled) = 0
  BY <1>1
<1>3. WatchTypes
  BY <1>1, <1>2 DEF WatchTypes
<1>4. SameMaps
  BY <1>1 DEF SameMaps
<1>5. \A w, n : ~Watching(handled, w, n, Len(handled) + 1)
  BY <1>2 DEF Watching
<1>6. MapsWatch
  BY <1>1, <1>5 DEF MapsWatch
<1>7. \A w : DueOf(handled, w) = {}
  BY <1>2 DEF DueOf
<1>8. Cardinality({}) = 0 /\ \A w \in Watchers : Len(heard[w]) = 0
  BY <1>1, FS_EmptySet
<1>9. AllHeard
  BY <1>7, <1>8 DEF AllHeard, HeardOf
<1> QED
  BY <1>3, <1>4, <1>6, <1>9 DEF WatchInv

LEMMA WatchSends ==
  ASSUME WatchInv, NEW m \in Nodes!Messages, Nodes!Send(m)
  PROVE  WatchInv'
<1>1. mail' = Append(mail, m) /\ UNCHANGED <<node2pid, id2node, handled, heard>>
  BY DEF Nodes!Send
<1>2. mail' \in Seq(Nodes!Messages)
  BY <1>1, OneMore DEF WatchInv, WatchTypes
<1>3. WatchTypes'
  BY <1>1, <1>2 DEF WatchInv, WatchTypes
<1>4. SameMaps' /\ MapsWatch'
  BY <1>1 DEF WatchInv, SameMaps, MapsWatch
<1>5. AllHeard'
  BY <1>1 DEF WatchInv, AllHeard
<1> QED
  BY <1>3, <1>4, <1>5 DEF WatchInv

(* The first message is taken from the mailbox.                              *)
LEMMA WatchTakes ==
  ASSUME WatchTypes, NEW T, Nodes!Received(T)
  PROVE  /\ mail[1] \in Nodes!Messages /\ mail[1].t \in T /\ mail' \in Seq(Nodes!Messages)
         /\ handled' \in Seq(Nodes!Messages) /\ Grows(handled, mail[1], handled')
<1>1. /\ mail # <<>> /\ mail[1].t \in T /\ mail' = Tail(mail)
      /\ handled' = Append(handled, mail[1])
  BY DEF Nodes!Received
<1>2. mail \in Seq(Nodes!Messages) /\ handled \in Seq(Nodes!Messages)
  BY DEF WatchTypes
<1>3. mail[1] \in Nodes!Messages /\ Tail(mail) \in Seq(Nodes!Messages)
  BY <1>1, <1>2
<1> QED
  BY <1>1, <1>2, <1>3, OneMore

(* A message changes both maps for those it is about.                        *)
LEMMA MapsKeep ==
  ASSUME SameMaps, MapsWatch, NEW m, Grows(handled, m, handled'),
         \A w \in Watchers, n \in Peers :
           /\ w \in node2pid'[n] <=> IF Nodes!About(m, w, n) THEN m.t = "monitor" ELSE w \in node2pid[n]
           /\ n \in id2node'[w] <=> IF Nodes!About(m, w, n) THEN m.t = "monitor" ELSE n \in id2node[w]
  PROVE  SameMaps' /\ MapsWatch'
<1>1. SameMaps'
  BY DEF SameMaps
<1>2. ASSUME NEW w \in Watchers, NEW n \in Peers
      PROVE  w \in node2pid'[n] <=> Watching(handled', w, n, Len(handled') + 1)
  <2>1. Watching(handled', w, n, Len(handled') + 1)
          <=> IF Nodes!About(m, w, n) THEN m.t = "monitor" ELSE Watching(handled, w, n, Len(handled) + 1)
    BY WatchingNew, Zenon
  <2>2. w \in node2pid[n] <=> Watching(handled, w, n, Len(handled) + 1)
    BY DEF MapsWatch
  <2> QED
    BY <2>1, <2>2
<1> QED
  BY <1>1, <1>2 DEF MapsWatch

LEMMA HeardKept ==
  ASSUME AllHeard, NEW m, ~Nodes!Op(m), Grows(handled, m, handled'), heard' = heard
  PROVE  AllHeard'
<1>1. ASSUME NEW w \in Watchers PROVE HeardOf(handled', heard[w], w)
  <2>1. HeardOf(handled, heard[w], w)
    BY DEF AllHeard
  <2> QED
    BY <2>1, HeardSame, Zenon
<1> QED
  BY <1>1 DEF AllHeard

LEMMA WatchMonitors ==
  ASSUME WatchInv, Nodes!MonitorNode
  PROVE  WatchInv'
<1>0. PICK m : m = mail[1]
  OBVIOUS
<1>1. WatchTypes /\ Nodes!Received({"monitor"})
  BY DEF WatchInv, Nodes!MonitorNode
<1>2. /\ m \in Nodes!Messages /\ m.t = "monitor" /\ mail' \in Seq(Nodes!Messages)
      /\ handled' \in Seq(Nodes!Messages) /\ Grows(handled, m, handled')
  BY <1>0, <1>1, WatchTakes
<1>3. m.w \in Watchers /\ m.n \in Peers
  BY <1>2, MessageFields
<1>4. /\ id2node' = [id2node EXCEPT ![m.w] = @ \union {m.n}]
      /\ node2pid' = [node2pid EXCEPT ![m.n] = @ \union {m.w}]
      /\ heard' = heard
  BY <1>0 DEF Nodes!MonitorNode
<1>5. ~Nodes!Op(m) /\ \A w, n : Nodes!About(m, w, n) <=> m.w = w /\ m.n = n
  BY <1>2 DEF Nodes!Op, Nodes!About
<1>6. WatchTypes'
  BY <1>1, <1>2, <1>3, <1>4 DEF WatchTypes
<1>7. \A w \in Watchers, n \in Peers :
        /\ w \in node2pid'[n] <=> IF Nodes!About(m, w, n) THEN m.t = "monitor" ELSE w \in node2pid[n]
        /\ n \in id2node'[w] <=> IF Nodes!About(m, w, n) THEN m.t = "monitor" ELSE n \in id2node[w]
  BY <1>1, <1>2, <1>3, <1>4, <1>5 DEF WatchTypes
<1>8. SameMaps /\ MapsWatch /\ AllHeard
  BY DEF WatchInv
<1>9. SameMaps' /\ MapsWatch'
  BY <1>2, <1>7, <1>8, MapsKeep
<1>10. AllHeard'
  BY <1>2, <1>4, <1>5, <1>8, HeardKept
<1> QED
  BY <1>6, <1>9, <1>10 DEF WatchInv

LEMMA WatchEnds ==
  ASSUME WatchInv, Nodes!DeMonitorNode
  PROVE  WatchInv'
<1>0. PICK m : m = mail[1]
  OBVIOUS
<1>1. WatchTypes /\ Nodes!Received({"demonitor"})
  BY DEF WatchInv, Nodes!DeMonitorNode
<1>2. /\ m \in Nodes!Messages /\ m.t = "demonitor" /\ mail' \in Seq(Nodes!Messages)
      /\ handled' \in Seq(Nodes!Messages) /\ Grows(handled, m, handled')
  BY <1>0, <1>1, WatchTakes
<1>3. m.w \in Watchers /\ m.n \in Peers
  BY <1>2, MessageFields
<1>4. /\ node2pid' = [node2pid EXCEPT ![m.n] = @ \ {m.w}]
      /\ id2node' = IF m.w \in node2pid[m.n] THEN [id2node EXCEPT ![m.w] = @ \ {m.n}] ELSE id2node
      /\ heard' = heard
  BY <1>0 DEF Nodes!DeMonitorNode
<1>5. ~Nodes!Op(m) /\ \A w, n : Nodes!About(m, w, n) <=> m.w = w /\ m.n = n
  BY <1>2 DEF Nodes!Op, Nodes!About
<1>6. WatchTypes'
  BY <1>1, <1>2, <1>3, <1>4 DEF WatchTypes
<1>8. SameMaps /\ MapsWatch /\ AllHeard
  BY DEF WatchInv
<1>7. \A w \in Watchers, n \in Peers :
        /\ w \in node2pid'[n] <=> IF Nodes!About(m, w, n) THEN m.t = "monitor" ELSE w \in node2pid[n]
        /\ n \in id2node'[w] <=> IF Nodes!About(m, w, n) THEN m.t = "monitor" ELSE n \in id2node[w]
  BY <1>1, <1>2, <1>3, <1>4, <1>5, <1>8 DEF WatchTypes, SameMaps
<1>9. SameMaps' /\ MapsWatch'
  BY <1>2, <1>7, <1>8, MapsKeep
<1>10. AllHeard'
  BY <1>2, <1>4, <1>5, <1>8, HeardKept
<1> QED
  BY <1>6, <1>9, <1>10 DEF WatchInv

LEMMA WatcherExits ==
  ASSUME WatchInv, Nodes!Exited
  PROVE  WatchInv'
<1>0. PICK m : m = mail[1]
  OBVIOUS
<1>1. WatchTypes /\ Nodes!Received({"exit"})
  BY DEF WatchInv, Nodes!Exited
<1>2. /\ m \in Nodes!Messages /\ m.t = "exit" /\ mail' \in Seq(Nodes!Messages)
      /\ handled' \in Seq(Nodes!Messages) /\ Grows(handled, m, handled')
  BY <1>0, <1>1, WatchTakes
<1>3. m.w \in Watchers
  BY <1>2, MessageFields
<1>4. /\ node2pid' = [n \in Peers |-> IF n \in id2node[m.w] THEN node2pid[n] \ {m.w} ELSE node2pid[n]]
      /\ id2node' = [id2node EXCEPT ![m.w] = {}]
      /\ heard' = heard
  BY <1>0 DEF Nodes!Exited
<1>5. ~Nodes!Op(m) /\ \A w, n : Nodes!About(m, w, n) <=> m.w = w
  BY <1>2 DEF Nodes!Op, Nodes!About
<1>6. WatchTypes'
  BY <1>1, <1>2, <1>3, <1>4 DEF WatchTypes
<1>8. SameMaps /\ MapsWatch /\ AllHeard
  BY DEF WatchInv
<1>7. \A w \in Watchers, n \in Peers :
        /\ w \in node2pid'[n] <=> IF Nodes!About(m, w, n) THEN m.t = "monitor" ELSE w \in node2pid[n]
        /\ n \in id2node'[w] <=> IF Nodes!About(m, w, n) THEN m.t = "monitor" ELSE n \in id2node[w]
  BY <1>1, <1>2, <1>3, <1>4, <1>5, <1>8 DEF WatchTypes, SameMaps
<1>9. SameMaps' /\ MapsWatch'
  BY <1>2, <1>7, <1>8, MapsKeep
<1>10. AllHeard'
  BY <1>2, <1>4, <1>5, <1>8, HeardKept
<1> QED
  BY <1>6, <1>9, <1>10 DEF WatchInv

LEMMA WatchTells ==
  ASSUME WatchInv, Nodes!NodeOP
  PROVE  WatchInv'
<1>0. PICK m : m = mail[1]
  OBVIOUS
<1>1. WatchTypes /\ Nodes!Received({"connect", "disconnect"})
  BY DEF WatchInv, Nodes!NodeOP
<1>2. /\ m \in Nodes!Messages /\ m.t \in {"connect", "disconnect"} /\ mail' \in Seq(Nodes!Messages)
      /\ handled' \in Seq(Nodes!Messages) /\ Grows(handled, m, handled')
  BY <1>0, <1>1, WatchTakes
<1>3. m.n \in Peers
  BY <1>2, MessageFields
<1>4. /\ heard' = [w \in Watchers |-> IF w \in node2pid[m.n] THEN Append(heard[w], m) ELSE heard[w]]
      /\ UNCHANGED <<node2pid, id2node>>
  BY <1>0 DEF Nodes!NodeOP
<1>5. Nodes!Op(m) /\ \A w, n : ~Nodes!About(m, w, n)
  BY <1>2 DEF Nodes!Op, Nodes!About
<1>6. \A w \in Watchers : /\ heard[w] \in Seq(Nodes!Messages)
                          /\ Append(heard[w], m) \in Seq(Nodes!Messages)
                          /\ Grows(heard[w], m, Append(heard[w], m))
  BY <1>1, <1>2, OneMore DEF WatchTypes
<1>7. WatchTypes'
  BY <1>1, <1>2, <1>4, <1>6 DEF WatchTypes
<1>8. SameMaps /\ MapsWatch /\ AllHeard
  BY DEF WatchInv
<1>9. SameMaps' /\ MapsWatch'
  BY <1>2, <1>4, <1>5, <1>8, MapsKeep
<1>10. ASSUME NEW w \in Watchers PROVE HeardOf(handled', heard'[w], w)
  <2>1. HeardOf(handled, heard[w], w)
    BY <1>8 DEF AllHeard
  <2>2. w \in node2pid[m.n] <=> Watching(handled, w, m.n, Len(handled) + 1)
    BY <1>3, <1>8 DEF MapsWatch
  <2>3. CASE w \in node2pid[m.n]
    <3>1. Watching(handled, w, m.n, Len(handled) + 1)
      BY <2>2, <2>3
    <3>2. Grows(heard[w], m, Append(heard[w], m))
      BY <1>6
    <3>3. HeardOf(handled', Append(heard[w], m), w)
      BY <1>2, <1>5, <2>1, <3>1, <3>2, HeardMore, Zenon
    <3>4. heard'[w] = Append(heard[w], m)
      BY <1>4, <2>3
    <3> QED
      BY <3>3, <3>4
  <2>4. CASE w \notin node2pid[m.n]
    <3>1. ~Watching(handled, w, m.n, Len(handled) + 1)
      BY <2>2, <2>4
    <3>2. HeardOf(handled', heard[w], w)
      BY <1>2, <2>1, <3>1, HeardSame, Zenon
    <3>3. heard'[w] = heard[w]
      BY <1>4, <2>4
    <3> QED
      BY <3>2, <3>3
  <2> QED
    BY <2>3, <2>4
<1>11. AllHeard'
  BY <1>10 DEF AllHeard
<1> QED
  BY <1>7, <1>9, <1>11 DEF WatchInv

LEMMA WatchStep == WatchInv /\ [Nodes!Next]_(Nodes!vars) => WatchInv'
<1> SUFFICES ASSUME WatchInv, [Nodes!Next]_(Nodes!vars) PROVE WatchInv'
  OBVIOUS
<1>1. CASE UNCHANGED Nodes!vars
  <2>1. UNCHANGED <<node2pid, id2node, mail, handled, heard>>
    BY <1>1 DEF Nodes!vars
  <2> QED
    BY <2>1 DEF WatchInv, WatchTypes, SameMaps, MapsWatch, AllHeard
<1>2. CASE Nodes!Next
  BY <1>2, WatchSends, WatchMonitors, WatchEnds, WatcherExits, WatchTells DEF Nodes!Next
<1> QED
  BY <1>1, <1>2

LEMMA WatchMeans == WatchInv => Nodes!ToldRight
<1> SUFFICES ASSUME WatchInv, NEW w \in Watchers
             PROVE  /\ Len(heard[w]) = Nodes!Cardinality(Nodes!Due(w))
                    /\ \A i \in Nodes!Due(w) :
                         heard[w][Nodes!Cardinality({j \in Nodes!Due(w) : j <= i})] = handled[i]
  BY DEF Nodes!ToldRight
<1>1. Nodes!Due(w) = DueOf(handled, w)
  BY DEF Nodes!Due, DueOf, Nodes!Watches, Watching
<1>2. HeardOf(handled, heard[w], w)
  BY DEF WatchInv, AllHeard
<1> QED
  BY <1>1, <1>2, OneCardinality DEF HeardOf

(* A watcher of nodes is told of every connection and disconnection of a     *)
(* node while it watches it, once and in order, and of nothing else, for any *)
(* number of watchers, nodes and messages: Monitor, DeMonitor, the exit of a *)
(* watcher and NodeOP of monitor.go (ToldRight of Monitor).                  *)
THEOREM WatchersTold == Nodes!Spec => [](Nodes!ToldRight /\ ToldRight)
<1>1. Nodes!Init => WatchInv
  BY WatchInit
<1>2. WatchInv /\ [Nodes!Next]_(Nodes!vars) => WatchInv'
  BY WatchStep
<1>3. WatchInv => Nodes!ToldRight /\ ToldRight
  BY WatchMeans DEF ToldRight
<1> QED
  BY <1>1, <1>2, <1>3, PTL DEF Nodes!Spec

-----------------------------------------------------------------------------
(* The processes that write to the database. *)
WriteOps == {"insert", "update", "delete"}
Rows == [op : {"insert"}, key : Keys, n : Nat]
Requests == [op : WriteOps \cup {"select"}, key : Keys, n : Nat] \cup [op : {"rows"}, rows : Seq(Rows)]

SyncTypes ==
  /\ mail \in [Sync!Procs -> Seq(Requests)]
  /\ cache \in [Sync!Procs -> Seq(Rows)] /\ fail \in [Sync!Procs -> Seq(Rows)]
  /\ batches \in [Sync!Procs -> Seq(Seq(Rows))]
  /\ table \in [Keys -> Nat] /\ refused \subseteq Nat /\ done \subseteq Nat
  /\ log \in Seq([op : WriteOps, key : Keys])

\* Places of DbSync: a row with number n at a place.
Kept(q, j, n) == j \in DOMAIN q /\ q[j].n = n
Mailed(q, i, j, n) == i \in DOMAIN q /\ Kept(Sync!RowsIn(q[i]), j, n)
Batched(q, i, j, n) == i \in DOMAIN q /\ Kept(q[i], j, n)
Holds(p, k, i, j, n) ==
  \/ k = "mail" /\ Mailed(mail[p], i, j, n)
  \/ k = "worker" /\ Batched(batches[p], i, j, n)
  \/ k = "cache" /\ i = 1 /\ Kept(cache[p], j, n)
  \/ k = "fail" /\ i = 1 /\ Kept(fail[p], j, n)
HasRow(p, n) == \E k, i, j : Holds(p, k, i, j, n)

\* A request is the write of its number; a row that waits, an insert.
WritesLogged ==
  \A p \in Sync!Procs : \A i \in DOMAIN mail[p] :
    mail[p][i].op \in WriteOps =>
      /\ mail[p][i].n \in DOMAIN log
      /\ log[mail[p][i].n] = [op |-> mail[p][i].op, key |-> mail[p][i].key]
      /\ Sync!ProcOf(mail[p][i].key) = p
HeldLogged ==
  \A p \in Sync!Procs : \A n : HasRow(p, n) =>
    n \in DOMAIN log /\ log[n].op = "insert" /\ Sync!ProcOf(log[n].key) = p

\* An insert that is neither done nor refused waits; it waits in one place.
Alone(p) ==
  \A n, k, l, i, g, j, h : Holds(p, k, i, j, n) /\ Holds(p, l, g, h, n) => k = l /\ i = g /\ j = h
OnePlace == \A p \in Sync!Procs : Alone(p)
NotYet ==
  \A p \in Sync!Procs : \A n : HasRow(p, n) =>
    n \notin refused /\ n \notin done /\ \A x \in Keys : table[x] # n
Either ==
  \A n \in refused :
    n \in DOMAIN log /\ (log[n].op = "insert" => n \notin done /\ \A x \in Keys : table[x] # n)
TableLogged == \A x \in Keys : table[x] = 0 \/ (table[x] \in DOMAIN log /\ table[x] \in done)
DoneLogged == done \subseteq DOMAIN log
NoneLost ==
  \A n \in DOMAIN log : log[n].op = "insert" =>
    n \in done \/ n \in refused \/ \E p \in Sync!Procs : HasRow(p, n)

SyncInv ==
  /\ SyncTypes /\ WritesLogged /\ HeldLogged /\ OnePlace /\ NotYet /\ Either /\ TableLogged
  /\ DoneLogged /\ NoneLost

-----------------------------------------------------------------------------
LEMMA RequestKinds ==
  ASSUME NEW m \in Requests
  PROVE  /\ m.op \in WriteOps \cup {"select", "rows"}
         /\ m.op # "rows" => m.key \in Keys /\ m.n \in Nat
         /\ m.op = "rows" => m.rows \in Seq(Rows) /\ Sync!RowsIn(m) = m.rows
         /\ m.op = "insert" => m \in Rows /\ Sync!RowsIn(m) = <<m>>
         /\ m.op \in {"update", "delete", "select"} => Sync!RowsIn(m) = <<>>
         /\ Sync!RowsIn(m) \in Seq(Rows)
<1>1. CASE m \in [op : WriteOps \cup {"select"}, key : Keys, n : Nat]
  <2>1. m.op \in WriteOps \cup {"select"} /\ m.key \in Keys /\ m.n \in Nat /\ m.op # "rows"
    BY <1>1 DEF WriteOps
  <2>2. m.op = "insert" => m \in Rows
    BY <1>1 DEF Rows
  <2>3. CASE m.op = "insert"
    <3>1. Sync!RowsIn(m) = <<m>>
      BY <2>3 DEF Sync!RowsIn
    <3>2. <<m>> \in Seq(Rows)
      BY <2>2, <2>3
    <3> QED
      BY <2>1, <2>2, <2>3, <3>1, <3>2
  <2>4. CASE m.op # "insert"
    <3>1. Sync!RowsIn(m) = <<>>
      BY <2>1, <2>4 DEF Sync!RowsIn
    <3>2. <<>> \in Seq(Rows)
      OBVIOUS
    <3> QED
      BY <2>1, <2>4, <3>1, <3>2
  <2> QED
    BY <2>3, <2>4
<1>2. CASE m \in [op : {"rows"}, rows : Seq(Rows)]
  <2>1. m.op = "rows" /\ m.rows \in Seq(Rows)
    BY <1>2
  <2>2. Sync!RowsIn(m) = m.rows
    BY <2>1 DEF Sync!RowsIn
  <2> QED
    BY <2>1, <2>2 DEF WriteOps
<1> QED
  BY <1>1, <1>2 DEF Requests

(* Where a row was before its sequence was changed.                          *)
LEMMA KeptIndex == ASSUME NEW S, NEW q \in Seq(S), NEW j, NEW n, Kept(q, j, n)
                   PROVE  j \in Nat \ {0} /\ j <= Len(q)
BY DEF Kept

LEMMA KeptConcat ==
  ASSUME NEW S, NEW q \in Seq(S), NEW r \in Seq(S), NEW j, NEW n, Kept(q \o r, j, n)
  PROVE  /\ j \in Nat \ {0} /\ Len(q) \in Nat
         /\ \/ j <= Len(q) /\ Kept(q, j, n)
            \/ j > Len(q) /\ Kept(r, j - Len(q), n)
BY DEF Kept

LEMMA KeptAppend ==
  ASSUME NEW S, NEW q \in Seq(S), NEW m \in S, NEW j, NEW n, Kept(Append(q, m), j, n)
  PROVE  /\ j \in Nat \ {0} /\ Len(q) \in Nat
         /\ \/ j <= Len(q) /\ Kept(q, j, n)
            \/ j = Len(q) + 1 /\ m.n = n
BY DEF Kept

LEMMA MailedTail ==
  ASSUME NEW S, NEW q \in Seq(S), q # <<>>, NEW i, NEW j, NEW n, Mailed(Tail(q), i, j, n)
  PROVE  i \in Nat \ {0} /\ Mailed(q, i + 1, j, n)
<1>1. i \in Nat \ {0} /\ i + 1 \in DOMAIN q /\ Tail(q)[i] = q[i + 1]
  BY DEF Mailed
<1> QED
  BY <1>1 DEF Mailed

LEMMA MailedAppend ==
  ASSUME NEW S, NEW q \in Seq(S), NEW m \in S, NEW i, NEW j, NEW n, Mailed(Append(q, m), i, j, n)
  PROVE  /\ i \in Nat \ {0} /\ Len(q) \in Nat
         /\ \/ i <= Len(q) /\ Mailed(q, i, j, n)
            \/ i = Len(q) + 1 /\ Kept(Sync!RowsIn(m), j, n)
<1>1. /\ i \in Nat \ {0} /\ Len(q) \in Nat
      /\ \/ i <= Len(q) /\ i \in DOMAIN q /\ Append(q, m)[i] = q[i]
         \/ i = Len(q) + 1 /\ Append(q, m)[i] = m
  BY DEF Mailed
<1> QED
  BY <1>1 DEF Mailed

LEMMA BatchedTail ==
  ASSUME NEW S, NEW q \in Seq(S), q # <<>>, NEW i, NEW j, NEW n, Batched(Tail(q), i, j, n)
  PROVE  i \in Nat \ {0} /\ Batched(q, i + 1, j, n)
<1>1. i \in Nat \ {0} /\ i + 1 \in DOMAIN q /\ Tail(q)[i] = q[i + 1]
  BY DEF Batched
<1> QED
  BY <1>1 DEF Batched

LEMMA BatchedAppend ==
  ASSUME NEW S, NEW q \in Seq(S), NEW m \in S, NEW i, NEW j, NEW n, Batched(Append(q, m), i, j, n)
  PROVE  /\ i \in Nat \ {0} /\ Len(q) \in Nat
         /\ \/ i <= Len(q) /\ Batched(q, i, j, n)
            \/ i = Len(q) + 1 /\ Kept(m, j, n)
<1>1. /\ i \in Nat \ {0} /\ Len(q) \in Nat
      /\ \/ i <= Len(q) /\ i \in DOMAIN q /\ Append(q, m)[i] = q[i]
         \/ i = Len(q) + 1 /\ Append(q, m)[i] = m
  BY DEF Batched
<1> QED
  BY <1>1 DEF Batched

LEMMA BatchedHead ==
  ASSUME NEW S, NEW q \in Seq(S), q # <<>>, NEW r \in S, NEW i, NEW j, NEW n,
         Batched(<<r>> \o Tail(q), i, j, n)
  PROVE  /\ i \in Nat \ {0}
         /\ \/ i = 1 /\ Kept(r, j, n)
            \/ i > 1 /\ Batched(q, i, j, n)
<1> DEFINE u == <<r>> \o Tail(q)
<1>1. /\ i \in Nat \ {0} /\ i \in DOMAIN q
      /\ \/ i = 1 /\ u[i] = r
         \/ i > 1 /\ u[i] = q[i]
  BY DEF Batched
<1>2. Kept(u[i], j, n)
  BY DEF Batched
<1> QED
  BY <1>1, <1>2 DEF Batched

LEMMA KeptSlice ==
  ASSUME NEW S, NEW q \in Seq(S), NEW s \in Nat, s <= Len(q), NEW j, NEW n
  PROVE  /\ Kept(SubSeq(q, 1, s), j, n) <=> j \in 1 .. s /\ Kept(q, j, n)
         /\ Kept(SubSeq(q, s + 1, Len(q)), j, n) => j \in Nat \ {0} /\ Kept(q, j + s, n)
<1>1. /\ DOMAIN SubSeq(q, 1, s) = 1 .. s /\ \A x \in 1 .. s : SubSeq(q, 1, s)[x] = q[x]
      /\ \A x \in 1 .. s : x \in DOMAIN q
  OBVIOUS
<1>2. Kept(SubSeq(q, 1, s), j, n) <=> j \in 1 .. s /\ Kept(q, j, n)
  BY <1>1, Zenon DEF Kept
<1> DEFINE u == SubSeq(q, s + 1, Len(q))
<1>3. DOMAIN u = 1 .. Len(q) - s /\ \A x \in 1 .. Len(q) - s : u[x] = q[x + s]
  OBVIOUS
<1>4. \A x \in 1 .. Len(q) - s : x \in Nat \ {0} /\ x + s \in DOMAIN q
  OBVIOUS
<1>5. Kept(u, j, n) => j \in Nat \ {0} /\ Kept(q, j + s, n)
  BY <1>3, <1>4, Zenon DEF Kept
<1> QED
  BY <1>2, <1>5

(* And where it is afterwards.                                               *)
LEMMA KeptConcatOn ==
  ASSUME NEW S, NEW q \in Seq(S), NEW r \in Seq(S), NEW j, NEW n
  PROVE  /\ Kept(q, j, n) => Kept(q \o r, j, n)
         /\ Kept(r, j, n) => Kept(q \o r, Len(q) + j, n)
BY DEF Kept

LEMMA MailedTailOn ==
  ASSUME NEW S, NEW q \in Seq(S), q # <<>>, NEW i, NEW j, NEW n, Mailed(q, i, j, n)
  PROVE  i = 1 \/ Mailed(Tail(q), i - 1, j, n)
<1>1. i = 1 \/ (i - 1 \in DOMAIN Tail(q) /\ Tail(q)[i - 1] = q[i])
  BY DEF Mailed
<1> QED
  BY <1>1 DEF Mailed

LEMMA MailedAppendOn ==
  ASSUME NEW S, NEW q \in Seq(S), NEW m \in S, NEW i, NEW j, NEW n
  PROVE  /\ Mailed(q, i, j, n) => Mailed(Append(q, m), i, j, n)
         /\ Kept(Sync!RowsIn(m), j, n) => Mailed(Append(q, m), Len(q) + 1, j, n)
<1>1. /\ i \in DOMAIN q => i \in DOMAIN Append(q, m) /\ Append(q, m)[i] = q[i]
      /\ Len(q) + 1 \in DOMAIN Append(q, m) /\ Append(q, m)[Len(q) + 1] = m
  OBVIOUS
<1> QED
  BY <1>1, Zenon DEF Mailed

LEMMA BatchedTailOn ==
  ASSUME NEW S, NEW q \in Seq(S), q # <<>>, NEW i, NEW j, NEW n, Batched(q, i, j, n)
  PROVE  i = 1 \/ Batched(Tail(q), i - 1, j, n)
<1>1. i = 1 \/ (i - 1 \in DOMAIN Tail(q) /\ Tail(q)[i - 1] = q[i])
  BY DEF Batched
<1> QED
  BY <1>1 DEF Batched

LEMMA BatchedAppendOn ==
  ASSUME NEW S, NEW q \in Seq(S), NEW m \in S, NEW i, NEW j, NEW n
  PROVE  /\ Batched(q, i, j, n) => Batched(Append(q, m), i, j, n)
         /\ Kept(m, j, n) => Batched(Append(q, m), Len(q) + 1, j, n)
<1>1. /\ i \in DOMAIN q => i \in DOMAIN Append(q, m) /\ Append(q, m)[i] = q[i]
      /\ Len(q) + 1 \in DOMAIN Append(q, m) /\ Append(q, m)[Len(q) + 1] = m
  OBVIOUS
<1> QED
  BY <1>1, Zenon DEF Batched

LEMMA BatchedHeadOn ==
  ASSUME NEW S, NEW q \in Seq(S), q # <<>>, NEW r \in S, NEW i, NEW j, NEW n
  PROVE  /\ Kept(r, j, n) => Batched(<<r>> \o Tail(q), 1, j, n)
         /\ Batched(q, i, j, n) => i = 1 \/ Batched(<<r>> \o Tail(q), i, j, n)
<1> DEFINE u == <<r>> \o Tail(q)
<1>1. /\ 1 \in DOMAIN u /\ u[1] = r
      /\ i \in DOMAIN q /\ i # 1 => i \in DOMAIN u /\ u[i] = q[i]
  OBVIOUS
<1> HIDE DEF u
<1>2. /\ Kept(r, j, n) => Batched(u, 1, j, n)
      /\ Batched(q, i, j, n) => i = 1 \/ Batched(u, i, j, n)
  BY <1>1, Zenon DEF Batched
<1> QED
  BY <1>2 DEF u

LEMMA KeptSliceOn ==
  ASSUME NEW S, NEW q \in Seq(S), NEW s \in Nat, s <= Len(q), NEW j, NEW n, Kept(q, j, n)
  PROVE  j \in 1 .. s \/ Kept(SubSeq(q, s + 1, Len(q)), j - s, n)
<1> DEFINE u == SubSeq(q, s + 1, Len(q))
<1>1. DOMAIN u = 1 .. Len(q) - s /\ \A x \in 1 .. Len(q) - s : u[x] = q[x + s]
  OBVIOUS
<1>2. j \in Nat \ {0} /\ j <= Len(q)
  BY KeptIndex
<1>3. j \in 1 .. s \/ (j - s \in 1 .. Len(q) - s /\ (j - s) + s = j)
  BY <1>2
<1> QED
  BY <1>1, <1>3 DEF Kept

-----------------------------------------------------------------------------
(* Processes other than p are as they were.                                  *)
LEMMA OthersStay ==
  ASSUME NEW p \in Sync!Procs,
         \A q \in Sync!Procs : q # p => /\ mail'[q] = mail[q] /\ cache'[q] = cache[q]
                                        /\ batches'[q] = batches[q] /\ fail'[q] = fail[q]
  PROVE  \A q \in Sync!Procs : q # p => /\ \A n : HasRow(q, n)' <=> HasRow(q, n)
                                        /\ Alone(q)' <=> Alone(q)
<1> SUFFICES ASSUME NEW q \in Sync!Procs, q # p
             PROVE  /\ \A n : HasRow(q, n)' <=> HasRow(q, n)
                    /\ Alone(q)' <=> Alone(q)
  OBVIOUS
<1>1. \A k, i, j, n : Holds(q, k, i, j, n)' <=> Holds(q, k, i, j, n)
  BY DEF Holds
<1>2. \A n : HasRow(q, n)' <=> HasRow(q, n)
  BY <1>1 DEF HasRow
<1>3. Alone(q)' <=> Alone(q)
  BY <1>1 DEF Alone
<1> QED
  BY <1>2, <1>3

(* What a step of p settles: the rows R are refused, the rows D are done, or *)
(* a row is v now.  The other rows of p wait on.                             *)
Settle(p, R, D, v) ==
  /\ refused' = refused \cup R /\ done' = done \cup D /\ R \cap D = {}
  /\ v = 0 \/ v \in D
  /\ \A x \in Keys : table'[x] = table[x] \/ (R = {} /\ table'[x] = v)
  /\ \A n : n \in R \cup D =>
       n \in DOMAIN log /\ ~HasRow(p, n)' /\ (log[n].op = "insert" => HasRow(p, n))
  /\ \A n : HasRow(p, n) => HasRow(p, n)' \/ n \in R \cup D

LEMMA RowsSettled ==
  ASSUME SyncTypes, HeldLogged, NotYet, Either, TableLogged, DoneLogged, NoneLost, log' = log,
         NEW p \in Sync!Procs, NEW R, NEW D, NEW v,
         \A q \in Sync!Procs : \A n : HasRow(q, n)' => HasRow(q, n),
         \A q \in Sync!Procs : \A n : HasRow(q, n) => HasRow(q, n)' \/ n \in R \cup D,
         Settle(p, R, D, v)
  PROVE  HeldLogged' /\ NotYet' /\ Either' /\ TableLogged' /\ DoneLogged' /\ NoneLost'
<1> USE DEF Settle
<1>1. HeldLogged'
  BY DEF HeldLogged
<1>2. TableLogged' /\ DoneLogged'
  BY DEF TableLogged, DoneLogged
<1>3. ASSUME NEW q \in Sync!Procs, NEW n, HasRow(q, n)'
      PROVE  n \notin R \cup D
  <2> SUFFICES ASSUME n \in R \cup D PROVE FALSE
    OBVIOUS
  <2>1. HasRow(q, n)
    BY <1>3
  <2>2. log[n].op = "insert" /\ Sync!ProcOf(log[n].key) = q
    BY <2>1 DEF HeldLogged
  <2>3. HasRow(p, n) /\ ~HasRow(p, n)'
    BY <2>2
  <2>4. Sync!ProcOf(log[n].key) = p
    BY <2>3 DEF HeldLogged
  <2> QED
    BY <1>3, <2>2, <2>3, <2>4
<1>4. \A n \in DOMAIN log : n # 0
  BY DEF SyncTypes
<1>5. NotYet'
  <2> SUFFICES ASSUME NEW q \in Sync!Procs, NEW n, HasRow(q, n)'
               PROVE  n \notin refused' /\ n \notin done' /\ \A x \in Keys : table'[x] # n
    BY DEF NotYet
  <2>1. n \notin refused /\ n \notin done /\ (\A x \in Keys : table[x] # n) /\ n \in DOMAIN log
    BY DEF NotYet, HeldLogged
  <2>2. n \notin R \cup D
    BY <1>3
  <2> QED
    BY <1>4, <2>1, <2>2
<1>6. Either'
  <2> SUFFICES ASSUME NEW n \in refused'
               PROVE  /\ n \in DOMAIN log
                      /\ log[n].op = "insert" => n \notin done' /\ \A x \in Keys : table'[x] # n
    BY DEF Either
  <2>1. CASE n \in R
    BY <2>1 DEF NotYet
  <2>2. CASE n \in refused
    <3>1. n \in DOMAIN log /\ (log[n].op = "insert" => n \notin done /\ \A x \in Keys : table[x] # n)
      BY <2>2 DEF Either
    <3>2. log[n].op = "insert" => n \notin D
      BY <2>2 DEF NotYet
    <3> QED
      BY <1>4, <3>1, <3>2
  <2> QED
    BY <2>1, <2>2
<1>7. NoneLost'
  <2> SUFFICES ASSUME NEW n \in DOMAIN log, log[n].op = "insert",
                      n \notin done', n \notin refused'
               PROVE  \E q \in Sync!Procs : HasRow(q, n)'
    BY DEF NoneLost, Sync!Procs
  <2>1. n \notin R \cup D /\ n \notin done /\ n \notin refused
    OBVIOUS
  <2>2. PICK q \in Sync!Procs : HasRow(q, n)
    BY <2>1 DEF NoneLost
  <2> QED
    BY <2>1, <2>2
<1> QED
  BY <1>1, <1>2, <1>5, <1>6, <1>7

LEMMA AllAlone ==
  ASSUME OnePlace, NEW p \in Sync!Procs, Alone(p)',
         \A q \in Sync!Procs : q # p => (Alone(q)' <=> Alone(q))
  PROVE  OnePlace'
BY DEF OnePlace

(* The head of the mailbox is taken, and its rows go ...                     *)
LEMMA HeadTaken ==
  ASSUME SyncTypes, OnePlace, NEW p \in Sync!Procs, mail[p] # <<>>,
         mail' = [mail EXCEPT ![p] = Tail(@)], UNCHANGED <<cache, batches, fail>>
  PROVE  /\ Alone(p)' /\ \A n : HasRow(p, n)' => HasRow(p, n)
         /\ \A n : Holds(p, "mail", 1, 1, n) => ~HasRow(p, n)'
<1>1. mail[p] \in Seq(Requests) /\ mail'[p] = Tail(mail[p])
  BY DEF SyncTypes
<1>2. \A i, j, n : Mailed(mail'[p], i, j, n) => i \in Nat \ {0} /\ Mailed(mail[p], i + 1, j, n)
  BY <1>1, MailedTail
<1>3. \A k, i, j, n : Holds(p, k, i, j, n)' =>
        \/ k = "mail" /\ i \in Nat \ {0} /\ Holds(p, "mail", i + 1, j, n)
        \/ k # "mail" /\ Holds(p, k, i, j, n)
  BY <1>2 DEF Holds
<1>4. Alone(p)
  BY DEF OnePlace
<1>5. Alone(p)'
  <2> SUFFICES ASSUME NEW n, NEW k, NEW l, NEW i, NEW g, NEW j, NEW h,
                      Holds(p, k, i, j, n)', Holds(p, l, g, h, n)'
               PROVE  k = l /\ i = g /\ j = h
    BY DEF Alone
  <2> QED
    BY <1>3, <1>4 DEF Alone
<1>6. \A n : HasRow(p, n)' => HasRow(p, n)
  BY <1>3 DEF HasRow
<1>7. ASSUME NEW n, Holds(p, "mail", 1, 1, n), HasRow(p, n)' PROVE FALSE
  <2>1. PICK k, i, j : Holds(p, k, i, j, n)'
    BY <1>7 DEF HasRow
  <2>2. CASE k = "mail" /\ i \in Nat \ {0} /\ Holds(p, "mail", i + 1, j, n)
    <3>1. i + 1 = 1
      BY <1>4, <1>7, <2>2 DEF Alone
    <3> QED
      BY <2>2, <3>1
  <2>3. CASE k # "mail" /\ Holds(p, k, i, j, n)
    BY <1>4, <1>7, <2>3 DEF Alone
  <2> QED
    BY <1>3, <2>1, <2>2, <2>3
<1> QED
  BY <1>5, <1>6, <1>7

\* ... to the cache.
LEMMA HeadCached ==
  ASSUME SyncTypes, OnePlace, NEW p \in Sync!Procs, mail[p] # <<>>,
         mail' = [mail EXCEPT ![p] = Tail(@)],
         NEW r \in Seq(Rows), r = Sync!RowsIn(mail[p][1]),
         cache' = [cache EXCEPT ![p] = @ \o r], UNCHANGED <<batches, fail>>
  PROVE  Alone(p)' /\ \A n : HasRow(p, n)' => HasRow(p, n)
<1>1. mail[p] \in Seq(Requests) /\ mail'[p] = Tail(mail[p]) /\ 1 \in DOMAIN mail[p]
  BY DEF SyncTypes
<1>2. \A i, j, n : Mailed(mail'[p], i, j, n) => i \in Nat \ {0} /\ Mailed(mail[p], i + 1, j, n)
  BY <1>1, MailedTail
<1> DEFINE L == Len(cache[p])
<1>3. cache[p] \in Seq(Rows) /\ cache'[p] = cache[p] \o r
  BY DEF SyncTypes
<1>4. \A j, n : Kept(cache'[p], j, n) =>
        /\ j \in Nat \ {0} /\ L \in Nat
        /\ \/ j <= L /\ Kept(cache[p], j, n)
           \/ j > L /\ Kept(r, j - L, n)
  <2>1. cache[p] \in Seq(Rows) /\ r \in Seq(Rows)
    BY <1>3
  <2>2. \A j, n : Kept(cache[p] \o r, j, n) =>
          /\ j \in Nat \ {0} /\ Len(cache[p]) \in Nat
          /\ \/ j <= Len(cache[p]) /\ Kept(cache[p], j, n)
             \/ j > Len(cache[p]) /\ Kept(r, j - Len(cache[p]), n)
    BY <2>1, KeptConcat, Zenon
  <2> QED
    BY <1>3, <2>2
<1>5. \A j, n : Kept(r, j, n) => Mailed(mail[p], 1, j, n)
  BY <1>1 DEF Mailed
<1> HIDE DEF L
<1>6. \A k, i, j, n : Holds(p, k, i, j, n)' =>
        \/ k = "mail" /\ i \in Nat \ {0} /\ Holds(p, "mail", i + 1, j, n)
        \/ /\ k = "cache" /\ i = 1 /\ j \in Nat /\ L \in Nat
           /\ \/ j <= L /\ Holds(p, k, i, j, n)
              \/ j > L /\ Holds(p, "mail", 1, j - L, n)
        \/ k \notin {"mail", "cache"} /\ Holds(p, k, i, j, n)
  BY <1>2, <1>4, <1>5 DEF Holds
<1>7. Alone(p)
  BY DEF OnePlace
<1>8. Alone(p)'
  <2> SUFFICES ASSUME NEW n, NEW k, NEW l, NEW i, NEW g, NEW j, NEW h,
                      Holds(p, k, i, j, n)', Holds(p, l, g, h, n)'
               PROVE  k = l /\ i = g /\ j = h
    BY DEF Alone
  <2> QED
    BY <1>6, <1>7 DEF Alone
<1>9. \A n : HasRow(p, n)' => HasRow(p, n)
  BY <1>6 DEF HasRow
<1> QED
  BY <1>8, <1>9

(* The cache goes to the worker. *)
LEMMA CacheGiven ==
  ASSUME SyncTypes, OnePlace, NEW p \in Sync!Procs,
         batches' = [batches EXCEPT ![p] = Append(@, cache[p])],
         cache' = [cache EXCEPT ![p] = <<>>], UNCHANGED <<mail, fail>>
  PROVE  Alone(p)' /\ \A n : HasRow(p, n)' => HasRow(p, n)
<1> DEFINE L == Len(batches[p])
<1>1. /\ batches[p] \in Seq(Seq(Rows)) /\ cache[p] \in Seq(Rows)
      /\ batches'[p] = Append(batches[p], cache[p]) /\ cache'[p] = <<>>
  BY DEF SyncTypes
<1>2. \A i, j, n : Batched(batches'[p], i, j, n) =>
        /\ i \in Nat \ {0} /\ L \in Nat
        /\ \/ i <= L /\ Batched(batches[p], i, j, n)
           \/ i = L + 1 /\ Kept(cache[p], j, n)
  <2>1. \A i, j, n : Batched(Append(batches[p], cache[p]), i, j, n) =>
          /\ i \in Nat \ {0} /\ Len(batches[p]) \in Nat
          /\ \/ i <= Len(batches[p]) /\ Batched(batches[p], i, j, n)
             \/ i = Len(batches[p]) + 1 /\ Kept(cache[p], j, n)
    BY <1>1, BatchedAppend, Zenon
  <2> QED
    BY <1>1, <2>1
<1>3. \A j, n : ~Kept(cache'[p], j, n)
  BY <1>1 DEF Kept
<1> HIDE DEF L
<1>4. \A k, i, j, n : Holds(p, k, i, j, n)' =>
        \/ /\ k = "worker" /\ i \in Nat /\ L \in Nat
           /\ \/ i <= L /\ Holds(p, k, i, j, n)
              \/ i = L + 1 /\ Holds(p, "cache", 1, j, n)
        \/ k \notin {"worker", "cache"} /\ Holds(p, k, i, j, n)
  BY <1>2, <1>3 DEF Holds
<1>5. Alone(p)
  BY DEF OnePlace
<1>6. Alone(p)'
  <2> SUFFICES ASSUME NEW n, NEW k, NEW l, NEW i, NEW g, NEW j, NEW h,
                      Holds(p, k, i, j, n)', Holds(p, l, g, h, n)'
               PROVE  k = l /\ i = g /\ j = h
    BY DEF Alone
  <2> QED
    BY <1>4, <1>5 DEF Alone
<1>7. \A n : HasRow(p, n)' => HasRow(p, n)
  BY <1>4 DEF HasRow
<1> QED
  BY <1>6, <1>7

LEMMA SliceRows ==
  ASSUME NEW q \in Seq(Rows), NEW s \in Nat, s <= Len(q)
  PROVE  \A j, n : /\ Kept(SubSeq(q, 1, s), j, n) <=> j \in 1 .. s /\ Kept(q, j, n)
                   /\ Kept(SubSeq(q, s + 1, Len(q)), j, n) => j \in Nat \ {0} /\ Kept(q, j + s, n)
BY KeptSlice, Zenon

LEMMA HeadRows ==
  ASSUME NEW q \in Seq(Seq(Rows)), q # <<>>, NEW r \in Seq(Rows)
  PROVE  \A i, j, n : Batched(<<r>> \o Tail(q), i, j, n) =>
           /\ i \in Nat \ {0}
           /\ \/ i = 1 /\ Kept(r, j, n)
              \/ i > 1 /\ Batched(q, i, j, n)
BY BatchedHead, Zenon

LEMMA SliceOn ==
  ASSUME NEW q \in Seq(Rows), NEW s \in Nat, s <= Len(q)
  PROVE  \A j, n : Kept(q, j, n) => j \in 1 .. s \/ Kept(SubSeq(q, s + 1, Len(q)), j - s, n)
BY KeptSliceOn, Zenon

(* The worker takes the next slice of its batch, and drops or keeps it.      *)
LEMMA SliceTaken ==
  ASSUME SyncTypes, OnePlace, NEW p \in Sync!Procs, batches[p] # <<>>,
         NEW s \in Nat, NEW slice \in Seq(Rows), NEW left \in Seq(Rows),
         \A j, n : /\ Kept(slice, j, n) <=> j \in 1 .. s /\ Kept(batches[p][1], j, n)
                   /\ Kept(left, j, n) => j \in Nat \ {0} /\ Kept(batches[p][1], j + s, n),
         batches' = [batches EXCEPT ![p] = <<left>> \o Tail(@)],
         UNCHANGED <<mail, cache>>,
         fail' = fail \/ fail' = [fail EXCEPT ![p] = @ \o slice]
  PROVE  /\ Alone(p)' /\ \A n : HasRow(p, n)' => HasRow(p, n)
         /\ fail' = fail => \A j, n : Kept(slice, j, n) => HasRow(p, n) /\ ~HasRow(p, n)'
<1> DEFINE L == Len(fail[p])
           rows == batches[p][1]
<1>1. /\ batches[p] \in Seq(Seq(Rows)) /\ fail[p] \in Seq(Rows)
      /\ 1 \in DOMAIN batches[p]
      /\ batches'[p] = <<left>> \o Tail(batches[p])
      /\ fail' = fail \/ fail'[p] = fail[p] \o slice
  <2>1. batches[p] \in Seq(Seq(Rows)) /\ fail[p] \in Seq(Rows)
    BY DEF SyncTypes
  <2>2. 1 \in DOMAIN batches[p]
    BY <2>1
  <2>3. batches'[p] = <<left>> \o Tail(batches[p])
    BY DEF SyncTypes
  <2>4. fail' = fail \/ fail'[p] = fail[p] \o slice
    BY DEF SyncTypes
  <2> QED
    BY <2>1, <2>2, <2>3, <2>4
<1>3. \A j, n : /\ Kept(slice, j, n) <=> j \in 1 .. s /\ Kept(rows, j, n)
                /\ Kept(left, j, n) => j \in Nat \ {0} /\ Kept(rows, j + s, n)
  OBVIOUS
<1>4. \A j, n : Kept(rows, j, n) <=> Batched(batches[p], 1, j, n)
  BY <1>1 DEF Batched
<1>5. \A i, j, n : Batched(batches'[p], i, j, n) =>
        \/ i = 1 /\ Kept(left, j, n)
        \/ i \in Nat /\ i > 1 /\ Batched(batches[p], i, j, n)
  <2>1. \A i, j, n : Batched(<<left>> \o Tail(batches[p]), i, j, n) =>
          /\ i \in Nat \ {0}
          /\ \/ i = 1 /\ Kept(left, j, n)
             \/ i > 1 /\ Batched(batches[p], i, j, n)
    <3>1. batches[p] \in Seq(Seq(Rows)) /\ batches[p] # <<>> /\ left \in Seq(Rows)
      BY <1>1
    <3> QED
      BY <3>1, HeadRows, Zenon
  <2> QED
    BY <1>1, <2>1, ZenonT(60)
<1>6. \A j, n : Kept(fail'[p], j, n) =>
        \/ Kept(fail[p], j, n) /\ (fail' # fail => j \in Nat /\ L \in Nat /\ j <= L)
        \/ fail' # fail /\ j \in Nat /\ L \in Nat /\ j > L /\ Kept(slice, j - L, n)
  <2>1. CASE fail' = fail
    BY <2>1
  <2>2. CASE fail' # fail
    <3>1. \A j, n : Kept(fail[p] \o slice, j, n) =>
            /\ j \in Nat \ {0} /\ Len(fail[p]) \in Nat
            /\ \/ j <= Len(fail[p]) /\ Kept(fail[p], j, n)
               \/ j > Len(fail[p]) /\ Kept(slice, j - Len(fail[p]), n)
      BY <1>1, KeptConcat, Zenon
    <3> QED
      BY <1>1, <2>2, <3>1, ZenonT(60)
  <2> QED
    BY <2>1, <2>2
<1> HIDE DEF L, rows
<1>7. \A k, i, j, n : Holds(p, k, i, j, n)' =>
        \/ k = "worker" /\ i = 1 /\ j \in Nat \ {0} /\ Holds(p, k, 1, j + s, n)
        \/ k = "worker" /\ i \in Nat /\ i > 1 /\ Holds(p, k, i, j, n)
        \/ k = "fail" /\ i = 1 /\ Holds(p, k, i, j, n) /\ (fail' # fail => j \in Nat /\ L \in Nat /\ j <= L)
        \/ /\ k = "fail" /\ i = 1 /\ fail' # fail /\ j \in Nat /\ L \in Nat /\ j > L
           /\ j - L \in 1 .. s /\ Holds(p, "worker", 1, j - L, n)
        \/ k \notin {"worker", "fail"} /\ Holds(p, k, i, j, n)
  BY <1>3, <1>4, <1>5, <1>6 DEF Holds
<1>8. Alone(p)
  BY DEF OnePlace
<1>9. Alone(p)'
  <2> SUFFICES ASSUME NEW n, NEW k, NEW l, NEW i, NEW g, NEW j, NEW h,
                      Holds(p, k, i, j, n)', Holds(p, l, g, h, n)'
               PROVE  k = l /\ i = g /\ j = h
    BY DEF Alone
  <2> QED
    BY <1>7, <1>8 DEF Alone
<1>10. \A n : HasRow(p, n)' => HasRow(p, n)
  BY <1>7 DEF HasRow
<1>11. ASSUME fail' = fail, NEW j, NEW n, Kept(slice, j, n)
       PROVE  HasRow(p, n) /\ ~HasRow(p, n)'
  <2>1. j \in 1 .. s /\ Holds(p, "worker", 1, j, n)
    BY <1>3, <1>4, <1>11 DEF Holds
  <2>2. ASSUME NEW k, NEW i, NEW h, Holds(p, k, i, h, n)' PROVE FALSE
    <3>1. \/ k = "worker" /\ i = 1 /\ h \in Nat \ {0} /\ Holds(p, k, 1, h + s, n)
          \/ (k # "worker" \/ (i \in Nat /\ i > 1)) /\ Holds(p, k, i, h, n)
      BY <1>7, <1>11, <2>2
    <3>2. CASE k = "worker" /\ i = 1 /\ h \in Nat \ {0} /\ Holds(p, k, 1, h + s, n)
      <4>1. j = h + s
        BY <1>8, <2>1, <3>2 DEF Alone
      <4> QED
        BY <2>1, <3>2, <4>1
    <3>3. CASE (k # "worker" \/ (i \in Nat /\ i > 1)) /\ Holds(p, k, i, h, n)
      <4>1. k = "worker" /\ i = 1
        BY <1>8, <2>1, <3>3 DEF Alone
      <4> QED
        BY <3>3, <4>1
    <3> QED
      BY <3>1, <3>2, <3>3
  <2> QED
    BY <2>1, <2>2 DEF HasRow
<1> QED
  BY <1>9, <1>10, <1>11

(* What met a broken connection goes back to the process.                    *)
LEMMA FailGiven ==
  ASSUME SyncTypes, OnePlace, NEW p \in Sync!Procs, batches[p] # <<>>,
         batches' = [batches EXCEPT ![p] = Tail(@)],
         fail' = [fail EXCEPT ![p] = <<>>], UNCHANGED cache,
         NEW m \in Requests, Sync!RowsIn(m) = fail[p],
         \/ fail[p] = <<>> /\ mail' = mail
         \/ mail' = [mail EXCEPT ![p] = Append(@, m)]
  PROVE  Alone(p)' /\ \A n : HasRow(p, n)' => HasRow(p, n)
<1> DEFINE L == Len(mail[p])
<1>1. /\ batches[p] \in Seq(Seq(Rows)) /\ mail[p] \in Seq(Requests)
      /\ batches'[p] = Tail(batches[p]) /\ fail'[p] = <<>>
      /\ mail'[p] = mail[p] \/ mail'[p] = Append(mail[p], m)
  BY DEF SyncTypes
<1>2. \A i, j, n : Batched(batches'[p], i, j, n) => i \in Nat \ {0} /\ Batched(batches[p], i + 1, j, n)
  BY <1>1, BatchedTail
<1>3. \A j, n : ~Kept(fail'[p], j, n)
  BY <1>1 DEF Kept
<1>4. L \in Nat /\ \A i, j, n : Mailed(mail[p], i, j, n) => i \in Nat /\ i <= L
  BY <1>1 DEF Mailed
<1>5. \A i, j, n : Mailed(mail'[p], i, j, n) =>
        /\ i \in Nat
        /\ \/ i <= L /\ Mailed(mail[p], i, j, n)
           \/ i = L + 1 /\ Kept(fail[p], j, n)
  <2>1. CASE mail'[p] = mail[p]
    BY <1>4, <2>1
  <2>2. CASE mail'[p] = Append(mail[p], m)
    <3>1. \A i, j, n : Mailed(Append(mail[p], m), i, j, n) =>
            /\ i \in Nat \ {0} /\ Len(mail[p]) \in Nat
            /\ \/ i <= Len(mail[p]) /\ Mailed(mail[p], i, j, n)
               \/ i = Len(mail[p]) + 1 /\ Kept(Sync!RowsIn(m), j, n)
      BY <1>1, MailedAppend, Zenon
    <3> QED
      BY <2>2, <3>1
  <2> QED
    BY <1>1, <2>1, <2>2
<1> HIDE DEF L
<1>6. \A k, i, j, n : Holds(p, k, i, j, n)' =>
        \/ k = "worker" /\ i \in Nat /\ Holds(p, k, i + 1, j, n)
        \/ k = "mail" /\ i \in Nat /\ i <= L /\ Holds(p, k, i, j, n)
        \/ k = "mail" /\ i = L + 1 /\ Holds(p, "fail", 1, j, n)
        \/ k = "cache" /\ Holds(p, k, i, j, n)
  BY <1>2, <1>3, <1>5 DEF Holds
<1>7. Alone(p)
  BY DEF OnePlace
<1>8. Alone(p)'
  <2> SUFFICES ASSUME NEW n, NEW k, NEW l, NEW i, NEW g, NEW j, NEW h,
                      Holds(p, k, i, j, n)', Holds(p, l, g, h, n)'
               PROVE  k = l /\ i = g /\ j = h
    BY DEF Alone
  <2> QED
    BY <1>4, <1>6, <1>7 DEF Alone
<1>9. \A n : HasRow(p, n)' => HasRow(p, n)
  BY <1>6 DEF HasRow
<1> QED
  BY <1>8, <1>9

(* A request comes: its row, if it is an insert, is nowhere else.            *)
LEMMA RequestSent ==
  ASSUME SyncTypes, OnePlace, NEW p \in Sync!Procs, NEW m \in Requests,
         mail' = [mail EXCEPT ![p] = Append(@, m)], UNCHANGED <<batches, cache, fail>>,
         m.op # "rows", m.op = "insert" => ~HasRow(p, m.n)
  PROVE  Alone(p)' /\ \A n : HasRow(p, n)' => HasRow(p, n) \/ (m.op = "insert" /\ n = m.n)
<1> DEFINE L == Len(mail[p])
<1>1. mail[p] \in Seq(Requests) /\ mail'[p] = Append(mail[p], m)
  BY DEF SyncTypes
<1>2. \A j, n : Kept(Sync!RowsIn(m), j, n) => m.op = "insert" /\ j = 1 /\ n = m.n
  <2>1. m.op \in WriteOps \cup {"select"}
    BY RequestKinds
  <2>2. m.op = "insert" => Sync!RowsIn(m) = <<m>>
    BY RequestKinds
  <2>3. m.op # "insert" => Sync!RowsIn(m) = <<>>
    BY <2>1, RequestKinds DEF WriteOps
  <2>4. \A j, n : ~Kept(<<>>, j, n)
    BY DEF Kept
  <2>5. \A j, n : Kept(<<m>>, j, n) => j = 1 /\ n = m.n
    BY DEF Kept
  <2> QED
    BY <2>2, <2>3, <2>4, <2>5
<1>3. \A i, j, n : Mailed(mail'[p], i, j, n) =>
        \/ i \in Nat /\ i <= L /\ Mailed(mail[p], i, j, n)
        \/ i = L + 1 /\ m.op = "insert" /\ j = 1 /\ n = m.n
  <2>1. \A i, j, n : Mailed(Append(mail[p], m), i, j, n) =>
            /\ i \in Nat \ {0} /\ Len(mail[p]) \in Nat
            /\ \/ i <= Len(mail[p]) /\ Mailed(mail[p], i, j, n)
               \/ i = Len(mail[p]) + 1 /\ Kept(Sync!RowsIn(m), j, n)
    BY <1>1, MailedAppend, Zenon
  <2> QED
    BY <1>1, <1>2, <2>1
<1> HIDE DEF L
<1>4. \A k, i, j, n : Holds(p, k, i, j, n)' =>
        \/ Holds(p, k, i, j, n)
        \/ k = "mail" /\ i = L + 1 /\ m.op = "insert" /\ j = 1 /\ n = m.n
  BY <1>3 DEF Holds
<1>5. Alone(p) /\ \A k, i, j : m.op = "insert" => ~Holds(p, k, i, j, m.n)
  BY DEF OnePlace, HasRow
<1>6. Alone(p)'
  <2> SUFFICES ASSUME NEW n, NEW k, NEW l, NEW i, NEW g, NEW j, NEW h,
                      Holds(p, k, i, j, n)', Holds(p, l, g, h, n)'
               PROVE  k = l /\ i = g /\ j = h
    BY DEF Alone
  <2> QED
    BY <1>4, <1>5 DEF Alone
<1>7. \A n : HasRow(p, n)' => HasRow(p, n) \/ (m.op = "insert" /\ n = m.n)
  BY <1>4 DEF HasRow
<1> QED
  BY <1>6, <1>7

-----------------------------------------------------------------------------
(* No row is lost by these steps: what p held, it holds somewhere.           *)
LEMMA HeldOn ==
  ASSUME NEW p \in Sync!Procs, NEW n, NEW k, NEW i, NEW j, Holds(p, k, i, j, n)'
  PROVE  HasRow(p, n)'
BY DEF HasRow

LEMMA HeadTakenOn ==
  ASSUME SyncTypes, NEW p \in Sync!Procs, mail[p] # <<>>,
         mail' = [mail EXCEPT ![p] = Tail(@)], UNCHANGED <<cache, batches, fail>>
  PROVE  \A n : HasRow(p, n) => HasRow(p, n)' \/ \E j : Kept(Sync!RowsIn(mail[p][1]), j, n)
<1>1. mail[p] \in Seq(Requests) /\ mail'[p] = Tail(mail[p])
  BY DEF SyncTypes
<1>2. \A i, j, n : Mailed(mail[p], i, j, n) => i = 1 \/ Mailed(mail'[p], i - 1, j, n)
  BY <1>1, MailedTailOn
<1>3. ASSUME NEW n, NEW k, NEW i, NEW j, Holds(p, k, i, j, n)
      PROVE  HasRow(p, n)' \/ \E h : Kept(Sync!RowsIn(mail[p][1]), h, n)
  <2>1. CASE k = "mail" /\ i = 1
    BY <1>3, <2>1 DEF Holds, Mailed
  <2>2. CASE k = "mail" /\ i # 1
    <3>1. Mailed(mail'[p], i - 1, j, n)
      BY <1>2, <1>3, <2>2 DEF Holds
    <3>2. PICK g : Mailed(mail'[p], g, j, n)
      BY <3>1, Zenon
    <3>3. Holds(p, "mail", g, j, n)'
      BY <3>2 DEF Holds
    <3> QED
      BY <3>3, HeldOn
  <2>3. CASE k # "mail"
    <3>1. Holds(p, k, i, j, n)'
      BY <1>3, <2>3 DEF Holds
    <3> QED
      BY <3>1, HeldOn
  <2> QED
    BY <2>1, <2>2, <2>3
<1> QED
  BY <1>3 DEF HasRow

LEMMA HeadCachedOn ==
  ASSUME SyncTypes, NEW p \in Sync!Procs, mail[p] # <<>>,
         mail' = [mail EXCEPT ![p] = Tail(@)],
         NEW r \in Seq(Rows), r = Sync!RowsIn(mail[p][1]),
         cache' = [cache EXCEPT ![p] = @ \o r], UNCHANGED <<batches, fail>>
  PROVE  \A n : HasRow(p, n) => HasRow(p, n)'
<1>1. /\ mail[p] \in Seq(Requests) /\ mail'[p] = Tail(mail[p])
      /\ cache[p] \in Seq(Rows) /\ cache'[p] = cache[p] \o r
  BY DEF SyncTypes
<1>2. \A i, j, n : Mailed(mail[p], i, j, n) => i = 1 \/ Mailed(mail'[p], i - 1, j, n)
  BY <1>1, MailedTailOn
<1>3. \A j, n : /\ Kept(cache[p], j, n) => Kept(cache[p] \o r, j, n)
                /\ Kept(r, j, n) => Kept(cache[p] \o r, Len(cache[p]) + j, n)
  BY <1>1, KeptConcatOn, Zenon
<1>4. ASSUME NEW n, NEW k, NEW i, NEW j, Holds(p, k, i, j, n)
      PROVE  HasRow(p, n)'
  <2>1. CASE k = "mail" /\ i = 1
    <3>1. Kept(r, j, n)
      BY <1>4, <2>1 DEF Holds, Mailed
    <3>2. PICK g : Kept(cache'[p], g, n)
      BY <1>1, <1>3, <3>1, Zenon
    <3>3. Holds(p, "cache", 1, g, n)'
      BY <3>2 DEF Holds
    <3> QED
      BY <3>3, HeldOn
  <2>2. CASE k = "mail" /\ i # 1
    <3>1. Mailed(mail'[p], i - 1, j, n)
      BY <1>2, <1>4, <2>2 DEF Holds
    <3>2. PICK g : Mailed(mail'[p], g, j, n)
      BY <3>1, Zenon
    <3>3. Holds(p, "mail", g, j, n)'
      BY <3>2 DEF Holds
    <3> QED
      BY <3>3, HeldOn
  <2>3. CASE k = "cache"
    <3>1. Kept(cache'[p], j, n)
      BY <1>1, <1>3, <1>4, <2>3 DEF Holds
    <3>2. Holds(p, "cache", 1, j, n)'
      BY <3>1 DEF Holds
    <3> QED
      BY <3>2, HeldOn
  <2>4. CASE k \notin {"mail", "cache"}
    <3>1. Holds(p, k, i, j, n)'
      BY <1>4, <2>4 DEF Holds
    <3> QED
      BY <3>1, HeldOn
  <2> QED
    BY <2>1, <2>2, <2>3, <2>4
<1> QED
  BY <1>4 DEF HasRow

LEMMA CacheGivenOn ==
  ASSUME SyncTypes, NEW p \in Sync!Procs,
         batches' = [batches EXCEPT ![p] = Append(@, cache[p])],
         cache' = [cache EXCEPT ![p] = <<>>], UNCHANGED <<mail, fail>>
  PROVE  \A n : HasRow(p, n) => HasRow(p, n)'
<1>1. /\ batches[p] \in Seq(Seq(Rows)) /\ cache[p] \in Seq(Rows)
      /\ batches'[p] = Append(batches[p], cache[p])
  BY DEF SyncTypes
<1>2. \A i, j, n : /\ Batched(batches[p], i, j, n) => Batched(Append(batches[p], cache[p]), i, j, n)
                   /\ Kept(cache[p], j, n) =>
                        Batched(Append(batches[p], cache[p]), Len(batches[p]) + 1, j, n)
  BY <1>1, BatchedAppendOn, Zenon
<1>3. ASSUME NEW n, NEW k, NEW i, NEW j, Holds(p, k, i, j, n)
      PROVE  HasRow(p, n)'
  <2>1. CASE k = "cache"
    <3>1. Kept(cache[p], j, n)
      BY <1>3, <2>1 DEF Holds
    <3>2. PICK g : Batched(batches'[p], g, j, n)
      BY <1>1, <1>2, <3>1, Zenon
    <3>3. Holds(p, "worker", g, j, n)'
      BY <3>2 DEF Holds
    <3> QED
      BY <3>3, HeldOn
  <2>2. CASE k = "worker"
    <3>1. Batched(batches'[p], i, j, n)
      BY <1>1, <1>2, <1>3, <2>2 DEF Holds
    <3>2. Holds(p, "worker", i, j, n)'
      BY <3>1 DEF Holds
    <3> QED
      BY <3>2, HeldOn
  <2>3. CASE k \notin {"worker", "cache"}
    <3>1. Holds(p, k, i, j, n)'
      BY <1>3, <2>3 DEF Holds
    <3> QED
      BY <3>1, HeldOn
  <2> QED
    BY <2>1, <2>2, <2>3
<1> QED
  BY <1>3 DEF HasRow

LEMMA SliceTakenOn ==
  ASSUME SyncTypes, NEW p \in Sync!Procs, batches[p] # <<>>,
         NEW s \in Nat, NEW slice \in Seq(Rows), NEW left \in Seq(Rows),
         \A j, n : /\ Kept(slice, j, n) <=> j \in 1 .. s /\ Kept(batches[p][1], j, n)
                   /\ Kept(batches[p][1], j, n) => j \in 1 .. s \/ Kept(left, j - s, n),
         batches' = [batches EXCEPT ![p] = <<left>> \o Tail(@)],
         UNCHANGED <<mail, cache>>,
         fail' = fail \/ fail' = [fail EXCEPT ![p] = @ \o slice]
  PROVE  \A n : HasRow(p, n) => HasRow(p, n)' \/ (fail' = fail /\ \E j : Kept(slice, j, n))
<1> DEFINE rows == batches[p][1]
<1>1. batches[p] \in Seq(Seq(Rows)) /\ fail[p] \in Seq(Rows)
  BY DEF SyncTypes
<1>2. batches'[p] = <<left>> \o Tail(batches[p]) /\ (fail' = fail \/ fail'[p] = fail[p] \o slice)
  BY DEF SyncTypes
<1>3. \A i, j, n : /\ Kept(left, j, n) => Batched(<<left>> \o Tail(batches[p]), 1, j, n)
                   /\ Batched(batches[p], i, j, n) =>
                        i = 1 \/ Batched(<<left>> \o Tail(batches[p]), i, j, n)
  BY <1>1, BatchedHeadOn, Zenon
<1>4. \A j, n : /\ Kept(fail[p], j, n) => Kept(fail[p] \o slice, j, n)
                /\ Kept(slice, j, n) => Kept(fail[p] \o slice, Len(fail[p]) + j, n)
  BY <1>1, KeptConcatOn, Zenon
<1>5. ASSUME NEW n, NEW k, NEW i, NEW j, Holds(p, k, i, j, n)
      PROVE  HasRow(p, n)' \/ (fail' = fail /\ \E h : Kept(slice, h, n))
  <2>1. CASE k = "worker" /\ i # 1
    <3>1. Batched(batches'[p], i, j, n)
      BY <1>2, <1>3, <1>5, <2>1 DEF Holds
    <3>2. Holds(p, "worker", i, j, n)'
      BY <3>1 DEF Holds
    <3> QED
      BY <3>2, HeldOn
  <2>2. CASE k = "worker" /\ i = 1
    <3>1. Kept(rows, j, n)
      BY <1>5, <2>2 DEF Holds, Batched
    <3>2. CASE Kept(left, j - s, n)
      <4>1. PICK g : Kept(left, g, n)
        BY <3>2, Zenon
      <4>2. Batched(batches'[p], 1, g, n)
        BY <1>2, <1>3, <4>1
      <4>3. Holds(p, "worker", 1, g, n)'
        BY <4>2 DEF Holds
      <4> QED
        BY <4>3, HeldOn
    <3>3. CASE j \in 1 .. s /\ fail' = fail
      BY <3>1, <3>3
    <3>4. CASE j \in 1 .. s /\ fail' # fail
      <4>1. Kept(slice, j, n)
        BY <3>1, <3>4
      <4>2. PICK g : Kept(fail[p] \o slice, g, n)
        BY <1>4, <4>1, Zenon
      <4>3. fail'[p] = fail[p] \o slice
        BY <1>2, <3>4, Zenon
      <4>4. Holds(p, "fail", 1, g, n)'
        BY <4>2, <4>3 DEF Holds
      <4> QED
        BY <4>4, HeldOn
    <3> QED
      BY <3>1, <3>2, <3>3, <3>4
  <2>3. CASE k = "fail"
    <3>1. i = 1 /\ Kept(fail[p], j, n)
      BY <1>5, <2>3 DEF Holds
    <3>2. fail'[p] = fail[p] \/ fail'[p] = fail[p] \o slice
      BY <1>2
    <3>3. Kept(fail'[p], j, n)
      BY <1>4, <3>1, <3>2, Zenon
    <3>4. Holds(p, "fail", 1, j, n)'
      BY <3>3 DEF Holds
    <3> QED
      BY <3>4, HeldOn
  <2>4. CASE k \notin {"worker", "fail"}
    <3>1. Holds(p, k, i, j, n)'
      BY <1>5, <2>4 DEF Holds
    <3> QED
      BY <3>1, HeldOn
  <2> QED
    BY <2>1, <2>2, <2>3, <2>4
<1> QED
  BY <1>5 DEF HasRow

LEMMA FailGivenOn ==
  ASSUME SyncTypes, NEW p \in Sync!Procs, batches[p] # <<>>, batches[p][1] = <<>>,
         batches' = [batches EXCEPT ![p] = Tail(@)],
         fail' = [fail EXCEPT ![p] = <<>>], UNCHANGED cache,
         NEW m \in Requests, Sync!RowsIn(m) = fail[p],
         \/ fail[p] = <<>> /\ mail' = mail
         \/ mail' = [mail EXCEPT ![p] = Append(@, m)]
  PROVE  \A n : HasRow(p, n) => HasRow(p, n)'
<1>1. /\ batches[p] \in Seq(Seq(Rows)) /\ mail[p] \in Seq(Requests)
      /\ batches'[p] = Tail(batches[p])
      /\ (fail[p] = <<>> /\ mail'[p] = mail[p]) \/ mail'[p] = Append(mail[p], m)
  BY DEF SyncTypes
<1>2. \A i, j, n : Batched(batches[p], i, j, n) => i = 1 \/ Batched(batches'[p], i - 1, j, n)
  BY <1>1, BatchedTailOn
<1>3. \A i, j, n : /\ Mailed(mail[p], i, j, n) => Mailed(Append(mail[p], m), i, j, n)
                   /\ Kept(fail[p], j, n) => Mailed(Append(mail[p], m), Len(mail[p]) + 1, j, n)
  <2>1. \A i, j, n : /\ Mailed(mail[p], i, j, n) => Mailed(Append(mail[p], m), i, j, n)
                     /\ Kept(Sync!RowsIn(m), j, n) => Mailed(Append(mail[p], m), Len(mail[p]) + 1, j, n)
    BY <1>1, MailedAppendOn, Zenon
  <2> QED
    BY <2>1
<1>4. ASSUME NEW n, NEW k, NEW i, NEW j, Holds(p, k, i, j, n)
      PROVE  HasRow(p, n)'
  <2>1. CASE k = "worker"
    <3>1. i # 1
      BY <1>4, <2>1 DEF Holds, Batched, Kept
    <3>2. Batched(batches'[p], i - 1, j, n)
      BY <1>2, <1>4, <2>1, <3>1 DEF Holds
    <3>3. PICK g : Batched(batches'[p], g, j, n)
      BY <3>2, Zenon
    <3>4. Holds(p, "worker", g, j, n)'
      BY <3>3 DEF Holds
    <3> QED
      BY <3>4, HeldOn
  <2>2. CASE k = "mail"
    <3>1. Mailed(mail[p], i, j, n)
      BY <1>4, <2>2 DEF Holds
    <3>2. mail'[p] = mail[p] \/ mail'[p] = Append(mail[p], m)
      BY <1>1, Zenon
    <3>3. CASE mail'[p] = mail[p]
      <4>1. Holds(p, "mail", i, j, n)'
        BY <3>1, <3>3 DEF Holds
      <4> QED
        BY <4>1, HeldOn
    <3>4. CASE mail'[p] = Append(mail[p], m)
      <4>1. Holds(p, "mail", i, j, n)'
        BY <1>3, <3>1, <3>4 DEF Holds
      <4> QED
        BY <4>1, HeldOn
    <3> QED
      BY <3>2, <3>3, <3>4
  <2>3. CASE k = "fail"
    <3>1. Kept(fail[p], j, n)
      BY <1>4, <2>3 DEF Holds
    <3>2. fail[p] # <<>>
      BY <3>1 DEF Kept
    <3>3. PICK g : Mailed(Append(mail[p], m), g, j, n)
      BY <1>3, <3>1, Zenon
    <3>4. mail'[p] = Append(mail[p], m)
      BY <1>1, <3>2, Zenon
    <3>5. Holds(p, "mail", g, j, n)'
      BY <3>3, <3>4 DEF Holds
    <3> QED
      BY <3>5, HeldOn
  <2>4. CASE k \notin {"worker", "mail", "fail"}
    <3>1. Holds(p, k, i, j, n)'
      BY <1>4, <2>4 DEF Holds
    <3> QED
      BY <3>1, HeldOn
  <2> QED
    BY <2>1, <2>2, <2>3, <2>4
<1> QED
  BY <1>4 DEF HasRow

LEMMA RequestSentOn ==
  ASSUME SyncTypes, NEW p \in Sync!Procs, NEW m \in Requests,
         mail' = [mail EXCEPT ![p] = Append(@, m)], UNCHANGED <<batches, cache, fail>>
  PROVE  /\ \A n : HasRow(p, n) => HasRow(p, n)'
         /\ m.op = "insert" => HasRow(p, m.n)'
<1>1. mail[p] \in Seq(Requests) /\ mail'[p] = Append(mail[p], m)
  BY DEF SyncTypes
<1>2. \A i, j, n : /\ Mailed(mail[p], i, j, n) => Mailed(Append(mail[p], m), i, j, n)
                   /\ Kept(Sync!RowsIn(m), j, n) => Mailed(Append(mail[p], m), Len(mail[p]) + 1, j, n)
  BY <1>1, MailedAppendOn, Zenon
<1>3. ASSUME NEW n, NEW k, NEW i, NEW j, Holds(p, k, i, j, n)
      PROVE  HasRow(p, n)'
  <2>1. Holds(p, k, i, j, n)'
    BY <1>1, <1>2, <1>3 DEF Holds
  <2> QED
    BY <2>1, HeldOn
<1>4. ASSUME m.op = "insert" PROVE HasRow(p, m.n)'
  <2>1. Sync!RowsIn(m) = <<m>>
    BY <1>4, RequestKinds
  <2>2. Kept(Sync!RowsIn(m), 1, m.n)
    BY <2>1 DEF Kept
  <2>3. PICK g : Mailed(mail'[p], g, 1, m.n)
    BY <1>1, <1>2, <2>2, Zenon
  <2>4. Holds(p, "mail", g, 1, m.n)'
    BY <2>3 DEF Holds
  <2> QED
    BY <2>4, HeldOn
<1> QED
  BY <1>3, <1>4 DEF HasRow

-----------------------------------------------------------------------------
(* Every step keeps the invariant.                                           *)
LEMMA OwnProcess == \A k \in Keys : Sync!ProcOf(k) \in Sync!Procs
<1> SUFFICES ASSUME NEW k \in Keys PROVE Sync!ProcOf(k) \in Sync!Procs
  OBVIOUS
<1>1. k \in Nat /\ SyncNum \in Nat \ {0}
  BY SyncAssumption
<1>2. k % SyncNum \in 0 .. SyncNum - 1
  BY <1>1
<1> QED
  BY <1>2 DEF Sync!ProcOf, Sync!Procs

LEMMA SyncInit ==
  ASSUME Sync!Init
  PROVE  SyncInv
<1> USE DEF Sync!Init
<1>1. SyncTypes
  BY DEF SyncTypes
<1>2. \A p \in Sync!Procs : mail[p] = <<>> /\ cache[p] = <<>> /\ batches[p] = <<>> /\ fail[p] = <<>>
  OBVIOUS
<1>3. \A p \in Sync!Procs : \A k, i, j, n : ~Holds(p, k, i, j, n)
  BY <1>2 DEF Holds, Mailed, Batched, Kept
<1>4. \A p \in Sync!Procs : \A n : ~HasRow(p, n)
  BY <1>3 DEF HasRow
<1>5. WritesLogged
  BY <1>2 DEF WritesLogged
<1>6. OnePlace
  BY <1>3 DEF OnePlace, Alone
<1>7. HeldLogged /\ NotYet
  BY <1>4 DEF HeldLogged, NotYet
<1>8. Either /\ TableLogged /\ DoneLogged /\ NoneLost
  BY DEF Either, TableLogged, DoneLogged, NoneLost
<1> QED
  BY <1>1, <1>5, <1>6, <1>7, <1>8 DEF SyncInv

\* No write is new in a mailbox.
LEMMA WritesStay ==
  ASSUME WritesLogged, log' = log,
         \A q \in Sync!Procs : \A i \in DOMAIN mail'[q] :
           \/ mail'[q][i].op \notin WriteOps
           \/ \E g \in DOMAIN mail[q] : mail'[q][i] = mail[q][g]
  PROVE  WritesLogged'
BY DEF WritesLogged

\* The mailbox of p has lost its head, or has another request at its end.
LEMMA MailTaken ==
  ASSUME SyncTypes, NEW p \in Sync!Procs, mail[p] # <<>>, mail' = [mail EXCEPT ![p] = Tail(@)]
  PROVE  /\ mail' \in [Sync!Procs -> Seq(Requests)]
         /\ mail[p][1] \in Requests /\ 1 \in DOMAIN mail[p]
         /\ \A q \in Sync!Procs : q # p => mail'[q] = mail[q]
         /\ \A i \in DOMAIN mail'[p] :
              i \in Nat \ {0} /\ i + 1 \in DOMAIN mail[p] /\ mail'[p][i] = mail[p][i + 1]
<1>1. mail[p] \in Seq(Requests) /\ mail'[p] = Tail(mail[p])
  BY DEF SyncTypes
<1>2. \A q \in Sync!Procs : q # p => mail'[q] = mail[q]
  BY DEF SyncTypes
<1>3. mail[p][1] \in Requests /\ 1 \in DOMAIN mail[p] /\ Tail(mail[p]) \in Seq(Requests)
  BY <1>1
<1>4. \A i \in DOMAIN Tail(mail[p]) :
        i \in Nat \ {0} /\ i + 1 \in DOMAIN mail[p] /\ Tail(mail[p])[i] = mail[p][i + 1]
  BY <1>1
<1>5. mail' \in [Sync!Procs -> Seq(Requests)]
  BY <1>3 DEF SyncTypes
<1> QED
  BY <1>1, <1>2, <1>3, <1>4, <1>5

LEMMA MailSent ==
  ASSUME SyncTypes, NEW p \in Sync!Procs, NEW m \in Requests,
         mail' = [mail EXCEPT ![p] = Append(@, m)]
  PROVE  /\ mail' \in [Sync!Procs -> Seq(Requests)]
         /\ \A q \in Sync!Procs : q # p => mail'[q] = mail[q]
         /\ Len(mail[p]) \in Nat
         /\ \A i : i \in DOMAIN mail[p] => i \in Nat \ {0} /\ i <= Len(mail[p])
         /\ \A i \in DOMAIN mail'[p] :
              \/ i \in DOMAIN mail[p] /\ mail'[p][i] = mail[p][i]
              \/ i = Len(mail[p]) + 1 /\ mail'[p][i] = m
<1>1. mail[p] \in Seq(Requests) /\ mail'[p] = Append(mail[p], m)
  BY DEF SyncTypes
<1>2. \A q \in Sync!Procs : q # p => mail'[q] = mail[q]
  BY DEF SyncTypes
<1>3. /\ Append(mail[p], m) \in Seq(Requests) /\ Len(mail[p]) \in Nat
      /\ \A i : i \in DOMAIN mail[p] => i \in Nat \ {0} /\ i <= Len(mail[p])
  BY <1>1
<1>4. \A i \in DOMAIN Append(mail[p], m) :
        \/ i \in DOMAIN mail[p] /\ Append(mail[p], m)[i] = mail[p][i]
        \/ i = Len(mail[p]) + 1 /\ Append(mail[p], m)[i] = m
  BY <1>1
<1>5. mail' \in [Sync!Procs -> Seq(Requests)]
  BY <1>3 DEF SyncTypes
<1> QED
  BY <1>1, <1>2, <1>3, <1>4, <1>5

\* A step of p that makes no write.
LEMMA StepKeeps ==
  ASSUME SyncInv, SyncTypes', WritesLogged', log' = log,
         NEW p \in Sync!Procs, NEW R, NEW D, NEW v,
         \A q \in Sync!Procs : q # p => /\ mail'[q] = mail[q] /\ cache'[q] = cache[q]
                                        /\ batches'[q] = batches[q] /\ fail'[q] = fail[q],
         Alone(p)' /\ \A n : HasRow(p, n)' => HasRow(p, n),
         Settle(p, R, D, v)
  PROVE  SyncInv'
<1>0. /\ SyncTypes /\ HeldLogged /\ OnePlace /\ NotYet /\ Either /\ TableLogged
      /\ DoneLogged /\ NoneLost
  BY DEF SyncInv
<1>1. \A q \in Sync!Procs : q # p => /\ \A n : HasRow(q, n)' <=> HasRow(q, n)
                                     /\ Alone(q)' <=> Alone(q)
  BY OthersStay, Zenon
<1>2. OnePlace'
  BY <1>0, <1>1, AllAlone, Zenon
<1>3. \A q \in Sync!Procs : \A n : HasRow(q, n)' => HasRow(q, n)
  <2> SUFFICES ASSUME NEW q \in Sync!Procs PROVE \A n : HasRow(q, n)' => HasRow(q, n)
    OBVIOUS
  <2>1. CASE q = p
    BY <2>1
  <2>2. CASE q # p
    BY <1>1, <2>2
  <2> QED
    BY <2>1, <2>2, Zenon
<1>4. \A q \in Sync!Procs : \A n : HasRow(q, n) => HasRow(q, n)' \/ n \in R \cup D
  <2> SUFFICES ASSUME NEW q \in Sync!Procs
               PROVE  \A n : HasRow(q, n) => HasRow(q, n)' \/ n \in R \cup D
    OBVIOUS
  <2>1. CASE q = p
    BY <2>1 DEF Settle
  <2>2. CASE q # p
    BY <1>1, <2>2
  <2> QED
    BY <2>1, <2>2, Zenon
<1>5. HeldLogged' /\ NotYet' /\ Either' /\ TableLogged' /\ DoneLogged' /\ NoneLost'
  BY <1>0, <1>3, <1>4, RowsSettled, Zenon
<1> QED
  BY <1>2, <1>5 DEF SyncInv

LEMMA SelectSent ==
  ASSUME SyncInv, NEW p \in Sync!Procs, NEW m \in Requests, m.op = "select",
         mail' = [mail EXCEPT ![p] = Append(@, m)],
         UNCHANGED <<cache, batches, fail, table, log, done, refused>>
  PROVE  SyncInv'
<1>0. /\ SyncTypes /\ WritesLogged /\ HeldLogged /\ OnePlace /\ NotYet /\ Either /\ TableLogged
      /\ DoneLogged /\ NoneLost
  BY DEF SyncInv
<1>4. /\ mail' \in [Sync!Procs -> Seq(Requests)]
      /\ \A q \in Sync!Procs : q # p => mail'[q] = mail[q]
      /\ \A i \in DOMAIN mail'[p] :
           \/ i \in DOMAIN mail[p] /\ mail'[p][i] = mail[p][i]
           \/ i = Len(mail[p]) + 1 /\ mail'[p][i] = m
  BY <1>0, MailSent, ZenonT(60)
<1>5. SyncTypes'
  BY <1>0, <1>4 DEF SyncTypes
<1>6. WritesLogged'
  <2>1. \A q \in Sync!Procs : \A i \in DOMAIN mail'[q] :
           \/ mail'[q][i].op \notin WriteOps
           \/ \E g \in DOMAIN mail[q] : mail'[q][i] = mail[q][g]
    BY <1>4 DEF WriteOps
  <2> QED
    BY <1>0, <2>1, WritesStay
<1>7. Alone(p)' /\ \A n : HasRow(p, n)' => HasRow(p, n)
  <2>1. m.op # "rows" /\ m.op # "insert"
    OBVIOUS
  <2>2. Alone(p)' /\ \A n : HasRow(p, n)' => HasRow(p, n) \/ (m.op = "insert" /\ n = m.n)
    BY <1>0, <2>1, RequestSent, Zenon
  <2> QED
    BY <2>1, <2>2, Zenon
<1>8. \A q \in Sync!Procs : q # p => /\ mail'[q] = mail[q] /\ cache'[q] = cache[q]
                                     /\ batches'[q] = batches[q] /\ fail'[q] = fail[q]
  BY <1>4
<1>9. Settle(p, {}, {}, 0)
  <2>1. \A n : HasRow(p, n) => HasRow(p, n)'
    BY <1>0, RequestSentOn, Zenon
  <2> QED
    BY <2>1 DEF Settle
<1> QED
  BY <1>5, <1>6, <1>7, <1>8, <1>9, StepKeeps, Zenon

LEMMA SelectKeeps ==
  ASSUME SyncInv, NEW k \in Keys, Sync!Select(k)
  PROVE  SyncInv'
<1>1. Sync!ProcOf(k) \in Sync!Procs
  BY OwnProcess
<1>2. [op |-> "select", key |-> k, n |-> Len(log)] \in Requests
  <2>1. Len(log) \in Nat
    BY DEF SyncInv, SyncTypes
  <2> QED
    BY <2>1 DEF Requests
<1>3. /\ mail' = [mail EXCEPT ![Sync!ProcOf(k)] =
                    Append(@, [op |-> "select", key |-> k, n |-> Len(log)])]
      /\ UNCHANGED <<cache, batches, fail, table, log, done, refused>>
  BY DEF Sync!Select
<1> QED
  BY <1>1, <1>2, <1>3, SelectSent

LEMMA WriteSent ==
  ASSUME SyncInv, NEW p \in Sync!Procs, NEW m \in Requests, m.op \in WriteOps,
         m.n = Len(log) + 1, Sync!ProcOf(m.key) = p,
         mail' = [mail EXCEPT ![p] = Append(@, m)],
         log' = Append(log, [op |-> m.op, key |-> m.key]),
         UNCHANGED <<cache, batches, fail, table, done, refused>>
  PROVE  SyncInv'
<1>0. /\ SyncTypes /\ WritesLogged /\ HeldLogged /\ OnePlace /\ NotYet /\ Either /\ TableLogged
      /\ DoneLogged /\ NoneLost
  BY DEF SyncInv
<1>1. m.key \in Keys /\ m.op # "rows"
  <2>1. m.op # "rows"
    BY DEF WriteOps
  <2> QED
    BY <2>1, RequestKinds
<1>2. /\ Len(log) \in Nat /\ DOMAIN log = 1 .. Len(log) /\ log \in Seq([op : WriteOps, key : Keys])
      /\ log' \in Seq([op : WriteOps, key : Keys])
  BY <1>0, <1>1 DEF SyncTypes
<1>3. /\ m.n \notin DOMAIN log /\ m.n \in DOMAIN log' /\ m.n # 0
      /\ log'[m.n] = [op |-> m.op, key |-> m.key]
      /\ \A n \in DOMAIN log : n \in DOMAIN log' /\ log'[n] = log[n]
  BY <1>2
<1>4. /\ mail' \in [Sync!Procs -> Seq(Requests)]
      /\ \A q \in Sync!Procs : q # p => mail'[q] = mail[q]
      /\ \A i \in DOMAIN mail'[p] :
           \/ i \in DOMAIN mail[p] /\ mail'[p][i] = mail[p][i]
           \/ i = Len(mail[p]) + 1 /\ mail'[p][i] = m
  <2>1. SyncTypes /\ mail' = [mail EXCEPT ![p] = Append(@, m)]
    BY <1>0
  <2> QED
    BY <2>1, MailSent, ZenonT(60)
<1>5. SyncTypes'
  BY <1>0, <1>2, <1>4 DEF SyncTypes
<1>6. WritesLogged'
  <2> SUFFICES ASSUME NEW q \in Sync!Procs, NEW i \in DOMAIN mail'[q], mail'[q][i].op \in WriteOps
               PROVE  /\ mail'[q][i].n \in DOMAIN log'
                      /\ log'[mail'[q][i].n] = [op |-> mail'[q][i].op, key |-> mail'[q][i].key]
                      /\ Sync!ProcOf(mail'[q][i].key) = q
    BY DEF WritesLogged, Sync!ProcOf
  <2>1. CASE q = p /\ mail'[q][i] = m
    BY <1>3, <2>1
  <2>2. CASE i \in DOMAIN mail[q] /\ mail'[q][i] = mail[q][i]
    <3>1. /\ mail[q][i].n \in DOMAIN log
          /\ log[mail[q][i].n] = [op |-> mail[q][i].op, key |-> mail[q][i].key]
          /\ Sync!ProcOf(mail[q][i].key) = q
      BY <1>0, <2>2 DEF WritesLogged
    <3> QED
      BY <1>3, <2>2, <3>1
  <2> QED
    BY <1>4, <2>1, <2>2
<1>7. ~HasRow(p, m.n) /\ m.n \notin refused /\ m.n \notin done /\ \A x \in Keys : table[x] # m.n
  BY <1>0, <1>3 DEF HeldLogged, Either, TableLogged, DoneLogged
<1>8. Alone(p)' /\ \A n : HasRow(p, n)' => HasRow(p, n) \/ (m.op = "insert" /\ n = m.n)
  BY <1>0, <1>1, <1>7, RequestSent, Zenon
<1>9. \A q \in Sync!Procs : q # p => /\ \A n : HasRow(q, n)' <=> HasRow(q, n)
                                     /\ Alone(q)' <=> Alone(q)
  <2>1. \A q \in Sync!Procs : q # p => /\ mail'[q] = mail[q] /\ cache'[q] = cache[q]
                                       /\ batches'[q] = batches[q] /\ fail'[q] = fail[q]
    BY <1>4
  <2> QED
    BY <2>1, OthersStay, Zenon
<1>10. OnePlace'
  BY <1>0, <1>8, <1>9, AllAlone, Zenon
<1>11. \A q \in Sync!Procs : \A n : HasRow(q, n)' =>
         HasRow(q, n) \/ (q = p /\ m.op = "insert" /\ n = m.n)
  BY <1>8, <1>9, Zenon
<1>12. HeldLogged'
  <2> SUFFICES ASSUME NEW q \in Sync!Procs, NEW n, HasRow(q, n)'
               PROVE  n \in DOMAIN log' /\ log'[n].op = "insert" /\ Sync!ProcOf(log'[n].key) = q
    BY DEF HeldLogged, Sync!ProcOf
  <2>1. CASE HasRow(q, n)
    <3>1. n \in DOMAIN log /\ log[n].op = "insert" /\ Sync!ProcOf(log[n].key) = q
      BY <1>0, <2>1 DEF HeldLogged
    <3> QED
      BY <1>3, <3>1
  <2>2. CASE q = p /\ m.op = "insert" /\ n = m.n
    BY <1>3, <2>2
  <2> QED
    BY <1>11, <2>1, <2>2
<1>13. NotYet'
  BY <1>0, <1>7, <1>11 DEF NotYet
<1>14. Either'
  <2> SUFFICES ASSUME NEW n \in refused
               PROVE  /\ n \in DOMAIN log'
                      /\ log'[n].op = "insert" => n \notin done /\ \A x \in Keys : table[x] # n
    BY DEF Either
  <2>1. /\ n \in DOMAIN log
        /\ log[n].op = "insert" => n \notin done /\ \A x \in Keys : table[x] # n
    BY <1>0 DEF Either
  <2> QED
    BY <1>3, <2>1
<1>15. TableLogged' /\ DoneLogged'
  BY <1>0, <1>3 DEF TableLogged, DoneLogged
<1>16. /\ \A n : HasRow(p, n) => HasRow(p, n)'
       /\ m.op = "insert" => HasRow(p, m.n)'
  BY <1>0, RequestSentOn, Zenon
<1>17. \A q \in Sync!Procs : \A n : HasRow(q, n) => HasRow(q, n)'
  BY <1>9, <1>16, Zenon
<1>18. NoneLost'
  <2> SUFFICES ASSUME NEW n \in DOMAIN log', log'[n].op = "insert", n \notin done, n \notin refused
               PROVE  \E q \in Sync!Procs : HasRow(q, n)'
    BY DEF NoneLost, Sync!Procs
  <2>1. CASE n \in DOMAIN log
    <3>1. log[n].op = "insert"
      BY <1>3, <2>1
    <3>2. PICK q \in Sync!Procs : HasRow(q, n)
      BY <1>0, <2>1, <3>1 DEF NoneLost
    <3> QED
      BY <1>17, <3>2
  <2>2. CASE n \notin DOMAIN log
    <3>1. n = m.n
      BY <1>2, <2>2
    <3>2. m.op = "insert"
      BY <1>3, <3>1
    <3> QED
      BY <1>16, <3>1, <3>2
  <2> QED
    BY <2>1, <2>2
<1> QED
  BY <1>5, <1>6, <1>10, <1>12, <1>13, <1>14, <1>15, <1>18 DEF SyncInv

LEMMA WriteKeeps ==
  ASSUME SyncInv, NEW k \in Keys, NEW op \in WriteOps, Sync!Write(op, k)
  PROVE  SyncInv'
<1>1. Sync!ProcOf(k) \in Sync!Procs
  BY OwnProcess
<1>2. [op |-> op, key |-> k, n |-> Len(log) + 1] \in Requests
  <2>1. Len(log) + 1 \in Nat
    BY DEF SyncInv, SyncTypes
  <2> QED
    BY <2>1 DEF Requests
<1>3. /\ mail' = [mail EXCEPT ![Sync!ProcOf(k)] =
                    Append(@, [op |-> op, key |-> k, n |-> Len(log) + 1])]
      /\ log' = Append(log, [op |-> op, key |-> k])
      /\ UNCHANGED <<cache, batches, fail, table, done, refused>>
  BY DEF Sync!Write
<1> QED
  BY <1>1, <1>2, <1>3, WriteSent

(* The process takes a request: a select, a row for the cache, or a statement. *)
LEMMA SelectTaken ==
  ASSUME SyncInv, NEW p \in Sync!Procs, mail[p] # <<>>, mail[p][1].op = "select",
         mail' = [mail EXCEPT ![p] = Tail(@)],
         UNCHANGED <<cache, batches, fail, table, log, done, refused>>
  PROVE  SyncInv'
<1>0. SyncTypes /\ WritesLogged /\ OnePlace
  BY DEF SyncInv
<1>1. /\ mail' \in [Sync!Procs -> Seq(Requests)]
      /\ mail[p][1] \in Requests /\ 1 \in DOMAIN mail[p]
      /\ \A q \in Sync!Procs : q # p => mail'[q] = mail[q]
      /\ \A i \in DOMAIN mail'[p] :
           i \in Nat \ {0} /\ i + 1 \in DOMAIN mail[p] /\ mail'[p][i] = mail[p][i + 1]
  BY <1>0, MailTaken, Zenon
<1>2. SyncTypes'
  BY <1>0, <1>1 DEF SyncTypes
<1>3. WritesLogged'
  BY <1>0, <1>1, WritesStay
<1>4. Alone(p)' /\ \A n : HasRow(p, n)' => HasRow(p, n)
  BY <1>0, HeadTaken, Zenon
<1>5. \A q \in Sync!Procs : q # p => /\ mail'[q] = mail[q] /\ cache'[q] = cache[q]
                                     /\ batches'[q] = batches[q] /\ fail'[q] = fail[q]
  BY <1>1
<1>6. Settle(p, {}, {}, 0)
  <2>1. \A n : HasRow(p, n) => HasRow(p, n)' \/ \E j : Kept(Sync!RowsIn(mail[p][1]), j, n)
    BY <1>0, HeadTakenOn, Zenon
  <2>2. \A j, n : ~Kept(Sync!RowsIn(mail[p][1]), j, n)
    BY <1>1, RequestKinds DEF Kept
  <2>3. \A n : HasRow(p, n) => HasRow(p, n)'
    BY <2>1, <2>2, Zenon
  <2> QED
    BY <2>3 DEF Settle
<1> QED
  BY <1>2, <1>3, <1>4, <1>5, <1>6, StepKeeps, Zenon

LEMMA RowsCached ==
  ASSUME SyncInv, NEW p \in Sync!Procs, mail[p] # <<>>,
         mail' = [mail EXCEPT ![p] = Tail(@)],
         NEW r \in Seq(Rows), r = Sync!RowsIn(mail[p][1]),
         cache' = [cache EXCEPT ![p] = @ \o r],
         UNCHANGED <<batches, fail, table, log, done, refused>>
  PROVE  SyncInv'
<1>0. SyncTypes /\ WritesLogged /\ OnePlace
  BY DEF SyncInv
<1>1. /\ mail' \in [Sync!Procs -> Seq(Requests)]
      /\ mail[p][1] \in Requests /\ 1 \in DOMAIN mail[p]
      /\ \A q \in Sync!Procs : q # p => mail'[q] = mail[q]
      /\ \A i \in DOMAIN mail'[p] :
           i \in Nat \ {0} /\ i + 1 \in DOMAIN mail[p] /\ mail'[p][i] = mail[p][i + 1]
  BY <1>0, MailTaken, Zenon
<1>2. /\ cache' \in [Sync!Procs -> Seq(Rows)]
      /\ \A q \in Sync!Procs : q # p => cache'[q] = cache[q]
  <2>1. cache[p] \o r \in Seq(Rows)
    BY <1>0 DEF SyncTypes
  <2> QED
    BY <1>0, <2>1 DEF SyncTypes
<1>3. SyncTypes'
  BY <1>0, <1>1, <1>2 DEF SyncTypes
<1>4. WritesLogged'
  BY <1>0, <1>1, WritesStay
<1>5. Alone(p)' /\ \A n : HasRow(p, n)' => HasRow(p, n)
  BY <1>0, HeadCached, Zenon
<1>6. \A q \in Sync!Procs : q # p => /\ mail'[q] = mail[q] /\ cache'[q] = cache[q]
                                     /\ batches'[q] = batches[q] /\ fail'[q] = fail[q]
  BY <1>1, <1>2
<1>7. Settle(p, {}, {}, 0)
  <2>1. \A n : HasRow(p, n) => HasRow(p, n)'
    BY <1>0, HeadCachedOn, Zenon
  <2> QED
    BY <2>1 DEF Settle
<1> QED
  BY <1>3, <1>4, <1>5, <1>6, <1>7, StepKeeps, Zenon

LEMMA WriteTaken ==
  ASSUME SyncInv, NEW p \in Sync!Procs, mail[p] # <<>>, NEW m, m = mail[p][1],
         m.op \in WriteOps, mail' = [mail EXCEPT ![p] = Tail(@)], Sync!Exec(m),
         UNCHANGED <<cache, batches, fail, log>>
  PROVE  SyncInv'
<1>0. SyncTypes /\ WritesLogged /\ OnePlace /\ HeldLogged
  BY DEF SyncInv
<1>1. /\ mail' \in [Sync!Procs -> Seq(Requests)]
      /\ mail[p][1] \in Requests /\ 1 \in DOMAIN mail[p]
      /\ \A q \in Sync!Procs : q # p => mail'[q] = mail[q]
      /\ \A i \in DOMAIN mail'[p] :
           i \in Nat \ {0} /\ i + 1 \in DOMAIN mail[p] /\ mail'[p][i] = mail[p][i + 1]
  BY <1>0, MailTaken, Zenon
<1>2. m.op # "rows" /\ m.key \in Keys /\ m.n \in Nat
  <2>1. m.op # "rows"
    BY DEF WriteOps
  <2> QED
    BY <1>1, <2>1, RequestKinds
<1>3. m.n \in DOMAIN log /\ log[m.n].op = m.op
  <2>1. m.n \in DOMAIN log /\ log[m.n] = [op |-> m.op, key |-> m.key]
    BY <1>0, <1>1 DEF WritesLogged
  <2> QED
    BY <2>1
<1>4. /\ Alone(p)' /\ \A n : HasRow(p, n)' => HasRow(p, n)
      /\ \A n : Holds(p, "mail", 1, 1, n) => ~HasRow(p, n)'
  BY <1>0, HeadTaken, Zenon
<1>5. m.op = "insert" => Holds(p, "mail", 1, 1, m.n)
  <2> SUFFICES ASSUME m.op = "insert" PROVE Holds(p, "mail", 1, 1, m.n)
    OBVIOUS
  <2>1. Sync!RowsIn(m) = <<m>>
    BY <1>1, RequestKinds
  <2>2. Kept(Sync!RowsIn(m), 1, m.n)
    BY <2>1 DEF Kept
  <2> QED
    BY <1>1, <2>2 DEF Holds, Mailed
<1>6. ~HasRow(p, m.n)' /\ (log[m.n].op = "insert" => HasRow(p, m.n))
  <2>1. CASE m.op = "insert"
    <3>1. HasRow(p, m.n)
      BY <1>5, <2>1 DEF HasRow
    <3> QED
      BY <1>4, <1>5, <2>1, <3>1, Zenon
  <2>2. CASE m.op # "insert"
    <3>1. ~HasRow(p, m.n)
      BY <1>0, <1>3, <2>2 DEF HeldLogged
    <3> QED
      BY <1>3, <1>4, <2>2, <3>1, Zenon
  <2> QED
    BY <2>1, <2>2
<1>7. \A q \in Sync!Procs : q # p => /\ mail'[q] = mail[q] /\ cache'[q] = cache[q]
                                     /\ batches'[q] = batches[q] /\ fail'[q] = fail[q]
  BY <1>1
<1>8. WritesLogged'
  BY <1>0, <1>1, WritesStay
<1>9. \A n : HasRow(p, n) => HasRow(p, n)' \/ n = m.n
  <2>1. \A n : HasRow(p, n) => HasRow(p, n)' \/ \E j : Kept(Sync!RowsIn(mail[p][1]), j, n)
    BY <1>0, HeadTakenOn, Zenon
  <2>2. \A j, n : Kept(Sync!RowsIn(m), j, n) => n = m.n
    <3>1. Sync!RowsIn(m) = <<m>> \/ Sync!RowsIn(m) = <<>>
      BY <1>1, RequestKinds DEF WriteOps
    <3> QED
      BY <3>1 DEF Kept
  <2> QED
    BY <2>1, <2>2
<1>10. CASE /\ table' = [table EXCEPT ![m.key] = Sync!Row(m.op, m.n)]
            /\ done' = done \cup {m.n} /\ UNCHANGED refused
  <2>1. Sync!Row(m.op, m.n) \in {0, m.n}
    BY DEF Sync!Row
  <2>2. table' \in [Keys -> Nat]
    BY <1>0, <1>2, <1>10, <2>1 DEF SyncTypes
  <2>3. done' \subseteq Nat
    BY <1>0, <1>2, <1>10 DEF SyncTypes
  <2>4. SyncTypes'
    BY <1>0, <1>1, <1>10, <2>2, <2>3 DEF SyncTypes
  <2>5. \A x \in Keys : table'[x] = table[x] \/ table'[x] = Sync!Row(m.op, m.n)
    BY <1>0, <1>10 DEF SyncTypes
  <2>6. Settle(p, {}, {m.n}, Sync!Row(m.op, m.n))
    BY <1>3, <1>6, <1>9, <1>10, <2>1, <2>5 DEF Settle
  <2> QED
    BY <1>4, <1>7, <1>8, <2>4, <2>6, StepKeeps, Zenon
<1>11. CASE refused' = refused \cup {m.n} /\ UNCHANGED <<table, done>>
  <2>1. SyncTypes'
    BY <1>0, <1>1, <1>2, <1>11 DEF SyncTypes
  <2>2. Settle(p, {m.n}, {}, 0)
    BY <1>3, <1>6, <1>9, <1>11 DEF Settle
  <2> QED
    BY <1>4, <1>7, <1>8, <2>1, <2>2, StepKeeps, Zenon
<1>12. \/ /\ table' = [table EXCEPT ![m.key] = Sync!Row(m.op, m.n)]
          /\ done' = done \cup {m.n} /\ UNCHANGED refused
       \/ refused' = refused \cup {m.n} /\ UNCHANGED <<table, done>>
  BY DEF Sync!Exec
<1> QED
  BY <1>10, <1>11, <1>12

LEMMA HandleKeeps ==
  ASSUME SyncInv, NEW p \in Sync!Procs, Sync!Handle(p)
  PROVE  SyncInv'
<1> DEFINE m == mail[p][1]
<1>1. /\ mail[p] # <<>> /\ mail' = [mail EXCEPT ![p] = Tail(@)]
      /\ UNCHANGED <<batches, fail, log>>
  BY DEF Sync!Handle
<1>2. SyncTypes
  BY DEF SyncInv
<1>3. m \in Requests
  BY <1>1, <1>2, MailTaken
<1>4. m.op \in WriteOps \cup {"select", "rows"}
  BY <1>3, RequestKinds
<1>5. CASE m.op = "select"
  <2>1. UNCHANGED <<cache, table, done, refused>>
    BY <1>5 DEF Sync!Handle
  <2> QED
    BY <1>1, <1>5, <2>1, SelectTaken
<1>6. CASE m.op = "insert" /\ multi
  <2>1. cache' = [cache EXCEPT ![p] = Append(@, m)] /\ UNCHANGED <<table, done, refused>>
    BY <1>6 DEF Sync!Handle
  <2>2. Sync!RowsIn(m) = <<m>> /\ m \in Rows /\ <<m>> \in Seq(Rows)
    BY <1>3, <1>6, RequestKinds
  <2>3. Append(cache[p], m) = cache[p] \o <<m>>
    <3>1. cache[p] \in Seq(Rows)
      BY <1>2 DEF SyncTypes
    <3>2. ASSUME NEW q \in Seq(Rows), NEW e \in Rows PROVE Append(q, e) = q \o <<e>>
      OBVIOUS
    <3> QED
      BY <2>2, <3>1, <3>2, Zenon
  <2>4. cache' = [cache EXCEPT ![p] = @ \o <<m>>]
    BY <2>1, <2>3
  <2> QED
    BY <1>1, <2>1, <2>2, <2>4, RowsCached
<1>7. CASE m.op = "rows"
  <2>1. cache' = [cache EXCEPT ![p] = @ \o m.rows] /\ UNCHANGED <<table, done, refused>>
    BY <1>7 DEF Sync!Handle
  <2>2. m.rows \in Seq(Rows) /\ Sync!RowsIn(m) = m.rows
    BY <1>3, <1>7, RequestKinds
  <2> QED
    BY <1>1, <2>1, <2>2, RowsCached
<1>8. CASE m.op \in WriteOps /\ ~(m.op = "insert" /\ multi)
  <2>1. Sync!Exec(m) /\ UNCHANGED cache
    BY <1>8 DEF Sync!Handle, WriteOps
  <2> QED
    BY <1>1, <1>8, <2>1, WriteTaken
<1> QED
  BY <1>4, <1>5, <1>6, <1>7, <1>8 DEF WriteOps

(* The loop, the worker, and the connection.                                 *)
LEMMA FlushKeeps ==
  ASSUME SyncInv, NEW p \in Sync!Procs, Sync!Flush(p)
  PROVE  SyncInv'
<1>0. SyncTypes /\ WritesLogged /\ OnePlace
  BY DEF SyncInv
<1>1. /\ batches' = [batches EXCEPT ![p] = Append(@, cache[p])]
      /\ cache' = [cache EXCEPT ![p] = <<>>]
      /\ UNCHANGED <<mail, fail, table, log, done, refused>>
  BY DEF Sync!Flush
<1>2. /\ batches' \in [Sync!Procs -> Seq(Seq(Rows))] /\ cache' \in [Sync!Procs -> Seq(Rows)]
      /\ \A q \in Sync!Procs : q # p => cache'[q] = cache[q] /\ batches'[q] = batches[q]
  <2>1. Append(batches[p], cache[p]) \in Seq(Seq(Rows)) /\ <<>> \in Seq(Rows)
    BY <1>0 DEF SyncTypes
  <2>2. batches' \in [Sync!Procs -> Seq(Seq(Rows))]
    BY <1>0, <1>1, <2>1 DEF SyncTypes
  <2>3. cache' \in [Sync!Procs -> Seq(Rows)]
    BY <1>0, <1>1, <2>1 DEF SyncTypes
  <2>4. \A q \in Sync!Procs : q # p => cache'[q] = cache[q] /\ batches'[q] = batches[q]
    BY <1>0, <1>1 DEF SyncTypes
  <2> QED
    BY <2>2, <2>3, <2>4
<1>3. SyncTypes'
  BY <1>0, <1>1, <1>2 DEF SyncTypes
<1>4. WritesLogged'
  BY <1>0, <1>1 DEF WritesLogged, Sync!ProcOf
<1>5. Alone(p)' /\ \A n : HasRow(p, n)' => HasRow(p, n)
  BY <1>0, <1>1, CacheGiven
<1>6. \A q \in Sync!Procs : q # p => /\ mail'[q] = mail[q] /\ cache'[q] = cache[q]
                                     /\ batches'[q] = batches[q] /\ fail'[q] = fail[q]
  BY <1>1, <1>2
<1>7. Settle(p, {}, {}, 0) /\ log' = log
  <2>1. \A n : HasRow(p, n) => HasRow(p, n)'
    BY <1>0, <1>1, CacheGivenOn
  <2> QED
    BY <1>1, <2>1 DEF Settle
<1> QED
  BY <1>3, <1>4, <1>5, <1>6, <1>7, StepKeeps, Zenon

\* One statement of the worker, for s rows.
LEMMA SliceKeeps ==
  ASSUME SyncInv, NEW p \in Sync!Procs, batches[p] # <<>>,
         NEW s \in Nat, NEW slice \in Seq(Rows), NEW left \in Seq(Rows),
         \A j, n : /\ Kept(slice, j, n) <=> j \in 1 .. s /\ Kept(batches[p][1], j, n)
                   /\ Kept(left, j, n) => j \in Nat \ {0} /\ Kept(batches[p][1], j + s, n)
                   /\ Kept(batches[p][1], j, n) => j \in 1 .. s \/ Kept(left, j - s, n),
         batches' = [batches EXCEPT ![p] = <<left>> \o Tail(@)],
         UNCHANGED <<mail, cache, log>>,
         \/ /\ s = 1 /\ slice[1] \in Rows /\ Kept(slice, 1, slice[1].n)
            /\ table' = [table EXCEPT ![slice[1].key] = slice[1].n]
            /\ done' = done \union {slice[1].n} /\ UNCHANGED <<refused, fail>>
         \/ /\ refused' = refused \union {slice[i].n : i \in DOMAIN slice}
            /\ UNCHANGED <<table, done, fail>>
         \/ fail' = [fail EXCEPT ![p] = @ \o slice] /\ UNCHANGED <<table, done, refused>>
  PROVE  SyncInv'
<1>0. SyncTypes /\ WritesLogged /\ OnePlace /\ HeldLogged
  BY DEF SyncInv
<1>1. /\ batches' \in [Sync!Procs -> Seq(Seq(Rows))]
      /\ \A q \in Sync!Procs : q # p => batches'[q] = batches[q]
  <2>1. <<left>> \o Tail(batches[p]) \in Seq(Seq(Rows))
    BY <1>0 DEF SyncTypes
  <2> QED
    BY <1>0, <2>1 DEF SyncTypes
<1>2. /\ fail' \in [Sync!Procs -> Seq(Rows)]
      /\ \A q \in Sync!Procs : q # p => fail'[q] = fail[q]
  <2>1. fail[p] \o slice \in Seq(Rows)
    BY <1>0 DEF SyncTypes
  <2> QED
    BY <1>0, <2>1 DEF SyncTypes
<1>3. /\ Alone(p)' /\ \A n : HasRow(p, n)' => HasRow(p, n)
      /\ fail' = fail => \A j, n : Kept(slice, j, n) => HasRow(p, n) /\ ~HasRow(p, n)'
  <2>1. fail' = fail \/ fail' = [fail EXCEPT ![p] = @ \o slice]
    OBVIOUS
  <2> QED
    BY <1>0, <2>1, SliceTaken, Zenon
<1>4. WritesLogged'
  BY <1>0 DEF WritesLogged, Sync!ProcOf
<1>5. \A q \in Sync!Procs : q # p => /\ mail'[q] = mail[q] /\ cache'[q] = cache[q]
                                     /\ batches'[q] = batches[q] /\ fail'[q] = fail[q]
  BY <1>1, <1>2
<1>6. \A j, n : Kept(slice, j, n) /\ fail' = fail =>
        n \in DOMAIN log /\ ~HasRow(p, n)' /\ (log[n].op = "insert" => HasRow(p, n))
  BY <1>0, <1>3 DEF HeldLogged
<1>7. \A n : HasRow(p, n) => HasRow(p, n)' \/ (fail' = fail /\ \E j : Kept(slice, j, n))
  <2>1. fail' = fail \/ fail' = [fail EXCEPT ![p] = @ \o slice]
    OBVIOUS
  <2> QED
    BY <1>0, <2>1, SliceTakenOn, Zenon
<1>8. CASE /\ s = 1 /\ slice[1] \in Rows /\ Kept(slice, 1, slice[1].n)
           /\ table' = [table EXCEPT ![slice[1].key] = slice[1].n]
           /\ done' = done \union {slice[1].n} /\ UNCHANGED <<refused, fail>>
  <2>1. slice[1].n \in Nat
    BY <1>8 DEF Rows
  <2>2. SyncTypes'
    BY <1>0, <1>1, <1>8, <2>1 DEF SyncTypes
  <2>3. \A x \in Keys : table'[x] = table[x] \/ table'[x] = slice[1].n
    BY <1>0, <1>8 DEF SyncTypes
  <2>4. \A j, n : Kept(slice, j, n) => n = slice[1].n
    <3>1. \A j, n : Kept(slice, j, n) => j \in 1 .. 1
      BY <1>8
    <3>2. \A j, n : Kept(slice, j, n) => j = 1
      BY <3>1
    <3> QED
      BY <3>2 DEF Kept
  <2>5. \A n : HasRow(p, n) => HasRow(p, n)' \/ n = slice[1].n
    BY <1>7, <2>4, Zenon
  <2>6. slice[1].n \in DOMAIN log /\ ~HasRow(p, slice[1].n)' /\ (log[slice[1].n].op = "insert" => HasRow(p, slice[1].n))
    BY <1>6, <1>8
  <2>7. Settle(p, {}, {slice[1].n}, slice[1].n)
    BY <1>8, <2>3, <2>5, <2>6 DEF Settle
  <2> QED
    BY <1>3, <1>4, <1>5, <2>2, <2>7, StepKeeps, Zenon
<1>9. CASE /\ refused' = refused \union {slice[i].n : i \in DOMAIN slice}
           /\ UNCHANGED <<table, done, fail>>
  <2> DEFINE R == {slice[i].n : i \in DOMAIN slice}
  <2>1. \A n : n \in R <=> \E j : Kept(slice, j, n)
    BY DEF Kept
  <2>2. R \subseteq Nat
    <3>1. \A i \in DOMAIN slice : slice[i] \in Rows
      OBVIOUS
    <3>2. \A i \in DOMAIN slice : slice[i].n \in Nat
      BY <3>1 DEF Rows
    <3> QED
      BY <3>2
  <2> HIDE DEF R
  <2>3. refused' = refused \cup R /\ UNCHANGED <<table, done, fail>>
    BY <1>9 DEF R
  <2>4. SyncTypes'
    BY <1>0, <1>1, <2>2, <2>3 DEF SyncTypes
  <2>5. Settle(p, R, {}, 0)
    <3>1. \A n \in R : n \in DOMAIN log /\ ~HasRow(p, n)' /\ (log[n].op = "insert" => HasRow(p, n))
      BY <1>6, <2>1, <2>3
    <3>2. \A n : HasRow(p, n) => HasRow(p, n)' \/ n \in R
      BY <1>7, <2>1, Zenon
    <3> QED
      BY <2>3, <3>1, <3>2 DEF Settle
  <2> QED
    BY <1>3, <1>4, <1>5, <2>4, <2>5, StepKeeps, Zenon
<1>10. CASE fail' = [fail EXCEPT ![p] = @ \o slice] /\ UNCHANGED <<table, done, refused>>
  <2>1. SyncTypes'
    BY <1>0, <1>1, <1>2, <1>10 DEF SyncTypes
  <2>2. CASE fail' = fail
    <3>1. slice = <<>>
      <4>1. fail[p] \in Seq(Rows) /\ fail[p] = fail[p] \o slice
        BY <1>0, <1>10, <2>2 DEF SyncTypes
      <4>2. Len(fail[p] \o slice) = Len(fail[p]) + Len(slice) /\ Len(fail[p]) \in Nat /\ Len(slice) \in Nat
        BY <4>1
      <4> QED
        BY <4>1, <4>2
    <3>2. \A n : HasRow(p, n) => HasRow(p, n)'
      BY <1>7, <3>1 DEF Kept
    <3>3. Settle(p, {}, {}, 0)
      BY <1>10, <3>2 DEF Settle
    <3> QED
      BY <1>3, <1>4, <1>5, <2>1, <3>3, StepKeeps, Zenon
  <2>3. CASE fail' # fail
    <3>1. \A n : HasRow(p, n) => HasRow(p, n)'
      BY <1>7, <2>3, Zenon
    <3>2. Settle(p, {}, {}, 0)
      BY <1>10, <3>1 DEF Settle
    <3> QED
      BY <1>3, <1>4, <1>5, <2>1, <3>2, StepKeeps, Zenon
  <2> QED
    BY <2>2, <2>3
<1> QED
  BY <1>8, <1>9, <1>10

LEMMA InsertSliceKeeps ==
  ASSUME SyncInv, NEW p \in Sync!Procs, Sync!InsertSlice(p)
  PROVE  SyncInv'
<1> DEFINE rows == batches[p][1]
           s == IF Len(rows) < Slice THEN Len(rows) ELSE Slice
           slice == SubSeq(rows, 1, s)
           left == SubSeq(rows, s + 1, Len(rows))
<1>1. batches[p] # <<>> /\ rows # <<>> /\ rows \in Seq(Rows)
  <2>1. batches[p] # <<>> /\ rows # <<>>
    BY DEF Sync!InsertSlice
  <2>2. batches[p] \in Seq(Seq(Rows))
    BY DEF SyncInv, SyncTypes
  <2> QED
    BY <2>1, <2>2
<1>2. s \in Nat \ {0} /\ s <= Len(rows)
  <2>1. Len(rows) \in Nat \ {0} /\ Slice \in Nat \ {0}
    BY <1>1, SyncAssumption
  <2> QED
    BY <2>1
<1>3. /\ slice \in Seq(Rows) /\ left \in Seq(Rows)
      /\ slice[1] \in Rows /\ Kept(slice, 1, slice[1].n)
  BY <1>1, <1>2 DEF Kept
<1>4. \A j, n : /\ Kept(slice, j, n) <=> j \in 1 .. s /\ Kept(rows, j, n)
                /\ Kept(left, j, n) => j \in Nat \ {0} /\ Kept(rows, j + s, n)
                /\ Kept(rows, j, n) => j \in 1 .. s \/ Kept(left, j - s, n)
  <2>1. \A j, n : /\ Kept(slice, j, n) <=> j \in 1 .. s /\ Kept(rows, j, n)
                  /\ Kept(left, j, n) => j \in Nat \ {0} /\ Kept(rows, j + s, n)
    BY <1>1, <1>2, SliceRows, Zenon
  <2>2. \A j, n : Kept(rows, j, n) => j \in 1 .. s \/ Kept(left, j - s, n)
    BY <1>1, <1>2, SliceOn, Zenon
  <2> QED
    BY <2>1, <2>2, Zenon
<1>5. /\ batches' = [batches EXCEPT ![p] = <<left>> \o Tail(@)]
      /\ UNCHANGED <<mail, cache, log>>
      /\ \/ /\ s = 1
            /\ table' = [table EXCEPT ![slice[1].key] = slice[1].n]
            /\ done' = done \union {slice[1].n} /\ UNCHANGED <<refused, fail>>
         \/ /\ refused' = refused \union {slice[i].n : i \in DOMAIN slice}
            /\ UNCHANGED <<table, done, fail>>
         \/ fail' = [fail EXCEPT ![p] = @ \o slice] /\ UNCHANGED <<table, done, refused>>
  BY DEF Sync!InsertSlice
<1> HIDE DEF s, slice, left
<1> QED
  BY <1>1, <1>2, <1>3, <1>4, <1>5, SliceKeeps

LEMMA GiveBackKeeps ==
  ASSUME SyncInv, NEW p \in Sync!Procs, Sync!GiveBack(p)
  PROVE  SyncInv'
<1> DEFINE m == [op |-> "rows", rows |-> fail[p]]
<1>0. SyncTypes /\ WritesLogged /\ OnePlace
  BY DEF SyncInv
<1>1. /\ batches[p] # <<>> /\ batches[p][1] = <<>> /\ batches' = [batches EXCEPT ![p] = Tail(@)]
      /\ fail' = [fail EXCEPT ![p] = <<>>] /\ UNCHANGED <<cache, table, log, done, refused>>
      /\ \/ fail[p] = <<>> /\ mail' = mail
         \/ mail' = [mail EXCEPT ![p] = Append(@, m)]
  BY DEF Sync!GiveBack
<1>2. m \in Requests /\ m.op = "rows" /\ Sync!RowsIn(m) = fail[p]
  <2>1. m \in Requests
    BY <1>0 DEF SyncTypes, Requests
  <2> QED
    BY <2>1, RequestKinds
<1>3. /\ batches' \in [Sync!Procs -> Seq(Seq(Rows))]
      /\ fail' \in [Sync!Procs -> Seq(Rows)]
      /\ \A q \in Sync!Procs : q # p => batches'[q] = batches[q] /\ fail'[q] = fail[q]
  <2>1. Tail(batches[p]) \in Seq(Seq(Rows)) /\ <<>> \in Seq(Rows)
    BY <1>0, <1>1 DEF SyncTypes
  <2>2. batches' \in [Sync!Procs -> Seq(Seq(Rows))]
    BY <1>0, <1>1, <2>1 DEF SyncTypes
  <2>3. fail' \in [Sync!Procs -> Seq(Rows)]
    BY <1>0, <1>1, <2>1 DEF SyncTypes
  <2>4. \A q \in Sync!Procs : q # p => batches'[q] = batches[q] /\ fail'[q] = fail[q]
    BY <1>0, <1>1 DEF SyncTypes
  <2> QED
    BY <2>2, <2>3, <2>4
<1> HIDE DEF m
<1>4. /\ mail' \in [Sync!Procs -> Seq(Requests)]
      /\ \A q \in Sync!Procs : q # p => mail'[q] = mail[q]
      /\ \A i \in DOMAIN mail'[p] :
           \/ i \in DOMAIN mail[p] /\ mail'[p][i] = mail[p][i]
           \/ mail'[p][i].op = "rows"
  <2>1. CASE mail' = mail
    BY <1>0, <2>1 DEF SyncTypes
  <2>2. CASE mail' = [mail EXCEPT ![p] = Append(@, m)]
    <3>1. /\ mail' \in [Sync!Procs -> Seq(Requests)]
          /\ \A q \in Sync!Procs : q # p => mail'[q] = mail[q]
          /\ \A i \in DOMAIN mail'[p] :
               \/ i \in DOMAIN mail[p] /\ mail'[p][i] = mail[p][i]
               \/ i = Len(mail[p]) + 1 /\ mail'[p][i] = m
      BY <1>0, <1>2, <2>2, MailSent, ZenonT(60)
    <3> QED
      BY <1>2, <3>1
  <2> QED
    BY <1>1, <2>1, <2>2
<1>5. SyncTypes'
  BY <1>0, <1>1, <1>3, <1>4 DEF SyncTypes
<1>6. WritesLogged'
  <2>1. \A q \in Sync!Procs : \A i \in DOMAIN mail'[q] :
           \/ mail'[q][i].op \notin WriteOps
           \/ \E g \in DOMAIN mail[q] : mail'[q][i] = mail[q][g]
    BY <1>4 DEF WriteOps
  <2> QED
    BY <1>0, <1>1, <2>1, WritesStay
<1>7. Alone(p)' /\ \A n : HasRow(p, n)' => HasRow(p, n)
  BY <1>0, <1>1, <1>2, FailGiven
<1>8. \A q \in Sync!Procs : q # p => /\ mail'[q] = mail[q] /\ cache'[q] = cache[q]
                                     /\ batches'[q] = batches[q] /\ fail'[q] = fail[q]
  BY <1>1, <1>3, <1>4
<1>9. Settle(p, {}, {}, 0) /\ log' = log
  <2>1. \A n : HasRow(p, n) => HasRow(p, n)'
    BY <1>0, <1>1, <1>2, FailGivenOn
  <2> QED
    BY <1>1, <2>1 DEF Settle
<1> QED
  BY <1>5, <1>6, <1>7, <1>8, <1>9, StepKeeps, Zenon

LEMMA SyncStep ==
  ASSUME SyncInv, [Sync!Next]_(Sync!vars)
  PROVE  SyncInv'
<1>1. ASSUME NEW k \in Keys, Sync!Select(k) PROVE SyncInv'
  BY <1>1, SelectKeeps
<1>2. ASSUME NEW k \in Keys, NEW op \in {"insert", "update", "delete"}, Sync!Write(op, k) PROVE SyncInv'
  BY <1>2, WriteKeeps DEF WriteOps
<1>3. ASSUME NEW p \in Sync!Procs, Sync!Handle(p) PROVE SyncInv'
  BY <1>3, HandleKeeps
<1>4. ASSUME NEW p \in Sync!Procs, Sync!Flush(p) PROVE SyncInv'
  BY <1>4, FlushKeeps
<1>5. ASSUME NEW p \in Sync!Procs, Sync!InsertSlice(p) PROVE SyncInv'
  BY <1>5, InsertSliceKeeps
<1>6. ASSUME NEW p \in Sync!Procs, Sync!GiveBack(p) PROVE SyncInv'
  BY <1>6, GiveBackKeeps
<1>7. ASSUME UNCHANGED <<mail, cache, batches, fail, table, log, done, refused>> PROVE SyncInv'
  <2>1. SyncTypes'
    BY <1>7 DEF SyncInv, SyncTypes
  <2>2. \A p, k, i, j, n : Holds(p, k, i, j, n)' <=> Holds(p, k, i, j, n)
    BY <1>7 DEF Holds
  <2>3. \A p, n : HasRow(p, n)' <=> HasRow(p, n)
    BY <2>2 DEF HasRow
  <2>4. WritesLogged' /\ HeldLogged'
    BY <1>7, <2>3 DEF SyncInv, WritesLogged, HeldLogged, Sync!ProcOf
  <2>5. OnePlace'
    BY <2>2 DEF SyncInv, OnePlace, Alone
  <2>6. NotYet'
    BY <1>7, <2>3 DEF SyncInv, NotYet
  <2>7. Either' /\ TableLogged' /\ DoneLogged'
    BY <1>7 DEF SyncInv, Either, TableLogged, DoneLogged
  <2>8. NoneLost'
    BY <1>7, <2>3 DEF SyncInv, NoneLost, Sync!Procs
  <2> QED
    BY <2>1, <2>4, <2>5, <2>6, <2>7, <2>8 DEF SyncInv
<1>8. Sync!Connection => UNCHANGED <<mail, cache, batches, fail, table, log, done, refused>>
  BY DEF Sync!Connection
<1>9. UNCHANGED Sync!vars => UNCHANGED <<mail, cache, batches, fail, table, log, done, refused>>
  BY DEF Sync!vars
<1> QED
  BY <1>1, <1>2, <1>3, <1>4, <1>5, <1>6, <1>7, <1>8, <1>9 DEF Sync!Next

\* Where a row of DbSync!Places waits, by the predicate.
LEMMA PlaceHolds ==
  ASSUME NEW p, NEW n, NEW a \in Sync!Places(p, n)
  PROVE  \E k, i, j : a = <<k, i, j>> /\ Holds(p, k, i, j, n)
<1>1. CASE \E i \in DOMAIN mail[p] : \E j \in Sync!At(Sync!RowsIn(mail[p][i]), n) : a = <<"mail", i, j>>
  <2>1. PICK i \in DOMAIN mail[p] : \E j \in Sync!At(Sync!RowsIn(mail[p][i]), n) : a = <<"mail", i, j>>
    BY <1>1
  <2>2. PICK j \in Sync!At(Sync!RowsIn(mail[p][i]), n) : a = <<"mail", i, j>>
    BY <2>1
  <2>3. Holds(p, "mail", i, j, n)
    BY DEF Holds, Mailed, Kept, Sync!At
  <2> QED
    BY <2>2, <2>3
<1>2. CASE \E i \in DOMAIN batches[p] : \E j \in Sync!At(batches[p][i], n) : a = <<"worker", i, j>>
  <2>1. PICK i \in DOMAIN batches[p] : \E j \in Sync!At(batches[p][i], n) : a = <<"worker", i, j>>
    BY <1>2
  <2>2. PICK j \in Sync!At(batches[p][i], n) : a = <<"worker", i, j>>
    BY <2>1
  <2>3. Holds(p, "worker", i, j, n)
    BY DEF Holds, Batched, Kept, Sync!At
  <2> QED
    BY <2>2, <2>3
<1>3. CASE \E j \in Sync!At(cache[p], n) : a = <<"cache", 1, j>>
  <2>1. PICK j \in Sync!At(cache[p], n) : a = <<"cache", 1, j>>
    BY <1>3
  <2>2. Holds(p, "cache", 1, j, n)
    BY DEF Holds, Kept, Sync!At
  <2> QED
    BY <2>1, <2>2
<1>4. CASE \E j \in Sync!At(fail[p], n) : a = <<"fail", 1, j>>
  <2>1. PICK j \in Sync!At(fail[p], n) : a = <<"fail", 1, j>>
    BY <1>4
  <2>2. Holds(p, "fail", 1, j, n)
    BY DEF Holds, Kept, Sync!At
  <2> QED
    BY <2>1, <2>2
<1>5. \/ \E i \in DOMAIN mail[p] : a \in {<<"mail", i, j>> : j \in Sync!At(Sync!RowsIn(mail[p][i]), n)}
      \/ \E i \in DOMAIN batches[p] : a \in {<<"worker", i, j>> : j \in Sync!At(batches[p][i], n)}
      \/ a \in {<<"cache", 1, j>> : j \in Sync!At(cache[p], n)}
      \/ a \in {<<"fail", 1, j>> : j \in Sync!At(fail[p], n)}
  BY DEF Sync!Places
<1> QED
  BY <1>1, <1>2, <1>3, <1>4, <1>5

\* And conversely.
LEMMA HeldPlace ==
  ASSUME NEW p, NEW n, NEW k, NEW i, NEW j, Holds(p, k, i, j, n)
  PROVE  Sync!Places(p, n) # {}
<1>1. CASE k = "mail" /\ Mailed(mail[p], i, j, n)
  <2>1. i \in DOMAIN mail[p] /\ j \in Sync!At(Sync!RowsIn(mail[p][i]), n)
    BY <1>1 DEF Mailed, Kept, Sync!At
  <2>2. <<"mail", i, j>> \in Sync!Places(p, n)
    BY <2>1 DEF Sync!Places
  <2> QED
    BY <2>2
<1>2. CASE k = "worker" /\ Batched(batches[p], i, j, n)
  <2>1. i \in DOMAIN batches[p] /\ j \in Sync!At(batches[p][i], n)
    BY <1>2 DEF Batched, Kept, Sync!At
  <2>2. <<"worker", i, j>> \in Sync!Places(p, n)
    BY <2>1 DEF Sync!Places
  <2> QED
    BY <2>2
<1>3. CASE k = "cache" /\ Kept(cache[p], j, n)
  <2>1. j \in Sync!At(cache[p], n)
    BY <1>3 DEF Kept, Sync!At
  <2>2. <<"cache", 1, j>> \in Sync!Places(p, n)
    BY <2>1 DEF Sync!Places
  <2> QED
    BY <2>2
<1>4. CASE k = "fail" /\ Kept(fail[p], j, n)
  <2>1. j \in Sync!At(fail[p], n)
    BY <1>4 DEF Kept, Sync!At
  <2>2. <<"fail", 1, j>> \in Sync!Places(p, n)
    BY <2>1 DEF Sync!Places
  <2> QED
    BY <2>2
<1> QED
  BY <1>1, <1>2, <1>3, <1>4 DEF Holds

LEMMA RowOnce ==
  ASSUME SyncInv
  PROVE  Sync!InsertedOnce
<1> SUFFICES ASSUME NEW n \in DOMAIN log, log[n].op = "insert"
             PROVE  LET k == log[n].key
                        w == Sync!Places(Sync!ProcOf(k), n)
                    IN  /\ w # {} \/ n \in done \/ n \in refused
                        /\ \A a, b \in w : a = b
                        /\ w # {} => n \notin done /\ n \notin refused
                        /\ n \in refused => n \notin done
                        /\ table[k] = n => n \in done
  BY DEF Sync!InsertedOnce
<1> DEFINE k == log[n].key
           p == Sync!ProcOf(k)
           w == Sync!Places(p, n)
<1>0. SyncTypes /\ HeldLogged /\ OnePlace /\ NotYet /\ Either /\ TableLogged /\ NoneLost
  BY DEF SyncInv
<1>1. k \in Keys
  <2>1. log \in Seq([op : WriteOps, key : Keys])
    BY <1>0 DEF SyncTypes
  <2>2. ASSUME NEW S, log \in Seq(S) PROVE log[n] \in S
    BY <2>2
  <2>3. log[n] \in [op : WriteOps, key : Keys]
    BY <2>1, <2>2, Zenon
  <2> QED
    BY <2>3
<1>2. p \in Sync!Procs
  BY <1>1, OwnProcess
<1>3. n # 0 /\ \A q \in Sync!Procs : HasRow(q, n) => q = p
  BY <1>0 DEF SyncTypes, HeldLogged
<1> HIDE DEF k, p
<1>4. \A a \in w : \E h, i, j : a = <<h, i, j>> /\ Holds(p, h, i, j, n)
  BY PlaceHolds, Zenon
<1> HIDE DEF w
<1>5. \A a, b \in w : a = b
  <2> SUFFICES ASSUME NEW a \in w, NEW b \in w PROVE a = b
    OBVIOUS
  <2>1. PICK h, i, j : a = <<h, i, j>> /\ Holds(p, h, i, j, n)
    BY <1>4
  <2>2. PICK l, g, e : b = <<l, g, e>> /\ Holds(p, l, g, e, n)
    BY <1>4
  <2>3. h = l /\ i = g /\ j = e
    BY <1>0, <1>2, <2>1, <2>2 DEF OnePlace, Alone
  <2> QED
    BY <2>1, <2>2, <2>3
<1>6. w # {} => n \notin done /\ n \notin refused
  <2> SUFFICES ASSUME w # {} PROVE n \notin done /\ n \notin refused
    OBVIOUS
  <2>1. HasRow(p, n)
    BY <1>4 DEF HasRow
  <2> QED
    BY <1>0, <1>2, <2>1 DEF NotYet
<1>7. w # {} \/ n \in done \/ n \in refused
  <2> SUFFICES ASSUME n \notin done, n \notin refused PROVE w # {}
    OBVIOUS
  <2>1. PICK q \in Sync!Procs : HasRow(q, n)
    BY <1>0 DEF NoneLost
  <2>2. PICK h, i, j : Holds(p, h, i, j, n)
    BY <1>3, <2>1 DEF HasRow
  <2> QED
    BY <2>2, HeldPlace, Zenon DEF w
<1>8. (n \in refused => n \notin done) /\ (table[k] = n => n \in done)
  BY <1>0, <1>1, <1>3 DEF Either, TableLogged
<1> QED
  BY <1>5, <1>6, <1>7, <1>8 DEF w, p, k

-----------------------------------------------------------------------------
(* Without MODE_MULTI_INSERT the mailboxes hold all that is not done, in     *)
(* order, and the table is what the writes that are done have made of it.    *)
Direct ==
  \A p \in Sync!Procs : /\ cache[p] = <<>> /\ batches[p] = <<>> /\ fail[p] = <<>>
                        /\ \A i \in DOMAIN mail[p] : mail[p][i].op # "rows"
Owned == \A p \in Sync!Procs : \A i \in DOMAIN mail[p] : Sync!ProcOf(mail[p][i].key) = p
InOrder ==
  \A p \in Sync!Procs : \A i, j \in DOMAIN mail[p] :
    /\ mail[p][i].n <= Len(log)
    /\ i < j => mail[p][i].n <= mail[p][j].n
    /\ i < j /\ mail[p][j].op # "select" => mail[p][i].n < mail[p][j].n

Waiting(p, n) == \E i \in DOMAIN mail[p] : mail[p][i].op # "select" /\ mail[p][i].n = n
Done(k, i) == i \in DOMAIN log /\ log[i].key = k /\ ~Waiting(Sync!ProcOf(k), i)
Took(k, i) == Done(k, i) /\ i \notin refused

Behind ==
  \A k \in Keys : \A i : Done(k, i) => \A j \in DOMAIN mail[Sync!ProcOf(k)] : i <= mail[Sync!ProcOf(k)][j].n
RefusedDone == \A n \in refused : n \in DOMAIN log /\ Done(log[n].key, n)
Current ==
  \A k \in Keys :
    \/ table[k] = 0 /\ \A i : ~Took(k, i)
    \/ \E l : Took(k, l) /\ (\A i : Took(k, i) => i <= l) /\ table[k] = Sync!Row(log[l].op, l)

ReadInv == Direct /\ Owned /\ InOrder /\ Behind /\ RefusedDone /\ Current

LEMMA ReadInit ==
  ASSUME Sync!Init
  PROVE  ReadInv
<1> USE DEF Sync!Init
<1>1. \A p \in Sync!Procs : mail[p] = <<>> /\ cache[p] = <<>> /\ batches[p] = <<>> /\ fail[p] = <<>>
  OBVIOUS
<1>2. \A k, i : ~Done(k, i)
  BY DEF Done
<1>3. Direct /\ Owned /\ InOrder
  BY <1>1 DEF Direct, Owned, InOrder
<1>4. Behind /\ RefusedDone
  BY <1>2 DEF Behind, RefusedDone
<1>5. Current
  BY <1>2 DEF Current, Took
<1> QED
  BY <1>3, <1>4, <1>5 DEF ReadInv

LEMMA LogKeys ==
  ASSUME SyncTypes, NEW n \in DOMAIN log
  PROVE  log[n].key \in Keys /\ log[n].op \in WriteOps /\ n \in Nat \ {0} /\ n <= Len(log)
<1>1. log \in Seq([op : WriteOps, key : Keys])
  BY DEF SyncTypes
<1>2. ASSUME NEW S, log \in Seq(S) PROVE log[n] \in S /\ n \in Nat \ {0} /\ n <= Len(log)
  BY <1>2
<1>3. log[n] \in [op : WriteOps, key : Keys] /\ n \in Nat \ {0} /\ n <= Len(log)
  BY <1>1, <1>2, Zenon
<1> QED
  BY <1>3

\* The mailbox after a request was sent.
LEMMA MailGrows ==
  ASSUME SyncTypes, NEW p \in Sync!Procs, NEW m \in Requests,
         mail' = [mail EXCEPT ![p] = Append(@, m)]
  PROVE  /\ Len(mail[p]) + 1 \in DOMAIN mail'[p] /\ mail'[p][Len(mail[p]) + 1] = m
         /\ \A i \in DOMAIN mail[p] : i \in DOMAIN mail'[p] /\ mail'[p][i] = mail[p][i]
<1>1. mail[p] \in Seq(Requests) /\ mail'[p] = Append(mail[p], m)
  BY DEF SyncTypes
<1>2. /\ Len(mail[p]) + 1 \in DOMAIN Append(mail[p], m) /\ Append(mail[p], m)[Len(mail[p]) + 1] = m
      /\ \A i \in DOMAIN mail[p] : i \in DOMAIN Append(mail[p], m) /\ Append(mail[p], m)[i] = mail[p][i]
  BY <1>1
<1> QED
  BY <1>1, <1>2

\* What is known of the log when m is sent.
Sent(m) ==
  /\ Len(log) \in Nat /\ Len(log') \in Nat /\ Len(log) <= Len(log')
  /\ m.n \in Nat /\ Len(log) <= m.n /\ m.n <= Len(log')
  /\ m.op # "select" => Len(log) < m.n /\ log'[m.n].key = m.key
  /\ \A i \in DOMAIN log : i \in Nat /\ i <= Len(log) /\ i \in DOMAIN log' /\ log'[i] = log[i]
  /\ \A i \in DOMAIN log' : i \in DOMAIN log \/ (m.op # "select" /\ i = m.n)

LEMMA ReadSent ==
  ASSUME SyncTypes, ReadInv, NEW p \in Sync!Procs, NEW m \in Requests, m.op # "rows",
         Sync!ProcOf(m.key) = p, Sent(m), mail' = [mail EXCEPT ![p] = Append(@, m)],
         UNCHANGED <<cache, batches, fail, table, done, refused>>
  PROVE  ReadInv'
<1>0. Direct /\ Owned /\ InOrder /\ Behind /\ RefusedDone /\ Current
  BY DEF ReadInv
<1>1. /\ \A q \in Sync!Procs : q # p => mail'[q] = mail[q]
      /\ Len(mail[p]) \in Nat
      /\ \A i : i \in DOMAIN mail[p] => i \in Nat \ {0} /\ i <= Len(mail[p])
      /\ \A i \in DOMAIN mail'[p] :
           \/ i \in DOMAIN mail[p] /\ mail'[p][i] = mail[p][i]
           \/ i = Len(mail[p]) + 1 /\ mail'[p][i] = m
  <2>1. SyncTypes /\ mail' = [mail EXCEPT ![p] = Append(@, m)]
    BY <1>0
  <2> QED
    BY <2>1, MailSent, ZenonT(60)
<1>2. /\ Len(mail[p]) + 1 \in DOMAIN mail'[p] /\ mail'[p][Len(mail[p]) + 1] = m
      /\ \A i \in DOMAIN mail[p] : i \in DOMAIN mail'[p] /\ mail'[p][i] = mail[p][i]
  BY MailGrows, Zenon
<1>3. Direct'
  BY <1>0, <1>1 DEF Direct
<1>4. Owned'
  <2> SUFFICES ASSUME NEW q \in Sync!Procs, NEW i \in DOMAIN mail'[q]
               PROVE  Sync!ProcOf(mail'[q][i].key) = q
    BY DEF Owned, Sync!ProcOf
  <2>1. CASE q = p /\ mail'[q][i] = m
    BY <2>1
  <2>2. CASE i \in DOMAIN mail[q] /\ mail'[q][i] = mail[q][i]
    BY <1>0, <2>2 DEF Owned
  <2> QED
    BY <1>1, <2>1, <2>2
<1>5. \A q \in Sync!Procs : \A i \in DOMAIN mail[q] : mail[q][i].n \in Nat /\ mail[q][i].n <= Len(log)
  <2> SUFFICES ASSUME NEW q \in Sync!Procs, NEW i \in DOMAIN mail[q]
               PROVE  mail[q][i].n \in Nat /\ mail[q][i].n <= Len(log)
    OBVIOUS
  <2>1. mail[q] \in Seq(Requests)
    BY DEF SyncTypes
  <2>2. mail[q][i] \in Requests
    BY <2>1
  <2>3. mail[q][i].op # "rows" /\ mail[q][i].n <= Len(log)
    BY <1>0 DEF Direct, InOrder
  <2> QED
    BY <2>2, <2>3, RequestKinds
<1>6. InOrder'
  <2> SUFFICES ASSUME NEW q \in Sync!Procs, NEW i \in DOMAIN mail'[q], NEW j \in DOMAIN mail'[q]
               PROVE  /\ mail'[q][i].n <= Len(log')
                      /\ i < j => mail'[q][i].n <= mail'[q][j].n
                      /\ i < j /\ mail'[q][j].op # "select" => mail'[q][i].n < mail'[q][j].n
    BY DEF InOrder
  <2>1. CASE /\ i \in DOMAIN mail[q] /\ mail'[q][i] = mail[q][i]
             /\ j \in DOMAIN mail[q] /\ mail'[q][j] = mail[q][j]
    <3>1. /\ i < j => mail[q][i].n <= mail[q][j].n
          /\ i < j /\ mail[q][j].op # "select" => mail[q][i].n < mail[q][j].n
      BY <1>0, <2>1 DEF InOrder
    <3>2. mail[q][i].n <= Len(log')
      BY <1>5, <2>1 DEF Sent
    <3> QED
      BY <2>1, <3>1, <3>2
  <2>2. CASE i \in DOMAIN mail[q] /\ mail'[q][i] = mail[q][i] /\ mail'[q][j] = m
    BY <1>5, <2>2 DEF Sent
  <2>3. CASE q = p /\ i = Len(mail[p]) + 1 /\ mail'[q][i] = m
    <3>1. ~(i < j)
      BY <1>1, <2>3
    <3>2. m.n <= Len(log')
      BY DEF Sent
    <3> QED
      BY <2>3, <3>1, <3>2
  <2> QED
    BY <1>1, <2>1, <2>2, <2>3
<1>7. ASSUME NEW q \in Sync!Procs, NEW n
      PROVE  Waiting(q, n)' <=> (Waiting(q, n) \/ (q = p /\ m.op # "select" /\ n = m.n))
  <2>1. CASE q # p
    BY <1>1, <2>1 DEF Waiting
  <2>2. CASE q = p
    <3>1. Waiting(p, n)' => Waiting(p, n) \/ (m.op # "select" /\ n = m.n)
      BY <1>1 DEF Waiting
    <3>2. Waiting(p, n) => Waiting(p, n)'
      BY <1>2 DEF Waiting
    <3>3. m.op # "select" /\ n = m.n => Waiting(p, n)'
      BY <1>2 DEF Waiting
    <3> QED
      BY <2>2, <3>1, <3>2, <3>3
  <2> QED
    BY <2>1, <2>2
<1>8. ASSUME NEW k \in Keys, NEW i
      PROVE  Done(k, i)' <=> Done(k, i)
  <2>1. Sync!ProcOf(k) \in Sync!Procs
    BY OwnProcess
  <2>2. Waiting(Sync!ProcOf(k), i)' <=>
          (Waiting(Sync!ProcOf(k), i) \/ (Sync!ProcOf(k) = p /\ m.op # "select" /\ i = m.n))
    BY <1>7, <2>1
  <2>3. Done(k, i)' <=> i \in DOMAIN log' /\ log'[i].key = k /\ ~Waiting(Sync!ProcOf(k), i)'
    BY DEF Done, Sync!ProcOf
  <2>4. CASE i \in DOMAIN log
    <3>1. i # m.n \/ m.op = "select"
      BY <2>4 DEF Sent
    <3>2. i \in DOMAIN log' /\ log'[i] = log[i]
      BY <2>4 DEF Sent
    <3> QED
      BY <2>2, <2>3, <2>4, <3>1, <3>2 DEF Done
  <2>5. CASE i \notin DOMAIN log
    <3>1. ~Done(k, i)
      BY <2>5 DEF Done
    <3>2. ~Done(k, i)'
      <4> SUFFICES ASSUME i \in DOMAIN log', log'[i].key = k, ~Waiting(Sync!ProcOf(k), i)'
                   PROVE  FALSE
        BY <2>3
      <4>1. m.op # "select" /\ i = m.n
        BY <2>5 DEF Sent
      <4>2. log'[i].key = m.key
        BY <4>1 DEF Sent
      <4> QED
        BY <2>2, <4>1, <4>2
    <3> QED
      BY <3>1, <3>2
  <2> QED
    BY <2>4, <2>5
<1>9. Behind'
  <2> SUFFICES ASSUME NEW k \in Keys, NEW i, Done(k, i), NEW j \in DOMAIN mail'[Sync!ProcOf(k)]
               PROVE  i <= mail'[Sync!ProcOf(k)][j].n
    BY <1>8 DEF Behind, Sync!ProcOf
  <2>1. i \in Nat /\ i <= Len(log)
    BY DEF Done, Sent
  <2>2. CASE mail'[Sync!ProcOf(k)][j] = m
    BY <2>1, <2>2 DEF Sent
  <2>3. CASE /\ j \in DOMAIN mail[Sync!ProcOf(k)]
             /\ mail'[Sync!ProcOf(k)][j] = mail[Sync!ProcOf(k)][j]
    BY <1>0, <2>3 DEF Behind
  <2>4. Sync!ProcOf(k) \in Sync!Procs
    BY OwnProcess
  <2> QED
    BY <1>1, <2>2, <2>3, <2>4
<1>10. \A i : i \in DOMAIN log => log'[i] = log[i] /\ i \in DOMAIN log'
  BY DEF Sent
<1>11. RefusedDone'
  <2> SUFFICES ASSUME NEW n \in refused PROVE (n \in DOMAIN log /\ Done(log[n].key, n))'
    BY DEF RefusedDone, Done
  <2>1. n \in DOMAIN log /\ Done(log[n].key, n)
    BY <1>0 DEF RefusedDone
  <2>2. log[n].key \in Keys
    BY <2>1, LogKeys
  <2>3. PICK k \in Keys : k = log[n].key
    BY <2>2
  <2>4. Done(k, n)'
    BY <1>8, <2>1, <2>3
  <2> QED
    BY <1>10, <2>1, <2>3, <2>4 DEF Done, Waiting, Sync!ProcOf
<1>12. Current'
  <2> SUFFICES ASSUME NEW k \in Keys
               PROVE  \/ table'[k] = 0 /\ \A i : ~Took(k, i)'
                      \/ \E l : /\ Took(k, l)' /\ (\A i : Took(k, i)' => i <= l)
                                /\ table'[k] = Sync!Row(log'[l].op, l)
    BY DEF Current, Sync!Row
  <2>1. \A i : Took(k, i)' <=> Took(k, i)
    BY <1>8 DEF Took
  <2>2. \A l : Took(k, l) => log'[l] = log[l]
    BY <1>10 DEF Took, Done
  <2> QED
    BY <1>0, <2>1, <2>2 DEF Current
<1> QED
  BY <1>3, <1>4, <1>6, <1>9, <1>11, <1>12 DEF ReadInv

LEMMA MailShrinks ==
  ASSUME SyncTypes, NEW p \in Sync!Procs, mail[p] # <<>>, mail' = [mail EXCEPT ![p] = Tail(@)]
  PROVE  \A i \in DOMAIN mail[p] :
           /\ i \in Nat \ {0}
           /\ i = 1 \/ (i - 1 \in DOMAIN mail'[p] /\ mail'[p][i - 1] = mail[p][i])
<1>1. mail[p] \in Seq(Requests) /\ mail'[p] = Tail(mail[p])
  BY DEF SyncTypes
<1>2. \A i \in DOMAIN mail[p] :
        /\ i \in Nat \ {0}
        /\ i = 1 \/ (i - 1 \in DOMAIN Tail(mail[p]) /\ Tail(mail[p])[i - 1] = mail[p][i])
  BY <1>1
<1> QED
  BY <1>1, <1>2

\* What is left in a mailbox whose head was taken is in order.
LEMMA ReadOrder ==
  ASSUME SyncTypes, Direct, Owned, InOrder, NEW p \in Sync!Procs, mail[p] # <<>>,
         mail' = [mail EXCEPT ![p] = Tail(@)], UNCHANGED <<cache, batches, fail, log>>
  PROVE  Direct' /\ Owned' /\ InOrder'
<1>1. /\ \A q \in Sync!Procs : q # p => mail'[q] = mail[q]
      /\ \A i \in DOMAIN mail'[p] :
           i \in Nat \ {0} /\ i + 1 \in DOMAIN mail[p] /\ mail'[p][i] = mail[p][i + 1]
  BY MailTaken, Zenon
<1>2. Direct'
  BY <1>1 DEF Direct
<1>3. Owned'
  BY <1>1 DEF Owned, Sync!ProcOf
<1>4. InOrder'
  <2> SUFFICES ASSUME NEW q \in Sync!Procs, NEW i \in DOMAIN mail'[q], NEW j \in DOMAIN mail'[q]
               PROVE  /\ mail'[q][i].n <= Len(log)
                      /\ i < j => mail'[q][i].n <= mail'[q][j].n
                      /\ i < j /\ mail'[q][j].op # "select" => mail'[q][i].n < mail'[q][j].n
    BY DEF InOrder
  <2>1. CASE q # p
    BY <1>1, <2>1 DEF InOrder
  <2>2. CASE q = p
    <3>1. /\ i \in Nat /\ j \in Nat /\ i + 1 \in DOMAIN mail[p] /\ j + 1 \in DOMAIN mail[p]
          /\ mail'[p][i] = mail[p][i + 1] /\ mail'[p][j] = mail[p][j + 1]
      BY <1>1, <2>2
    <3>2. /\ mail[p][i + 1].n <= Len(log)
          /\ i + 1 < j + 1 => mail[p][i + 1].n <= mail[p][j + 1].n
          /\ i + 1 < j + 1 /\ mail[p][j + 1].op # "select" => mail[p][i + 1].n < mail[p][j + 1].n
      BY <3>1 DEF InOrder
    <3>3. i < j <=> i + 1 < j + 1
      BY <3>1
    <3> QED
      BY <2>2, <3>1, <3>2, <3>3
  <2> QED
    BY <2>1, <2>2
<1> QED
  BY <1>2, <1>3, <1>4

LEMMA SelectRead ==
  ASSUME SyncTypes, ReadInv, NEW p \in Sync!Procs, mail[p] # <<>>, mail[p][1].op = "select",
         mail' = [mail EXCEPT ![p] = Tail(@)],
         UNCHANGED <<cache, batches, fail, table, log, done, refused>>
  PROVE  ReadInv'
<1>0. Direct /\ Owned /\ InOrder /\ Behind /\ RefusedDone /\ Current
  BY DEF ReadInv
<1>1. /\ \A q \in Sync!Procs : q # p => mail'[q] = mail[q]
      /\ \A i \in DOMAIN mail'[p] :
           i \in Nat \ {0} /\ i + 1 \in DOMAIN mail[p] /\ mail'[p][i] = mail[p][i + 1]
  BY MailTaken, Zenon
<1>2. \A i \in DOMAIN mail[p] :
        i = 1 \/ (i - 1 \in DOMAIN mail'[p] /\ mail'[p][i - 1] = mail[p][i])
  BY MailShrinks, Zenon
<1>3. Direct' /\ Owned' /\ InOrder'
  BY <1>0, ReadOrder
<1>4. ASSUME NEW q \in Sync!Procs, NEW n
      PROVE  Waiting(q, n)' <=> Waiting(q, n)
  <2>1. CASE q # p
    BY <1>1, <2>1 DEF Waiting
  <2>2. CASE q = p
    <3>1. Waiting(p, n)' => Waiting(p, n)
      BY <1>1 DEF Waiting
    <3>2. Waiting(p, n) => Waiting(p, n)'
      BY <1>2 DEF Waiting
    <3> QED
      BY <2>2, <3>1, <3>2
  <2> QED
    BY <2>1, <2>2
<1>5. ASSUME NEW k \in Keys, NEW i
      PROVE  Done(k, i)' <=> Done(k, i)
  <2>1. Waiting(Sync!ProcOf(k), i)' <=> Waiting(Sync!ProcOf(k), i)
    BY <1>4, OwnProcess
  <2> QED
    BY <2>1 DEF Done, Sync!ProcOf
<1>6. Behind'
  <2> SUFFICES ASSUME NEW k \in Keys, NEW i, Done(k, i), NEW j \in DOMAIN mail'[Sync!ProcOf(k)]
               PROVE  i <= mail'[Sync!ProcOf(k)][j].n
    BY <1>5 DEF Behind, Sync!ProcOf
  <2>1. Sync!ProcOf(k) \in Sync!Procs
    BY OwnProcess
  <2>2. \E g \in DOMAIN mail[Sync!ProcOf(k)] : mail'[Sync!ProcOf(k)][j] = mail[Sync!ProcOf(k)][g]
    BY <1>1, <2>1
  <2> QED
    BY <1>0, <2>2 DEF Behind
<1>7. RefusedDone'
  <2> SUFFICES ASSUME NEW n \in refused PROVE (n \in DOMAIN log /\ Done(log[n].key, n))'
    BY DEF RefusedDone
  <2>1. n \in DOMAIN log /\ Done(log[n].key, n)
    BY <1>0 DEF RefusedDone
  <2>2. log[n].key \in Keys
    BY <2>1, LogKeys
  <2>3. PICK k \in Keys : k = log[n].key
    BY <2>2
  <2>4. Done(k, n)'
    BY <1>5, <2>1, <2>3
  <2> QED
    BY <2>1, <2>3, <2>4 DEF Done, Waiting, Sync!ProcOf
<1>8. Current'
  <2> SUFFICES ASSUME NEW k \in Keys
               PROVE  \/ table[k] = 0 /\ \A i : ~Took(k, i)'
                      \/ \E l : /\ Took(k, l)' /\ (\A i : Took(k, i)' => i <= l)
                                /\ table[k] = Sync!Row(log[l].op, l)
    BY DEF Current, Sync!Row
  <2>1. \A i : Took(k, i)' <=> Took(k, i)
    BY <1>5 DEF Took
  <2> QED
    BY <1>0, <2>1 DEF Current
<1> QED
  BY <1>3, <1>6, <1>7, <1>8 DEF ReadInv

LEMMA WriteRead ==
  ASSUME SyncTypes, WritesLogged, ReadInv, NEW p \in Sync!Procs, mail[p] # <<>>,
         NEW m, m = mail[p][1], m.op \in WriteOps,
         mail' = [mail EXCEPT ![p] = Tail(@)], UNCHANGED <<cache, batches, fail, log>>,
         \/ table' = [table EXCEPT ![m.key] = Sync!Row(m.op, m.n)] /\ UNCHANGED refused
         \/ refused' = refused \union {m.n} /\ UNCHANGED table
  PROVE  ReadInv'
<1>0. Direct /\ Owned /\ InOrder /\ Behind /\ RefusedDone /\ Current
  BY DEF ReadInv
<1>1. /\ mail[p][1] \in Requests /\ 1 \in DOMAIN mail[p]
      /\ \A q \in Sync!Procs : q # p => mail'[q] = mail[q]
      /\ \A i \in DOMAIN mail'[p] :
           i \in Nat \ {0} /\ i + 1 \in DOMAIN mail[p] /\ mail'[p][i] = mail[p][i + 1]
  BY MailTaken, Zenon
<1>2. \A i \in DOMAIN mail[p] :
        i \in Nat \ {0} /\ (i = 1 \/ (i - 1 \in DOMAIN mail'[p] /\ mail'[p][i - 1] = mail[p][i]))
  BY MailShrinks, Zenon
<1>3. Direct' /\ Owned' /\ InOrder'
  BY <1>0, ReadOrder
<1>4. m.op # "select" /\ m.op # "rows" /\ m.key \in Keys /\ m.n \in Nat
  <2>1. m.op # "select" /\ m.op # "rows"
    BY DEF WriteOps
  <2> QED
    BY <1>1, <2>1, RequestKinds
<1>5. m.n \in DOMAIN log /\ log[m.n] = [op |-> m.op, key |-> m.key] /\ Sync!ProcOf(m.key) = p
  BY <1>1 DEF WritesLogged
<1>6. Waiting(p, m.n)
  BY <1>1, <1>4 DEF Waiting
<1>7. ~Done(m.key, m.n) /\ m.n \notin refused
  <2>1. ~Done(m.key, m.n)
    BY <1>5, <1>6 DEF Done
  <2>2. log[m.n].key = m.key
    BY <1>5
  <2> QED
    BY <1>0, <2>1, <2>2 DEF RefusedDone
<1>8. \A i \in DOMAIN mail[p] : i > 1 /\ mail[p][i].op # "select" => mail[p][i].n # m.n
  <2> SUFFICES ASSUME NEW i \in DOMAIN mail[p], i > 1, mail[p][i].op # "select", mail[p][i].n = m.n
               PROVE  FALSE
    OBVIOUS
  <2>1. mail[p][1].n < mail[p][i].n
    BY <1>0, <1>1 DEF InOrder
  <2> QED
    BY <1>4, <2>1
<1>9. ASSUME NEW q \in Sync!Procs, NEW n
      PROVE  Waiting(q, n)' <=> Waiting(q, n) /\ ~(q = p /\ n = m.n)
  <2>1. CASE q # p
    BY <1>1, <2>1 DEF Waiting
  <2>2. CASE q = p
    <3>1. Waiting(p, n)' => Waiting(p, n) /\ n # m.n
      <4> SUFFICES ASSUME NEW i \in DOMAIN mail'[p], mail'[p][i].op # "select", mail'[p][i].n = n
                   PROVE  Waiting(p, n) /\ n # m.n
        BY DEF Waiting
      <4>1. i + 1 \in DOMAIN mail[p] /\ i + 1 > 1 /\ mail[p][i + 1] = mail'[p][i]
        BY <1>1
      <4> QED
        BY <1>8, <4>1 DEF Waiting
    <3>2. Waiting(p, n) /\ n # m.n => Waiting(p, n)'
      BY <1>2 DEF Waiting
    <3> QED
      BY <2>2, <3>1, <3>2
  <2> QED
    BY <2>1, <2>2
<1>10. ASSUME NEW k \in Keys, NEW i
       PROVE  Done(k, i)' <=> Done(k, i) \/ (k = m.key /\ i = m.n)
  <2>1. Waiting(Sync!ProcOf(k), i)' <=>
          Waiting(Sync!ProcOf(k), i) /\ ~(Sync!ProcOf(k) = p /\ i = m.n)
    BY <1>9, OwnProcess
  <2>2. Done(k, i)' <=> i \in DOMAIN log /\ log[i].key = k /\ ~Waiting(Sync!ProcOf(k), i)'
    BY DEF Done, Sync!ProcOf
  <2>3. log[m.n].key = m.key
    BY <1>5
  <2> QED
    BY <1>5, <2>1, <2>2, <2>3 DEF Done
<1>11. \A i : Done(m.key, i) => i <= m.n
  BY <1>0, <1>1, <1>4, <1>5 DEF Behind
<1>12. Behind'
  <2> SUFFICES ASSUME NEW k \in Keys, NEW i, Done(k, i) \/ (k = m.key /\ i = m.n),
                      NEW j \in DOMAIN mail'[Sync!ProcOf(k)]
               PROVE  i <= mail'[Sync!ProcOf(k)][j].n
    BY <1>10 DEF Behind, Sync!ProcOf
  <2>1. Sync!ProcOf(k) \in Sync!Procs
    BY OwnProcess
  <2>2. CASE Done(k, i)
    <3>1. \E g \in DOMAIN mail[Sync!ProcOf(k)] : mail'[Sync!ProcOf(k)][j] = mail[Sync!ProcOf(k)][g]
      BY <1>1, <2>1
    <3> QED
      BY <1>0, <2>2, <3>1 DEF Behind
  <2>3. CASE k = m.key /\ i = m.n
    <3>1. j \in Nat \ {0} /\ j + 1 \in DOMAIN mail[p] /\ mail'[p][j] = mail[p][j + 1]
      BY <1>1, <1>5, <2>3
    <3>2. mail[p][1].n <= mail[p][j + 1].n
      <4>1. 1 < j + 1
        BY <3>1
      <4> QED
        BY <1>0, <1>1, <3>1, <4>1 DEF InOrder
    <3> QED
      BY <1>5, <2>3, <3>1, <3>2
  <2> QED
    BY <2>2, <2>3
<1>13. RefusedDone'
  <2> SUFFICES ASSUME NEW n \in refused \cup {m.n}
               PROVE  (n \in DOMAIN log /\ Done(log[n].key, n))'
    BY DEF RefusedDone
  <2>1. n \in DOMAIN log /\ (Done(log[n].key, n) \/ (log[n].key = m.key /\ n = m.n))
    BY <1>0, <1>5 DEF RefusedDone
  <2>2. log[n].key \in Keys
    BY <2>1, LogKeys
  <2>3. PICK k \in Keys : k = log[n].key
    BY <2>2
  <2>4. Done(k, n)'
    BY <1>10, <2>1, <2>3
  <2> QED
    BY <2>1, <2>3, <2>4 DEF Done, Waiting, Sync!ProcOf
<1>14. Current'
  <2> SUFFICES ASSUME NEW k \in Keys
               PROVE  \/ table'[k] = 0 /\ \A i : ~Took(k, i)'
                      \/ \E l : /\ Took(k, l)' /\ (\A i : Took(k, i)' => i <= l)
                                /\ table'[k] = Sync!Row(log[l].op, l)
    BY DEF Current, Sync!Row
  <2>1. CASE table' = [table EXCEPT ![m.key] = Sync!Row(m.op, m.n)] /\ UNCHANGED refused
    <3>1. \A i : Took(k, i)' <=> Took(k, i) \/ (k = m.key /\ i = m.n)
      BY <1>7, <1>10, <2>1 DEF Took
    <3>2. CASE k = m.key
      <4>1. table'[k] = Sync!Row(m.op, m.n) /\ log[m.n].op = m.op
        BY <1>5, <2>1, <3>2 DEF SyncTypes
      <4>2. Took(k, m.n)' /\ \A i : Took(k, i)' => i <= m.n
        BY <1>4, <1>11, <3>1, <3>2 DEF Took
      <4> QED
        BY <4>1, <4>2
    <3>3. CASE k # m.key
      <4>1. table'[k] = table[k]
        BY <2>1, <3>3 DEF SyncTypes
      <4>2. \A i : Took(k, i)' <=> Took(k, i)
        BY <3>1, <3>3
      <4> QED
        BY <1>0, <4>1, <4>2 DEF Current
    <3> QED
      BY <3>2, <3>3
  <2>2. CASE refused' = refused \union {m.n} /\ UNCHANGED table
    <3>1. \A i : Took(k, i)' <=> Took(k, i)
      <4>1. \A i : Done(k, i) /\ i = m.n => k = m.key
        BY <1>5 DEF Done
      <4> QED
        BY <1>7, <1>10, <2>2, <4>1 DEF Took
    <3> QED
      BY <1>0, <2>2, <3>1 DEF Current
  <2> QED
    BY <2>1, <2>2
<1> QED
  BY <1>3, <1>12, <1>13, <1>14 DEF ReadInv

LEMMA ReadStep ==
  ASSUME SyncInv, ~multi, ReadInv, [Sync!Next]_(Sync!vars)
  PROVE  ReadInv'
<1>0. SyncTypes /\ WritesLogged /\ Direct
  BY DEF SyncInv, ReadInv
<1>1. ASSUME NEW k \in Keys, Sync!Select(k) PROVE ReadInv'
  <2> DEFINE m == [op |-> "select", key |-> k, n |-> Len(log)]
  <2>1. Sync!ProcOf(k) \in Sync!Procs
    BY OwnProcess
  <2>2. Len(log) \in Nat /\ \A i \in DOMAIN log : i \in Nat /\ i <= Len(log)
    BY <1>0 DEF SyncTypes
  <2>3. m \in Requests
    BY <2>2 DEF Requests
  <2>4. /\ mail' = [mail EXCEPT ![Sync!ProcOf(k)] = Append(@, m)]
        /\ UNCHANGED <<cache, batches, fail, table, log, done, refused>>
    BY <1>1 DEF Sync!Select
  <2>5. PICK r \in Requests : r = m
    BY <2>3
  <2>6. Sent(r)
    BY <2>2, <2>4, <2>5 DEF Sent
  <2> HIDE DEF m
  <2>7. r.op # "rows" /\ r.key = k
    BY <2>5 DEF m
  <2>8. mail' = [mail EXCEPT ![Sync!ProcOf(k)] = Append(@, r)]
    BY <2>4, <2>5
  <2> QED
    BY <1>0, <2>1, <2>4, <2>6, <2>7, <2>8, ReadSent
<1>2. ASSUME NEW k \in Keys, NEW op \in {"insert", "update", "delete"}, Sync!Write(op, k) PROVE ReadInv'
  <2> DEFINE m == [op |-> op, key |-> k, n |-> Len(log) + 1]
  <2>1. Sync!ProcOf(k) \in Sync!Procs
    BY OwnProcess
  <2>2. /\ Len(log) \in Nat /\ DOMAIN log = 1 .. Len(log) /\ log \in Seq([op : WriteOps, key : Keys])
        /\ op \in WriteOps
    BY <1>0 DEF SyncTypes, WriteOps
  <2>3. m \in Requests
    BY <2>2 DEF Requests
  <2>4. /\ mail' = [mail EXCEPT ![Sync!ProcOf(k)] = Append(@, m)]
        /\ log' = Append(log, [op |-> op, key |-> k])
        /\ UNCHANGED <<cache, batches, fail, table, done, refused>>
    BY <1>2 DEF Sync!Write
  <2>5. PICK r \in Requests : r = m
    BY <2>3
  <2>6. Sent(r)
    <3>1. /\ Len(log') = Len(log) + 1 /\ DOMAIN log' = 1 .. Len(log) + 1
          /\ log'[Len(log) + 1] = [op |-> op, key |-> k]
          /\ \A i \in 1 .. Len(log) : log'[i] = log[i]
      BY <2>2, <2>4
    <3>2. r.n = Len(log) + 1 /\ r.key = k /\ r.op # "select"
      BY <2>5
    <3>3. log'[r.n].key = r.key
      BY <3>1, <3>2
    <3>4. \A i \in DOMAIN log : i \in Nat /\ i <= Len(log) /\ i \in DOMAIN log' /\ log'[i] = log[i]
      BY <2>2, <3>1
    <3>5. \A i \in DOMAIN log' : i \in DOMAIN log \/ i = r.n
      BY <2>2, <3>1, <3>2
    <3>6. Len(log) \in Nat /\ Len(log') = Len(log) + 1
      BY <2>2, <3>1
    <3> QED
      BY <3>2, <3>3, <3>4, <3>5, <3>6 DEF Sent
  <2> HIDE DEF m
  <2>7. r.op # "rows" /\ r.key = k
    BY <2>5 DEF m
  <2>8. mail' = [mail EXCEPT ![Sync!ProcOf(k)] = Append(@, r)]
    BY <2>4, <2>5
  <2> QED
    BY <1>0, <2>1, <2>4, <2>6, <2>7, <2>8, ReadSent
<1>3. ASSUME NEW p \in Sync!Procs, Sync!Handle(p) PROVE ReadInv'
  <2>1. /\ mail[p] # <<>> /\ mail' = [mail EXCEPT ![p] = Tail(@)]
        /\ UNCHANGED <<batches, fail, log>>
    BY <1>3 DEF Sync!Handle
  <2>2. mail[p][1] \in Requests /\ 1 \in DOMAIN mail[p]
    BY <1>0, <2>1, MailTaken
  <2>3. PICK m \in Requests : m = mail[p][1]
    BY <2>2
  <2>4. m.op \in WriteOps \cup {"select"}
    <3>1. m.op # "rows"
      BY <1>0, <2>2, <2>3 DEF Direct
    <3> QED
      BY <3>1, RequestKinds
  <2>5. CASE m.op = "select"
    <3>1. UNCHANGED <<cache, table, done, refused>>
      BY <1>3, <2>3, <2>5 DEF Sync!Handle
    <3> QED
      BY <1>0, <2>1, <2>3, <2>5, <3>1, SelectRead
  <2>6. CASE m.op \in WriteOps
    <3>1. Sync!Exec(m) /\ UNCHANGED cache
      BY <1>3, <2>3, <2>6 DEF Sync!Handle, WriteOps
    <3>2. \/ table' = [table EXCEPT ![m.key] = Sync!Row(m.op, m.n)] /\ UNCHANGED refused
          \/ refused' = refused \union {m.n} /\ UNCHANGED table
      BY <3>1 DEF Sync!Exec
    <3> QED
      BY <1>0, <2>1, <2>3, <2>6, <3>1, <3>2, WriteRead
  <2> QED
    BY <2>4, <2>5, <2>6
<1>4. ASSUME NEW p \in Sync!Procs, Sync!Flush(p) \/ Sync!InsertSlice(p) \/ Sync!GiveBack(p) PROVE FALSE
  <2>1. batches[p] = <<>>
    BY <1>0 DEF Direct
  <2> QED
    BY <1>4, <2>1 DEF Sync!Flush, Sync!InsertSlice, Sync!GiveBack
<1>5. ASSUME UNCHANGED <<mail, cache, batches, fail, table, log, done, refused>> PROVE ReadInv'
  <2>1. \A q, n : Waiting(q, n)' <=> Waiting(q, n)
    BY <1>5 DEF Waiting
  <2>2. \A k, i : Done(k, i)' <=> Done(k, i)
    BY <1>5, <2>1 DEF Done, Sync!ProcOf
  <2>3. \A k, i : Took(k, i)' <=> Took(k, i)
    BY <1>5, <2>2 DEF Took
  <2>4. Direct' /\ Owned' /\ InOrder'
    BY <1>5 DEF ReadInv, Direct, Owned, InOrder, Sync!ProcOf
  <2>5. Behind'
    BY <1>5, <2>2 DEF ReadInv, Behind, Sync!ProcOf
  <2>6. RefusedDone'
    BY <1>5 DEF ReadInv, RefusedDone, Done, Waiting, Sync!ProcOf
  <2>7. Current'
    BY <1>5, <2>3 DEF ReadInv, Current, Sync!Row
  <2> QED
    BY <2>4, <2>5, <2>6, <2>7 DEF ReadInv
<1>6. Sync!Connection => UNCHANGED <<mail, cache, batches, fail, table, log, done, refused>>
  BY DEF Sync!Connection
<1>7. UNCHANGED Sync!vars => UNCHANGED <<mail, cache, batches, fail, table, log, done, refused>>
  BY DEF Sync!vars
<1> QED
  BY <1>1, <1>2, <1>3, <1>4, <1>5, <1>6, <1>7 DEF Sync!Next

\* What the database answers to a select that is taken.
LEMMA SelectCurrent ==
  ASSUME SyncTypes, ReadInv, NEW p \in Sync!Procs, mail[p] # <<>>, NEW m, m = mail[p][1],
         m.op = "select"
  PROVE  table[m.key] = Sync!RowAfter(m.key, m.n)
<1> DEFINE k == m.key
           mine == {i \in 1 .. m.n : log[i].key = k /\ i \notin refused}
           last == CHOOSE i \in mine : \A j \in mine : j <= i
<1>0. Owned /\ InOrder /\ Behind /\ Current
  BY DEF ReadInv
<1>1. 1 \in DOMAIN mail[p] /\ m \in Requests
  <2>1. mail[p] \in Seq(Requests)
    BY DEF SyncTypes
  <2> QED
    BY <2>1
<1>2. k \in Keys /\ m.n \in Nat
  BY <1>1, RequestKinds
<1>3. Sync!ProcOf(k) = p /\ m.n <= Len(log)
  BY <1>0, <1>1 DEF Owned, InOrder
<1>4. \A i : i \in mine <=> Took(k, i)
  <2> SUFFICES ASSUME NEW i PROVE i \in mine <=> Took(k, i)
    OBVIOUS
  <2>1. ASSUME Took(k, i) PROVE i \in mine
    <3>1. i \in DOMAIN log /\ log[i].key = k /\ i \notin refused
      BY <2>1 DEF Took, Done
    <3>2. i \in Nat \ {0}
      BY <3>1, LogKeys
    <3>3. i <= m.n
      BY <1>0, <1>1, <1>2, <1>3, <2>1 DEF Behind, Took
    <3> QED
      BY <1>2, <3>1, <3>2, <3>3
  <2>2. ASSUME i \in mine PROVE Took(k, i)
    <3>1. i \in Nat \ {0} /\ i <= m.n /\ log[i].key = k /\ i \notin refused
      BY <1>2, <2>2
    <3>2. i \in DOMAIN log
      <4>1. DOMAIN log = 1 .. Len(log) /\ Len(log) \in Nat
        BY DEF SyncTypes
      <4> QED
        BY <1>2, <1>3, <3>1, <4>1
    <3>3. ~Waiting(p, i)
      <4> SUFFICES ASSUME NEW j \in DOMAIN mail[p], mail[p][j].op # "select", mail[p][j].n = i
                   PROVE  FALSE
        BY DEF Waiting
      <4>1. j \in Nat \ {0} /\ j # 1
        BY DEF SyncTypes
      <4>2. 1 < j
        BY <4>1
      <4>3. mail[p][1].n < mail[p][j].n
        BY <1>0, <1>1, <4>2 DEF InOrder
      <4> QED
        BY <1>2, <3>1, <4>3
    <3> QED
      BY <1>3, <3>1, <3>2, <3>3 DEF Took, Done
  <2> QED
    BY <2>1, <2>2
<1>5. mine \subseteq Nat
  BY <1>2
<1> HIDE DEF mine
<1>6. table[k] = IF mine = {} THEN 0 ELSE Sync!Row(log[last].op, last)
  <2>1. CASE table[k] = 0 /\ \A i : ~Took(k, i)
    BY <1>4, <2>1
  <2>2. CASE \E l : Took(k, l) /\ (\A i : Took(k, i) => i <= l) /\ table[k] = Sync!Row(log[l].op, l)
    <3>1. PICK l : Took(k, l) /\ (\A i : Took(k, i) => i <= l) /\ table[k] = Sync!Row(log[l].op, l)
      BY <2>2
    <3>2. l \in mine /\ \A j \in mine : j <= l
      BY <1>4, <3>1
    <3>3. last \in mine /\ \A j \in mine : j <= last
      BY <3>2, Zenon
    <3>4. last = l
      <4>1. last <= l /\ l <= last /\ last \in Nat /\ l \in Nat
        BY <1>5, <3>2, <3>3
      <4> QED
        BY <4>1
    <3> QED
      BY <3>1, <3>2, <3>4
  <2> QED
    BY <1>0, <1>2, <2>1, <2>2 DEF Current
<1> QED
  BY <1>6 DEF Sync!RowAfter, mine

\* RowAfter, of any log and refusals.
After(l, r, k, n) ==
  LET mine == {i \in 1 .. n : l[i].key = k /\ i \notin r}
      last == CHOOSE i \in mine : \A j \in mine : j <= i
  IN  IF mine = {} THEN 0 ELSE Sync!Row(l[last].op, last)

\* Every step but that of a select answers nothing.
LEMMA ReadAnswers ==
  ASSUME SyncInv, ~multi => ReadInv, Sync!ReadsWrites, [Sync!Next]_(Sync!vars)
  PROVE  Sync!ReadsWrites'
<1> SUFFICES ASSUME ~multi' PROVE \A i \in DOMAIN read' : (read[i].row = Sync!RowAfter(read[i].key, read[i].upto))'
  BY DEF Sync!ReadsWrites
<1>1. CASE read' = <<>>
  BY <1>1
<1>2. CASE UNCHANGED Sync!vars
  <2>1. UNCHANGED <<multi, read, log, refused>>
    BY <1>2 DEF Sync!vars
  <2> QED
    BY <2>1 DEF Sync!ReadsWrites, Sync!RowAfter, Sync!Row
<1>3. CASE \E p \in Sync!Procs : Sync!Handle(p)
  <2>1. PICK p \in Sync!Procs : Sync!Handle(p)
    BY <1>3
  <2>2. mail[p] # <<>> /\ UNCHANGED <<multi, log>>
    BY <2>1 DEF Sync!Handle
  <2>3. PICK m : m = mail[p][1]
    OBVIOUS
  <2>4. CASE m.op = "select" /\ up
    <3>1. UNCHANGED refused /\ read' = <<[key |-> m.key, row |-> table[m.key], upto |-> m.n]>>
      BY <2>1, <2>3, <2>4 DEF Sync!Handle
    <3>2. SyncTypes /\ ReadInv
      BY <2>2 DEF SyncInv
    <3>3. table[m.key] = Sync!RowAfter(m.key, m.n)
      BY <2>2, <2>3, <2>4, <3>2, SelectCurrent
    <3>4. \A i \in DOMAIN read' : read'[i] = [key |-> m.key, row |-> table[m.key], upto |-> m.n]
      BY <3>1
    <3> SUFFICES ASSUME NEW i \in DOMAIN read'
                 PROVE  (read[i].row = Sync!RowAfter(read[i].key, read[i].upto))'
      OBVIOUS
    <3>5. read'[i].row = table[m.key] /\ read'[i].key = m.key /\ read'[i].upto = m.n
      BY <3>4
    <3> QED
      <4>1. table[m.key] = After(log, refused, m.key, m.n)
        BY <3>3 DEF Sync!RowAfter, After
      <4>2. Sync!RowAfter(read[i].key, read[i].upto)' = After(log', refused', read'[i].key, read'[i].upto)
        BY DEF Sync!RowAfter, After, Sync!Row
      <4> QED
        BY <2>2, <3>1, <3>5, <4>1, <4>2
  <2>5. CASE ~(m.op = "select" /\ up)
    <3>1. read' = <<>>
      BY <2>1, <2>3, <2>5 DEF Sync!Handle
    <3> QED
      BY <3>1
  <2> QED
    BY <2>4, <2>5
<1>4. CASE Sync!Connection
  BY <1>1, <1>4 DEF Sync!Connection
<1>5. CASE \E p \in Sync!Procs : Sync!Flush(p) \/ Sync!InsertSlice(p) \/ Sync!GiveBack(p)
  BY <1>1, <1>5 DEF Sync!Flush, Sync!InsertSlice, Sync!GiveBack
<1>6. CASE \E k \in Keys : Sync!Select(k) \/ \E op \in {"insert", "update", "delete"} : Sync!Write(op, k)
  BY <1>1, <1>6 DEF Sync!Select, Sync!Write
<1> QED
  BY <1>2, <1>3, <1>4, <1>5, <1>6 DEF Sync!Next

LEMMA ModeKept == [Sync!Next]_(Sync!vars) => multi' = multi
BY DEF Sync!Next, Sync!vars, Sync!Select, Sync!Write, Sync!Handle, Sync!Flush, Sync!InsertSlice,
       Sync!GiveBack, Sync!Connection

(***************************************************************************)
(* db_sync.go: when inserts are not kept, a select is answered with the    *)
(* row that the writes made before it have left, refused ones aside; and   *)
(* in both modes every insert waits in one place, or is done, or refused.  *)
(***************************************************************************)
THEOREM RowsAreRight == Sync!Spec => [](Sync!InsertedOnce /\ Sync!ReadsWrites /\ RowsRight)
<1> DEFINE Inv == SyncInv /\ (~multi => ReadInv) /\ Sync!ReadsWrites
<1>1. Sync!Init => Inv
  <2>1. Sync!Init => Sync!ReadsWrites
    BY DEF Sync!Init, Sync!ReadsWrites
  <2> QED
    BY <2>1, SyncInit, ReadInit
<1>2. Inv /\ [Sync!Next]_(Sync!vars) => Inv'
  <2> SUFFICES ASSUME Inv, [Sync!Next]_(Sync!vars) PROVE Inv'
    OBVIOUS
  <2>1. SyncInv'
    BY SyncStep
  <2>2. (~multi => ReadInv)'
    BY ModeKept, ReadStep
  <2>3. Sync!ReadsWrites'
    BY ReadAnswers
  <2> QED
    BY <2>1, <2>2, <2>3
<1>3. Inv => Sync!InsertedOnce /\ Sync!ReadsWrites /\ RowsRight
  BY RowOnce DEF RowsRight
<1> QED
  BY <1>1, <1>2, <1>3, PTL DEF Sync!Spec

-----------------------------------------------------------------------------
(* BufWriter *)

\* A prefix and what is behind it.
LEMMA CutSeq ==
  ASSUME NEW s \in Seq(Int), NEW k \in 0 .. Len(s)
  PROVE  /\ Writer!First(s, k) \in Seq(Int) /\ Len(Writer!First(s, k)) = k
         /\ Writer!From(s, k) \in Seq(Int) /\ Len(Writer!From(s, k)) = Len(s) - k
         /\ Writer!First(s, k) \o Writer!From(s, k) = s
  <1>1. Len(s) \in Nat /\ \A i \in 1 .. Len(s) : s[i] \in Int
    BY LenProperties, ElementOfSeq
  <1>2. Writer!First(s, k) \in Seq(Int) /\ Len(Writer!First(s, k)) = k
    BY <1>1, SubSeqProperties DEF Writer!First
  <1>3. Writer!From(s, k) \in Seq(Int) /\ Len(Writer!From(s, k)) = Len(s) - k
    BY <1>1, SubSeqProperties DEF Writer!From
  <1>4. SubSeq(s, 1, k) \o SubSeq(s, k + 1, Len(s)) = SubSeq(s, 1, Len(s))
    <2>1. 1 \in 1 .. Len(s) + 1 /\ k \in 1 - 1 .. Len(s) /\ Len(s) \in k .. Len(s)
      BY <1>1
    <2> QED
      BY <2>1, ConcatAdjacentSubSeq
  <1>5. SubSeq(s, 1, Len(s)) = s
    BY SubSeqFull
  <1> QED
    BY <1>2, <1>3, <1>4, <1>5 DEF Writer!First, Writer!From

\* The concatenation of numbers is associative.
LEMMA Regroup ==
  ASSUME NEW s \in Seq(Int), NEW t \in Seq(Int), NEW u \in Seq(Int)
  PROVE  (s \o t) \o u = s \o (t \o u)
  <1> DEFINE a == (s \o t) \o u
             b == s \o (t \o u)
  <1>1. Len(s) \in Nat /\ Len(t) \in Nat /\ Len(u) \in Nat
    BY LenProperties
  <1>2. /\ s \o t \in Seq(Int) /\ Len(s \o t) = Len(s) + Len(t)
        /\ \A i \in 1 .. Len(s) + Len(t) : (s \o t)[i] = IF i <= Len(s) THEN s[i] ELSE t[i - Len(s)]
    BY ConcatProperties
  <1>3. /\ t \o u \in Seq(Int) /\ Len(t \o u) = Len(t) + Len(u)
        /\ \A i \in 1 .. Len(t) + Len(u) : (t \o u)[i] = IF i <= Len(t) THEN t[i] ELSE u[i - Len(t)]
    BY ConcatProperties
  <1>4. /\ a \in Seq(Int) /\ Len(a) = Len(s \o t) + Len(u)
        /\ \A i \in 1 .. Len(s \o t) + Len(u) :
             a[i] = IF i <= Len(s \o t) THEN (s \o t)[i] ELSE u[i - Len(s \o t)]
    BY <1>2, ConcatProperties
  <1>5. /\ b \in Seq(Int) /\ Len(b) = Len(s) + Len(t \o u)
        /\ \A i \in 1 .. Len(s) + Len(t \o u) :
             b[i] = IF i <= Len(s) THEN s[i] ELSE (t \o u)[i - Len(s)]
    BY <1>3, ConcatProperties
  <1> HIDE DEF a, b
  <1>6. ASSUME NEW i \in 1 .. Len(a)
        PROVE  a[i] = b[i]
    <2>1. i \in Int /\ 1 <= i /\ i <= Len(s) + Len(t) + Len(u)
      BY <1>1, <1>2, <1>4
    <2>2. CASE i <= Len(s)
      <3>1. (s \o t)[i] = s[i]
        BY <1>1, <1>2, <2>1, <2>2
      <3>2. a[i] = s[i]
        BY <1>1, <1>2, <1>4, <2>1, <2>2, <3>1
      <3>3. b[i] = s[i]
        BY <1>1, <1>3, <1>5, <2>1, <2>2
      <3> QED
        BY <3>2, <3>3
    <2>3. CASE i > Len(s) /\ i <= Len(s) + Len(t)
      <3>0. (s \o t)[i] = t[i - Len(s)]
        BY <1>1, <1>2, <2>1, <2>3
      <3>1. a[i] = t[i - Len(s)]
        BY <1>1, <1>2, <1>4, <2>1, <2>3, <3>0
      <3>2. (t \o u)[i - Len(s)] = t[i - Len(s)]
        BY <1>1, <1>3, <2>1, <2>3
      <3>3. b[i] = t[i - Len(s)]
        BY <1>1, <1>3, <1>5, <2>1, <2>3, <3>2
      <3> QED
        BY <3>1, <3>3
    <2>4. CASE i > Len(s) + Len(t)
      <3>1. a[i] = u[i - (Len(s) + Len(t))]
        BY <1>1, <1>2, <1>4, <2>1, <2>4
      <3>2. (t \o u)[i - Len(s)] = u[i - (Len(s) + Len(t))]
        BY <1>1, <1>3, <2>1, <2>4
      <3>3. b[i] = u[i - (Len(s) + Len(t))]
        BY <1>1, <1>3, <1>5, <2>1, <2>4, <3>2
      <3> QED
        BY <3>1, <3>3
    <2> QED
      BY <1>1, <2>1, <2>2, <2>3, <2>4
  <1>7. Len(a) = Len(b)
    BY <1>1, <1>2, <1>3, <1>4, <1>5
  <1>8. a = b
    BY <1>4, <1>5, <1>6, <1>7, SeqEqual
  <1> QED
    BY <1>8 DEF a, b

(* The buffer is within its slice, and the order of the bytes is the one    *)
(* they were written in.  An array as long as the slice has room for what   *)
(* the loop leaves.                                                         *)
WriterInv ==
  /\ buffered \in Seq(Int) /\ written \in Seq(Int) /\ taken \in Seq(Int) /\ unwritten \in Seq(Int)
  /\ Len(buffered) <= WriterSize
  /\ Writer!WriterFaithful

\* What copy takes is a part of the rest that the slice has room for.
LEMMA RoomFits ==
  ASSUME WriterInv
  PROVE  /\ Writer!Room \in 0 .. Len(unwritten)
         /\ Len(buffered) + Writer!Room <= WriterSize
         /\ WriterSize = Capacity /\ Len(unwritten) <= Writer!Available => Writer!Room = Len(unwritten)
  <1> DEFINE b == Len(buffered)
             r == Len(unwritten)
  <1>1. r \in Nat /\ b \in Nat
    BY LenProperties DEF WriterInv
  <1>2. b <= WriterSize /\ WriterSize \in Nat /\ Capacity \in Nat
    BY SizeAssumption DEF WriterInv
  <1>3. Writer!Room = (IF r < WriterSize - b THEN r ELSE WriterSize - b)
    BY DEF Writer!Room, Writer!Least
  <1>4. Writer!Available = Capacity - b
    BY DEF Writer!Available
  <1> HIDE DEF b, r
  <1>5. /\ Writer!Room \in 0 .. r /\ b + Writer!Room <= WriterSize
        /\ WriterSize = Capacity /\ r <= Writer!Available => Writer!Room = r
    BY <1>1, <1>2, <1>3, <1>4
  <1> QED
    BY <1>5 DEF b, r

\* What a call takes goes behind what was taken.
LEMMA TakesPart ==
  ASSUME WriterInv, NEW n \in 0 .. Len(unwritten), Writer!Take(n)
  PROVE  /\ unwritten' \in Seq(Int) /\ taken' \in Seq(Int)
         /\ Writer!First(unwritten, n) \in Seq(Int) /\ Len(Writer!First(unwritten, n)) = n
         /\ taken' = written \o (buffered \o Writer!First(unwritten, n))
  <1>1. unwritten \in Seq(Int) /\ taken \in Seq(Int) /\ buffered \in Seq(Int) /\ written \in Seq(Int)
        /\ written \o buffered = taken
    BY DEF WriterInv, Writer!WriterFaithful
  <1>2. /\ Writer!First(unwritten, n) \in Seq(Int) /\ Len(Writer!First(unwritten, n)) = n
        /\ Writer!From(unwritten, n) \in Seq(Int)
    BY <1>1, CutSeq
  <1>3. taken' = taken \o Writer!First(unwritten, n) /\ unwritten' = Writer!From(unwritten, n)
    BY DEF Writer!Take
  <1>4. taken' \in Seq(Int)
    BY <1>1, <1>2, <1>3, ConcatProperties
  <1>5. (written \o buffered) \o Writer!First(unwritten, n)
          = written \o (buffered \o Writer!First(unwritten, n))
    <2>1. /\ written \in Seq(Int) /\ buffered \in Seq(Int)
          /\ Writer!First(unwritten, n) \in Seq(Int)
      BY <1>1, <1>2
    <2> QED
      BY <2>1, Regroup, Zenon
  <1> QED
    BY <1>1, <1>2, <1>3, <1>4, <1>5

\* A flush moves bytes from the buffer to the connection and keeps their order.
LEMMA FlushMoves ==
  ASSUME NEW s \in Seq(Int), NEW k \in 0 .. Len(s), written \in Seq(Int), Writer!Flushed(s, k)
  PROVE  /\ written' \in Seq(Int) /\ buffered' \in Seq(Int) /\ Len(buffered') <= Len(s)
         /\ written' \o buffered' = written \o s
  <1>1. /\ Writer!First(s, k) \in Seq(Int) /\ Writer!From(s, k) \in Seq(Int)
        /\ Len(Writer!From(s, k)) = Len(s) - k /\ Writer!First(s, k) \o Writer!From(s, k) = s
    BY CutSeq
  <1>2. written' = written \o Writer!First(s, k) /\ buffered' = Writer!From(s, k)
    BY DEF Writer!Flushed
  <1>3. written' \in Seq(Int)
    BY <1>1, <1>2, ConcatProperties
  <1>4. (written \o Writer!First(s, k)) \o Writer!From(s, k)
          = written \o (Writer!First(s, k) \o Writer!From(s, k))
    BY <1>1, Regroup, Zenon
  <1>5. Len(buffered') <= Len(s)
    BY <1>1, <1>2, LenProperties
  <1> QED
    BY <1>1, <1>2, <1>3, <1>4, <1>5

\* Every step of the writer keeps the bytes in order.
LEMMA WriterStep ==
  ASSUME WriterInv, [Writer!Next]_(Writer!vars)
  PROVE  WriterInv'
  <1> USE DEF WriterInv, Writer!WriterFaithful
  <1>0. Len(unwritten) \in Nat /\ Len(buffered) \in Nat /\ WriterSize \in Nat
    BY LenProperties, SizeAssumption
  <1>1. ASSUME NEW n \in Lengths, Writer!Write(n)
        PROVE  WriterInv'
    <2>1. n \in Nat /\ Len(taken) \in Nat
      BY SizeAssumption, LenProperties
    <2>2. Writer!Bytes(Len(taken), n) \in Seq(Int)
      <3>1. Writer!Bytes(Len(taken), n) = [k \in 1 .. n |-> Len(taken) + k]
        BY DEF Writer!Bytes
      <3>2. \A k \in 1 .. n : Len(taken) + k \in Int
        BY <2>1
      <3> QED
        BY <2>1, <3>1, <3>2, IsASeq
    <2> QED
      BY <1>1, <2>2 DEF Writer!Write
  <1>2. ASSUME NEW k \in 0 .. Len(unwritten), Writer!Direct(k)
        PROVE  WriterInv'
    <2>1. /\ unwritten' \in Seq(Int) /\ taken' \in Seq(Int) /\ Writer!First(unwritten, k) \in Seq(Int)
          /\ taken' = written \o (buffered \o Writer!First(unwritten, k))
      BY <1>2, TakesPart DEF Writer!Direct
    <2>2. /\ buffered = <<>> /\ buffered' = <<>> /\ short' = short
          /\ written' = written \o Writer!First(unwritten, k)
      BY <1>2 DEF Writer!Direct
    <2>3. written' \in Seq(Int)
      BY <2>1, <2>2, ConcatProperties
    <2>4. buffered \o Writer!First(unwritten, k) = Writer!First(unwritten, k)
          /\ written' \o buffered' = written'
      BY <2>1, <2>2, <2>3, ConcatEmptySeq
    <2> QED
      BY <2>1, <2>2, <2>3, <2>4
  <1>3. ASSUME NEW k \in 0 .. (Len(buffered) + Writer!Room), Writer!Fill(k)
        PROVE  WriterInv'
    <2> DEFINE s == buffered \o Writer!First(unwritten, Writer!Room)
    <2>1. Writer!Room \in 0 .. Len(unwritten) /\ Len(buffered) + Writer!Room <= WriterSize
      BY RoomFits
    <2>2. /\ unwritten' \in Seq(Int) /\ taken' \in Seq(Int)
          /\ Writer!First(unwritten, Writer!Room) \in Seq(Int)
          /\ Len(Writer!First(unwritten, Writer!Room)) = Writer!Room
          /\ taken' = written \o s
      BY <1>3, <2>1, TakesPart DEF Writer!Fill
    <2>3. s \in Seq(Int) /\ Len(s) = Len(buffered) + Writer!Room
      BY <2>2, ConcatProperties
    <2>4. Writer!Flushed(s, k) /\ short' = short
      BY <1>3 DEF Writer!Fill
    <2>5. k \in 0 .. Len(s)
      BY <2>3
    <2> HIDE DEF s
    <2>6. /\ written' \in Seq(Int) /\ buffered' \in Seq(Int) /\ Len(buffered') <= Len(s)
          /\ written' \o buffered' = written \o s
      BY <2>3, <2>4, <2>5, FlushMoves
    <2>7. Len(buffered') <= WriterSize
      BY <1>0, <2>1, <2>3, <2>6, LenProperties
    <2> QED
      BY <2>2, <2>4, <2>6, <2>7
  <1>4. CASE Writer!Fail
    BY <1>4 DEF Writer!Fail
  <1>5. CASE Writer!Fits
    <2> DEFINE s == buffered \o Writer!First(unwritten, Writer!Room)
    <2>1. /\ Writer!Room \in 0 .. Len(unwritten) /\ Len(buffered) + Writer!Room <= WriterSize
          /\ WriterSize = Capacity /\ Len(unwritten) <= Writer!Available => Writer!Room = Len(unwritten)
      BY RoomFits
    <2>2. /\ unwritten' \in Seq(Int) /\ taken' \in Seq(Int)
          /\ Writer!First(unwritten, Writer!Room) \in Seq(Int)
          /\ Len(Writer!First(unwritten, Writer!Room)) = Writer!Room
          /\ taken' = written \o s
      BY <1>5, <2>1, TakesPart DEF Writer!Fits
    <2>3. s \in Seq(Int) /\ Len(s) = Len(buffered) + Writer!Room
      BY <2>2, ConcatProperties
    <2>4. buffered' = s /\ written' = written /\ Len(unwritten) <= Writer!Available
          /\ short' = (short \/ Writer!Room < Len(unwritten))
      BY <1>5 DEF Writer!Fits
    <2>5. WriterSize = Capacity => ~short'
      <3>1. WriterSize = Capacity => ~(Writer!Room < Len(unwritten))
        BY <1>0, <2>1, <2>4
      <3>2. WriterSize = Capacity => ~short
        OBVIOUS
      <3> QED
        BY <2>4, <3>1, <3>2, Zenon
    <2> QED
      BY <2>1, <2>2, <2>3, <2>4, <2>5
  <1>6. ASSUME NEW k \in 0 .. Len(buffered), Writer!Flush(k)
        PROVE  WriterInv'
    <2>1. /\ written' \in Seq(Int) /\ buffered' \in Seq(Int) /\ Len(buffered') <= Len(buffered)
          /\ written' \o buffered' = written \o buffered
      BY <1>6, FlushMoves DEF Writer!Flush
    <2>2. taken' = taken /\ short' = short /\ unwritten' = unwritten
      BY <1>6 DEF Writer!Flush
    <2>3. Len(buffered') <= WriterSize
      BY <1>0, <2>1, LenProperties
    <2> QED
      BY <2>1, <2>2, <2>3
  <1>7. CASE UNCHANGED Writer!vars
    BY <1>7 DEF Writer!vars
  <1> QED
    BY <1>1, <1>2, <1>3, <1>4, <1>5, <1>6, <1>7 DEF Writer!Next

(* What the connection got and what is still buffered are, in order, the    *)
(* bytes Write said it took, and a Write takes less than it was given only  *)
(* with an error, whatever the size of the buffer, the lengths of the       *)
(* writes and what the connection takes of each (Write and Flush of         *)
(* src/bpool/writer.go).                                                    *)
THEOREM WritesAll == Writer!Spec => [](Writer!WriterFaithful /\ WriterFaithful)
  <1>1. Writer!Init => WriterInv
    <2> SUFFICES ASSUME Writer!Init
                 PROVE  WriterInv
      OBVIOUS
    <2>1. <<>> \in Seq(Int) /\ Len(<<>>) = 0 /\ <<>> \o <<>> = <<>>
      BY EmptySeq, ConcatEmptySeq
    <2> QED
      BY <2>1, SizeAssumption DEF Writer!Init, WriterInv, Writer!WriterFaithful
  <1>2. WriterInv /\ [Writer!Next]_(Writer!vars) => WriterInv'
    BY WriterStep
  <1>3. WriterInv => Writer!WriterFaithful /\ WriterFaithful
    BY DEF WriterInv, WriterFaithful
  <1> QED
    BY <1>1, <1>2, <1>3, PTL DEF Writer!Spec

(* Applications and the end of the program.                                  *)
Working == {"alive", "sweeping", "leaving"}
Notices == [t : {"info", "exit"}, x : Apps!Pids] \cup [t : {"stop"}, x : AppNames]
             \cup [t : {"init"}, x : {None}]
JobStages == {"idle", "start", "restart", "refused", "failed", "starting", "restarting", "stored", "done"}
Jobs == [at : JobStages, name : AppNames \cup {None}, pid : Apps!Pids \cup {None}]

AppTypes ==
  /\ kind \in [Apps!Pids -> {"none", "sup", "child", "plain"}]
  /\ state \in [Apps!Pids -> Working \cup {"init", "dying", "dead"}]
  /\ parent \in [Apps!Pids -> Apps!Pids \cup {None}]
  /\ appMaps \in [AppNames -> Apps!Pids \cup {Apps!Nil, None}]
  /\ appMail \in Seq(Notices) /\ apps \in Seq(Apps!Pids) /\ toStop \in Seq(Apps!Pids \cup {0})
  /\ job \in [Starters -> Jobs]

EndTypes ==
  /\ stage \in {"running", "apps", "walk", "stopped"} /\ visited \in Apps!Pids \cup {None}
  /\ listed \subseteq Apps!Pids /\ walk \subseteq Apps!Pids
  /\ aliveThen \subseteq Apps!Pids /\ appsThen \subseteq Apps!Pids

\* Pids are used in turn, and nothing waits for one that was not used.
Turn == \E m \in 0 .. MaxPids : \A p \in Apps!Pids : kind[p] = "none" <=> p > m
Unborn ==
  \A p \in Apps!Pids : kind[p] = "none" =>
    state[p] = "dead" /\ p \notin aliveThen \cup appsThen /\ visited # p

\* A supervisor has no child that starts unless it handles messages, and none
\* that works when it has ended.
Family ==
  \A c \in Apps!Pids : parent[c] # None =>
    /\ kind[c] = "child" /\ kind[parent[c]] = "sup"
    /\ state[c] = "init" => state[parent[c]] \in {"alive", "leaving"}
    /\ state[parent[c]] = "dead" => state[c] \in {"dying", "dead"}

\* What the starters have started, and what is stored of it.
HasPid == {"starting", "restarting", "stored", "done"}
JobRight(s) ==
  /\ job[s].pid # None <=> job[s].at \in HasPid
  /\ job[s].at # "idle" => job[s].name \in AppNames
  /\ job[s].pid # None =>
       /\ kind[job[s].pid] = "sup"
       /\ state[job[s].pid] = "init" <=> job[s].at \in {"starting", "restarting"}
       /\ \A n \in AppNames : appMaps[n] = job[s].pid => n = job[s].name /\ job[s].at \in {"stored", "done"}
OwnPid(s) == \A t \in Starters : job[s].pid = job[t].pid /\ job[s].pid # None => s = t
JobsRight == \A s \in Starters : JobRight(s) /\ OwnPid(s)
MapsRight ==
  /\ \A n \in AppNames : appMaps[n] \in Apps!Pids => \E s \in Starters : job[s].pid = appMaps[n]
  /\ \A p \in names : p \in Apps!Pids /\ \E s \in Starters : job[s].pid = p

\* The application actor knows, or is told of, what is stored.
Told(q, i, p) == i \in DOMAIN q /\ q[i].t = "info" /\ q[i].x = p
AppsKnown ==
  \A s \in Starters, n \in AppNames :
    job[s].at = "done" /\ appMaps[n] = job[s].pid => (\E i : Told(appMail, i, job[s].pid)) \/ In(apps, job[s].pid)

\* InitStop asks it once.
IsInit(q, i) == i \in DOMAIN q /\ q[i].t = "init"
AskedOnce ==
  /\ \A i, j : IsInit(appMail, i) /\ IsInit(appMail, j) => i = j
  /\ (\E i : IsInit(appMail, i)) => stage # "running" /\ toStop = <<>>
  /\ toStop # <<>> => stage # "running"

\* What InitStop has found alive, and what still is alive before the walk.
Before(q, p) == \E i, j : i < j /\ Told(q, i, p) /\ IsInit(q, j)
Found == \A p \in aliveThen \cup appsThen : state[p] # "init"
Stopping ==
  \A p \in appsThen, n \in AppNames : appMaps[n] = p /\ state[p] = "alive" /\ ~gaveUp =>
    /\ stage = "apps"
    /\ \/ Before(appMail, p)
       \/ (\E i : IsInit(appMail, i)) /\ In(apps, p)
       \/ In(toStop, p)
       \/ busy = p

\* The walk of the init server.
Walks == stage \in {"walk", "stopped"}
Ahead(p) == p \in walk \/ visited = p
Listing == stage \in {"running", "apps"} => \A p \in Apps!Pids : state[p] \in Working \cup {"init"} => p \in listed
Walking ==
  /\ visited # None => state[visited] # "init"
  /\ stage = "stopped" => walk = {} /\ visited = None
  /\ Walks => \A p \in aliveThen : state[p] \in Working => Ahead(p)
  /\ Walks => \A c \in Apps!Pids : parent[c] \in aliveThen /\ state[c] \in Working \cup {"init"} =>
       Ahead(c) \/ Ahead(parent[c]) \/ hasty

EndInv ==
  /\ AppTypes /\ EndTypes /\ Turn /\ Unborn /\ Family /\ JobsRight /\ MapsRight /\ AppsKnown
  /\ AskedOnce /\ Found /\ Stopping /\ Listing /\ Walking

\* A process is a number from 1, so neither nil nor None.
LEMMA PidFacts ==
  /\ Apps!Pids \subseteq Nat \ {0} /\ None \notin Apps!Pids /\ 0 \notin Apps!Pids
  /\ Apps!Nil \notin Apps!Pids /\ Apps!Nil # None
BY PidAssumption DEF Apps!Pids, Apps!Nil

(* How processes live: one begins, one goes on to its next state, or neither. *)
Begun(p, k, q) ==
  /\ kind[p] = "none" /\ k \in {"sup", "child", "plain"} /\ Turn'
  /\ kind' = [kind EXCEPT ![p] = k] /\ state' = [state EXCEPT ![p] = "init"]
  /\ parent' = [parent EXCEPT ![p] = q]
  /\ listed' = IF stage \in {"running", "apps"} THEN listed \cup {p} ELSE listed
  /\ q = None \/ (q \in Apps!Pids /\ k = "child" /\ kind[q] = "sup" /\ state[q] \in {"alive", "leaving"})

Idle(p) == \A c \in Apps!Pids : parent[c] = p => state[c] # "init"
Ended(p) == \A c \in Apps!Pids : parent[c] = p => state[c] \notin Working
StartedBy(p) == \E s \in Starters : job[s].pid = p /\ (Apps!AppStarted(s) \/ Apps!AppRestarted(s))
Moved(p, x) ==
  /\ state' = [state EXCEPT ![p] = x] /\ UNCHANGED <<kind, parent>>
  /\ \/ x = "alive" /\ state[p] = "init" /\ listed' = listed /\ (kind[p] = "sup" => StartedBy(p))
     \/ x = "sweeping" /\ state[p] \in Working /\ Idle(p) /\ listed' = listed
     \/ x = "leaving" /\ state[p] = "sweeping" /\ listed' = listed
     \/ x = "dying" /\ state[p] \in Working /\ Idle(p) /\ listed' \in {listed, listed \ {p}}
     \/ x = "dead" /\ state[p] = "dying" /\ Ended(p) /\ listed' = listed

LifeStep ==
  /\ UNCHANGED Apps!initVars
  /\ \/ \E p \in Apps!Pids : \E k, q : Begun(p, k, q)
     \/ \E p \in Apps!Pids : \E x : Moved(p, x)
Unmoved == UNCHANGED <<kind, state, parent, listed>>

\* startGO takes the next number, for a process of any kind.
LEMMA BeginIs ==
  ASSUME AppTypes, Turn, NEW k, k \in {"sup", "child", "plain"}, NEW q,
         q = None \/ (q \in Apps!Pids /\ k = "child" /\ kind[q] = "sup" /\ state[q] \in {"alive", "leaving"}),
         Apps!Begin(k, q)
  PROVE  Apps!New \in Apps!Pids /\ Begun(Apps!New, k, q)
<1> PICK m \in 0 .. MaxPids : \A p \in Apps!Pids : kind[p] = "none" <=> p > m
  BY DEF Turn
<1>1. m \in Nat /\ MaxPids \in Nat /\ m <= MaxPids /\ Apps!Pids = 1 .. MaxPids
  BY PidAssumption DEF Apps!Pids
<1>2. PICK p \in Apps!Pids : p > m
  BY DEF Apps!Begin, Apps!Free
<1>3. m + 1 \in Apps!Free /\ \A x \in Apps!Free : m + 1 <= x /\ x \in Nat
  BY <1>1, <1>2 DEF Apps!Free
<1>4. Apps!New \in Apps!Free /\ \A x \in Apps!Free : Apps!New <= x
  BY <1>3, Zenon DEF Apps!New, Apps!Min
<1>5. Apps!New = m + 1 /\ Apps!New \in Apps!Pids /\ kind[Apps!New] = "none"
  <2>1. Apps!New \in Nat /\ Apps!New <= m + 1 /\ m + 1 <= Apps!New
    BY <1>3, <1>4
  <2> QED
    BY <1>1, <1>4, <2>1 DEF Apps!Free
<1>6. /\ kind' = [kind EXCEPT ![m + 1] = k] /\ state' = [state EXCEPT ![m + 1] = "init"]
      /\ parent' = [parent EXCEPT ![m + 1] = q]
      /\ listed' = IF stage \in {"running", "apps"} THEN listed \cup {m + 1} ELSE listed
  BY <1>5, Zenon DEF Apps!Begin, Apps!Register, Apps!Listening
<1>7. Turn'
  <2>1. m + 1 \in 0 .. MaxPids
    BY <1>1, <1>5
  <2>2. \A x \in Apps!Pids : kind'[x] = "none" <=> x > m + 1
    BY <1>1, <1>5, <1>6 DEF AppTypes
  <2> QED
    BY <2>1, <2>2 DEF Turn, Apps!Pids
<1> HIDE DEF Turn
<1> QED
  BY <1>5, <1>6, <1>7, Zenon DEF Begun

\* A supervisor that takes a message has no child that starts; others have none.
LEMMA TakesIdle ==
  ASSUME AppTypes, Family, NEW p \in Apps!Pids, NEW t, Apps!Take(p, t)
  PROVE  state[p] \in Working /\ Idle(p) /\ (kind[p] = "sup" => state[p] \in {"alive", "leaving"})
<1>1. CASE kind[p] = "sup"
  BY <1>1 DEF Apps!Take, Apps!Supervising, Apps!Children, Idle, Working
<1>2. CASE kind[p] # "sup"
  <2>1. \A c \in Apps!Pids : parent[c] # p
    BY <1>2, PidFacts, Zenon DEF Family
  <2> QED
    BY <1>2, <2>1 DEF Apps!Take, Idle, Working
<1> QED
  BY <1>1, <1>2

\* Every step lets one process begin or go on, and then the init server only
\* takes part with its list, or leaves all of them alone.
LEMMA Lives ==
  ASSUME AppTypes, Turn, Family, JobsRight, Apps!Next
  PROVE  LifeStep \/ Unmoved
<1> USE DEF LifeStep
<1>1. CASE Apps!StartPlain
  <2>1. Apps!New \in Apps!Pids /\ Begun(Apps!New, "plain", None)
    BY <1>1, BeginIs, Zenon DEF Apps!StartPlain
  <2> QED
    BY <1>1, <2>1 DEF Apps!StartPlain
<1>2. ASSUME NEW p \in Apps!Pids, Apps!StartChild(p) PROVE LifeStep
  <2>1. kind[p] = "sup" /\ state[p] \in {"alive", "leaving"}
    BY <1>2 DEF Apps!StartChild, Apps!Supervising
  <2>2. Apps!New \in Apps!Pids /\ Begun(Apps!New, "child", p)
    BY <1>2, <2>1, BeginIs, Zenon DEF Apps!StartChild
  <2> QED
    BY <1>2, <2>2 DEF Apps!StartChild
<1>3. ASSUME NEW p \in Apps!Pids, Apps!HandleExit(p) PROVE LifeStep \/ Unmoved
  <2>1. kind[p] = "sup" /\ state[p] \in {"alive", "leaving"}
    BY <1>3, TakesIdle, Zenon DEF Apps!HandleExit
  <2>2. CASE Apps!Begin("child", p)
    <3>1. Apps!New \in Apps!Pids /\ Begun(Apps!New, "child", p)
      BY <2>1, <2>2, BeginIs, Zenon
    <3> QED
      BY <1>3, <3>1 DEF Apps!HandleExit
  <2> QED
    BY <1>3, <2>2 DEF Apps!HandleExit, Unmoved
<1>4. ASSUME NEW s \in Starters, Apps!AppBegin(s) PROVE LifeStep
  <2>1. Apps!New \in Apps!Pids /\ Begun(Apps!New, "sup", None)
    BY <1>4, BeginIs, Zenon DEF Apps!AppBegin
  <2> QED
    BY <1>4, <2>1 DEF Apps!AppBegin
<1>5. ASSUME NEW p \in Apps!Pids, Apps!PlainStarted(p) \/ Apps!ChildStarted(p) PROVE LifeStep
  <2>1. Moved(p, "alive")
    BY <1>5 DEF Apps!PlainStarted, Apps!ChildStarted, Apps!Started, Moved
  <2> QED
    BY <1>5, <2>1 DEF Apps!PlainStarted, Apps!ChildStarted
<1>6. ASSUME NEW p \in Apps!Pids, Apps!HandleStop(p) PROVE LifeStep
  <2>1. Moved(p, "sweeping")
    BY <1>6, TakesIdle DEF Apps!HandleStop, Moved
  <2> QED
    BY <1>6, <2>1 DEF Apps!HandleStop
<1>7. ASSUME NEW p \in Apps!Pids, Apps!HandleEnd(p) PROVE LifeStep
  <2>1. state[p] \in Working /\ Idle(p)
    BY <1>7, TakesIdle, Zenon DEF Apps!HandleEnd
  <2>2. Moved(p, "dying")
    BY <1>7, <2>1 DEF Apps!HandleEnd, Apps!PidExits, Apps!Unregister, Moved
  <2> QED
    BY <1>7, <2>2 DEF Apps!HandleEnd
<1>8. ASSUME NEW p \in Apps!Pids, Apps!Crash(p) PROVE LifeStep
  <2>1. state[p] \in Working /\ kind[p] # "sup"
    BY <1>8 DEF Apps!Crash, Working
  <2>2. Idle(p)
    BY <2>1, PidFacts, Zenon DEF Idle, Family
  <2>3. Moved(p, "dying")
    BY <1>8, <2>1, <2>2 DEF Apps!Crash, Apps!PidExits, Apps!Unregister, Moved
  <2> QED
    BY <1>8, <2>3 DEF Apps!Crash
<1>9. ASSUME NEW p \in Apps!Pids, Apps!StopAnswered(p) PROVE LifeStep
  <2>1. Moved(p, "leaving")
    BY <1>9 DEF Apps!StopAnswered, Moved
  <2> QED
    BY <1>9, <2>1 DEF Apps!StopAnswered
<1>10. ASSUME NEW p \in Apps!Pids, Apps!Ends(p) PROVE LifeStep
  <2>1. Ended(p)
    BY <1>10 DEF Apps!Ends, Apps!Swept, Apps!Children, Apps!IsAlive, Apps!Running, Ended, Working
  <2>2. Moved(p, "dead")
    BY <1>10, <2>1 DEF Apps!Ends, Moved
  <2> QED
    BY <1>10, <2>2 DEF Apps!Ends
<1>11. ASSUME NEW s \in Starters, Apps!AppStarted(s) \/ Apps!AppRestarted(s) PROVE LifeStep
  <2>1. job[s].at \in {"starting", "restarting"}
    BY <1>11 DEF Apps!AppStarted, Apps!AppRestarted, Apps!At
  <2>2. job[s].pid # None /\ job[s] \in Jobs
    BY <2>1 DEF JobsRight, JobRight, HasPid, AppTypes
  <2>3. job[s].pid \in Apps!Pids
    BY <2>2 DEF Jobs
  <2>4. state[job[s].pid] = "init"
    BY <2>1, <2>2, Zenon DEF JobsRight, JobRight
  <2>5. StartedBy(job[s].pid)
    BY <1>11, Zenon DEF StartedBy
  <2>6. Moved(job[s].pid, "alive")
    BY <1>11, <2>4, <2>5 DEF Apps!AppStarted, Apps!AppRestarted, Apps!Started, Moved
  <2> QED
    BY <1>11, <2>3, <2>6 DEF Apps!AppStarted, Apps!AppRestarted
<1>12. ASSUME NEW s \in Starters,
              \/ \E n \in AppNames : Apps!AppCheck(s, n) \/ Apps!AppRestart(s, n)
              \/ Apps!AppPanics(s) \/ Apps!AppNil(s) \/ Apps!AppTells(s)
       PROVE  Unmoved
  BY <1>12 DEF Apps!AppCheck, Apps!AppRestart, Apps!AppPanics, Apps!AppNil, Apps!AppTells, Unmoved, Apps!procVars
<1>13. ASSUME NEW p \in Apps!Pids,
              Apps!HandleLink(p) \/ Apps!SweepAsk(p) \/ Apps!SweepNext(p) \/ Apps!Visit(p)
       PROVE  Unmoved
  BY <1>13 DEF Apps!HandleLink, Apps!SweepAsk, Apps!SweepNext, Apps!Visit, Unmoved
<1>14. CASE \/ Apps!HandleInfo \/ Apps!HandleAppExit \/ Apps!HandleAppStop \/ Apps!HandleInitStop
            \/ Apps!StopNext \/ \E n \in AppNames : Apps!AppStop(n)
  BY <1>14 DEF Apps!HandleInfo, Apps!HandleAppExit, Apps!HandleAppStop, Apps!HandleInitStop, Apps!StopNext,
       Apps!AppStop, Unmoved, Apps!procVars
<1>15. CASE Apps!InitStop \/ Apps!AppsAnswered \/ Apps!AppsGivenUp \/ Apps!Visited \/ Apps!KernelStop
  BY <1>15 DEF Apps!InitStop, Apps!AppsAnswered, Apps!AppsGivenUp, Apps!Visited, Apps!KernelStop, Unmoved,
       Apps!procVars
<1> HIDE DEF LifeStep
<1> QED
  BY <1>1, <1>2, <1>3, <1>4, <1>5, <1>6, <1>7, <1>8, <1>9, <1>10, <1>11, <1>12, <1>13, <1>14, <1>15, Zenon
     DEF Apps!Next

-----------------------------------------------------------------------------
(* What lives goes on. *)
LEMMA Ageing ==
  ASSUME AppTypes, LifeStep \/ Unmoved, NEW p \in Apps!Pids
  PROVE  /\ kind[p] # "none" => kind'[p] = kind[p] /\ parent'[p] = parent[p]
         /\ kind[p] # "none" /\ state[p] # "init" => state'[p] # "init"
         /\ kind[p] # "none" /\ state'[p] = "alive" => state[p] \in {"init", "alive"}
         /\ kind'[p] = "none" => kind[p] = "none"
         /\ kind'[p] = "none" /\ state[p] = "dead" => state'[p] = "dead"
         /\ kind[p] = "none" /\ kind'[p] # "none" => kind'[p] \in {"sup", "child", "plain"} /\ state'[p] = "init"
BY DEF LifeStep, Unmoved, Begun, Moved, AppTypes, Working

\* What a process is stays of its type.
LEMMA LifeTypes ==
  ASSUME AppTypes, EndTypes, LifeStep \/ Unmoved
  PROVE  /\ kind' \in [Apps!Pids -> {"none", "sup", "child", "plain"}]
         /\ state' \in [Apps!Pids -> Working \cup {"init", "dying", "dead"}]
         /\ parent' \in [Apps!Pids -> Apps!Pids \cup {None}]
         /\ listed' \subseteq Apps!Pids
<1>1. ASSUME NEW p \in Apps!Pids, NEW k, NEW q, Begun(p, k, q)
      PROVE  /\ kind' \in [Apps!Pids -> {"none", "sup", "child", "plain"}]
             /\ state' \in [Apps!Pids -> Working \cup {"init", "dying", "dead"}]
             /\ parent' \in [Apps!Pids -> Apps!Pids \cup {None}]
             /\ listed' \subseteq Apps!Pids
  <2>1. k \in {"sup", "child", "plain"} /\ q \in Apps!Pids \cup {None}
    BY <1>1 DEF Begun
  <2> QED
    BY <1>1, <2>1 DEF Begun, AppTypes, EndTypes
<1>2. CASE Unmoved
  BY <1>2 DEF Unmoved, AppTypes, EndTypes
<1>3. ASSUME NEW p \in Apps!Pids, NEW x, Moved(p, x)
      PROVE  /\ kind' \in [Apps!Pids -> {"none", "sup", "child", "plain"}]
             /\ state' \in [Apps!Pids -> Working \cup {"init", "dying", "dead"}]
             /\ parent' \in [Apps!Pids -> Apps!Pids \cup {None}]
             /\ listed' \subseteq Apps!Pids
  <2>1. x \in Working \cup {"init", "dying", "dead"} /\ listed' \in {listed, listed \ {p}}
    BY <1>3 DEF Moved, Working
  <2> QED
    BY <1>3, <2>1 DEF Moved, AppTypes, EndTypes
<1> QED
  BY <1>1, <1>2, <1>3, Zenon DEF LifeStep

\* Numbers are used in turn, and a supervisor outlives its children, step by step.
LEMMA TurnFamily ==
  ASSUME AppTypes, Turn, Family, LifeStep \/ Unmoved
  PROVE  Turn' /\ Family'
<1>1. CASE Unmoved
  BY <1>1, Zenon DEF Unmoved, Turn, Family
<1>2. ASSUME NEW p \in Apps!Pids, NEW k, NEW q, Begun(p, k, q) PROVE Turn' /\ Family'
  <2>1. Turn'
    BY <1>2 DEF Begun
  <2>2. ASSUME NEW c \in Apps!Pids, parent'[c] # None
        PROVE  /\ kind'[c] = "child" /\ kind'[parent'[c]] = "sup"
               /\ state'[c] = "init" => state'[parent'[c]] \in {"alive", "leaving"}
               /\ state'[parent'[c]] = "dead" => state'[c] \in {"dying", "dead"}
    <3>1. CASE c = p
      BY <1>2, <2>2, <3>1 DEF Begun, AppTypes
    <3>2. CASE c # p
      <4>1. parent'[c] = parent[c] /\ kind'[c] = kind[c] /\ state'[c] = state[c] /\ parent[c] # None
        BY <1>2, <2>2, <3>2 DEF Begun, AppTypes
      <4>2. parent[c] \in Apps!Pids /\ kind[parent[c]] = "sup"
        BY <4>1 DEF AppTypes, Family
      <4>3. kind'[parent[c]] = "sup" /\ state'[parent[c]] = state[parent[c]]
        BY <1>2, <4>2 DEF Begun, AppTypes
      <4> QED
        BY <4>1, <4>3, Zenon DEF Family
    <3> QED
      BY <3>1, <3>2
  <2> HIDE DEF Turn
  <2> QED
    BY <2>1, <2>2, Zenon DEF Family
<1>3. ASSUME NEW p \in Apps!Pids, NEW x, Moved(p, x) PROVE Turn' /\ Family'
  <2>1. Turn'
    BY <1>3, Zenon DEF Turn, Moved
  <2>2. ASSUME NEW c \in Apps!Pids, parent[c] # None
        PROVE  /\ state'[c] = "init" => state'[parent[c]] \in {"alive", "leaving"}
               /\ state'[parent[c]] = "dead" => state'[c] \in {"dying", "dead"}
    <3>1. /\ parent[c] \in Apps!Pids /\ parent[c] # c
          /\ state[c] = "init" => state[parent[c]] \in {"alive", "leaving"}
          /\ state[parent[c]] = "dead" => state[c] \in {"dying", "dead"}
      BY <2>2 DEF AppTypes, Family
    <3>2. CASE p = c
      BY <1>3, <3>1, <3>2 DEF Moved, AppTypes, Working
    <3>3. CASE p = parent[c]
      BY <1>3, <3>1, <3>3 DEF Moved, AppTypes, Working, Idle, Ended
    <3>4. CASE p # c /\ p # parent[c]
      BY <1>3, <3>1, <3>4 DEF Moved, AppTypes
    <3> QED
      BY <3>2, <3>3, <3>4
  <2>3. kind' = kind /\ parent' = parent
    BY <1>3 DEF Moved
  <2> QED
    BY <2>1, <2>2, <2>3, Zenon DEF Family
<1> QED
  BY <1>1, <1>2, <1>3, Zenon DEF LifeStep

-----------------------------------------------------------------------------
(* The starters. *)
LEMMA JobTo ==
  ASSUME AppTypes, NEW s \in Starters, NEW a \in JobStages,
         job' = [job EXCEPT ![s].at = a]
  PROVE  /\ job' \in [Starters -> Jobs]
         /\ job'[s].at = a /\ job'[s].name = job[s].name /\ job'[s].pid = job[s].pid
         /\ \A t \in Starters : t # s => job'[t] = job[t]
<1>1. job \in [Starters -> Jobs] /\ job[s] \in Jobs
  BY DEF AppTypes
<1> PICK b, m, p : b = job[s].at /\ m = job[s].name /\ p = job[s].pid
  OBVIOUS
<1>2. job[s] = [at |-> b, name |-> m, pid |-> p]
  BY <1>1 DEF Jobs
<1> DEFINE j == [at |-> a, name |-> m, pid |-> p]
<1>3. [job[s] EXCEPT !.at = a] = j
  BY <1>1, <1>2 DEF Jobs
<1>4. job' = [job EXCEPT ![s] = j]
  BY <1>3, Zenon
<1>5. j \in Jobs /\ j.at = a /\ j.name = m /\ j.pid = p
  BY <1>1 DEF Jobs
<1> HIDE DEF j
<1> QED
  BY <1>1, <1>4, <1>5

\* What a starter and the map say stays right when neither of them changes.
LEMMA JobKeeps ==
  ASSUME AppTypes, LifeStep \/ Unmoved, NEW t \in Starters, JobRight(t), job'[t] = job[t],
         job[t].pid # None /\ state[job[t].pid] = "init" => state'[job[t].pid] = "init",
         \A n \in AppNames : appMaps'[n] = job[t].pid /\ job[t].pid # None => appMaps[n] = appMaps'[n]
  PROVE  JobRight(t)'
<1>1. CASE job[t].pid = None
  BY <1>1, Zenon DEF JobRight
<1>2. CASE job[t].pid # None
  <2>1. job[t].pid \in Apps!Pids /\ kind[job[t].pid] = "sup"
    BY <1>2 DEF AppTypes, Jobs, JobRight
  <2>2. /\ kind'[job[t].pid] = "sup"
        /\ state[job[t].pid] # "init" => state'[job[t].pid] # "init"
    BY <2>1, Ageing, Zenon
  <2>3. job[t].pid # None <=> job[t].at \in HasPid
    BY Zenon DEF JobRight
  <2>4. /\ job[t].at # "idle" => job[t].name \in AppNames
        /\ state[job[t].pid] = "init" <=> job[t].at \in {"starting", "restarting"}
        /\ \A n \in AppNames : appMaps[n] = job[t].pid => n = job[t].name /\ job[t].at \in {"stored", "done"}
    BY <1>2, Zenon DEF JobRight
  <2>5. state'[job[t].pid] = "init" <=> job[t].at \in {"starting", "restarting"}
    BY <1>2, <2>2, <2>4, Zenon
  <2>6. \A n \in AppNames : appMaps'[n] = job[t].pid => n = job[t].name /\ job[t].at \in {"stored", "done"}
    BY <1>2, <2>4, Zenon
  <2> QED
    BY <1>2, <2>2, <2>3, <2>4, <2>5, <2>6, Zenon DEF JobRight
<1> QED
  BY <1>1, <1>2

\* Nothing but the end of its start makes a supervisor alive.
LEMMA StartsAlone ==
  ASSUME AppTypes, Turn, Family, JobsRight, Apps!Next, NEW t \in Starters, job[t].pid # None,
         state[job[t].pid] = "init", state'[job[t].pid] # "init"
  PROVE  Apps!AppStarted(t) \/ Apps!AppRestarted(t)
<1> DEFINE q == job[t].pid
<1>1. q \in Apps!Pids /\ kind[q] = "sup"
  BY DEF AppTypes, Jobs, JobsRight, JobRight
<1>2. LifeStep
  BY Lives, Zenon DEF Unmoved
<1>3. ASSUME NEW p \in Apps!Pids, NEW k, NEW x, Begun(p, k, x) PROVE FALSE
  BY <1>1, <1>3 DEF Begun, AppTypes
<1>4. ASSUME NEW p \in Apps!Pids, NEW x, Moved(p, x)
      PROVE  Apps!AppStarted(t) \/ Apps!AppRestarted(t)
  <2>1. p = q /\ x = "alive"
    BY <1>1, <1>4 DEF Moved, AppTypes, Working
  <2>2. StartedBy(q)
    BY <1>1, <1>4, <2>1 DEF Moved
  <2>3. \A s \in Starters : job[s].pid = q => s = t
    BY Zenon DEF JobsRight, OwnPid
  <2> QED
    BY <2>2, <2>3, Zenon DEF StartedBy
<1> QED
  BY <1>2, <1>3, <1>4, Zenon DEF LifeStep

\* A starter whose job does not change has not finished a start.
LEMMA StartsShow ==
  ASSUME AppTypes, Turn, Family, JobsRight, Apps!Next, NEW t \in Starters, job'[t] = job[t],
         job[t].pid # None, state[job[t].pid] = "init"
  PROVE  state'[job[t].pid] = "init"
<1>0. "stored" \in JobStages /\ "done" \in JobStages
  BY DEF JobStages
<1> SUFFICES ASSUME Apps!AppStarted(t) \/ Apps!AppRestarted(t) PROVE FALSE
  BY StartsAlone, Zenon
<1>1. CASE Apps!AppStarted(t)
  <2>1. job'[t].at = "stored"
    BY <1>1, <1>0, JobTo, Zenon DEF Apps!AppStarted
  <2> QED
    BY <1>1, <2>1 DEF Apps!AppStarted, Apps!At
<1>2. CASE Apps!AppRestarted(t)
  <2>1. job'[t].at = "done"
    BY <1>2, <1>0, JobTo, Zenon DEF Apps!AppRestarted
  <2> QED
    BY <1>2, <2>1 DEF Apps!AppRestarted, Apps!At
<1> QED
  BY <1>1, <1>2

\* A starter goes on, or none; nothing new is stored.
LEMMA JobGoes ==
  ASSUME AppTypes, EndTypes, Turn, Family, JobsRight, MapsRight, Apps!Next, LifeStep \/ Unmoved,
         NEW G, G \subseteq Starters, \A s \in G : JobRight(s)' /\ job'[s].pid = job[s].pid,
         \A t \in Starters \ G : job'[t] = job[t],
         \A n \in AppNames : appMaps'[n] \in Apps!Pids => appMaps[n] = appMaps'[n],
         names' \subseteq names
  PROVE  JobsRight' /\ MapsRight'
<1>1. ASSUME NEW t \in Starters PROVE JobRight(t)'
  <2>1. CASE t \in G
    BY <2>1
  <2>2. CASE t \notin G
    <3>1. JobRight(t) /\ job'[t] = job[t]
      BY <2>2 DEF JobsRight
    <3>2. job[t].pid # None /\ state[job[t].pid] = "init" => state'[job[t].pid] = "init"
      BY <3>1, StartsShow, Zenon
    <3>3. job[t].pid # None => job[t].pid \in Apps!Pids
      BY DEF AppTypes, Jobs
    <3>4. \A n \in AppNames : appMaps'[n] = job[t].pid /\ job[t].pid # None => appMaps[n] = appMaps'[n]
      BY <3>3, Zenon
    <3> QED
      BY <3>1, <3>2, <3>4, JobKeeps, Zenon
  <2> QED
    BY <2>1, <2>2
<1>2. \A t \in Starters : job'[t].pid = job[t].pid
  BY Zenon
<1>3. \A t \in Starters : OwnPid(t)'
  <2>1. \A t \in Starters : OwnPid(t)
    BY Zenon DEF JobsRight
  <2> QED
    BY <1>2, <2>1, ZenonT(60) DEF OwnPid
<1>4. MapsRight'
  <2>1. /\ \A n \in AppNames : appMaps[n] \in Apps!Pids => \E s \in Starters : job[s].pid = appMaps[n]
        /\ \A p \in names : p \in Apps!Pids /\ \E s \in Starters : job[s].pid = p
    BY Zenon DEF MapsRight
  <2> QED
    BY <1>2, <2>1, ZenonT(60) DEF MapsRight
<1> QED
  BY <1>1, <1>3, <1>4 DEF JobsRight

\* AppStart, AppRestart and PidExit keep starters and the map in accord.
LEMMA JobsStep ==
  ASSUME AppTypes, EndTypes, Turn, Family, JobsRight, MapsRight, Apps!Next
  PROVE  JobsRight' /\ MapsRight' /\ job' \in [Starters -> Jobs]
         /\ appMaps' \in [AppNames -> Apps!Pids \cup {Apps!Nil, None}]
<1> DEFINE Goal == /\ JobsRight' /\ MapsRight' /\ job' \in [Starters -> Jobs]
                   /\ appMaps' \in [AppNames -> Apps!Pids \cup {Apps!Nil, None}]
<1>0. LifeStep \/ Unmoved
  BY Lives, Zenon
<1>t. /\ job \in [Starters -> Jobs] /\ appMaps \in [AppNames -> Apps!Pids \cup {Apps!Nil, None}]
      /\ \A s \in Starters : /\ job[s] \in Jobs /\ job[s].at \in JobStages /\ job[s].name \in AppNames \cup {None}
                             /\ job[s].pid \in Apps!Pids \cup {None}
  BY DEF AppTypes, Jobs
<1>1. ASSUME NEW s \in Starters, NEW n \in AppNames, Apps!AppCheck(s, n) \/ Apps!AppRestart(s, n)
      PROVE  Goal
  <2>1. job[s].at = "idle" /\ job[s].pid = None
    BY <1>1, <1>t DEF Apps!AppCheck, Apps!AppRestart, Apps!At, JobsRight, JobRight, HasPid
  <2>2. PICK a \in {"start", "refused", "restart"} : job' = [job EXCEPT ![s] = [job[s] EXCEPT !.name = n, !.at = a]]
    BY <1>1 DEF Apps!AppCheck, Apps!AppRestart
  <2>3. /\ job' \in [Starters -> Jobs] /\ job'[s].at = a /\ job'[s].name = n /\ job'[s].pid = job[s].pid
        /\ \A t \in Starters : t # s => job'[t] = job[t]
    <3> PICK r : r = [job[s] EXCEPT !.name = n, !.at = a]
      OBVIOUS
    <3>1. r = [at |-> a, name |-> n, pid |-> job[s].pid]
      <4> PICK b, m, p : b = job[s].at /\ m = job[s].name /\ p = job[s].pid
        OBVIOUS
      <4>1. job[s] = [at |-> b, name |-> m, pid |-> p]
        BY <1>t DEF Jobs
      <4>2. [job[s] EXCEPT !.name = n] = [at |-> b, name |-> n, pid |-> p]
        BY <1>t, <4>1 DEF Jobs
      <4> PICK x : x = [at |-> b, name |-> n, pid |-> p]
        OBVIOUS
      <4>3. x \in [at : {b}, name : {n}, pid : {p}]
        OBVIOUS
      <4>4. [x EXCEPT !.at = a] = [at |-> a, name |-> n, pid |-> p]
        BY <4>3
      <4> QED
        BY <4>2, <4>4, Zenon
    <3>2. r \in Jobs /\ r.at = a /\ r.name = n /\ r.pid = job[s].pid
      BY <1>t, <3>1 DEF Jobs, JobStages
    <3>3. job' = [job EXCEPT ![s] = r]
      BY <2>2, Zenon
    <3> QED
      BY <1>t, <3>2, <3>3
  <2>4. JobRight(s)'
    BY <2>1, <2>3 DEF JobRight, HasPid
  <2>5. appMaps' = appMaps /\ names' = names
    BY <1>1 DEF Apps!AppCheck, Apps!AppRestart, Apps!appVars
  <2>6. JobsRight' /\ MapsRight'
    <3> DEFINE G == {s}
    <3>1. G \subseteq Starters /\ (\A x \in G : JobRight(x)' /\ job'[x].pid = job[x].pid)
      BY <2>3, <2>4
    <3>2. \A t \in Starters \ G : job'[t] = job[t]
      BY <2>3
    <3> HIDE DEF G
    <3> QED
      BY <1>0, <2>5, <3>1, <3>2, JobGoes
  <2> QED
    BY <1>t, <2>3, <2>5, <2>6
<1>2. ASSUME NEW s \in Starters,
             Apps!AppPanics(s) \/ Apps!AppNil(s) \/ Apps!AppTells(s) \/ Apps!AppRestarted(s)
      PROVE  Goal
  <2>1. PICK a \in {"failed", "done"} :
          /\ job' = [job EXCEPT ![s].at = a]
          /\ \/ job[s].at \in {"start", "restart"} /\ a = "failed"
             \/ job[s].at \in {"stored", "restarting"} /\ a = "done"
    BY <1>2 DEF Apps!AppPanics, Apps!AppNil, Apps!AppTells, Apps!AppRestarted, Apps!At
  <2>2. /\ job' \in [Starters -> Jobs] /\ job'[s].at = a /\ job'[s].name = job[s].name /\ job'[s].pid = job[s].pid
        /\ \A t \in Starters : t # s => job'[t] = job[t]
    <3>1. a \in JobStages
      BY DEF JobStages
    <3> QED
      BY <2>1, <3>1, JobTo, Zenon
  <2>3. /\ names' = names /\ appMaps' \in [AppNames -> Apps!Pids \cup {Apps!Nil, None}]
        /\ \A n \in AppNames : appMaps'[n] \in Apps!Pids => appMaps[n] = appMaps'[n]
    BY <1>2, <1>t, PidFacts DEF Apps!AppPanics, Apps!AppNil, Apps!AppTells, Apps!AppRestarted, Apps!appVars
  <2>4. JobRight(s) /\ job[s].at # "idle" /\ job[s].name \in AppNames
    BY <1>2 DEF Apps!AppPanics, Apps!AppNil, Apps!AppTells, Apps!AppRestarted, Apps!At, JobsRight, JobRight
  <2>5. job[s].pid # None <=> a = "done"
    BY <2>1, <2>4 DEF JobRight, HasPid
  <2>6. JobRight(s)'
    <3>1. CASE job[s].pid = None
      BY <2>2, <2>4, <2>5, <3>1 DEF JobRight, HasPid
    <3>2. CASE job[s].pid # None
      <4>1. job[s].pid \in Apps!Pids /\ kind[job[s].pid] = "sup"
        BY <1>t, <2>4, <3>2 DEF JobRight
      <4>2. /\ kind'[job[s].pid] = "sup"
            /\ state[job[s].pid] # "init" => state'[job[s].pid] # "init"
        BY <1>0, <4>1, Ageing, Zenon
      <4>3. state'[job[s].pid] # "init"
        <5>1. CASE Apps!AppRestarted(s)
          BY <4>1, <5>1 DEF Apps!AppRestarted, Apps!Started, AppTypes
        <5>2. CASE ~Apps!AppRestarted(s)
          <6>1. job[s].at = "stored"
            BY <1>2, <2>4, <3>2, <5>2 DEF Apps!AppPanics, Apps!AppNil, Apps!AppTells, Apps!At, JobRight, HasPid
          <6> QED
            BY <2>4, <3>2, <4>2, <6>1 DEF JobRight
        <5> QED
          BY <5>1, <5>2
      <4>4. \A n \in AppNames : appMaps'[n] = job[s].pid => n = job[s].name
        BY <2>3, <2>4, <3>2, <4>1, Zenon DEF JobRight
      <4> QED
        BY <2>2, <2>4, <2>5, <3>2, <4>2, <4>3, <4>4 DEF JobRight, HasPid
    <3> QED
      BY <3>1, <3>2
  <2>7. JobsRight' /\ MapsRight'
    <3> DEFINE G == {s}
    <3>1. G \subseteq Starters /\ (\A x \in G : JobRight(x)' /\ job'[x].pid = job[x].pid)
      BY <2>2, <2>6
    <3>2. \A t \in Starters \ G : job'[t] = job[t]
      BY <2>2
    <3> HIDE DEF G
    <3> QED
      BY <1>0, <2>3, <3>1, <3>2, JobGoes
  <2> QED
    BY <2>2, <2>3, <2>7
<1>3. ASSUME UNCHANGED job, names' \subseteq names,
             appMaps' \in [AppNames -> Apps!Pids \cup {Apps!Nil, None}],
             \A n \in AppNames : appMaps'[n] \in Apps!Pids => appMaps[n] = appMaps'[n]
      PROVE  Goal
  <2>1. JobsRight' /\ MapsRight'
    <3> DEFINE G == {}
    <3>1. G \subseteq Starters /\ (\A x \in G : JobRight(x)' /\ job'[x].pid = job[x].pid)
      OBVIOUS
    <3>2. \A t \in Starters \ G : job'[t] = job[t]
      BY <1>3
    <3> HIDE DEF G
    <3> QED
      BY <1>0, <1>3, <3>1, <3>2, JobGoes
  <2> QED
    BY <1>t, <1>3, <2>1
\* A supervisor begins for a starter.
<1>4. ASSUME NEW s \in Starters, Apps!AppBegin(s) PROVE Goal
  <2> PICK p : p = Apps!New
    OBVIOUS
  <2>1. p \in Apps!Pids /\ Begun(p, "sup", None)
    BY <1>4, BeginIs, Zenon DEF Apps!AppBegin
  <2>2. PICK a \in {"starting", "restarting"} : job' = [job EXCEPT ![s].pid = p, ![s].at = a]
    BY <1>4, <1>t DEF Apps!AppBegin
  <2>3. /\ job' \in [Starters -> Jobs] /\ job'[s].at = a /\ job'[s].name = job[s].name /\ job'[s].pid = p
        /\ \A t \in Starters : t # s => job'[t] = job[t]
    <3> PICK f : f = [job EXCEPT ![s].pid = p]
      OBVIOUS
    <3> PICK b, m : b = job[s].at /\ m = job[s].name
      OBVIOUS
    <3>1. [job[s] EXCEPT !.pid = p] = [at |-> b, name |-> m, pid |-> p]
      BY <1>t DEF Jobs
    <3> PICK r : r = [at |-> b, name |-> m, pid |-> p]
      OBVIOUS
    <3>2. f = [job EXCEPT ![s] = r]
      BY <3>1, Zenon
    <3>3. f[s] = r
      BY <1>t, <3>2
    <3>4. job' = [f EXCEPT ![s] = [f[s] EXCEPT !.at = a]]
      BY <2>2, Zenon
    <3>5. r \in [at : {b}, name : {m}, pid : {p}]
      OBVIOUS
    <3> PICK x : x = [at |-> a, name |-> m, pid |-> p]
      OBVIOUS
    <3>6. [r EXCEPT !.at = a] = x
      BY <3>5
    <3>7. job' = [f EXCEPT ![s] = x]
      BY <3>3, <3>4, <3>6, Zenon
    <3>8. x \in Jobs /\ x.at = a /\ x.name = m /\ x.pid = p
      BY <1>t, <2>1 DEF Jobs, JobStages
    <3> QED
      BY <1>t, <3>2, <3>7, <3>8
  <2>4. /\ appMaps' = appMaps /\ names' = names /\ job[s].name \in AppNames /\ job[s].pid = None
    BY <1>4, <1>t DEF Apps!AppBegin, Apps!appVars, JobsRight, JobRight, HasPid
  <2>5. /\ \A t \in Starters : job[t].pid # p
        /\ \A n \in AppNames : appMaps[n] # p
    <3>1. ASSUME NEW t \in Starters PROVE job[t].pid # p
      <4>1. kind[p] = "none" /\ p # None
        BY <2>1, PidFacts DEF Begun
      <4> QED
        BY <4>1, Zenon DEF JobsRight, JobRight
    <3> QED
      BY <2>1, <3>1, Zenon DEF MapsRight
  <2>6. JobRight(s)'
    <3>1. kind'[p] = "sup" /\ state'[p] = "init" /\ p # None
      BY <2>1, PidFacts DEF Begun, AppTypes
    <3> QED
      BY <2>3, <2>4, <2>5, <3>1 DEF JobRight, HasPid
  <2>7. ASSUME NEW t \in Starters, t # s PROVE JobRight(t)'
    <3>1. job'[t] = job[t] /\ JobRight(t)
      BY <2>3, <2>7 DEF JobsRight
    <3>2. job[t].pid # None /\ state[job[t].pid] = "init" => state'[job[t].pid] = "init"
      BY <3>1, StartsShow, Zenon
    <3> QED
      BY <1>0, <2>4, <3>1, <3>2, JobKeeps, Zenon
  <2>8. \A t \in Starters : OwnPid(t)'
    <3>1. \A t \in Starters : t # s => job'[t].pid = job[t].pid /\ job'[t].pid # p
      BY <2>3, <2>5, Zenon
    <3>2. \A t, u \in Starters : job[t].pid = job[u].pid /\ job[t].pid # None => t = u
      BY Zenon DEF JobsRight, OwnPid
    <3>3. \A t, u \in Starters : job'[t].pid = job'[u].pid /\ job'[t].pid # None => t = u
      BY <2>3, <3>1, <3>2
    <3> QED
      BY <3>3, Zenon DEF OwnPid
  <2>9. MapsRight'
    <3>1. \A t \in Starters : job[t].pid # None => job'[t].pid = job[t].pid
      BY <2>3, <2>4, Zenon
    <3>2. \A x \in Apps!Pids : x # None
      BY PidFacts
    <3> QED
      BY <2>4, <3>1, <3>2, Zenon DEF MapsRight
  <2> QED
    BY <1>t, <2>3, <2>4, <2>6, <2>7, <2>8, <2>9 DEF JobsRight
\* The start has returned: the supervisor is stored.
<1>5. ASSUME NEW s \in Starters, Apps!AppStarted(s) PROVE Goal
  <2> PICK p, m : p = job[s].pid /\ m = job[s].name
    OBVIOUS
  <2>1. /\ job' \in [Starters -> Jobs] /\ job'[s].at = "stored" /\ job'[s].name = m /\ job'[s].pid = p
        /\ \A t \in Starters : t # s => job'[t] = job[t]
    <3>1. "stored" \in JobStages
      BY DEF JobStages
    <3> QED
      BY <1>5, <3>1, JobTo, Zenon DEF Apps!AppStarted
  <2>2. job[s].at = "starting" /\ JobRight(s)
    BY <1>5 DEF Apps!AppStarted, Apps!At, JobsRight
  <2>3. p \in Apps!Pids /\ p # None /\ m \in AppNames /\ kind[p] = "sup"
    BY <1>t, <2>2, PidFacts DEF JobRight, HasPid
  <2>4. /\ appMaps' \in [AppNames -> Apps!Pids \cup {Apps!Nil, None}] /\ appMaps'[m] = p
        /\ \A n \in AppNames : n # m => appMaps'[n] = appMaps[n]
        /\ names' = names \cup {p}
    BY <1>5, <1>t, <2>3 DEF Apps!AppStarted
  <2>5. \A n \in AppNames : appMaps[n] # p
    BY <2>2, <2>3 DEF JobRight
  <2>6. JobRight(s)'
    <3>1. kind'[p] = "sup" /\ state'[p] = "alive"
      BY <1>5, <2>3 DEF Apps!AppStarted, Apps!Started, AppTypes
    <3>2. \A n \in AppNames : appMaps'[n] = p => n = m
      BY <2>4, <2>5, Zenon
    <3> QED
      BY <2>1, <2>3, <3>1, <3>2 DEF JobRight, HasPid
  <2>7. ASSUME NEW t \in Starters, t # s PROVE JobRight(t)'
    <3>1. job'[t] = job[t] /\ JobRight(t)
      BY <2>1, <2>7 DEF JobsRight
    <3>2. job[t].pid # None /\ state[job[t].pid] = "init" => state'[job[t].pid] = "init"
      BY <3>1, StartsShow, Zenon
    <3>3. job[t].pid # p
      BY <2>3, <2>7, Zenon DEF JobsRight, OwnPid
    <3>4. \A n \in AppNames : appMaps'[n] = job[t].pid /\ job[t].pid # None => appMaps[n] = appMaps'[n]
      BY <2>4, <3>3, Zenon
    <3> QED
      BY <1>0, <3>1, <3>2, <3>4, JobKeeps, Zenon
  <2>8. \A t \in Starters : job'[t].pid = job[t].pid
    BY <2>1, Zenon
  <2>9. \A t \in Starters : OwnPid(t)'
    BY <2>8, Zenon DEF JobsRight, OwnPid
  <2>10. MapsRight'
    <3>1. ASSUME NEW n \in AppNames, appMaps'[n] \in Apps!Pids
          PROVE  \E t \in Starters : job'[t].pid = appMaps'[n]
      <4>1. CASE n = m
        BY <2>1, <2>4, <4>1, Zenon
      <4>2. CASE n # m
        <5>1. appMaps'[n] = appMaps[n]
          BY <2>4, <4>2, Zenon
        <5>2. PICK t \in Starters : job[t].pid = appMaps[n]
          BY <3>1, <5>1, Zenon DEF MapsRight
        <5> QED
          BY <2>8, <5>1, <5>2, Zenon
      <4> QED
        BY <4>1, <4>2
    <3>2. ASSUME NEW x \in names' PROVE x \in Apps!Pids /\ \E t \in Starters : job'[t].pid = x
      <4>1. x \in names \/ x = p
        BY <2>4
      <4>2. CASE x \in names
        <5>1. x \in Apps!Pids /\ \E t \in Starters : job[t].pid = x
          BY <4>2, Zenon DEF MapsRight
        <5> QED
          BY <2>8, <5>1, Zenon
      <4>3. CASE x = p
        BY <2>1, <2>3, <4>3, Zenon
      <4> QED
        BY <4>1, <4>2, <4>3, Zenon
    <3> QED
      BY <3>1, <3>2, Zenon DEF MapsRight
  <2> QED
    BY <2>1, <2>4, <2>6, <2>7, <2>9, <2>10 DEF JobsRight
<1>6. ASSUME Apps!HandleAppExit PROVE Goal
  <2>1. job' = job /\ names' \subseteq names
    BY <1>6 DEF Apps!HandleAppExit
  <2>2. appMaps' = appMaps \/ \E x : appMaps' = [appMaps EXCEPT ![x] = None]
    BY <1>6, Zenon DEF Apps!HandleAppExit
  <2>3. /\ appMaps' \in [AppNames -> Apps!Pids \cup {Apps!Nil, None}]
        /\ \A n \in AppNames : appMaps'[n] \in Apps!Pids => appMaps[n] = appMaps'[n]
    BY <1>t, <2>2, PidFacts
  <2> QED
    BY <1>3, <2>1, <2>3
<1>7. ASSUME UNCHANGED <<job, appMaps, names>> PROVE Goal
  BY <1>3, <1>7, <1>t, Zenon
<1>8. ASSUME NEW p \in Apps!Pids,
                \/ Apps!PlainStarted(p) \/ Apps!StartChild(p) \/ Apps!ChildStarted(p) \/ Apps!Crash(p)
                \/ Apps!HandleLink(p) \/ Apps!HandleStop(p) \/ Apps!HandleExit(p) \/ Apps!HandleEnd(p)
                \/ Apps!SweepAsk(p) \/ Apps!SweepNext(p) \/ Apps!StopAnswered(p) \/ Apps!Ends(p)
                \/ Apps!Visit(p)
      PROVE  Goal
  <2>1. UNCHANGED <<job, appMaps, names>>
    BY <1>8 DEF Apps!PlainStarted, Apps!StartChild, Apps!ChildStarted, Apps!Crash,
         Apps!HandleLink, Apps!HandleStop, Apps!HandleExit, Apps!HandleEnd, Apps!SweepAsk, Apps!SweepNext,
         Apps!StopAnswered, Apps!Ends, Apps!Visit, Apps!appVars
  <2> QED
    BY <1>7, <2>1
<1>9. ASSUME \/ Apps!StartPlain \/ \E n \in AppNames : Apps!AppStop(n)
           \/ Apps!HandleInfo \/ Apps!HandleAppStop \/ Apps!HandleInitStop \/ Apps!StopNext
           \/ Apps!InitStop \/ Apps!AppsAnswered \/ Apps!AppsGivenUp \/ Apps!Visited \/ Apps!KernelStop
      PROVE  Goal
  <2>1. UNCHANGED <<job, appMaps, names>>
    BY <1>9 DEF Apps!StartPlain, Apps!AppStop, Apps!HandleInfo, Apps!HandleAppStop, Apps!HandleInitStop, Apps!StopNext,
         Apps!InitStop, Apps!AppsAnswered, Apps!AppsGivenUp, Apps!Visited, Apps!KernelStop, Apps!appVars
  <2> QED
    BY <1>7, <2>1
<1> HIDE DEF Goal
<1>10. Goal
  BY <1>1, <1>2, <1>4, <1>5, <1>6, <1>8, <1>9, Zenon DEF Apps!Next
<1> QED
  BY <1>10, Zenon DEF Goal

-----------------------------------------------------------------------------
(* The init server. *)
LEMMA StageCases ==
  ASSUME Apps!Next
  PROVE  /\ stage # "stopped"
         /\ \/ UNCHANGED Apps!initVars
            \/ Unmoved /\ (\/ Apps!InitStop \/ Apps!AppsAnswered \/ Apps!AppsGivenUp
                           \/ (\E p \in Apps!Pids : Apps!Visit(p)) \/ Apps!Visited \/ Apps!KernelStop)
<1> DEFINE Quiet == UNCHANGED Apps!initVars
<1>1. ASSUME NEW p \in Apps!Pids,
             \/ Apps!PlainStarted(p) \/ Apps!StartChild(p) \/ Apps!ChildStarted(p) \/ Apps!Crash(p)
             \/ Apps!HandleLink(p) \/ Apps!HandleStop(p) \/ Apps!HandleExit(p) \/ Apps!HandleEnd(p)
             \/ Apps!SweepAsk(p) \/ Apps!SweepNext(p) \/ Apps!StopAnswered(p) \/ Apps!Ends(p)
      PROVE  Quiet
  BY <1>1 DEF Apps!PlainStarted, Apps!StartChild, Apps!ChildStarted, Apps!Crash,
       Apps!HandleLink, Apps!HandleStop, Apps!HandleExit, Apps!HandleEnd, Apps!SweepAsk, Apps!SweepNext,
       Apps!StopAnswered, Apps!Ends
<1>2. ASSUME NEW s \in Starters,
             \/ \E n \in AppNames : Apps!AppCheck(s, n) \/ Apps!AppRestart(s, n)
             \/ Apps!AppBegin(s) \/ Apps!AppPanics(s) \/ Apps!AppNil(s) \/ Apps!AppStarted(s)
             \/ Apps!AppTells(s) \/ Apps!AppRestarted(s)
      PROVE  Quiet
  BY <1>2 DEF Apps!AppCheck, Apps!AppRestart, Apps!AppBegin, Apps!AppPanics, Apps!AppNil, Apps!AppStarted,
       Apps!AppTells, Apps!AppRestarted
<1>3. ASSUME \/ Apps!StartPlain \/ Apps!HandleInfo \/ Apps!HandleAppExit \/ Apps!HandleAppStop
             \/ Apps!HandleInitStop \/ Apps!StopNext \/ \E n \in AppNames : Apps!AppStop(n)
      PROVE  Quiet
  BY <1>3 DEF Apps!StartPlain, Apps!HandleInfo, Apps!HandleAppExit, Apps!HandleAppStop, Apps!HandleInitStop,
       Apps!StopNext, Apps!AppStop
<1>4. ASSUME \/ Apps!InitStop \/ Apps!AppsAnswered \/ Apps!AppsGivenUp
             \/ (\E p \in Apps!Pids : Apps!Visit(p)) \/ Apps!Visited \/ Apps!KernelStop
      PROVE  Unmoved
  BY <1>4 DEF Apps!InitStop, Apps!AppsAnswered, Apps!AppsGivenUp, Apps!Visit, Apps!Visited, Apps!KernelStop,
       Unmoved, Apps!procVars
<1> HIDE DEF Quiet
<1>5. stage # "stopped"
  BY DEF Apps!Next
<1>6. Quiet \/ (Unmoved /\ (\/ Apps!InitStop \/ Apps!AppsAnswered \/ Apps!AppsGivenUp
                           \/ (\E p \in Apps!Pids : Apps!Visit(p)) \/ Apps!Visited \/ Apps!KernelStop))
  BY <1>1, <1>2, <1>3, <1>4, Zenon DEF Apps!Next
<1> QED
  BY <1>5, <1>6, Zenon DEF Quiet

\* InitStop and the init server keep their types.
LEMMA EndTypesStep ==
  ASSUME AppTypes, EndTypes, Turn, Family, JobsRight, Apps!Next
  PROVE  EndTypes'
<1>0. listed' \subseteq Apps!Pids
  BY Lives, LifeTypes, Zenon
<1>1. CASE UNCHANGED Apps!initVars
  BY <1>0, <1>1 DEF EndTypes, Apps!initVars
<1>2. CASE Apps!InitStop
  BY <1>0, <1>2 DEF EndTypes, Apps!InitStop
<1>3. CASE Apps!AppsAnswered \/ Apps!AppsGivenUp
  BY <1>0, <1>3 DEF EndTypes, Apps!AppsAnswered, Apps!AppsGivenUp
<1>4. ASSUME NEW p \in Apps!Pids, Apps!Visit(p) PROVE EndTypes'
  BY <1>0, <1>4 DEF EndTypes, Apps!Visit
<1>5. CASE Apps!Visited \/ Apps!KernelStop
  BY <1>0, <1>5 DEF EndTypes, Apps!Visited, Apps!KernelStop
<1> QED
  BY <1>1, <1>2, <1>3, <1>4, <1>5, StageCases, Zenon

\* InitStop and the walk find nothing that has not been started.
LEMMA UnbornStep ==
  ASSUME AppTypes, EndTypes, Turn, Family, JobsRight, Unborn, Apps!Next
  PROVE  Unborn'
<1> SUFFICES ASSUME NEW p \in Apps!Pids, kind'[p] = "none"
             PROVE  state'[p] = "dead" /\ p \notin aliveThen' \cup appsThen' /\ visited' # p
  BY Zenon DEF Unborn
<1>1. LifeStep \/ Unmoved
  BY Lives, Zenon
<1>2. kind[p] = "none" /\ state[p] = "dead" /\ p \notin aliveThen \cup appsThen /\ visited # p
  BY <1>1, Ageing, Zenon DEF Unborn
<1>3. state'[p] = "dead"
  BY <1>1, <1>2, Ageing, Zenon
<1>4. ~Apps!IsAlive(p) /\ \A s \in Starters : job[s].pid # p
  <2>1. p # None
    BY PidFacts
  <2> QED
    BY <1>2, <2>1, Zenon DEF Apps!IsAlive, Apps!Running, JobsRight, JobRight
<1>5. p \notin aliveThen' \cup appsThen' /\ visited' # p
  <2>1. CASE UNCHANGED Apps!initVars
    BY <1>2, <2>1 DEF Apps!initVars
  <2>2. CASE Apps!InitStop
    BY <1>2, <1>4, <2>2 DEF Apps!InitStop
  <2>3. CASE Apps!AppsAnswered \/ Apps!AppsGivenUp \/ Apps!KernelStop
    BY <1>2, <2>3 DEF Apps!AppsAnswered, Apps!AppsGivenUp, Apps!KernelStop
  <2>4. ASSUME NEW q \in Apps!Pids, Apps!Visit(q) PROVE p \notin aliveThen' \cup appsThen' /\ visited' # p
    BY <1>2, <1>4, <2>4, Zenon DEF Apps!Visit
  <2>5. CASE Apps!Visited
    <3>1. None # p
      BY PidFacts
    <3> QED
      BY <1>2, <2>5, <3>1 DEF Apps!Visited
  <2> QED
    BY <2>1, <2>2, <2>3, <2>4, <2>5, StageCases, Zenon
<1> QED
  BY <1>3, <1>5

\* What InitStop has found alive is never in its Init again.
LEMMA FoundStep ==
  ASSUME AppTypes, EndTypes, Turn, Family, JobsRight, Unborn, Found, Apps!Next
  PROVE  Found'
<1>1. LifeStep \/ Unmoved
  BY Lives, Zenon
<1>2. CASE UNCHANGED <<aliveThen, appsThen>>
  <2>1. ASSUME NEW p \in aliveThen \cup appsThen PROVE state'[p] # "init"
    <3>1. p \in Apps!Pids /\ state[p] # "init"
      BY DEF EndTypes, Found
    <3>2. kind[p] # "none"
      BY <3>1 DEF Unborn
    <3> QED
      BY <1>1, <3>1, <3>2, Ageing, Zenon
  <2> QED
    BY <1>2, <2>1 DEF Found
<1>3. CASE Apps!InitStop
  <2>1. state' = state
    BY <1>3 DEF Apps!InitStop, Apps!procVars
  <2>2. ASSUME NEW p \in aliveThen' PROVE state[p] # "init"
    BY <1>3, <2>2 DEF Apps!InitStop, Apps!IsAlive, Apps!Running
  <2>3. ASSUME NEW p \in appsThen' PROVE state[p] # "init"
    <3>1. PICK s \in Starters : job[s].pid = p /\ job[s].at = "done" /\ p \in Apps!Pids
      BY <1>3, <2>3 DEF Apps!InitStop, Apps!At
    <3>2. p # None
      BY <3>1, PidFacts
    <3> QED
      BY <3>1, <3>2 DEF JobsRight, JobRight
  <2> QED
    BY <2>1, <2>2, <2>3 DEF Found
<1>4. UNCHANGED <<aliveThen, appsThen>> \/ Apps!InitStop
  BY StageCases DEF Apps!initVars, Apps!AppsAnswered, Apps!AppsGivenUp, Apps!Visit, Apps!Visited, Apps!KernelStop
<1> QED
  BY <1>2, <1>3, <1>4

\* Before the walk, what is alive or starts is in the list of the init server.
LEMMA ListingStep ==
  ASSUME AppTypes, EndTypes, Turn, Family, JobsRight, Listing, Apps!Next
  PROVE  Listing'
<1> SUFFICES ASSUME stage' \in {"running", "apps"}, NEW p \in Apps!Pids, state'[p] \in Working \cup {"init"}
             PROVE  p \in listed'
  BY Zenon DEF Listing
<1>1. stage \in {"running", "apps"}
  BY StageCases DEF EndTypes, Apps!initVars, Apps!InitStop, Apps!AppsAnswered, Apps!AppsGivenUp, Apps!Visit,
       Apps!Visited, Apps!KernelStop
<1>2. CASE Unmoved
  BY <1>1, <1>2 DEF Unmoved, Listing
<1>3. ASSUME NEW q \in Apps!Pids, NEW k, NEW x, Begun(q, k, x) PROVE p \in listed'
  <2>1. CASE p = q
    BY <1>1, <1>3, <2>1 DEF Begun
  <2>2. CASE p # q
    BY <1>1, <1>3, <2>2 DEF Begun, Listing, AppTypes
  <2> QED
    BY <2>1, <2>2
<1>4. ASSUME NEW q \in Apps!Pids, NEW x, Moved(q, x) PROVE p \in listed'
  <2>1. CASE p = q
    BY <1>1, <1>4, <2>1 DEF Moved, Listing, AppTypes, Working
  <2>2. CASE p # q
    BY <1>1, <1>4, <2>2 DEF Moved, Listing, AppTypes, Working
  <2> QED
    BY <2>1, <2>2
<1> QED
  BY <1>2, <1>3, <1>4, Lives, Zenon DEF LifeStep

\* What was alive when InitStop was called is waited for, and so are its children.
LEMMA WalkingStep ==
  ASSUME AppTypes, EndTypes, Turn, Family, JobsRight, Unborn, Found, Listing, Walking, Apps!Next
  PROVE  Walking'
<1> DEFINE Later(q) == q \in walk' \/ visited' = q
<1>0. /\ LifeStep \/ Unmoved
      /\ stage # "stopped"
      /\ state \in [Apps!Pids -> Working \cup {"init", "dying", "dead"}]
      /\ parent \in [Apps!Pids -> Apps!Pids \cup {None}]
      /\ None \notin Apps!Pids
  BY Lives, StageCases, PidFacts DEF AppTypes
<1>1. /\ visited # None => visited \in Apps!Pids /\ kind[visited] # "none" /\ state[visited] # "init"
      /\ \A p \in aliveThen : p \in Apps!Pids /\ kind[p] # "none" /\ state[p] # "init"
      /\ Walks => \A p \in aliveThen : state[p] \in Working => Ahead(p)
      /\ Walks => \A c \in Apps!Pids : parent[c] \in aliveThen /\ state[c] \in Working \cup {"init"} =>
           Ahead(c) \/ Ahead(parent[c]) \/ hasty
  BY Zenon DEF EndTypes, Unborn, Found, Walking
\* Nothing but the life of a process changes.
<1>2. CASE UNCHANGED Apps!initVars
  <2> USE <1>2 DEF Apps!initVars
  <2>1. visited' # None => state'[visited'] # "init"
    BY <1>0, <1>1, Ageing, Zenon
  <2>2. ~(stage' = "stopped")
    BY <1>0
  <2>3. ASSUME Walks', NEW p \in aliveThen', state'[p] \in Working PROVE Later(p)
    <3>1. state[p] \in Working
      BY <1>0, <1>1, <2>3 DEF LifeStep, Unmoved, Begun, Moved, Working, Unborn
    <3> QED
      BY <1>1, <2>3, <3>1 DEF Walks, Ahead
  <2>4. ASSUME Walks', NEW c \in Apps!Pids, parent'[c] \in aliveThen', state'[c] \in Working \cup {"init"}
        PROVE  Later(c) \/ Later(parent'[c]) \/ hasty'
    <3>1. CASE parent'[c] = parent[c] /\ state[c] \in Working \cup {"init"}
      BY <1>1, <2>4, <3>1, Zenon DEF Walks, Ahead
    <3>2. CASE ~(parent'[c] = parent[c] /\ state[c] \in Working \cup {"init"})
      <4>1. PICK k, q : Begun(c, k, q)
        BY <1>0, <2>4, <3>2 DEF LifeStep, Unmoved, Begun, Moved, Working
      <4>2. parent'[c] = q /\ q \in Apps!Pids /\ state[q] \in {"alive", "leaving"}
        BY <1>0, <1>1, <2>4, <4>1 DEF Begun
      <4> QED
        BY <1>1, <2>4, <4>2 DEF Walks, Ahead, Working
    <3> QED
      BY <3>1, <3>2
  <2>5. Walks' => \A p \in aliveThen' : state'[p] \in Working => Later(p)
    BY <2>3
  <2>6. Walks' => \A c \in Apps!Pids : parent'[c] \in aliveThen' /\ state'[c] \in Working \cup {"init"} =>
           Later(c) \/ Later(parent'[c]) \/ hasty'
    BY <2>4
  <2> QED
    BY <2>1, <2>2, <2>5, <2>6, Zenon DEF Walking, Ahead
\* The init server goes on.
<1>3. ASSUME state' = state, parent' = parent,
             stage' = "stopped" => walk' = {} /\ visited' = None,
             visited' # None => state[visited'] # "init",
             Walks' => \A p \in aliveThen' : state[p] \in Working => Later(p),
             Walks' => \A c \in Apps!Pids : parent[c] \in aliveThen' /\ state[c] \in Working \cup {"init"} =>
                Later(c) \/ Later(parent[c]) \/ hasty'
      PROVE  Walking'
  <2>1. /\ Walks' => \A p \in aliveThen' : state'[p] \in Working => Later(p)
        /\ Walks' => \A c \in Apps!Pids : parent'[c] \in aliveThen' /\ state'[c] \in Working \cup {"init"} =>
             Later(c) \/ Later(parent'[c]) \/ hasty'
        /\ visited' # None => state'[visited'] # "init"
    BY <1>3, Zenon
  <2> QED
    BY <1>3, <2>1, Zenon DEF Walking, Ahead
<1>4. CASE Apps!InitStop
  <2>1. stage' = "apps" /\ visited' = visited /\ state' = state /\ parent' = parent
    BY <1>4 DEF Apps!InitStop, Apps!procVars
  <2> QED
    BY <1>1, <1>3, <2>1 DEF Walks
<1>5. CASE (Apps!AppsAnswered /\ stage = "apps") \/ Apps!AppsGivenUp
  <2>1. /\ stage = "apps" /\ stage' = "walk" /\ walk' = listed /\ visited' = visited
        /\ state' = state /\ parent' = parent /\ aliveThen' = aliveThen
    BY <1>5 DEF Apps!AppsAnswered, Apps!AppsGivenUp, Apps!procVars
  <2>2. \A p \in Apps!Pids : state[p] \in Working \cup {"init"} => Later(p)
    BY <2>1 DEF Listing, Ahead
  <2> QED
    BY <1>1, <1>3, <2>1, <2>2
<1>6. CASE Apps!AppsAnswered /\ stage # "apps"
  <2>1. /\ UNCHANGED <<stage, walk, visited, hasty, aliveThen>> /\ state' = state /\ parent' = parent
    BY <1>6 DEF Apps!AppsAnswered, Apps!procVars
  <2> QED
    BY <1>0, <1>1, <1>3, <2>1 DEF Walks, Ahead
<1>7. ASSUME NEW p \in Apps!Pids, Apps!Visit(p) PROVE Walking'
  <2>1. /\ state' = state /\ parent' = parent /\ aliveThen' = aliveThen /\ stage' = "walk" /\ stage = "walk"
        /\ visited = None /\ walk' = walk \ {p} /\ visited' \in {p, None}
        /\ Apps!IsAlive(p) => visited' = p
        /\ ~Apps!IsAlive(p) => visited' = None
        /\ hasty' = (hasty \/ state[p] = "dying")
    BY <1>7 DEF Apps!Visit
  <2>2. Apps!IsAlive(p) <=> state[p] \in Working
    BY DEF Apps!IsAlive, Apps!Running, Working
  <2>3. \A q \in Apps!Pids : Ahead(q) /\ (q = p => state[p] \in Working) => Later(q)
    BY <1>0, <2>1, <2>2 DEF Ahead
  <2>4. Walks
    BY <2>1 DEF Walks
  <2>5. \A q \in aliveThen : state[q] \in Working => Later(q)
    BY <1>1, <2>3, <2>4, Zenon
  <2>6. ASSUME NEW c \in Apps!Pids, parent[c] \in aliveThen, state[c] \in Working \cup {"init"}
        PROVE  Later(c) \/ Later(parent[c]) \/ hasty'
    <3>1. /\ parent[c] \in Apps!Pids /\ state[parent[c]] # "init" /\ state[parent[c]] # "dead"
          /\ state[c] = "init" => state[parent[c]] \in Working
      BY <1>0, <1>1, <2>6 DEF Family, Working
    <3>2. CASE state[parent[c]] \in Working
      BY <2>5, <2>6, <3>2, Zenon
    <3>3. CASE state[parent[c]] \notin Working
      <4>1. state[parent[c]] = "dying" /\ state[c] \in Working
        BY <1>0, <2>6, <3>1, <3>3
      <4>2. CASE Ahead(c)
        BY <2>3, <4>1, <4>2
      <4>3. CASE Ahead(parent[c]) /\ parent[c] # p
        BY <2>3, <3>1, <4>3
      <4>4. CASE parent[c] = p \/ hasty
        BY <2>1, <4>1, <4>4
      <4> QED
        BY <1>1, <2>4, <2>6, <4>2, <4>3, <4>4
    <3> QED
      BY <3>2, <3>3
  <2> QED
    BY <1>0, <1>3, <2>1, <2>2, <2>5, <2>6 DEF Working
<1>8. CASE Apps!Visited
  <2>1. /\ state' = state /\ parent' = parent /\ aliveThen' = aliveThen /\ stage' = stage
        /\ visited' = None /\ walk' = walk /\ visited \in Apps!Pids /\ state[visited] \notin Working \cup {"init"}
        /\ hasty' = (hasty \/ state[visited] = "dying")
    BY <1>1, <1>8 DEF Apps!Visited, Apps!IsAlive, Apps!Running, Apps!procVars, Working
  <2>2. \A q \in Apps!Pids : Ahead(q) /\ q # visited => Later(q)
    BY <2>1 DEF Ahead
  <2>3. Walks' <=> Walks
    BY <2>1 DEF Walks
  <2>4. ASSUME Walks, NEW q \in aliveThen, state[q] \in Working PROVE Later(q)
    BY <1>1, <2>1, <2>2, <2>4, Zenon
  <2>5. ASSUME Walks, NEW c \in Apps!Pids, parent[c] \in aliveThen, state[c] \in Working \cup {"init"}
        PROVE  Later(c) \/ Later(parent[c]) \/ hasty'
    <3>1. /\ parent[c] \in Apps!Pids /\ state[parent[c]] # "init" /\ state[parent[c]] # "dead"
      BY <1>0, <1>1, <2>5 DEF Family, Working
    <3>2. CASE parent[c] = visited
      <4>1. state[visited] = "dying"
        BY <1>0, <2>1, <3>1, <3>2
      <4> QED
        BY <2>1, <4>1
    <3>3. CASE Ahead(c)
      BY <2>1, <2>2, <2>5, <3>3
    <3>4. CASE Ahead(parent[c]) /\ parent[c] # visited
      BY <2>2, <3>1, <3>4
    <3>5. CASE hasty
      BY <2>1, <3>5
    <3> QED
      BY <1>1, <2>5, <3>2, <3>3, <3>4, <3>5
  <2> QED
    BY <1>0, <1>3, <2>1, <2>3, <2>4, <2>5
<1>9. CASE Apps!KernelStop
  <2>1. /\ stage = "walk" /\ UNCHANGED <<walk, visited, hasty, aliveThen>> /\ state' = state /\ parent' = parent
        /\ visited = None /\ walk = {}
    BY <1>9 DEF Apps!KernelStop, Apps!procVars
  <2> QED
    BY <1>1, <1>3, <2>1 DEF Walks, Ahead
<1> QED
  BY <1>2, <1>4, <1>5, <1>6, <1>7, <1>8, <1>9, StageCases, Zenon

-----------------------------------------------------------------------------
(* The application actor. *)
LEMMA AtEnd ==
  ASSUME NEW S, NEW q \in Seq(S), NEW m \in S, NEW t, t = Append(q, m)
  PROVE  /\ t \in Seq(S)
         /\ \E k \in Nat : /\ k \in DOMAIN t /\ k \notin DOMAIN q /\ t[k] = m
                           /\ \A i \in DOMAIN t : i \in DOMAIN q \/ i = k
                           /\ \A i \in DOMAIN q : i \in DOMAIN t /\ i \in Nat /\ i < k /\ t[i] = q[i]
<1>1. /\ t \in Seq(S) /\ Len(t) = Len(q) + 1 /\ t[Len(q) + 1] = m /\ Len(q) \in Nat
      /\ \A i \in 1 .. Len(q) : t[i] = q[i]
  OBVIOUS
<1>2. DOMAIN q = 1 .. Len(q) /\ DOMAIN t = 1 .. (Len(q) + 1)
  BY <1>1
<1>3. Len(q) + 1 \in Nat
  BY <1>1
<1> QED
  BY <1>1, <1>2, <1>3

\* The first element of a sequence, and where the others are in its tail.
LEMMA AtHead ==
  ASSUME NEW S, NEW q \in Seq(S), q # <<>>, NEW t, t = Tail(q)
  PROVE  /\ t \in Seq(S) /\ Head(q) = q[1] /\ 1 \in DOMAIN q /\ Head(q) \in S
         /\ \A i \in DOMAIN t : i \in Nat /\ i + 1 \in DOMAIN q /\ t[i] = q[i + 1] /\ i + 1 # 1
         /\ \A i \in DOMAIN q : i \in Nat /\ (i = 1 \/ (i - 1 \in DOMAIN t /\ t[i - 1] = q[i]))
<1>1. /\ t \in Seq(S) /\ Len(t) = Len(q) - 1 /\ Len(q) \in Nat \ {0} /\ Head(q) = q[1] /\ Head(q) \in S
      /\ \A i \in 1 .. (Len(q) - 1) : t[i] = q[i + 1]
  OBVIOUS
<1>2. DOMAIN q = 1 .. Len(q) /\ DOMAIN t = 1 .. (Len(q) - 1)
  BY <1>1
<1> QED
  BY <1>1, <1>2

\* An element put before a sequence (list.PushFront).
LEMMA AtFront ==
  ASSUME NEW S, NEW q \in Seq(S), NEW m \in S, NEW t, t = <<m>> \o q
  PROVE  t \in Seq(S) /\ In(t, m) /\ \A x : In(q, x) => In(t, x)
<1>1. /\ t \in Seq(S) /\ Len(t) = Len(q) + 1 /\ Len(q) \in Nat /\ t[1] = m
      /\ \A i \in 1 .. Len(q) : t[i + 1] = q[i]
  OBVIOUS
<1>2. DOMAIN q = 1 .. Len(q) /\ DOMAIN t = 1 .. (Len(q) + 1)
  BY <1>1
<1>3. 1 \in DOMAIN t /\ \A i \in DOMAIN q : i + 1 \in DOMAIN t /\ t[i + 1] = q[i]
  BY <1>1, <1>2
<1> QED
  BY <1>1, <1>3 DEF In

\* What is cut out is the one element.
LEMMA CutKeeps ==
  ASSUME NEW S, NEW q \in Seq(S), NEW n \in Nat, n = Len(q), NEW i \in 1 .. n,
         NEW t, t = SubSeq(q, 1, i - 1) \o SubSeq(q, i + 1, n)
  PROVE  t \in Seq(S) /\ \A x : In(q, x) /\ x # q[i] => In(t, x)
<1> PICK a, b : a = SubSeq(q, 1, i - 1) /\ b = SubSeq(q, i + 1, n)
  OBVIOUS
<1>1. /\ \A k \in 1 .. n : q[k] \in S
      /\ i \in Int /\ i >= 1 /\ i <= n /\ i - 1 \in Int /\ i + 1 \in Int /\ n \in Int /\ 1 \in Int
      /\ DOMAIN q = 1 .. n
  OBVIOUS
<1>2. a \in Seq(S) /\ Len(a) = i - 1 /\ \A k \in 1 .. (i - 1) : a[k] = q[k]
  <2>1. \A k \in 1 .. (i - 1) : q[k] \in S
    BY <1>1
  <2>2. /\ a \in Seq(S) /\ Len(a) = IF 1 <= i - 1 THEN (i - 1) - 1 + 1 ELSE 0
        /\ \A k \in 1 .. ((i - 1) - 1 + 1) : a[k] = q[1 + k - 1]
    BY <1>1, <2>1, SubSeqProperties
  <2> QED
    BY <1>1, <2>2
<1>3. b \in Seq(S) /\ Len(b) = n - i /\ \A k \in 1 .. (n - i) : b[k] = q[i + k]
  <2>1. \A k \in (i + 1) .. n : q[k] \in S
    BY <1>1
  <2>2. /\ b \in Seq(S) /\ Len(b) = IF i + 1 <= n THEN n - (i + 1) + 1 ELSE 0
        /\ \A k \in 1 .. (n - (i + 1) + 1) : b[k] = q[(i + 1) + k - 1]
    BY <1>1, <2>1, SubSeqProperties
  <2>3. Len(b) = n - i
    BY <1>1, <2>2
  <2>4. ASSUME NEW k \in 1 .. (n - i) PROVE b[k] = q[i + k]
    <3>1. k \in 1 .. (n - (i + 1) + 1) /\ (i + 1) + k - 1 = i + k
      BY <1>1
    <3> QED
      BY <2>2, <3>1
  <2> QED
    BY <2>2, <2>3, <2>4
<1>4. /\ t \in Seq(S) /\ Len(t) = (i - 1) + (n - i)
      /\ \A k \in 1 .. (i - 1) + (n - i) : t[k] = IF k <= i - 1 THEN a[k] ELSE b[k - (i - 1)]
  <2>1. /\ t \in Seq(S) /\ Len(t) = Len(a) + Len(b)
        /\ \A k \in 1 .. Len(a) + Len(b) : t[k] = IF k <= Len(a) THEN a[k] ELSE b[k - Len(a)]
    <3>1. t = a \o b
      BY Zenon
    <3>2. a \in Seq(S) /\ b \in Seq(S)
      BY <1>2, <1>3
    <3> QED
      BY ONLY <3>1, <3>2, ConcatProperties, Zenon
  <2> QED
    BY <1>2, <1>3, <2>1
<1>5. DOMAIN t = 1 .. (n - 1)
  <2>1. (i - 1) + (n - i) = n - 1
    BY <1>1
  <2>2. t \in Seq(S) /\ Len(t) = n - 1
    BY <1>4, <2>1, Zenon
  <2>3. DOMAIN t = 1 .. Len(t)
    BY ONLY <2>2
  <2> QED
    BY <2>2, <2>3, Zenon
<1>6. ASSUME NEW k \in 1 .. n, k < i PROVE k \in DOMAIN t /\ t[k] = q[k]
  <2>1. k \in 1 .. (i - 1) /\ k <= i - 1 /\ k \in 1 .. (n - 1) /\ k \in 1 .. (i - 1) + (n - i)
    BY <1>1, <1>6
  <2>2. t[k] = a[k] /\ a[k] = q[k]
    BY <1>2, <1>4, <2>1
  <2> QED
    BY <1>5, <2>1, <2>2
<1>7. ASSUME NEW k \in 1 .. n, k > i PROVE k - 1 \in DOMAIN t /\ t[k - 1] = q[k]
  <2> PICK h : h = k - i
    OBVIOUS
  <2>1. h \in 1 .. (n - i) /\ (k - 1) - (i - 1) = h /\ i + h = k /\ ~(k - 1 <= i - 1)
        /\ k - 1 \in 1 .. (n - 1) /\ k - 1 \in 1 .. (i - 1) + (n - i)
    BY <1>1, <1>7
  <2>2. t[k - 1] = b[h] /\ b[h] = q[k]
    BY <1>3, <1>4, <2>1
  <2> QED
    BY <1>5, <2>1, <2>2
<1>8. \A k \in 1 .. n : k < i \/ k = i \/ k > i
  BY <1>1
<1>9. ASSUME NEW x, In(q, x), x # q[i] PROVE In(t, x)
  <2>1. PICK k \in 1 .. n : q[k] = x
    BY <1>1, <1>9 DEF In
  <2>2. CASE k < i
    BY <1>6, <2>1, <2>2, Zenon DEF In
  <2>3. CASE k > i
    BY <1>7, <2>1, <2>3, Zenon DEF In
  <2> QED
    BY <1>8, <1>9, <2>1, <2>2, <2>3, Zenon
<1> QED
  BY <1>4, <1>9

\* list.Remove takes nothing else.
LEMMA WithoutKeeps ==
  ASSUME apps \in Seq(Apps!Pids), NEW q
  PROVE  /\ Apps!Without(q) \in Seq(Apps!Pids)
         /\ \A x : In(apps, x) /\ x # q => In(Apps!Without(q), x)
<1>1. CASE ~(\E j \in DOMAIN apps : apps[j] = q)
  <2>1. Apps!Without(q) = apps
    BY <1>1 DEF Apps!Without
  <2> QED
    BY <2>1
<1>2. CASE \E j \in DOMAIN apps : apps[j] = q
  <2> PICK i : i = CHOOSE j \in DOMAIN apps : apps[j] = q
    OBVIOUS
  <2>1. i \in DOMAIN apps /\ apps[i] = q
    BY <1>2
  <2> PICK n : n = Len(apps)
    OBVIOUS
  <2>2. Apps!Without(q) = SubSeq(apps, 1, i - 1) \o SubSeq(apps, i + 1, n)
    BY <1>2 DEF Apps!Without
  <2>3. n \in Nat /\ i \in 1 .. n
    BY <2>1
  <2> QED
    BY <2>1, <2>2, <2>3, CutKeeps
<1> QED
  BY <1>1, <1>2

Still == UNCHANGED <<appMail, apps, toStop, busy>>
Tells(m) == /\ m \in Notices /\ appMail' = Append(appMail, m) /\ UNCHANGED <<apps, toStop, busy>>
            /\ m.t = "init" => Apps!InitStop
Handles == Apps!HandleInfo \/ Apps!HandleAppExit \/ Apps!HandleAppStop \/ Apps!HandleInitStop

\* A step leaves the application actor alone, sends it a message, is one of it,
\* or is the answer of a supervisor it stops.
LEMMA ActorCases ==
  ASSUME AppTypes, JobsRight, Apps!Next
  PROVE  \/ Still \/ (\E m : Tells(m)) \/ Handles \/ Apps!StopNext \/ Apps!AppsAnswered
         \/ \E p \in Apps!Pids : Apps!StopAnswered(p)
<1> DEFINE Known == Still \/ \E m : Tells(m)
<1>1. ASSUME NEW p \in Apps!Pids,
             \/ Apps!PlainStarted(p) \/ Apps!StartChild(p) \/ Apps!ChildStarted(p)
             \/ Apps!HandleLink(p) \/ Apps!HandleStop(p) \/ Apps!HandleExit(p)
             \/ Apps!SweepAsk(p) \/ Apps!SweepNext(p) \/ Apps!Ends(p) \/ Apps!Visit(p)
      PROVE  Known
  BY <1>1 DEF Apps!PlainStarted, Apps!StartChild, Apps!ChildStarted,
       Apps!HandleLink, Apps!HandleStop, Apps!HandleExit, Apps!SweepAsk, Apps!SweepNext,
       Apps!Ends, Apps!Visit, Apps!appVars, Still
<1>2. ASSUME NEW s \in Starters,
             \/ \E n \in AppNames : Apps!AppCheck(s, n) \/ Apps!AppRestart(s, n)
             \/ Apps!AppBegin(s) \/ Apps!AppPanics(s) \/ Apps!AppNil(s) \/ Apps!AppStarted(s)
             \/ Apps!AppRestarted(s)
      PROVE  Known
  BY <1>2 DEF Apps!AppCheck, Apps!AppRestart, Apps!AppBegin, Apps!AppPanics, Apps!AppNil, Apps!AppStarted,
       Apps!AppRestarted, Apps!appVars, Still
<1>3. ASSUME Apps!StartPlain \/ Apps!AppsGivenUp \/ Apps!Visited \/ Apps!KernelStop PROVE Known
  BY <1>3 DEF Apps!StartPlain, Apps!AppsGivenUp, Apps!Visited, Apps!KernelStop, Apps!appVars, Still
<1>4. ASSUME NEW p \in Apps!Pids, Apps!HandleEnd(p) \/ Apps!Crash(p) PROVE Known
  <2>1. /\ appMail' = appMail \/ appMail' = Append(appMail, [t |-> "exit", x |-> p])
        /\ UNCHANGED <<apps, toStop, busy>>
    BY <1>4 DEF Apps!HandleEnd, Apps!Crash, Apps!PidExits, Apps!Msg
  <2>2. [t |-> "exit", x |-> p] \in Notices /\ [t |-> "exit", x |-> p].t # "init"
    BY DEF Notices
  <2> QED
    BY <2>1, <2>2 DEF Still, Tells
<1>5. ASSUME NEW s \in Starters, Apps!AppTells(s) PROVE Known
  <2> PICK m : m = [t |-> "info", x |-> job[s].pid]
    OBVIOUS
  <2>1. job[s].pid \in Apps!Pids
    BY <1>5 DEF Apps!AppTells, Apps!At, JobsRight, JobRight, HasPid, AppTypes, Jobs
  <2>2. m \in Notices /\ m.t # "init"
    BY <2>1 DEF Notices
  <2>3. appMail' = Append(appMail, m) /\ UNCHANGED <<apps, toStop, busy>>
    BY <1>5 DEF Apps!AppTells, Apps!Msg
  <2> QED
    BY <2>2, <2>3, Zenon DEF Tells
<1>6. ASSUME NEW n \in AppNames, Apps!AppStop(n) PROVE Known
  <2> PICK m : m = [t |-> "stop", x |-> n]
    OBVIOUS
  <2>1. m \in Notices /\ m.t # "init"
    BY DEF Notices
  <2>2. appMail' = Append(appMail, m) /\ UNCHANGED <<apps, toStop, busy>>
    BY <1>6 DEF Apps!AppStop, Apps!Msg
  <2> QED
    BY <2>1, <2>2, Zenon DEF Tells
<1>7. ASSUME Apps!InitStop PROVE Known
  <2> PICK m : m = [t |-> "init", x |-> None]
    OBVIOUS
  <2>1. m \in Notices
    BY DEF Notices
  <2>2. appMail' = Append(appMail, m) /\ UNCHANGED <<apps, toStop, busy>>
    BY <1>7 DEF Apps!InitStop, Apps!Msg
  <2> QED
    BY <1>7, <2>1, <2>2, Zenon DEF Tells
<1> HIDE DEF Known
<1>8. \/ Known \/ Handles \/ Apps!StopNext \/ Apps!AppsAnswered
      \/ \E p \in Apps!Pids : Apps!StopAnswered(p)
  BY <1>1, <1>2, <1>3, <1>4, <1>5, <1>6, <1>7, Zenon DEF Apps!Next, Handles
<1> QED
  BY <1>8, Zenon DEF Known

\* What is in the mailbox when a message comes, and when one is taken.
LEMMA NoticeComes ==
  ASSUME AppTypes, NEW m, Tells(m)
  PROVE  /\ appMail' \in Seq(Notices)
         /\ \A i, p : Told(appMail, i, p) => Told(appMail', i, p)
         /\ \A i : IsInit(appMail, i) => IsInit(appMail', i)
         /\ \E k \in Nat : /\ \A i : IsInit(appMail', i) => IsInit(appMail, i) \/ (i = k /\ m.t = "init")
                           /\ m.t = "init" => IsInit(appMail', k)
                           /\ m.t = "info" => Told(appMail', k, m.x)
                           /\ \A i \in DOMAIN appMail : i \in Nat /\ i < k
<1> PICK t : t = appMail'
  OBVIOUS
<1>1. PICK k \in Nat : /\ t \in Seq(Notices) /\ k \in DOMAIN t /\ k \notin DOMAIN appMail /\ t[k] = m
                       /\ \A i \in DOMAIN t : i \in DOMAIN appMail \/ i = k
                       /\ \A i \in DOMAIN appMail : i \in DOMAIN t /\ i \in Nat /\ i < k /\ t[i] = appMail[i]
  <2>1. appMail \in Seq(Notices) /\ m \in Notices /\ t = Append(appMail, m)
    BY DEF Tells, AppTypes
  <2> QED
    BY <2>1, AtEnd
<1>2. ASSUME NEW i, NEW p, Told(appMail, i, p) PROVE Told(appMail', i, p)
  BY <1>1, <1>2, Zenon DEF Told
<1>3. ASSUME NEW i, IsInit(appMail, i) PROVE IsInit(appMail', i)
  BY <1>1, <1>3, Zenon DEF IsInit
<1>4. ASSUME NEW i, IsInit(appMail', i) PROVE IsInit(appMail, i) \/ (i = k /\ m.t = "init")
  BY <1>1, <1>4, Zenon DEF IsInit
<1>5. (m.t = "init" => IsInit(appMail', k)) /\ (m.t = "info" => Told(appMail', k, m.x))
  BY <1>1, Zenon DEF IsInit, Told
<1>6. \A i \in DOMAIN appMail : i \in Nat /\ i < k
  BY <1>1, Zenon
<1> QED
  BY <1>1, <1>2, <1>3, <1>4, <1>5, <1>6, Zenon

\* What is in the mailbox when its first message is taken.
LEMMA NoticeTaken ==
  ASSUME AppTypes, appMail # <<>>, appMail' = Tail(appMail)
  PROVE  /\ appMail' \in Seq(Notices) /\ Head(appMail) \in Notices
         /\ \A p : Told(appMail, 1, p) => Head(appMail).t = "info" /\ Head(appMail).x = p
         /\ IsInit(appMail, 1) <=> Head(appMail).t = "init"
         /\ \A i, p : Told(appMail, i, p) => i \in Nat /\ (i = 1 \/ Told(appMail', i - 1, p))
         /\ \A i : IsInit(appMail, i) => i \in Nat /\ (i = 1 \/ IsInit(appMail', i - 1))
         /\ \A i : IsInit(appMail', i) => i \in Nat /\ IsInit(appMail, i + 1) /\ i + 1 # 1
<1> PICK t : t = appMail'
  OBVIOUS
<1>1. /\ t \in Seq(Notices) /\ Head(appMail) = appMail[1] /\ 1 \in DOMAIN appMail /\ Head(appMail) \in Notices
      /\ \A i \in DOMAIN t : i \in Nat /\ i + 1 \in DOMAIN appMail /\ t[i] = appMail[i + 1] /\ i + 1 # 1
      /\ \A i \in DOMAIN appMail : i \in Nat /\ (i = 1 \/ (i - 1 \in DOMAIN t /\ t[i - 1] = appMail[i]))
  BY AtHead DEF AppTypes
<1>2. /\ \A p : Told(appMail, 1, p) => Head(appMail).t = "info" /\ Head(appMail).x = p
      /\ IsInit(appMail, 1) <=> Head(appMail).t = "init"
  BY <1>1, Zenon DEF Told, IsInit
<1>3. ASSUME NEW i, NEW p, Told(appMail, i, p) PROVE i \in Nat /\ (i = 1 \/ Told(appMail', i - 1, p))
  BY <1>1, <1>3, Zenon DEF Told
<1>4. ASSUME NEW i, IsInit(appMail, i) PROVE i \in Nat /\ (i = 1 \/ IsInit(appMail', i - 1))
  BY <1>1, <1>4, Zenon DEF IsInit
<1>5. ASSUME NEW i, IsInit(appMail', i) PROVE i \in Nat /\ IsInit(appMail, i + 1) /\ i + 1 # 1
  BY <1>1, <1>5, Zenon DEF IsInit
<1>6. appMail' \in Seq(Notices) /\ Head(appMail) \in Notices
  BY <1>1
<1>7. \A i, p : Told(appMail, i, p) => i \in Nat /\ (i = 1 \/ Told(appMail', i - 1, p))
  BY <1>3
<1>8. \A i : IsInit(appMail, i) => i \in Nat /\ (i = 1 \/ IsInit(appMail', i - 1))
  BY <1>4
<1>9. \A i : IsInit(appMail', i) => i \in Nat /\ IsInit(appMail, i + 1) /\ i + 1 # 1
  BY <1>5
<1> QED
  BY <1>2, <1>6, <1>7, <1>8, <1>9

\* Every step keeps the types of processes, starters and the application actor.
LEMMA AppTypesStep ==
  ASSUME AppTypes, EndTypes, Turn, Family, JobsRight, MapsRight, Apps!Next
  PROVE  AppTypes'
<1>1. /\ kind' \in [Apps!Pids -> {"none", "sup", "child", "plain"}]
      /\ state' \in [Apps!Pids -> Working \cup {"init", "dying", "dead"}]
      /\ parent' \in [Apps!Pids -> Apps!Pids \cup {None}]
  BY Lives, LifeTypes, Zenon
<1>2. job' \in [Starters -> Jobs] /\ appMaps' \in [AppNames -> Apps!Pids \cup {Apps!Nil, None}]
  BY JobsStep, Zenon
<1>3. appMail \in Seq(Notices) /\ apps \in Seq(Apps!Pids) /\ toStop \in Seq(Apps!Pids \cup {0})
  BY DEF AppTypes
<1> DEFINE Goal == appMail' \in Seq(Notices) /\ apps' \in Seq(Apps!Pids) /\ toStop' \in Seq(Apps!Pids \cup {0})
<1>4. ASSUME Still PROVE Goal
  BY <1>3, <1>4 DEF Still
<1>5. ASSUME NEW m, Tells(m) PROVE Goal
  BY <1>3, <1>5, NoticeComes DEF Tells
<1>6. ASSUME Apps!HandleInfo PROVE Goal
  <2>1. appMail # <<>> /\ appMail' = Tail(appMail) /\ Head(appMail).t = "info" /\ toStop' = toStop
    BY <1>6 DEF Apps!HandleInfo, Apps!App
  <2> PICK p : p = Head(appMail).x
    OBVIOUS
  <2>2. appMail' \in Seq(Notices) /\ p \in Apps!Pids
    <3>1. appMail' \in Seq(Notices) /\ Head(appMail) \in Notices
      BY <2>1, NoticeTaken, Zenon
    <3> QED
      BY <2>1, <3>1 DEF Notices
  <2>3. apps' = <<p>> \o apps
    BY <1>6 DEF Apps!HandleInfo
  <2> QED
    BY <1>3, <2>1, <2>2, <2>3, AtFront, Zenon
<1>7. ASSUME Apps!HandleAppExit PROVE Goal
  <2>1. appMail # <<>> /\ appMail' = Tail(appMail) /\ toStop' = toStop
        /\ (apps' = apps \/ \E q : apps' = Apps!Without(q))
    BY <1>7 DEF Apps!HandleAppExit, Apps!App
  <2>2. apps' \in Seq(Apps!Pids)
    BY <1>3, <2>1, WithoutKeeps
  <2>3. appMail' \in Seq(Notices)
    BY <2>1, NoticeTaken, Zenon
  <2> QED
    BY <1>3, <2>1, <2>2, <2>3, Zenon
<1>8. ASSUME Apps!HandleAppStop PROVE Goal
  <2>1. appMail # <<>> /\ appMail' = Tail(appMail) /\ toStop' = toStop /\ apps' = apps
    BY <1>8 DEF Apps!HandleAppStop, Apps!App
  <2>2. appMail' \in Seq(Notices)
    BY <2>1, NoticeTaken, Zenon
  <2> QED
    BY <1>3, <2>1, <2>2, Zenon
<1>9. ASSUME Apps!HandleInitStop PROVE Goal
  <2>1. appMail # <<>> /\ appMail' = Tail(appMail) /\ toStop' = Append(apps, 0) /\ apps' = apps
    BY <1>9 DEF Apps!HandleInitStop, Apps!App
  <2>2. toStop' \in Seq(Apps!Pids \cup {0})
    BY <1>3, <2>1
  <2>3. appMail' \in Seq(Notices)
    BY <2>1, NoticeTaken, Zenon
  <2> QED
    BY <1>3, <2>1, <2>2, <2>3, Zenon
<1>10. ASSUME Apps!StopNext \/ Apps!AppsAnswered PROVE Goal
  <2>1. appMail' = appMail /\ apps' = apps /\ ((toStop # <<>> /\ toStop' = Tail(toStop)) \/ toStop' = <<>>)
    BY <1>10 DEF Apps!StopNext, Apps!AppsAnswered
  <2> PICK S : S = Apps!Pids \cup {0}
    OBVIOUS
  <2>2. toStop # <<>> => Tail(toStop) \in Seq(S)
    BY <1>3
  <2>3. <<>> \in Seq(S)
    OBVIOUS
  <2> QED
    BY <1>3, <2>1, <2>2, <2>3, Zenon
<1>11. ASSUME NEW p \in Apps!Pids, Apps!StopAnswered(p) PROVE Goal
  BY <1>3, <1>11 DEF Apps!StopAnswered
<1> HIDE DEF Goal
<1>12. Goal
  BY <1>4, <1>5, <1>6, <1>7, <1>8, <1>9, <1>10, <1>11, ActorCases, Zenon DEF Handles
<1> QED
  BY <1>1, <1>2, <1>12, Zenon DEF AppTypes, Goal

LEMMA NameIs ==
  ASSUME AppTypes, JobsRight, NEW s \in Starters, job[s].pid # None
  PROVE  Apps!NameOf(job[s].pid) = job[s].name /\ job[s].name \in AppNames
<1> PICK p, m : p = job[s].pid /\ m = job[s].name
  OBVIOUS
<1>1. m \in AppNames
  BY DEF JobsRight, JobRight, HasPid
<1>2. \A n \in AppNames : (\E t \in Starters : job[t].pid = p /\ job[t].name = n) <=> n = m
  BY <1>1, Zenon DEF JobsRight, OwnPid
<1> QED
  BY <1>1, <1>2, Zenon DEF Apps!NameOf

\* What the map has was in it before, or has just been started.
LEMMA MapKept ==
  ASSUME AppTypes, Apps!Next, NEW n \in AppNames, appMaps'[n] \in Apps!Pids
  PROVE  \/ appMaps'[n] = appMaps[n]
         \/ \E s \in Starters : Apps!AppStarted(s) /\ appMaps'[n] = job[s].pid
<1> DEFINE Stays == appMaps'[n] = appMaps[n]
<1>1. ASSUME NEW p \in Apps!Pids,
             \/ Apps!PlainStarted(p) \/ Apps!StartChild(p) \/ Apps!ChildStarted(p) \/ Apps!Crash(p)
             \/ Apps!HandleLink(p) \/ Apps!HandleStop(p) \/ Apps!HandleExit(p) \/ Apps!HandleEnd(p)
             \/ Apps!SweepAsk(p) \/ Apps!SweepNext(p) \/ Apps!StopAnswered(p) \/ Apps!Ends(p) \/ Apps!Visit(p)
      PROVE  Stays
  BY <1>1 DEF Apps!PlainStarted, Apps!StartChild, Apps!ChildStarted, Apps!Crash, Apps!HandleLink,
       Apps!HandleStop, Apps!HandleExit, Apps!HandleEnd, Apps!SweepAsk, Apps!SweepNext, Apps!StopAnswered,
       Apps!Ends, Apps!Visit, Apps!appVars
<1>2. ASSUME NEW s \in Starters,
             \/ \E m \in AppNames : Apps!AppCheck(s, m) \/ Apps!AppRestart(s, m)
             \/ Apps!AppBegin(s) \/ Apps!AppPanics(s) \/ Apps!AppTells(s) \/ Apps!AppRestarted(s)
      PROVE  Stays
  BY <1>2 DEF Apps!AppCheck, Apps!AppRestart, Apps!AppBegin, Apps!AppPanics, Apps!AppTells, Apps!AppRestarted,
       Apps!appVars
<1>3. ASSUME \/ Apps!StartPlain \/ Apps!HandleInfo \/ Apps!HandleAppStop
             \/ Apps!HandleInitStop \/ Apps!StopNext \/ \E m \in AppNames : Apps!AppStop(m)
      PROVE  Stays
  BY <1>3 DEF Apps!StartPlain, Apps!HandleInfo, Apps!HandleAppStop, Apps!HandleInitStop,
       Apps!StopNext, Apps!AppStop, Apps!appVars
<1>4. ASSUME Apps!InitStop \/ Apps!AppsAnswered \/ Apps!AppsGivenUp \/ Apps!Visited \/ Apps!KernelStop
      PROVE  Stays
  BY <1>4 DEF Apps!InitStop, Apps!AppsAnswered, Apps!AppsGivenUp, Apps!Visited, Apps!KernelStop, Apps!appVars
<1>5. ASSUME Apps!HandleAppExit PROVE Stays
  <2>1. appMaps' = appMaps \/ \E x : appMaps' = [appMaps EXCEPT ![x] = None]
    BY <1>5, Zenon DEF Apps!HandleAppExit
  <2> QED
    BY <2>1, PidFacts DEF AppTypes
<1>6. ASSUME NEW s \in Starters, Apps!AppNil(s) PROVE Stays
  BY <1>6, PidFacts DEF Apps!AppNil, AppTypes
<1>7. ASSUME NEW s \in Starters, Apps!AppStarted(s) PROVE Stays \/ appMaps'[n] = job[s].pid
  BY <1>7 DEF Apps!AppStarted, AppTypes
<1> HIDE DEF Stays
<1>8. Stays \/ \E s \in Starters : Apps!AppStarted(s) /\ appMaps'[n] = job[s].pid
  BY <1>1, <1>2, <1>3, <1>4, <1>5, <1>6, <1>7, Zenon DEF Apps!Next
<1> QED
  BY <1>8, Zenon DEF Stays

\* A start that is done was done before, or is told now, or was a restart.
LEMMA DoneBy ==
  ASSUME AppTypes, Apps!Next, NEW t \in Starters, job'[t].at = "done"
  PROVE  \/ job'[t] = job[t]
         \/ job'[t].pid = job[t].pid /\ (Apps!AppTells(t) \/ Apps!AppRestarted(t))
<1> DEFINE Same == job'[t] = job[t]
<1>0. job \in [Starters -> Jobs] /\ {"stored", "done", "failed"} \subseteq JobStages
  BY DEF AppTypes, JobStages
<1>1. ASSUME NEW s \in Starters, NEW n \in AppNames, Apps!AppCheck(s, n) \/ Apps!AppRestart(s, n) PROVE Same
  <2>1. PICK a \in {"start", "refused", "restart"} :
          job' = [job EXCEPT ![s] = [job[s] EXCEPT !.name = n, !.at = a]]
    BY <1>1 DEF Apps!AppCheck, Apps!AppRestart
  <2>2. [job[s] EXCEPT !.name = n, !.at = a].at = a
    <3>1. job[s] \in Jobs
      BY <1>0
    <3>2. [job[s] EXCEPT !.name = n] \in [at : JobStages, name : {n}, pid : Apps!Pids \cup {None}]
      BY <3>1 DEF Jobs
    <3> PICK r : r = [job[s] EXCEPT !.name = n]
      OBVIOUS
    <3>3. [r EXCEPT !.at = a].at = a
      BY <3>2
    <3> QED
      BY <3>3, Zenon
  <2> PICK r : r = [job[s] EXCEPT !.name = n, !.at = a]
    OBVIOUS
  <2>3. job' = [job EXCEPT ![s] = r] /\ r.at = a
    BY <2>1, <2>2, Zenon
  <2> QED
    BY <1>0, <2>3
<1>2. ASSUME NEW s \in Starters, Apps!AppBegin(s) PROVE Same
  <2>1. \A u \in Starters : u # s => job'[u] = job[u]
    BY <1>0, <1>2 DEF Apps!AppBegin
  <2>2. job'[s].at \in {"starting", "restarting"}
    BY <1>0, <1>2 DEF Apps!AppBegin
  <2> QED
    BY <2>1, <2>2
<1>3. ASSUME NEW s \in Starters, Apps!AppPanics(s) \/ Apps!AppNil(s) \/ Apps!AppStarted(s) PROVE Same
  <2>1. PICK a \in {"failed", "stored"} : job' = [job EXCEPT ![s].at = a]
    BY <1>3 DEF Apps!AppPanics, Apps!AppNil, Apps!AppStarted
  <2>2. a \in JobStages
    BY <1>0
  <2>3. job'[s].at = a /\ \A u \in Starters : u # s => job'[u] = job[u]
    BY <2>1, <2>2, JobTo, Zenon
  <2> QED
    BY <2>3
<1>4. ASSUME NEW s \in Starters, Apps!AppTells(s) \/ Apps!AppRestarted(s)
      PROVE  Same \/ (s = t /\ job'[t].pid = job[t].pid)
  <2>1. job' = [job EXCEPT ![s].at = "done"]
    BY <1>4 DEF Apps!AppTells, Apps!AppRestarted
  <2>2. job'[s].pid = job[s].pid /\ \A u \in Starters : u # s => job'[u] = job[u]
    BY <1>0, <2>1, JobTo, Zenon
  <2> QED
    BY <2>2
<1>5. ASSUME NEW p \in Apps!Pids,
             \/ Apps!PlainStarted(p) \/ Apps!StartChild(p) \/ Apps!ChildStarted(p) \/ Apps!Crash(p)
             \/ Apps!HandleLink(p) \/ Apps!HandleStop(p) \/ Apps!HandleExit(p) \/ Apps!HandleEnd(p)
             \/ Apps!SweepAsk(p) \/ Apps!SweepNext(p) \/ Apps!StopAnswered(p) \/ Apps!Ends(p) \/ Apps!Visit(p)
      PROVE  Same
  BY <1>5 DEF Apps!PlainStarted, Apps!StartChild, Apps!ChildStarted, Apps!Crash, Apps!HandleLink,
       Apps!HandleStop, Apps!HandleExit, Apps!HandleEnd, Apps!SweepAsk, Apps!SweepNext, Apps!StopAnswered,
       Apps!Ends, Apps!Visit
<1>6. ASSUME \/ Apps!StartPlain \/ Apps!HandleInfo \/ Apps!HandleAppStop \/ Apps!HandleAppExit
             \/ Apps!HandleInitStop \/ Apps!StopNext \/ \E n \in AppNames : Apps!AppStop(n)
      PROVE  Same
  BY <1>6 DEF Apps!StartPlain, Apps!HandleInfo, Apps!HandleAppStop, Apps!HandleAppExit, Apps!HandleInitStop,
       Apps!StopNext, Apps!AppStop
<1>7. ASSUME Apps!InitStop \/ Apps!AppsAnswered \/ Apps!AppsGivenUp \/ Apps!Visited \/ Apps!KernelStop
      PROVE  Same
  BY <1>7 DEF Apps!InitStop, Apps!AppsAnswered, Apps!AppsGivenUp, Apps!Visited, Apps!KernelStop
<1> HIDE DEF Same
<1>8. Same \/ (job'[t].pid = job[t].pid /\ (Apps!AppTells(t) \/ Apps!AppRestarted(t)))
  BY <1>1, <1>2, <1>3, <1>4, <1>5, <1>6, <1>7, Zenon DEF Apps!Next
<1> QED
  BY <1>8, Zenon DEF Same

\* PidExit takes from the list no supervisor that stays in the map.
LEMMA ExitKeeps ==
  ASSUME AppTypes, JobsRight, MapsRight, Apps!HandleAppExit, NEW p \in Apps!Pids, NEW n \in AppNames,
         appMaps'[n] = p, appMaps[n] = p, In(apps, p)
  PROVE  In(apps', p)
<1> PICK x, q : x = Head(appMail).x /\ q = appMaps[Apps!NameOf(x)]
  OBVIOUS
<1>1. CASE ~(x \in names /\ q \in pushed)
  BY <1>1, Zenon DEF Apps!HandleAppExit
<1>2. CASE x \in names /\ q \in pushed
  <2>1. apps' = Apps!Without(q) /\ appMaps' = [appMaps EXCEPT ![Apps!NameOf(x)] = None]
    BY <1>2, Zenon DEF Apps!HandleAppExit
  <2>2. PICK s \in Starters : job[s].pid = x /\ x \in Apps!Pids
    BY <1>2, Zenon DEF MapsRight
  <2>3. Apps!NameOf(x) = job[s].name /\ job[s].name \in AppNames
    BY <2>2, NameIs, PidFacts
  <2>4. Apps!NameOf(x) # n
    BY <2>1, <2>3, PidFacts DEF AppTypes
  <2>5. p # q
    <3>1. PICK t \in Starters : job[t].pid = p
      BY Zenon DEF MapsRight
    <3>2. p # None
      BY PidFacts
    <3>3. \A m \in AppNames : appMaps[m] = p => m = job[t].name
      BY <3>1, <3>2, Zenon DEF JobsRight, JobRight
    <3> QED
      BY <2>3, <2>4, <3>3, Zenon
  <2>6. apps \in Seq(Apps!Pids)
    BY DEF AppTypes
  <2> QED
    BY <2>1, <2>5, <2>6, WithoutKeeps, Zenon
<1> QED
  BY <1>1, <1>2


-----------------------------------------------------------------------------
(* InitStop and the application actor. *)
LEMMA StagesOn ==
  ASSUME Apps!Next, stage # "running"
  PROVE  stage' # "running"
BY StageCases DEF Apps!initVars, Apps!InitStop, Apps!AppsAnswered, Apps!AppsGivenUp, Apps!Visit, Apps!Visited,
     Apps!KernelStop

\* The actor takes a message when it waits for nobody.
LEMMA HandlesTakes ==
  ASSUME Handles
  PROVE  /\ appMail # <<>> /\ appMail' = Tail(appMail) /\ busy = None /\ toStop = <<>>
         /\ \/ Apps!HandleInitStop /\ Head(appMail).t = "init" /\ toStop' = Append(apps, 0) /\ apps' = apps
            \/ Head(appMail).t # "init" /\ toStop' = toStop
BY DEF Handles, Apps!HandleInfo, Apps!HandleAppExit, Apps!HandleAppStop, Apps!HandleInitStop, Apps!App

\* One message of InitStop, and none while initStop goes over the list.
LEMMA AskedOnceStep ==
  ASSUME AppTypes, JobsRight, AskedOnce, Apps!Next
  PROVE  AskedOnce'
<1>0. stage # "running" => stage' # "running"
  BY StagesOn, Zenon
<1>1. /\ \A i, j : IsInit(appMail, i) /\ IsInit(appMail, j) => i = j
      /\ \A i : IsInit(appMail, i) => stage # "running" /\ toStop = <<>>
      /\ toStop # <<>> => stage # "running"
  BY Zenon DEF AskedOnce
<1>2. CASE appMail' = appMail /\ (toStop' = toStop \/ toStop # <<>>)
  BY <1>0, <1>1, <1>2, Zenon DEF AskedOnce
<1>3. ASSUME NEW m, Tells(m) PROVE AskedOnce'
  <2>1. PICK k \in Nat : \A i : IsInit(appMail', i) => IsInit(appMail, i) \/ (i = k /\ m.t = "init")
    BY <1>3, NoticeComes
  <2>2. toStop' = toStop
    BY <1>3 DEF Tells
  <2>3. CASE m.t # "init"
    BY <1>0, <1>1, <2>1, <2>2, <2>3, Zenon DEF AskedOnce
  <2>4. CASE m.t = "init"
    <3>1. stage = "running" /\ stage' = "apps"
      BY <1>3, <2>4 DEF Tells, Apps!InitStop
    <3>2. \A i : IsInit(appMail', i) => i = k
      BY <1>1, <2>1, <3>1, Zenon
    <3>3. toStop' = <<>> /\ stage' # "running"
      BY <1>1, <2>2, <3>1
    <3> QED
      BY <3>2, <3>3, Zenon DEF AskedOnce
  <2> QED
    BY <2>3, <2>4
<1>4. ASSUME Handles PROVE AskedOnce'
  <2>1. /\ appMail # <<>> /\ appMail' = Tail(appMail)
        /\ \/ Head(appMail).t = "init"
           \/ Head(appMail).t # "init" /\ toStop' = toStop
    BY <1>4, HandlesTakes, Zenon
  <2>2. /\ IsInit(appMail, 1) <=> Head(appMail).t = "init"
        /\ \A i : IsInit(appMail', i) => i \in Nat /\ IsInit(appMail, i + 1) /\ i + 1 # 1
    BY <2>1, NoticeTaken, Zenon
  <2>3. CASE Head(appMail).t = "init"
    <3>1. \A i : ~IsInit(appMail', i)
      BY <1>1, <2>2, <2>3, Zenon
    <3>2. stage' # "running"
      BY <1>0, <1>1, <2>2, <2>3, Zenon
    <3> QED
      BY <3>1, <3>2, Zenon DEF AskedOnce
  <2>4. CASE Head(appMail).t # "init"
    <3>1. toStop' = toStop
      BY <2>1, <2>4
    <3>2. ASSUME NEW i, NEW j, IsInit(appMail', i), IsInit(appMail', j) PROVE i = j
      <4>1. i \in Nat /\ j \in Nat /\ IsInit(appMail, i + 1) /\ IsInit(appMail, j + 1)
        BY <2>2, <3>2, Zenon
      <4>2. i + 1 = j + 1
        BY <1>1, <4>1, Zenon
      <4> QED
        BY <4>1, <4>2
    <3>3. \A i : IsInit(appMail', i) => stage # "running" /\ toStop = <<>>
      BY <1>1, <2>2, Zenon
    <3> QED
      BY <1>0, <1>1, <3>1, <3>2, <3>3, Zenon DEF AskedOnce
  <2> QED
    BY <2>3, <2>4
<1>5. CASE Still
  BY <1>2, <1>5 DEF Still
<1>6. CASE Apps!StopNext \/ Apps!AppsAnswered
  <2>1. appMail' = appMail /\ toStop # <<>>
    BY <1>6 DEF Apps!StopNext, Apps!AppsAnswered
  <2> QED
    BY <1>2, <2>1
<1>7. ASSUME NEW p \in Apps!Pids, Apps!StopAnswered(p) PROVE AskedOnce'
  <2>1. appMail' = appMail /\ toStop' = toStop
    BY <1>7 DEF Apps!StopAnswered
  <2> QED
    BY <1>2, <2>1
<1> QED
  BY <1>3, <1>4, <1>5, <1>6, <1>7, ActorCases, Zenon

\* A supervisor that is stored stays in what the actor knows, or is told.
LEMMA KnownStays ==
  ASSUME AppTypes, JobsRight, MapsRight, Apps!Next, NEW p \in Apps!Pids, NEW n \in AppNames,
         appMaps'[n] = p, appMaps[n] = p, (\E i : Told(appMail, i, p)) \/ In(apps, p)
  PROVE  (\E i : Told(appMail', i, p)) \/ In(apps', p)
<1> DEFINE Goal == (\E i : Told(appMail', i, p)) \/ In(apps', p)
<1>1. CASE Still
  BY <1>1, Zenon DEF Still
<1>2. ASSUME NEW m, Tells(m) PROVE Goal
  <2>1. apps' = apps /\ \A i : Told(appMail, i, p) => Told(appMail', i, p)
    BY <1>2, NoticeComes, Zenon DEF Tells
  <2> QED
    BY <2>1, Zenon
<1>3. CASE Handles
  <2>1. /\ appMail # <<>> /\ appMail' = Tail(appMail)
    BY <1>3, HandlesTakes, Zenon
  <2>2. /\ Told(appMail, 1, p) => Head(appMail).t = "info" /\ Head(appMail).x = p
        /\ \A i : Told(appMail, i, p) => i = 1 \/ Told(appMail', i - 1, p)
        /\ Head(appMail) \in Notices
    BY <2>1, NoticeTaken, Zenon
  <2>3. CASE Apps!HandleInfo
    <3> PICK x : x = Head(appMail).x
      OBVIOUS
    <3>1. Head(appMail).t = "info" /\ apps' = <<x>> \o apps
      BY <2>3 DEF Apps!HandleInfo, Apps!App
    <3>2. x \in Apps!Pids /\ apps \in Seq(Apps!Pids)
      BY <2>2, <3>1 DEF Notices, AppTypes
    <3> PICK t : t = apps'
      OBVIOUS
    <3>3. In(t, x) /\ \A y : In(apps, y) => In(t, y)
      <4>1. t = <<x>> \o apps
        BY <3>1
      <4> QED
        BY ONLY <3>2, <4>1, AtFront
    <3> QED
      BY <2>2, <3>3, Zenon
  <2>4. CASE Apps!HandleAppExit
    <3>1. Head(appMail).t # "info"
      BY <2>4 DEF Apps!HandleAppExit, Apps!App
    <3>2. In(apps, p) => In(apps', p)
      BY <2>4, ExitKeeps, Zenon
    <3> QED
      BY <2>2, <3>1, <3>2, Zenon
  <2>5. CASE Apps!HandleAppStop \/ Apps!HandleInitStop
    <3>1. Head(appMail).t # "info" /\ apps' = apps
      BY <2>5 DEF Apps!HandleAppStop, Apps!HandleInitStop, Apps!App
    <3> QED
      BY <2>2, <3>1, Zenon
  <2> QED
    BY <1>3, <2>3, <2>4, <2>5 DEF Handles
<1>4. CASE Apps!StopNext \/ Apps!AppsAnswered
  BY <1>4 DEF Apps!StopNext, Apps!AppsAnswered
<1>5. ASSUME NEW r \in Apps!Pids, Apps!StopAnswered(r) PROVE Goal
  BY <1>5 DEF Apps!StopAnswered
<1> QED
  BY <1>1, <1>2, <1>3, <1>4, <1>5, ActorCases, Zenon

\* A supervisor that AppStart has stored and told of is not lost by the actor.
LEMMA AppsKnownStep ==
  ASSUME AppTypes, EndTypes, Turn, Family, JobsRight, MapsRight, AppsKnown, Apps!Next
  PROVE  AppsKnown'
<1> SUFFICES ASSUME NEW s \in Starters, NEW n \in AppNames, job'[s].at = "done", appMaps'[n] = job'[s].pid
             PROVE  (\E i : Told(appMail', i, job'[s].pid)) \/ In(apps', job'[s].pid)
  BY Zenon DEF AppsKnown
<1> PICK p : p = job'[s].pid
  OBVIOUS
<1>0. {"stored", "done"} \subseteq JobStages
  BY DEF JobStages
<1>1. job[s].pid = p /\ \/ job'[s] = job[s]
                        \/ Apps!AppTells(s) \/ Apps!AppRestarted(s)
  BY DoneBy, Zenon
<1>2. p \in Apps!Pids
  <2>1. JobsRight' /\ job' \in [Starters -> Jobs]
    BY JobsStep, Zenon
  <2>2. job'[s].pid # None
    BY <2>1 DEF JobsRight, JobRight, HasPid
  <2> QED
    BY <2>1, <2>2 DEF Jobs
<1>3. appMaps[n] = p
  <2>1. ASSUME NEW t \in Starters, Apps!AppStarted(t), p = job[t].pid PROVE FALSE
    <3>1. s = t
      BY <1>1, <1>2, <2>1, PidFacts, Zenon DEF JobsRight, OwnPid
    <3>2. job' = [job EXCEPT ![t].at = "stored"]
      BY <2>1, Zenon DEF Apps!AppStarted
    <3>3. job'[s].at = "stored"
      BY <1>0, <3>1, <3>2, JobTo, Zenon
    <3> QED
      BY <3>3
  <2> QED
    BY <1>2, <2>1, MapKept, Zenon
<1>4. job[s].at \in {"stored", "done"}
  BY <1>1, <1>2, <1>3, PidFacts, Zenon DEF JobsRight, JobRight
<1>5. CASE Apps!AppTells(s)
  <2> PICK m : m = [t |-> "info", x |-> p]
    OBVIOUS
  <2>1. m \in Notices /\ m.t # "init" /\ m.t = "info" /\ m.x = p
    BY <1>2 DEF Notices
  <2>2. appMail' = Append(appMail, m) /\ UNCHANGED <<apps, toStop, busy>>
    BY <1>1, <1>5 DEF Apps!AppTells, Apps!Msg
  <2>3. Tells(m)
    BY <2>1, <2>2, Zenon DEF Tells
  <2>4. \E k : Told(appMail', k, p)
    BY <2>1, <2>3, NoticeComes, Zenon
  <2> QED
    BY <2>4
<1>6. CASE Apps!AppRestarted(s)
  BY <1>4, <1>6 DEF Apps!AppRestarted, Apps!At
<1>7. CASE job'[s] = job[s]
  <2>1. (\E i : Told(appMail, i, p)) \/ In(apps, p)
    BY <1>1, <1>3, <1>7, Zenon DEF AppsKnown
  <2> QED
    BY <1>2, <1>3, <2>1, KnownStays, Zenon
<1> QED
  BY <1>1, <1>5, <1>6, <1>7

\* What InitStop has found is what it was, unless it is found now.
LEMMA FoundBefore ==
  ASSUME AppTypes, EndTypes, Turn, Unborn, Family, JobsRight, Found, Stopping, Apps!Next, ~Apps!InitStop,
         NEW p \in appsThen', NEW n \in AppNames, appMaps'[n] = p, state'[p] = "alive", ~gaveUp'
  PROVE  /\ p \in appsThen /\ p \in Apps!Pids /\ appMaps[n] = p /\ state[p] = "alive" /\ ~gaveUp
         /\ stage = "apps"
         /\ \/ Before(appMail, p)
            \/ (\E i : IsInit(appMail, i)) /\ In(apps, p)
            \/ In(toStop, p)
            \/ busy = p
<1>1. p \in appsThen /\ ~gaveUp
  <2>1. CASE UNCHANGED Apps!initVars
    BY <2>1, Zenon DEF Apps!initVars
  <2>2. ~Apps!AppsGivenUp
    BY DEF Apps!AppsGivenUp
  <2>3. ASSUME Apps!AppsAnswered \/ (\E q \in Apps!Pids : Apps!Visit(q)) \/ Apps!Visited \/ Apps!KernelStop
        PROVE  p \in appsThen /\ ~gaveUp
    BY <2>3 DEF Apps!AppsAnswered, Apps!Visit, Apps!Visited, Apps!KernelStop
  <2> QED
    BY <2>1, <2>2, <2>3, StageCases, Zenon
<1>2. p \in Apps!Pids /\ kind[p] # "none" /\ state[p] # "init"
  BY <1>1, Zenon DEF EndTypes, Unborn, Found
<1>3. state[p] = "alive"
  <2>1. LifeStep \/ Unmoved
    BY Lives, Zenon
  <2> QED
    BY <1>2, <2>1, Ageing, Zenon
<1>4. appMaps[n] = p
  <2>1. ASSUME NEW s \in Starters, Apps!AppStarted(s), p = job[s].pid PROVE FALSE
    <3>1. job[s].at = "starting"
      BY <2>1 DEF Apps!AppStarted, Apps!At
    <3>2. p # None
      BY <1>2, PidFacts
    <3> QED
      BY <1>2, <2>1, <3>1, <3>2, Zenon DEF JobsRight, JobRight
  <2> QED
    BY <1>2, <2>1, MapKept, Zenon
<1> QED
  BY <1>1, <1>2, <1>3, <1>4, Zenon DEF Stopping

\* The walk does not begin before.
LEMMA StillApps ==
  ASSUME AskedOnce, Apps!Next, NEW p \in Apps!Pids, stage = "apps", ~gaveUp',
         \/ Before(appMail, p)
         \/ (\E i : IsInit(appMail, i)) /\ In(apps, p)
         \/ In(toStop, p)
         \/ busy = p
  PROVE  stage' = "apps"
<1>1. CASE Apps!AppsAnswered
  <2>1. toStop = <<0>> /\ busy = None
    BY <1>1 DEF Apps!AppsAnswered
  <2>2. toStop # <<>> /\ ~In(toStop, p) /\ busy # p
    BY <2>1, PidFacts DEF In
  <2> QED
    BY <2>2, Zenon DEF AskedOnce, Before
<1>2. CASE ~Apps!AppsAnswered
  BY <1>2, StageCases DEF Apps!initVars, Apps!InitStop, Apps!AppsGivenUp, Apps!Visit, Apps!Visited, Apps!KernelStop
<1> QED
  BY <1>1, <1>2

\* From the mailbox into the list of those to stop.
LEMMA StopsHandled ==
  ASSUME AppTypes, JobsRight, MapsRight, AskedOnce, Handles, NEW p \in Apps!Pids, NEW n \in AppNames,
         appMaps[n] = p, appMaps'[n] = p,
         \/ Before(appMail, p)
         \/ (\E i : IsInit(appMail, i)) /\ In(apps, p)
  PROVE  \/ Before(appMail', p)
         \/ (\E i : IsInit(appMail', i)) /\ In(apps', p)
         \/ In(toStop', p)
<1> DEFINE Goal == \/ Before(appMail', p)
                   \/ (\E i : IsInit(appMail', i)) /\ In(apps', p)
                   \/ In(toStop', p)
<1>0. /\ appMail # <<>> /\ appMail' = Tail(appMail)
      /\ apps \in Seq(Apps!Pids) /\ appMail \in Seq(Notices)
  BY HandlesTakes, Zenon DEF AppTypes
<1>1. /\ Told(appMail, 1, p) => Head(appMail).t = "info" /\ Head(appMail).x = p
      /\ IsInit(appMail, 1) <=> Head(appMail).t = "init"
      /\ \A i : Told(appMail, i, p) => i \in Nat /\ (i = 1 \/ Told(appMail', i - 1, p))
      /\ \A i : IsInit(appMail, i) => i \in Nat /\ (i = 1 \/ IsInit(appMail', i - 1))
  BY <1>0, NoticeTaken, Zenon
<1>2. \A i, j : IsInit(appMail, i) /\ IsInit(appMail, j) => i = j
  BY Zenon DEF AskedOnce
\* The message of InitStop is taken: what is in the list will be stopped.
<1>3. CASE Head(appMail).t = "init"
  <2>1. toStop' = Append(apps, 0)
    BY <1>3, HandlesTakes, Zenon
  <2>2. ~Before(appMail, p)
    <3> SUFFICES ASSUME NEW i, NEW j, i < j, Told(appMail, i, p), IsInit(appMail, j) PROVE FALSE
      BY Zenon DEF Before
    <3>1. j = 1
      BY <1>1, <1>2, <1>3, Zenon
    <3>2. i \in DOMAIN appMail
      BY DEF Told
    <3> QED
      BY <1>0, <3>1, <3>2
  <2>3. In(apps, p)
    BY <2>2
  <2>4. In(toStop', p)
    <3> PICK t : t = toStop'
      OBVIOUS
    <3>1. t = Append(apps, 0) /\ Len(apps) \in Nat
      BY <1>0, <2>1
    <3>2. DOMAIN t = 1 .. (Len(apps) + 1) /\ \A i \in DOMAIN apps : i \in DOMAIN t /\ t[i] = apps[i]
      BY <1>0, <3>1
    <3>3. In(t, p)
      BY <2>3, <3>2, Zenon DEF In
    <3> QED
      BY <3>3
  <2> QED
    BY <2>4
\* Another one is taken: the message of InitStop is still there.
<1>4. CASE Head(appMail).t # "init"
  <2>1. ASSUME NEW i, NEW j, i < j, Told(appMail, i, p), IsInit(appMail, j), i # 1 PROVE Goal
    <3>1. i \in Nat /\ j \in Nat /\ Told(appMail', i - 1, p) /\ IsInit(appMail', j - 1)
      BY <1>1, <1>4, <2>1, Zenon
    <3>2. i - 1 < j - 1
      BY <2>1, <3>1
    <3> QED
      BY <3>1, <3>2, Zenon DEF Before
  <2>2. ASSUME NEW j, IsInit(appMail, j), In(apps', p) PROVE Goal
    BY <1>1, <1>4, <2>2, Zenon
  <2>3. CASE Apps!HandleInfo
    <3> PICK x : x = Head(appMail).x
      OBVIOUS
    <3>1. Head(appMail).t = "info" /\ apps' = <<x>> \o apps
      BY <2>3 DEF Apps!HandleInfo, Apps!App
    <3>2. x \in Apps!Pids
      <4>1. Head(appMail) \in Notices
        BY <1>0, NoticeTaken, Zenon
      <4> QED
        BY <3>1, <4>1 DEF Notices
    <3> PICK t : t = apps'
      OBVIOUS
    <3>3. In(t, x) /\ \A y : In(apps, y) => In(t, y)
      <4>1. t = <<x>> \o apps
        BY <3>1
      <4> QED
        BY ONLY <1>0, <3>2, <4>1, AtFront
    <3> QED
      BY <1>1, <2>1, <2>2, <3>3, Zenon DEF Before
  <2>4. CASE Apps!HandleAppExit
    <3>1. Head(appMail).t # "info"
      BY <2>4 DEF Apps!HandleAppExit, Apps!App
    <3>2. In(apps, p) => In(apps', p)
      BY <2>4, ExitKeeps, Zenon
    <3> QED
      BY <1>1, <2>1, <2>2, <3>1, <3>2, Zenon DEF Before
  <2>5. CASE Apps!HandleAppStop
    <3>1. Head(appMail).t # "info" /\ apps' = apps
      BY <2>5 DEF Apps!HandleAppStop, Apps!App
    <3> QED
      BY <1>1, <2>1, <2>2, <3>1, Zenon DEF Before
  <2>6. CASE Apps!HandleInitStop
    BY <1>4, <2>6 DEF Apps!HandleInitStop, Apps!App
  <2> QED
    BY <2>3, <2>4, <2>5, <2>6, Zenon DEF Handles
<1> QED
  BY <1>3, <1>4

\* What InitStop has found stays on its way to the stop until it has answered.
LEMMA StoppingStep ==
  ASSUME AppTypes, EndTypes, Turn, Unborn, Family, JobsRight, MapsRight, AppsKnown, AskedOnce, Found, Stopping,
         Apps!Next
  PROVE  Stopping'
<1>1. CASE Apps!InitStop
  <2> SUFFICES ASSUME NEW p \in appsThen'
               PROVE  stage' = "apps" /\ (Before(appMail', p) \/ ((\E i : IsInit(appMail', i)) /\ In(apps', p)))
    BY Zenon DEF Stopping
  <2> PICK m : m = [t |-> "init", x |-> None]
    OBVIOUS
  <2>1. m \in Notices /\ m.t = "init"
    BY DEF Notices
  <2>2. appMail' = Append(appMail, m) /\ UNCHANGED <<apps, toStop, busy>> /\ stage' = "apps"
    BY <1>1 DEF Apps!InitStop, Apps!Msg
  <2>3. Tells(m)
    BY <1>1, <2>1, <2>2, Zenon DEF Tells
  <2>4. PICK k : /\ IsInit(appMail', k)
                 /\ \A i \in DOMAIN appMail : i < k
    BY <2>1, <2>3, NoticeComes
  <2>5. \A i : Told(appMail, i, p) => Told(appMail', i, p) /\ i < k
    BY <2>3, <2>4, NoticeComes, Zenon DEF Told
  <2>6. (\E i : Told(appMail, i, p)) \/ In(apps, p)
    <3>1. PICK s \in Starters, n \in AppNames : job[s].at = "done" /\ job[s].pid = p /\ appMaps[n] = p
      BY <1>1 DEF Apps!InitStop, Apps!At
    <3> QED
      BY <3>1, Zenon DEF AppsKnown
  <2>7. apps' = apps
    BY <2>2
  <2> QED
    BY <2>2, <2>4, <2>5, <2>6, <2>7, Zenon DEF Before
<1>2. CASE ~Apps!InitStop
  <2> SUFFICES ASSUME NEW p \in appsThen', NEW n \in AppNames, appMaps'[n] = p, state'[p] = "alive", ~gaveUp'
               PROVE  /\ stage' = "apps"
                      /\ \/ Before(appMail', p)
                         \/ (\E i : IsInit(appMail', i)) /\ In(apps', p)
                         \/ In(toStop', p)
                         \/ busy' = p
    BY Zenon DEF Stopping
  <2> DEFINE Waits == \/ Before(appMail', p)
                      \/ (\E i : IsInit(appMail', i)) /\ In(apps', p)
                      \/ In(toStop', p)
                      \/ busy' = p
  <2>1. /\ p \in Apps!Pids /\ appMaps[n] = p /\ state[p] = "alive" /\ stage = "apps"
        /\ \/ Before(appMail, p)
           \/ (\E i : IsInit(appMail, i)) /\ In(apps, p)
           \/ In(toStop, p)
           \/ busy = p
    BY <1>2, FoundBefore, Zenon
  <2>2. stage' = "apps"
    BY <2>1, StillApps, Zenon
  <2>3. p # None
    BY <2>1, PidFacts
  <2>4. ASSUME Still PROVE Waits
    BY <2>1, <2>4, Zenon DEF Still
  <2>5. ASSUME NEW m, Tells(m) PROVE Waits
    <3>1. /\ \A i : Told(appMail, i, p) => Told(appMail', i, p)
          /\ \A i : IsInit(appMail, i) => IsInit(appMail', i)
          /\ UNCHANGED <<apps, toStop, busy>>
      BY <2>5, NoticeComes, Zenon DEF Tells
    <3> QED
      BY <2>1, <3>1, Zenon DEF Before
  <2>6. ASSUME Handles PROVE Waits
    <3>1. busy = None /\ toStop = <<>>
      BY <2>6, HandlesTakes, Zenon
    <3>2. busy # p /\ ~In(toStop, p)
      BY <2>3, <3>1 DEF In
    <3> QED
      BY <2>1, <2>6, <3>2, StopsHandled, Zenon
  <2>7. ASSUME Apps!StopNext PROVE Waits
    <3>1. toStop # <<>> /\ busy = None /\ toStop' = Tail(toStop)
      BY <2>7 DEF Apps!StopNext
    <3>2. In(toStop, p)
      BY <2>1, <2>3, <3>1, Zenon DEF AskedOnce, Before
    <3>3. Head(toStop) = p \/ In(toStop', p)
      <4> PICK S, t : S = Apps!Pids \cup {0} /\ t = toStop'
        OBVIOUS
      <4>1. toStop \in Seq(S) /\ t = Tail(toStop)
        BY <3>1 DEF AppTypes
      <4>2. /\ Head(toStop) = toStop[1]
            /\ \A i \in DOMAIN toStop : i = 1 \/ (i - 1 \in DOMAIN t /\ t[i - 1] = toStop[i])
        BY <3>1, <4>1, AtHead
      <4> QED
        BY <3>2, <4>2, Zenon DEF In
    <3>4. ASSUME Head(toStop) = p PROVE Waits
      <4>1. PICK s \in Starters : job[s].pid = p
        BY <2>1, Zenon DEF MapsRight
      <4>2. Apps!NameOf(p) = n
        <5>1. n = job[s].name
          BY <2>1, <2>3, <4>1, Zenon DEF JobsRight, JobRight
        <5>2. job[s].pid # None
          BY <2>3, <4>1
        <5>3. Apps!NameOf(job[s].pid) = job[s].name
          BY <5>2, NameIs
        <5> QED
          BY <4>1, <5>1, <5>3, Zenon
      <4>3. appMaps[Apps!NameOf(Head(toStop))] = p
        BY <2>1, <3>4, <4>2, Zenon
      <4>4. Apps!SupStop(p)
        <5>1. p \in {q \in Apps!Pids : Apps!IsAlive(q)}
          BY <2>1 DEF Apps!IsAlive, Apps!Running
        <5> QED
          BY <2>7, <4>3, <5>1, Zenon DEF Apps!StopNext
      <4> QED
        BY <2>1, <4>4 DEF Apps!SupStop
    <3> QED
      BY <3>3, <3>4, Zenon
  <2>8. ASSUME Apps!AppsAnswered PROVE Waits
    BY <2>1, <2>2, <2>8 DEF Apps!AppsAnswered
  <2>9. ASSUME NEW r \in Apps!Pids, Apps!StopAnswered(r) PROVE Waits
    <3>1. appMail' = appMail /\ apps' = apps /\ toStop' = toStop /\ (busy' = busy \/ busy = r)
          /\ state'[r] = "leaving"
      BY <2>9 DEF Apps!StopAnswered, AppTypes
    <3>2. r # p
      BY <3>1
    <3> QED
      BY <2>1, <3>1, <3>2, Zenon
  <2> HIDE DEF Waits
  <2>10. Waits
    BY <2>4, <2>5, <2>6, <2>7, <2>8, <2>9, ActorCases, Zenon DEF Waits
  <2> QED
    BY <2>2, <2>10 DEF Waits
<1> QED
  BY <1>1, <1>2

-----------------------------------------------------------------------------
\* The invariant of applications and the end of the program: initially ...
LEMMA EndInit == Apps!Init => EndInv
<1> SUFFICES ASSUME Apps!Init PROVE EndInv
  OBVIOUS
<1> USE DEF Apps!Init
<1>1. AppTypes /\ EndTypes
  BY DEF AppTypes, EndTypes, Jobs, JobStages
<1>2. Turn
  <2>1. \A p \in Apps!Pids : kind[p] = "none" /\ p > 0
    BY PidFacts
  <2>2. 0 \in 0 .. MaxPids
    BY PidAssumption
  <2> QED
    BY <2>1, <2>2 DEF Turn
<1>3. Unborn /\ Family
  BY PidFacts DEF Unborn, Family
<1>4. JobsRight /\ MapsRight /\ AppsKnown
  BY PidFacts DEF JobsRight, JobRight, OwnPid, MapsRight, AppsKnown, HasPid
<1>5. AskedOnce
  BY DEF AskedOnce, IsInit
<1>6. Found /\ Stopping /\ Listing /\ Walking
  BY DEF Found, Stopping, Listing, Walking, Walks, Working
<1> QED
  BY <1>1, <1>2, <1>3, <1>4, <1>5, <1>6, Zenon DEF EndInv

\* ... after every step, and ...
LEMMA EndStep == EndInv /\ [Apps!Next]_Apps!vars => EndInv'
<1>1. ASSUME EndInv, Apps!Next PROVE EndInv'
  <2>1. /\ AppTypes /\ EndTypes /\ Turn /\ Unborn /\ Family /\ JobsRight /\ MapsRight /\ AppsKnown
        /\ AskedOnce /\ Found /\ Stopping /\ Listing /\ Walking
    BY <1>1 DEF EndInv
  <2>2. Turn' /\ Family'
    BY <1>1, <2>1, Lives, TurnFamily, Zenon
  <2>3. AppTypes' /\ EndTypes' /\ Unborn' /\ JobsRight' /\ MapsRight'
    BY <1>1, <2>1, AppTypesStep, EndTypesStep, UnbornStep, JobsStep, Zenon
  <2>4. AppsKnown' /\ AskedOnce' /\ Found' /\ Stopping'
    BY <1>1, <2>1, AppsKnownStep, AskedOnceStep, FoundStep, StoppingStep, Zenon
  <2>5. Listing' /\ Walking'
    BY <1>1, <2>1, ListingStep, WalkingStep, Zenon
  <2> QED
    BY <2>2, <2>3, <2>4, <2>5, Zenon DEF EndInv
<1>2. ASSUME EndInv, UNCHANGED Apps!vars PROVE EndInv'
  <2> USE <1>2 DEF EndInv, Apps!vars, Apps!procVars, Apps!appVars, Apps!initVars
  <2>1. AppTypes' /\ EndTypes' /\ Turn' /\ Unborn' /\ Family'
    BY Zenon DEF AppTypes, EndTypes, Turn, Unborn, Family
  <2>2. JobsRight'
    BY ZenonT(60) DEF JobsRight, JobRight, OwnPid
  <2>3. MapsRight'
    BY ZenonT(60) DEF MapsRight
  <2>4. AppsKnown'
    BY ZenonT(60) DEF AppsKnown
  <2>5. AskedOnce'
    BY ZenonT(60) DEF AskedOnce
  <2>6. Found' /\ Stopping'
    BY ZenonT(60) DEF Found, Stopping
  <2>7. Listing' /\ Walking'
    BY ZenonT(60) DEF Listing, Walking, Walks, Ahead
  <2> QED
    BY <2>1, <2>2, <2>3, <2>4, <2>5, <2>6, <2>7, Zenon
<1> QED
  BY <1>1, <1>2

\* ... it is what StopsAll needs.
LEMMA EndShows == EndInv => Apps!StopsAll
<1> SUFFICES ASSUME EndInv PROVE Apps!StopsAll
  OBVIOUS
<1>1. /\ \A p \in aliveThen : p \in Apps!Pids /\ kind[p] # "none" /\ p # None
      /\ stage = "stopped" => walk = {} /\ visited = None
      /\ stage = "stopped" => \A p \in aliveThen : state[p] \in Working => Ahead(p)
      /\ stage = "stopped" => \A c \in Apps!Pids : parent[c] \in aliveThen /\ state[c] \in Working \cup {"init"} =>
           Ahead(c) \/ Ahead(parent[c]) \/ hasty
  <2>1. \A p \in aliveThen : p \in Apps!Pids /\ kind[p] # "none" /\ p # None
    BY PidFacts DEF EndInv, EndTypes, Unborn
  <2> QED
    BY <2>1, Zenon DEF EndInv, Walking, Walks
<1>2. stage = "stopped" => \A p \in Apps!Pids : ~Ahead(p)
  BY <1>1, PidFacts DEF Ahead
<1>3. \A p : Apps!IsAlive(p) <=> state[p] \in Working
  BY DEF Apps!IsAlive, Apps!Running, Working
<1>4. stage = "stopped" => \A p \in aliveThen : ~Apps!IsAlive(p)
  BY <1>1, <1>2, <1>3, Zenon
<1>5. stage = "stopped" => hasty \/ \A c \in Apps!Pids : parent[c] \in aliveThen => ~Apps!IsAlive(c)
  BY <1>1, <1>2, <1>3
<1>6. stage \in {"walk", "stopped"} /\ ~gaveUp =>
        \A p \in appsThen : (\E n \in AppNames : appMaps[n] = p) => state[p] # "alive"
  BY DEF EndInv, Stopping
<1> QED
  BY <1>4, <1>5, <1>6 DEF Apps!StopsAll

\* InitStop, the application actor and the walk of the init server: when main
\* returns, what was alive when InitStop was called has ended or runs its
\* Terminate, and so has every child of it, unless the walk went past a
\* supervisor in its Terminate; and the applications stop before the walk,
\* unless the 600 s were over or another one has taken the place in the map.
THEOREM EveryoneStops == Apps!Spec => [](Apps!StopsAll /\ StopsAll)
<1>1. EndInv => Apps!StopsAll /\ StopsAll
  BY EndShows, Zenon DEF StopsAll
<1> QED
  BY <1>1, EndInit, EndStep, PTL DEF Apps!Spec
=============================================================================
