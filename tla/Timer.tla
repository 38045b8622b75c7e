------------------------------- MODULE Timer -------------------------------
(***************************************************************************)
(* One timer actor of kernel/timer.go: SendAfter hands it a timer, and at  *)
(* every tick it looks at the timers that are due within a second.  Those  *)
(* that are due later wait on coarser lists, which are looked at every     *)
(* second, ten seconds, minute and hour to move timers down.               *)
(*                                                                         *)
(* Time is counted in ticks (timerMinTick milliseconds): secM, tenM, minM  *)
(* and hourM are at once the lengths of a second, ... in ticks and the     *)
(* numbers of ticks between two looks at a list.  A due time between two   *)
(* ticks counts as the later one.                                          *)
(***************************************************************************)
EXTENDS Integers

CONSTANTS Timers,    \* the timers that are set, each once
          Sec, Ten, Minute, Hour,   \* secM, tenM, minM, hourM
          Delays,    \* the intervals SendAfter is called with
          MaxTime,   \* bound: ticks of the clock
          MaxLost    \* bound: ticks missing at a time

\* 1000 is a multiple of timerMinTick, so that no division rounds.
ASSUME LengthAssumption ==
  /\ Sec \in Nat \ {0} /\ Ten \in Nat /\ Minute \in Nat /\ Hour \in Nat
  /\ Sec < Ten /\ Ten < Minute /\ Minute < Hour
  /\ Hour % Sec = 0 /\ Hour % Ten = 0 /\ Hour % Minute = 0
ASSUME DelayAssumption == Delays \subseteq Nat \ {0}
ASSUME BoundAssumption == MaxTime \in Nat /\ MaxLost \in Nat

VARIABLES now,      \* Now2
          tick,     \* aTimer.tick
          lost,     \* ticks that are missing: dropped, or waiting in the mailbox
          place,    \* where each timer is: on one of five lists, or nowhere
          due,      \* actorTimer.d
          inv,      \* actorTimer.inv
          forever,  \* actorTimer.timerType = TimerTypeForever
          slack,    \* ticks by which the timer was held up by others
          dead      \* timers whose addressee is not alive any more

vars == <<now, tick, lost, place, due, inv, forever, slack, dead>>

Coarse == {"t1", "t2", "t3", "t4"}
Lists == Coarse \cup {"t0"}

\* The period in which list j is looked at, and the limit of the list below it.
Period(j) == CASE j = "t1" -> Sec [] j = "t2" -> Ten [] j = "t3" -> Minute [] j = "t4" -> Hour

Init == /\ now = 0 /\ tick = 0 /\ lost = 0
        /\ place = [t \in Timers |-> "free"]
        /\ due = [t \in Timers |-> 0]
        /\ inv = [t \in Timers |-> 1]
        /\ forever = [t \in Timers |-> FALSE]
        /\ slack = [t \in Timers |-> 0]
        /\ dead = {}

InWheel(t) == place[t] \in Lists

\* insertTimer: the list for a timer that is due in i ticks.
ListFor(i) == CASE i <= Sec -> "t0"
                [] i > Sec /\ i <= Ten -> "t1"
                [] i > Ten /\ i <= Minute -> "t2"
                [] i > Minute /\ i <= Hour -> "t3"
                [] i > Hour -> "t4"

-----------------------------------------------------------------------------
\* SendAfter: the due time is fixed by the sender.
Send(t, i, f) == /\ place[t] = "free"
                 /\ place' = [place EXCEPT ![t] = "sent"]
                 /\ due' = [due EXCEPT ![t] = now + i]
                 /\ inv' = [inv EXCEPT ![t] = i]
                 /\ forever' = [forever EXCEPT ![t] = f]
                 /\ UNCHANGED <<now, tick, lost, slack, dead>>

\* The timer actor gets the timer, after however long it waited in the
\* TimerChan and the mailbox, and inserts it by its interval.
Receive(t) == /\ place[t] = "sent"
              /\ place' = [place EXCEPT ![t] = ListFor(inv[t])]
              /\ slack' = [slack EXCEPT ![t] = now - (due[t] - inv[t])]
              /\ UNCHANGED <<now, tick, lost, due, inv, forever, dead>>

AddresseeDies(t) == /\ t \notin dead
                    /\ dead' = dead \cup {t}
                    /\ UNCHANGED <<now, tick, lost, place, due, inv, forever, slack>>

\* A tick that the actor does not handle in time: the ticker has dropped it, or
\* it waits in the mailbox.
LoseTick == /\ now < MaxTime /\ lost < MaxLost
            /\ now' = now + 1 /\ lost' = lost + 1
            /\ slack' = [t \in Timers |-> IF InWheel(t) THEN slack[t] + 1 ELSE slack[t]]
            /\ UNCHANGED <<tick, place, due, inv, forever, dead>>

-----------------------------------------------------------------------------
(* loopTimer at the time n, its tick number k *)

\* loopTimerCheck handles the timer: it is on the finest list and due.
Fires(t, n) == place[t] = "t0" /\ n >= due[t]

\* The timer fires and will do so again.
Again(t) == forever[t] /\ t \notin dead

\* The due time after this tick: the next one is reckoned from the last one.
NextDue(t, n) == IF Fires(t, n) /\ Again(t) THEN due[t] + inv[t] ELSE due[t]

\* The list after loopTimerCheck: a periodic timer of at most a second stays.
Checked(t, n) == IF Fires(t, n) THEN IF Again(t) THEN ListFor(inv[t]) ELSE "done"
                 ELSE place[t]

\* loopTimer looks at list j.
LookedAt(j, k) == k % Period(j) = 0

\* Mutant: a timer is moved down only when it is due.
MovesLate(i, j) == i <= 0

\* actTimer: list j gives up a timer that is due in i ticks.
Moves(i, j) == i <= Period(j)

\* actTimer for a timer that is on list p after loopTimerCheck.  It goes to a
\* lower list, which loopTimer has looked at before.
Settled(p, i, k) == IF p \in Coarse /\ LookedAt(p, k) /\ Moves(i, p) THEN ListFor(i) ELSE p

\* A timer that is set again has its whole interval ahead of it: that makes up
\* for two ticks of the delay with which it has fired.
NextSlack(t, n) == IF ~Fires(t, n) \/ ListFor(inv[t]) = "t0" THEN slack[t]
                   ELSE IF n - due[t] > 2 THEN n - due[t] - 2 ELSE 0

\* The tick number starts again with every hour.
NextTick(k) == IF k = Hour THEN 0 ELSE k

\* loopTimer at the time n.
LoopTimer(n) ==
  /\ now' = n
  /\ tick' = NextTick(tick + 1)
  /\ due' = [t \in Timers |-> NextDue(t, n)]
  /\ place' = [t \in Timers |-> Settled(Checked(t, n), NextDue(t, n) - n, tick + 1)]
  /\ slack' = [t \in Timers |-> NextSlack(t, n)]
  /\ UNCHANGED <<inv, forever, dead>>

Tick == /\ now < MaxTime
        /\ lost' = lost
        /\ LoopTimer(now + 1)

\* A Loop that has waited in the mailbox is handled right after another one.
LateTick == /\ lost > 0
            /\ lost' = lost - 1
            /\ LoopTimer(now)

Next == \/ \E t \in Timers : \/ \E i \in Delays, f \in BOOLEAN : Send(t, i, f)
                             \/ Receive(t) \/ AddresseeDies(t)
        \/ LoseTick \/ Tick \/ LateTick

Spec == Init /\ [][Next]_vars
-----------------------------------------------------------------------------
(* Properties *)

\* Type invariant.
TypeOK == /\ now \in Nat /\ tick \in 0..(Hour - 1) /\ lost \in Nat
          /\ place \in [Timers -> Lists \cup {"free", "sent", "done"}]
          /\ due \in [Timers -> Int]
          /\ inv \in [Timers -> Nat \ {0}]
          /\ forever \in [Timers -> BOOLEAN]
          /\ slack \in [Timers -> Nat]
          /\ dead \subseteq Timers
          /\ \A t \in Timers : place[t] = "sent" => due[t] - inv[t] <= now

\* No timer is overdue by more than what others have cost it: the time until
\* it was received and the ticks lost since.  Moving from list to list costs
\* nothing, so a timer fires at the first tick after its due time.
OnTime == \A t \in Timers : InWheel(t) => now - due[t] <= slack[t]

\* The same for the lists: a timer on a coarse list is looked at before it is
\* due, however it has come there - from SendAfter, from a coarser list or,
\* a periodic one, after it has fired.
LookedAtInTime == \A t \in Timers, j \in Coarse :
                    place[t] = j => now + (Period(j) - (tick % Period(j))) <= due[t] + slack[t]

\* A periodic timer is given up only when its addressee is gone.
ForeverKept == \A t \in Timers : place[t] = "done" /\ forever[t] => t \in dead
=============================================================================
