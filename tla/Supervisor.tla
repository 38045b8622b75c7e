---------------------------- MODULE Supervisor ----------------------------
(***************************************************************************)
(* kernel/supervisor.go: an actor that starts, restarts and stops other    *)
(* actors.  It knows its children from a list (BMap, newest first) and a   *)
(* map from ids to descriptions; it learns of exits from PidExit messages  *)
(* in its mailbox, which also carries the requests of SupStartChild and    *)
(* SupStop and the supervisor's own Exit.                                  *)
(*                                                                         *)
(* The mailbox is one FIFO queue: module Mailbox shows that the channel    *)
(* and the stash filled by stopAllChild behave as one.  Handlers run to    *)
(* their end in one step, except stopAllChild, which waits for every child *)
(* while others go on.                                                     *)
(***************************************************************************)
EXTENDS Naturals, Sequences, FiniteSets

CONSTANTS MaxPid,      \* bound: children started
          Children,    \* descriptions (*SupChild)
          Boot,        \* initChild: the children supInit starts
          Restarted,   \* descriptions with ReStart
          Subs,        \* descriptions of type SupChildTypeSup
          Starters,    \* goroutines that call SupStartChild once
          Stoppers,    \* goroutines that call SupStop once
          None,
          InitMayFail, \* TRUE: the Init of a child may panic
          MaxCrash     \* bound: abnormal exits of children

ASSUME ChildAssumption == /\ Restarted \subseteq Children /\ Subs \subseteq Children
                          /\ Boot \in Seq(Children \ Subs)
ASSUME FlagAssumption == InitMayFail \in BOOLEAN /\ MaxCrash \in Nat
Callers == Starters \cup Stoppers

\* There is a pid for every child that is started, booted or restarted.
ASSUME PidAssumption == /\ IsFiniteSet(Callers) /\ Starters \cap Stoppers = {}
                        /\ MaxPid = Len(Boot) + Cardinality(Starters) + MaxCrash

\* makePid counts; a larger pid was started later.
Pids == 1..MaxPid

ASSUME NoneAssumption == None \notin Pids \cup Children \cup Callers

VARIABLES sup,      \* what the supervisor's goroutine is doing
          booted,   \* children supInit has started
          mail,     \* messages the supervisor has not handled
          leaving,  \* exit operations on their way to the mailbox: its own
                    \* Exit at the selfSender, an initStop from a parent
          list,     \* supervisor.child, newest first
          cache,    \* supervisor.cache: pid -> description
          todo,     \* stopAllChild: what is left of the list
          waiting,  \* stopAllChild: the child it waits for
          pass,     \* calls of stopAllChild; stands for the callID of its initStops
          asker,    \* the SupStop that is being handled
          child,    \* stage of each child
          of,       \* description each pid was started from
          why,      \* reason a child exits for
          asked,    \* pass of the oldest initStop in the child's mailbox, or 0
          heir,     \* the incarnation a crashed child was replaced by
          call      \* request each caller makes

vars == <<sup, booted, mail, leaving, list, cache, todo, waiting, pass, asker,
          child, of, why, asked, heir, call>>

entryVars == <<list, cache>>
stopVars == <<todo, waiting, pass, asker>>

SupStages == {"booting",      \* supInit
              "failed",       \* supInit has panicked, there is no supervisor
              "idle",         \* the loop
              "stopping",     \* stopAllChild called by the handler of stop
              "terminating",  \* exitFinal: stopAllChild called by Terminate
              "dead"}         \* the channels are closed

ChildStages == {"unused",
                "alive",
                "dying",   \* exitFinal: SetDie is done
                "told",    \* the links have got PidExit, Terminate runs
                "gone"}

Exit(p, r) == [type |-> "exit", pid |-> p, reason |-> r]
StartOf(c, d) == [type |-> "start", by |-> c, desc |-> d]
StopBy(c) == [type |-> "stop", by |-> c]
Leave == [type |-> "leave"]

Messages == {Exit(p, r) : p \in Pids, r \in {"normal", "error"}}
       \cup {StartOf(c, d) : c \in Starters, d \in Children}
       \cup {StopBy(c) : c \in Stoppers} \cup {Leave}

Init == /\ sup = "booting" /\ booted = 0
        /\ mail = <<>> /\ leaving \in {0, 1}
        /\ list = <<>> /\ cache = [p \in Pids |-> None]
        /\ todo = <<>> /\ waiting = None /\ pass = 0 /\ asker = None
        /\ child = [p \in Pids |-> "unused"]
        /\ of = [p \in Pids |-> None]
        /\ why = [p \in Pids |-> "normal"]
        /\ asked = [p \in Pids |-> 0]
        /\ heir = [p \in Pids |-> None]
        /\ call = [c \in Callers |-> "free"]

IsAlive(p) == child[p] = "alive"

-----------------------------------------------------------------------------
(* Starting children *)

\* Mutant: the list is kept in the order of the starts.
AddLast(p, d) == list' = Append(list, p) /\ cache' = [cache EXCEPT ![p] = d]

\* addChild: BMap.Insert puts the newest child first.
AddChild(p, d) == list' = <<p>> \o list /\ cache' = [cache EXCEPT ![p] = d]

\* StartOpt returns the new pid p for the description d.
Run(p, d) == /\ p = 1 + Cardinality({q \in Pids : child[q] # "unused"})
             /\ child' = [child EXCEPT ![p] = "alive"]
             /\ of' = [of EXCEPT ![p] = d]

\* supInit starts the next initial child, linked to the supervisor.
BootChild(p) == /\ sup = "booting" /\ booted < Len(Boot)
                /\ Run(p, Boot[booted + 1])
                /\ AddChild(p, Boot[booted + 1])
                /\ booted' = booted + 1
                /\ UNCHANGED <<sup, mail, leaving, stopVars, why, asked, heir, call>>

\* The Init of an initial child panics: supInit ignores the error, and addChild
\* panics on the nil pid, so that the start of the supervisor fails.
BootFails == /\ sup = "booting" /\ booted < Len(Boot) /\ InitMayFail
             /\ sup' = "failed"
             /\ mail' = <<>>
             /\ UNCHANGED <<booted, entryVars, of, heir, leaving, stopVars, child, why, asked, call>>

Booted == /\ sup = "booting" /\ booted = Len(Boot)
          /\ sup' = "idle"
          /\ UNCHANGED <<booted, entryVars, of, heir, mail, leaving, stopVars, child, why, asked, call>>

\* The loop takes the next message.
Take(m) == sup = "idle" /\ mail # <<>> /\ Head(mail) = m /\ mail' = Tail(mail)

\* startChild for a request: the caller gets the pid.
StartChild(c, d, p) == /\ Take(StartOf(c, d))
                       /\ Run(p, d) /\ AddChild(p, d)
                       /\ call' = [call EXCEPT ![c] = "answered"]
                       /\ UNCHANGED <<sup, booted, leaving, stopVars, why, asked, heir>>

\* The start fails: addChild panics on the nil pid before err is looked at.
\* The ErrorHandler keeps the supervisor alive, and nobody replies.
StartChildPanics(c, d) ==
  /\ Take(StartOf(c, d)) /\ InitMayFail
  /\ UNCHANGED <<sup, booted, entryVars, of, heir, leaving, stopVars, child, why, asked, call>>

-----------------------------------------------------------------------------
(* Exits of children *)

Listed == {list[i] : i \in 1..Len(list)}

\* BMap.Delete: the element of the key leaves the list, if there is one.
Unlisted(p) == LET at == CHOOSE i \in 1..Len(list) : list[i] = p
               IN  IF p \notin Listed THEN list
                   ELSE SubSeq(list, 1, at - 1) \o SubSeq(list, at + 1, Len(list))

Restarts(p, r) == r # "normal" /\ cache[p] \in Restarted

\* supHandleCast for a child that is not restarted.
HandleExit(p, r) == /\ Take(Exit(p, r))
                    /\ ~Restarts(p, r)
                    /\ list' = Unlisted(p)
                    /\ cache' = [cache EXCEPT ![p] = None]
                    /\ UNCHANGED <<sup, booted, leaving, stopVars, child, of, why, asked, heir, call>>

\* Mutant: the crashed child is forgotten only.
RestartForgets(p, r, q) ==
  /\ Take(Exit(p, r))
  /\ Restarts(p, r)
  /\ list' = Unlisted(p) /\ cache' = [cache EXCEPT ![p] = None]
  /\ UNCHANGED <<sup, booted, leaving, stopVars, child, of, why, asked, heir, call>>

\* supHandleCast: a new incarnation, then the old one is forgotten.
Restart(p, r, q) == /\ Take(Exit(p, r))
                    /\ Restarts(p, r)
                    /\ Run(q, cache[p])
                    /\ list' = <<q>> \o Unlisted(p)
                    /\ cache' = [cache EXCEPT ![q] = cache[p], ![p] = None]
                    /\ heir' = [heir EXCEPT ![p] = q]
                    /\ UNCHANGED <<sup, booted, leaving, stopVars, why, asked, call>>

\* The restart fails: startChild panics, childExit is not reached, and the
\* entry of the dead child stays.
RestartPanics(p, r) == /\ Take(Exit(p, r)) /\ InitMayFail
                       /\ Restarts(p, r)
                       /\ UNCHANGED <<sup, booted, entryVars, of, heir, leaving, stopVars, child, why, asked, call>>

-----------------------------------------------------------------------------
(* Stopping *)

\* stopAllChild begins: it will walk over the list as it is now (no handler
\* runs, and the list does not change, before it has ended).
Sweep == todo' = list /\ pass' = pass + 1 /\ waiting' = None

HandleStop(c) == /\ Take(StopBy(c))
                 /\ sup' = "stopping" /\ asker' = c
                 /\ Sweep
                 /\ UNCHANGED <<booted, entryVars, leaving, child, of, why, asked, heir, call>>

\* An exit operation ends the loop; exitFinal calls Terminate.
HandleLeave == /\ Take(Leave)
               /\ sup' = "terminating"
               /\ Sweep
               /\ UNCHANGED <<booted, entryVars, leaving, asker, child, of, why, asked, heir, call>>

Sweeping == sup \in {"stopping", "terminating"} /\ waiting = None

\* An initStop for the next child that is alive.  The Cast finds room in the
\* child's mailbox: while that is full it waits, before the timer of GiveUp runs.
AskToStop == /\ Sweeping /\ todo # <<>> /\ IsAlive(Head(todo))
             /\ asked' = [asked EXCEPT ![Head(todo)] = IF @ = 0 THEN pass ELSE @]
             /\ waiting' = Head(todo)
             /\ todo' = Tail(todo)
             /\ UNCHANGED <<sup, booted, entryVars, mail, leaving, pass, asker,
                            child, of, why, heir, call>>

\* Mutant: the rest of the list is not looked at once a child is found dead.
SkipRest == /\ Sweeping /\ todo # <<>> /\ ~IsAlive(Head(todo))
            /\ todo' = <<>>
            /\ UNCHANGED <<sup, booted, entryVars, mail, leaving, waiting, pass, asker,
                           child, of, why, asked, heir, call>>

SkipDead == /\ Sweeping /\ todo # <<>> /\ ~IsAlive(Head(todo))
            /\ todo' = Tail(todo)
            /\ UNCHANGED <<sup, booted, entryVars, mail, leaving, waiting, pass, asker,
                           child, of, why, asked, heir, call>>

\* The 100 seconds of recResult are over: the next child.
GiveUp == /\ waiting # None
          /\ waiting' = None
          /\ UNCHANGED <<sup, booted, entryVars, mail, leaving, todo, pass, asker,
                         child, of, why, asked, heir, call>>

\* Mutant: the handler of stop does not call Exit.
StopReturnsOnly ==
  /\ Sweeping /\ sup = "stopping" /\ todo = <<>>
  /\ UNCHANGED <<mail, leaving>>
  /\ call' = [call EXCEPT ![asker] = "answered"]
  /\ sup' = "idle" /\ asker' = None
  /\ UNCHANGED <<booted, entryVars, todo, waiting, pass, child, of, why, asked, heir>>

\* The handler of stop calls Exit and returns; CastSelf stashes the operation
\* or, if messages have come, leaves it to the selfSender.
StopReturns ==
  /\ Sweeping /\ sup = "stopping" /\ todo = <<>>
  /\ \/ mail' = Append(mail, Leave) /\ UNCHANGED leaving
     \/ mail # <<>> /\ leaving' = leaving + 1 /\ UNCHANGED mail
  /\ call' = [call EXCEPT ![asker] = "answered"]
  /\ sup' = "idle" /\ asker' = None
  /\ UNCHANGED <<booted, entryVars, todo, waiting, pass, child, of, why, asked, heir>>

\* The end of exitFinal: the channels are closed with what they hold.
Close == /\ Sweeping /\ sup = "terminating" /\ todo = <<>>
         /\ sup' = "dead"
         /\ mail' = <<>>
         /\ UNCHANGED <<booted, entryVars, leaving, stopVars, child, of, why, asked, heir, call>>

-----------------------------------------------------------------------------
(* Everybody else *)

\* A message to the supervisor; it is lost if the channel is closed.
Post(m) == mail' = IF sup \in {"dead", "failed"} THEN mail ELSE Append(mail, m)

\* SupStartChild or SupStop; on a closed channel the call fails at once.
Request(c, m) == /\ call[c] = "free"
                 /\ call' = [call EXCEPT ![c] = IF sup \in {"dead", "failed"} THEN "failed"
                                                                              ELSE "waiting"]
                 /\ Post(m)
                 /\ UNCHANGED <<sup, booted, leaving, entryVars, stopVars,
                                child, of, why, asked, heir>>

\* The selfSender forwards an Exit; a parent casts an initStop.
Deliver == /\ leaving > 0
           /\ leaving' = leaving - 1
           /\ Post(Leave)
           /\ UNCHANGED <<sup, booted, entryVars, stopVars, child, of, why, asked, heir, call>>

\* A child leaves its loop: isAlive becomes 0.
Die(p, r) == /\ IsAlive(p)
             /\ child' = [child EXCEPT ![p] = "dying"]
             /\ why' = [why EXCEPT ![p] = r]
             /\ UNCHANGED <<sup, booted, mail, leaving, entryVars, stopVars, of, asked, heir, call>>

Finish(p) == Die(p, "normal")

Crash(p) == /\ Cardinality({q \in Pids : why[q] = "error"}) < MaxCrash
            /\ Die(p, "error")

\* The child handles the initStop.
Obey(p) == asked[p] > 0 /\ Die(p, "stop")

\* Mutant: the links are told before SetDie.
TellEarly(p) == /\ child[p] \in {"alive", "dying"}
                /\ child' = [child EXCEPT ![p] = IF @ = "dying" THEN "told" ELSE @]
                /\ IF of[p] \in Subs THEN UNCHANGED mail
                   ELSE Post(Exit(p, IF why[p] = "error" THEN "error" ELSE "normal"))
                /\ UNCHANGED <<sup, booted, leaving, entryVars, stopVars, of, why, asked, heir, call>>

\* exitFinal casts PidExit to the links; a child supervisor was started by
\* SupStart, without a link.
Tell(p) == /\ child[p] = "dying"
           /\ child' = [child EXCEPT ![p] = "told"]
           /\ IF of[p] \in Subs THEN UNCHANGED mail
              ELSE Post(Exit(p, IF why[p] = "error" THEN "error" ELSE "normal"))
           /\ UNCHANGED <<sup, booted, leaving, entryVars, stopVars, of, why, asked, heir, call>>

\* The end of exitFinal: Reply to the initStop, which the supervisor accepts if
\* it still waits for it.
End(p) == /\ child[p] = "told"
          /\ child' = [child EXCEPT ![p] = "gone"]
          /\ waiting' = IF why[p] = "stop" /\ waiting = p /\ asked[p] = pass
                        THEN None ELSE waiting
          /\ UNCHANGED <<sup, booted, mail, leaving, entryVars, todo, pass, asker,
                         of, why, asked, heir, call>>

Next == \/ BootFails \/ Booted
        \/ \E p \in Pids : BootChild(p)
        \/ \E c \in Starters, d \in Children : \/ Request(c, StartOf(c, d))
                                              \/ StartChildPanics(c, d)
                                              \/ \E p \in Pids : StartChild(c, d, p)
        \/ \E c \in Stoppers : Request(c, StopBy(c)) \/ HandleStop(c)
        \/ \E p \in Pids, r \in {"normal", "error"} :
              \/ HandleExit(p, r) \/ RestartPanics(p, r)
              \/ \E q \in Pids : Restart(p, r, q)
        \/ HandleLeave \/ AskToStop \/ SkipDead \/ GiveUp \/ StopReturns \/ Close
        \/ Deliver
        \/ \E p \in Pids : Finish(p) \/ Crash(p) \/ Obey(p) \/ Tell(p) \/ End(p)

Spec == Init /\ [][Next]_vars

(***************************************************************************)
(* The supervisor's goroutine goes on whenever it can, its timers fire,    *)
(* the selfSender forwards, and a child handles an initStop and finishes   *)
(* its exit.  Children need not crash and callers need not call.           *)
(***************************************************************************)
Handles == \/ Booted \/ \E p \in Pids : BootChild(p)
           \/ \E c \in Starters, d \in Children : \/ StartChildPanics(c, d)
                                                 \/ \E p \in Pids : StartChild(c, d, p)
           \/ \E c \in Stoppers : HandleStop(c)
           \/ \E p \in Pids, r \in {"normal", "error"} :
                 \/ HandleExit(p, r) \/ RestartPanics(p, r)
                 \/ \E q \in Pids : Restart(p, r, q)
           \/ HandleLeave \/ AskToStop \/ SkipDead \/ GiveUp \/ StopReturns \/ Close

Fairness == /\ WF_vars(Handles) /\ WF_vars(Deliver)
            /\ \A p \in Pids : WF_vars(Obey(p)) /\ WF_vars(Tell(p)) /\ WF_vars(End(p))

FairSpec == Spec /\ Fairness
-----------------------------------------------------------------------------
(* Properties *)

\* Type invariant; the list and the map know the same children, each once.
TypeOK == /\ sup \in SupStages /\ booted \in 0..Len(Boot)
          /\ mail \in Seq(Messages) /\ leaving \in Nat
          /\ cache \in [Pids -> Children \cup {None}]
          /\ Listed = {p \in Pids : cache[p] # None} /\ Cardinality(Listed) = Len(list)
          /\ todo \in Seq(Pids) /\ waiting \in Pids \cup {None}
          /\ pass \in Nat /\ asker \in Stoppers \cup {None}
          /\ child \in [Pids -> ChildStages]
          /\ of \in [Pids -> Children \cup {None}]
          /\ why \in [Pids -> {"normal", "error", "stop"}]
          /\ asked \in [Pids -> 0..pass]
          /\ heir \in [Pids -> Pids \cup {None}]
          /\ call \in [Callers -> {"free", "waiting", "answered", "failed"}]

InMail(m) == \E i \in 1..Len(mail) : mail[i] = m

\* supHandleCast dereferences the entry of the pid in a PidExit: it is still
\* there whenever that message is in the mailbox, although children are
\* restarted and stopped while their exits are on their way.
ExitKnown == \A p \in Pids : (\E r \in {"normal", "error"} : InMail(Exit(p, r)))
                               => cache[p] # None

\* A supervisor that is gone leaves no child behind: what it had started,
\* restarted or was asked to start while it was stopping has exited or has an
\* initStop in its mailbox.
NoOrphan == sup = "dead" => \A p \in Pids : IsAlive(p) => asked[p] > 0

\* A child is never restarted while its last incarnation is alive, and at most
\* one incarnation takes over: what supervisor.cache loses is what has died.
OneIncarnation == /\ \A p \in Pids : heir[p] # None => ~IsAlive(p)
                  /\ \A p, q \in Pids : heir[p] = heir[q] /\ heir[p] # None => p = q
                  /\ \A p \in Pids : IsAlive(p) => cache[p] # None

\* The supervisor's list and map fit each other, its mailbox and its children.
Consistent == TypeOK /\ ExitKnown /\ OneIncarnation

\* stopAllChild asks the children in the reverse order of their starts: when
\* one is asked, every younger one that is still alive has been asked before.
NewestFirst == [][\A p \in Pids : waiting' = p /\ waiting # p =>
                    \A q \in Pids : q > p /\ IsAlive(q) => asked[q] > 0]_vars

\* A dead child whose exit has been handled but not forgotten: its restart failed.
Stale(p) == /\ child[p] \in {"told", "gone"} /\ cache[p] # None
            /\ ~InMail(Exit(p, "error"))

\* A child that is to be restarted and crashes is running again after a while,
\* unless the supervisor goes down or the restart fails.
CrashedIsRestarted == \A p \in Pids :
  (child[p] = "dying" /\ why[p] = "error" /\ of[p] \in Restarted \ Subs)
    ~> (heir[p] # None \/ Stale(p) \/ sup \in {"failed", "terminating", "dead"})

\* Once stopping has begun, by SupStop or by an exit operation, the supervisor
\* and all its children are gone after a while: requests and exits that
\* arrive while it is stopping do not keep it or a new child alive.
StopStops == (sup \in {"stopping", "terminating"})
               ~> (sup = "dead" /\ \A p \in Pids : ~IsAlive(p))

=============================================================================
