------------------------------ MODULE Registry ------------------------------
(***************************************************************************)
(* Names of actors and the life of a named actor (kernel/name_map.go and   *)
(* the parts of actor.go and context.go that use it): StartOpt registers   *)
(* the name before Init runs, initExit takes it back when the start fails, *)
(* exitFinal takes it back when the actor is gone.                         *)
(*                                                                         *)
(* nameMap and id2Name are two sync.Maps: each access is atomic, nothing   *)
(* longer is, and UnRegister deletes by name, whoever holds the name.      *)
(***************************************************************************)
EXTENDS Naturals

CONSTANTS Pids,          \* process ids, each used for one start
          Names,         \* registered names
          None,          \* no pid, no name
          Anybody,       \* TRUE: StartName may run at any time;
                         \* FALSE: a name is started again only by its
                         \* supervisor, when it heard of the exit
          UseRegister    \* TRUE: Register is called for running actors

ASSUME NoneAssumption == None \notin Pids /\ None \notin Names
ASSUME FlagAssumption == Anybody \in BOOLEAN /\ UseRegister \in BOOLEAN

VARIABLES nameMap,   \* name -> pid
          id2Name,   \* pid -> name
          stage,     \* how far each process has come
          name,      \* Context.name
          found,     \* what UnRegister has loaded
          adding,    \* the name under which Register is storing a process
          mail,      \* regName messages in the mailbox
          told,      \* processes whose links have received PidExit
          crossed    \* processes whose last Register met an UnRegister that
                     \* had loaded them (history)

vars == <<nameMap, id2Name, stage, name, found, adding, mail, told, crossed>>
registerVars == <<adding, mail, crossed>>

Stages == {"none",           \* the pid is not in use
           "checking",       \* registerNotExist: before nameMap.Load
           "storing",        \* the check passed, before nameMap.Store
           "storingId",      \* before id2Name.Store
           "init",           \* Actor.Init is running; isAlive is still 0
           "alive",          \* isAlive is 1, the loop runs
           "died",           \* exitFinal: isAlive is 0 again
           "notified",       \* the links have got their PidExit
           "failing",        \* initExit: before UnRegister
           "unregistering",  \* UnRegister: before nameMap.Delete
           "deletingId",     \* before id2Name.Delete
           "closing",        \* before close(pid.c)
           "closed"}         \* the channels are closed

Init == /\ nameMap = [n \in Names |-> None]
        /\ id2Name = [p \in Pids |-> None]
        /\ stage = [p \in Pids |-> "none"]
        /\ name = [p \in Pids |-> None]
        /\ found = [p \in Pids |-> None]
        /\ adding = [p \in Pids |-> None]
        /\ mail = [p \in Pids |-> 0]
        /\ told = {} /\ crossed = {}

IsAlive(p) == stage[p] = "alive"

Enter(p, s) == stage' = [stage EXCEPT ![p] = s]

-----------------------------------------------------------------------------
(* Starting *)

\* A supervisor starts one incarnation of a child at a time: the next one when
\* PidExit of the last one has reached it, or when its start has failed.
Restartable(n) == \A q \in Pids : name[q] = n => q \in told \/ stage[q] = "closed"

\* StartOpt for the name n.
Begin(p, n) == /\ stage[p] = "none"
               /\ Anybody \/ Restartable(n)
               /\ name' = [name EXCEPT ![p] = n]
               /\ Enter(p, "checking")
               /\ UNCHANGED <<nameMap, id2Name, found, told, registerVars>>

\* StartOpt without a name.
BeginAnonymous(p) == /\ UseRegister
                     /\ stage[p] = "none"
                     /\ Enter(p, "init")
                     /\ UNCHANGED <<nameMap, id2Name, name, found, told, registerVars>>

\* registerNotExist: panics if a live process has the name.  A process whose
\* Init is still running does not count as alive.
CheckName(p) == /\ stage[p] = "checking"
                /\ LET q == nameMap[name[p]] IN
                     Enter(p, IF q # None /\ IsAlive(q) THEN "failing" ELSE "storing")
                /\ UNCHANGED <<nameMap, id2Name, name, found, told, registerVars>>

StoreName(p) == /\ stage[p] = "storing"
                /\ nameMap' = [nameMap EXCEPT ![name[p]] = p]
                /\ Enter(p, "storingId")
                /\ UNCHANGED <<id2Name, name, found, told, registerVars>>

StoreId(p) == /\ stage[p] = "storingId"
              /\ id2Name' = [id2Name EXCEPT ![p] = name[p]]
              /\ Enter(p, "init")
              /\ UNCHANGED <<nameMap, name, found, told, registerVars>>

InitReturns(p) == /\ stage[p] = "init"
                  /\ Enter(p, "alive")
                  /\ UNCHANGED <<nameMap, id2Name, name, found, told, registerVars>>

\* Mutant: the name of an actor whose Init panicked is kept.
InitPanicsKeepName(p) == /\ stage[p] = "init"
                         /\ Enter(p, "closing")
                         /\ UNCHANGED <<nameMap, id2Name, name, found, told, registerVars>>

\* The deferred function of startGO runs initExit.
InitPanics(p) == /\ stage[p] = "init"
                 /\ Enter(p, IF name[p] = None THEN "closing" ELSE "failing")
                 /\ UNCHANGED <<nameMap, id2Name, name, found, told, registerVars>>

-----------------------------------------------------------------------------
(* Stopping *)

\* exitFinal: SetDie ...
Die(p) == /\ stage[p] = "alive"
          /\ Enter(p, "died")
          /\ UNCHANGED <<nameMap, id2Name, name, found, told, registerVars>>

\* Mutant: the links are told before the process is marked dead.
NotifyEarly(p) == /\ \/ IsAlive(p) /\ p \notin told /\ UNCHANGED stage
                     \/ stage[p] = "died" /\ Enter(p, "notified")
                  /\ told' = told \cup {p}
                  /\ UNCHANGED <<nameMap, id2Name, name, found, registerVars>>

\* ... the links get PidExit, then Terminate runs ...
NotifyLinks(p) == /\ stage[p] = "died"
                  /\ Enter(p, "notified")
                  /\ told' = told \cup {p}
                  /\ UNCHANGED <<nameMap, id2Name, name, found, registerVars>>

\* ... and an actor that has a name gives it back.  initExit does the same.
UnRegisterLoad(p) == /\ stage[p] \in {"notified", "failing"}
                     /\ name[p] # None
                     /\ found' = [found EXCEPT ![p] = nameMap[name[p]]]
                     /\ Enter(p, "unregistering")
                     /\ UNCHANGED <<nameMap, id2Name, name, told, registerVars>>

\* Mutant: the name is kept.
UnRegisterKeepName(p) == /\ stage[p] = "unregistering"
                         /\ Enter(p, IF found[p] # None THEN "deletingId" ELSE "closing")
                         /\ UNCHANGED <<nameMap, id2Name, name, found, told, registerVars>>

\* UnRegister deletes the entry of the name, whoever has it now ...
UnRegisterName(p) == /\ stage[p] = "unregistering"
                     /\ IF found[p] # None
                          THEN nameMap' = [nameMap EXCEPT ![name[p]] = None] /\ Enter(p, "deletingId")
                          ELSE UNCHANGED nameMap /\ Enter(p, "closing")
                     /\ UNCHANGED <<id2Name, name, found, told, registerVars>>

\* ... and then the id2Name entry of the pid it loaded before.
UnRegisterId(p) == /\ stage[p] = "deletingId"
                   /\ id2Name' = [id2Name EXCEPT ![found[p]] = None]
                   /\ found' = [found EXCEPT ![p] = None]
                   /\ Enter(p, "closing")
                   /\ UNCHANGED <<nameMap, name, told, registerVars>>

SkipUnRegister(p) == /\ stage[p] = "notified"
                     /\ name[p] = None
                     /\ Enter(p, "closing")
                     /\ UNCHANGED <<nameMap, id2Name, name, found, told, registerVars>>

\* close(pid.c): who casts to the process from now on loses the message.
CloseChan(p) == /\ stage[p] = "closing"
                /\ Enter(p, "closed")
                /\ mail' = [mail EXCEPT ![p] = 0]
                /\ UNCHANGED <<nameMap, id2Name, name, found, adding, told, crossed>>

-----------------------------------------------------------------------------
(* Registering a running actor *)

\* Register of a living process by any goroutine, one at a time for a process:
\* the name ...
RegisterName(n, p) == /\ UseRegister
                      /\ IsAlive(p) /\ adding[p] = None /\ mail[p] = 0
                      /\ nameMap' = [nameMap EXCEPT ![n] = p]
                      /\ adding' = [adding EXCEPT ![p] = n]
                      /\ UNCHANGED <<id2Name, stage, name, found, mail, told, crossed>>

\* ... then the id, and a regName message to the actor, unless its channel is
\* closed by now.
RegisterId(p) == /\ adding[p] # None
                 /\ id2Name' = [id2Name EXCEPT ![p] = adding[p]]
                 /\ adding' = [adding EXCEPT ![p] = None]
                 /\ mail' = [mail EXCEPT ![p] = IF stage[p] = "closed" THEN 0 ELSE 1]
                 /\ crossed' = IF \E q \in Pids : found[q] = p THEN crossed \cup {p} ELSE crossed \ {p}
                 /\ UNCHANGED <<nameMap, stage, name, found, told>>

\* The message is not wrapped in an actorOP: recMsg gives it to HandleCast, and
\* Context.name, which handleOP would set, stays as it is.
HandleRegName(p) == /\ IsAlive(p) /\ mail[p] = 1
                    /\ mail' = [mail EXCEPT ![p] = 0]
                    /\ UNCHANGED <<nameMap, id2Name, stage, name, found, adding, told, crossed>>

Next == \/ \E p \in Pids, n \in Names : Begin(p, n) \/ RegisterName(n, p)
        \/ \E p \in Pids : \/ BeginAnonymous(p) \/ CheckName(p) \/ StoreName(p)
                           \/ StoreId(p) \/ InitReturns(p) \/ InitPanics(p)
                           \/ Die(p) \/ NotifyLinks(p) \/ UnRegisterLoad(p)
                           \/ UnRegisterName(p) \/ UnRegisterId(p) \/ SkipUnRegister(p)
                           \/ CloseChan(p) \/ RegisterId(p) \/ HandleRegName(p)

Spec == Init /\ [][Next]_vars
-----------------------------------------------------------------------------
(* Properties *)

\* Type invariant.  A loaded pid is kept only inside UnRegister.
TypeOK == /\ nameMap \in [Names -> Pids \cup {None}]
          /\ id2Name \in [Pids -> Names \cup {None}]
          /\ stage \in [Pids -> Stages]
          /\ name \in [Pids -> Names \cup {None}]
          /\ found \in [Pids -> Pids \cup {None}]
          /\ adding \in [Pids -> Names \cup {None}]
          /\ mail \in [Pids -> {0, 1}]
          /\ told \subseteq Pids /\ crossed \subseteq Pids
          /\ \A p \in Pids : /\ found[p] # None => stage[p] \in {"unregistering", "deletingId"}
                             /\ stage[p] = "deletingId" => found[p] # None

\* WhereIs never returns a process whose channels are closed, although several
\* starts and exits under the same name delete each other's entries.
ClosedNotResolvable == \A n \in Names : nameMap[n] # None => stage[nameMap[n]] # "closed"

\* The two maps agree: TryGetName of a process that WhereIs finds is its name,
\* once registerNotExist or Register has stored both entries.  The exception is
\* a Register that stores a process while an UnRegister that has loaded it has
\* its delete of id2Name still to do: that takes away what Register stored.
NameKnown == \A n \in Names : LET p == nameMap[n] IN
               /\ p # None /\ stage[p] # "storingId" /\ adding[p] = None /\ p \notin crossed
               => id2Name[p] = n

\* A name belongs to one living actor (registerNotExist, "Name is register").
UniqueAlive == \A p, q \in Pids :
                 IsAlive(p) /\ IsAlive(q) /\ name[p] = name[q] /\ name[p] # None => p = q

\* A living actor can be reached under the name it was started with.
AliveResolvable == \A p \in Pids :
                     IsAlive(p) /\ name[p] # None => nameMap[name[p]] = p

\* What a supervisor may rely on when it starts a name again, while running
\* actors are registered under it as well.
Consistent == TypeOK /\ NameKnown /\ UniqueAlive
=============================================================================
