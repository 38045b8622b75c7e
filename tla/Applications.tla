---------------------------- MODULE Applications ----------------------------
(***************************************************************************)
(* Applications and the end of a program (kernel/application.go, init.go): *)
(* AppStart, AppStop and AppRestart, the actor "application" (appSvr) and  *)
(* the init server, which InitStop asks one after the other to stop what   *)
(* they know.                                                              *)
(*                                                                         *)
(* A process is a supervisor, a child of one, or "plain".  Of the          *)
(* supervisor the model has what module Supervisor shows of it: before it  *)
(* answers a stop, or ends, it waits for each child that is alive, newest  *)
(* first.  Processes are numbered in the order in which they start.        *)
(* Processes of the kernel itself, which InitStop leaves alone, are not    *)
(* among them.                                                             *)
(***************************************************************************)
EXTENDS Naturals, Sequences, FiniteSets, FiniteSetsExt

CONSTANTS AppNames,
          Starters,      \* goroutines that call AppStart or AppRestart
          MaxPids,
          Limits,        \* bounds of a behaviour: its starters, and how many plain processes,
                         \* children, crashes and calls of AppStop it has
          None

Pids == 1..MaxPids
Nil == 0

VARIABLES limit,      \* the bounds of this behaviour
          kind,       \* of a process: "none", "sup", "child", "plain"
          state,      \* "init", "alive", "sweeping", "leaving", "dying", "dead"
          parent,     \* the supervisor of a child
          box,        \* the mailbox of a process
          sweep,      \* stopAllChild: who asked for it, the child it waits for
          links,      \* supervisors that have the application actor among their links
          appMaps,    \* _appMaps: the supervisor stored under a name
          names,      \* _appPid2Name
          l, pushed,  \* the list of the application actor; supervisors that were ever in it
          appMail, busy, toStop,   \* its mailbox, the stop it waits for, what initStop still visits
          job,        \* of a starter: where it is, the name, its supervisor
          listed, walk, visited,   \* the init server: its BMap, newest first; its walk
          stage,      \* of InitStop
          crashes, stops,
          gaveUp,     \* the 600 s of the first call were over (history)
          hasty,      \* the walk went past a process in its Terminate (history)
          aliveThen, appsThen   \* what was alive, and listed, when InitStop was called (history)

procVars == <<kind, state, parent, box, sweep, links>>
appVars  == <<appMaps, names, l, pushed, appMail, busy, toStop>>
initVars == <<walk, visited, stage, gaveUp, hasty, aliveThen, appsThen>>
vars == <<limit, procVars, appVars, job, listed, initVars, crashes, stops>>

Running == {"alive", "sweeping", "leaving"}
IsAlive(p) == state[p] \in Running
Free == {p \in Pids : kind[p] = "none"}
New == Min(Free)
Children(p) == {c \in Pids : parent[c] = p}
Msg(t, x) == [t |-> t, x |-> x]

\* Cast: nothing happens if the channel is closed
Sent(p, m) == IF state[p] = "dead" THEN box ELSE [box EXCEPT ![p] = Append(@, m)]

Init ==
  /\ kind = [p \in Pids |-> "none"] /\ state = [p \in Pids |-> "dead"]
  /\ parent = [p \in Pids |-> None] /\ box = [p \in Pids |-> <<>>] /\ links = {}
  /\ sweep = [p \in Pids |-> [by |-> None, child |-> None]]
  /\ appMaps = [n \in AppNames |-> None] /\ names = {} /\ l = <<>> /\ pushed = {}
  /\ appMail = <<>> /\ busy = None /\ toStop = <<>>
  /\ job = [s \in Starters |-> [at |-> "idle", name |-> None, pid |-> None]]
  /\ limit \in Limits
  /\ listed = {} /\ walk = {} /\ visited = None
  /\ stage = "running" /\ gaveUp = FALSE /\ hasty = FALSE /\ aliveThen = {} /\ appsThen = {}
  /\ crashes = 0 /\ stops = 0

-----------------------------------------------------------------------------
(* The init server has a mailbox, too.  Nothing reads its list before the    *)
(* walk, so a message is taken as handled when it is sent; behind the call   *)
(* of InitStop none is handled any more.                                     *)
Listening == stage \in {"running", "apps"}
Register(p) == listed' = IF Listening THEN listed \cup {p} ELSE listed
Unregister(p) == listed' = IF Listening THEN listed \ {p} ELSE listed

(* startGO: the process registers with the init server and runs its Init;   *)
(* it counts as alive when Init has returned.                               *)
Begin(k, sup) ==
  /\ Free # {}
  /\ Cardinality({p \in Pids : kind[p] = k}) < limit[k]
  /\ kind' = [kind EXCEPT ![New] = k]
  /\ state' = [state EXCEPT ![New] = "init"]
  /\ parent' = [parent EXCEPT ![New] = sup]
  /\ Register(New)

Started(p) == state' = [state EXCEPT ![p] = "alive"]

StartPlain ==
  /\ Begin("plain", None)
  /\ UNCHANGED <<limit, box, sweep, links, appVars, job, initVars, crashes, stops>>

PlainStarted(p) ==
  /\ kind[p] = "plain" /\ state[p] = "init" /\ Started(p)
  /\ UNCHANGED <<limit, kind, parent, box, sweep, links, appVars, job, listed, initVars, crashes, stops>>

\* a supervisor handles nothing else while a child starts
Supervising(p) ==
  /\ kind[p] = "sup" /\ state[p] \in {"alive", "leaving"}
  /\ \A c \in Children(p) : state[c] # "init"

StartChild(p) ==
  /\ Supervising(p)
  /\ Begin("child", p)
  /\ UNCHANGED <<limit, box, sweep, links, appVars, job, initVars, crashes, stops>>

ChildStarted(c) ==
  /\ kind[c] = "child" /\ state[c] = "init" /\ Started(c)
  /\ UNCHANGED <<limit, kind, parent, box, sweep, links, appVars, job, listed, initVars, crashes, stops>>

-----------------------------------------------------------------------------
(* AppStart looks the name up, starts the application and stores it.  An    *)
(* application may panic in its Start.                                      *)
At(s, at) == job[s].at = at
AppCheck(s, n) ==
  /\ At(s, "idle") /\ s \in limit.starters
  /\ job' = [job EXCEPT ![s] = [@ EXCEPT !.name = n,
                                !.at = IF appMaps[n] = None THEN "start" ELSE "refused"]]
  /\ UNCHANGED <<limit, procVars, appVars, listed, initVars, crashes, stops>>

AppBegin(s) ==
  /\ job[s].at \in {"start", "restart"}
  /\ Begin("sup", None)
  /\ job' = [job EXCEPT ![s].pid = New,
                        ![s].at = IF @ = "start" THEN "starting" ELSE "restarting"]
  /\ UNCHANGED <<limit, box, sweep, links, appVars, initVars, crashes, stops>>

AppPanics(s) ==
  /\ job[s].at \in {"start", "restart"}
  /\ job' = [job EXCEPT ![s].at = "failed"]
  /\ UNCHANGED <<limit, procVars, appVars, listed, initVars, crashes, stops>>

(* Start returns nil, as SupStart does when its name is taken: the map then   *)
(* has an entry without a supervisor.                                        *)
AppNil(s) ==
  /\ At(s, "start")
  /\ appMaps' = [appMaps EXCEPT ![job[s].name] = Nil]
  /\ job' = [job EXCEPT ![s].at = "failed"]
  /\ UNCHANGED <<limit, procVars, names, l, pushed, appMail, busy, toStop, listed, initVars, crashes, stops>>

\* Start has returned: the supervisor is stored, then the actor is told
AppStarted(s) ==
  LET p == job[s].pid IN
  /\ At(s, "starting") /\ Started(p)
  /\ appMaps' = [appMaps EXCEPT ![job[s].name] = p]
  /\ names' = names \cup {p}
  /\ job' = [job EXCEPT ![s].at = "stored"]
  /\ UNCHANGED <<limit, kind, parent, box, sweep, links, l, pushed, appMail, busy, toStop, listed, initVars,
                  crashes, stops>>

AppTells(s) ==
  /\ At(s, "stored")
  /\ appMail' = Append(appMail, Msg("info", job[s].pid))
  /\ job' = [job EXCEPT ![s].at = "done"]
  /\ UNCHANGED <<limit, procVars, appMaps, names, l, pushed, busy, toStop, listed, initVars, crashes, stops>>

(* AppRestart: the application stops what it likes (here: its supervisor,   *)
(* or nothing) and starts again; the map keeps the old supervisor.          *)
AppRestart(s, n) ==
  /\ At(s, "idle") /\ s \in limit.starters /\ appMaps[n] # None
  /\ job' = [job EXCEPT ![s] = [@ EXCEPT !.name = n, !.at = "restart"]]
  /\ box' \in {box} \cup {Sent(p, Msg("stop", None)) : p \in Pids \cap {appMaps[n]}}
  /\ UNCHANGED <<limit, kind, state, parent, sweep, links, appVars, listed, initVars, crashes, stops>>

AppRestarted(s) ==
  /\ At(s, "restarting") /\ Started(job[s].pid)
  /\ job' = [job EXCEPT ![s].at = "done"]
  /\ UNCHANGED <<limit, kind, parent, box, sweep, links, appVars, listed, initVars, crashes, stops>>

AppStop(n) ==
  /\ stops < limit.stops
  /\ appMail' = Append(appMail, Msg("stop", n)) /\ stops' = stops + 1
  /\ UNCHANGED <<limit, procVars, appMaps, names, l, pushed, busy, toStop, job, listed, initVars, crashes>>

-----------------------------------------------------------------------------
(* The processes.  exitFinal: IsAlive is false and the links are told before *)
(* Terminate runs; a supervisor stops its children in Terminate.             *)
PidExits(p) ==
  /\ Unregister(p)
  /\ appMail' = IF p \in links THEN Append(appMail, Msg("exit", p)) ELSE appMail

Next1(p) == Head(box[p])
Take(p, t) ==
  /\ IF kind[p] = "sup" THEN Supervising(p) ELSE state[p] = "alive"
  /\ box[p] # <<>> /\ Next1(p).t = t

HandleLink(p) ==
  /\ Take(p, "link")
  /\ links' = links \cup {p} /\ box' = [box EXCEPT ![p] = Tail(@)]
  /\ UNCHANGED <<limit, kind, state, parent, sweep, appVars, job, listed, initVars, crashes, stops>>

HandleStop(p) ==
  /\ Take(p, "stop")
  /\ state' = [state EXCEPT ![p] = "sweeping"]
  /\ sweep' = [sweep EXCEPT ![p].by = Next1(p).x]
  /\ box' = [box EXCEPT ![p] = Tail(@)]
  /\ UNCHANGED <<limit, kind, parent, links, appVars, job, listed, initVars, crashes, stops>>

\* a child that has crashed is started again, if its Init lets it
HandleExit(p) ==
  /\ kind[p] = "sup" /\ Take(p, "exit")
  /\ \/ Begin("child", p)
     \/ UNCHANGED <<kind, state, parent, listed>>
  /\ box' = [box EXCEPT ![p] = Tail(@)]
  /\ UNCHANGED <<limit, sweep, links, appVars, job, initVars, crashes, stops>>

HandleEnd(p) ==
  /\ Take(p, "initStop") \/ Take(p, "leave")
  /\ state' = [state EXCEPT ![p] = "dying"] /\ box' = [box EXCEPT ![p] = Tail(@)]
  /\ PidExits(p)
  /\ UNCHANGED <<limit, kind, parent, sweep, links, appMaps, names, l, pushed, busy, toStop, job, initVars, crashes, stops>>

(* stopAllChild: the newest child that is alive is asked to stop and waited  *)
(* for; one that is dying by itself is not.  (That the wait is over after    *)
(* 100 s is left to module Supervisor.)                                      *)
SweepAsk(p) ==
  LET alive == {c \in Children(p) : IsAlive(c)}
  IN  /\ state[p] \in {"sweeping", "dying"} /\ sweep[p].child = None /\ alive # {}
      /\ sweep' = [sweep EXCEPT ![p].child = Max(alive)]
      /\ box' = Sent(Max(alive), Msg("initStop", None))
      /\ UNCHANGED <<limit, kind, state, parent, links, appVars, job, listed, initVars, crashes, stops>>

SweepNext(p) ==
  /\ sweep[p].child # None /\ state[sweep[p].child] = "dead"
  /\ sweep' = [sweep EXCEPT ![p].child = None]
  /\ UNCHANGED <<limit, kind, state, parent, box, links, appVars, job, listed, initVars, crashes, stops>>

Swept(p) == sweep[p].child = None /\ \A c \in Children(p) : ~IsAlive(c)

\* the handler of stop answers and leaves the supervisor a message to end
StopAnswered(p) ==
  /\ state[p] = "sweeping" /\ Swept(p)
  /\ state' = [state EXCEPT ![p] = "leaving"]
  /\ box' = [box EXCEPT ![p] = Append(@, Msg("leave", None))]
  /\ busy' = IF sweep[p].by = "app" /\ busy = p THEN None ELSE busy
  /\ UNCHANGED <<limit, kind, parent, sweep, links, appMaps, names, l, pushed, appMail, toStop, job, listed,
                  initVars, crashes, stops>>

\* the end of Terminate
Ends(p) ==
  /\ state[p] = "dying" /\ Swept(p)
  /\ state' = [state EXCEPT ![p] = "dead"] /\ box' = [box EXCEPT ![p] = <<>>]
  /\ UNCHANGED <<limit, kind, parent, sweep, links, appVars, job, listed, initVars, crashes, stops>>

Crash(p) ==
  /\ kind[p] \in {"child", "plain"} /\ state[p] = "alive" /\ crashes < limit.crashes
  /\ state' = [state EXCEPT ![p] = "dying"] /\ crashes' = crashes + 1
  /\ PidExits(p)
  /\ box' = IF kind[p] = "child" THEN Sent(parent[p], Msg("exit", p)) ELSE box
  /\ UNCHANGED <<limit, kind, parent, sweep, links, appMaps, names, l, pushed, busy, toStop, job, initVars, stops>>

-----------------------------------------------------------------------------
(* The application actor.  While it stops a supervisor (busy) it handles     *)
(* nothing else; SupStop of one whose channel is closed returns at once, and *)
(* a stop that is still in the mailbox of one that ends has no answer.       *)
App(t) == busy = None /\ toStop = <<>> /\ appMail # <<>> /\ Head(appMail).t = t
NameOf(p) == CHOOSE n \in AppNames : \E s \in Starters : job[s].pid = p /\ job[s].name = n

HandleInfo ==
  LET p == Head(appMail).x IN
  /\ App("info")
  /\ l' = <<p>> \o l /\ pushed' = pushed \cup {p}
  /\ box' = Sent(p, Msg("link", None))
  /\ appMail' = Tail(appMail)
  /\ UNCHANGED <<limit, kind, state, parent, sweep, links, appMaps, names, busy, toStop, job, listed, initVars,
                  crashes, stops>>

(* list.Remove: nothing happens if it was removed before *)
Without(q) ==
  LET i == CHOOSE i \in DOMAIN l : l[i] = q
  IN  IF \E j \in DOMAIN l : l[j] = q
      THEN SubSeq(l, 1, i - 1) \o SubSeq(l, i + 1, Len(l)) ELSE l

(* PidExit removes what the map has under the name, whoever stored it; if    *)
(* that one is not yet in the list the handler panics half-way.              *)
HandleAppExit ==
  LET p == Head(appMail).x
      q == appMaps[NameOf(p)]
  IN  /\ App("exit")
      /\ names' = names \ {p}
      /\ IF p \in names /\ q \in pushed
         THEN l' = Without(q) /\ appMaps' = [appMaps EXCEPT ![NameOf(p)] = None]
         ELSE UNCHANGED <<l, appMaps>>
      /\ appMail' = Tail(appMail)
      /\ UNCHANGED <<limit, procVars, pushed, busy, toStop, job, listed, initVars, crashes, stops>>

SupStop(q) ==
  /\ busy' = IF state[q] = "dead" THEN None ELSE q
  /\ box' = Sent(q, Msg("stop", "app"))

HandleAppStop ==
  LET q == appMaps[Head(appMail).x] IN
  /\ App("stop")
  /\ IF q \in Pids THEN SupStop(q) ELSE UNCHANGED <<busy, box>>
  /\ appMail' = Tail(appMail)
  /\ UNCHANGED <<limit, kind, state, parent, sweep, links, appMaps, names, l, pushed, toStop, job, listed,
                  initVars, crashes, stops>>

\* initStop walks over the list; 0 stands for its answer
HandleInitStop ==
  /\ App("init")
  /\ toStop' = Append(l, 0)
  /\ appMail' = Tail(appMail)
  /\ UNCHANGED <<limit, procVars, appMaps, names, l, pushed, busy, job, listed, initVars, crashes, stops>>

StopNext ==
  LET q == appMaps[NameOf(Head(toStop))] IN
  /\ busy = None /\ toStop # <<>> /\ Head(toStop) # 0
  /\ toStop' = Tail(toStop)
  /\ IF q \in {p \in Pids : IsAlive(p)} THEN SupStop(q) ELSE UNCHANGED <<busy, box>>
  /\ UNCHANGED <<limit, kind, state, parent, sweep, links, appMaps, names, l, pushed, appMail, job, listed,
                  initVars, crashes, stops>>

-----------------------------------------------------------------------------
(* InitStop: the applications first, for 600 s, then the init server.  The   *)
(* callback of the program (stopCB) is left out, and a second InitStop, which *)
(* stops nothing.                                                            *)
InitStop ==
  /\ stage = "running" /\ stage' = "apps"
  /\ appMail' = Append(appMail, Msg("init", None))
  /\ aliveThen' = {p \in Pids : IsAlive(p)}
  /\ appsThen' = {p \in Pids : /\ \E n \in AppNames : appMaps[n] = p
                              /\ \E s \in Starters : job[s].pid = p /\ At(s, "done")}
  /\ UNCHANGED <<limit, procVars, appMaps, names, l, pushed, busy, toStop, job, listed, walk, visited,
                  gaveUp, hasty, crashes, stops>>

AppsAnswered ==
  /\ toStop = <<0>> /\ busy = None /\ toStop' = <<>>
  /\ IF stage = "apps" THEN stage' = "walk" /\ walk' = listed ELSE UNCHANGED <<stage, walk>>
  /\ UNCHANGED <<limit, procVars, appMaps, names, l, pushed, appMail, busy, job, listed, visited, gaveUp,
                  hasty, aliveThen, appsThen, crashes, stops>>

AppsGivenUp ==
  /\ stage = "apps" /\ stage' = "walk" /\ walk' = listed /\ gaveUp' = TRUE
  /\ UNCHANGED <<limit, procVars, appVars, job, listed, visited, hasty, aliveThen, appsThen, crashes, stops>>

\* Mutant: initStopF does not wait for the one it has asked.
VisitAndGo(p) ==
  /\ stage = "walk" /\ visited = None /\ p \in walk /\ (\A q \in walk : q <= p) /\ walk' = walk \ {p}
  /\ box' = IF IsAlive(p) THEN Sent(p, Msg("initStop", None)) ELSE box
  /\ hasty' = (hasty \/ state[p] = "dying") /\ UNCHANGED visited
  /\ UNCHANGED <<limit, kind, state, parent, sweep, links, appVars, job, listed, stage, gaveUp, aliveThen,
                  appsThen, crashes, stops>>

Visit(p) ==
  /\ stage = "walk" /\ visited = None /\ p \in walk /\ (\A q \in walk : q <= p) /\ walk' = walk \ {p}
  /\ IF IsAlive(p) THEN visited' = p /\ box' = Sent(p, Msg("initStop", None))
                   ELSE UNCHANGED <<visited, box>>
  /\ hasty' = (hasty \/ state[p] = "dying")
  /\ UNCHANGED <<limit, kind, state, parent, sweep, links, appVars, job, listed, stage, gaveUp, aliveThen,
                  appsThen, crashes, stops>>

(* The answer, or 3 s without one from a process that is no longer alive,    *)
(* be it in its Terminate.  One that is alive is waited for again.           *)
Visited ==
  /\ visited # None /\ ~IsAlive(visited) /\ visited' = None
  /\ hasty' = (hasty \/ state[visited] = "dying")
  /\ UNCHANGED <<limit, procVars, appVars, job, listed, walk, stage, gaveUp, aliveThen, appsThen, crashes, stops>>

\* kernelStop: main returns
KernelStop ==
  /\ stage = "walk" /\ visited = None /\ walk = {} /\ stage' = "stopped"
  /\ UNCHANGED <<limit, procVars, appVars, job, listed, walk, visited, gaveUp, hasty, aliveThen, appsThen,
                  crashes, stops>>

-----------------------------------------------------------------------------
Next ==
  /\ stage # "stopped"
  /\ \/ StartPlain
     \/ \E p \in Pids :
          \/ PlainStarted(p) \/ StartChild(p) \/ ChildStarted(p) \/ Crash(p)
          \/ HandleLink(p) \/ HandleStop(p) \/ HandleExit(p) \/ HandleEnd(p)
          \/ SweepAsk(p) \/ SweepNext(p) \/ StopAnswered(p) \/ Ends(p)
          \/ Visit(p)
     \/ \E s \in Starters, n \in AppNames : AppCheck(s, n) \/ AppRestart(s, n)
     \/ \E s \in Starters : AppBegin(s) \/ AppPanics(s) \/ AppNil(s) \/ AppStarted(s) \/ AppTells(s) \/ AppRestarted(s)
     \/ \E n \in AppNames : AppStop(n)
     \/ HandleInfo \/ HandleAppExit \/ HandleAppStop \/ HandleInitStop \/ StopNext
     \/ InitStop \/ AppsAnswered \/ AppsGivenUp
     \/ Visited \/ KernelStop

Spec == Init /\ [][Next]_vars

-----------------------------------------------------------------------------
(* StopsAll: when main returns, whatever was alive when InitStop was called  *)
(* has ended or runs its Terminate, and so has every child, even one started *)
(* again during the walk, unless the walk went past a supervisor in its      *)
(* Terminate.  The applications stop before the walk, unless the 600 s were  *)
(* over or a later start, or its exit, has taken the place in the map.       *)
StopsAll ==
  /\ stage = "stopped" =>
       /\ \A p \in aliveThen : ~IsAlive(p)
       /\ hasty \/ \A c \in Pids : parent[c] \in aliveThen => ~IsAlive(c)
  /\ stage \in {"walk", "stopped"} /\ ~gaveUp =>
       \A p \in appsThen : (\E n \in AppNames : appMaps[n] = p) => state[p] # "alive"
=============================================================================
