------------------------------ MODULE Services ------------------------------
(***************************************************************************)
(* Services of the library: a timer actor, the pool of httpc, the          *)
(* processes that write to the database, the monitor of nodes, the         *)
(* buffered writer, and the applications with the end of the program.      *)
(* They share nothing: a behaviour is about the one that `part' says.      *)
(* Variables of one name are one variable here.                            *)
(***************************************************************************)
EXTENDS Timer, Sequences

CONSTANTS None, Callers, Worker,                              \* HttpcPool
          Keys, SyncNum, Slice, MaxWrites, MaxFaults,         \* DbSync
          Watchers, Peers, MaxMessages,                       \* Monitor
          WriterSize, Capacity, Lengths, MaxWritten,          \* BufWriter
          AppNames, Starters, MaxPids, Limits                 \* Applications

\* The messages of httpc's manager are told apart by their types.
ASSUME KindsAssumption ==
  /\ Worker \notin Callers /\ "loop" \notin Callers \cup {Worker}
  /\ None \notin Callers
ASSUME SyncAssumption == Keys \subseteq Nat /\ SyncNum \in Nat \ {0} /\ Slice \in Nat \ {0}
ASSUME SizeAssumption == WriterSize \in Nat /\ Capacity \in Nat /\ Lengths \subseteq Nat
\* Pids are numbers from 1; 0 is nil.
ASSUME PidAssumption == MaxPids \in Nat /\ None \notin 0 .. MaxPids

VARIABLES part,
          mail, multi,
          idle, inbox, doing, request, chan, sends, away, dropped,                     \* HttpcPool
          cache, batches, fail, table, up, faults, log, done, refused, read,                       \* DbSync
          node2pid, id2node, asked, handled, heard,                                    \* Monitor
          buffered, err, written, taken, short, writing, unwritten,                    \* BufWriter
          limit, kind, state, parent, box, sweep, links, appMaps, names, apps, pushed, appMail, busy,
          toStop, job, listed, walk, visited, stage, crashes, stops, gaveUp, hasty, aliveThen, appsThen  \* Applications

poolVars == <<idle, inbox, doing, request, chan, sends, away, dropped>>
syncVars == <<cache, batches, fail, table, up, faults, log, done, refused, read>>
monitorVars == <<node2pid, id2node, asked, handled, heard>>
writerVars == <<buffered, err, written, taken, short, writing, unwritten>>
appsVars == <<limit, kind, state, parent, box, sweep, links, appMaps, names, apps, pushed, appMail, busy,
              toStop, job, listed, walk, visited, stage, crashes, stops, gaveUp, hasty, aliveThen, appsThen>>

Pool == INSTANCE HttpcPool
Sync == INSTANCE DbSync
Nodes == INSTANCE Monitor WITH told <- heard
Writer == INSTANCE BufWriter WITH Size <- WriterSize, sent <- written, rest <- unwritten
Apps == INSTANCE Applications WITH l <- apps

----------------------------------------------------------------------------
(* See HttpcPool, DbSync, Monitor, BufWriter and Applications, and Timer     *)
(* for OnTime.                                                               *)
PoolRight == part = "httpc" => Pool!PoolRight
RowsRight == part = "sync" => Sync!InsertedOnce /\ Sync!ReadsWrites
ToldRight == part = "monitor" => Nodes!ToldRight
WriterFaithful == part = "writer" => Writer!WriterFaithful
StopsAll == part = "apps" => Apps!StopsAll
=============================================================================
