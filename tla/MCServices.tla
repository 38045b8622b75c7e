---------------------------- MODULE MCServices ----------------------------
(***************************************************************************)
(* All services of the library and the streams they serve: those of        *)
(* Services, the check of the tables of a database, and the parts of       *)
(* MCStreams.                                                              *)
(* They share nothing; the initial state chooses the one a behaviour is    *)
(* about.                                                                  *)
(***************************************************************************)
EXTENDS Services

CONSTANTS Version, MaxStarts,                                 \* DbCheck
          w1, w2, ReadLimit, MaxRead, MaxMessage, MaxPayload, Max7, Max16,
          HeadSize, Base, SmallCap, FirstCap                  \* MCStreams

VARIABLES columns, version, def, phase, tabs, unchecked, adding, writes, cached, starts,    \* DbCheck
          moved, unsaid,
          stream, rest, p, cut,                                                        \* MCStreams
          frames, wire, c, loop, reply, open, onClose, casts, sent, mux, todo, spoilt,
          packets, link, sock, event, hangup, client, need, frame, turn, conn,
          handler, recvState, wake, buffer, total, chunk, told, met

checkVars == <<columns, version, def, phase, tabs, unchecked, adding, writes, cached, starts, moved, unsaid>>
streamVars == <<stream, rest, p, cut, frames, wire, c, loop, reply, open, onClose, casts, sent,
                mux, todo, spoilt, packets, link, sock, event, hangup, client, need, frame, turn, conn,
                handler, recvState, wake, buffer, total, chunk, told, met>>
allVars == <<part, mail, multi, vars, poolVars, syncVars, checkVars, monitorVars, writerVars,
             appsVars, streamVars>>

(* Programs with one table: fields come, go and change their places. *)
Fields(s) == [t \in {"t"} |-> s]
Definitions == {Fields(<<"a", "b">>), Fields(<<"a", "c", "b">>), Fields(<<"a", "d", "e">>),
                Fields(<<"b", "a">>)}

(* Programs with two starts of one application; with a child that crashes;  *)
(* with AppStop; with a process that has no supervisor.                      *)
Program(starters, sups, plain, children, crash, stop) ==
  [starters |-> starters, sup |-> sups, plain |-> plain, child |-> children,
   crashes |-> crash, stops |-> stop]
MCLimits == {Program({"s1", "s2"}, 2, 0, 0, 0, 0), Program({"s1"}, 1, 0, 2, 1, 0),
             Program({"s1"}, 1, 0, 1, 0, 1), Program({"s1"}, 1, 1, 1, 0, 0)}

C == INSTANCE DbCheck WITH Tables <- {"t"}, todo <- unchecked
N == INSTANCE MCStreams

----------------------------------------------------------------------------
NoPool ==
  /\ idle = <<>> /\ inbox = <<>> /\ doing = <<>> /\ request = <<>> /\ chan = <<>>
  /\ sends = <<>> /\ away = FALSE /\ dropped = {}
NoSync ==
  /\ cache = <<>> /\ batches = <<>> /\ fail = <<>> /\ table = <<>> /\ up = FALSE /\ faults = 0
  /\ log = <<>> /\ done = {} /\ refused = {} /\ read = <<>>
NoCheck ==
  /\ columns = <<>> /\ version = <<>> /\ def = <<>> /\ phase = "off" /\ tabs = <<>>
  /\ unchecked = {} /\ adding = {} /\ writes = <<>> /\ cached = <<>> /\ starts = 0
  /\ moved = FALSE /\ unsaid = {}
NoMonitor ==
  node2pid = <<>> /\ id2node = <<>> /\ asked = 0 /\ handled = <<>> /\ heard = <<>>
NoWriter ==
  /\ buffered = <<>> /\ err = FALSE /\ written = <<>> /\ taken = <<>> /\ short = FALSE
  /\ writing = FALSE /\ unwritten = <<>>

NoApps ==
  /\ limit = <<>> /\ kind = <<>> /\ state = <<>> /\ parent = <<>> /\ box = <<>> /\ sweep = <<>>
  /\ links = {} /\ appMaps = <<>> /\ names = {} /\ apps = <<>> /\ pushed = {} /\ appMail = <<>>
  /\ busy = None /\ toStop = <<>> /\ job = <<>> /\ listed = {} /\ walk = {} /\ visited = None
  /\ stage = "off" /\ crashes = 0 /\ stops = 0 /\ gaveUp = FALSE /\ hasty = FALSE
  /\ aliveThen = {} /\ appsThen = {}

ServicesInit ==
  /\ Init
  /\ \/ /\ part = "timer" /\ mail = <<>> /\ multi = FALSE
        /\ NoPool /\ NoSync /\ NoCheck /\ NoMonitor /\ NoWriter /\ NoApps /\ N!Nothing
     \/ /\ part = "httpc" /\ Pool!Init /\ multi = FALSE
        /\ NoSync /\ NoCheck /\ NoMonitor /\ NoWriter /\ NoApps /\ N!Nothing
     \/ /\ part = "sync" /\ Sync!Init
        /\ NoPool /\ NoCheck /\ NoMonitor /\ NoWriter /\ NoApps /\ N!Nothing
     \/ /\ part = "check" /\ C!Init /\ mail = <<>>
        /\ NoPool /\ NoSync /\ NoMonitor /\ NoWriter /\ NoApps /\ N!Nothing
     \/ /\ part = "monitor" /\ Nodes!Init /\ multi = FALSE
        /\ NoPool /\ NoSync /\ NoCheck /\ NoWriter /\ NoApps /\ N!Nothing
     \/ /\ part = "writer" /\ Writer!Init /\ mail = <<>> /\ multi = FALSE
        /\ NoPool /\ NoSync /\ NoCheck /\ NoMonitor /\ NoApps /\ N!Nothing
     \/ /\ part = "apps" /\ Apps!Init /\ mail = <<>> /\ multi = FALSE
        /\ NoPool /\ NoSync /\ NoCheck /\ NoMonitor /\ NoWriter /\ N!Nothing
     \/ /\ N!Init /\ mail = <<>> /\ multi = FALSE
        /\ NoPool /\ NoSync /\ NoCheck /\ NoMonitor /\ NoWriter /\ NoApps

ServicesNext ==
  \/ /\ part = "timer" /\ Next
     /\ UNCHANGED <<part, mail, multi, poolVars, syncVars, checkVars, monitorVars, writerVars,
                    appsVars, streamVars>>
  \/ /\ part = "httpc" /\ Pool!Next
     /\ UNCHANGED <<part, multi, vars, syncVars, checkVars, monitorVars, writerVars, appsVars,
                    streamVars>>
  \/ /\ part = "sync" /\ Sync!Next
     /\ UNCHANGED <<part, vars, poolVars, checkVars, monitorVars, writerVars, appsVars, streamVars>>
  \/ /\ part = "check" /\ C!Next
     /\ UNCHANGED <<part, mail, vars, poolVars, syncVars, monitorVars, writerVars, appsVars,
                    streamVars>>
  \/ /\ part = "monitor" /\ Nodes!Next
     /\ UNCHANGED <<part, multi, vars, poolVars, syncVars, checkVars, writerVars, appsVars,
                    streamVars>>
  \/ /\ part = "writer" /\ Writer!Next
     /\ UNCHANGED <<part, mail, multi, vars, poolVars, syncVars, checkVars, monitorVars,
                    appsVars, streamVars>>
  \/ /\ part = "apps" /\ Apps!Next
     /\ UNCHANGED <<part, mail, multi, vars, poolVars, syncVars, checkVars, monitorVars,
                    writerVars, streamVars>>
  \/ /\ N!Next
     /\ UNCHANGED <<mail, multi, vars, poolVars, syncVars, checkVars, monitorVars, writerVars,
                    appsVars>>

ServicesSpec == ServicesInit /\ [][ServicesNext]_allVars

----------------------------------------------------------------------------
(* See DbCheck and MCStreams, and Services for the others.                   *)
SchemaRight == part = "check" => C!SchemaRight
Parsed == N!Parsed
Reassembled == N!Reassembled
WrittenWhole == N!WrittenWhole
PacketsWhole == N!PacketsWhole
=============================================================================
