# Verification of gootp

TLA+ models, TLC runs and TLAPS proofs for gootp, a Go library in the manner of
Erlang/OTP: actors with mailboxes, calls, supervisors, a name registry, timers
(`kernel`), nodes connected over TCP (`node`), socket servers (`gate`), an HTTP
server and client (`httpd`, `httpc`) and a write-behind layer for MySQL (`db`).

Every definition is translated from the Go code; `PROJECT.json` gives, under
`map`, the lines each one stands for. This file says what is modelled and why,
what the runs and the proofs show, and what is left.

## 1. Inventory

| Component | State | Operations | Interacts with | What is hard | Module |
|---|---|---|---|---|---|
| Actor mailbox (`kernel/actor.go`, `context.go`, `self_sender.go`) | channel `pid.c`, stash `ctx.msgQ`, selfSender's channel | `Cast`, `recMsg`, `CastSelf`, `exitFinal` | everything | two queues that must look like one; a length read and used later; blocking sends | `Mailbox` |
| Calls (`actor.go`, `context.go`) | `callResult` of each actor, callIDs, timers | `Call`, `Context.Call`, `Reply`, `recResult` | mailbox, supervisor, init server | late results, closed channels, two actors calling each other | `CallReply` |
| Names (`name_map.go`) and life of an actor (`StartOpt`, `exitFinal`) | `nameMap`, `id2Name`, `isAlive`, `Context.name` | start, `Register`, `WhereIs`, `UnRegister` | supervisor restarts | several steps on two maps, deletion by name | `Registry` |
| Supervisor (`supervisor.go`, `kct/bmap.go`) | list of children, map of descriptions | start, restart, stop, terminate | children, init server, callers | exits on their way while children are restarted and stopped; failing starts | `Supervisor` |
| Timers (`kernel/timer.go`) | five lists, tick number | `SendAfter`, `loopTimer` | actors that get the messages | list boundaries, phases, late ticks | `Timer` |
| `SingleRingBuffer` | slice, head, tail, cap | `Put`, `Pop` with growth and shrinking | the stash; queues of `httpd`, `httpc` | indices while size changes | `RingQueue` |
| Init server, applications (`init.go`, `application.go`) | list of started actors; map of applications | `InitStop`, `AppStart`, `AppStop`, `AppRestart` | supervisor | stopping while others start; pids that go stale | `Applications` |
| Nodes (`kernel/node.go`, `node/*`) | node table, client per link | connect, casts and calls over links, ping | gate, monitor | connects from both ends, lost replies | `NodeLink` |
| Node monitor (`node/monitor.go`) | two maps | `Monitor`, `DeMonitor`, notifications | node clients, watchers | two maps that must agree | `Monitor` |
| gate | listeners, connections, read buffer | accept, `Recv`, `StartReader`, `readBuf` | node, users | reassembly, mode switch under the event loop | `GateConn` |
| coder (`gate/pb`) | parsed types | `Parse`, `Encode`, `Decode` | node, gate's users | widths, nesting, where the next field begins | `Pb` |
| httpd | parser, router, manager and its workers | parse, dispatch, reply | gate's event loop library | pipelining, pool, reuse | `HttpParser`, `Router`, `HttpdPool` |
| websocket | frame reader, writer, close handshake | upgrade, read, write, close | httpd | fragmentation, concurrent writers | `Handshake`, `WebSocket` |
| httpc | manager, pool of workers | `Request`, time-out | net/http | requests given up, workers lost | `HttpcPool` |
| db | insert cache, sync worker; versions of tables | insert, update, delete, select, flush; check at the start | MySQL | what passes the cache; starts that are cut off | `DbSync`, `DbCheck` |
| bpool | size classes, `Writer` | `New`, `Write`, `Flush` | httpd, gate | short writes, errors that stick, buffers used after `Free` | `BufWriter`, in `GateConn` and `WebSocket` |
| astar | nodes kept between searches | `Search` | | marks of old searches | `AStar` |
| rpc, gmpd, `RingBuffer`, timer library, logger, args, gutil, rand, shell, crypto | | | | see section 6 | |

What makes each of the modelled components correct:

- **Mailbox**: nothing is lost or served twice, no sender's messages are
  overtaken, everything sent is served.
- **Calls**: a call returns its own result or an error, and returns; a replier
  is not blocked by a caller that has gone away.
- **Names**: a name never leads to a closed actor, the two maps agree, one
  living actor has a name.
- **Supervisor**: it knows every child that is alive, leaves none behind, brings
  back what crashed, stops in reverse order.
- **Timers**: never later than what others have cost; periodic timers stay.
- **Ring**: a FIFO queue, whatever its capacity does.
- **Applications**: when the program ends, nothing that was alive still works.
- **Nodes**: the table lists the clients that are up; casts over a link keep
  their order; a call is known to its link; a lost connection is noticed.
- **Monitor**: a watcher is told exactly while it watches.
- **Streams** (gate, parser, websocket): what comes out is what was sent,
  wherever the bytes were cut.
- **Pools** (httpd, httpc): no worker is lost or given out twice; an answer
  reaches its own request.
- **Database**: while the program runs every insert waits in one place, was done
  or was refused by the database, and none is lost or done twice; a started
  program finds its tables as it defines them, unless a write of a version failed.
- **Functions** (router, coder, handshake, search, writer): against a
  reference definition each.

## 2. Structure and plan

Component modules hold one component each. The others compose them:

- `Services` composes `Timer`, `HttpcPool`, `DbSync`, `Monitor`, `BufWriter` and
  `Applications`. It declares no RECURSIVE operator, so that theorems can be
  stated about the six.
- `MCServices` extends it by `DbCheck` and `MCStreams`, which composes
  `HttpParser`, `WebSocket` and `GateConn`.
- `MCFunctions` composes the sequential parts: `RingQueue`, `Router`, `Pb`,
  `Handshake`, `AStar`.
- `MCNodeLink`, and the smaller `MCCallReply`, `MCRegistry`, `MCSupervisor`,
  `MCHttpdPool`, have the definitions that a configuration cannot write.

`MCServices`, `MCStreams`, `MCFunctions` and the last five are only for TLC.
Proofs are in modules of their own: `MailboxProofs`, `CallReplyProofs`,
`RegistryProofs`, `RingQueueProofs`, `SupervisorProofs`, `HttpdPoolProofs`,
`NodeLinkProofs`, and `ServiceProofs` for `Services`.

The parts of a composition share no variable that both change: the initial
state chooses the part a behaviour is about and the others keep a fixed value.
A property of a part is thus checked on exactly the behaviours of that part.

`RingRoom`, which `RingQueue`, `FifoQueue`, `Mailbox` and `HttpdPool` share, says what
room a ring has.

Abstract specifications: `FifoMailbox` (implemented by `Mailbox`), `FifoQueue`
(implemented by `RingQueue`).

What is left, in order:

1. Proofs for the writers of `WebSocket`, which share one lock: that the frames of
   two of them never mix. (`WrittenWhole` itself compares with recursive operators.)
2. Lemmas about what the functions have without recursion: the selection of a
   route, the widths of the coder.
3. Links with calls by pid, when their requests are sent as calls.

## 3. The models

### Mailbox, FifoMailbox

The receiving actor has a channel (`ch`), a stash (`msgQ`) and, for messages it
sends to itself, the selfSender. There is one selfSender for all actors: its
queue (`relay`) holds what others hand to it as well (`Foreign`), and while one
of them has a full mailbox it forwards nothing. Actions, one per step of the code
between two points where another goroutine can interfere:

| Action | Code |
|---|---|
| `Cast(s, op)` | another goroutine sends; it blocks while `ch` is full |
| `TakeStashed`, `TakeReceived` | `recMsg`: stash first, then the channel |
| `CastSelf`, `PutSelf`, `RelaySelf` | `Context.CastSelf`: look at the channel, then stash or ask the selfSender |
| `Forward`, `ForeignCast`, `ForwardForeign` | the selfSender casts, for this actor or for another |
| `BeginCall`, `Stash`, `EndCall` | `Context.recResult` moves the mailbox into the stash |
| `PutSelfPanics`, `StashPanics` | Put of a stash that was narrowed panics: the message is lost, the call or the handler ends |
| `Finish`, `Crash`, `CloseChan` | the handler returns or panics; `exitFinal` |

`FifoMailbox` is what users are promised: one queue; a message is taken from
its head; once the queue has outgrown the stash's maximum, one may be dropped.
`RefinesFifo` maps the queue to stash, then the message `CastSelf` is
about to stash, then channel. That third part is the point: `CastSelf` looks at
`len(c)` and stashes afterwards, and a message that arrives in between must be
thought of as behind it. `Consistent` is the type invariant with `NothingLost`
and `AtMostOnce`: every message sent is in one place, or it was lost by the panic
of Put, and that takes a stash that has outgrown its maximum.

What the stash has room for is module `RingRoom`: the part of `RingQueue` that a
user can tell. `RingQueue` refines `FifoQueue`, which is a queue with that room,
so `Mailbox` and `HttpdPool` need not have the ring itself.

`Delivered` is the liveness property: whatever a sender has sent that was not taken
(`Unserved`) is taken, or the actor
exits, or Put panics. It has two more exceptions, which the code really has.
`Jammed`: an actor that calls `CastSelf` while its own channel and the
selfSender's channel (10000 slots) are both full waits for the selfSender,
which waits for it. `HeldUp`: another actor leaves its mailbox full for ever, and
the selfSender waits for it with what it has for this one.

Fairness: weak for the actor's own steps, i.e. goroutines that can run do run, and
calls end, because their timers fire. Strong for handlers that return (`Finish`; a
handler may leave for a call again and again) and for the two sends that compete
with others for a slot, `Forward` and `RelaySelf`: blocked senders of a Go channel
are served in their order. Nothing is assumed of senders and of other actors.

### CallReply

Actors and plain goroutines (`Clients`) call each other. `Kinds` tells the two
ways: "own" is `Context.Call` (results come to the actor's one-slot
`callResult`, its mailbox is stashed meanwhile), "fresh" is `Call` (a channel
per call). A call has its steps apart: `BeginCall`, `Send` (blocks on a full
channel), `Return`/`SendFails` (closed channel), `Receive`, `Stash`, `Timeout`.
Serving a request is `Take`, `HandlerReturns` or `HandlerPanics`, then
`ReplyOwn`, `ReplyFresh` or `ReplyPanics`; a late result stays in `callResult`
until `DrainBox` or the next call. `Exit` and `Close` are `exitFinal`. A handler
that returns without a reply (`ChangeCallMode`) is like one that panics; that it
may call `Reply` later is left out. The stash has room here; `Mailbox` has the Put that
panics.
`Consistent` adds `InOnePlace` to the type: a request is waiting, served or
answered, never two of them.

Fairness: weak for each process's own steps including its timer; handlers
return. A handler need not call.

Two things the code does are worth knowing:

- `call_reply_stuck`: the select in `recMsg` that drains late results is only
  reached with an empty stash. Two actors that call each other twice and time
  out reply into each other's full `callResult` and block for good.
- Not a run of its own: `callTimeOut` sends the request before it starts its
  timer. Two actors with full channels that call each other wait in that send
  for good. `call_live` therefore has room in the channels (`ChanCap = 4`, more
  than the messages there are).

### Registry

`Begin` to `InitReturns` is `StartOpt`, with `registerNotExist` cut into the
look-up and the two stores; `InitPanics` leads to `initExit`; `Die` to
`CloseChan` is `exitFinal`. `registerNotExist`, `UnRegister` and `Register` are
cut at every access to one of the two maps: the load, the store or delete in
`nameMap`, the store or delete in `id2Name`. `Register` may give a running actor
a name at any time (one goroutine at a time for a process).

`NameKnown` says that the maps agree, once both stores are made. It has an
exception the code cannot avoid: when an `UnRegister` has loaded a process and a
`Register` then stores it again, the delete of `id2Name` that is still to come
takes away what `Register` stored. `crossed` remembers such processes.

`Anybody = FALSE` restricts starts to what a supervisor does: the name is started
again when PidExit of the last incarnation has been sent, or its start failed.
Under that rule a name has one living actor (`UniqueAlive`, a part of
`Consistent`); with `Anybody = TRUE` it does not (two starts may pass the check
before either is alive), so that is only claimed for supervised names. A
rejected start also removes the entry of the actor that holds the name
(`initExit`), which is why `AliveResolvable` is not claimed either;
`registry_restart` shows that it fails even for supervised names: `exitFinal`
tells the links first and deletes the name afterwards.

### RingQueue, FifoQueue

`Put` and `Pop` as the code has them, on slots numbered from 0. `cap` and
`len(s.cache)` are separate variables because `narrow` changes only one of
them. `PutPanics` is a `Put` that indexes past the slice, which Go turns into a
panic. `RefinesFifo` says that the ring is a FIFO queue as long as it does not
panic: growing, wrapping and narrowing neither lose nor reorder anything.
`Consistent`: indices in range, popped values not held, an idle ring small.
`RefinesFifo` includes the room: a `Put` of the ring panics exactly when `RingRoom`
has none. That a `Put` can panic is a finding: after the queue has outgrown `maxCap` and
has been drained, it takes no more than `maxCap` values.

### Supervisor

The supervisor handles one message at a time; its mailbox is the FIFO queue of
`FifoMailbox`, so `mail` is one sequence. What a handler does up to its return is
one action, except `stopAllChild`, which waits for each child in turn while
everybody else goes on: `AskToStop`, `SkipDead`, `GiveUp` (the 100 seconds), and
its end in `StopReturns` (called from the handler of SupStop) or `Close` (called
from Terminate). The Cast of the initStop finds room in the child's mailbox: while
that is full the code waits, before the timer of the 100 seconds runs. Children are reduced to what the supervisor sees of them:
`Die` (isAlive is 0), `Tell` (PidExit is sent), `End` (the initStop is answered).
A child of type supervisor is started without a link, so it never tells.

Pids are numbers in the order of `makePid`. `pass` stands for the callIDs of one
walk over the children: an answer to an initStop of an earlier walk is not taken.

Met while modelling and not claimed as properties: a second `SupStop` that is
queued while the first one is served is lost when the channel is closed, and its
caller waits for a day; a supervisor whose boot fails leaves the initial children
it had started; `SupStop` returns before the name is free; a start that fails is
never answered (finding).

Fairness: weak for the supervisor's goroutine (its handlers terminate and its
timer fires), for the selfSender (no other actor leaves it waiting; `Mailbox` has
that case), and for each child's handling of an initStop
and its exit. Crashes and callers are free.

### Timer

One timer actor. Time is counted in ticks. A timer carries its due time, fixed by
the sender; `Receive` puts it on the list for its interval; `LoopTimer` is one
call of `loopTimer`: fire what is due on the finest list, then look at the
coarser lists whose period divides the tick number and move down what is due
within their period. `LoseTick` is a tick that is dropped or late, `LateTick` a
late one that is handled right after another. `slack` is a history variable: the ticks
for which a timer was held up before it was received and while it was on a
list. `OnTime` then says that moving between lists costs nothing.

The lengths are multiples of each other's tick only if 1000 is a multiple of
`timerMinTick`, which `SetTimerMinTick` enforces for the system's group
(`LengthAssumption`). A group made with `TimerStartHandler` may use another tick
than the one `tLoop` runs at; that is outside the model.

### Applications

`AppStart` is cut where the code gives way: the look-up (`AppCheck`), the
application's Start (`AppBegin`, or `AppPanics`, or `AppNil` when it returns no
pid), the two stores (`AppStarted`) and the Cast to the actor "application"
(`AppTells`). That actor handles what it is told, the exits of supervisors,
`AppStop` and `InitStop`'s request one at a time; while it waits for a
supervisor to stop it handles nothing (`busy`). The init server's walk is
`Visit` and `Visited`, three seconds at a time. Supervisors are taken at what
module `Supervisor` shows of them: a stop waits for every living child. Their
100 seconds for a child stay with that module.

The list of the init server is only read by the walk, so a registration is taken
as handled when it is sent. New ones are put in front, and the walk starts there:
since processes are numbered as they start, the list is a set here of which the walk
takes the largest. A second InitStop and the callback before the first
are left out, as are the kernel's own processes, which the walk skips.

`StopsAll`: when the program ends, whatever was alive when InitStop was called
has ended or runs its Terminate. Three histories name what the code does not
wait for: `hasty` (the walk went past a process in its Terminate, see the
findings), `gaveUp` (the 600 s), and an application whose place in the map
another start has taken.

### NodeLink, Monitor

Two nodes and up to two connections between them. A caller's `Check`, `Dial` and
answer are `ConnectNode`; the start of a client on each side is `GetNode` (its
Load), `StoreNode` (its Store, when nothing was found), `SetNodeNetWork`, or
`HandshakeEnds`; `Handle` is one message of a client (`HandleWrite`,
`HandleReply`, `HandlePing`, `HandleTick`, `ClientEnds`), `RecPacket` and
`RecEnds` the goroutine that reads. `Fail` is TCP: a connection breaks, with or
without what is in its buffers (`Lose`), or falls silent. `Serve` is the actor
that is called on the other node.

The Load and the Store of `GetNode` are two steps without a lock, so two links
that come up at once, or a link and a process that names the other node or decodes
a pid of it (`StoreGetter`), each make a Node with an id of its own; the last Store
is what a look-up by name finds. Nodes are named here by who made them (`Ids`),
and `nodeNetWork` (`net`) is keyed by id, as in the code. A cast or a call reaches
the link of any Node that was stored, because pids keep the Node they were decoded
with (`Reached`). Two ids for one node are a finding.

`TableRight`: the table never lists a client that is down, lists a client under the
id it keeps, and loses one that is up only because another client of the same id
has ended: `NodeDisconnect` deletes by id. A node that has one id is then found by
its name. The exception is the code's; `dropped` records it. `CallsKnown` is the
matching statement for calls: a caller waits for nothing only after such an end,
and then its timer ends the call.

Fairness: weak for the clients and readers (goroutines that can run do run),
strong for the timer's ping, because a tick is in the mailbox again and again. A
new tick comes only when the frames of the last one have been handled
(`Beating`): the ping period is long compared with the link. Nothing is assumed
of callers, of the network, or of who dials.

`Monitor` has the two maps and one action per message. `ToldRight` compares
what each watcher was told with a reference over the history of handled
messages: `Due(w)` are those about nodes that `w` watched at that time, and `w`
was told of the k-th of them k-th.

### The streams: GateConn, HttpParser, WebSocket

- `GateConn` is one connection over nbio. The client actor (`EnterRead`, `Read`,
  `Wake`, then `StartReader`, `SetHandler`, `Drain`, `DrainCut`) and the event loop
  (`OnRead`, `OnReadPassive`, `OnReadActive`, `OnReadCut`, `OnClose`, `ClearConn`,
  `CloseWake`) run concurrently; the mutex covers only what it covers in the code.
  A turn of `onRead` is two steps, the read into the buffer and what is made of
  it. When one goroutine writes to the buffer while the other is between the two,
  what that has read may be its bytes, the other's, or what a fresh buffer holds
  (`MayHold`), and SetSize may panic. Packets get mixed up
  then (finding); `NothingStuck`, and what `PacketsWhole` says of their order, are
  about connections on which this has not happened (`overlap`). They name two more
  cases: the end comes while the client is casting to itself what it has read, so
  that packets follow it (`late`), or
  between its look at the connection and the store of the handler, so that nobody
  tells it (`missed`). `StartReader` is taken with the handler set as "active", because
  the field that `OnClose` asks for does not exist (finding).
- `HttpParser` is `Parser.Read` as a fold over the bytes of a piece, with the
  cache between pieces. Bytes are classes; all errors are one. `Parsed` says
  that the result does not depend on the cut (`CutFree`, for damaged requests
  as well) and that well-formed requests come out as sent (`AsSent`). Both
  exceptions are findings: `cut` and `StaleChunked`. `ReadLimit` bounds the length of
  the streams that are compared with what was sent; a chunked request and a plain one behind
  it are within.
- `WebSocket` has the frame reader in pieces of any length (`Receive`,
  `ReadFrame`), the answers of the event loop (`WriteReply`), goroutines that
  write (`Lock`, `WriteFrame`) and the end of the connection. The body of a frame
  that more bytes follow lies in a buffer that has been given back to the pool:
  `Overwritten` has what the message itself or a writer may put there before it is
  used; `spoilt` remembers the messages and pongs this happened to, of which
  `Reassembled` and `Ponged` claim only that they are there (finding).
  Other connections use the same pool; what they write is left out. The
  code sets the compression bit on continuation frames too; `Messages` reads
  it from the first. The payload
  of a compressed frame has a mark in front of it. `Handshake` is the scan of
  the headers over lexemes, with the loop that does not end as an answer
  (`"hangs"`).

### The pools: HttpdPool, HttpcPool

`HttpdPool` follows a request from `rPool` through the manager's mailbox, its
idle workers or its waiting queue, to a worker and its handler (`ReplyEarly`,
`HandlerReturns`, `HandlerPanics`, `Done`), and back into `rPool`. A handler that
answers early releases the Request while it still has it; `reused` records that
the next request got it meanwhile, and the properties are about the others.
Idle workers and waiting requests are in rings, and `RingRoom` says when a Put
panics: the worker or the request is lost then (`lost`, `dropped`), which takes a
ring that has outgrown its maximum. With the sizes of the code that is more than 128
idle workers, or 2048 waiting requests, once. The writes of a response are one step.
Order of answers on a connection is not claimed: different workers serve its
requests.

Fairness: weak for the manager and every worker, whose handlers return or panic.

`HttpcPool` has callers with their timers, the manager and its worker. The queue
of the manager is nil, because 10 and 100 are no powers of two (finding): a request
that finds the worker busy is lost with the panic of Put (`dropped`) until its caller times out,
the loop that would start more workers panics in Size, and a worker that comes
back finds nothing to do. `PoolRight` says that this is all: the worker is not lost but by
the send to a closed channel, does one request at a time, and no request is lost
elsewhere or sent twice. Error handlers go on, so `PidExit` never comes and
that branch is not modelled; SetMaxPoolSize is left out.

### The database: DbSync, DbCheck

`DbSync`: requests go to the process of their key (`ProcOf`), are executed, or
kept for `Flush`; the worker makes one statement per slice (`InsertSlice`) and
gives back what met a broken connection (`GiveBack`), while the process goes on
and the connection breaks or comes back between any two statements. A slice of
two rows or more is refused (finding). The histories `done` and `refused` record
what the database did and did not do. `InsertedOnce` accounts for every insert
that was made: it waits in one place of a mailbox, the cache, a batch or `fail`,
or it is in `done`, or in `refused`, and in only one of these; a worker that drops
what met a broken connection breaks it (mutant), and so does a loop that drops
the cache or keeps it. `ReadsWrites` is about
the mode without a cache only; with it selects do not see what waits, which the
code accepts.

`DbCheck`: starts of programs with other definitions, crashes between any two
statements, a select of the versions that fails or times out (every table is then
checked), and writes of a version that fail (`SyncWriteFails`; the error is logged
and nothing else). `SchemaRight` names the case the code cannot repair: a version that
was not written, by a crash or a failed statement, although its table was changed
(`unsaid`).

### BufWriter

One step per turn of the loop in `Write`: what does not fit goes to the
connection (`Direct`) or fills the buffer, which is flushed (`Fill`); then the
call fails (`Fail`) or the rest is copied (`Fits`). Bytes are their numbers, so that
`WriterFaithful` compares the order, too: what was sent, and behind it what is
buffered, is what `Write` said it took. The slice (`Size`) and its array
(`Capacity`) are two constants, because `Available` looks at the array and
`copy` at the slice; where they differ a `Write` may be short without an error.

### The functions: Router, Pb, AStar

Each has an operator for the Go function and a property that compares it with a
reference definition: `Matches` and `Shadowed` for the router, identity on
`Carried` values for the coder, and reachability (`Reach`) for the search. Where the code falls short of the
reference, the exception is in the property and its comment, and in the findings.

## 4. The runs

| Run | Instance and bounds | Shows |
|---|---|---|
| `mailbox` | 2 senders and the actor, 2 messages each, one-slot channel and relay, stash of 2 | type, order, no loss but by a stash that was narrowed, no duplicates, refinement; delivery, but for the named ways out |
| `call_safety` | 2 actors, 2 calls each of both kinds, 1 cast each, one-slot channels | no foreign result, every request in one place |
| `call_live` | 2 actors, 1 client, 1 call each, room in the channels | every call returns, every replier is released |
| `call_reply_stuck` | 2 actors, 2 calls | finding: repliers block each other |
| `registry_open` | 3 pids, 2 names, starts at any time | closed actors are never found; maps agree |
| `registry_sup` | 3 pids, 1 name, supervised, with Register | one living actor per name; maps agree |
| `registry_restart` | 2 pids, 1 name | finding: a restart loses its registration |
| `supervisor` | 1 initial child, 1 start, 1 SupStop, 1 stop by the parent, 1 crash, failing starts | see section 1 |
| `functions` | ring of 2, maxCap 4, 6 values; 3 routes of 11; 7 maps of 5 by 4 cells; every kind of value at the limits of its width (base 4); all combinations of the values of four headers | the references of section 3 |
| `httpd` | 2 connections, 3 requests, 2 workers; 1 connection, 4 requests, 2 workers; 1 connection, 5 requests, 1 worker; 3 Requests, rings of 1 | own answers, no worker lost but by a narrowed ring, everything answered |
| `node` | 2 nodes; 2 links, alone and breaking, or with casts; 1 link with casts that breaks, with casts or a break and a process that looks the node up, with a call and a link that breaks or falls silent, or with pings and one that falls silent | table, order, calls, loss noticed |
| `services` | timer: 1 timer, periods 2, 4, 8, 16, 40 ticks, 2 missing; httpc: 3 requests; db: 3 writes, 2 processes, 3 starts of 4 programs; monitor: 4 messages; a writer of 4 bytes, 9 bytes in writes of 1 to 5; applications: 4 processes, 2 starters; parser: 4 requests in pairs and every request with a byte missing, in all pieces; websocket: 14 sequences of frames in all pieces, 2 writers; gate: 3 sequences of packets | the services and the streams |

Why the bounds are enough. One slot makes every queue both empty and full on
short paths; two messages per sender are what an order needs; a third pid is
one that interferes with a start and an exit of the same name; two calls per
actor are needed for a late result to meet another call; a ring of 2 that
grows to 8 and narrows to 4 wraps, grows wrapped and unwrapped, and narrows;
40 ticks are two and a half hours of 16, so that every list is looked at in every
phase and the tick number starts again twice. Timers do not interact, so one is
enough for TLC; the proofs are about any number. Two links are what two nodes
make when both dial. Rings of one slot grow with the second value and are narrowed when
they are empty again, so a few more values meet the panic of Put: the fourth request needs both workers
idle a second time, the fifth waits in a ring that was narrowed; and a
Request can be one that was given back. Which of these a behaviour of `httpd` or `node`
is about is chosen in its first state (`bound`). Three requests to the worker of httpc are one it does, one that
is lost, and one that finds it again. Pieces of streams are of every length, so every
byte is once the last one of a piece. Buffers of 2 and 4 bytes are smaller than
some packets and larger than others. Four processes are a supervisor, its
restarted successor, and a child of each. A second run of a search meets the nodes
of the first.

Deadlock checking is off (`CHECK_DEADLOCK FALSE`) where everybody may be gone or a
bound is used up, which is so in each of the compositions.

Symmetry is used in runs without liveness only, over values that the specification does
not tell apart.

## 5. The proofs

All are checked by TLAPS for every value of the constants that satisfies the
module's assumptions.

| Module | Theorem | Statement |
|---|---|---|
| `MailboxProofs` | `TypeCorrect`, `EachOnce` | `Consistent`: every message sent is in one place, once, or was lost by a Put into a stash that had outgrown its maximum |
| | `Refinement`, `SenderOrder` | the mailbox implements `FifoMailbox`; messages of a sender are taken in order |
| `CallReplyProofs` | `TypeCorrect`, `OnePlace` | `Consistent`: a request waits, is served or is answered, never two of these |
| | `ResultIsOwn` | a call returns the result of its own request |
| `RegistryProofs` | `TypeCorrect`, `NeverClosed`, `MapsAgree` | without `Register`: no closed process is found, and the maps agree |
| | `OneAlive`, `SupervisedName` | a supervised name has one living actor; `Consistent` for a supervised name |
| `RingQueueProofs` | `TypeCorrect`, `IdleIsSmall`, `HoldsOnlyQueued`, `RingConsistent` | `Consistent`: indices in range, popped values released, an idle ring small |
| | `Refinement` | the ring implements `FifoQueue`, room included |
| `SupervisorProofs` | `Consistency` | list, map, mailbox and children agree; one living incarnation of a child |
| | `NobodyLeft`, `StopOrder` | no child is left behind; children are stopped in reverse order |
| `HttpdPoolProofs` | `WorkersPlaced`, `AnswersOwn` | no worker is doubled, or lost but by a narrowed ring; an answer reaches its own request |
| `NodeLinkProofs` | `TableIsRight`, `CastsArriveInOrder`, `CallsAreKnown` | the table, the casts and the calls of a link |
| `ServiceProofs` | `TypeCorrect`, `TimersOnTime`, `ListsInTime`, `PeriodicKept` | the timer properties, for any lengths |
| | `ClientPoolRight` | httpc: the worker is lost only by a closed channel, a request only by the nil queue; none is sent twice |
| | `WatchersTold` | a watcher is told exactly while it watches |
| | `RowsAreRight` | an insert waits, is done or is refused, once; selects see the writes before them |
| | `WritesAll` | a buffered writer keeps every byte, in order, and is short only with an error |
| | `EveryoneStops` | when main returns, nothing that was alive works on; applications stop first |

What is assumed of the constants is in the modules' ASSUMEs: that sets of
different kinds of values are disjoint and markers are in none of them, that bounds
are natural numbers and capacities positive, that the ring's are powers of two,
that an hour of the timer is a multiple of its other periods, that keys and the
sizes of the writer are numbers, and that `None` is no pid. Bounds of the models
(`MaxSend`, `MaxCall`, `MaxWrites`, ...) are any numbers. Two theorems have hypotheses of their own: those of `RegistryProofs` on
who starts and who registers, which section 3 explains.

The arguments:

- **Mailbox.** The refinement needs that `CastSelf` reaches its Put only from a
  moment at which the channel was empty, and that only the actor itself touches
  the stash. Order of senders is an invariant over all four places a message
  can be in: the numbers of one sender grow along taken, handled, stash,
  about-to-be-stashed, channel, and what the selfSender holds comes after what
  the actor has stashed directly. `EachOnce` goes over the same places: a number
  that was sent is in one of them (`NothingLost`), and no queue holds one twice
  nor do two (`AtMostOnce`); each action moves one message or appends a number
  that was never used, but for the panic of Put, which needs a stash that has outgrown
  its maximum (`PanicNeedsOutgrown`, `LossOK`); no stash shrinks back to it, so the abstract
  queue may drop a message from then on.
- **CallReply.** A result carries the call it answers; wherever a result is
  (callResult, a fresh channel, an answer being sent), its request has the
  caller's number of that time. `Receive` compares it with the current call, and numbers
  are never used twice. `OnePlace` needs besides that no mailbox
  holds a request twice, where a second copy would move on by itself, and that what
  is in a place was sent, so that a new request is in none.
- **Registry.** Inductive: whoever `nameMap` leads to is past its store and not
  past its delete, since the process that closes has deleted its name, whoever
  held it, in a step before; and what `UnRegister` has loaded agrees with what it deletes.
  `OneAlive`: of two incarnations of a supervised name one has told its links or
  is closed, and who has told them is not alive (`TurnOK`). With `Register` the
  maps agree because an `id2Name` entry of the name that a process is found under
  can only be deleted by an `UnRegister` that loaded the process; if it is still
  in `nameMap` then, it was stored there afterwards, which is `adding` or
  `crossed`. Without `Register` neither ever happens (`Quiet`), and `MapsAgree`
  says that as well. `SupervisedName` is about one name: with a second one,
  `Register` under it makes `id2Name` disagree with the first.
- **RingQueue.** What `RingRoom` says of the room is what head, tail, `cap` and the
  slots say (`RoomOfRing`), so `FifoQueue` includes it. The strengthening is the last conjunct of `TypeOK`: with fewer
  slots than `cap` says, the queue does not wrap. Refinement goes through the
  slot of the k-th value: lemmas say where it is after a Put, a Pop and an expand.
  `HoldsOnlyQueued` follows the values through the copies of `expand` and
  `narrow`: a slot outside the queue is nil.
- **Supervisor.** The invariant has six parts beside the types. Pids are used in
  turn (`InTurn`); the list is newest first and has whom the map has
  (`ListOK`); who is alive or dying is in the map (`KnownOK`); an exit in the mailbox
  is of a child that has ended and is still in the map, and there is one of it
  (`ExitsOK`); who was replaced has ended, and nobody replaces two (`HeirOK`);
  and during a walk, whoever is alive and was not asked yet is still to be asked
  (`SweepOK`). `NoOrphan` follows from the last one when the walk is over, and
  `NewestFirst` from it at every step.
- **HttpdPool.** `Placed` adds to `WorkerInOnePlace` that who was not started is in no
  place, and that no queue has a worker twice. A Put panics only when a Pop has
  emptied a ring larger than its maximum, and `cap` never gets smaller (`Outgrown`). An answer is the own one because a
  Request is in one place, in the pool, in the mailbox, waiting or with one worker
  (`SlotsPlaced`), holds what its connection put into it until it is answered
  (`SlotsHeld`, `SlotsLive`), and the answers given are of what was asked
  (`Given`). All of it is conditional on `~reused`: from the step on
  at which a released Request is given out under a running handler, which is the
  exception of section 3, nothing is claimed.
- **NodeLink.** Links are used in turn, and only a client that is up has mail
  (`Numbered`); the table leads to a client that is up under that id, and where it
  is empty for the id of one, another of that id was dropped (`TableInv`); the ids
  that clients keep and that the names lead to were stored (`IdsRight`), which is
  why a node with one id is found by its name. For casts, the numbers rise along
  mailbox, wire and inbox, in one sequence of three parts (`CastsRight`). For
  calls, one that waits is in the mailbox or the channels of one link and no other,
  or a client was dropped, and a client that is down has no channels (`CallsRight`).
- **Timer.** The inductive invariant is `TypeOK`, `OnTime` and `LookedAtInTime`
  together. The lemmas on remainders give how many ticks are left to the next
  look at a list (`Left`): it counts down, and a look leaves a full period; the
  reset of the tick number after an hour does not show, because an hour is a
  multiple of every period.
- **HttpcPool.** `ClientInv`: the worker is idle, told to the manager, has a request
  in its mailbox, does one, or stays away for good, and only one of these
  (`WorkerPlaced`); a request is in one place at most, was not sent before it is with
  the worker, and is somewhere while its caller waits for the answer, among the
  dropped ones at the last (`RequestsPlaced`).
- **Monitor.** Both maps are the same relation (`SameMaps`), and it is the one
  that the history of requests defines (`MapsWatch`). What was told (`AllHeard`)
  then grows by what `Due` grows by; the lemmas are about the number of
  elements of `Due(w)` up to a place.
- **DbSync.** `SyncInv`: requests are the writes of the log that have their
  number (`WritesLogged`), rows that wait are inserts of their process's keys
  (`HeldLogged`), each in one place (`OnePlace`), neither refused nor done
  (`NotYet`), no insert is refused and done (`Either`), and one that is neither
  waits with a process (`NoneLost`). Each action
  moves rows from one place to another; a lemma per kind of move (append, take, split, join)
  gives the places after it, and a second one where every row that was there has
  gone. Without the cache `ReadInv` says that everything that is
  not done is in the mailbox of its key's process, in order (`Direct`, `Owned`, `InOrder`,
  `Behind`), and the table is what the last write of a key that was done and not refused has made
  of it (`Current`), which is what a select in its turn reads.
- **BufWriter.** `WriterFaithful` with the bound on what is buffered, which makes
  `copy` take the rest when it fits. The lemmas are about cutting a sequence
  (`CutSeq`) and putting parts together again (`Regroup`).
- **Applications.** `EndInv` has three layers. Processes: numbers are used in turn
  (`Turn`), and a supervisor outlives its children, since it starts none unless it
  handles messages and ends only when none of them works (`Family`). Starts: a pid is
  one starter's, and the map has it only under that starter's name and only from the store on
  (`JobsRight`, `MapsRight`); from then on the application actor knows it or has been sent
  it (`AppsKnown`). The end: InitStop's message comes once (`AskedOnce`), behind that of
  every application that had started, so what it found is in the mailbox before it,
  in the list, among those still to stop, or being stopped (`Stopping`); PidExit takes from
  the list only what it takes from the map. Before the walk the init server has all that
  live (`Listing`), and during it whoever was alive and still works is ahead of the
  walk (`Walking`); for a child of such a supervisor the supervisor may be ahead
  instead, as it stops its children before it answers.

Only model-checked:

- Liveness: `Delivered`, `CallReturns`, `ReplyReturns`, `CrashedIsRestarted`,
  `StopStops`, `AllAnswered`, `LossNoticed`. Fairness and ENABLED are beyond this
  prover.
- `RoutesRight`, `CoderCarries`, `SearchRight`, `HandshakeRight`, `Parsed`,
  `Reassembled`: each compares what recursion over data of any length computes
  with a reference, and an induction over data has no rule that the installed
  provers can use.
- `SchemaRight` and `PacketsWhole`, whose modules declare RECURSIVE operators,
  as do `AStar`, `Handshake`, `Pb` and `MCFunctions`.
- `WrittenWhole`: what the peer should get (`Messages`) is computed by recursive
  operators.

## 6. Not modelled

- **rpc, gmpd**: a table of functions and a table of ports, read once each.
- **`RingBuffer`**: the lock-free queue for several producers; nothing uses it,
  and its source says not to.
- **Timer library** (`timer/`): one map in one goroutine; its two errors need one
  call each (findings).
- **logger, containers, deep copy, args, gutil, crypto, pfun, rand, shell**: file
  output, small containers, reflection, arithmetic on random numbers, I/O.
- Inside modelled components: SQL text, the encoding of values and opening the
  database; deflate; JSON and the decoding of bodies; the parsing of HTTP
  responses; the blocking connection of `gate/net_conn.go` and deadlines; calls by
  pid to another node, whose requests cannot be read there (finding); the border
  of a path in astar; the start of the kernel.

## 7. Findings

Two findings have a run of their own (`call_reply_stuck`, `registry_restart`).
The models have the others as the code does: the properties name them as
exceptions. `PROJECT.json` lists all with their lines;
in short: `narrow` of the ring leaves `cap`; a failed start of a child is not
answered; AppRestart always returns an error; InitStop does not wait for a long
Terminate; a multi-insert of two rows is refused; a short Write without an error;
a header without its token is scanned for ever; a uint16 is decoded from one
byte; a call by pid is sent as a cast; the queue of httpc is nil;
interceptors of parameter groups do not run; a timer's interval is not stored; a
request after a chunked one is read as chunked; a method that is cut is lost; one node
gets two ids; the body of a frame is used after its buffer was freed; two goroutines
read one connection of the gate at once; its listener does not compile.

## 8. Running

    tlc -workers 2 -config Mailbox.cfg Mailbox
    tlc -workers 2 -config MCServices.cfg MCServices
    tlapm MailboxProofs.tla

`PROJECT.json` lists every run with its configuration, the mutants that each
property is tested against (operators marked "Mutant" in the modules), the
findings and the hazards with the properties that cover them.
