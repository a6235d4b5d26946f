# TLA+ models of 2DStalker

2DStalker is a turn-based client/server game in C++23 (Boost.Asio coroutines, TCP, Protocol
Buffers; SFML and TGUI on the client). This directory models the parts of it that are hard to
test: coroutines, strands and two threads that interleave, sockets that close while something
waits on them, timers that race with answers, ids that run out.

- `tlc -config X.cfg M` model-checks a configuration, `tlapm M.tla` checks the proofs of a module.
- `PROJECT.json` lists every run with its properties, the faulty variant that breaks each property,
  the lines of code behind each definition, the hazards, the findings and the theorems.

Contents: 1 system, 2 modules, 3 runs, 4 fairness, 5 proofs, 6 findings, 7 what is not modelled,
8 plan.

## 1. The system

### Components

| Component (source) | State it keeps | Operations | Correct means |
|---|---|---|---|
| `Connection` (`shared/src/shared/network/Connection.hpp`), `MessageChannel` | `m_started`, `m_closed`, `m_writing`, `m_writeQueue`, the socket, two coroutines | `start`, `send`, `stop` (each only posts to the strand); read loop, write loop; close notice | whole frames in order, one writer, a bounded queue, nothing after the close, one close notice, all coroutines end |
| `MessageFrameCodec` | none | encode and decode of the length prefix | big-endian on every host, inverse of each other, refuses 0 and what is above the limit |
| `ConnectionManager` (client) | `m_state`, `m_connectingSocket`, `m_disconnectWaiters` | `connect`, `disconnect`, `connectionClosed` | the state tells the truth, legal transitions only, every call returns |
| `ClientRequestManager` (client) | `m_connection`, `m_pendingRequests`, `m_nextRequestId`, `m_onClosed` | `start`, `stop`, `sendRequest`, `receive`, `connectionClosed` | own answers only, every request returns, bounded table, nothing waits on a dead connection |
| `Client`, `NetworkComponent` | worker thread, `m_results` under a mutex | forward to the managers, publish and drain results, blocking shutdown | every call is reported, the destructor returns |
| `ClientConsoleState`, `ConnectionPanel`, `Application` | `m_shownState`, buttons, the frame loop | button callbacks, `handleNetworkResult`, `update` | the user sees the state and can act on it |
| `StateManager`, `UiComponent` | `m_states`, `m_pendingChanges`, mounted widgets | request push, pop, reset; `update` | never empty, requests applied in order, only the top is interactive, no handler outlives its state |
| `TcpServer`, `ServerConnectionManager` (server) | acceptor, `m_stopped`, `m_connections`, `m_nextConnectionId` | accept loop, `create`, `send`, `remove`, `stopAll` | the registry matches the connections, ids are fresh, a stop leaves nothing |
| `ServerMessageHandler` | none | `onMessage`, `onDisconnect` | each request is answered once, under its id, and a snapshot shows its sender |
| `WorldService`, `PlayerConnectionRegistry`, `WorldState` | bindings, players, `m_nextPlayerId` | `connect`, `disconnect`, `apply`, snapshot | one player per bound connection, fresh ids, nobody else disturbed |
| event bus (`shared/src/shared/event_bus`) | subscribers, queued events | `subscribe`, `publish`, `dispatch`, `clear` | every subscriber once and in order, nobody modifies what is iterated over, a dispatch leaves nothing behind |
| logger, `Vec`, render, widgets, style, build files | none of interest | | not modelled |

### How they interact

On each side a `Connection` belongs to its owner by a `shared_ptr` and to itself by the `self`
captured in its coroutines. The owner's calls are posted to the strand with a weak pointer; the
connection calls back `m_onMessage` (awaited by the read loop) and `m_onClosed` (once, inside
`stopImpl`).

*Client.* The UI thread runs frames: events, drained results, update. Button callbacks spawn
`connect()`, `disconnect()` and `sendRequest()` on the worker's `io_context`. The two managers share
one strand; the connection has its own, so answers are dispatched and the close notice is posted from
one to the other. The UI sees the result through an atomic state that it polls and a locked queue.

*Server.* One thread runs `io_context`. The accept loop creates connections, each with callbacks into
`ServerMessageHandler`; the handler gives the sender a player in the `WorldService` and builds the
response, which `ServerConnectionManager::send` posts to the connection. The close callback removes
the player and the registration.

*Event bus.* A library with tests of its own that neither side uses yet: one thread, no locks, and
callbacks that may call the bus they are called from.

### What is hard here

An operation completes in one handler and is seen in a later one (a read that completed before the
close, an `async_connect` that succeeded before the disconnect, a timer that expired before the
answer); calls only post, so a stop may precede the start it follows; one flag (`m_writing`) stands for
a coroutine and is reset by somebody else; ids have 8 and 16 bits; the UI polls what another thread
changes; TCP cuts the stream anywhere; callbacks call back. `PROJECT.json` lists them line by line under `hazards`.

## 2. The modules

| Module | Models | State and actions |
|---|---|---|
| `Connection` | one endpoint, its owner, the network and the peer | `mailbox` is the strand's queue; `pc`/`io` say where a coroutine is suspended and what became of the socket operation it waits for. One action per strand handler: posted lambdas (`StartImpl`, `StopJob`, `SendImpl`), each resumption of the read loop (`Reader...`) and of a write loop (`Writer...`). The network completes operations in actions of its own (`Io...`) |
| `MessagePipe` | abstract: a FIFO pipe that closes once | refined by `Connection` (`PipeSpec`): `delivered` is the payloads, every second piece on `wire`; `open` is `~closed` |
| `FrameCodec` | the length prefix | operators on bytes of any base: byte order in memory, byte swap, `Encode`, `Decode`, `ValidSize` |
| `MessageChannel` (extends `FrameCodec`) | `writeMessage` on one host, `readMessage` on the other, TCP between them | where each coroutine is suspended (`writer`, `reader`), what its operation still has to move (`out`, `Needed`); `SocketTakes` and `SocketGives` move any number of bytes |
| `ClientNetwork` | `ConnectionManager` and `ClientRequestManager` on their strand | each `connect()`, `disconnect()`, `sendRequest()` call is an element of a set with its own progress (`dial`, `waiter`, `phase`, `timer`, `pending`). The connection below is `open`, `mail`, `inFlight`, `notices` |
| `WorldService` | bindings, players, positions, ids | `ConnectPlayer`, `DisconnectPlayer`, `ApplyMove`; an overflowing move may leave any coordinate |
| `Server` (extends `WorldService`) | accept loop, registry, handler, connections | one action per handler on the server's thread; a connection is `status`, `posted`, `got`, `wire` |
| `System` | one client, the server and their connections | instances of `ClientNetwork` and `Server`. A step that one of the two leaves to its environment is joined with the step of the other that causes it: a dial completes after a `Handshake`, `Receive` takes what `wire` holds, `Arrive` what the client's connection wrote; an end breaks when the other is gone, or by itself within a bound |
| `RequestService` | abstract: what a caller of `sendRequest` may rely on | refined by `System` (`ServiceSpec`): a request is served at most once, answered only after it was served, never served when refused |
| `StateManager`, abstract `StateStack` | the stack of screens | a call (`HandleEvent`, `HandleNetworkResult`, `Update`, `Render`) enters a handler and goes on with `HandlerReturns`; requests append to `changes` at any time, also inside a handler; `ApplyPendingChanges` applies them all, up to a refused pop. `StateStack` applies each request at once; `Pending` is the mapping |
| `ClientConsole` | UI thread against worker thread | the UI's frame steps, buttons and at last the destructor (`Quit`, `ShutdownReturns`, `WorkerJoins`); the worker's state changes, and the publication of a result as a step after them |
| `EventBus` | `SubscriberStorage` under `SyncEventBus` or `AsyncEventBus` | `calls` is the call stack of the bus; `InvokeNext` enters a callback, and while it runs (`UserRuns`) it may do what any user may. `deferred` says which of the two buses it is |
| `ConnectionProofs`, `MessageChannelProofs`, `ClientNetworkProofs`, `WorldServiceProofs`, `ServerProofs`, `SystemProofs`, `StateManagerProofs`, `EventBusProofs` | the theorems | each extends the module it is about; `SystemProofs` takes the theorems of its two parts as instances |
| `MCConnection`, `MCClientNetwork`, `MCWorldService`, `MCServer`, `MCStateManager`, `MCEventBus`, `MCMessageChannel`, `MCSystem` | constants and symmetry for TLC | |

`ClientNetwork` and `Server` use a connection through what `Connection` is shown to promise: posted
calls run in order, messages are delivered in order and only while it is open, a read may complete
before the close and be dropped after it, the close is announced once. `Connection` in turn takes the
frames of `MessageChannel` as whole pieces, a prefix and a payload. `ClientConsole` uses the worker
through what `ClientNetwork` shows: legal transitions, and every call returns.

Some definitions stand directly before one whose name theirs extends (`TableFullOffByOne` before
`TableFull`). They are faulty variants of the code: a missing guard, reset or call. No action uses
them. `PROJECT.json` pairs each property with a variant that makes TLC find it violated, so that no
property holds whatever the code does.

## 3. The runs

| Run | Bounds | Shows |
|---|---|---|
| `connection` | 2 writer frames, queue of 2, 3 sends (the third unwritable), 1 start, 1 stop, 2 frames from the peer (the second malformed) | `SingleWriter`, `NoStrandedMessage`, `ClosedIsDrained`, `WireIsFramed`, `ClosedIsFinal`, refinement `PipeSpec`; live: `ClosedLoopsEnd`, `PeerCloseIsNoticed` |
| `client_network` | 2 connects, 2 disconnects, 3 requests, 2 table entries | `TypeOK` with the limit of the table, `StateIsTruthful`, `NoLostWakeUp`, `WaitingOnLiveConnection`, `OwnAnswer`, `LegalTransitions` |
| `client_network_live` | 2 connects, 2 disconnects, 1 request | live: `CallsReturn` |
| `world` | 3 connections, 4 player ids, coordinates -2 .. 1 | `WorldTypeOK`, `PlayersAreBound`, `IdsAreFresh`, `OthersUndisturbed` |
| `server` | 3 connection ids (0 is never used, the third accept wraps), 1 player id, 2 requests per connection | `NoGhostPlayer`, `RegistryMatches`, `AnswersInOrder`; live: `StopEmptiesServer`, `RequestsAreAnswered` |
| `system` | 2 dials, 1 disconnect, 2 requests, 1 break with both ends open, ids for both dials | `NextResponseMatches`, refinement `ServiceSpec` |
| `message_channel` | bytes of one bit, a little-endian writer with limit 6, a big-endian reader with limit 5, sizes 0, 1, 5, 6, 7, 3 messages, 4 bytes on their way | `ReaderInStep`, `LimitsAreKept`; live: `EverythingArrives` |
| `state_manager` | 4 states: the first, one that lets everything through, one that only lets the state below be drawn, one that hides it; 3 pops | `ScreenIsStack`, `HandlerOwnerLives`, refinement `StateStackSpec` |
| `client_console` | 3 clicks on Connect, 2 on ping or snapshot | live: `ShownSettles`, `ControlsComeBack`, `RequestsAreReported`, `QuitReturns` |
| `event_bus` | both buses, 2 types, 3 callbacks, 3 events, calls nested 3 deep | `DeliveredOnce`, `SeenInOrder`, `StorageIsStable`; live: `DispatchDrains` |
| `state_manager_refused` | as `state_manager` | a violation, see findings |
| `server_exhausted` | 2 connections, 1 player id, 1 request each | a violation, see findings |

Every run uses `CHECK_DEADLOCK FALSE` except `world`: the calls are bounded and the program may rest
once they are made.

*Why the bounds are enough.* Two writer frames are one more than may ever live, so a second writer can
appear; a queue of two is exceeded by the third send, and holds one message behind the one being
written. That a second `start()` does nothing is proved and not in the run. Two connects are a
connection and the next one (or a rejected call), two disconnects a caller and another who joins the
wait, three requests one more than the table holds. The ids of the server and of the world are
exhausted within the bounds, which is where their edge is. In `system` the second dial follows the
first after any loss, which is when responses could be taken for one another; two requests are the one
that was lost and the one that must not get its answer; ids suffice there, their exhaustion being
`server`'s question. A stream of four bytes is shorter than a prefix and a payload together, so a read
may see the end of one frame and the start of the next; sizes lie on both sides of both limits. One
state on top of another, a third and a reset are what the stack can distinguish, and three pops exceed
any stack but the full one. Three connection attempts let an error of the first reach the screen during
the second and the third be refused. Three callbacks on two types let one type have two subscribers
and the other one be published from between them; three events nest once and leave one in the queue.

Symmetry is used only in runs without liveness properties, over sets whose elements the specification
never tells apart.

## 4. Fairness

`io_context::run` executes every ready handler, so the steps of strands and coroutines are weakly fair.
Reads complete when there is something to read. Nothing obliges a peer to accept what is written, to
answer, or to close, and no such step is fair; nor is any call by the owner or the user. In `Server` a
response is on the wire once its posted `send()` has run: a peer that accepts nothing, so that the
response stays in the write queue, is a matter of `Connection`. `StopEmptiesServer` is about a stop
while `io_context::run` goes on; `main` has only the one of `~TcpServer`, after `run` has returned, when
no handler runs any more and the connections end with their `io_context`. A dial ends by
its timeout (`cancel_after`), a request by its timer: those two are fair because the steady timer is.
In `ClientConsole` frames follow each other, and a `disconnect()` in progress completes, which is part
of `CallsReturn` of `ClientNetwork`; nobody need quit. In `MessageChannel` TCP carries what it was
given, and either end may break instead. In `EventBus` callbacks return; that one which publishes on
every call would keep a dispatch going for ever is cut by the bound on events.

## 5. Proofs

The theorems hold for every value of the constants. Every invariant, action property and refinement
that the passing runs check is one of them; the runs show it on small instances and keep the liveness
properties.

The theorems assume what the code enforces or the types imply, each as a named assumption of the
component's module: a queue limit and a table limit of at least one (the code refuses zero for both),
the read coroutine is none of the writers, numbers are naturals, `MaxPlayerId` is positive,
coordinates are an integer range that contains zero and the deltas, connection ids are the numbers
below `IdSpace`, a byte has more than one value, the byte orders are two and the limits nonzero 32-bit
numbers, the first screen is one of the screens, and the marks for "no connect()" and "not subscribed"
are no call and no type. The theorems about `System` assume besides that ids suffice (`IdsSuffice`:
fewer dials than connection ids and than player ids) and that the server is not stopped; `HandleThrows`,
`AcceptThrows` and `Stop` of `Server` are therefore no steps of `System`, and what happens there is proved
of `Server` alone. TLC evaluates these assumptions in the runs.

### One connection

`ConnectionProofs` proves `Spec => []IInv`. None of the properties is inductive alone. `SingleWriter`
needs that `m_writing` says whether a write loop lives, but only while the connection is open: a stop
clears the flag under a writer that is still suspended (`WritingIsAccurate` has both halves). That is
harmless because a closed connection spawns no writer. `ClosedIsDrained` needs that only a suspended
coroutine waits for I/O (`IoIsAwaited`) and that a read loop exists only after the start
(`ReaderNeedsStart`). The proof has a lemma per kind of step: those that stop the connection share
`StopStep`, which cites what `stopImpl` leaves behind; those that leave its state alone share
`QuietStep`. From `IInv` follow `TypeCorrect`, `WritersExclude`, `QueueLimit`, `CloseNotice`,
`NoneStranded`, `DrainedWhenClosed` and, step by step, the action property `ClosingIsFinal`: a closed
connection handles, queues, writes and reopens nothing.

The second half is about the order of messages. A message is numbered by its call of `send()`, and on
its way it is in the mailbox of the strand, in `m_writeQueue`, or in the frame of the write coroutine
with its prefix written or not. `Numbering(n)` says that the three together continue what is on the
wire without a gap: n messages left the queue, the queue holds the next ones, the mailbox those after
them. It is needed only while the connection is alive and open; what a close leaves in the mailbox
may be numbered as it likes. `FramedWire` (`WireIsFramed`: whole frames, the last one torn by a failed
write at most) and the refinement `ConnectionIsAPipe` (`PipeSpec`) follow.

`MessageChannelProofs` looks into those frames. Its first part is about the operators:
`PrefixIsBigEndian` (what `Encode` puts on the wire does not depend on the byte order of the host) and
`DecodeInvertsEncode` (hosts of any byte order agree on every 32-bit size). They rest on the four
digits of a number being determined by division, proved from the definition of `\div` and `%` in lemmas
of their own, for any base. The second part shows that TCP may cut the stream anywhere. `ChannelInv`
assigns the frame of each message its first byte in the stream of all frames (`Offsets`); then every
byte that was read into the buffer, is under way or waits to be written has a place in that stream, and
the three pieces follow each other (`Placed`). So a complete prefix is the one of the next message and a
complete payload is its own: `ReadsWhatWasWritten` (`ReaderInStep`), `EachKeepsItsLimit`
(`LimitsAreKept`: an end refuses what is outside its own limit and nothing else).

### The client

`ClientNetworkProofs` proves `CInv`, in two halves that disturb each other only where a connection
starts or ends. `ManagerInv` is `StateIsTruthful` and `NoLostWakeUp` strengthened by `NothingBelow`
(without `m_connection` there is neither an open socket nor a notice to come); `RequestInv` is the
table's limit and `WaitingOnLiveConnection` strengthened by `TimerFollows`: a timer is cancelled only
together with a change of the request's state, and `Completed` is set only with the answer. From the
last part follow `AnswersAreOwn`, and that the branch "cancelled without response"
(`ClientRequestManager.cpp:184-187`) is dead code: no request ends "cancelled" (`TypeOK`).
`LegalEdgesOnly` is the action property that follows from `ManagerInv`.

### The server

`WorldServiceProofs` proves `WorldTypeOK /\ PlayersAreBound` inductive: a player may be removed without
leaving a dangling binding because nobody else is bound to him, and a new one is bound once because his
id is above all in the world. `FreshIds` and `OthersStay` are the action properties that follow.

`ServerProofs` proves `NoGhostPlayer` and `RegistryMatches` together (`SInv`). The first needs the
second: a connection is accepted under an id that was never used, so it cannot inherit the player of an
older one. `NextIdCounts` is the arithmetic: short of exhaustion the counter does not wrap around.
`ServerImplementsWorld` shows that every step of the server is a
step of `WorldService` or leaves the world alone, so the theorems about the world hold of the server.
`AInv` adds the responses: those queued on the strand of an open connection continue those on its wire
(`Queued`), each with the id and the status of its request and, for a snapshot, its sender. While the
server runs, their number is that of the requests taken, but for the one being handled (`Counted`);
after `stopAll` a handler's response is dropped and only the first part remains. `OrderedAnswers`
(`AnswersInOrder`) follows.

### Both together

`SystemProofs` first shows that the client and the server of `System` take only steps that
`ClientNetwork` and `Server` take (`ClientIsClient`, `ServerIsServer`), so every theorem about each
holds of both together (`BothInvariants`). `LinkInv` is what relates the two ends:

- `Peering`: a dial is in the kernel's backlog, or was accepted once, or neither;
- `Linked`: the requests the client wrote to its connection are those answered and those in flight;
- `Carried`: the server has no request that the client did not write;
- `IdsAreOwn`: an id belongs to one request and is posted and written once, on one connection;
- `ServedOnce`: a request was served when it was handled on some connection, and before it is
  answered. How far a connection has handled is known exactly while it is open; when it closes, only
  the responses on its wire tell (`Done`).

`ResponsesMatch` (`NextResponseMatches`) is the assumption of `ClientNetwork` about its server,
discharged: a response that is still on the wire answers the oldest open request, because the server
numbers its responses and the client counts them. `RequestsAreServed` (`ServiceSpec`) shows that a
step of `System` is a step of `RequestService` or changes nothing a caller sees. The case that
matters is `Handle`: the request it serves was not handled before, since ids are written once and a
dial is accepted once; hence it is not answered either.

### The screens

`StateManagerProofs` proves `StackInv`. Its core is that a state is unused, on the stack or in one
pending change, and never in two of these places (`FreshChanges`, `UnusedAreNowhere`): otherwise
removing the widget of a popped state could remove another one's. `applyPendingChanges` is a loop and
its model a recursive function over the changes; that such a function exists is proved from the
least number at which it would not (`Ascent`, `Iteration`), which needs no induction theorem of the
library. `Halfway` is the loop's invariant, true also after a refused pop. `GuiShowsTheStack`
(`ScreenIsStack`), `HandlersAreSafe` (`HandlerOwnerLives`) and the refinement `RequestsAreApplied`
(`StateStackSpec`) follow.

### The event bus

`EventBusProofs` rests on `BInv`. `m_publishCount` counts the publishes on the call stack
(`GuardCounts`), so at zero nobody iterates over the callbacks; that gives `StableStorage`. Indices in
use are distinct and at least as many as the slots (`Numbered`), so a type that gets its index late
gets one beyond the slots of this bus, or a slot that `subscribe` has just made; hence a slot holds
callbacks of one type (`SlotsMatch`), and the cast behind the erased pointer is sound (`SoundCasts`).

`DInv` adds the delivery. What is queued was given to nobody, and an event is published by one call at
a time (`EachEventOnce`); a callback is in one slot once (`InOneSlot`); so the invocations of an event
are those its loop has counted, in the order of the slot: `EachDeliveredOnce`. The order of events,
`InOrderOfPublication` (`SeenInOrder`), has two parts. An event has reached its first callback before
any later one reaches one, also where callbacks dispatch: what waits is later than all that left the
queue, and a publish that has called nobody yet is the innermost call, of the latest of these
(`TakenInOrder`). That each callback sees all events in order needs that no callback called
`dispatch()`: then the call stack is one dispatch and one publish at most, of the latest event that was
handed out (`OnePublishAtATime`). A nested `dispatch()` shows later events to callbacks that the current
one has not reached, which `SeenInOrder` leaves open and `DeliveredOnce` covers.

### Only model-checked

Every liveness property, since fairness and `ENABLED` are beyond the prover: `ClosedLoopsEnd`,
`PeerCloseIsNoticed`, `CallsReturn`, `StopEmptiesServer`, `RequestsAreAnswered`, `EverythingArrives`,
`DispatchDrains`, and `ClientConsole`, all of whose properties are of this kind. The theorems say
nothing of the assumptions that one module makes about another in prose (end of section 2), other than
those `SystemProofs` discharges.

## 6. Findings

- **A refused pop leaves the last screen disabled** (`state_manager_refused`). With two states and two
  pops requested in one frame, `applyPendingChanges` applies the first, throws on the second
  (`StateManager.cpp:105`) and never reaches `refreshInteractivity`. The state that is preserved was
  covered before and stays disabled. `StateManagerTest.cpp:130-146` expects it to be enabled after the
  throw, and tests the case of one state only. `ScreenIsStack` shows that nothing but a refused
  pop leads there.
- **No error response when the player ids are used up** (`server_exhausted`). `docs/protocol.md:79`
  promises `STATUS_ERROR` for a request without a payload. `onMessage` first gives the sender a player;
  after 254 players (ids have eight bits and are not reused) that throws, and the connection closes
  without a response. The same holds for a ping.
- **A hazard rather than a finding, since no text of the repository speaks of it:** a connection that
  is made and lost between two frames leaves the Connect button disabled. `ControlsComeBack` states it
  as its one exception (`missed`).

## 7. What is not modelled, and why

- Rendering, widgets, layout, the text log, logging, `Vec`, build files: no state a property is about.
- Generated Protocol Buffers code: a message is a number or a record of the fields that matter.
- `broadcast`: it has no caller. Transient accept errors: they change nothing.
- The error texts of failed calls; the status and payload checks after an answer.
- Moving an event bus (refused while it publishes) and its exceptions: a call that throws changes
  nothing. Callbacks are `noexcept` by the type system.
- `Connection` knows no bytes and `MessageChannel` no closes by the owner; that the two agree rests on
  the promise of whole frames. Exhaustion of 64-bit request ids.
- In `System` the server is not stopped, and one client is connected.

## 8. Plan

Done: all the components of section 1 but those of section 7, with their runs, and the safety
properties, action properties and refinements of all runs as theorems.

Next, in this order:

1. `ClientNetwork` shown to implement the worker that `ClientConsole` assumes, as a refinement: first
   checked, then proved.
2. Two clients in `System`, and a stop of the server under both.
3. The promise by which `Server` and `ClientNetwork` use a connection, stated as an abstract module
   that `Connection` implements.
