# A TLA+ verification of datasole

datasole is a TypeScript library with two halves that talk over one WebSocket
per client: a server (RPC, events, live state, CRDTs, sessions, rate limits,
metrics over pluggable backends) and a browser client (RPC, a mirror of live
state, a CRDT store, an optional worker transport with a shared-memory ring).
Everything runs on event loops: a handler runs until its next `await`, and
whatever was read before that `await` may be stale after it. The modules here
take the code from one `await`, message, timer or `Atomics` operation to the
next, and let everything else happen in between.

Source paths below are relative to `src/src/`, those of the demo applications
(`demos/…`) to `src/`.

## 1. Inventory

| Component | Code | State it keeps | Operations | Model |
|---|---|---|---|---|
| Client connection | `client/client.ts`, `client/transport/*`, `client/rpc/rpc-client.ts` | connection state, current transport, reconnect timer and attempts, pending calls | connect, disconnect, open/close/error events, back-off, RPC call, answer, time-out | `ClientConnection` |
| Transport worker and ring | `client/worker/*`, `client/transport/shared-buffer.ts`, `client/client.ts:286-302` | ring indices and count, `postMessage` queue | write, notice, drain, post | `SharedRing` |
| Live state | `server/primitives/live-state`, `state`, `sync`, `client/state`, `shared/diff` | stored document, channel's pending patches and timer, data-channel registry, mirrors | setState, create and close channels, flush, patch, late join, shutdown | `LiveState`, `StateReplication` |
| Sessions | `server/primitives/state/session-manager.ts` | sessions, dirty counts, timer | set, delete, flushUser, flushAll, evict, restore, destroy | `Sessions` |
| CRDTs | `shared/crdt`, `client/crdt`, `server/primitives/crdt` | replicas: counters, registers, maps | operations, merge, broadcast, publication | `CrdtSync` |
| Server transport | `server/transport/*` | WebSocketServer, connections, gauge | upgrade, authentication, limit, close, stop | `ServerTransport` |
| Frame pipeline, limiter, RPC | `server/pipeline`, `server/primitives/rate-limit`, `rpc` | windows, handlers | consume, dispatch, answer | `ServerTransport` |
| Executors | `server/executor` | connections | add, remove, dispatch | `ServerTransport` |
| Metrics | `server/metrics` | counters | increment, decrement, export | the gauge, in `ServerTransport` |
| Backends | `server/backends` | key-value pairs, subscriptions | get, set, publish, subscribe | publication and connection in `Events`, otherwise as their users see them |
| Events | `server/primitives/events`, `client/events` | handlers, the bus's subscription, the page's handlers | on, off, destroy, emit, publish, broadcast | `Events` |
| Server composition | `server/server.ts` | what `close` has to take down: timers, subscriptions, sync channels, handlers | construct, init, attach, close | `ServerLifecycle`; each component's own share of `close` in its module |
| Static assets, HTTP hand-over | `server/transport/static-assets.ts`, `server/transport/server-transport.ts` | listeners of the HTTP server, the answer under way | handleRequest, sendAsset, attach, close | `ServerLifecycle` |
| Demo applications | `demos/vanilla`, `demos/react-express`, `demos/vue-nestjs` | the page's client, its panels, the server's chat history | mount, unmount, call, chat, metrics | `DemoPage`, `DemoChat` |
| Wire protocol | `shared/protocol`, `shared/codec` | correlation counter, frames under way | encode, decode, compress, recognise, refuse | `WireProtocol` |
| Adapters, contract types, build scripts, documentation site | `server/adapters`, `shared/types`, … | none | | not modelled |

How they interact. A client's `connect` opens a socket (in the page or in the
worker). The server's `upgrade` listener authenticates it, `ServerTransport`
admits it and registers it with the executor. A frame goes client transport →
`frame-pipeline` → limiter → executor → dispatcher of its opcode, and an answer
goes back on the same connection. Live state and CRDT states go out through
`ProtocolBroadcastSink` to every connection. All primitives share one backend,
whose calls are asynchronous; publications come back to their own publisher.
On the client, frames go to the RPC client (by correlation id), the state
stores, the CRDT stores or the event emitter.

The server does not own the HTTP server: `attach` puts its `request` listener in
front of those the application has, and every listener of a request runs, so the
server silences the response it has answered. The demos use all of it: their
pages mount a client in the life cycle of React or Vue, call an RPC method, show
events and live state together, and go.

What is hard to get right here, and to test:

- code that reads, awaits and writes: `setState`, `flushUser`, `consume`,
  `connect`, the upgrade handler;
- events of a socket or worker the client has already given up;
- timers: back-off, flush, RPC and authentication time-outs against late answers;
- two threads over a ring of bytes;
- refusals by the backend, crashes, clients that leave and come back;
- publications heard by their publisher;
- a shutdown of nine steps, several of them awaited, while handlers are under way;
- two listeners, of two owners, for one HTTP response;
- the same message reaching a page twice, as state and as event.

`PROJECT.json` ("hazards") lists each at its line, with the properties aimed at
it. What makes each component correct:

- *Client*: a call is settled once, by its answer, its time-out or the loss of
  its own link; "connected" means there is an open link; "reconnecting" means a
  timer is armed; connections do not pile up; disconnecting is final.
- *Ring*: every frame received is dispatched once and whole, in order.
- *Live state*: a mirror only shows documents the server has held, moves
  forward, and ends at the stored one.
- *Sessions*: no change that was counted is lost, the backend never goes back,
  shutdown writes everything.
- *CRDTs*: replicas converge, counters never lose an increment and count it once.
- *Events*: a handler hears an event at most once, all hear them in one order, and
  none is lost on a handler that was there.
- *Transport*: the limit on connections holds, the gauge is honest, shutdown
  ends and leaves no connection; a call is answered if its answer can be encoded, a
  quota kept.
- *Wire protocol*: an answer settles its own call or none, and what is lost on an
  open connection is lost for one of a few named reasons.
- *Server as a whole*: each HTTP request has one answer, of the right party, and
  no listener throws; `close` settles, and when it resolves no timer, subscription,
  listener, socket or patch is left and the sessions are saved. The code keeps neither
  without exception; the properties name the exceptions, section 5 lists them.
- *Demos*: each panel shows what is true (a random number lies in the range shown
  with it, as far as the server keeps to it), catches up, and a page that is gone
  leaves nothing running.

## 2. Modules

Each module's opening comment says what it stands for; `PROJECT.json` ("map")
ties every definition to its lines. Operators named "mutation of X" are
plausible bugs of X: each property is shown to fail when one replaces X.

### ClientConnection (`MCClientConnection`)

`DatasoleClient` over `FallbackTransport` (direct) or `WorkerTransportProxy`
(`mode.worker`). Sockets are `Links`; `current` is the transport the client
holds; `jobs` are the asynchronous functions suspended at an `await`
(`disposeTransport` in `connect` or `disconnect`), resumed in order as the
microtask queue does. `Release` is the part of the disposal after its first
await, `ResumeConnect` and `ResumeDisconnect` what follows it. `OnOpen`, `Drop`
and `OnClose` are the events of a socket; a socket the client closed still has
its close event to come (`"closing"`). `timer` is the handle the client holds,
`orphans` timers whose handle was overwritten. Calls are settled by `Respond`,
`RpcTimeout` or `ClearPending`. `mode.orderly` says that the application does
not call `connect` and `disconnect` while an earlier one is under way or a
link is alive; some properties are promised to such an application only, and
say so. Left out: frame bytes, the URL, server-side fallback details.

### SharedRing

The worker's `WorkerSharedBuffer.write` and the page's drain loop, as two
threads. `CopyIn` and `CopyOut` move one byte; `Publish`, `AddCount`, `Free` and
`SubCount` are single `Atomics` operations; `Notify` posts the notice, `Post` the
frame itself when there is no room or no ring yet (`InitSab` may come at any
time). A handler that throws leaves the loop (`Dispatch(TRUE)`). A cell remembers
which byte of which frame it holds, so a torn frame shows. `begin`, `freed`, `lane`
and `out` are history: where in the stream of all bytes ever put in the ring the entry
of a frame begins, how far that stream has been freed, which way each frame took and
what has been dispatched.

### StateReplication and LiveState (`MCLiveState`)

`StateReplication` is the promise: a history of documents, and clients that each
show one of them and move forward. `LiveState` is one key: `Read`, `Write`,
`Deliver` are the three parts of `setState` between its awaits; `Enqueue` and
`ScheduleFlush` a `SyncChannel` with each flush strategy; `FlushTimer` its timer;
`CreateSyncChannel` replaces a channel without destroying the old one, as the code
does; `CreateDataChannel` and `CloseDataChannel` go through `ChannelManager`'s
registry; `Close` is the server's `close`, after which the channels flush to
connections that are gone; `Broadcast` puts the batch in every connected client's inbox; `Receive`
applies it. Documents are flat: a JSON patch is a function from the fields it
touches to their new values. `Replicates` is the refinement: `log`, `mirror` and
`seen` map to `history`, `view` and `at`, the promise being to clients connected
from the first patch on. `log`, `sent`, `seen`, `known`, `trust` are history only.

### Sessions

A session is written whole, so its content is the edition (number of the last
mutation). A flush is a record in `flushes` from its copy to its reset of
`dirtyCount`; `Store` is the backend doing the write, `Refuse` its refusing,
`Finish` the code after the await. `Evict` of a user without a session flushes
nothing and awaits all the same; `evicts` are the calls whose flush has returned, and
`EndEvict` drops what the user has by then. `FlushAll` is the timer's and destroy's. A
refusal inside the timer's `flushAll` is an unhandled rejection, which ends the
process (`RefuseInterval`). `excuse` collects, by name, the ways in which an
edition can be lost by design or by a listed finding; `SavedOrExcused` (its parts
are `NothingLost` and `DestroyPersists`) covers everything else.

### CrdtSync

One key, a pn-counter, lww-register or lww-map, at the clients and the server.
`Operate` changes a replica and sends; `Receive` is `CrdtManager` handling the
operation: apply, publish, broadcast the state; `Merge` is `CrdtStore` taking a
state. With `backend = "memory"` publication calls the manager back before it
returns, and the operation is applied twice in one step; with `"remote"` it comes
back later or never (`Publish`, `Loopback`). The clients use one field of a map;
the server files its operations under the key of the CRDT (`FieldOf`), as the code
does, so a map has these two fields. What a broadcast map carries is its visible
fields and one timestamp for all of them, that of the moment (`Reading`).

### Events (`MCEvents`)

One event name on several servers that share a backend, a page on each.
`On`, `Off`, `DestroyBus` and `Emit` are `EventBus`'s; `Hear` is the bus's listener
calling each handler, one of which (`Relay`) passes events on to the page as
`ServerEventFanout.broadcast` does. `Connect`, `Ask`, `Subscribed` and `Take` are
what the three backends do: memory calls listeners before `publish` returns and
knows its own server only; Redis asks for a channel once and hears after the answer;
Postgres has a pool before it listens, and publications over a pool may overtake
one another. `PageOn`, `PageOff`, `PageEmits` and `Show` are `ClientEventEmitter` and
the client's `emit` and dispatch. A publication before the backend is connected
rejects unhandled and ends the process (`Die`). Left out: the publication `Relay`
itself makes, to a name nobody listens for; the loss of an established link to the
backend; a page's reconnection, which is `ClientConnection`'s subject.

### ServerTransport

`BeginUpgrade` to `AuthDone` is `WsServer.handleUpgrade` (the handler may accept,
refuse, throw, be late or silent); `Welcome` the connection handler with the
limit; `PeerLeaves` and `Closed` the end of a socket; `Stop` and `Stopped` the two
halves of shutdown. `Arrive`, `GetOrCreate`, `Consume`, `Judge` and `Finish` take
a frame through the limiter and the dispatcher, one await at a time. With the
memory backend a window is an object shared by whoever holds it: `heap` holds
the objects, `store` which of them the backend has. A frame ends in an answer or, when
that cannot be encoded, in nothing: `Finish` has the exception that
`sendToConnection` swallows, and `swallowed` remembers the call for
`AnsweredUnlessGone`. The default limiter over the memory backend never rejects; one
that does is in `WireProtocol`. `executor` is the executor's own registry
(`AddConnection`, `RemoveConnection`, `Dispatched`).

### ServerLifecycle

A `DatasoleServer` in its process, with each part reduced to what `close` has to
take down. `Attach` puts a listener first among those of an HTTP server;
`listeners` is Node's list, 0 the application's listener. `Ask` runs them in order over one
request (`Emitted`), until one throws: `StaticListener` answers for an asset of this build
(`SendAsset`) and silences the response (`Silenced`), and throws when the URL of a GET or HEAD
request does not parse; `AppListener` answers at once or later (`AppLater`). A second
answer throws. After an asset `setHeader`, `writeHead` and `end` do nothing, so `end()`
alone is harmless, but `write()` or `pipe()` makes the response emit an error
(`erred`). What is thrown or emitted either ends the process or is caught by the
application (`Handled`). `copy` is what a browser has cached, `Deploy` a new process
of the next build. `Attach` also adds an "upgrade" listener, which nothing removes:
`BeginUpgrade` is possible after `close` too, and `upgrading` are the upgrades that wait for
the authentication handler, each with its timer and raw socket. `EndUpgrade` makes a
connection of one only while the attachment's WebSocketServer has not been told to
stop; `BadUpgrade` is an upgrade whose URL does not parse, which throws in the
listener. `Close`,
`TransportClosed`, `SessionsFlushed`, `SessionsRefused`, `ShutdownExecutor`,
`DestroyChannel`, `ChannelsDestroyed`, `DestroyManagers`, `DestroyRpc` and
`DestroyLimiter` are `close()` from await to await; a step whose successor
follows without anything that could come between is still a step, which only
allows more. Meanwhile handlers that are under way (`StartCall`, `FinishCall`)
and the application use the primitives: `SetSession`, `CreateSyncChannel`,
`SetState`, `ApplyCrdt`, `Listen`. Channels are numbered for each key, since
`createSyncChannel` puts a new one in the map over one it does not destroy:
`replaced` are those, and their timers (`timers`) and subscriptions (`subscribed`) stay. A rejected flush of the interval, or a
publication before `init`, ends the process (`Restarted`). `late` and `forgotten`
are history, and name the exceptions of `ResolvedIsClean`: a handler that outlived the transport,
and a flush that reset the count over data it had not saved (`Sessions` explains
it). `ResolvedIsClean` therefore says what `close` takes down (intervals, the managers'
subscriptions, connections, methods, "request" listeners, every channel that was not
replaced, unsaved sessions), and its comment what the code leaves: the
"upgrade" listener, pending upgrades, replaced channels, what a late handler makes, earlier
attachments. `OneAnswer` has the two exceptions for errors. Left out: the flush at the
threshold (in `Sessions`), upgrades for other paths and with two attachments to one
HTTP server, a browser's use of an immutable copy without asking.

### WireProtocol

One open connection, and frames as records of an opcode, an id and a size.
`Messages` is what a sender makes of a frame: itself, or, above the threshold,
something deflated of any length; `IsCompressed` and `Decodes` are the receiver's
side, the same code in the server, the page and the worker. `Call` and `Emit` send;
`Arrive` passes a message through the limiter, which may refuse it (`Refuse`) or
reject itself and so lose it (`LimiterFails`), to `HandleRequest` or
`HandleEvent`; `Finish` ends a handler, in any order; `SetState` and `FlushTimer` are
the way of patches, at once or in batches, whose frame may be too long; `Receive` and
`Timeout` are the client's. Once the mirror lacks a change, `applyPatch` throws on a frame
that presupposes it, and all of that frame is lost: `HandlePatches` leaves open which
frames do, and loses none while the mirror has all earlier changes (`Applies`). `Ids` is the number of correlation ids (2^32), cut off
in `EncodeFrame` alone, as `setUint32` does. `outcome`, `refused`, `failed`, `swallowed`,
`unsent` and `dropped` are history: they name the reasons for a loss. Messages keep
their order through the limiter (one whose awaits overtake one another is in
`ServerTransport`), and documents have none of the keys `validatePatches` forbids. Left out: JSON and the bytes
of a payload, the ceilings of `decompress` (no frame within the limit reaches them),
PING and CRDT_OP, which the client never sends, and the loss of the connection.

### DemoPage and DemoChat (`MCDemoChat`)

One page of one of the three demos (`kind`) with its server. `DemoPage` is the
provider (`VanillaStart`, `ReactMount`, `VueMount`, the hooks' second render
`ReactHooks`, and the unmounts), the connection of each client it makes, reduced to a
state and to what is lost with it (`Opened`, `Refused`, `Retry`, `Cut`,
`StopServer`), the RPC panel (`Click`, `Serve`, `Answered`, `Timeout`) and the
dashboard (`Tick`, `ShowMetrics`). Under StrictMode the provider makes two clients
in one task. Where the demos differ there is an operator for each: `VanillaCall`,
`ReactCall`, `VueCall`; the same for `Settle` and `View`. `DemoChat` extends it
with the chat: `Take`, `StoreState`, `Ship` and `Announce` are the server's handler
from await to await, `Receive` the page taking a patch or an event,
`AppendMessage` the vanilla page's test for a message it shows already.
The two entries are counted in halves, so that fractions occur: the vanilla page parses
whole numbers (`Entered`), the others send what was typed, and `Serve` rounds both
bounds down, as the handlers do. `Fits` is what then holds of a result and the range
shown with it: not above the maximum, and less than one below the minimum.
`Changed` and `Patched` are the array diff and its application, which throws when
an element is not there. `last`, `serial`, `whole` and `owed` are history. Left out: the
badge of the connection state, layout, the files the vanilla server
serves.

## 3. Runs

Every passing run also fires each action of its module.

| Run | Bounds | Distinct states | Shows |
|---|---|---|---|
| `client_lifecycle` | 3 links, 1 call, 2 attempts, 2 jobs, all options | 175 000 | no call stranded, never stuck reconnecting, timers and links of an orderly client never race, a worker client stays disconnected; calls settle and back-off ends |
| `live_state` | 2 fields, 1 client, batches of 2, 2 channels, 3 documents, awaited calls, `close` | 1 258 000 | live state implements `StateReplication`; mirrors are never torn and catch up; no patch is forgotten |
| `shared_ring` | 5 frames of 1 or 3 bytes, ring of 12 | 123 000 | no frame torn, duplicated or stranded; all delivered |
| `sessions` | 1 user, threshold 2, 3 mutations, 2 flushes or evictions, 1 restore | 718 000 | nothing lost but for the named reasons, the backend never goes back, dirty sessions are flushed |
| `crdt_sync` | 2 clients, 3 operations, clock 1..2, both backends | 1 498 000 | clients agree, counts never shrink, no register or field gives way to an older write, registers converge |
| `events` | 2 servers and pages, relay and 1 handler, 2 events, 3 changes, three backends; the servers are symmetric | 1 111 000 | no event twice, one order for all, none lost within hearing |
| `server_transport` | 2 requests for 1 place, 2 frames, quota 1 | 353 000 | limit, gauge, shutdown, quota, answers but for those that cannot be encoded; shutdown ends |
| `server_lifecycle` | 2 HTTP servers, 1 browser, 1 call, 1 key with up to 5 channels, 1 asset present and 1 absent, 5 inputs | 899 000 | every request answered once and by the right party, listeners throw in the named cases only; `close` settles and leaves the named things only |
| `wire_protocol` | 4 inputs, payloads that are plain, deflated or too long, 3 ids, batches of 3 | 1 781 000 | answers reach their own calls; what is lost has a named reason; mirrors lack only what was too long and what was made on top of it |
| `demo_chat` | three demos, history of 2, list of 1, entries 0 to 1 and 2.5 to 1.5, 4 inputs | 639 000 | chat, dashboard and RPC panel show what is true and catch up; a gone page is silent |
| `client_disconnect` | 2 links | violation | `disconnect()` of a direct client is undone by its own socket's close event |
| `live_state_overlap` | 2 overlapping calls | violation | mirrors end up different from the stored document |

An invariant over several facts is a conjunction of named parts, each with its own
comment: `PatchesAddUp` is `PendingHasTimer`, `BatchBound`, `NothingLost` and
`MirrorNeverTorn`; `RingSound` is `LanesIntact`, `RingSpellsFrames` and
`NoStrandedFrame`; `SavedOrExcused` is `NothingLost` and `DestroyPersists`;
`ReplicasAgree` is `CountersAgree` and `RegistersConverge`; `HeardInOrder` is
`OneOrder` and `OwedIsOnItsWay`; `PanelsAreTrue` is `PanelShowsHistory`,
`DashboardIsNewest` and `PanelShowsLastCall`; `LossIsExplained` is `CallsExplained`,
`EventsExplained` and `MirrorLacksOnlyUnsent`; `StateIsTrue` is `ReconnectingHasTimer`,
`ConnectedIsTrue` and `WorkerDisconnectSticks`; `AccountsBalance` is `GaugeIsHonest`
and `StoppedIsEmpty`.

Why the bounds are enough. Three links are what it takes for a leaked link, a
closing one and their successor to coexist, and two attempts for back-off to be
used up. Two fields and three documents give merged batches, partial patches
and a field that comes back; with batches of 2 the size limit is reached by one
call or by two; one client suffices because inboxes do not interact, except in
the order of broadcasts, which is common to them. In a ring of 12,
entries of 5 and 7 bytes would fill the ring to the brim, which must be refused,
and prefix and payload both wrap around. A threshold of 2
with 3 mutations leaves something to lose after a flush has begun. Three
operations of two clients, one identifier below and one above the server's, let
clocks tie, agree and cross. Two events give an order to disagree about, and three
changes let a handler come, go and come back, or a bus be destroyed and used again.
The servers of `events` run the same code and no property of it is temporal, so
exchanging them is sound. One place for two requests and one unit of quota for
two frames make each limit bite, and a second clock reading makes a window end.
Five inputs let a server be attached, take a connection and a call, and have
that call make a channel before `close` and replace it during or after it (one key is
enough, since channels of different keys share nothing but the map); two HTTP servers
give a second attachment, or one that is not attached; of the two assets one is in the
build and one is not, so both branches of `loadAsset` occur. Of the sizes on the wire one stays
plain, one is deflated and one is too long, and two of the middle one are too long as a
batch; four patches leave room for one that was lost, one that does not apply without it and
one that does; with three correlation ids the third call already runs over, and a
message may deflate to less or more than it was. Four inputs of a demo fill
a history of two and shift it twice, or shift it once with the connection
lost before or after; the list of one result has to drop one at the second call. Of the
entries one has a zero, which the vanilla page takes for none, the other two fractions,
the larger one first.

`CHECK_DEADLOCK FALSE` is given where the system comes to rest: bounded inputs are used
up, or the process has ended. The client's model has no such state.

### Fairness

- `ClientConnection`: microtasks run, armed timers fire, a socket told to close
  reports it, a handshake ends one way or the other. Nothing makes the server
  answer, or the application act.
- `LiveState`: the backend answers, armed timers fire, a live connection delivers.
  A debounced flush is put off by each write; writes are bounded here, and an
  application that never pauses would put it off for ever.
- `SharedRing`: both threads run.
- `Sessions`: backend calls return (`Store`, `Finish`, `EndRestore`, weakly), an `evict`
  goes on after its flush (`EndEvict`), and
  `setInterval` fires (`Interval`, strongly: the bound on flushes in progress may
  disable it for a while, which the code does not).
- `ServerTransport`: a closed WebSocket is gone after the library's 30 s; `close()`
  resumes. Nothing is assumed of clients, of authentication handlers or of timers.
- `ServerLifecycle`: a socket told to close is closed (the `ws` library's 30 s), the
  backend answers or refuses, and `close()` resumes when what it awaits is there.
  Handlers may run for ever, and nothing makes browsers ask or the application answer.
- `DemoChat`: the RPC timer fires, what has arrived is handled, React renders after
  a change of state, the server's handlers go on. Nothing is assumed of the network
  or of users: a frame may be cut off instead of arriving.
- `CrdtSync`, `Events`, `WireProtocol`: none; their properties are about states and steps.

## 4. Proofs

One module of proofs may be about two components that share neither state nor names; its
sections say which one they are about. `ClientDemo_proofs` is about `ClientConnection`
and `DemoChat`, `SessionsEvents_proofs` about `Sessions` and `Events`, the others are
about the module they are named after.

`ClientDemo_proofs` proves, for every finite set of links, every set of
calls, every number of attempts and of suspended jobs, and every choice of modes:

| Theorem | Property |
|---|---|
| `TypeCorrect` | `TypeOK` |
| `NoCallIsStranded` | `NoPendingOnDeadLink`: no pending call waits on a link that is gone |
| `ReconnectIsScheduled` | `ReconnectingHasTimer` |
| `OneFlight` | `SingleFlight`: an orderly client has one link, job or timer at a time |
| `ConnectedIsHonest` | `ConnectedIsTrue` |
| `WorkerStaysDown` | `WorkerDisconnectSticks` |
| `StateIsReported` | `StateIsTrue`, the three before it that are about what the client reports |
| `CloseIsLocal` | `CloseSettlesOwnCallsOnly`, an action property |

None of these is inductive alone. The invariant `IInv` adds to `TypeOK`, for an
orderly application, `OrderlyInv`: what is alive, by connection state (a link
while connecting or connected, a timer while reconnecting, a job while a call is
under way, and never two of them), and for its worker client `WorkerInv`: while
disconnected nothing is left that could reconnect, because `terminate` silences the
worker. There is one lemma per action, and `CloseIsLocal` follows from `IInv` at each
close event. Assumed: `Links` is finite, `None` is no link, `MaxReconnectAttempts` is a
natural number, `Modes` contains modes. The bound `MaxJobs` is not needed.

And for each of the three demos, any limits of the chat's history and of the panel's list,
any pairs of whole and half numbers that can be entered and any number of inputs:

| Theorem | Property |
|---|---|
| `ChatTypeCorrect` | `ChatTypeOK` |
| `PanelsNeverLie` | `PanelsAreTrue`: chat, dashboard and RPC panel show what is true |
| `GoneLeavesNothing` | `GoneIsSilent` |

`ChatInv` has a part for the page (`PageCore`) and three for the chat, one for each place
where a history can be. Of the page, `MountInv` says which client is in use and polled, and
that a page that has gone has closed it; `DashInv` that metrics on their way are newer than
those shown, and newer one than the other; `PanelInv` and `CallInv` what the panel
has of its last call. `ServerInv` says that the server's history is the newest of
the messages it took (`HistoryAt(taken)`) and, as long as no two handlers
overlapped (`serial`), how far the one handler is. `WireInv`
is a chain, as in live state: the frames on their way lead from what the
page's store holds to what has been broadcast (`Leads`), one patch for each message, each made
from the history the patch before it results in; so the patch that arrives is one from the
very array it meets, and fits (lemma `PatchedHistory`, which also covers the history
at its limit, where every element changes). An event follows the patch of its own message and
comes before the next patch, so the vanilla page has shown that message when the event
arrives. `ListInv` relates what is shown to the store; the vanilla page's part, that no message
is on the list twice, needs neither of the two hypotheses. `InputsInv` is the bound: every
call, tick and message has been paid for with an input. Assumed: the demos are
the known ones, entries are pairs of numbers of halves, the limits are natural numbers,
that of the chat positive. That rounding both bounds down keeps a result within `Fits` is
lemma `RoundedFits`.

`ServerTransport_proofs` proves, for any connections, limit, finite set of frames,
quota and window length:

| Theorem | Property |
|---|---|
| `TypeCorrect` | `TypeOK` |
| `CapIsKept` | `CapHolds`: admitted connections stay within `maxConnections` |
| `GaugeIsExact` | `GaugeIsHonest`: gauge, connections and executor agree |
| `StopLeavesNobody` | `StoppedIsEmpty` |
| `AccountsAgree` | `AccountsBalance`, the two before it |
| `EveryCallIsAnswered` | `AnsweredUnlessGone`: a processed call has its answer, or its connection has closed, or the answer could not be encoded |
| `SerialQuotaIsExact` | `SerialQuota`: a window judged frame by frame passes exactly its first `MaxRequests` |

The argument goes in layers. `DoorInv` (types, and `Registered`: the three
registers agree, and an admitted connection has a live WebSocket) gives the first
three after the types. `FrameInv` says where each frame is and that the window it holds is
one of the heap; it gives the answers. `Counts` says that a window's count is the number of frames
counted in it, which bounds it and completes `TypeOK`. `LimitInv` carries the
quota: each window belongs to one connection (`Owned`), a connection whose
frames have not overlapped has one of them in the limiter at most (`Alone`), and a
window of such a connection has passed as many of the frames judged in it as
the quota has room for (`QuotaMet`). Assumed: the limits are natural numbers,
`Frames` is finite and `None` is no connection.

`LiveState_proofs` proves, for any fields, values, clients, batch size, numbers of
channels and writes, and every flush strategy:

| Theorem | Property |
|---|---|
| `TypeCorrect` | `TypeOK` |
| `PatchesAlwaysAddUp` | `PatchesAddUp`: what is pending has its timer, batches stay bounded, no patch is forgotten, no mirror is torn |
| `Implements` | `Replicates`: live state implements `StateReplication` |

`ChannelInv` holds whatever the application does. The rest of the invariant is for an
application that awaits its calls (`Orderly`), and is a chain: a batch `Leads` from one
entry of the history to a later one; the batches in a client's inbox lead from what it
has applied to what was sent (`Chain`), the channel's pending batch from there to `Tip`,
and the call about to deliver from there to the stored document (`FlowInv`). A client
that missed nothing shows an entry of the history, one that joined late shows it on the fields it knows
(`InStep`). Without the chain nothing relates a mirror to a batch made three steps
before. The refinement has its two parts: `Init` maps to the abstract `Init`, and
under the invariant each action maps to an abstract step or a stutter; `Receive` is
an abstract step of the client because its batch leads from the one entry to the other.
Assumed: `Fields` is finite, `Absent` is no value, `MaxBatch` is positive, the bounds
are natural numbers, `Modes` contains modes.

`SessionsEvents_proofs` proves of `Sessions`, for any users, threshold, and numbers of editions, flushes
and restores:

| Theorem | Property |
|---|---|
| `TypeCorrect` | `TypeOK` |
| `EditionsAreSaved` | `SavedOrExcused`: what is not counted dirty is saved, and all is after destroy, but for the named excuses |
| `NeverRegresses` | `PersistNeverRegresses`, an action property |

The backend carries out writes in the order of the flushes (`StoredFirst`). For a user
without the excuse of a restore, the flushes in progress carry ascending editions, and
what is stored lies between those carried out and those to come (`Ascending`); this is
why a late flush cannot put an older edition over a newer one. `Saved` then says that a count of
0 can be trusted, and that a session still dirty while destroy waits has one of
destroy's flushes. Assumed: a positive threshold, bounds in `Nat`.

Of `Events` it proves, for any servers, handlers and backends, and any numbers of events
and of changes:

| Theorem | Property |
|---|---|
| `EventsTypeCorrect` | `EventsTypeOK`: a bus listens with the backend once at most |
| `EventsHeardInOrder` | `HeardInOrder`: no event twice, one order for all, none lost on a handler that is owed it |

What handlers have heard says nothing of what is on its way, so the invariant is about
lines: what a handler has heard and, behind it, what the backend is about to bring its
server; for a page also what its server has sent it (`LinesInv`). The order that
`HeardInOrder` asks of what was heard holds of all lines, and a step either takes some
events out of a line or adds one, on no line before, at its end (`Thins`, `Grows`). `OutInv` makes the new event
one: what has yet to reach the backend is on no line, and Redis, with one connection per
publisher, has taken all that a server published before it. `BusInv` (the bus has one listener with the
backend while it has an entry for the event) is what keeps an event from being heard
twice; `AtOnce` that the memory backend has nothing under way. `OwedInv` adds to
`OwedIsOnItsWay` that a server whose handler is owed an event still listens, with
that handler in its set. Assumed: the relay is a handler, the backends are the known ones,
the bounds are natural numbers.

`CrdtSync_proofs` proves, for any finite set of clients, either backend, any numbers of
operations and clock values:

| Theorem | Property |
|---|---|
| `TypeCorrect` | `TypeOK` |
| `NothingForgotten` | `ReplicasGrow`, an action property |
| `Converged` | `ReplicasAgree`: counters agree, registers converge |

`ReplicasAgree` speaks of quiet states only, so the invariant has to say what holds
while messages are under way. For counters (`CountInv`), there is for each entry of the
vectors a level `L`, that of the last state the server has broadcast: no state on its way
is above it, a client that has received everything has reached it, and only the node
whose entry it is may be ahead, by the operations of its own still under way. For
registers (`Follows`), a client's is newer than the server's by its registration or by a write
of its own still under way, or else the last state in its inbox has the server's.
Assumed: nodes are numbers (they are compared in ties), the server is no client,
`Backends` contains backends, the bounds are natural numbers, the clock's positive.

`WireProtocol_proofs` proves, for any payload sizes, limits, threshold, batch size and
number of correlation ids:

| Theorem | Property |
|---|---|
| `TypeCorrect` | `TypeOK` |
| `AnswersReachTheirCalls` | `AnswersMatch`: no call ends with the answer of another |
| `NothingElseIsLost` | `LossIsExplained`: calls, events and patches are lost for the named reasons only |

`AnswersMatch` needs `Recent` (a call that waits is so recent that no newer one has its
id) and `LinksInv` (every request, handler and answer under way has the id
its call has on the wire, and every message can be read, which rests on a lemma that a
receiver recognises what `Messages` makes of a frame). `CallsInv` follows a
call that waits: its request, its handler or its answer is somewhere, or it was refused,
lost to a failing limiter or swallowed. `EventsExplained` and `MirrorLacksOnlyUnsent` are inductive
with these; the latter has it that a frame fails to apply only when an earlier change was
too long: frames arrive in order, so what the mirror lacks below it was too long itself
or lost after one that was. Assumed: sizes and limits are natural numbers, `Ids` and `MaxBatch`
positive, and an error's payload is not above the limit (`ErrorsFit`; the code's are a short
text, its limit 1 MiB).

`ServerLifecycle_proofs` proves, for any HTTP servers, browsers, assets, keys, calls and
number of inputs:

| Theorem | Property |
|---|---|
| `TypeCorrect` | `TypeOK` |
| `RequestsAnsweredOnce` | `OneAnswer`: each request has one answer, of the right party, but for a URL that does not parse; errors in the two named cases only |
| `CloseLeavesNothing` | `ResolvedIsClean`: what a `close()` that resolves has taken down, and no more than the named things left |

`HttpInv` describes each HTTP server's list of listeners: the application's is last,
before it stand those of attachments that were not told to stop, once each. With it the run of the
listeners over a request (`Emitted`) comes to what the server's listener does, if there is one, and then the
application's (lemma `EmittedIs`), whatever the length of the list: a listener that finds
the response silenced changes nothing. `Asked` keeps, over time, that the
application's late answer meets a silenced response exactly when the server answered. `Left` says, for each step
of `close`, what is gone by then; it holds when no handler outlived the transport
and no attachment was overwritten, which are exceptions of the property, and it has
that a channel with a timer or a subscription is in the map or has been replaced. Assumed:
bundles are sets of assets and the number of inputs is in `Nat`.

`SharedRing_proofs` proves, for a ring of any capacity, frames of any lengths and any
number of them:

| Theorem | Property |
|---|---|
| `TypeCorrect` | `TypeOK` |
| `RingIsSound` | `RingSound`: bytes that leave the ring are frames, each once and in order; the ring spells the frames in it; none is stranded |

Indices that wrap around say little by themselves, so the argument is about the stream
of all bytes ever put in the ring: `readIdx` is `freed % Capacity`, `writeIdx`
is `Written % Capacity` (`Written` is `freed` and what is used), and entries lie one
behind the other in between (`StreamInv`). The writer leaves less than a capacity
between the two (`WorkerInv`: used and the entry it writes stay below it), and two
positions less than a capacity apart have different remainders
(lemma `ModNear`), so a byte stays as it was copied until it is freed (`CellsInv`).
`CountInv` is what two threads make of one count: it is the number of the entries that are published,
counted and not yet taken off, so a main thread that sees it above 0 finds
an entry at `readIdx`. `ReaderInv` says what it has copied of that entry, `OutInv` that what was
dispatched is what was freed, `PortInv` that posted frames come in order, and
`NoStrandedFrame` is inductive with them. Assumed: lengths are positive, the
capacity is above the 4 bytes of a prefix.

Lemmas the proofs share in kind, each stated in its module: what remains of a sequence
after an append, a tail or a removal, and that a set of frames, notices or operations is
finite and gains or loses one with a step; remainders; and for each module what a
step that leaves a part alone keeps. What a recursive function computes is found without
the library's theorems of induction: for what the vanilla page draws (`VanillaRender`), lemma
`DrawingExists` takes the least number of messages for which there would be no drawing, and
`Rendered` the same for what is drawn.

Every invariant and every action property of a passing run is proved, and so is the refinement.
Model-checked only: every liveness property
(`CallsSettle`, `BackoffEnds`, `MirrorsConverge`, `EveryFrameDelivered`,
`DirtyGetsFlushed`, `ShutdownFinishes`, `CloseSettles`, `PageCatchesUp`), because the
prover handles neither fairness nor ENABLED.

## 5. Disagreements met

The two violation runs, and 32 more without a run, are in `PROJECT.json`
("findings"), with the line each disagrees with. Those without:

- *Client and ring*: a frame the worker posts changes places with frames in the ring;
  back-off is exponential where the protocol says linear.
- *Live state*: a client that joins late gets no snapshot; `close` flushes sync
  channels when no connection is left to flush to.
- *Sessions*: `destroy` can resolve with a mutation unsaved; nothing flushes a
  session on disconnect, and `restore` overwrites unsaved changes; `evict` drops a
  counted change made while it awaits its flush; `ttlMs` is documented and not read.
- *CRDTs*: the server counts an increment twice; it files every operation of an lww-map under one field;
  deletions in an lww-map do not travel and its fields share one timestamp.
- *Events*: a handler registered before Redis is connected never hears;
  `broadcast` reaches the clients of one server only.
- *Wire protocol*: the document's receiver goes by the length of a message, the
  code's by its first byte; an answer that is too long is swallowed, and its caller
  waits for the time-out; patches that are too long together end the server when
  the batch's timer flushes them; a patch made on top of one that was too long does not
  apply in the client, which loses the whole frame.
- *Transport*: the limiter judges frames of a burst together or not at all;
  `maxConnections` is tested after authentication, not before.
- *Server*: `close` that is rejected half-way leaves what follows running; a second
  `attach` overwrites the first, which `close` then leaves; upgrades for other
  paths are destroyed; assets with fixed names are served as immutable for a year;
  the "upgrade" listener and pending upgrades outlive `close`, and so do the timer and
  subscription of a replaced channel; `write` and `pipe` are not silenced after an
  asset; a URL that does not parse throws in the listeners.
- *Demos*: StrictMode leaks the first client's connection; a newcomer's chat is
  stuck once the history is at its limit; two messages handled at once show as
  a, b, a; a message sent while the socket is not open is lost, though the
  input is cleared; the server rounds down a range that the page shows as it was typed.

## 6. Not modelled, and the plan

Done in this order: the client's life cycle and its proofs, live state with
its abstract specification, the ring, sessions, CRDTs, the transport and its proofs,
events, the server as a whole with its HTTP side, the demos, the wire protocol, then
the proofs about live state, sessions, CRDTs, the wire protocol, the server, the ring,
events and the demos.
What is left:

1. *More of the system.* The limiter over Redis (lost updates) and its per-method
   rules; the exporters (OpenTelemetry's adds cumulative values to counters) and the
   absence of pings to peers that vanished; `StateStore`'s subscribers; the worker's
   promise of `connect`, which may never settle; links to Redis and Postgres that are
   lost and come back.
2. *More proofs.* What a model says of liveness stays with TLC. A version of `Replicates`
   for clients that join late would need the documentation's snapshot, which the code does not send.

Left out for good: the bytes of the wire format beyond the above, framework
adapters, type declarations, build scripts and the documentation site. They keep no
state whose order could matter. Overlapping `setState`
calls are covered by the violation run only: with every strategy at once their
state space is out of reach, and the promise does not hold for them anyway.
