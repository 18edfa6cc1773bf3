--------------------------- MODULE ServerLifecycle ---------------------------
(***************************************************************************)
(* The life of a DatasoleServer in its process: construction, init(),      *)
(* attach() to HTTP servers that have listeners of their own, the runtime  *)
(* assets it serves to browsers, the work its RPC handlers do on the       *)
(* primitives, close(), and a new process of the same or the next build.   *)
(* The parts are modelled in full in modules of their own; here they are   *)
(* what close() has to take down: timers, subscriptions to the backend,    *)
(* listeners, sockets, and session data that is not saved.                 *)
(*                                                                         *)
(* A step runs from one await to the next.                                 *)
(***************************************************************************)
EXTENDS Naturals, FiniteSets, FiniteSetsExt, Sequences, SequencesExt

CONSTANTS Https,       \* HTTP servers of the application
          Browsers,
          Calls,       \* RPC calls whose handlers may be under way
          Keys,        \* keys with a batched sync channel
          Bundles,     \* what loadAsset may find: sets of assets
          MaxInputs    \* bound: inputs of the environment and failures

Assets == {"client", "worker"}

ASSUME BundlesAreAssets == Bundles \subseteq SUBSET Assets
ASSUME InputsAreNat == MaxInputs \in Nat

\* The process.
VARIABLES
    build,      \* the build it runs; assets and their ETags go with it
    bundle,     \* the assets this build has
    connected,  \* the backend is connected: from the start, or by init()
    inputs      \* inputs that are left

\* HTTP.
VARIABLES
    attached,   \* the HTTP server of each call of attach(), oldest first
    held,       \* the attachment ServerTransport refers to, 0 for null
    down,       \* attachments whose WebSocketServer has been told to stop
    listeners,  \* "request" listeners of each HTTP server, first to last: 0 is
                \* the application's, n the one of the nth attachment
    upgrading,  \* upgrades that wait for the auth handler, each with a timer and
                \* a raw socket: <<attachment, browser>>
    sockets,    \* open WebSockets: <<attachment, browser>>
    executor,   \* the connections the executor knows
    request,    \* the request each browser waits for
    copy        \* the build of each asset a browser has, 0 for none

\* The primitives.
VARIABLES
    running,    \* calls whose handler is under way
    intervals,  \* "sessions" and "limiter", as long as they run
    channels,   \* the channels of syncChannels, one for a key: <<key, number>>
    subscribed, \* channels that have subscribed to the backend
    timers,     \* channels that hold patches, with a timer to flush them
    replaced,   \* history: channels whose key was given to a later one
    visited,    \* keys that destroySyncChannels has come to
    heard,      \* managers that have subscribed to the backend
    methods,    \* RPC handlers are registered
    unsaved,    \* some session data is not in the backend
    counted,    \* dirtyCount is above zero
    flushes,    \* flushes of the interval and of close()
    closing,    \* where close() is
    late,       \* history: a handler was under way when the transport had closed
    forgotten   \* history: a flush has reset the count over unsaved data

processVars == <<build, bundle, connected>>
httpVars == <<attached, held, down, listeners, upgrading, sockets, executor>>
browserVars == <<request, copy>>
stateVars == <<channels, subscribed, timers, replaced, visited>>
sessionVars == <<unsaved, counted, flushes, forgotten>>
vars == <<processVars, inputs, httpVars, browserVars, running, intervals,
          stateVars, heard, methods, sessionVars, closing, late>>

Nobody == "nobody"
NoRequest == [path |-> "none"]
Paths == Assets \union {"page", "unparsable"}
\* threw: a listener has thrown.  erred: the response has emitted "error".
Requests == [path : Paths, method : {"GET", "HEAD", "POST"},
             tag : Nat, by : {Nobody, "server", "app"},
             status : {"none", "200", "200 empty", "304"},
             silent : BOOLEAN, owes : BOOLEAN, threw : BOOLEAN, erred : BOOLEAN,
             due : {"server", "app", "either"}]
Steps == {"open", "transport", "sessions", "executor", "channels", "crdt",
           "events", "rpc", "limiter", "resolved", "rejected"}

TypeOK ==
    /\ build \in 1..(MaxInputs + 1) /\ bundle \in Bundles
    /\ connected \in BOOLEAN /\ inputs \in 0..MaxInputs
    /\ attached \in Seq(Https) /\ held \in 0..Len(attached)
    /\ down \subseteq DOMAIN attached
    /\ listeners \in [Https -> Seq(0..Len(attached))]
    /\ upgrading \subseteq (1..Len(attached)) \X Browsers
    /\ sockets \subseteq (1..Len(attached)) \X Browsers
    /\ executor \subseteq sockets
    /\ request \in [Browsers -> Requests \union {NoRequest}]
    /\ copy \in [Browsers -> [Assets -> 0..(MaxInputs + 1)]]
    /\ running \subseteq Calls
    /\ intervals \subseteq {"sessions", "limiter"}
    /\ channels \subseteq Keys \X Nat /\ subscribed \subseteq Keys \X Nat
    /\ timers \subseteq Keys \X Nat /\ replaced \subseteq Keys \X Nat
    /\ visited \subseteq Keys
    /\ heard \subseteq {"crdt", "event"} /\ methods \in BOOLEAN
    /\ unsaved \in BOOLEAN /\ counted \in BOOLEAN
    /\ flushes \in [{"interval", "close"} -> {"none", "clean", "stale"}]
    /\ closing \in Steps /\ late \in BOOLEAN /\ forgotten \in BOOLEAN

Spend == inputs > 0 /\ inputs' = inputs - 1

\* The constructor: the intervals of the session manager and of the limiter
\* run, nothing is attached, the RPC methods of the application registered.
Constructed ==
    [attached |-> <<>>, listeners |-> [h \in Https |-> <<0>>],
     intervals |-> {"sessions", "limiter"},
     flushes |-> [f \in {"interval", "close"} |-> "none"]]

Init ==
    /\ build = 1 /\ bundle \in Bundles /\ connected \in BOOLEAN
    /\ inputs = MaxInputs
    /\ attached = Constructed.attached /\ held = 0 /\ down = {}
    /\ listeners = Constructed.listeners
    /\ upgrading = {} /\ sockets = {} /\ executor = {}
    /\ request = [b \in Browsers |-> NoRequest]
    /\ copy = [b \in Browsers |-> [a \in Assets |-> 0]]
    /\ running = {} /\ intervals = Constructed.intervals
    /\ channels = {} /\ subscribed = {} /\ timers = {} /\ replaced = {}
    /\ visited = {} /\ heard = {}
    /\ methods = TRUE /\ unsaved = FALSE /\ counted = FALSE
    /\ flushes = Constructed.flushes
    /\ closing = "open" /\ late = FALSE /\ forgotten = FALSE

\* The process ends and another one starts: what browsers hold is all that
\* is left, and data that was not saved.
Restarted(v) ==
    /\ build' = v /\ bundle' \in Bundles
    /\ (v = build => bundle' = bundle)
    /\ connected' \in BOOLEAN
    /\ attached' = Constructed.attached /\ held' = 0 /\ down' = {}
    /\ listeners' = Constructed.listeners
    /\ upgrading' = {} /\ sockets' = {} /\ executor' = {}
    /\ request' = [b \in Browsers |-> NoRequest]
    /\ running' = {} /\ intervals' = Constructed.intervals
    /\ channels' = {} /\ subscribed' = {} /\ timers' = {} /\ replaced' = {}
    /\ visited' = {} /\ heard' = {}
    /\ methods' = TRUE /\ unsaved' = FALSE /\ counted' = FALSE
    /\ flushes' = Constructed.flushes
    /\ closing' = "open" /\ late' = FALSE /\ forgotten' = FALSE
    /\ UNCHANGED copy

Deploy == Spend /\ Restarted(build + 1)

\* init(): connects the backend.
Connect ==
    /\ ~connected /\ connected' = TRUE
    /\ UNCHANGED <<build, bundle, inputs, httpVars, browserVars, running, intervals,
                   stateVars, heard, methods, sessionVars, closing, late>>
-----------------------------------------------------------------------------
(***************************************************************************)
(* HTTP: the listeners of one server run one after the other, in the task  *)
(* of the request; the application may also answer in a later one.         *)
(***************************************************************************)
\* attach(): the new listener goes first, and ServerTransport forgets an
\* earlier attachment.  An application that has called close() attaches no more.
\* The attachment also listens for upgrades, and that listener is never removed.
Attach(h) ==
    /\ closing = "open" /\ Spend
    /\ attached' = Append(attached, h)
    /\ held' = Len(attached')
    /\ listeners' = [listeners EXCEPT ![h] = <<held'>> \o @]
    /\ UNCHANGED <<processVars, down, upgrading, sockets, executor, browserVars,
                   running, intervals, stateVars, heard, methods, sessionVars,
                   closing, late>>

\* StaticAssetServer.handleRequest: whether the request is for it, and whether
\* new URL() throws on it.
IsAsset(q) == q.method \in {"GET", "HEAD"} /\ q.path \in bundle
Unparsable(q) == q.method \in {"GET", "HEAD"} /\ q.path = "unparsable"

\* sendAsset: 304 for a browser that has this build's asset.
SendAsset(q) ==
    [q EXCEPT !.by = "server",
              !.status = IF q.tag = build THEN "304"
                         ELSE IF q.method = "HEAD" THEN "200 empty" ELSE "200"]

\* What follows finds a response whose setHeader, writeHead and end do nothing.
Loud(q) == q  \* mutation of Silenced: the response is left as it is
Silenced(q) == [q EXCEPT !.silent = TRUE]

\* A second answer throws in writeHead, unless the response is silent.
Answer(q, answered) ==
    IF q.silent THEN q
    ELSE IF q.by # Nobody THEN [q EXCEPT !.threw = TRUE] ELSE answered

StaticListener(q) ==
    IF IsAsset(q) THEN Silenced(Answer(q, SendAsset(q)))
    ELSE IF Unparsable(q) THEN [q EXCEPT !.threw = TRUE] ELSE q

\* The application answers with end() alone, or with write() or pipe(), which are
\* not silenced: after end() they make the response emit "error".
AppAnswers(q, how) ==
    IF q.silent /\ how = "write" THEN [q EXCEPT !.erred = TRUE]
    ELSE Answer(q, [q EXCEPT !.by = "app"])
AppListener(q, how) ==
    IF how = "later" THEN [q EXCEPT !.owes = TRUE] ELSE AppAnswers(q, how)

\* EventEmitter.emit calls the listeners in their order, until one throws.
Emitted(h, q, how) ==
    LET run[i \in 0..Len(listeners[h])] ==
            IF i = 0 THEN q
            ELSE IF run[i-1].threw THEN run[i-1]
            ELSE IF listeners[h][i] = 0 THEN AppListener(run[i-1], how)
            ELSE StaticListener(run[i-1])
    IN  run[Len(listeners[h])]

\* Nobody in src/ catches what is thrown or emitted: unless the application
\* does, the process ends.
Handled(b, q) ==
    \/ /\ request' = [request EXCEPT ![b] = q]
       /\ UNCHANGED <<processVars, httpVars, copy, running, intervals, stateVars,
                      heard, methods, sessionVars, closing, late>>
    \/ (q.threw \/ q.erred) /\ Restarted(build)

\* Who is to answer for an asset: once close() is called the application,
\* except that an attachment ServerTransport has forgotten stays.
Due(h) == IF h \notin ToSet(attached) THEN "app"
          ELSE IF closing = "open" THEN "server"
          ELSE IF Len(attached) = 1 THEN "app" ELSE "either"

\* A browser asks; If-None-Match names the copy it has.  A copy it may use
\* without asking, for a year, it uses without a step here.
Ask(b, h, path, method, how) ==
    /\ request[b] = NoRequest
    /\ Spend
    /\ Handled(b, Emitted(h,
          [path |-> path, method |-> method,
           tag |-> IF path \in Assets THEN copy[b][path] ELSE 0,
           by |-> Nobody, status |-> "none", silent |-> FALSE, owes |-> FALSE,
           threw |-> FALSE, erred |-> FALSE, due |-> Due(h)], how))

\* The application answers a request it has taken its time for.
AppLater(b, how) ==
    /\ request[b] # NoRequest /\ request[b].owes
    /\ Handled(b, AppAnswers([request[b] EXCEPT !.owes = FALSE], how))
    /\ UNCHANGED inputs

\* The browser has its answer, or gives up waiting for one.
Receive(b) ==
    LET q == request[b] IN
    /\ q # NoRequest /\ (q.by # Nobody \/ q.threw) /\ ~q.owes
    /\ request' = [request EXCEPT ![b] = NoRequest]
    /\ copy' = IF q.by = "server" /\ q.status = "200"
               THEN [copy EXCEPT ![b][q.path] = build] ELSE copy
    /\ UNCHANGED <<processVars, inputs, httpVars, running, intervals, stateVars,
                   heard, methods, sessionVars, closing, late>>

\* A page connects: the auth handler is asked, also after close(), since the
\* listener stays.  Two attachments to one HTTP server both take the upgrade,
\* and the second one destroys the socket.
BeginUpgrade(b, n) ==
    /\ Spend
    /\ {m \in DOMAIN attached : attached[m] = attached[n]} = {n}
    /\ upgrading' = upgrading \union {<<n, b>>}
    /\ UNCHANGED <<processVars, attached, held, down, listeners, sockets, executor,
                   browserVars, running, intervals, stateVars, heard, methods,
                   sessionVars, closing, late>>

\* The handler has an answer, or its 10 seconds are over.  A WebSocketServer that
\* has been told to stop refuses with 503, and one that is gone with 500.
EndUpgrade(u) ==
    /\ u \in upgrading
    /\ upgrading' = upgrading \ {u}
    /\ \/ /\ u[1] \notin down
          /\ sockets' = sockets \union {u} /\ executor' = executor \union {u}
       \/ UNCHANGED <<sockets, executor>>
    /\ UNCHANGED <<processVars, inputs, attached, held, down, listeners,
                   browserVars, running, intervals, stateVars, heard, methods,
                   sessionVars, closing, late>>

\* An upgrade whose URL does not parse: new URL() throws in the listener.
BadUpgrade(h) == h \in ToSet(attached) /\ Spend /\ Restarted(build)

\* onClose tells the executor, if it still knows the connection.
StillKnown(s) == executor  \* mutation of Removed: onDisconnect is left out
Removed(s) == executor \ {s}

\* A socket closes: because the page goes, or because stop() told it to.
SocketCloses(s) ==
    /\ s \in sockets
    /\ sockets' = sockets \ {s} /\ executor' = Removed(s)
    /\ UNCHANGED <<processVars, inputs, attached, held, down, listeners, upgrading,
                   browserVars, running, intervals, stateVars, heard, methods,
                   sessionVars, closing, late>>
-----------------------------------------------------------------------------
(***************************************************************************)
(* What handlers and the application do with the primitives.  The          *)
(* application acts on its own until it calls close(); a handler that is   *)
(* under way goes on whatever close() has taken down.                      *)
(***************************************************************************)
Acting == running # {} \/ closing = "open"

\* A frame of a connection the executor knows starts a handler.
StartCall(c) ==
    /\ c \notin running /\ executor # {} /\ methods
    /\ Spend
    /\ running' = running \union {c}
    /\ UNCHANGED <<processVars, httpVars, browserVars, intervals, stateVars, heard,
                   methods, sessionVars, closing, late>>

FinishCall(c) ==
    /\ c \in running
    /\ running' = running \ {c}
    /\ UNCHANGED <<processVars, inputs, httpVars, browserVars, intervals, stateVars,
                   heard, methods, sessionVars, closing, late>>

\* SessionManager.set: flushes under way have taken their copy.
SetSession ==
    /\ Acting /\ Spend
    /\ unsaved' = TRUE /\ counted' = TRUE
    /\ flushes' = [f \in DOMAIN flushes |->
                     IF flushes[f] = "none" THEN "none" ELSE "stale"]
    /\ UNCHANGED <<processVars, httpVars, browserVars, running, intervals, stateVars,
                   heard, methods, forgotten, closing, late>>

\* ServerLiveState.createSyncChannel, for a channel that flushes by a timer.  A
\* channel that the key had goes from the map and is not destroyed.
Channel(k) == {c \in channels : c[1] = k}
CreateSyncChannel(k) ==
    /\ Acting /\ Spend
    /\ \E n \in 0..MaxInputs :
          LET used == channels \union subscribed \union timers \union replaced IN
          /\ \A m \in 0..n : <<k, m>> \in used <=> m # n
          /\ channels' = (channels \ Channel(k)) \union {<<k, n>>}
          /\ subscribed' = subscribed \union {<<k, n>>}
    /\ replaced' = replaced \union Channel(k)
    /\ UNCHANGED <<processVars, httpVars, browserVars, running, intervals, timers,
                   visited, heard, methods, sessionVars, closing, late>>

\* ServerLiveState.setState: the patch waits in the key's channel for a timer.
SetState(k) ==
    /\ Acting /\ connected /\ Channel(k) # {} /\ Spend
    /\ timers' = timers \union Channel(k)
    /\ UNCHANGED <<processVars, httpVars, browserVars, running, intervals, channels,
                   subscribed, replaced, visited, heard, methods, sessionVars,
                   closing, late>>

FlushTimer(c) ==
    /\ c \in timers
    /\ timers' = timers \ {c}
    /\ UNCHANGED <<processVars, inputs, httpVars, browserVars, running, intervals,
                   channels, subscribed, replaced, visited, heard, methods,
                   sessionVars, closing, late>>

\* CrdtManager.apply and EventBus.on subscribe, once.  The operation is then
\* published; over a backend that is not connected the rejection, which nobody
\* catches, ends the process.
ApplyCrdt ==
    /\ Acting /\ Spend
    /\ IF connected
       THEN /\ heard' = heard \union {"crdt"}
            /\ UNCHANGED <<processVars, httpVars, browserVars, running, intervals,
                           stateVars, methods, sessionVars, closing, late>>
       ELSE Restarted(build)

Listen ==
    /\ Acting /\ Spend
    /\ heard' = heard \union {"event"}
    /\ UNCHANGED <<processVars, httpVars, browserVars, running, intervals, stateVars,
                   methods, sessionVars, closing, late>>

\* SessionManager.flushUser, as far as its await.
BeginFlush(f) == flushes' = [flushes EXCEPT ![f] = "clean"]

\* flushUser resets the count, whatever has changed since it took its copy.
EndFlush(f) ==
    /\ connected /\ flushes[f] # "none"
    /\ flushes' = [flushes EXCEPT ![f] = "none"]
    /\ unsaved' = (unsaved /\ flushes[f] = "stale")
    /\ counted' = FALSE
    /\ forgotten' = (unsaved' \/ (forgotten /\ flushes[f] = "stale"))

IntervalFlush ==
    /\ "sessions" \in intervals /\ counted /\ flushes["interval"] = "none"
    /\ BeginFlush("interval")
    /\ UNCHANGED <<processVars, inputs, httpVars, browserVars, running, intervals,
                   stateVars, heard, methods, unsaved, counted, forgotten,
                   closing, late>>

IntervalFlushed ==
    /\ EndFlush("interval")
    /\ UNCHANGED <<processVars, inputs, httpVars, browserVars, running, intervals,
                   stateVars, heard, methods, closing, late>>

\* The rejection of the interval's flush is caught by nobody.
IntervalRefused ==
    /\ flushes["interval"] # "none"
    /\ IF connected THEN Spend ELSE UNCHANGED inputs
    /\ Restarted(build)
-----------------------------------------------------------------------------
(***************************************************************************)
(* DatasoleServer.close(), from await to await.                            *)
(***************************************************************************)
\* ServerTransport.close: the listener of the attachment it refers to goes at
\* once, and its WebSocketServer closes its sockets.  After a rejection the
\* application may call close() again.
ForgetListener(h, n) == listeners  \* mutation of RemoveListener: off() is left out
RemoveListener(h, n) ==
    LET at == {i \in DOMAIN listeners[h] : listeners[h][i] = n} IN
    IF at = {} THEN listeners ELSE [listeners EXCEPT ![h] = RemoveAt(@, Max(at))]

Close ==
    /\ closing \in {"open", "rejected"}
    /\ closing' = "transport"
    /\ IF held = 0 THEN UNCHANGED <<listeners, down>>
       ELSE /\ listeners' = RemoveListener(attached[held], held)
            /\ down' = down \union {held}
    /\ UNCHANGED <<processVars, inputs, attached, held, upgrading, sockets, executor,
                   browserVars, running, intervals, stateVars, heard, methods,
                   sessionVars, late>>

\* What stop() waits for.
EverySocket(n) == sockets  \* mutation of SocketsOf: sockets of other attachments too
SocketsOf(n) == {s \in sockets : s[1] = n}

\* stop() resolves when its sockets are closed; SessionManager.destroy stops
\* the interval and flushes what is counted.
TransportClosed ==
    /\ closing = "transport"
    /\ SocketsOf(held) = {}
    /\ held' = 0
    /\ late' = (late \/ running # {})
    /\ intervals' = intervals \ {"sessions"}
    /\ IF counted THEN closing' = "sessions" /\ BeginFlush("close")
                  ELSE closing' = "executor" /\ UNCHANGED flushes
    /\ UNCHANGED <<processVars, inputs, attached, down, listeners, upgrading, sockets,
                   executor, browserVars, running, stateVars, heard, methods,
                   unsaved, counted, forgotten>>

SessionsFlushed ==
    /\ closing = "sessions" /\ EndFlush("close")
    /\ closing' = "executor"
    /\ UNCHANGED <<processVars, inputs, httpVars, browserVars, running, intervals,
                   stateVars, heard, methods, late>>

\* The backend refuses: close() is rejected, and does not go on.
SessionsRefused ==
    /\ closing = "sessions"
    /\ IF connected THEN Spend ELSE UNCHANGED inputs
    /\ flushes' = [flushes EXCEPT !["close"] = "none"]
    /\ closing' = "rejected"
    /\ UNCHANGED <<processVars, httpVars, browserVars, running, intervals, stateVars,
                   heard, methods, unsaved, counted, forgotten, late>>

ShutdownExecutor ==
    /\ closing = "executor" /\ closing' = "channels"
    /\ executor' = {} /\ visited' = {}
    /\ UNCHANGED <<processVars, inputs, attached, held, down, listeners, upgrading,
                   sockets, browserVars, running, intervals, channels, subscribed,
                   timers, replaced, heard, methods, sessionVars, late>>

\* destroySyncChannels awaits each channel of the map; a key that is added
\* meanwhile is visited too.  SyncChannel.destroy stops the timer, flushes and
\* unsubscribes.
DestroyChannel(k) ==
    /\ closing = "channels" /\ k \notin visited /\ Channel(k) # {}
    /\ visited' = visited \union {k}
    /\ timers' = timers \ Channel(k) /\ subscribed' = subscribed \ Channel(k)
    /\ UNCHANGED <<processVars, inputs, httpVars, browserVars, running, intervals,
                   channels, replaced, heard, methods, sessionVars, closing, late>>

ChannelsDestroyed ==
    /\ closing = "channels" /\ \A c \in channels : c[1] \in visited
    /\ closing' = "crdt" /\ channels' = {}
    /\ UNCHANGED <<processVars, inputs, httpVars, browserVars, running, intervals,
                   subscribed, timers, replaced, visited, heard, methods,
                   sessionVars, late>>

\* CrdtManager.destroy and EventBus.destroy unsubscribe.
DestroyManagers ==
    /\ \/ closing = "crdt" /\ closing' = "events" /\ heard' = heard \ {"crdt"}
       \/ closing = "events" /\ closing' = "rpc" /\ heard' = heard \ {"event"}
    /\ UNCHANGED <<processVars, inputs, httpVars, browserVars, running, intervals,
                   stateVars, methods, sessionVars, late>>

\* RpcDispatcher.destroy.
DestroyRpc ==
    /\ closing = "rpc" /\ closing' = "limiter" /\ methods' = FALSE
    /\ UNCHANGED <<processVars, inputs, httpVars, browserVars, running, intervals,
                   stateVars, heard, sessionVars, late>>

\* DefaultRateLimiter.destroy stops its interval, and close() resolves.
DestroyLimiter ==
    /\ closing = "limiter" /\ closing' = "resolved"
    /\ intervals' = intervals \ {"limiter"}
    /\ UNCHANGED <<processVars, inputs, httpVars, browserVars, running, stateVars,
                   heard, methods, sessionVars, late>>

CloseGoesOn ==
    \/ TransportClosed \/ SessionsFlushed \/ SessionsRefused \/ ShutdownExecutor
    \/ \E k \in Keys : DestroyChannel(k)
    \/ ChannelsDestroyed \/ DestroyManagers \/ DestroyRpc \/ DestroyLimiter

Next ==
    \/ Deploy \/ Connect
    \/ \E h \in Https : Attach(h)
    \/ \E b \in Browsers :
          \/ Receive(b) \/ \E how \in {"end", "write"} : AppLater(b, how)
          \/ \E h \in Https, path \in Paths, method \in {"GET", "HEAD", "POST"},
                how \in {"end", "write", "later"} : Ask(b, h, path, method, how)
          \/ \E n \in DOMAIN attached : BeginUpgrade(b, n)
    \/ \E u \in upgrading : EndUpgrade(u)
    \/ \E h \in Https : BadUpgrade(h)
    \/ \E s \in sockets : SocketCloses(s)
    \/ \E c \in Calls : StartCall(c) \/ FinishCall(c)
    \/ \E k \in Keys : CreateSyncChannel(k) \/ SetState(k)
    \/ \E c \in timers : FlushTimer(c)
    \/ SetSession \/ ApplyCrdt \/ Listen
    \/ IntervalFlush \/ IntervalFlushed \/ IntervalRefused
    \/ Close \/ CloseGoesOn

\* A socket told to close is closed, the backend answers, and close() resumes
\* when what it awaits is there.
Fairness ==
    /\ WF_vars(\E s \in sockets : s[1] \in down /\ SocketCloses(s))
    /\ WF_vars(CloseGoesOn)

Spec == Init /\ [][Next]_vars /\ Fairness
-----------------------------------------------------------------------------
\* Every HTTP request is answered once: one for an asset by the server as long
\* as it is attached and not closing, any other by the application, whatever
\* listeners the application has and however late it answers.  A browser is told
\* to keep its copy only when that is the asset of the build that runs.  Two
\* exceptions are named, each after which an error goes to the application: a
\* GET or HEAD request whose URL does not parse is answered by nobody while the
\* server is attached, and an application that answers an asset again with
\* write() or pipe(), instead of end(), makes the response emit "error"
\* (static-assets.ts:73, server-transport.ts:15).
OneAnswer ==
    \A b \in Browsers : request[b] # NoRequest =>
        LET q == request[b] IN
        /\ q.threw => Unparsable(q) /\ q.due # "app"
        /\ q.erred => q.by = "server"
        /\ q.by # Nobody \/ q.owes \/ q.threw
        /\ IsAsset(q) /\ q.due = "server" => q.by = "server"
        /\ q.by = "server" => IsAsset(q) /\ q.due # "app"
        /\ q.by = "app" => ~q.silent
        /\ q.status = "304" => copy[b][q.path] = build

\* When close() has resolved the sessions are saved and this is left of the
\* server: no interval, no subscription of a manager, no connection, no method,
\* no "request" listener, and no channel, patch, timer or subscription of one,
\* but for a channel that a later one for its key has replaced.  What else the
\* code leaves is no part of this: the "upgrade" listener, which stays for good,
\* and upgrades that wait for the auth handler, each with its timer and its raw
\* socket; none of them becomes a connection.  The other exceptions: a handler
\* that outlives the transport's part of close() may make new things, an earlier
\* attachment is forgotten, and a flush may have reset the count of changes it
\* did not save (server.ts:295).
ResolvedIsClean ==
    closing = "resolved" /\ ~late /\ Len(attached) <= 1 =>
        /\ intervals = {} /\ heard = {} /\ channels = {}
        /\ timers \union subscribed \subseteq replaced
        /\ sockets = {} /\ executor = {} /\ ~methods
        /\ \A h \in Https : listeners[h] = <<0>>
        /\ unsaved => forgotten

\* close() settles, whatever handlers, browsers and the backend do; a process
\* that ends meanwhile has nothing to settle (server.ts:294).
CloseSettles ==
    closing \notin {"open", "rejected"} ~> closing \in {"open", "resolved", "rejected"}
=============================================================================
