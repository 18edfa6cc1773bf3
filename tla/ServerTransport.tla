-------------------------- MODULE ServerTransport --------------------------
(***************************************************************************)
(* The server's door and the way of a frame behind it: WsServer (upgrade,  *)
(* authentication, shutdown), ServerTransport (the connection limit, the   *)
(* connections, the gauge), the frame pipeline with the rate limiter, the  *)
(* executor and the RPC dispatcher.                                        *)
(*                                                                         *)
(* A step runs from one await to the next.  The limiter is the default one *)
(* over the memory backend, whose get returns the very object a later set  *)
(* stores: windows are therefore objects, kept in "heap", and "store" says *)
(* which of them the backend holds for a connection.                       *)
(***************************************************************************)
EXTENDS Naturals, Sequences, FiniteSets

CONSTANTS Conns,           \* upgrade requests, each becomes a connection or not
          Frames,          \* frames the clients send
          MaxConnections,  \* DatasoleServerOptions.maxConnections
          MaxRequests,     \* RateLimitRule.maxRequests
          WindowMs,        \* RateLimitRule.windowMs
          MaxNow,          \* bound: clock readings, 0..MaxNow
          None

ASSUME LimitsAreNat ==
    /\ MaxConnections \in Nat /\ MaxRequests \in Nat
    /\ WindowMs \in Nat \ {0} /\ MaxNow \in Nat
ASSUME NoneIsNoConnection == None \notin Conns
ASSUME FramesFinite == IsFiniteSet(Frames)

VARIABLES
    door,         \* up, stopping or stopped: WsServer.wss
    upgrade,      \* where each upgrade request is
    wire,         \* each WebSocket: none, open, closing or closed
    connections,  \* ServerTransport.connections
    executor,     \* AsyncExecutor.connections
    gauge,        \* the metric "connections"
    now,          \* Date.now()
    heap, store,  \* the windows made, and the one stored per connection
    stage,        \* where each frame is
    from, kind,   \* its connection; whether it is a call
    born, seen,   \* the clock and the stored window when it asked for it
    window,       \* the window it is counted in
    reply,        \* what reached the client
    swallowed,    \* history: calls whose answer could not be encoded
    passed,       \* history: frames the limiter let through
    overlapped    \* history: connections with two frames in the limiter at once

doorVars == <<door, upgrade, wire, connections, executor, gauge>>
limitVars == <<heap, store>>
frameVars == <<stage, from, kind, born, seen, window, reply, swallowed, passed, overlapped>>
vars == <<doorVars, now, limitVars, frameVars>>

InLimiter == {"get", "have", "saved"}
Window == [count: 0..Cardinality(Frames), resetAt: Nat]

TypeOK ==
    /\ door \in {"up", "stopping", "stopped"}
    /\ upgrade \in [Conns -> {"idle", "auth", "timedOut", "gone", "over"}]
    /\ wire \in [Conns -> {"none", "open", "closing", "closed"}]
    /\ connections \subseteq Conns /\ executor \subseteq Conns
    /\ gauge \in Nat
    /\ now \in 0..MaxNow
    /\ heap \in Seq(Window) /\ store \in [Conns -> 0..Len(heap)]
    /\ stage \in [Frames -> {"new", "handling", "done"} \cup InLimiter]
    /\ from \in [Frames -> Conns \cup {None}]
    /\ kind \in [Frames -> {"call", "oneway"}]
    /\ born \in [Frames -> 0..MaxNow]
    /\ seen \in [Frames -> 0..Len(heap)] /\ window \in [Frames -> 0..Len(heap)]
    /\ reply \in [Frames -> {"none", "result", "error", "limited"}]
    /\ swallowed \subseteq Frames
    /\ passed \subseteq Frames /\ overlapped \subseteq Conns

Init ==
    /\ door = "up"
    /\ upgrade = [c \in Conns |-> "idle"] /\ wire = [c \in Conns |-> "none"]
    /\ connections = {} /\ executor = {} /\ gauge = 0 /\ now = 0
    /\ heap = <<>> /\ store = [c \in Conns |-> 0]
    /\ stage = [f \in Frames |-> "new"] /\ from = [f \in Frames |-> None]
    /\ kind = [f \in Frames |-> "call"] /\ born = [f \in Frames |-> 0]
    /\ seen = [f \in Frames |-> 0] /\ window = [f \in Frames |-> 0]
    /\ reply = [f \in Frames |-> "none"]
    /\ swallowed = {} /\ passed = {} /\ overlapped = {}

-----------------------------------------------------------------------------
(* WsServer.handleUpgrade. *)

\* The listener outlives stop: requests are taken up in every phase.
BeginUpgrade(c) ==
    /\ upgrade[c] = "idle"
    /\ upgrade' = [upgrade EXCEPT ![c] = "auth"]
    /\ UNCHANGED <<door, wire, connections, executor, gauge, now, limitVars, frameVars>>

\* The timer of 10 s: 408, and the socket is destroyed.
AuthTimeout(c) ==
    /\ upgrade[c] = "auth"
    /\ upgrade' = [upgrade EXCEPT ![c] = "timedOut"]
    /\ UNCHANGED <<door, wire, connections, executor, gauge, now, limitVars, frameVars>>

\* The client gives up while the handler is thinking.
ClientGone(c) ==
    /\ upgrade[c] = "auth"
    /\ upgrade' = [upgrade EXCEPT ![c] = "gone"]
    /\ UNCHANGED <<door, wire, connections, executor, gauge, now, limitVars, frameVars>>

MoreThanFull == Cardinality(connections) > MaxConnections  \* mutation of Full
Full == Cardinality(connections) >= MaxConnections

\* AsyncExecutor.
AddConnection(c) == executor' = executor \cup {c}
RemoveConnection(c) == executor' = executor \ {c}

\* The handler of ServerTransport.attach: 1013 beyond the limit.
Welcome(c) ==
    IF Full
    THEN /\ wire' = [wire EXCEPT ![c] = "closing"]
         /\ UNCHANGED <<connections, executor, gauge>>
    ELSE /\ wire' = [wire EXCEPT ![c] = "open"]
         /\ connections' = connections \cup {c}
         /\ AddConnection(c)
         /\ gauge' = gauge + 1

\* The handler's verdict.  A socket destroyed meanwhile ends it; so do a
\* refusal (401), an exception (500), and a door that is closing (503, from
\* the library) or closed (500: there is no WebSocketServer any more).
AuthDone(c, verdict) ==
    /\ upgrade[c] \in {"auth", "timedOut", "gone"}
    /\ upgrade' = [upgrade EXCEPT ![c] = "over"]
    /\ IF upgrade[c] = "auth" /\ verdict = "yes" /\ door = "up"
       THEN Welcome(c)
       ELSE UNCHANGED <<wire, connections, executor, gauge>>
    /\ UNCHANGED <<door, now, limitVars, frameVars>>

-----------------------------------------------------------------------------
(* The life of a WebSocket, and the end of the server. *)

PeerLeaves(c) ==
    /\ wire[c] = "open"
    /\ wire' = [wire EXCEPT ![c] = "closing"]
    /\ UNCHANGED <<door, upgrade, connections, executor, gauge, now, limitVars, frameVars>>

\* MetricsCollector.decrement stops at zero.
Decrement(n) == IF n > 0 THEN n - 1 ELSE 0

\* The close event.  Only an admitted connection has a handler for it.
Closed(c) ==
    /\ wire[c] = "closing"
    /\ wire' = [wire EXCEPT ![c] = "closed"]
    /\ connections' = connections \ {c}
    /\ RemoveConnection(c)
    /\ gauge' = IF c \in connections THEN Decrement(gauge) ELSE gauge
    /\ UNCHANGED <<door, upgrade, now, limitVars, frameVars>>

\* WsServer.stop, up to its await: 1001 to every client.
PatientStop ==  \* mutation of Stop: it waits for the clients to leave
    /\ door = "up"
    /\ door' = "stopping"
    /\ UNCHANGED <<upgrade, wire, connections, executor, gauge, now, limitVars, frameVars>>

Stop ==
    /\ door = "up"
    /\ door' = "stopping"
    /\ wire' = [c \in Conns |-> IF wire[c] = "open" THEN "closing" ELSE wire[c]]
    /\ UNCHANGED <<upgrade, connections, executor, gauge, now, limitVars, frameVars>>

\* After the await: the last client has gone.  ServerTransport.close and
\* DatasoleServer.close drop what is left.
HastyStopped ==  \* mutation of Stopped: the clients are not awaited
    /\ door = "stopping"
    /\ door' = "stopped"
    /\ connections' = {} /\ executor' = {}
    /\ UNCHANGED <<upgrade, wire, gauge, now, limitVars, frameVars>>

Stopped ==
    /\ door = "stopping"
    /\ \A c \in Conns : wire[c] \notin {"open", "closing"}
    /\ door' = "stopped"
    /\ connections' = {} /\ executor' = {}
    /\ UNCHANGED <<upgrade, wire, gauge, now, limitVars, frameVars>>

-----------------------------------------------------------------------------
(* A frame in the pipeline. *)

Tick ==
    /\ now < MaxNow
    /\ now' = now + 1
    /\ UNCHANGED <<doorVars, limitVars, frameVars>>

\* The message event, through the interceptors to the limiter's get.
Arrive(f, c, k) ==
    /\ stage[f] = "new"
    /\ c \in connections /\ wire[c] = "open"
    /\ stage' = [stage EXCEPT ![f] = "get"]
    /\ from' = [from EXCEPT ![f] = c] /\ kind' = [kind EXCEPT ![f] = k]
    /\ born' = [born EXCEPT ![f] = now]
    /\ seen' = [seen EXCEPT ![f] = store[c]]
    /\ overlapped' = IF \E g \in Frames : from[g] = c /\ stage[g] \in InLimiter
                     THEN overlapped \cup {c} ELSE overlapped
    /\ UNCHANGED <<doorVars, now, limitVars, window, reply, swallowed, passed>>

\* getOrCreate: the window that was stored, or a new one if it has ended.
GetOrCreate(f) ==
    LET c == from[f]
        usable == seen[f] # 0 /\ born[f] < heap[seen[f]].resetAt
    IN  /\ stage[f] = "get"
        /\ stage' = [stage EXCEPT ![f] = "have"]
        /\ IF usable
           THEN /\ window' = [window EXCEPT ![f] = seen[f]]
                /\ UNCHANGED limitVars
           ELSE /\ heap' = Append(heap, [count |-> 0, resetAt |-> born[f] + WindowMs])
                /\ store' = [store EXCEPT ![c] = Len(heap')]
                /\ window' = [window EXCEPT ![f] = Len(heap')]
        /\ UNCHANGED <<doorVars, now, from, kind, born, seen, reply, swallowed, passed,
                       overlapped>>

\* consume, up to the save.
ConsumeTwo(f) ==  \* mutation of Consume: the cost is added twice
    /\ stage[f] = "have"
    /\ stage' = [stage EXCEPT ![f] = "saved"]
    /\ heap' = [heap EXCEPT ![window[f]].count = @ + 2]
    /\ store' = [store EXCEPT ![from[f]] = window[f]]
    /\ UNCHANGED <<doorVars, now, from, kind, born, seen, window, reply, swallowed,
                   passed, overlapped>>

Consume(f) ==
    /\ stage[f] = "have"
    /\ stage' = [stage EXCEPT ![f] = "saved"]
    /\ heap' = [heap EXCEPT ![window[f]].count = @ + 1]
    /\ store' = [store EXCEPT ![from[f]] = window[f]]
    /\ UNCHANGED <<doorVars, now, from, kind, born, seen, window, reply, swallowed,
                   passed, overlapped>>

\* A send on a socket that is not open is lost.
Send(f, answer) ==
    reply' = IF wire[from[f]] = "open" THEN [reply EXCEPT ![f] = answer] ELSE reply

BelowQuota(f) == heap[window[f]].count < MaxRequests  \* mutation of Allowed
Allowed(f) == heap[window[f]].count <= MaxRequests

\* AsyncExecutor.dispatch drops the frame of a connection it no longer knows;
\* FrameRouter.dispatch takes it to the handler of its opcode, and only that of
\* a call has something to wait for.
Routed(f) == IF kind[f] = "call" THEN "handling" ELSE "done"
Dispatched(f) == IF from[f] \in executor THEN Routed(f) ELSE "done"

\* After the save: the executor, or the refusal.
Judge(f) ==
    /\ stage[f] = "saved"
    /\ IF Allowed(f)
       THEN /\ passed' = passed \cup {f}
            /\ stage' = [stage EXCEPT ![f] = Dispatched(f)]
            /\ UNCHANGED reply
       ELSE /\ stage' = [stage EXCEPT ![f] = "done"]
            /\ IF from[f] \in connections THEN Send(f, "limited") ELSE UNCHANGED reply
            /\ UNCHANGED passed
    /\ UNCHANGED <<doorVars, now, limitVars, from, kind, born, seen, window, swallowed,
                   overlapped>>

\* RpcDispatcher.dispatch comes back: a result, or the error of a handler that
\* threw or is not registered.  Either may be too long for a frame, or a result
\* may not serialize: sendToConnection swallows that exception.
Thrown(f, outcome, encodes) ==  \* mutation of Finish: an exception is not answered
    /\ stage[f] = "handling"
    /\ stage' = [stage EXCEPT ![f] = "done"]
    /\ IF outcome = "result" THEN Send(f, outcome) ELSE UNCHANGED reply
    /\ UNCHANGED <<doorVars, now, limitVars, from, kind, born, seen, window,
                   swallowed, passed, overlapped>>

Finish(f, outcome, encodes) ==
    /\ stage[f] = "handling"
    /\ stage' = [stage EXCEPT ![f] = "done"]
    /\ IF encodes THEN Send(f, outcome) /\ UNCHANGED swallowed
                  ELSE swallowed' = swallowed \cup {f} /\ UNCHANGED reply
    /\ UNCHANGED <<doorVars, now, limitVars, from, kind, born, seen, window,
                   passed, overlapped>>

-----------------------------------------------------------------------------
Next ==
    \/ \E c \in Conns : BeginUpgrade(c)
    \/ \E c \in Conns : AuthTimeout(c)
    \/ \E c \in Conns : ClientGone(c)
    \/ \E c \in Conns, verdict \in {"yes", "no", "throws"} : AuthDone(c, verdict)
    \/ \E c \in Conns : PeerLeaves(c)
    \/ \E c \in Conns : Closed(c)
    \/ Stop
    \/ Stopped
    \/ Tick
    \/ \E f \in Frames, c \in Conns, k \in {"call", "oneway"} : Arrive(f, c, k)
    \/ \E f \in Frames : GetOrCreate(f)
    \/ \E f \in Frames : Consume(f)
    \/ \E f \in Frames : Judge(f)
    \/ \E f \in Frames, outcome \in {"result", "error"}, encodes \in BOOLEAN :
           Finish(f, outcome, encodes)

\* A WebSocket told to close is closed (the library destroys it after 30 s),
\* and close() resumes when it may.  Nothing is assumed of the clients, nor that
\* an authentication handler ever answers.
Fairness == (\A c \in Conns : WF_vars(Closed(c))) /\ WF_vars(Stopped)

Spec == Init /\ [][Next]_vars /\ Fairness

-----------------------------------------------------------------------------
(* Properties. *)

\* However many authentications end together, the admitted connections never
\* exceed maxConnections: the limit is tested when the connection enters.
CapHolds == Cardinality(connections) <= MaxConnections

\* The gauge counts the connections, and the executor knows exactly them,
\* through refusals at the limit, departures and shutdown.
GaugeIsHonest == gauge = Cardinality(connections) /\ executor = connections

\* DatasoleServer.close: when the transport has closed no WebSocket is left
\* open and the gauge is back at zero.
StoppedIsEmpty ==
    door = "stopped" => /\ gauge = 0
                        /\ \A c \in Conns : wire[c] \in {"none", "closed"}

\* The accounts of connections agree while the transport runs and balance when
\* it has closed.
AccountsBalance == GaugeIsHonest /\ StoppedIsEmpty

\* When the frames of a connection reach the limiter one at a time, each window
\* lets exactly its first maxRequests frames through.
Judged(f) == stage[f] \in {"handling", "done"}
SerialQuota ==
    \A w \in DOMAIN heap :
        LET frames == {f \in Frames : window[f] = w /\ Judged(f)}
            quota == IF Cardinality(frames) < MaxRequests
                     THEN Cardinality(frames) ELSE MaxRequests
        IN  (\A f \in Frames : window[f] = w => from[f] \notin overlapped)
                => Cardinality(frames \cap passed) = quota

\* A call that has been processed is answered, by the limiter if it refused
\* the frame and by the dispatcher if it let it through, unless its connection
\* has closed or the answer could not be encoded (protocol-adapter.ts:80-90): no
\* path through the limiter, the executor or the dispatcher loses it.
AnsweredUnlessGone ==
    \A f \in Frames :
        /\ stage[f] = "done" /\ kind[f] = "call" /\ wire[from[f]] = "open"
        /\ f \notin swallowed
        => reply[f] \in (IF f \in passed THEN {"result", "error"} ELSE {"limited"})

\* close() comes to an end, whatever the clients do.
ShutdownFinishes == door = "stopping" ~> door = "stopped"
=============================================================================
