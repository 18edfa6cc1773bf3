-------------------------- MODULE ClientConnection --------------------------
(***************************************************************************)
(* The connection life cycle of DatasoleClient: connect, disconnect, the   *)
(* close callback, the back-off timer and the pending RPC calls that the   *)
(* life cycle must settle.  Both transports are modelled: the direct one   *)
(* (FallbackTransport, a WebSocket on the calling thread) and the worker   *)
(* one (WorkerProxy, a WebSocket inside a terminable Worker).              *)
(*                                                                         *)
(* A link is one FallbackTransport or WorkerProxy with its socket.  The    *)
(* event loop is explicit: `jobs' is the microtask queue, which the await  *)
(* points of connect and disconnect feed; it runs in order and is empty    *)
(* before the next socket event or timer.  Application code may call the   *)
(* client at any moment, from inside a microtask too (a rejected RPC runs  *)
(* its catch handler there).                                               *)
(***************************************************************************)
EXTENDS Naturals, Sequences, FiniteSets

CONSTANTS Links,                 \* identities of links, reused once closed
          Calls,                 \* RPC calls the application makes, each once
          None,                  \* null
          MaxReconnectAttempts,  \* options.maxReconnectAttempts
          Modes,                 \* the kinds of client and application, below
          MaxJobs                \* bound: microtasks queued before a user call

Mode == [worker: BOOLEAN,      \* options.useWorker, and Worker exists
         reconnect: BOOLEAN,   \* options.reconnect
         orderly: BOOLEAN]     \* the application never overlaps its calls

ASSUME LinksFinite == IsFiniteSet(Links)
ASSUME NoneIsNoLink == None \notin Links
ASSUME MaxAttemptsIsNat == MaxReconnectAttempts \in Nat
ASSUME ModesAreModes == Modes \subseteq Mode

VARIABLES
    mode,      \* constant after construction
    state,     \* DatasoleClient.state
    current,   \* DatasoleClient.transport or .workerProxy
    links,     \* where each link is in its life
    sendFn,    \* RpcClient.sendFn is set
    timer,     \* reconnectTimer is armed
    orphans,   \* armed timers whose handle was overwritten
    attempts,  \* reconnectAttempts
    jobs,      \* microtask queue
    intent,    \* what the application asked for last: "up" or "down"
    call,      \* outcome of each RPC call
    sentOn     \* the link a pending call was sent on

netVars == <<current, links>>
timerVars == <<timer, orphans, attempts>>
rpcVars == <<call, sentOn>>
vars == <<mode, state, current, links, sendFn, timer, orphans, attempts, jobs,
          intent, call, sentOn>>

ConnectionState == {"disconnected", "connecting", "connected", "reconnecting"}
LinkState == {"closed", "connecting", "open", "closing"}
CallState == {"idle", "pending", "answered", "timedOut", "sendFailed",
              "connectionClosed"}
Job == [step: {"release", "resume"}, op: {"connect", "disconnect"}]

TypeOK ==
    /\ mode \in Modes
    /\ state \in ConnectionState
    /\ current \in Links \cup {None}
    /\ links \in [Links -> LinkState]
    /\ sendFn \in BOOLEAN
    /\ timer \in BOOLEAN
    /\ orphans \in Nat
    /\ attempts \in 0..MaxReconnectAttempts
    /\ jobs \in Seq(Job)
    /\ intent \in {"up", "down"}
    /\ call \in [Calls -> CallState]
    /\ sentOn \in [Calls -> Links \cup {None}]

Init ==
    /\ mode \in Modes
    /\ state = "disconnected"
    /\ current = None
    /\ links = [l \in Links |-> "closed"]
    /\ sendFn = FALSE
    /\ timer = FALSE
    /\ orphans = 0
    /\ attempts = 0
    /\ jobs = <<>>
    /\ intent = "down"
    /\ call = [c \in Calls |-> "idle"]
    /\ sentOn = [c \in Calls |-> None]

-----------------------------------------------------------------------------
(* What is still going on in the client's name. *)

Live == {l \in Links : links[l] # "closed"}
ConnectJobs == {i \in 1..Len(jobs) : jobs[i].op = "connect"}
Load == Cardinality(Live) + Cardinality(ConnectJobs) + orphans
            + (IF timer THEN 1 ELSE 0)

\* Bound, not code: an overlapping application stops while every link identity
\* is spoken for, and while MaxJobs microtasks wait.
MayConnect ==
    IF mode.orderly THEN Load = 0 /\ jobs = <<>>
                    ELSE Load < Cardinality(Links) /\ Len(jobs) < MaxJobs
MayDisconnect ==
    IF mode.orderly THEN jobs = <<>> ELSE Len(jobs) < MaxJobs

-----------------------------------------------------------------------------
(* RpcClient.clearPending: every pending call rejects, "Connection closed". *)

KeepPending == UNCHANGED rpcVars  \* mutation of ClearPending: forgotten

ClearPending ==
    /\ call' = [c \in Calls |-> IF call[c] = "pending" THEN "connectionClosed"
                                                       ELSE call[c]]
    /\ sentOn' = [c \in Calls |-> None]

(* ws.close() leaves the handlers attached and the close event to come; a   *)
(* terminated worker delivers nothing more.                                 *)
LingeringShut(l) == "closing"  \* mutation of Shut: the worker lives on

Shut(l) ==
    IF mode.worker \/ links[l] = "closed" THEN "closed" ELSE "closing"

KeepTimer == UNCHANGED timer  \* mutation of ClearTimer: forgotten

ClearTimer == timer' = FALSE

(* The part of connect and disconnect before their first await: the clear   *)
(* of the tracked timer and the start of disposeTransport.                  *)
BeginDispose(op) ==
    /\ ClearTimer
    /\ ClearPending
    /\ IF current = None
       THEN /\ jobs' = Append(jobs, [step |-> "resume", op |-> op])
            /\ UNCHANGED links
       ELSE /\ jobs' = Append(jobs, [step |-> "release", op |-> op])
            /\ links' = [links EXCEPT ![current] = Shut(current)]

Connect ==
    /\ MayConnect
    /\ intent' = "up"
    /\ BeginDispose("connect")
    /\ UNCHANGED <<mode, state, current, sendFn, orphans, attempts>>

Disconnect ==
    /\ MayDisconnect
    /\ intent' = "down"
    /\ BeginDispose("disconnect")
    /\ UNCHANGED <<mode, state, current, sendFn, orphans, attempts>>

(* The callback of setTimeout in scheduleReconnect. *)
TimerFires ==
    /\ jobs = <<>>
    /\ timer
    /\ BeginDispose("connect")
    /\ UNCHANGED <<mode, state, current, sendFn, orphans, attempts, intent>>

OrphanTimerFires ==
    /\ jobs = <<>>
    /\ orphans > 0
    /\ orphans' = orphans - 1
    /\ BeginDispose("connect")
    /\ UNCHANGED <<mode, state, current, sendFn, attempts, intent>>

-----------------------------------------------------------------------------
(* Microtasks. *)

(* disposeTransport after its await: the field is nulled, whatever it holds. *)
Release ==
    /\ jobs # <<>>
    /\ Head(jobs).step = "release"
    /\ current' = None
    /\ jobs' = Append(Tail(jobs), [step |-> "resume", op |-> Head(jobs).op])
    /\ UNCHANGED <<mode, state, links, sendFn, timerVars, intent, rpcVars>>

ResumeDisconnect ==
    /\ jobs # <<>>
    /\ Head(jobs) = [step |-> "resume", op |-> "disconnect"]
    /\ state' = "disconnected"
    /\ jobs' = Tail(jobs)
    /\ UNCHANGED <<mode, netVars, sendFn, timerVars, intent, rpcVars>>

(* connectDirect or connectViaWorker up to its await.  Constructing the     *)
(* Worker may throw: connect rejects and the proxy stays in place.          *)
ResumeConnect ==
    /\ jobs # <<>>
    /\ Head(jobs) = [step |-> "resume", op |-> "connect"]
    /\ state' = "connecting"
    /\ sendFn' = TRUE
    /\ jobs' = Tail(jobs)
    /\ \E l \in Links :
          /\ links[l] = "closed"
          /\ current' = l
          /\ \/ links' = [links EXCEPT ![l] = "connecting"]
             \/ mode.worker /\ UNCHANGED links
    /\ UNCHANGED <<mode, timerVars, intent, rpcVars>>

-----------------------------------------------------------------------------
(* Socket events. *)

(* The open event and the continuations it resolves, up to the end of the   *)
(* connect call that owns l.                                                *)
OnOpen(l) ==
    /\ jobs = <<>>
    /\ links[l] = "connecting"
    /\ links' = [links EXCEPT ![l] = "open"]
    /\ state' = "connected"
    /\ attempts' = 0
    /\ UNCHANGED <<mode, current, sendFn, timer, orphans, jobs, intent, rpcVars>>

(* The handshake fails (connect rejects) or the peer or network drops an    *)
(* open socket; the close event is still to come.                           *)
Drop(l) ==
    /\ links[l] \in {"connecting", "open"}
    /\ links' = [links EXCEPT ![l] = "closing"]
    /\ UNCHANGED <<mode, state, current, sendFn, timerVars, jobs, intent, rpcVars>>

ScheduleUncounted ==  \* mutation of ScheduleReconnect: attempts kept
    /\ state' = "reconnecting"
    /\ timer' = TRUE
    /\ UNCHANGED <<attempts, orphans>>

(* The handle of a timer that is still armed is overwritten, not cleared.   *)
ScheduleReconnect ==
    /\ state' = "reconnecting"
    /\ attempts' = attempts + 1
    /\ timer' = TRUE
    /\ orphans' = IF timer THEN orphans + 1 ELSE orphans

MayRetryOnceMore ==   \* mutation of MayRetry: off by one
    mode.reconnect /\ attempts <= MaxReconnectAttempts

MayRetry == mode.reconnect /\ attempts < MaxReconnectAttempts

(* The onClose handler that connectDirect and connectViaWorker install. *)
OnClose(l) ==
    /\ jobs = <<>>
    /\ links[l] = "closing"
    /\ links' = [links EXCEPT ![l] = "closed"]
    /\ ClearPending
    /\ IF MayRetry
       THEN ScheduleReconnect
       ELSE state' = "disconnected" /\ UNCHANGED timerVars
    /\ UNCHANGED <<mode, current, sendFn, jobs, intent>>

-----------------------------------------------------------------------------
(* RPC calls. *)

Settle(c, outcome) ==
    /\ call' = [call EXCEPT ![c] = outcome]
    /\ sentOn' = [sentOn EXCEPT ![c] = None]

Await(c, l) ==
    /\ call' = [call EXCEPT ![c] = "pending"]
    /\ sentOn' = [sentOn EXCEPT ![c] = l]

CurrentIsOpen == current # None /\ links[current] = "open"

(* RpcClient.call.  Without a transport field the send function does        *)
(* nothing; a direct socket that is not open throws; a worker accepts the   *)
(* message and its socket drops it.                                         *)
Rpc(c) ==
    /\ call[c] = "idle"
    /\ \/ ~sendFn /\ Settle(c, "sendFailed")
       \/ sendFn /\ CurrentIsOpen /\ Await(c, current)
       \/ sendFn /\ ~CurrentIsOpen /\ current # None /\ ~mode.worker
            /\ Settle(c, "sendFailed")
       \/ sendFn /\ ~CurrentIsOpen /\ (current = None \/ mode.worker)
            /\ Await(c, None)
    /\ UNCHANGED <<mode, state, netVars, sendFn, timerVars, jobs, intent>>

(* RpcClient.handleResponse for a response that arrives on the call's link. *)
Respond(c) ==
    /\ jobs = <<>>
    /\ call[c] = "pending"
    /\ sentOn[c] # None
    /\ Settle(c, "answered")
    /\ UNCHANGED <<mode, state, netVars, sendFn, timerVars, jobs, intent>>

SentRpcTimeout(c) ==  \* mutation of RpcTimeout: armed only after a send
    /\ jobs = <<>>
    /\ call[c] = "pending" /\ sentOn[c] # None
    /\ Settle(c, "timedOut")
    /\ UNCHANGED <<mode, state, netVars, sendFn, timerVars, jobs, intent>>

RpcTimeout(c) ==
    /\ jobs = <<>>
    /\ call[c] = "pending"
    /\ Settle(c, "timedOut")
    /\ UNCHANGED <<mode, state, netVars, sendFn, timerVars, jobs, intent>>

-----------------------------------------------------------------------------

Next ==
    \/ Connect \/ Disconnect \/ TimerFires \/ OrphanTimerFires
    \/ Release \/ ResumeDisconnect \/ ResumeConnect
    \/ \E l \in Links : OnOpen(l) \/ Drop(l) \/ OnClose(l)
    \/ \E c \in Calls : Rpc(c) \/ Respond(c) \/ RpcTimeout(c)

Microtask == Release \/ ResumeDisconnect \/ ResumeConnect

(* The event loop runs microtasks, fires timers and delivers close events;  *)
(* a handshake has an outcome.  Nothing obliges the application or the      *)
(* server to act.                                                           *)
Fairness ==
    /\ WF_vars(Microtask)
    /\ WF_vars(TimerFires)
    /\ WF_vars(OrphanTimerFires)
    /\ \A l \in Links : /\ WF_vars(OnClose(l))
                        /\ WF_vars(OnOpen(l) \/ (links[l] = "connecting" /\ Drop(l)))
    /\ \A c \in Calls : WF_vars(RpcTimeout(c))

Spec == Init /\ [][Next]_vars
FairSpec == Spec /\ Fairness

-----------------------------------------------------------------------------
(* Safety. *)

\* No RPC call is left waiting on a link whose close has been delivered: the
\* close handler and disposeTransport settle every call the link carried, also
\* when several links and continuations overlap.
NoPendingOnDeadLink ==
    \A c \in Calls :
        sentOn[c] # None => call[c] = "pending" /\ links[sentOn[c]] # "closed"

\* The client is never stuck in "reconnecting" with nothing scheduled to leave
\* it: a timer is armed, or a connect or disconnect call is already running.
ReconnectingHasTimer == state = "reconnecting" => timer \/ jobs # <<>>

\* With an application that does not overlap its calls, at most one of a link,
\* an armed timer and a connect call about to open a link exists: timers and
\* close events of one client never race each other.
SingleFlight ==
    mode.orderly =>
        /\ \A l \in Live : Live = {l} /\ ~timer /\ ConnectJobs = {}
        /\ timer => ConnectJobs = {}
        /\ \A i \in ConnectJobs : ConnectJobs = {i}
        /\ orphans = 0

\* getConnectionState does not report a connection that is gone, once the
\* microtasks have run (orderly application).
ConnectedIsTrue ==
    mode.orderly /\ state = "connected" /\ jobs = <<>> =>
        current # None /\ links[current] \in {"open", "closing"}

\* After disconnect() an orderly worker client stays disconnected: no timer, no
\* link, no state change, because a terminated worker reports no close.
WorkerDisconnectSticks ==
    mode.worker /\ mode.orderly /\ intent = "down" /\ jobs = <<>> =>
        state = "disconnected" /\ ~timer /\ Live = {}

\* What getConnectionState reports is true: reconnecting has something behind
\* it, connected a connection, and a worker client that was told to disconnect
\* nothing at all.
StateIsTrue == ReconnectingHasTimer /\ ConnectedIsTrue /\ WorkerDisconnectSticks

\* disconnect() is documented to close the connection and clear all timers
\* (docs/client.md:128, client.ts:116): once it has returned, and until the
\* application asks for a connection again, the client stays disconnected.
DisconnectSticks ==
    intent = "down" /\ jobs = <<>> => state = "disconnected" /\ ~timer

\* "Connection closed" is told of a call in flight only when its own link
\* closes or the application disposes of it (orderly application): the close
\* event of an earlier link never rejects calls made on its successor.
CloseSettlesOwnCallsOnly ==
    [][\A c \in Calls :
          mode.orderly /\ sentOn[c] # None /\ call'[c] = "connectionClosed"
              => links'[sentOn[c]] \in {"closed", "closing"}]_vars

(* Liveness. *)

\* Every RPC call that was made is settled, whatever happens to its link and
\* whether or not it was ever sent.
CallsSettle == \A c \in Calls : call[c] = "pending" ~> call[c] # "pending"

\* Backing off ends: a direct client whose application is orderly is connected
\* again, or gives up after maxReconnectAttempts, or is disconnected.
BackoffEnds ==
    ~mode.worker /\ mode.orderly /\ state = "reconnecting"
        ~> state \in {"connected", "disconnected"}

=============================================================================
