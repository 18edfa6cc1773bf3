------------------------------- MODULE Events -------------------------------
(***************************************************************************)
(* One event over the servers that share a backend, each with its EventBus *)
(* and the browser page connected to it: the chat room of the docs.  Pages *)
(* and servers emit the event; on each server a handler, Relay, passes     *)
(* what it hears on to the page (ServerEventFanout.broadcast), and other   *)
(* handlers only listen.  What Relay passes on is published as well, under *)
(* a name no server listens for, and nothing comes of that.                *)
(*                                                                         *)
(* The memory backend knows its own server only and calls subscribers      *)
(* before publish returns.  Redis and Postgres bring a publication to every *)
(* server that listens, some time later: Redis once a subscription to the  *)
(* channel is up, Postgres once its connection is.  Publishing before the  *)
(* backend is connected is a rejection nobody handles, which ends the      *)
(* process.  Links do not fail once they are up.                           *)
(***************************************************************************)
EXTENDS Naturals, SequencesExt

CONSTANTS Servers,     \* server processes, one page connected to each
          Handlers,    \* functions the application may register
          Relay,       \* the one that passes events on to the page
          Backends,    \* what the servers may be configured with
          MaxEvents,   \* bound: events emitted
          MaxChanges   \* bound: registrations, removals and destructions

ASSUME RelayIsHandler == Relay \in Handlers
ASSUME BackendsAreKnown == Backends \subseteq {"memory", "redis", "postgres"}
ASSUME EventBoundsAreNat == MaxEvents \in Nat /\ MaxChanges \in Nat

VARIABLES
    backend,    \* constant
    alive,      \* the process runs
    link,       \* connection to the backend: "pool" is Postgres before LISTEN
    ear,        \* Redis' subscription to the event's channel
    entry,      \* the bus has a set of handlers for the event
    handlers,   \* that set
    taps,       \* the bus's listeners with the backend
    attached,   \* the page is connected
    listening,  \* the page has a handler for the event
    out,        \* publications on their way to the backend
    wire,       \* publications on their way from the backend
    down,       \* events on their way to the page
    emitter,    \* history: which server each event was emitted at
    heard,      \* history: events each handler was called with
    shown,      \* history: events the page's handler was called with
    owed,       \* history: who was registered and within hearing of each event
    changes     \* history: registrations, removals and destructions

busVars == <<entry, handlers, taps>>
pageVars == <<attached, listening, shown>>
eventVars == <<backend, alive, link, ear, busVars, pageVars, out, wire, down,
          emitter, heard, owed, changes>>

Events == 1..MaxEvents

EventsTypeOK ==
    /\ backend \in Backends
    /\ alive \in [Servers -> BOOLEAN]
    /\ link \in [Servers -> {"none", "pool", "up"}]
    /\ ear \in [Servers -> {"none", "asked", "open"}]
    /\ entry \in [Servers -> BOOLEAN]
    /\ handlers \in [Servers -> SUBSET Handlers]
    /\ taps \in [Servers -> {0, 1}]
    /\ attached \in [Servers -> BOOLEAN]
    /\ listening \in [Servers -> BOOLEAN]
    /\ out \in [Servers -> Seq(Events)]
    /\ wire \in [Servers -> Seq(Events)]
    /\ down \in [Servers -> Seq(Events)]
    /\ emitter \in Seq(Servers) /\ Len(emitter) <= MaxEvents
    /\ heard \in [Servers -> [Handlers -> Seq(Events)]]
    /\ shown \in [Servers -> Seq(Events)]
    /\ owed \in [Servers -> SUBSET (Handlers \X Events)]
    /\ changes \in 0..MaxChanges

EventsInit ==
    /\ backend \in Backends
    /\ alive = [s \in Servers |-> TRUE]
    /\ link = [s \in Servers |-> IF backend = "memory" THEN "up" ELSE "none"]
    /\ ear = [s \in Servers |-> "none"]
    /\ entry = [s \in Servers |-> FALSE]
    /\ handlers = [s \in Servers |-> {}]
    /\ taps = [s \in Servers |-> 0]
    /\ attached = [s \in Servers |-> FALSE]
    /\ listening = [s \in Servers |-> TRUE]
    /\ out = [s \in Servers |-> <<>>] /\ wire = [s \in Servers |-> <<>>]
    /\ down = [s \in Servers |-> <<>>]
    /\ emitter = <<>>
    /\ heard = [s \in Servers |-> [h \in Handlers |-> <<>>]]
    /\ shown = [s \in Servers |-> <<>>]
    /\ owed = [s \in Servers |-> {}]
    /\ changes = 0

-----------------------------------------------------------------------------
(* The backend. *)

\* RedisBackend.connect has both its clients at once; PostgresBackend.connect
\* has its pool first and listens some round trips later.
Connect(s) ==
    /\ alive[s] /\ link[s] # "up"
    /\ link' = [link EXCEPT ![s] =
                   IF backend = "postgres" /\ @ = "none" THEN "pool" ELSE "up"]
    /\ UNCHANGED <<backend, alive, ear, busVars, pageVars, out, wire, down,
                   emitter, heard, owed, changes>>

\* subscribe: one more listener, called for every publication that arrives.
Tap(s) == taps' = [taps EXCEPT ![s] = @ + 1]

\* Redis is asked once per channel, through a subscriber that is there.
Ask(s) ==
    IF backend = "redis" /\ ear[s] = "none" /\ link[s] = "up"
    THEN ear' = [ear EXCEPT ![s] = "asked"]
    ELSE UNCHANGED ear

Subscribed(s) ==
    /\ alive[s] /\ ear[s] = "asked"
    /\ ear' = [ear EXCEPT ![s] = "open"]
    /\ UNCHANGED <<backend, alive, link, busVars, pageVars, out, wire, down,
                   emitter, heard, owed, changes>>

\* A publication of server t reaches server s.
WithinHearing(s, t) ==
    /\ alive[s]
    /\ CASE backend = "memory" -> s = t
         [] backend = "redis" -> ear[s] = "open"
         [] backend = "postgres" -> link[s] = "up"

\* The backend takes a publication and sends it to all that listen.  Redis has
\* one connection per publisher; Postgres a pool of them, which may change the
\* order.
Take(t, k) ==
    /\ k \in DOMAIN out[t] /\ (backend = "redis" => k = 1)
    /\ wire' = [s \in Servers |-> IF WithinHearing(s, t)
                                THEN Append(wire[s], out[t][k]) ELSE wire[s]]
    /\ out' = [out EXCEPT ![t] = RemoveAt(@, k)]
    /\ UNCHANGED <<backend, alive, link, ear, busVars, pageVars, down, emitter,
                   heard, owed, changes>>

-----------------------------------------------------------------------------
(* The bus of a server. *)

\* ServerEventFanout.broadcast, called by Relay: to the connections there are.
PassOn(s, events) ==
    down' = IF attached[s] THEN [down EXCEPT ![s] = @ \o events] ELSE down

\* The backend calls each of the bus's listeners, and that each handler.
Hear(s, e) ==
    LET calls == [k \in 1..taps[s] |-> e]
    IN  /\ heard' = [heard EXCEPT ![s] = [h \in Handlers |->
                        IF h \in handlers[s] THEN @[h] \o calls ELSE @[h]]]
        /\ IF Relay \in handlers[s] THEN PassOn(s, calls) ELSE UNCHANGED down

Deliver(s) ==
    /\ wire[s] # <<>>
    /\ Hear(s, Head(wire[s]))
    /\ wire' = [wire EXCEPT ![s] = Tail(@)]
    /\ UNCHANGED <<backend, alive, link, ear, busVars, pageVars, out, emitter,
                   owed, changes>>

SubscribeAgain(s, h) ==  \* mutation of On: one listener per handler
    /\ alive[s] /\ h \notin handlers[s]
    /\ changes < MaxChanges /\ changes' = changes + 1
    /\ handlers' = [handlers EXCEPT ![s] = @ \cup {h}]
    /\ entry' = [entry EXCEPT ![s] = TRUE]
    /\ Tap(s) /\ Ask(s)
    /\ UNCHANGED <<backend, alive, link, pageVars, out, wire, down, emitter,
                   heard, owed>>

\* The first handler brings the one subscription of the bus.
On(s, h) ==
    /\ alive[s] /\ h \notin handlers[s]
    /\ changes < MaxChanges /\ changes' = changes + 1
    /\ handlers' = [handlers EXCEPT ![s] = @ \cup {h}]
    /\ entry' = [entry EXCEPT ![s] = TRUE]
    /\ IF entry[s] THEN UNCHANGED <<taps, ear>>
       ELSE Tap(s) /\ Ask(s)
    /\ UNCHANGED <<backend, alive, link, pageVars, out, wire, down, emitter,
                   heard, owed>>

\* The set stays, empty or not, and so does the subscription.
Off(s, h) ==
    /\ alive[s] /\ h \in handlers[s]
    /\ changes < MaxChanges /\ changes' = changes + 1
    /\ handlers' = [handlers EXCEPT ![s] = @ \ {h}]
    /\ owed' = [owed EXCEPT ![s] = {p \in @ : p[1] # h}]
    /\ UNCHANGED <<backend, alive, link, ear, entry, taps, pageVars, out, wire,
                   down, emitter, heard>>

TappedDestroyBus(s) ==  \* mutation of DestroyBus: the subscription is kept
    /\ alive[s] /\ entry[s]
    /\ changes < MaxChanges /\ changes' = changes + 1
    /\ entry' = [entry EXCEPT ![s] = FALSE]
    /\ handlers' = [handlers EXCEPT ![s] = {}]
    /\ taps' = taps
    /\ owed' = [owed EXCEPT ![s] = {}]
    /\ UNCHANGED <<backend, alive, link, ear, pageVars, out, wire, down,
                   emitter, heard>>

\* The backend's own subscription stays; a bus may be used again.
DestroyBus(s) ==
    /\ alive[s] /\ entry[s]
    /\ changes < MaxChanges /\ changes' = changes + 1
    /\ entry' = [entry EXCEPT ![s] = FALSE]
    /\ handlers' = [handlers EXCEPT ![s] = {}]
    /\ taps' = [taps EXCEPT ![s] = 0]
    /\ owed' = [owed EXCEPT ![s] = {}]
    /\ UNCHANGED <<backend, alive, link, ear, pageVars, out, wire, down,
                   emitter, heard>>

-----------------------------------------------------------------------------
(* Emission. *)

\* An unhandled rejection: the process is gone.
Die(s) ==
    /\ alive' = [alive EXCEPT ![s] = FALSE]
    /\ entry' = [entry EXCEPT ![s] = FALSE]
    /\ handlers' = [handlers EXCEPT ![s] = {}]
    /\ taps' = [taps EXCEPT ![s] = 0]
    /\ attached' = [attached EXCEPT ![s] = FALSE]
    /\ UNCHANGED <<heard, down, out, owed>>

\* EventBus.emit.
Emit(s) ==
    LET e == Len(emitter) + 1
    IN  /\ alive[s] /\ e <= MaxEvents
        /\ emitter' = Append(emitter, s)
        /\ IF link[s] = "none" THEN Die(s)
           ELSE /\ owed' = [t \in Servers |->
                               IF WithinHearing(t, s)
                               THEN owed[t] \cup (handlers[t] \X {e})
                               ELSE owed[t]]
                /\ IF backend = "memory"
                   THEN Hear(s, e) /\ UNCHANGED out
                   ELSE /\ out' = [out EXCEPT ![s] = Append(@, e)]
                        /\ UNCHANGED <<heard, down>>
                /\ UNCHANGED <<alive, busVars, attached>>
        /\ UNCHANGED <<backend, link, ear, listening, shown, wire, changes>>

\* The page's emit throws unless it has a transport; its EVENT_C2S frame, if
\* the name is not too long, is emitted on the server.
HasTransport(s) == attached[s]
PageEmits(s) == HasTransport(s) /\ Emit(s)

-----------------------------------------------------------------------------
(* The page. *)

\* Once: a page that comes back is another page.
PageConnects(s) ==
    /\ alive[s] /\ ~attached[s] /\ shown[s] = <<>>
    /\ attached' = [attached EXCEPT ![s] = TRUE]
    /\ UNCHANGED <<backend, alive, link, ear, busVars, listening, shown, out,
                   wire, down, emitter, heard, owed, changes>>

\* The page closes its connection, or close() of the server does; what is in
\* flight is lost.
PageLeaves(s) ==
    /\ attached[s]
    /\ attached' = [attached EXCEPT ![s] = FALSE]
    /\ down' = [down EXCEPT ![s] = <<>>]
    /\ UNCHANGED <<backend, alive, link, ear, busVars, listening, shown, out,
                   wire, emitter, heard, owed, changes>>

PageOn(s) ==
    /\ ~listening[s]
    /\ changes < MaxChanges /\ changes' = changes + 1
    /\ listening' = [listening EXCEPT ![s] = TRUE]
    /\ UNCHANGED <<backend, alive, link, ear, busVars, attached, shown, out,
                   wire, down, emitter, heard, owed>>

PageOff(s) ==
    /\ listening[s]
    /\ changes < MaxChanges /\ changes' = changes + 1
    /\ listening' = [listening EXCEPT ![s] = FALSE]
    /\ UNCHANGED <<backend, alive, link, ear, busVars, attached, shown, out,
                   wire, down, emitter, heard, owed>>

Show(s) ==
    /\ down[s] # <<>>
    /\ shown' = IF listening[s]
                THEN [shown EXCEPT ![s] = Append(@, Head(down[s]))]
                ELSE shown
    /\ down' = [down EXCEPT ![s] = Tail(@)]
    /\ UNCHANGED <<backend, alive, link, ear, busVars, attached, listening,
                   out, wire, emitter, heard, owed, changes>>

-----------------------------------------------------------------------------
EventsNext ==
    \/ \E s \in Servers : \/ Connect(s) \/ Subscribed(s)
                          \/ Deliver(s) \/ DestroyBus(s)
                          \/ Emit(s) \/ PageEmits(s)
                          \/ PageConnects(s) \/ PageLeaves(s)
                          \/ PageOn(s) \/ PageOff(s) \/ Show(s)
    \/ \E s \in Servers, k \in Events : Take(s, k)
    \/ \E s \in Servers, h \in Handlers : On(s, h) \/ Off(s, h)

EventsSpec == EventsInit /\ [][EventsNext]_eventVars

-----------------------------------------------------------------------------
(* Properties. *)

\* Handlers and pages, wherever they are, hear no event twice, and what two of
\* them hear they hear in one order; with a backend that has one connection
\* per publisher, the order each server emitted in (event-bus.ts, "works
\* correctly for both MemoryBackend and Redis/Postgres": one subscription per
\* bus however handlers come, go and come back).
Accounts == {heard[s][h] : s \in Servers, h \in Handlers}
                \cup {shown[s] \o down[s] : s \in Servers}
Before(q, d, e) ==
    \E i, j \in DOMAIN q : i < j /\ q[i] = d /\ q[j] = e
OneOrder ==
    /\ \A q \in Accounts : IsInjective(q)
    /\ \A p, q \in Accounts, d, e \in Events :
          ~(Before(p, d, e) /\ Before(q, e, d))
    /\ backend # "postgres" =>
          \A q \in Accounts, d, e \in Events :
              Before(q, e, d) /\ d < e => emitter[d] # emitter[e]

\* An event is not lost on a handler that was registered, on a server within
\* hearing, when it was emitted, and has not been removed since: it has been
\* called, or the event is on its way, to its server or to the backend.
OwedIsOnItsWay ==
    \A s \in Servers : alive[s] => \A p \in owed[s] :
        \/ p[2] \in ToSet(heard[s][p[1]])
        \/ p[2] \in ToSet(wire[s])
        \/ \E t \in Servers : p[2] \in ToSet(out[t])

\* Every handler hears what it is owed, once and in order.
HeardInOrder == OneOrder /\ OwedIsOnItsWay
=============================================================================
