------------------------------ MODULE DemoPage ------------------------------
(***************************************************************************)
(* A page of the demo applications (src/demos): the provider that creates, *)
(* connects and disconnects a DatasoleClient, the metrics dashboard and    *)
(* the panel that calls an RPC method, with the side of the server they    *)
(* talk to.  There are three demos, each a page and a server of its own:   *)
(* plain JavaScript ("vanilla"), React with Express, and Vue with NestJS.  *)
(* The chat is in DemoChat.                                                *)
(*                                                                         *)
(* The client is the default one: its socket lives in a worker, and it     *)
(* reconnects.  ClientConnection models it in full; here it is a state per *)
(* client, and what is sent while its socket is not open is lost without   *)
(* an error, as the worker does.  A page under React's StrictMode runs its *)
(* effects twice, and so makes two clients in one task.                    *)
(***************************************************************************)
EXTENDS Integers, FiniteSets, Sequences, SequencesExt

CONSTANTS Kinds,       \* which demos are explored
          Entries,     \* pairs the user may enter as minimum and maximum, counted
                       \* in halves: a half stands for any fraction
          LogLimit,    \* results the panel keeps: 10 in the code
          MaxInputs    \* bound: inputs of users, ticks and failures

ASSUME KindsAreKnown == Kinds \subseteq {"vanilla", "react", "vue"}
ASSUME EntriesAreInt == Entries \subseteq Int \X Int
ASSUME LimitsAreNat == LogLimit \in Nat /\ MaxInputs \in Nat

\* The demo, its server and the world.
VARIABLES
    kind,       \* constant: which demo this is
    strict,     \* constant: a development build of React under StrictMode
    serverUp,   \* the server has not been stopped
    ticks,      \* times the metrics interval has fired
    inputs      \* inputs that are left

\* The page and its clients.
VARIABLES
    page,       \* "blank", then "mounted", then "gone"
    client,     \* the client the components use, 0 for none
    conn,       \* state of each client's connection
    polls,      \* clients whose state an interval reads for the badge
    hooks       \* the components' handlers are on the current client

\* The panels.
VARIABLES
    feed,       \* metrics events on their way to the page
    dash,       \* the metrics shown, 0 before the first event
    panel,      \* the RPC panel
    asks,       \* its calls on their way to the server
    answers,    \* answers on their way back
    last        \* history: how the last call ended

worldVars == <<kind, strict>>
linkVars == <<client, conn, polls, hooks>>
callVars == <<panel, asks, answers, last>>
pageVars == <<worldVars, serverUp, ticks, inputs, page, linkVars, feed, dash,
              callVars>>

Clients == 1..2
States == {"none", "connecting", "open", "waiting", "lost", "closed"}
\* Of a result the call it answers is kept, and whether it is in the range that
\* is shown with it, as far as that is promised.
Results == [call : 0..MaxInputs, fits : BOOLEAN]
NoResult == [call |-> 0, fits |-> TRUE]

PageTypeOK ==
    /\ kind \in Kinds
    /\ strict \in BOOLEAN
    /\ serverUp \in BOOLEAN
    /\ ticks \in 0..MaxInputs
    /\ inputs \in 0..MaxInputs
    /\ page \in {"blank", "mounted", "gone"}
    /\ client \in 0..2
    /\ conn \in [Clients -> States]
    /\ polls \subseteq Clients
    /\ hooks \in BOOLEAN
    /\ feed \in Seq(1..MaxInputs)
    /\ dash \in 0..MaxInputs
    /\ panel \in [busy : BOOLEAN, error : BOOLEAN, call : 0..MaxInputs,
                 result : Results, log : Seq(Results)]
    /\ Len(panel.log) <= LogLimit
    /\ asks \subseteq [call : 1..MaxInputs, lo : Int, hi : Int]
    /\ answers \subseteq Results
    /\ last \in [ok : BOOLEAN, result : Results]

PageInit ==
    /\ kind \in Kinds
    /\ strict \in (IF kind = "react" THEN BOOLEAN ELSE {FALSE})
    /\ serverUp = TRUE
    /\ ticks = 0
    /\ inputs = MaxInputs
    /\ page = "blank"
    /\ client = 0
    /\ conn = [c \in Clients |-> "none"]
    /\ polls = {}
    /\ hooks = FALSE
    /\ feed = <<>>
    /\ dash = 0
    /\ panel = [busy |-> FALSE, error |-> FALSE, call |-> 0,
                result |-> NoResult, log |-> <<>>]
    /\ asks = {}
    /\ answers = {}
    /\ last = [ok |-> FALSE, result |-> NoResult]

Linked == client # 0 /\ conn[client] = "open"
Spend == inputs > 0 /\ inputs' = inputs - 1
-----------------------------------------------------------------------------
(***************************************************************************)
(* The panel that calls an RPC method.  A record of what its component     *)
(* keeps; the functions say what each demo makes of it when a call starts, *)
(* ends well or is rejected.  The vanilla page has one box for the result  *)
(* and for the error, and leaves it alone while a call runs.               *)
(***************************************************************************)
Newest(r, log) == SubSeq(<<r>> \o log, 1,
                         IF Len(log) < LogLimit THEN Len(log) + 1 ELSE LogLimit)

VanillaCall(p) == [p EXCEPT !.busy = TRUE, !.call = @ + 1]
ReactCall(p) == [p EXCEPT !.busy = TRUE, !.call = @ + 1, !.error = FALSE]
VueCall(p) == [p EXCEPT !.busy = TRUE, !.call = @ + 1, !.error = FALSE]

VanillaSettle(p, ok, r) ==
    IF ok THEN [p EXCEPT !.busy = FALSE, !.error = FALSE, !.result = r,
                         !.log = Newest(r, @)]
          ELSE [p EXCEPT !.busy = FALSE, !.error = TRUE]

ReactSettle(p, ok, r) ==
    IF ok THEN [p EXCEPT !.busy = FALSE, !.result = r, !.log = Newest(r, @)]
          ELSE [p EXCEPT !.busy = FALSE, !.error = TRUE]

BusyVueSettle(p, ok, r) ==  \* mutation of VueSettle: "finally" is left out
    IF ok THEN [p EXCEPT !.busy = FALSE, !.result = r, !.log = Newest(r, @)]
          ELSE [p EXCEPT !.error = TRUE]

VueSettle(p, ok, r) ==
    IF ok THEN [p EXCEPT !.busy = FALSE, !.result = r, !.log = Newest(r, @)]
          ELSE [p EXCEPT !.busy = FALSE, !.error = TRUE]

Called(p) == CASE kind = "vanilla" -> VanillaCall(p)
               [] kind = "react" -> ReactCall(p)
               [] kind = "vue" -> VueCall(p)

Settled(p, ok, r) == CASE kind = "vanilla" -> VanillaSettle(p, ok, r)
                       [] kind = "react" -> ReactSettle(p, ok, r)
                       [] kind = "vue" -> VueSettle(p, ok, r)

\* What the panel shows: the box, the list under it, and whether the button
\* can be pressed.  React and Vue render the error first, then the result.
View(what, p, enabled) ==
    [what |-> what, result |-> p.result, rows |-> p.log, enabled |-> enabled]

VanillaView(p) ==
    View(IF p.error THEN "error"
         ELSE IF p.result = NoResult THEN "prompt" ELSE "value", p, ~p.busy)

ReactView(p) ==
    View(IF p.error THEN "error"
         ELSE IF p.result # NoResult THEN "value" ELSE "prompt",
         p, ~p.busy /\ hooks)

VueView(p) ==
    View(IF p.error THEN "error"
         ELSE IF p.result # NoResult THEN "value" ELSE "prompt",
         p, ~p.busy /\ client # 0)

PanelView == CASE kind = "vanilla" -> VanillaView(panel)
               [] kind = "react" -> ReactView(panel)
               [] kind = "vue" -> VueView(panel)

\* The promise of the running call is settled; the next line of the component
\* runs before anything else can happen on the page.
SettleCall(ok, r) ==
    /\ panel' = Settled(panel, ok, r)
    /\ last' = [ok |-> ok, result |-> r]

\* RpcClient.clearPending rejects the call that waits, if one does.
Reject == IF panel.busy THEN SettleCall(FALSE, NoResult)
          ELSE UNCHANGED <<panel, last>>

\* parseInt and Math.floor, on halves.
ParseInt(x) == IF x >= 0 THEN x \div 2 ELSE -((-x) \div 2)
Floor(x) == x \div 2

\* Minimum and maximum as the page takes them, in order.  The vanilla page parses
\* whole numbers, and a zero is no entry; the others take what was entered.
Entered(e) ==
    IF kind = "vanilla"
    THEN <<IF ParseInt(e[1]) = 0 THEN 2 * 1 ELSE 2 * ParseInt(e[1]),
           IF ParseInt(e[2]) = 0 THEN 2 * 100 ELSE 2 * ParseInt(e[2])>>
    ELSE e
Ordered(e) == IF Entered(e)[1] > Entered(e)[2]
              THEN <<Entered(e)[2], Entered(e)[1]>> ELSE Entered(e)

\* A press of the button, with what the two fields hold.  A request sent
\* while the socket is not open is dropped by the worker.
Click(e) ==
    /\ page = "mounted"
    /\ PanelView.enabled
    /\ Spend
    /\ panel' = Called(panel)
    /\ asks' = IF Linked
               THEN asks \union {[call |-> panel'.call, lo |-> Ordered(e)[1],
                                  hi |-> Ordered(e)[2]]}
               ELSE asks
    /\ UNCHANGED <<worldVars, serverUp, ticks, page, linkVars, feed, dash,
                   answers, last>>

\* What createSeededRandom's int may return.
RandomInt(lo, hi) == IF lo <= hi THEN lo..hi ELSE (hi + 1)..lo

\* What the page shows with a value is the range it asked for.  The value is not
\* above the maximum; it may be below a minimum that is no whole number, by less
\* than one.
Fits(v, q) == q.lo - 2 < 2 * v /\ 2 * v <= q.hi

\* The method's handler on the server rounds both bounds down; its answer is on
\* the way.
Serve(q) ==
    /\ q \in asks /\ serverUp
    /\ asks' = asks \ {q}
    /\ \E v \in RandomInt(Floor(q.lo), Floor(q.hi)) :
          answers' = answers \union {[call |-> q.call, fits |-> Fits(v, q)]}
    /\ UNCHANGED <<worldVars, serverUp, ticks, inputs, page, linkVars, feed,
                   dash, panel, last>>

\* RpcClient.handleResponse: an answer nobody waits for is dropped.
Answered(r) ==
    /\ r \in answers /\ Linked
    /\ answers' = answers \ {r}
    /\ IF panel.busy /\ r.call = panel.call THEN SettleCall(TRUE, r)
                                            ELSE UNCHANGED <<panel, last>>
    /\ UNCHANGED <<worldVars, serverUp, ticks, inputs, page, linkVars, feed,
                   dash, asks>>

\* The timer of RpcClient.call, 30 seconds after the call.
Timeout ==
    /\ panel.busy
    /\ SettleCall(FALSE, NoResult)
    /\ UNCHANGED <<worldVars, serverUp, ticks, inputs, page, linkVars, feed,
                   dash, asks, answers>>
-----------------------------------------------------------------------------
(***************************************************************************)
(* The provider and the connection.                                        *)
(***************************************************************************)
\* The clients a mount makes: StrictMode runs the effect, its cleanup and the
\* effect again.
Effects == IF strict THEN {1, 2} ELSE {1}
Current == IF strict THEN 2 ELSE 1

\* connect() of every client that was made is under way.  The cleanup of the
\* first one ran while its connect() had not made a worker yet, so that
\* disconnect() found nothing to close.
Start(c, on) ==
    /\ page = "blank"
    /\ page' = "mounted"
    /\ client' = c
    /\ conn' = [d \in Clients |-> IF d \in Effects THEN "connecting" ELSE "none"]
    /\ polls' = {c}
    /\ hooks' = on
    /\ UNCHANGED <<worldVars, serverUp, ticks, inputs, feed, dash, callVars>>

\* The script of the vanilla page, from top to bottom.
VanillaStart == kind = "vanilla" /\ Start(1, TRUE)

\* The effect of DatasoleProvider.  Its children's effects have run, without
\* a client; they run again when the provider has rendered with one.
ReactMount == kind = "react" /\ Start(Current, FALSE)

\* onMounted of useDatasole; the watchers in the components run before the
\* next task.
VueMount == kind = "vue" /\ Start(1, TRUE)

\* The effects of useDatasoleEvent and useDatasoleState, with the client.
ReactHooks ==
    /\ kind = "react" /\ page = "mounted" /\ ~hooks
    /\ hooks' = TRUE
    /\ UNCHANGED <<worldVars, serverUp, ticks, inputs, page, client, conn,
                   polls, feed, dash, callVars>>

NoDisconnect(c) == conn' = conn  \* mutation of DisconnectClient: it is not called

\* DatasoleClient.disconnect(): the worker is terminated, the timer cleared.
DisconnectClient(c) == conn' = [conn EXCEPT ![c] = "closed"]

\* What is under way on a connection is lost with it.
LoseFrames(c) ==
    IF c = client THEN feed' = <<>> /\ asks' = {} /\ answers' = {} /\ Reject
    ELSE UNCHANGED <<feed, asks, answers, panel, last>>

Unmount(left) ==
    /\ page = "mounted"
    /\ page' = "gone"
    /\ hooks' = FALSE
    /\ polls' = polls \ {client}
    /\ DisconnectClient(client)
    /\ client' = left
    /\ LoseFrames(client)
    /\ UNCHANGED <<worldVars, serverUp, ticks, inputs, dash>>

\* The cleanup functions of the effects; the context keeps its client.
ReactUnmount == kind = "react" /\ Unmount(client)

\* onUnmounted of the components and of useDatasole, which forgets the client.
VueUnmount == kind = "vue" /\ Unmount(0)

\* The socket opens and connect() resolves.
Opened(c) ==
    /\ serverUp /\ conn[c] = "connecting"
    /\ conn' = [conn EXCEPT ![c] = "open"]
    /\ UNCHANGED <<worldVars, serverUp, ticks, inputs, page, client, polls,
                   hooks, feed, dash, callVars>>

\* The attempt fails: the close event rejects calls and arms the back-off
\* timer, or, when all attempts are used up, leaves the client disconnected.
\* Only a server that stays away uses them up.
Refused(c) ==
    /\ conn[c] = "connecting"
    /\ IF serverUp THEN Spend ELSE UNCHANGED inputs
    /\ \E s \in {"waiting"} \union (IF serverUp THEN {} ELSE {"lost"}) :
          conn' = [conn EXCEPT ![c] = s]
    /\ LoseFrames(c)
    /\ UNCHANGED <<worldVars, serverUp, ticks, page, client, polls,
                   hooks, dash>>

\* The back-off timer calls connect(), which begins with clearPending.
Retry(c) ==
    /\ conn[c] = "waiting"
    /\ conn' = [conn EXCEPT ![c] = "connecting"]
    /\ LoseFrames(c)
    /\ UNCHANGED <<worldVars, serverUp, ticks, inputs, page, client, polls,
                   hooks, dash>>

\* An open connection is lost.
Cut(c) ==
    /\ conn[c] = "open"
    /\ Spend
    /\ conn' = [conn EXCEPT ![c] = "waiting"]
    /\ LoseFrames(c)
    /\ UNCHANGED <<worldVars, serverUp, ticks, page, client, polls,
                   hooks, dash>>

\* DatasoleService.onModuleDestroy: no more metrics, and every connection is
\* closed.
StopServer ==
    /\ kind = "vue" /\ serverUp
    /\ serverUp' = FALSE
    /\ conn' = [c \in Clients |-> IF conn[c] = "open" THEN "waiting" ELSE conn[c]]
    /\ IF Linked THEN LoseFrames(client)
                 ELSE UNCHANGED <<feed, asks, answers, panel, last>>
    /\ UNCHANGED <<worldVars, ticks, inputs, page, client, polls, hooks,
                   dash>>
-----------------------------------------------------------------------------
(***************************************************************************)
(* The dashboard.  Of the metrics the time the server is up is kept.       *)
(***************************************************************************)
\* The metrics interval of the server: an event to every connection.
Tick ==
    /\ serverUp
    /\ Spend
    /\ ticks' = ticks + 1
    /\ feed' = IF Linked THEN Append(feed, ticks') ELSE feed
    /\ UNCHANGED <<worldVars, serverUp, page, linkVars, dash, callVars>>

\* The handler of the vanilla page, and the two hooks.
VanillaMetrics(f) == f
ReactEvent(f) == IF hooks THEN f ELSE dash
VueEvent(f) == IF hooks THEN f ELSE dash

ShowMetrics ==
    /\ feed # <<>> /\ Linked
    /\ feed' = Tail(feed)
    /\ dash' = CASE kind = "vanilla" -> VanillaMetrics(Head(feed))
                 [] kind = "react" -> ReactEvent(Head(feed))
                 [] kind = "vue" -> VueEvent(Head(feed))
    /\ UNCHANGED <<worldVars, serverUp, ticks, inputs, page, linkVars, callVars>>

\* The dashboards: nothing but "Waiting for metrics" before the first event.
Cards == IF dash = 0 THEN <<>> ELSE <<dash>>
VanillaDashboard == Cards
ReactDashboard == Cards
VueDashboard == Cards
MetricsView == CASE kind = "vanilla" -> VanillaDashboard
                 [] kind = "react" -> ReactDashboard
                 [] kind = "vue" -> VueDashboard
=============================================================================
