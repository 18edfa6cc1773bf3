------------------------------ MODULE DemoChat ------------------------------
(***************************************************************************)
(* The chat of the demo applications, on the page of DemoPage.  The page   *)
(* emits a message; the server pushes it to its history, of which it keeps *)
(* the newest Limit, makes a copy of the history its live state, and only  *)
(* then broadcasts the message as an event.  React and Vue show the state  *)
(* alone; the vanilla page renders the state and appends what an event     *)
(* brings, unless it has shown that message already.                       *)
(*                                                                         *)
(* The handler of a message is not awaited: a second message taken in      *)
(* while the first one's setState is under way makes its patch from the    *)
(* same stored array.  Handlers pass through the same awaits, so none      *)
(* overtakes an older one.  Messages are numbered as the server takes them *)
(* in; other pages of the demo are the environment.                        *)
(***************************************************************************)
EXTENDS DemoPage

CONSTANT Limit      \* messages the server keeps: 50 in the code

ASSUME LimitIsPositive == Limit \in Nat \ {0}

VARIABLES
    history,    \* the server's chatHistory
    stored,     \* the live state, as the backend holds it
    handling,   \* handlers of messages under way, oldest first
    taken,      \* messages the server has taken in
    uplink,     \* messages of this page on their way to the server
    wire,       \* frames of the chat on their way to the page
    mirror,     \* the client's StateStore for the live state
    list,       \* the messages shown; the vanilla page has a set of them too
    serial,     \* history: no two handlers have overlapped
    whole,      \* history: the page has lost no patch
    owed        \* history: messages taken in while the page was connected that
                \* it has not shown yet

chatVars == <<history, stored, handling, taken, uplink, wire, mirror, list,
              serial, whole, owed>>
demoVars == <<pageVars, chatVars>>

Messages == 1..MaxInputs
Texts == Seq(Messages)
Stages == <<"store", "ship", "announce">>
Empty == [dom |-> <<>>, seen |-> {}]

ChatTypeOK ==
    /\ PageTypeOK
    /\ history \in Texts /\ Len(history) <= Limit
    /\ stored \in Texts /\ Len(stored) <= Limit
    /\ handling \in Seq([msg : Messages, from : Texts, to : Texts, at : 1..3])
    /\ taken \in 0..MaxInputs
    /\ uplink \in 0..MaxInputs
    /\ wire \in Seq([type : {"patch"}, from : Texts, to : Texts]
                    \union [type : {"event"}, msg : Messages])
    /\ mirror \in Texts
    /\ list \in [dom : Texts, seen : SUBSET Messages]
    /\ serial \in BOOLEAN
    /\ whole \in BOOLEAN
    /\ owed \subseteq Messages

ChatInit ==
    /\ PageInit
    /\ history = <<>> /\ stored = <<>>
    /\ handling = <<>> /\ taken = 0 /\ uplink = 0
    /\ wire = <<>> /\ mirror = <<>> /\ list = Empty
    /\ serial = TRUE /\ whole = TRUE
    /\ owed = {}
-----------------------------------------------------------------------------
(***************************************************************************)
(* The server.                                                             *)
(***************************************************************************)
Unshifted(h, m) ==  \* mutation of Pushed: one message too many
    IF Len(h) <= Limit THEN Append(h, m) ELSE Append(Tail(h), m)

\* chatHistory after push and, when it is too long, shift.
Pushed(h, m) == IF Len(h) < Limit THEN Append(h, m) ELSE Append(Tail(h), m)

\* The handler of ChatSend, as far as setState's first await: MemoryBackend
\* has read the stored array by then.
Take ==
    LET m == taken + 1 IN
    /\ serverUp
    /\ taken' = m
    /\ history' = Pushed(history, m)
    /\ handling' = Append(handling, [msg |-> m, from |-> stored, to |-> history',
                                     at |-> 1])
    /\ serial' = (serial /\ handling = <<>>)
    /\ owed' = IF Linked /\ hooks /\ (whole \/ kind = "vanilla")
               THEN owed \union {m} ELSE owed
    /\ UNCHANGED <<stored, wire, mirror, list, whole>>

\* A handler may go on when the one before it is a step ahead.
Ready(i) == i > 1 => handling[i - 1].at > handling[i].at
Onward(i) == handling' = [handling EXCEPT ![i].at = @ + 1]

\* The backend keeps the copy that setState was given.
StoreState(i) ==
    /\ handling[i].at = 1 /\ Ready(i)
    /\ stored' = handling[i].to
    /\ Onward(i)
    /\ UNCHANGED <<history, taken, uplink, wire, mirror, list, serial, whole,
                   owed>>

\* The patch from the array read to the array given is broadcast, if there
\* is a difference.
Ship(i) ==
    /\ handling[i].at = 2 /\ Ready(i)
    /\ Onward(i)
    /\ IF handling[i].from = handling[i].to THEN UNCHANGED <<wire, whole>>
       ELSE /\ wire' = IF Linked
                       THEN Append(wire, [type |-> "patch",
                                          from |-> handling[i].from,
                                          to |-> handling[i].to])
                       ELSE wire
            /\ whole' = (whole /\ Linked)
    /\ UNCHANGED <<history, stored, taken, uplink, mirror, list, serial, owed>>

\* setState has resolved: the message is broadcast as an event.
Announce(i) ==
    /\ handling[i].at = 3 /\ Ready(i)
    /\ handling' = RemoveAt(handling, i)
    /\ wire' = IF Linked
               THEN Append(wire, [type |-> "event", msg |-> handling[i].msg])
               ELSE wire
    /\ UNCHANGED <<history, stored, taken, uplink, mirror, list, serial, whole,
                   owed>>

\* A message of this page, or of another one, reaches the server.
Arrive == uplink > 0 /\ uplink' = uplink - 1 /\ Take /\ UNCHANGED pageVars
OtherSends ==
    /\ Spend /\ Take
    /\ UNCHANGED <<worldVars, serverUp, ticks, page, linkVars, feed, dash,
                   callVars, uplink>>
Handle(i) ==
    /\ serverUp
    /\ StoreState(i) \/ Ship(i) \/ Announce(i)
    /\ UNCHANGED pageVars
-----------------------------------------------------------------------------
(***************************************************************************)
(* The page.                                                               *)
(***************************************************************************)
\* A diff of arrays replaces, from the last index to the first, what differs
\* where both have an element, and adds the rest; what is added beyond the
\* end of an array goes to its end.  A replacement beyond the end throws.
Changed(from, to) ==
    {i \in DOMAIN from \intersect DOMAIN to : from[i] # to[i]}

Patched(m, from, to) ==
    LET Replaced == [i \in DOMAIN m |->
                       IF i \in Changed(from, to) THEN to[i] ELSE m[i]]
        Added == SubSeq(to, Len(from) + 1, Len(to))
    IN IF Len(m) <= Len(from) THEN Replaced \o Added
       ELSE SubSeq(Replaced, 1, Len(from)) \o Added
                \o SubSeq(Replaced, Len(from) + 1, Len(m))

Repeated(d, m) ==  \* mutation of AppendMessage: not asked whether it is shown
    [dom |-> Append(d.dom, m), seen |-> d.seen \union {m}]

\* appendMessage and the subscriber of the vanilla page.
AppendMessage(d, m) ==
    IF m \in d.seen THEN d
    ELSE [dom |-> Append(d.dom, m), seen |-> d.seen \union {m}]

VanillaRender(state) ==
    LET drawn[n \in 0..Len(state)] ==
            IF n = 0 THEN Empty ELSE AppendMessage(drawn[n-1], state[n])
    IN  drawn[Len(state)]

\* useDatasoleState of React and of Vue keep what they are given.
ReactState(state, on) == IF on THEN [list EXCEPT !.dom = state] ELSE list
VueState(state, on) == IF on THEN [list EXCEPT !.dom = state] ELSE list

\* StateStore calls its subscribers with the new state.
Notify(state, on) ==
    /\ list' = CASE kind = "vanilla" -> VanillaRender(state)
                 [] kind = "react" -> ReactState(state, on)
                 [] kind = "vue" -> VueState(state, on)
    /\ owed' = owed \ ToSet(list'.dom)

\* A patch that does not fit is dropped whole: the worker's message handler
\* swallows what StateStore.applyPatches throws.
ReceivePatch ==
    LET f == Head(wire) IN
    /\ f.type = "patch"
    /\ IF Changed(f.from, f.to) \subseteq DOMAIN mirror
       THEN mirror' = Patched(mirror, f.from, f.to) /\ Notify(mirror', hooks)
       ELSE UNCHANGED <<mirror, list, owed>>

\* Only the vanilla page has a handler for the event.
ReceiveEvent ==
    LET f == Head(wire) IN
    /\ f.type = "event"
    /\ list' = IF kind = "vanilla" THEN AppendMessage(list, f.msg) ELSE list
    /\ owed' = owed \ ToSet(list'.dom)
    /\ UNCHANGED mirror

Receive ==
    /\ wire # <<>> /\ Linked
    /\ wire' = Tail(wire)
    /\ ReceivePatch \/ ReceiveEvent
    /\ UNCHANGED <<pageVars, history, stored, handling, taken, uplink, serial,
                   whole>>

\* sendChat and send: React and Vue do nothing without a client.  The input
\* is cleared whether or not the worker's socket is open.
CanSend == CASE kind = "vanilla" -> page = "mounted"
             [] kind = "react" -> page = "mounted" /\ hooks
             [] kind = "vue" -> page = "mounted" /\ client # 0

Send ==
    /\ CanSend
    /\ Spend
    /\ uplink' = IF Linked THEN uplink + 1 ELSE uplink
    /\ UNCHANGED <<worldVars, serverUp, ticks, page, linkVars, feed, dash,
                   callVars, history, stored, handling, taken, wire, mirror, list,
                   serial, whole, owed>>

\* What the chat panels show.
ChatView(rows) == [rows |-> rows, count |-> Len(rows)]
VanillaChat == ChatView(list.dom)
ReactChat == ChatView(list.dom)
VueChat == ChatView(list.dom)
-----------------------------------------------------------------------------
(***************************************************************************)
(* The page's steps, with what they do to the chat.                        *)
(***************************************************************************)
\* What the chat has on a connection is lost with it.
LoseChat ==
    /\ wire' = <<>>
    /\ uplink' = 0
    /\ whole' = (whole /\ \A i \in DOMAIN wire : wire[i].type # "patch")
    /\ owed' = {}
    /\ UNCHANGED <<history, stored, handling, taken, mirror, list, serial>>

\* React's useDatasoleState subscribes: the store hands out what it holds.
Subscribe ==
    /\ Notify(mirror, TRUE)
    /\ UNCHANGED <<history, stored, handling, taken, uplink, wire, mirror,
                   serial, whole>>

Leave == (ReactUnmount \/ VueUnmount \/ StopServer) /\ LoseChat
Lose(c) == Cut(c) /\ IF c = client THEN LoseChat ELSE UNCHANGED chatVars
Begin == (VanillaStart \/ ReactMount \/ VueMount) /\ UNCHANGED chatVars
Follow == ReactHooks /\ Subscribe
Connection(c) == (Opened(c) \/ Refused(c) \/ Retry(c)) /\ UNCHANGED chatVars
PanelCalls ==
    /\ \/ \E e \in Entries : Click(e)
       \/ \E q \in asks : Serve(q)
       \/ \E r \in answers : Answered(r)
       \/ Timeout
    /\ UNCHANGED chatVars
Dashboard == (Tick \/ ShowMetrics) /\ UNCHANGED chatVars

ChatNext ==
    \/ Begin \/ Follow \/ Leave
    \/ \E c \in Clients : Connection(c) \/ Lose(c)
    \/ PanelCalls \/ Dashboard
    \/ Send \/ Arrive \/ OtherSends \/ Receive
    \/ \E i \in DOMAIN handling : Handle(i)

\* The browser runs timers and delivers what arrives; React renders again
\* after a change of state; the server's handlers go on.
ChatFairness ==
    /\ WF_demoVars(Timeout /\ UNCHANGED chatVars)
    /\ WF_demoVars(Receive)
    /\ WF_demoVars(Follow)
    /\ WF_demoVars(\E i \in DOMAIN handling : Handle(i))

ChatSpec == ChatInit /\ [][ChatNext]_demoVars /\ ChatFairness
-----------------------------------------------------------------------------
Shown == CASE kind = "vanilla" -> VanillaChat.rows
           [] kind = "react" -> ReactChat.rows
           [] kind = "vue" -> VueChat.rows

\* The history after n messages.
HistoryAt(n) == [i \in 1..(IF n < Limit THEN n ELSE Limit) |->
                    IF n < Limit THEN i ELSE n - Limit + i]

\* A page that lost no patch shows the history as it was at some moment, and
\* as it is once nothing is under way, as long as no two messages are handled
\* at once; and the vanilla page never shows a message twice, whatever patches
\* it lost and however handlers overlap (app.mjs:123, "auto-replaces on every
\* server state change", useDatasole.tsx:77).
PanelShowsHistory ==
    /\ kind = "vanilla" => IsInjective(Shown)
    /\ serial /\ whole /\ hooks =>
          /\ \E n \in 0..taken : Shown = HistoryAt(n)
          /\ handling = <<>> /\ wire = <<>> => Shown = history

\* The dashboard never goes back to older metrics: what is on its way is newer
\* than what is shown (useDatasole.tsx:62).
DashboardIsNewest ==
    \A i \in DOMAIN feed : \A shown \in ToSet(MetricsView) : shown < feed[i]

\* Between calls the RPC panel shows how the last one ended, with its result at
\* the head of the list: an error does not outlive the next success, and an
\* answer that comes after its call has timed out, or belongs to a lost
\* connection, is not shown.  The result is not above the maximum shown with it,
\* and not below the minimum, but for a minimum that is no whole number, which
\* the server rounds down: then it may be less than one below
\* (RpcDemo.tsx:28-47, app.mjs:175-210, index.ts:52).
PanelShowsLastCall ==
    panel.call > 0 /\ ~panel.busy =>
        /\ PanelView.what = (IF last.ok THEN "value" ELSE "error")
        /\ last.ok => /\ PanelView.result = last.result
                      /\ last.result.call = panel.call /\ last.result.fits
                      /\ LogLimit > 0 => Head(PanelView.rows) = last.result

\* What each panel of the page shows is true.
PanelsAreTrue == PanelShowsHistory /\ DashboardIsNewest /\ PanelShowsLastCall

\* A page that has gone leaves nothing behind: no interval, no handler and no
\* connection, except the first of the two clients StrictMode makes, whose
\* disconnect() came before it had anything to close (useDatasole.tsx:32,
\* useDatasole.ts:50).
GoneIsSilent ==
    page = "gone" =>
        /\ polls = {} /\ ~hooks
        /\ \A c \in Clients : ~(strict /\ c = 1) => conn[c] \in {"none", "closed"}

\* The page catches up.  A message the server takes in while the page is
\* connected is shown there, unless the connection goes first; in React and Vue
\* the page must not have lost a patch before (docs/demos.md:22, "for instant
\* delivery").  And the button of the RPC panel comes back: its
\* call is answered, rejected with its connection, or times out (RpcDemo.vue:50).
PageCatchesUp == []<>(owed = {} /\ ~panel.busy)
=============================================================================
