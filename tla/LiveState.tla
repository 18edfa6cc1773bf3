----------------------------- MODULE LiveState -----------------------------
(***************************************************************************)
(* One key of live state, from setState on the server to the mirrors of    *)
(* the clients.  setState reads the previous document from the backend,    *)
(* stores the new one and hands the difference to the key's SyncChannel,   *)
(* or to the broadcast when there is none; the channel delays and merges   *)
(* patches; each client applies what its connection delivers, in order.    *)
(* The three parts of setState are separate steps, because it awaits the   *)
(* backend between them.                                                   *)
(*                                                                         *)
(* A document is a flat object.  A JSON patch between two of them sets or  *)
(* removes fields, so a patch is the function from the fields it touches   *)
(* to their new values, and patches in a row override one another.         *)
(***************************************************************************)
EXTENDS Naturals, Sequences, FiniteSets, FiniteSetsExt

CONSTANTS Fields, Values,
          Absent,        \* a field the document does not have
          Clients,
          Calls,         \* setState calls that may be in progress together
          Modes,         \* how the application uses the key, below
          MaxBatch,      \* flush.maxBatchSize, in patch operations; for data
                         \* channels its default
          MaxChannels,   \* bound: sync channels created for the key
          MaxWrites      \* bound: documents stored

Mode == [serial: BOOLEAN,     \* each setState is awaited before the next
         recreate: BOOLEAN]   \* the key's sync channel may be created again

ASSUME FieldsFinite == IsFiniteSet(Fields)
ASSUME AbsentIsNoValue == Absent \notin Values
ASSUME MaxBatchPositive == MaxBatch \in Nat \ {0}
ASSUME BoundsAreNat == MaxChannels \in Nat /\ MaxWrites \in Nat
ASSUME ModesAreModes == Modes \subseteq Mode

VARIABLES
    mode,      \* chosen by the application, constant
    store,     \* the backend's document
    call,      \* progress of each setState
    current,   \* the channel registered for the key, 0 if none
    chans,     \* the channels created so far, replaced ones included
    registered,\* ChannelManager has a data channel for the key
    open,      \* the server has not been closed
    link,      \* each client's connection
    inbox,     \* batches on their way to each client
    mirror,    \* each client's StateStore
    \* History, to state the properties with:
    log,       \* the documents the backend has held
    sent,      \* the last document whose patch was broadcast
    seen,      \* the last document whose patch the client applied
    known,     \* the fields patched on the client so far
    trust      \* "full": connected before the first patch and missed none;
               \* "late": connected later; "missed": a batch passed it by

serverVars == <<store, call, log>>
channelVars == <<current, chans, registered, open>>
wireVars == <<inbox, sent, trust>>
clientVars == <<link, mirror, seen, known>>
vars == <<mode, store, call, current, chans, registered, open, link, inbox,
          mirror, log, sent, seen, known, trust>>

-----------------------------------------------------------------------------
(* Documents and patches. *)

Doc == [Fields -> Values \cup {Absent}]
Patch == UNION {[S -> Values \cup {Absent}] : S \in SUBSET Fields}

\* What applyPatch starts from when there is no document yet.
EmptyDoc == [f \in Fields |-> Absent]

Diff(old, new) == [f \in {g \in Fields : old[g] # new[g]} |-> new[f]]

\* Validation never refuses a patch that diff has made of legal field names.
Apply(doc, patch) ==
    [f \in Fields |-> IF f \in DOMAIN patch THEN patch[f] ELSE doc[f]]

EarlierWins(p, q) ==  \* mutation of Compose: merged in the wrong order
    [f \in DOMAIN p \cup DOMAIN q |-> IF f \in DOMAIN p THEN p[f] ELSE q[f]]

Compose(p, q) ==
    [f \in DOMAIN p \cup DOMAIN q |-> IF f \in DOMAIN q THEN q[f] ELSE p[f]]

\* A batch is a list of operations: their effect, their number, and which
\* documents of the log it leads from and to.
Batch == [from: Nat, upto: Nat, patch: Patch, size: Nat]
NoBatch == [from |-> 0, upto |-> 0, patch |-> Diff(EmptyDoc, EmptyDoc),
            size |-> 0]

Merge(b, c) ==
    IF b.size = 0 THEN c
    ELSE [from |-> b.from, upto |-> c.upto,
          patch |-> Compose(b.patch, c.patch), size |-> b.size + c.size]

FlushStrategy == {"immediate", "batched", "debounced"}
Channel == [strategy: FlushStrategy,
            pending: Batch,           \* pendingPatches
            timer: BOOLEAN]           \* flushTimer will fire
SyncChannel(strategy, pending, timer) ==
    [strategy |-> strategy, pending |-> pending, timer |-> timer]

CallState ==
    [step: {"idle"}]
        \cup [step: {"read"}, old: Doc, new: Doc]
        \cup [step: {"written"}, batch: Batch]

TypeOK ==
    /\ mode \in Modes
    /\ store \in Doc
    /\ call \in [Calls -> CallState]
    /\ current \in 0..MaxChannels
    /\ chans \in [1..MaxChannels -> Channel]
    /\ registered \in BOOLEAN /\ open \in BOOLEAN
    /\ link \in [Clients -> {"never", "up", "down"}]
    /\ inbox \in [Clients -> Seq(Batch)]
    /\ mirror \in [Clients -> Doc]
    /\ log \in Seq(Doc) /\ Len(log) \in 1..MaxWrites + 1
    /\ sent \in Nat
    /\ seen \in [Clients -> Nat]
    /\ known \in [Clients -> SUBSET Fields]
    /\ trust \in [Clients -> {"full", "late", "missed"}]

Init ==
    /\ mode \in Modes
    /\ store = EmptyDoc
    /\ call = [k \in Calls |-> [step |-> "idle"]]
    /\ current = 0
    /\ chans = [h \in 1..MaxChannels |->
                   SyncChannel("immediate", NoBatch, FALSE)]
    /\ registered = FALSE /\ open = TRUE
    /\ link = [c \in Clients |-> "never"]
    /\ inbox = [c \in Clients |-> <<>>]
    /\ mirror = [c \in Clients |-> EmptyDoc]
    /\ log = <<EmptyDoc>>
    /\ sent = 1
    /\ seen = [c \in Clients |-> 1]
    /\ known = [c \in Clients |-> {}]
    /\ trust = [c \in Clients |-> "full"]

-----------------------------------------------------------------------------
(* ServerTransport.broadcastRaw: one frame to every connection there is. *)

BareBroadcast(b) ==  \* mutation of Broadcast: the patch without its envelope
    /\ inbox' = [c \in Clients |-> IF link[c] = "up"
                                 THEN Append(inbox[c], [patch |-> b.patch])
                                 ELSE inbox[c]]
    /\ trust' = trust
    /\ sent' = b.upto

OvertakingBroadcast(b) ==  \* mutation of Broadcast: not first in, first out
    /\ inbox' = [c \in Clients |-> IF link[c] = "up" THEN <<b>> \o inbox[c]
                                                     ELSE inbox[c]]
    /\ trust' = [c \in Clients |-> IF link[c] = "down" THEN "missed"
                                                       ELSE trust[c]]
    /\ sent' = b.upto

Broadcast(b) ==
    /\ inbox' = [c \in Clients |-> IF link[c] = "up" THEN Append(inbox[c], b)
                                                     ELSE inbox[c]]
    /\ trust' = [c \in Clients |-> IF link[c] = "down" THEN "missed"
                                                       ELSE trust[c]]
    /\ sent' = b.upto

-----------------------------------------------------------------------------
(* SyncChannel. *)

\* The last step of every flush; `b' is not empty.
FlushOut(h, b, timer) ==
    /\ Broadcast(b)
    /\ chans' = [chans EXCEPT ![h] = SyncChannel(@.strategy, NoBatch, timer)]

Hold(h, b, timer) ==
    /\ chans' = [chans EXCEPT ![h] = SyncChannel(@.strategy, b, timer)]
    /\ UNCHANGED wireVars

\* scheduleFlush once the patches are pushed.  A flush by size leaves the
\* batch timer armed.
TimerlessHold(h, b) ==  \* mutation of ScheduleFlush: size is the only trigger
    IF \/ chans[h].strategy = "immediate"
       \/ chans[h].strategy = "batched" /\ b.size >= MaxBatch
    THEN FlushOut(h, b, chans[h].timer)
    ELSE Hold(h, b, chans[h].timer \/ chans[h].strategy = "debounced")

ScheduleFlush(h, b) ==
    IF \/ chans[h].strategy = "immediate"
       \/ chans[h].strategy = "batched" /\ b.size >= MaxBatch
    THEN FlushOut(h, b, chans[h].timer)
    ELSE Hold(h, b, TRUE)

Enqueue(h, b) == ScheduleFlush(h, Merge(chans[h].pending, b))

FlushTimer(h) ==
    /\ chans[h].timer
    /\ IF chans[h].pending.size = 0
       THEN Hold(h, NoBatch, FALSE)
       ELSE FlushOut(h, chans[h].pending, FALSE)
    /\ UNCHANGED <<mode, serverVars, current, registered, open, clientVars>>

\* createSyncChannel: the newcomer takes the key; the one it replaces keeps
\* its patches, its timer and its listener.
Install(strategy) ==
    /\ open
    /\ mode.recreate \/ current = 0
    /\ current < MaxChannels
    /\ current' = current + 1
    /\ chans' = [chans EXCEPT ![current + 1] =
                     SyncChannel(strategy, NoBatch, FALSE)]
    /\ UNCHANGED <<mode, serverVars, open, wireVars, clientVars>>

CreateSyncChannel(strategy) == Install(strategy) /\ UNCHANGED registered

\* The data channel of a key is made once; closing it forgets it and leaves
\* its sync channel in place.
CreateDataChannel(strategy) ==
    ~registered /\ Install(strategy) /\ registered' = TRUE

CloseDataChannel ==
    /\ registered /\ registered' = FALSE
    /\ UNCHANGED <<mode, serverVars, current, chans, open, wireVars,
                   clientVars>>

\* DatasoleServer.close: the connections go first, with what was in flight,
\* then the channel of the key is flushed, to nobody; channels that were
\* replaced are left to their timers.
Close ==
    LET flushed == IF current = 0 THEN NoBatch ELSE chans[current].pending
    IN  /\ open /\ open' = FALSE
        /\ registered' = FALSE
        /\ link' = [c \in Clients |-> IF link[c] = "up" THEN "down" ELSE link[c]]
        /\ inbox' = [c \in Clients |-> <<>>]
        /\ trust' = [c \in Clients |->
                         IF \/ inbox[c] # <<>>
                            \/ link[c] # "never" /\ flushed.size > 0
                         THEN "missed" ELSE trust[c]]
        /\ sent' = IF flushed.size > 0 THEN flushed.upto ELSE sent
        /\ chans' = [h \in 1..MaxChannels |->
                        IF h = current
                        THEN SyncChannel(chans[h].strategy, NoBatch, FALSE)
                        ELSE chans[h]]
        /\ current' = 0
        /\ UNCHANGED <<mode, serverVars, mirror, seen, known>>

-----------------------------------------------------------------------------
(* setState: three steps, with the backend's answers between them. *)

Read(k, value) ==
    /\ open /\ call[k].step = "idle"
    /\ mode.serial => \A j \in Calls : call[j].step = "idle"
    /\ call' = [call EXCEPT ![k] = [step |-> "read", old |-> store,
                                    new |-> value]]
    /\ UNCHANGED <<mode, store, log, channelVars, wireVars, clientVars>>

Write(k) ==
    /\ call[k].step = "read"
    /\ Len(log) <= MaxWrites
    /\ store' = call[k].new
    /\ log' = IF store' = store THEN log ELSE Append(log, store')
    /\ LET patch == Diff(call[k].old, call[k].new)
       IN  call' = [call EXCEPT ![k] =
                [step |-> "written",
                 batch |-> [from |-> Len(log), upto |-> Len(log'),
                            patch |-> patch,
                            size |-> Cardinality(DOMAIN patch)]]]
    /\ UNCHANGED <<mode, channelVars, wireVars, clientVars>>

Deliver(k) ==
    LET b == call[k].batch
    IN  /\ call[k].step = "written"
        /\ call' = [call EXCEPT ![k] = [step |-> "idle"]]
        /\ \/ b.size = 0 /\ UNCHANGED <<chans, wireVars>>
           \/ b.size > 0 /\ current = 0 /\ Broadcast(b) /\ UNCHANGED chans
           \/ b.size > 0 /\ current # 0 /\ Enqueue(current, b)
        /\ UNCHANGED <<mode, store, log, current, registered, open, clientVars>>

-----------------------------------------------------------------------------
(* The client. *)

Receive(c) ==
    /\ inbox[c] # <<>>
    /\ LET b == Head(inbox[c])
       IN  /\ mirror' = [mirror EXCEPT ![c] = Apply(@, b.patch)]
           /\ seen' = [seen EXCEPT ![c] = b.upto]
           /\ known' = [known EXCEPT ![c] = @ \cup DOMAIN b.patch]
    /\ inbox' = [inbox EXCEPT ![c] = Tail(@)]
    /\ UNCHANGED <<mode, serverVars, channelVars, sent, trust, link>>

\* A first connection: no snapshot is sent, patches flow from here on.
Join(c) ==
    /\ open /\ link[c] = "never"
    /\ link' = [link EXCEPT ![c] = "up"]
    /\ seen' = [seen EXCEPT ![c] = sent]
    /\ trust' = [trust EXCEPT ![c] = IF sent = 1 THEN "full" ELSE "late"]
    /\ UNCHANGED <<mode, serverVars, channelVars, inbox, sent, mirror, known>>

\* The connection is lost with what was in flight.
Leave(c) ==
    /\ link[c] = "up"
    /\ link' = [link EXCEPT ![c] = "down"]
    /\ inbox' = [inbox EXCEPT ![c] = <<>>]
    /\ trust' = [trust EXCEPT ![c] = IF inbox[c] = <<>> THEN @ ELSE "missed"]
    /\ UNCHANGED <<mode, serverVars, channelVars, sent, mirror, seen, known>>

\* The client reconnects with the StateStores it had.
Rejoin(c) ==
    /\ open /\ link[c] = "down"
    /\ link' = [link EXCEPT ![c] = "up"]
    /\ UNCHANGED <<mode, serverVars, channelVars, wireVars, mirror, seen,
                   known>>

-----------------------------------------------------------------------------
Next ==
    \/ \E s \in FlushStrategy : CreateSyncChannel(s) \/ CreateDataChannel(s)
    \/ CloseDataChannel \/ Close
    \/ \E h \in 1..MaxChannels : FlushTimer(h)
    \/ \E k \in Calls, value \in Doc : Read(k, value)
    \/ \E k \in Calls : Write(k)
    \/ \E k \in Calls : Deliver(k)
    \/ \E c \in Clients : Receive(c)
    \/ \E c \in Clients : Join(c)
    \/ \E c \in Clients : Leave(c)
    \/ \E c \in Clients : Rejoin(c)

Spec == Init /\ [][Next]_vars

\* The backend answers, armed timers fire, a live connection delivers.
FairSpec ==
    /\ Spec
    /\ \A k \in Calls : WF_vars(Write(k)) /\ WF_vars(Deliver(k))
    /\ \A h \in 1..MaxChannels : WF_vars(FlushTimer(h))
    /\ \A c \in Clients : WF_vars(Receive(c))

-----------------------------------------------------------------------------
(* Properties. *)

\* The use the API is made for: awaited calls, one channel.
Orderly == mode.serial /\ ~mode.recreate

\* No patch is forgotten in a channel, replaced or not: while patches are
\* pending a timer is armed that will flush them (sync-channel.ts, where the
\* size flush, the stale handle and the early returns meet).
PendingHasTimer ==
    \A h \in 1..MaxChannels : chans[h].pending.size > 0 => chans[h].timer

\* A batched channel never holds maxBatchSize operations back.
BatchBound ==
    \A h \in 1..MaxChannels :
        chans[h].strategy = "batched" => chans[h].pending.size < MaxBatch

\* A mirror is never torn: a client that was there from the first patch shows
\* a document the server has held, and one that came later shows that
\* document's value in every field it has ever been told about; whatever is
\* batched, merged or still in flight.
MirrorNeverTorn ==
    Orderly => \A c \in Clients :
        /\ trust[c] = "full" => mirror[c] = log[seen[c]]
        /\ trust[c] = "late" =>
               mirror[c] = [f \in Fields |->
                   IF f \in known[c] THEN log[seen[c]][f] ELSE Absent]

\* Everything that is on its way adds up: after the batches in its inbox, the
\* channel's pending patches and the call about to deliver, a connected client
\* would show the stored document.
Undelivered == {k \in Calls : call[k].step = "written"}
AfterInbox(c) ==
    [f \in Fields |->
        LET told == {i \in DOMAIN inbox[c] : f \in DOMAIN inbox[c][i].patch}
        IN  IF told = {} THEN mirror[c][f]
            ELSE inbox[c][Max(told)].patch[f]]
AfterChannel(c) ==
    IF current = 0 THEN AfterInbox(c)
                   ELSE Apply(AfterInbox(c), chans[current].pending.patch)
NothingLost ==
    Orderly => \A c \in Clients : link[c] = "up" /\ trust[c] = "full" =>
        IF Undelivered = {} THEN AfterChannel(c) = store
        ELSE \A k \in Undelivered :
                 Apply(AfterChannel(c), call[k].batch.patch) = store

\* Patches are kept, and add up: none is forgotten in a channel or held back
\* beyond its size, everything on its way leads to the stored document, and no
\* mirror is torn meanwhile.
PatchesAddUp == PendingHasTimer /\ BatchBound /\ NothingLost /\ MirrorNeverTorn

\* Live state implements the abstract replication, for the clients that were
\* there from the first patch and missed none.
Replica == INSTANCE StateReplication WITH
    history <- log, view <- mirror, at <- seen,
    promised <- {c \in Clients : Orderly /\ trust[c] = "full"}
Replicates == Replica!Spec

\* Every mirror catches up: once the application stops writing, a connected
\* client that missed nothing ends up showing the stored document.
MirrorsConverge ==
    \A c \in Clients :
        <>[](Orderly /\ trust[c] = "full" /\ link[c] = "up"
                => mirror[c] = store)

\* docs/protocol.md:298, "After applying all patches, the local state matches
\* the server's state": nothing is on its way, so a client that was there
\* from the first patch shows what the backend holds.
Quiet ==
    /\ \A k \in Calls : call[k].step = "idle"
    /\ \A h \in 1..MaxChannels : chans[h].pending.size = 0
    /\ \A c \in Clients : inbox[c] = <<>>
MirrorsMatchWhenQuiet ==
    Quiet => \A c \in Clients :
        link[c] = "up" /\ trust[c] = "full" => mirror[c] = store
=============================================================================
