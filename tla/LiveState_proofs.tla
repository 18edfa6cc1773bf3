-------------------------- MODULE LiveState_proofs --------------------------
(***************************************************************************)
(* Proofs about LiveState, for every set of fields, values and clients,    *)
(* and any numbers of calls, channels, documents and operations per batch: *)
(* its types, PatchesAddUp, and that it implements StateReplication.       *)
(***************************************************************************)
EXTENDS LiveState, TLAPS, SequenceTheorems, FiniteSetTheorems

-----------------------------------------------------------------------------
(* Documents, patches and batches. *)

LEMMA ApplyType ==
    ASSUME NEW doc \in Doc, NEW p \in Patch
    PROVE  Apply(doc, p) \in Doc
  BY DEF Apply, Doc, Patch

\* A difference leads from the one document to the other, and counts its
\* operations.
LEMMA DiffFacts ==
    ASSUME NEW old \in Doc, NEW new \in Doc
    PROVE  LET p == Diff(old, new) IN
           /\ p \in Patch
           /\ Cardinality(DOMAIN p) \in Nat
           /\ Cardinality(DOMAIN p) = 0 => DOMAIN p = {} /\ old = new
           /\ Apply(old, p) = new
  <1> DEFINE p == Diff(old, new)
             changed == {g \in Fields : old[g] # new[g]}
  <1>1. p \in [changed -> Values \cup {Absent}] /\ changed \in SUBSET Fields
    BY DEF Diff, Doc
  <1>2. p \in Patch
    BY <1>1 DEF Patch
  <1>3. IsFiniteSet(changed)
    BY <1>1, FieldsFinite, FS_Subset
  <1>4. DOMAIN p = changed
    BY <1>1
  <1>5. Cardinality(changed) \in Nat /\ (Cardinality(changed) = 0 => changed = {})
    BY <1>3, FS_CardinalityType, FS_EmptySet
  <1>6. changed = {} => old = new
    BY DEF Doc
  <1>7. Apply(old, p) = new
    BY DEF Apply, Diff, Doc
  <1> QED
    BY <1>2, <1>4, <1>5, <1>6, <1>7

LEMMA ComposeFacts ==
    ASSUME NEW doc \in Doc, NEW p \in Patch, NEW q \in Patch
    PROVE  /\ Compose(p, q) \in Patch
           /\ Apply(doc, Compose(p, q)) = Apply(Apply(doc, p), q)
  <1>1. PICK S \in SUBSET Fields : p \in [S -> Values \cup {Absent}]
    BY DEF Patch
  <1>2. PICK T \in SUBSET Fields : q \in [T -> Values \cup {Absent}]
    BY DEF Patch
  <1>3. /\ S \cup T \in SUBSET Fields
        /\ Compose(p, q) \in [S \cup T -> Values \cup {Absent}]
    BY <1>1, <1>2 DEF Compose
  <1>4. Compose(p, q) \in Patch
    BY <1>3 DEF Patch
  <1>5. Apply(doc, Compose(p, q)) = Apply(Apply(doc, p), q)
    BY <1>1, <1>2 DEF Apply, Compose
  <1> QED
    BY <1>4, <1>5

LEMMA EmptyDocType == EmptyDoc \in Doc
  BY DEF EmptyDoc, Doc

LEMMA NoBatchFacts ==
    /\ NoBatch \in Batch
    /\ NoBatch.size = 0
    /\ DOMAIN NoBatch.patch = {}
  <1>1. Diff(EmptyDoc, EmptyDoc) \in Patch
    BY EmptyDocType, DiffFacts
  <1>2. DOMAIN Diff(EmptyDoc, EmptyDoc) = {}
    BY DEF Diff
  <1> QED
    BY <1>1, <1>2 DEF NoBatch, Batch

LEMMA MergeFacts ==
    ASSUME NEW b \in Batch, NEW c \in Batch
    PROVE  /\ Merge(b, c) \in Batch
           /\ b.size = 0 => Merge(b, c) = c
           /\ b.size # 0 =>
                /\ Merge(b, c).from = b.from /\ Merge(b, c).upto = c.upto
                /\ Merge(b, c).patch = Compose(b.patch, c.patch)
                /\ Merge(b, c).size = b.size + c.size
  <1>1. Compose(b.patch, c.patch) \in Patch
    BY EmptyDocType, ComposeFacts DEF Batch
  <1>2. CASE b.size = 0
    BY <1>2 DEF Merge
  <1>3. CASE b.size # 0
    BY <1>1, <1>3 DEF Merge, Batch
  <1> QED
    BY <1>2, <1>3

-----------------------------------------------------------------------------
(* The inductive invariant.  Two of its parts hold however the application *)
(* uses the key; the others describe orderly use: the chain of batches     *)
(* that leads each mirror to the stored document.                          *)

\* A channel holds patches or it holds NoBatch.
HoldsBatches ==
    \A h \in 1..MaxChannels :
        chans[h].pending.size = 0 => chans[h].pending = NoBatch

ChannelInv == PendingHasTimer /\ BatchBound /\ HoldsBatches

\* The batch is what happened to the document between two entries of the log.
Leads(b) ==
    /\ b.from \in 1..Len(log)
    /\ b.upto \in b.from..Len(log)
    /\ Apply(log[b.from], b.patch) = log[b.upto]

\* One setState at a time, and it has read what the backend still holds.
OneCall ==
    /\ \A j, k \in Calls :
           call[j].step # "idle" /\ call[k].step # "idle" => j = k
    /\ \A k \in Calls : call[k].step = "read" => call[k].old = store

LogInv == log[1] = EmptyDoc /\ log[Len(log)] = store /\ sent \in 1..Len(log)

\* The document the server's side has got to, short of the call about to
\* deliver.
Pending == current # 0 /\ chans[current].pending.size > 0
Tip == IF Pending THEN chans[current].pending.upto ELSE sent

\* Only the key's own channel holds patches, and they continue from what was
\* sent; the call about to deliver continues from there.
FlowInv ==
    /\ \A h \in 1..MaxChannels : h # current => chans[h].pending.size = 0
    /\ Pending => /\ Leads(chans[current].pending)
                  /\ chans[current].pending.from = sent
    /\ \A k \in Undelivered :
           /\ Leads(call[k].batch)
           /\ call[k].batch.from = Tip /\ call[k].batch.upto = Len(log)
           /\ call[k].batch.size = 0 => Tip = Len(log)
    /\ Undelivered = {} => Tip = Len(log)

\* The batches in a client's inbox lead, one after the other, from what it has
\* applied to what was sent.
Chain(c) ==
    /\ seen[c] \in 1..Len(log)
    /\ \A i \in 1..Len(inbox[c]) :
           /\ Leads(inbox[c][i])
           /\ inbox[c][i].from = IF i = 1 THEN seen[c] ELSE inbox[c][i-1].upto
    /\ sent = IF inbox[c] = <<>> THEN seen[c] ELSE inbox[c][Len(inbox[c])].upto

InStep(c) ==
    /\ Chain(c)
    /\ trust[c] = "full" => mirror[c] = log[seen[c]] /\ AfterInbox(c) = log[sent]
    /\ trust[c] = "late" =>
           mirror[c] = [f \in Fields |->
               IF f \in known[c] THEN log[seen[c]][f] ELSE Absent]

ClientInv(c) ==
    /\ link[c] # "up" => inbox[c] = <<>>
    /\ link[c] = "never" => /\ mirror[c] = EmptyDoc /\ known[c] = {}
                            /\ seen[c] = 1 /\ trust[c] = "full"
    /\ link[c] # "never" /\ trust[c] # "missed" => InStep(c)

ServerInv == OneCall /\ LogInv /\ FlowInv

OrderlyInv == ServerInv /\ \A c \in Clients : ClientInv(c)

IInv == TypeOK /\ ChannelInv /\ (Orderly => OrderlyInv)

-----------------------------------------------------------------------------
(* Types. *)

LEMMA BroadcastType ==
    ASSUME TypeOK, NEW b \in Batch, Broadcast(b)
    PROVE  /\ inbox' \in [Clients -> Seq(Batch)]
           /\ sent' \in Nat
           /\ trust' \in [Clients -> {"full", "late", "missed"}]
  <1>1. \A c \in Clients : Append(inbox[c], b) \in Seq(Batch)
    BY AppendProperties DEF TypeOK
  <1> QED
    BY <1>1 DEF TypeOK, Broadcast, Batch

LEMMA FlushOutType ==
    ASSUME TypeOK, NEW h \in 1..MaxChannels, NEW b \in Batch,
           NEW timer \in BOOLEAN, FlushOut(h, b, timer)
    PROVE  /\ inbox' \in [Clients -> Seq(Batch)]
           /\ sent' \in Nat
           /\ trust' \in [Clients -> {"full", "late", "missed"}]
           /\ chans' \in [1..MaxChannels -> Channel]
           /\ \A g \in 1..MaxChannels : chans'[g] =
                 IF g = h THEN [strategy |-> chans[g].strategy,
                                pending |-> NoBatch, timer |-> timer]
                          ELSE chans[g]
  BY BroadcastType, NoBatchFacts DEF TypeOK, FlushOut, Channel, SyncChannel

LEMMA HoldType ==
    ASSUME TypeOK, NEW h \in 1..MaxChannels, NEW b \in Batch,
           NEW timer \in BOOLEAN, Hold(h, b, timer)
    PROVE  /\ UNCHANGED wireVars
           /\ chans' \in [1..MaxChannels -> Channel]
           /\ \A g \in 1..MaxChannels : chans'[g] =
                 IF g = h THEN [strategy |-> chans[g].strategy,
                                pending |-> b, timer |-> timer]
                          ELSE chans[g]
  BY DEF TypeOK, Hold, Channel, SyncChannel

LEMMA CurrentType ==
    ASSUME TypeOK, current # 0
    PROVE  /\ current \in 1..MaxChannels
           /\ chans[current] \in Channel
           /\ chans[current].pending \in Batch
  BY BoundsAreNat DEF TypeOK, Channel

LEMMA InitType == Init => TypeOK
  <1> SUFFICES ASSUME Init PROVE TypeOK
    OBVIOUS
  <1>1. chans \in [1..MaxChannels -> Channel]
    BY NoBatchFacts DEF Init, Channel, FlushStrategy, SyncChannel
  <1>2. log \in Seq(Doc) /\ Len(log) = 1
    BY EmptyDocType DEF Init
  <1>3. inbox \in [Clients -> Seq(Batch)]
    BY DEF Init
  <1>4. call \in [Calls -> CallState]
    BY DEF Init, CallState
  <1>5. current \in 0..MaxChannels /\ Len(log) \in 1..MaxWrites + 1
    BY <1>2, BoundsAreNat DEF Init
  <1> QED
    BY <1>1, <1>2, <1>3, <1>4, <1>5, EmptyDocType DEF Init, TypeOK

LEMMA TypeInstall ==
    ASSUME TypeOK, NEW strategy \in FlushStrategy, Install(strategy),
           registered' \in BOOLEAN
    PROVE  TypeOK'
  <1>1. current + 1 \in 1..MaxChannels
    BY BoundsAreNat DEF TypeOK, Install
  <1>2. chans' \in [1..MaxChannels -> Channel]
    BY <1>1, NoBatchFacts DEF TypeOK, Install, Channel, SyncChannel
  <1>3. current' \in 0..MaxChannels
    BY <1>1 DEF Install
  <1> QED
    BY <1>2, <1>3 DEF TypeOK, Install, serverVars, wireVars, clientVars

LEMMA TypeFlushTimer ==
    ASSUME TypeOK, NEW h \in 1..MaxChannels, FlushTimer(h)
    PROVE  TypeOK'
  <1>1. chans[h].pending \in Batch
    BY DEF TypeOK, Channel
  <1>2. CASE Hold(h, NoBatch, FALSE)
    BY <1>2, HoldType, NoBatchFacts
    DEF TypeOK, FlushTimer, serverVars, clientVars, wireVars
  <1>3. CASE FlushOut(h, chans[h].pending, FALSE)
    BY <1>1, <1>3, FlushOutType DEF TypeOK, FlushTimer, serverVars, clientVars
  <1> QED
    BY <1>2, <1>3 DEF FlushTimer

LEMMA TypeClose ==
    ASSUME TypeOK, Close
    PROVE  TypeOK'
  <1> DEFINE flushed == IF current = 0 THEN NoBatch ELSE chans[current].pending
  <1>1. flushed \in Batch
    BY NoBatchFacts, CurrentType
  <1>2. sent' \in Nat
    BY <1>1 DEF TypeOK, Close, Batch
  <1>3. chans' \in [1..MaxChannels -> Channel]
    <2>1. \A h \in 1..MaxChannels : chans'[h] \in Channel
      <3> SUFFICES ASSUME NEW h \in 1..MaxChannels PROVE chans'[h] \in Channel
        OBVIOUS
      <3>1. chans[h] \in Channel
        BY DEF TypeOK
      <3>2. SyncChannel(chans[h].strategy, NoBatch, FALSE) \in Channel
        BY <3>1, NoBatchFacts DEF Channel, SyncChannel
      <3> QED
        BY <3>1, <3>2 DEF Close
    <2> QED
      BY <2>1 DEF Close
  <1>4. trust' \in [Clients -> {"full", "late", "missed"}]
    BY DEF TypeOK, Close
  <1>5. inbox' \in [Clients -> Seq(Batch)]
    BY DEF TypeOK, Close
  <1>6. link' \in [Clients -> {"never", "up", "down"}] /\ current' \in 0..MaxChannels
    BY BoundsAreNat DEF TypeOK, Close
  <1> QED
    BY <1>2, <1>3, <1>4, <1>5, <1>6 DEF TypeOK, Close, serverVars

LEMMA TypeRead ==
    ASSUME TypeOK, NEW k \in Calls, NEW value \in Doc, Read(k, value)
    PROVE  TypeOK'
  <1>1. [step |-> "read", old |-> store, new |-> value] \in CallState
    BY DEF TypeOK, CallState
  <1>2. call' \in [Calls -> CallState]
    BY <1>1 DEF TypeOK, Read
  <1> QED
    BY <1>2 DEF TypeOK, Read, channelVars, wireVars, clientVars

\* What is written: a document, and the difference from the one that was read.
LEMMA WriteFacts ==
    ASSUME TypeOK, NEW k \in Calls, Write(k)
    PROVE  LET b == call'[k].batch IN
           /\ call[k].old \in Doc /\ call[k].new \in Doc
           /\ store' = call[k].new
           /\ log' \in Seq(Doc) /\ Len(log') \in 1..MaxWrites + 1
           /\ log' = IF store' = store THEN log ELSE Append(log, store')
           /\ call' = [call EXCEPT ![k] = [step |-> "written", batch |-> b]]
           /\ b \in Batch
           /\ b.from = Len(log) /\ b.upto = Len(log')
           /\ b.patch = Diff(call[k].old, call[k].new)
           /\ b.size = Cardinality(DOMAIN b.patch)
  <1> DEFINE patch == Diff(call[k].old, call[k].new)
             b == [from |-> Len(log), upto |-> Len(log'), patch |-> patch,
                   size |-> Cardinality(DOMAIN patch)]
  <1>1. call[k].old \in Doc /\ call[k].new \in Doc
    BY DEF TypeOK, Write, CallState
  <1>2. store' = call[k].new /\ log' = IF store' = store THEN log ELSE Append(log, store')
    BY DEF Write
  <1>3. log' \in Seq(Doc) /\ Len(log') \in 1..MaxWrites + 1
    <2>1. CASE log' = log
      BY <2>1 DEF TypeOK
    <2>2. CASE log' = Append(log, store')
      <3>1. log' \in Seq(Doc) /\ Len(log') = Len(log) + 1
        BY <1>1, <1>2, <2>2, AppendProperties DEF TypeOK
      <3> QED
        BY <3>1, BoundsAreNat DEF TypeOK, Write
    <2> QED
      BY <1>2, <2>1, <2>2
  <1>4. patch \in Patch /\ Cardinality(DOMAIN patch) \in Nat
    BY <1>1, DiffFacts
  <1>5. b \in Batch
    BY <1>3, <1>4 DEF Batch, TypeOK
  <1>6. call' = [call EXCEPT ![k] = [step |-> "written", batch |-> b]]
    BY DEF Write
  <1>7. call'[k].batch = b
    BY <1>6 DEF TypeOK
  <1>8. b.from = Len(log) /\ b.upto = Len(log') /\ b.patch = patch
        /\ b.size = Cardinality(DOMAIN patch)
    OBVIOUS
  <1> HIDE DEF b
  <1> QED
    BY <1>1, <1>2, <1>3, <1>5, <1>6, <1>7, <1>8

LEMMA TypeWrite ==
    ASSUME TypeOK, NEW k \in Calls, Write(k)
    PROVE  TypeOK'
  <1>1. [step |-> "written", batch |-> call'[k].batch] \in CallState
    BY WriteFacts DEF CallState
  <1>2. call' \in [Calls -> CallState]
    BY <1>1, WriteFacts DEF TypeOK
  <1> QED
    BY <1>2, WriteFacts DEF TypeOK, Write, channelVars, wireVars, clientVars

\* The three ways of a difference that setState hands on.
LEMMA DeliverCases ==
    ASSUME TypeOK, NEW k \in Calls, Deliver(k)
    PROVE  LET b == call[k].batch
               c == chans[current]
               more == Merge(c.pending, b)
           IN  /\ b \in Batch
               /\ call' = [call EXCEPT ![k] = [step |-> "idle"]]
               /\ UNCHANGED <<mode, store, log, current, registered, open, clientVars>>
               /\ \/ b.size = 0 /\ UNCHANGED <<chans, wireVars>>
                  \/ b.size > 0 /\ current = 0 /\ Broadcast(b) /\ UNCHANGED chans
                  \/ /\ b.size > 0 /\ current \in 1..MaxChannels
                     /\ c \in Channel /\ more \in Batch
                     /\ \/ FlushOut(current, more, c.timer)
                        \/ /\ Hold(current, more, TRUE)
                           /\ ~(c.strategy = "batched" /\ more.size >= MaxBatch)
  <1>1. call[k].batch \in Batch
    BY DEF TypeOK, Deliver, CallState
  <1>2. current # 0 => /\ current \in 1..MaxChannels
                       /\ chans[current] \in Channel
                       /\ chans[current].pending \in Batch
    BY CurrentType
  <1>3. current # 0 => Merge(chans[current].pending, call[k].batch) \in Batch
    BY <1>1, <1>2, MergeFacts
  <1> QED
    BY <1>1, <1>2, <1>3 DEF Deliver, Enqueue, ScheduleFlush, Batch

LEMMA TypeDeliver ==
    ASSUME TypeOK, NEW k \in Calls, Deliver(k)
    PROVE  TypeOK'
  <1> DEFINE b == call[k].batch
             c == chans[current]
             more == Merge(c.pending, b)
  <1>0. [step |-> "idle"] \in CallState
    BY DEF CallState
  <1>1. call' \in [Calls -> CallState]
    BY <1>0 DEF TypeOK, Deliver
  <1>2. CASE UNCHANGED <<chans, wireVars>>
    BY <1>1, <1>2, DeliverCases DEF TypeOK, wireVars, clientVars
  <1>3. CASE Broadcast(b) /\ UNCHANGED chans
    BY <1>1, <1>3, DeliverCases, BroadcastType DEF TypeOK, clientVars
  <1>4. CASE /\ current \in 1..MaxChannels /\ c \in Channel /\ more \in Batch
             /\ FlushOut(current, more, c.timer)
    <2>1. c.timer \in BOOLEAN
      BY <1>4 DEF Channel
    <2>2. /\ inbox' \in [Clients -> Seq(Batch)] /\ sent' \in Nat
          /\ trust' \in [Clients -> {"full", "late", "missed"}]
          /\ chans' \in [1..MaxChannels -> Channel]
      BY <1>4, <2>1, FlushOutType
    <2> QED
      BY <1>1, <2>2, DeliverCases DEF TypeOK, clientVars
  <1>5. CASE /\ current \in 1..MaxChannels /\ more \in Batch
             /\ Hold(current, more, TRUE)
    <2>1. UNCHANGED wireVars /\ chans' \in [1..MaxChannels -> Channel]
      BY <1>5, HoldType
    <2> QED
      BY <1>1, <2>1, DeliverCases DEF TypeOK, clientVars, wireVars
  <1> QED
    BY <1>2, <1>3, <1>4, <1>5, DeliverCases

LEMMA TypeReceive ==
    ASSUME TypeOK, NEW c \in Clients, Receive(c)
    PROVE  TypeOK'
  <1>1. Head(inbox[c]) \in Batch /\ Tail(inbox[c]) \in Seq(Batch)
    BY HeadTailProperties DEF TypeOK, Receive
  <1>2. Apply(mirror[c], Head(inbox[c]).patch) \in Doc
    BY <1>1, ApplyType DEF TypeOK, Batch
  <1>3. DOMAIN Head(inbox[c]).patch \subseteq Fields
    BY <1>1 DEF Batch, Patch
  <1>4. mirror' \in [Clients -> Doc] /\ seen' \in [Clients -> Nat]
    BY <1>1, <1>2 DEF TypeOK, Receive, Batch
  <1>5. known' \in [Clients -> SUBSET Fields] /\ inbox' \in [Clients -> Seq(Batch)]
    BY <1>1, <1>3 DEF TypeOK, Receive
  <1> QED
    BY <1>4, <1>5 DEF TypeOK, Receive, serverVars, channelVars

LEMMA TypeLink ==
    ASSUME TypeOK, NEW c \in Clients, Join(c) \/ Leave(c) \/ Rejoin(c)
    PROVE  TypeOK'
  <1>1. CASE Join(c)
    BY <1>1 DEF TypeOK, Join, serverVars, channelVars
  <1>2. CASE Leave(c)
    <2>1. inbox' \in [Clients -> Seq(Batch)]
      BY <1>2 DEF TypeOK, Leave
    <2> QED
      BY <1>2, <2>1 DEF TypeOK, Leave, serverVars, channelVars
  <1>3. CASE Rejoin(c)
    BY <1>3 DEF TypeOK, Rejoin, serverVars, channelVars, wireVars
  <1> QED
    BY <1>1, <1>2, <1>3

LEMMA TypeStep == TypeOK /\ [Next]_vars => TypeOK'
  <1> SUFFICES ASSUME TypeOK, [Next]_vars PROVE TypeOK'
    OBVIOUS
  <1>1. ASSUME NEW s \in FlushStrategy, CreateSyncChannel(s) \/ CreateDataChannel(s)
        PROVE  TypeOK'
    <2>1. Install(s) /\ registered' \in BOOLEAN
      BY <1>1 DEF TypeOK, CreateSyncChannel, CreateDataChannel
    <2> QED
      BY <2>1, TypeInstall
  <1>2. CASE CloseDataChannel
    BY <1>2 DEF TypeOK, CloseDataChannel, serverVars, wireVars, clientVars
  <1>3. CASE UNCHANGED vars
    BY <1>3 DEF TypeOK, vars
  <1> QED
    BY <1>1, <1>2, <1>3, TypeClose, TypeFlushTimer, TypeRead, TypeWrite,
       TypeDeliver, TypeReceive, TypeLink
    DEF Next

\* Every variable keeps to its type, whatever the application does.
THEOREM TypeCorrect == Spec => []TypeOK
  BY InitType, TypeStep, PTL DEF Spec

-----------------------------------------------------------------------------
(* The channels, however the application uses the key. *)

LEMMA ChannelInit == Init => ChannelInv
  BY NoBatchFacts, MaxBatchPositive
  DEF Init, ChannelInv, PendingHasTimer, BatchBound, HoldsBatches, SyncChannel

\* A step that changes one channel, and leaves it with patches only if a timer
\* is armed and they are fewer than its limit.
LEMMA OneChannel ==
    ASSUME ChannelInv, NEW h \in 1..MaxChannels, NEW ch \in Channel,
           \A g \in 1..MaxChannels : chans'[g] = IF g = h THEN ch ELSE chans[g],
           ch.pending # NoBatch =>
               /\ ch.pending.size > 0 /\ ch.timer
               /\ ch.strategy = "batched" => ch.pending.size < MaxBatch
    PROVE  ChannelInv'
  BY NoBatchFacts, MaxBatchPositive
  DEF ChannelInv, PendingHasTimer, BatchBound, HoldsBatches

LEMMA ChannelInstall ==
    ASSUME TypeOK, ChannelInv, NEW s \in FlushStrategy, Install(s)
    PROVE  ChannelInv'
  <1> DEFINE ch == SyncChannel(s, NoBatch, FALSE)
  <1>1. current + 1 \in 1..MaxChannels
    BY BoundsAreNat DEF TypeOK, Install
  <1>2. ch \in Channel /\ ch.pending = NoBatch
    BY NoBatchFacts DEF SyncChannel, Channel
  <1>3. \A g \in 1..MaxChannels :
            chans'[g] = IF g = current + 1 THEN ch ELSE chans[g]
    BY DEF TypeOK, Install
  <1> QED
    BY <1>1, <1>2, <1>3, OneChannel

LEMMA ChannelTimer ==
    ASSUME TypeOK, ChannelInv, NEW h \in 1..MaxChannels, FlushTimer(h)
    PROVE  ChannelInv'
  <1> DEFINE ch == SyncChannel(chans[h].strategy, NoBatch, FALSE)
  <1>1. ch \in Channel /\ ch.pending = NoBatch
    BY NoBatchFacts DEF TypeOK, SyncChannel, Channel
  <1>2. \A g \in 1..MaxChannels : chans'[g] = IF g = h THEN ch ELSE chans[g]
    BY DEF TypeOK, FlushTimer, Hold, FlushOut
  <1> QED
    BY <1>1, <1>2, OneChannel

LEMMA ChannelClose ==
    ASSUME TypeOK, ChannelInv, Close
    PROVE  ChannelInv'
  BY NoBatchFacts, MaxBatchPositive
  DEF Close, SyncChannel, ChannelInv, PendingHasTimer, BatchBound, HoldsBatches

LEMMA ChannelDeliver ==
    ASSUME TypeOK, ChannelInv, NEW k \in Calls, Deliver(k)
    PROVE  ChannelInv'
  <1> DEFINE b == call[k].batch
             c == chans[current]
             more == Merge(c.pending, b)
  <1>1. CASE UNCHANGED chans
    BY <1>1 DEF ChannelInv, PendingHasTimer, BatchBound, HoldsBatches
  <1>2. ASSUME b.size > 0, current \in 1..MaxChannels, c \in Channel, more \in Batch,
               FlushOut(current, more, c.timer)
        PROVE  ChannelInv'
    <2> DEFINE ch == SyncChannel(c.strategy, NoBatch, c.timer)
    <2>1. ch \in Channel /\ ch.pending = NoBatch
      BY <1>2, NoBatchFacts DEF SyncChannel, Channel
    <2>2. \A g \in 1..MaxChannels : chans'[g] = IF g = current THEN ch ELSE chans[g]
      BY <1>2 DEF TypeOK, FlushOut
    <2> QED
      BY <1>2, <2>1, <2>2, OneChannel
  <1>3. ASSUME b.size > 0, current \in 1..MaxChannels, c \in Channel, more \in Batch,
               b \in Batch, Hold(current, more, TRUE),
               ~(c.strategy = "batched" /\ more.size >= MaxBatch)
        PROVE  ChannelInv'
    <2> DEFINE ch == SyncChannel(c.strategy, more, TRUE)
    <2>1. ch \in Channel /\ ch.pending = more /\ ch.timer /\ ch.strategy = c.strategy
      BY <1>3 DEF SyncChannel, Channel
    <2>2. \A g \in 1..MaxChannels : chans'[g] = IF g = current THEN ch ELSE chans[g]
      BY <1>3 DEF TypeOK, Hold
    <2>3. c.pending \in Batch
      BY <1>3 DEF Channel
    <2>4. more.size > 0
      BY <1>3, <2>3, MergeFacts DEF Batch
    <2>5. ch.strategy = "batched" => ch.pending.size < MaxBatch
      <3>1. more.size \in Nat
        BY <1>3 DEF Batch
      <3> HIDE DEF ch, more
      <3> QED
        BY <1>3, <2>1, <3>1, MaxBatchPositive
    <2>6. ch.pending.size > 0 /\ ch.timer
      BY <2>1, <2>4
    <2> HIDE DEF ch, more
    <2> QED
      BY <1>3, <2>1, <2>2, <2>5, <2>6, OneChannel
  <1> QED
    BY <1>1, <1>2, <1>3, DeliverCases

LEMMA ChannelStep == TypeOK /\ ChannelInv /\ [Next]_vars => ChannelInv'
  <1> SUFFICES ASSUME TypeOK, ChannelInv, [Next]_vars PROVE ChannelInv'
    OBVIOUS
  <1>1. CASE UNCHANGED chans
    BY <1>1 DEF ChannelInv, PendingHasTimer, BatchBound, HoldsBatches
  <1>2. ASSUME NEW s \in FlushStrategy, CreateSyncChannel(s) \/ CreateDataChannel(s)
        PROVE  ChannelInv'
    BY <1>2, ChannelInstall DEF CreateSyncChannel, CreateDataChannel
  <1>3. CASE CloseDataChannel \/ UNCHANGED vars
    BY <1>1, <1>3 DEF CloseDataChannel, vars
  <1>4. ASSUME NEW k \in Calls, NEW value \in Doc, Read(k, value)
        PROVE  ChannelInv'
    BY <1>1, <1>4 DEF Read, channelVars
  <1>5. ASSUME NEW k \in Calls, Write(k) PROVE ChannelInv'
    BY <1>1, <1>5 DEF Write, channelVars
  <1>6. ASSUME NEW c \in Clients, Receive(c) \/ Join(c) \/ Leave(c) \/ Rejoin(c)
        PROVE  ChannelInv'
    BY <1>1, <1>6 DEF Receive, Join, Leave, Rejoin, channelVars
  <1> QED
    BY <1>2, <1>3, <1>4, <1>5, <1>6, ChannelTimer, ChannelClose, ChannelDeliver
    DEF Next

-----------------------------------------------------------------------------
(* What a mirror will show once its inbox is empty. *)

LEMMA LargestExists ==
    ASSUME NEW n \in Nat, NEW S \in SUBSET (1..n), S # {}
    PROVE  \E i \in S : \A j \in S : j <= i
  <1> DEFINE R == OpToRel(<, Nat)
             T == {m \in Nat : n - m \in S}
  <1>1. PICK s \in S : TRUE
    OBVIOUS
  <1>2. n - s \in T
    BY <1>1
  <1>3. \E x \in T : \A y \in T : ~ (<<y, x>> \in R)
    <2> HIDE DEF T
    <2> QED
      BY <1>2, NatLessThanWellFounded, WFMin DEF T
  <1>4. PICK x \in T : \A y \in T : ~ (<<y, x>> \in R)
    BY <1>3
  <1>5. \A y \in T : ~ (y < x)
    BY <1>4 DEF OpToRel
  <1>6. \A j \in S : n - j \in T
    OBVIOUS
  <1>7. \A j \in S : j <= n - x
    <2> SUFFICES ASSUME NEW j \in S PROVE j <= n - x
      OBVIOUS
    <2>1. ~(n - j < x) /\ j \in 1..n /\ x \in Nat
      BY <1>5, <1>6
    <2> QED
      BY <2>1
  <1>8. n - x \in S
    OBVIOUS
  <1> QED
    BY <1>7, <1>8

LEMMA MaxIs ==
    ASSUME NEW S \in SUBSET Nat, NEW m \in S, \A j \in S : j <= m
    PROVE  Max(S) = m
  <1>1. m \in S /\ \A y \in S : m >= y
    OBVIOUS
  <1>2. \A x \in S : (\A y \in S : x >= y) => x = m
    OBVIOUS
  <1> QED
    BY <1>1, <1>2 DEF Max

\* The places of the inbox whose batches touch the field.
Told(c, f) == {i \in DOMAIN inbox[c] : f \in DOMAIN inbox[c][i].patch}

LEMMA AfterField ==
    ASSUME NEW c \in Clients, NEW f \in Fields
    PROVE  /\ AfterInbox(c)[f] = IF Told(c, f) = {} THEN mirror[c][f]
                                 ELSE inbox[c][Max(Told(c, f))].patch[f]
           /\ AfterInbox(c)'[f] = IF Told(c, f)' = {} THEN mirror'[c][f]
                                  ELSE inbox'[c][Max(Told(c, f)')].patch[f]
  BY DEF AfterInbox, Told

\* A batch that joins the inbox is applied last.
LEMMA AfterAppend ==
    ASSUME TypeOK, NEW c \in Clients, NEW b \in Batch,
           inbox'[c] = Append(inbox[c], b), mirror'[c] = mirror[c]
    PROVE  AfterInbox(c)' = Apply(AfterInbox(c), b.patch)
  <1> DEFINE n == Len(inbox[c])
  <1>1. inbox[c] \in Seq(Batch) /\ n \in Nat
    BY DEF TypeOK
  <1>2. /\ DOMAIN inbox[c] = 1..n /\ DOMAIN inbox'[c] = 1..n+1
        /\ \A i \in 1..n : inbox'[c][i] = inbox[c][i]
        /\ inbox'[c][n+1] = b
    BY <1>1, AppendProperties
  <1>3. ASSUME NEW f \in Fields
        PROVE  AfterInbox(c)'[f] = Apply(AfterInbox(c), b.patch)[f]
    <2>1. Apply(AfterInbox(c), b.patch)[f] =
              IF f \in DOMAIN b.patch THEN b.patch[f] ELSE AfterInbox(c)[f]
      BY DEF Apply
    <2>2. CASE f \in DOMAIN b.patch
      <3>1. n + 1 \in Told(c, f)' /\ Told(c, f)' \subseteq 1..n+1
        BY <1>1, <1>2, <2>2 DEF Told
      <3>2. Max(Told(c, f)') = n + 1
        BY <1>1, <3>1, MaxIs
      <3> QED
        BY <1>2, <2>1, <2>2, <3>1, <3>2, AfterField
    <2>3. CASE f \notin DOMAIN b.patch
      <3>1. Told(c, f)' = Told(c, f)
        BY <1>1, <1>2, <2>3 DEF Told
      <3>2. CASE Told(c, f) = {}
        BY <2>1, <2>3, <3>1, <3>2, AfterField
      <3>3. CASE Told(c, f) # {}
        <4>1. PICK i \in Told(c, f) : \A j \in Told(c, f) : j <= i
          BY <1>1, <1>2, <3>3, LargestExists DEF Told
        <4>2. Told(c, f) \subseteq 1..n /\ Told(c, f) \in SUBSET Nat
          BY <1>2 DEF Told
        <4>3. Max(Told(c, f)) = i /\ i \in 1..n
          BY <4>1, <4>2, MaxIs
        <4> QED
          BY <1>2, <2>1, <2>3, <3>1, <3>3, <4>3, AfterField
      <3> QED
        BY <3>2, <3>3
    <2> QED
      BY <2>2, <2>3
  <1> QED
    BY <1>3 DEF AfterInbox, Apply

\* Applying the first batch changes nothing in the end.
LEMMA AfterTail ==
    ASSUME TypeOK, NEW c \in Clients, inbox[c] # <<>>,
           inbox'[c] = Tail(inbox[c]),
           mirror'[c] = Apply(mirror[c], Head(inbox[c]).patch)
    PROVE  AfterInbox(c)' = AfterInbox(c)
  <1> DEFINE n == Len(inbox[c])
  <1>1. inbox[c] \in Seq(Batch) /\ n \in Nat \ {0}
    BY DEF TypeOK
  <1>2. /\ DOMAIN inbox[c] = 1..n /\ DOMAIN inbox'[c] = 1..n-1
        /\ \A i \in 1..n-1 : inbox'[c][i] = inbox[c][i+1]
        /\ Head(inbox[c]) = inbox[c][1]
    BY <1>1, HeadTailProperties
  <1>3. ASSUME NEW f \in Fields
        PROVE  AfterInbox(c)'[f] = AfterInbox(c)[f]
    <2>1. mirror'[c][f] = IF f \in DOMAIN inbox[c][1].patch
                          THEN inbox[c][1].patch[f] ELSE mirror[c][f]
      BY <1>2 DEF Apply
    <2>2. \A i \in 1..n-1 : i \in Told(c, f)' <=> i+1 \in Told(c, f)
      BY <1>1, <1>2 DEF Told
    <2>3. /\ Told(c, f) \subseteq 1..n /\ Told(c, f) \in SUBSET Nat
          /\ Told(c, f)' \subseteq 1..n-1 /\ Told(c, f)' \in SUBSET Nat
          /\ n - 1 \in Nat
      BY <1>2 DEF Told
    <2>4. CASE Told(c, f)' = {}
      <3>1. Told(c, f) \subseteq {1}
        <4> SUFFICES ASSUME NEW j \in Told(c, f), j # 1 PROVE FALSE
          OBVIOUS
        <4>1. j \in 1..n
          BY <2>3
        <4>2. j - 1 \in 1..n-1 /\ (j - 1) + 1 = j
          BY <1>1, <4>1
        <4> QED
          BY <2>2, <2>4, <4>2
      <3>2. CASE 1 \in Told(c, f)
        <4>1. Max(Told(c, f)) = 1
          BY <3>1, <3>2, MaxIs
        <4>2. f \in DOMAIN inbox[c][1].patch
          BY <3>2 DEF Told
        <4>3. Told(c, f) # {}
          BY <3>2
        <4>4. AfterInbox(c)[f] = inbox[c][1].patch[f]
          BY <4>1, <4>3, AfterField
        <4>5. AfterInbox(c)'[f] = mirror'[c][f]
          BY <2>4, AfterField
        <4> QED
          BY <2>1, <4>2, <4>4, <4>5
      <3>3. CASE 1 \notin Told(c, f)
        <4>1. Told(c, f) = {}
          BY <3>1, <3>3
        <4>2. f \notin DOMAIN inbox[c][1].patch
          BY <1>1, <1>2, <3>3 DEF Told
        <4> QED
          BY <2>1, <2>4, <4>1, <4>2, AfterField
      <3> QED
        BY <3>2, <3>3
    <2>5. CASE Told(c, f)' # {}
      <3>1. PICK i \in Told(c, f)' : \A j \in Told(c, f)' : j <= i
        BY <1>1, <2>3, <2>5, LargestExists
      <3>2. Max(Told(c, f)') = i /\ i \in 1..n-1
        BY <1>1, <2>3, <3>1, MaxIs
      <3>3. i + 1 \in Told(c, f)
        BY <2>2, <3>1, <3>2
      <3>4. \A j \in Told(c, f) : j <= i + 1
        <4> SUFFICES ASSUME NEW j \in Told(c, f), j > 1 PROVE j <= i + 1
          BY <1>1, <2>3, <3>2
        <4>1. j - 1 \in 1..n-1 /\ (j - 1) + 1 = j
          BY <1>1, <2>3
        <4> QED
          BY <1>1, <2>2, <2>3, <3>1, <3>2, <4>1
      <3>5. Max(Told(c, f)) = i + 1
        BY <1>1, <2>3, <3>3, <3>4, MaxIs
      <3> QED
        <4>1. inbox'[c][i] = inbox[c][i+1]
          BY <1>2, <3>2
        <4>2. AfterInbox(c)'[f] = inbox'[c][i].patch[f]
          BY <2>5, <3>2, AfterField
        <4>3. AfterInbox(c)[f] = inbox[c][i+1].patch[f]
          BY <3>3, <3>5, AfterField
        <4> QED
          BY <4>1, <4>2, <4>3
    <2> QED
      BY <2>4, <2>5
  <1> QED
    BY <1>3 DEF AfterInbox, Apply

-----------------------------------------------------------------------------
(* Orderly use: the clients. *)

LogGrows ==
    /\ Len(log') \in Nat /\ Len(log) <= Len(log')
    /\ \A i \in 1..Len(log) : log'[i] = log[i]

LEMMA LeadsOn ==
    ASSUME TypeOK, LogGrows, NEW b \in Batch, Leads(b)
    PROVE  Leads(b)'
  BY DEF TypeOK, LogGrows, Leads, Batch

SameClient(c) ==
    /\ inbox'[c] = inbox[c] /\ trust'[c] = trust[c] /\ link'[c] = link[c]
    /\ mirror'[c] = mirror[c] /\ seen'[c] = seen[c] /\ known'[c] = known[c]

\* A step that touches neither the client nor what was sent to it.
LEMMA ClientFrame ==
    ASSUME TypeOK, LogInv, LogGrows, NEW c \in Clients, ClientInv(c),
           SameClient(c), sent' = sent
    PROVE  ClientInv(c)'
  <1>1. ASSUME InStep(c) PROVE InStep(c)'
    <2>1. Chain(c)'
      <3>1. \A i \in 1..Len(inbox[c]) : inbox[c][i] \in Batch
        BY DEF TypeOK
      <3>2. \A i \in 1..Len(inbox[c]) : Leads(inbox[c][i])'
        BY <1>1, <3>1, LeadsOn DEF InStep, Chain, SameClient
      <3>3. seen'[c] \in 1..Len(log')
        BY <1>1 DEF InStep, Chain, LogGrows, TypeOK, SameClient
      <3> QED
        BY <1>1, <3>2, <3>3 DEF InStep, Chain, SameClient
    <2>2. log'[seen[c]] = log[seen[c]] /\ log'[sent] = log[sent]
      BY <1>1 DEF InStep, Chain, LogGrows, LogInv, SameClient
    <2>3. AfterInbox(c)' = AfterInbox(c)
      BY DEF AfterInbox, SameClient
    <2> QED
      BY <1>1, <2>1, <2>2, <2>3 DEF InStep, SameClient
  <1> QED
    BY <1>1 DEF ClientInv, SameClient

\* A broadcast that continues from what was sent.
LEMMA ClientBroadcast ==
    ASSUME TypeOK, LogInv, NEW c \in Clients, ClientInv(c),
           NEW b \in Batch, Leads(b), b.from = sent, Broadcast(b),
           UNCHANGED <<log, link, mirror, seen, known>>
    PROVE  ClientInv(c)'
  <1> DEFINE n == Len(inbox[c])
  <1>1. CASE link[c] # "up"
    BY <1>1 DEF ClientInv, Broadcast, TypeOK
  <1>2. CASE link[c] = "up" /\ trust[c] = "missed"
    BY <1>2 DEF ClientInv, Broadcast, TypeOK
  <1>3. CASE link[c] = "up" /\ trust[c] # "missed"
    <2>1. /\ inbox'[c] = Append(inbox[c], b) /\ trust'[c] = trust[c]
          /\ sent' = b.upto
      BY <1>3 DEF Broadcast, TypeOK
    <2>2. /\ inbox[c] \in Seq(Batch) /\ n \in Nat
          /\ Len(inbox'[c]) = n + 1 /\ inbox'[c][n+1] = b /\ inbox'[c] # <<>>
          /\ \A i \in 1..n : inbox'[c][i] = inbox[c][i]
      BY <2>1, AppendProperties DEF TypeOK
    <2>3. InStep(c)
      BY <1>3 DEF ClientInv
    <2>4. Chain(c)'
      <3>1. \A i \in 1..n+1 : Leads(inbox[c][i])'
        <4> SUFFICES ASSUME NEW i \in 1..n+1 PROVE Leads(inbox[c][i])'
          OBVIOUS
        <4>1. inbox'[c][i] = IF i = n + 1 THEN b ELSE inbox[c][i]
          BY <2>2
        <4>2. i # n + 1 => i \in 1..n
          BY <2>2
        <4> QED
          BY <2>3, <4>1, <4>2 DEF InStep, Chain, Leads
      <3>2. \A i \in 1..n+1 :
                inbox'[c][i].from = IF i = 1 THEN seen[c] ELSE inbox'[c][i-1].upto
        <4> SUFFICES ASSUME NEW i \in 1..n+1
                     PROVE  inbox'[c][i].from =
                                IF i = 1 THEN seen[c] ELSE inbox'[c][i-1].upto
          OBVIOUS
        <4>1. CASE i # n + 1
          <5>1. i \in 1..n /\ (i # 1 => i - 1 \in 1..n)
            BY <2>2, <4>1
          <5> QED
            BY <2>2, <2>3, <5>1 DEF InStep, Chain
        <4>2. CASE i = n + 1
          <5>1. n = 0 <=> inbox[c] = <<>>
            BY <2>2
          <5>2. b.from = IF n = 0 THEN seen[c] ELSE inbox[c][n].upto
            BY <2>3, <5>1 DEF InStep, Chain
          <5> QED
            BY <2>2, <4>2, <5>2
        <4> QED
          BY <4>1, <4>2
      <3> QED
        BY <2>1, <2>2, <2>3, <3>1, <3>2 DEF InStep, Chain
    <2>5. AfterInbox(c)' = Apply(AfterInbox(c), b.patch)
      BY <2>1, AfterAppend
    <2>6. trust[c] = "full" => AfterInbox(c)' = log'[sent']
      BY <2>1, <2>3, <2>5 DEF InStep, Leads
    <2> QED
      BY <1>3, <2>1, <2>3, <2>4, <2>6 DEF InStep, ClientInv
  <1> QED
    BY <1>1, <1>2, <1>3

LEMMA ClientReceive ==
    ASSUME TypeOK, LogInv, NEW c \in Clients, ClientInv(c), Receive(c)
    PROVE  ClientInv(c)'
  <1> DEFINE n == Len(inbox[c])
             b == Head(inbox[c])
  <1>1. /\ inbox'[c] = Tail(inbox[c])
        /\ mirror'[c] = Apply(mirror[c], b.patch)
        /\ seen'[c] = b.upto
        /\ known'[c] = known[c] \cup DOMAIN b.patch
        /\ UNCHANGED <<log, sent, trust, link>>
    BY DEF Receive, TypeOK, serverVars
  <1>2. /\ inbox[c] \in Seq(Batch) /\ n \in Nat \ {0}
        /\ inbox'[c] \in Seq(Batch) /\ Len(inbox'[c]) = n - 1
        /\ b = inbox[c][1] /\ b \in Batch
        /\ \A i \in 1..n-1 : inbox'[c][i] = inbox[c][i+1]
    BY <1>1, HeadTailProperties DEF TypeOK, Receive
  <1>3. link[c] = "up"
    BY DEF ClientInv, Receive
  <1>4. CASE trust[c] = "missed"
    BY <1>1, <1>3, <1>4 DEF ClientInv
  <1>5. CASE trust[c] # "missed"
    <2>1. InStep(c)
      BY <1>3, <1>5 DEF ClientInv
    <2>2. Leads(b) /\ b.from = seen[c]
      BY <1>2, <2>1 DEF InStep, Chain
    <2>3. Chain(c)'
      <3>1. \A i \in 1..n-1 : Leads(inbox[c][i])'
        <4> SUFFICES ASSUME NEW i \in 1..n-1 PROVE Leads(inbox[c][i])'
          OBVIOUS
        <4>1. i + 1 \in 1..n
          BY <1>2
        <4>2. Leads(inbox[c][i+1])
          BY <2>1, <4>1 DEF InStep, Chain
        <4> QED
          BY <1>1, <1>2, <4>2 DEF Leads
      <3>2. \A i \in 1..n-1 : inbox'[c][i].from =
                IF i = 1 THEN seen'[c] ELSE inbox'[c][i-1].upto
        <4> SUFFICES ASSUME NEW i \in 1..n-1
                     PROVE  inbox'[c][i].from =
                                IF i = 1 THEN seen'[c] ELSE inbox'[c][i-1].upto
          OBVIOUS
        <4>1. i + 1 \in 1..n /\ i + 1 # 1 /\ (i + 1) - 1 = i
          BY <1>2
        <4>2. inbox[c][i+1].from = inbox[c][i].upto
          BY <2>1, <4>1 DEF InStep, Chain
        <4>3. i # 1 => i - 1 \in 1..n-1 /\ (i - 1) + 1 = i
          BY <1>2
        <4> QED
          BY <1>1, <1>2, <4>2, <4>3
      <3>3. sent = IF inbox'[c] = <<>> THEN seen'[c] ELSE inbox'[c][n-1].upto
        <4>1. sent = inbox[c][n].upto
          BY <1>2, <2>1 DEF InStep, Chain, Receive
        <4>2. n \in Nat /\ n > 0 /\ Len(inbox'[c]) = n - 1
              /\ inbox'[c] \in Seq(Batch)
          BY <1>2
        <4> HIDE DEF n, b
        <4>3. CASE n = 1
          <5>1. inbox'[c] = <<>>
            BY <4>2, <4>3, EmptySeq
          <5> QED
            BY <1>1, <1>2, <4>1, <4>3, <5>1
        <4>4. CASE n # 1
          <5>1. n - 1 \in 1..n-1 /\ (n - 1) + 1 = n
            BY <4>2, <4>4
          <5>2. inbox'[c] # <<>>
            BY <4>2, <4>4
          <5> QED
            BY <1>2, <4>1, <5>1, <5>2
        <4> QED
          BY <4>3, <4>4
      <3>4. seen'[c] \in 1..Len(log)
        BY <1>1, <2>2 DEF Leads, TypeOK
      <3> QED
        BY <1>1, <1>2, <3>1, <3>2, <3>3, <3>4 DEF Chain
    <2>4. trust[c] = "full" => mirror'[c] = log[seen'[c]]
      BY <1>1, <2>1, <2>2 DEF InStep, Leads
    <2>5. AfterInbox(c)' = AfterInbox(c)
      BY <1>1, AfterTail DEF Receive
    <2>6. trust[c] = "late" =>
              mirror'[c] = [f \in Fields |->
                  IF f \in known'[c] THEN log[seen'[c]][f] ELSE Absent]
      BY <1>1, <2>1, <2>2 DEF InStep, Leads, Apply
    <2> QED
      BY <1>1, <1>3, <2>1, <2>3, <2>4, <2>5, <2>6 DEF InStep, ClientInv
  <1> QED
    BY <1>4, <1>5

LEMMA LogSame == ASSUME TypeOK, log' = log PROVE LogGrows
  BY DEF TypeOK, LogGrows

LEMMA ClientJoin ==
    ASSUME TypeOK, LogInv, NEW c \in Clients, ClientInv(c), Join(c)
    PROVE  ClientInv(c)'
  <1>1. /\ link[c] = "never" /\ link'[c] = "up" /\ seen'[c] = sent
        /\ trust'[c] = IF sent = 1 THEN "full" ELSE "late"
        /\ UNCHANGED <<log, inbox, sent, mirror, known>>
    BY DEF Join, TypeOK, serverVars
  <1>2. /\ inbox[c] = <<>> /\ mirror[c] = EmptyDoc /\ known[c] = {}
    BY <1>1 DEF ClientInv
  <1>3. AfterInbox(c)' = mirror[c]
    BY <1>1, <1>2 DEF AfterInbox, EmptyDoc
  <1>4. Chain(c)'
    BY <1>1, <1>2 DEF Chain, LogInv
  <1> QED
    BY <1>1, <1>2, <1>3, <1>4 DEF ClientInv, InStep, LogInv, EmptyDoc

LEMMA ClientLeave ==
    ASSUME TypeOK, LogInv, NEW c \in Clients, ClientInv(c), Leave(c)
    PROVE  ClientInv(c)'
  <1>1. /\ link[c] = "up" /\ link'[c] = "down" /\ inbox'[c] = <<>>
        /\ trust'[c] = IF inbox[c] = <<>> THEN trust[c] ELSE "missed"
        /\ UNCHANGED <<log, sent, mirror, seen, known>>
    BY DEF Leave, TypeOK, serverVars
  <1>2. CASE inbox[c] = <<>> /\ trust[c] # "missed"
    <2>1. AfterInbox(c)' = AfterInbox(c) /\ InStep(c)
      BY <1>1, <1>2 DEF AfterInbox, ClientInv
    <2>2. Chain(c)'
      BY <1>1, <1>2, <2>1 DEF InStep, Chain
    <2> QED
      BY <1>1, <1>2, <2>1, <2>2 DEF ClientInv, InStep
  <1>3. CASE ~(inbox[c] = <<>> /\ trust[c] # "missed")
    BY <1>1, <1>3 DEF ClientInv
  <1> QED
    BY <1>2, <1>3

LEMMA ClientRejoin ==
    ASSUME TypeOK, NEW c \in Clients, ClientInv(c), Rejoin(c)
    PROVE  ClientInv(c)'
  <1>1. /\ link[c] = "down" /\ link'[c] = "up"
        /\ UNCHANGED <<log, inbox, sent, trust, mirror, seen, known>>
    BY DEF Rejoin, TypeOK, serverVars, wireVars
  <1>2. AfterInbox(c)' = AfterInbox(c)
    BY <1>1 DEF AfterInbox
  <1>3. Chain(c) => Chain(c)'
    BY <1>1 DEF Chain, Leads
  <1> QED
    BY <1>1, <1>2, <1>3 DEF ClientInv, InStep

\* The connections go before the last flush: what the flush says reaches
\* nobody, and a client that should have heard it is not promised more.
LEMMA ClientClose ==
    ASSUME TypeOK, LogInv, FlowInv, NEW c \in Clients, ClientInv(c), Close
    PROVE  ClientInv(c)'
  <1> DEFINE flushed == IF current = 0 THEN NoBatch ELSE chans[current].pending
  <1>1. /\ link'[c] = (IF link[c] = "up" THEN "down" ELSE link[c])
        /\ inbox'[c] = <<>>
        /\ trust'[c] = IF \/ inbox[c] # <<>>
                          \/ link[c] # "never" /\ flushed.size > 0
                       THEN "missed" ELSE trust[c]
        /\ sent' = (IF flushed.size > 0 THEN flushed.upto ELSE sent)
        /\ UNCHANGED <<log, mirror, seen, known>>
    BY DEF Close, TypeOK, serverVars
  <1>2. CASE link[c] = "never"
    BY <1>1, <1>2 DEF ClientInv
  <1>3. CASE link[c] # "never" /\ (inbox[c] # <<>> \/ flushed.size > 0 \/ trust[c] = "missed")
    BY <1>1, <1>3 DEF ClientInv
  <1>4. CASE link[c] # "never" /\ inbox[c] = <<>> /\ ~(flushed.size > 0) /\ trust[c] # "missed"
    <2> HIDE DEF flushed
    <2>1. AfterInbox(c)' = AfterInbox(c) /\ InStep(c) /\ sent' = sent
      BY <1>1, <1>4 DEF AfterInbox, ClientInv
    <2>2. Chain(c)'
      BY <1>1, <1>4, <2>1 DEF InStep, Chain
    <2> QED
      BY <1>1, <1>4, <2>1, <2>2 DEF ClientInv, InStep
  <1> QED
    BY <1>2, <1>3, <1>4

-----------------------------------------------------------------------------
(* Orderly use: the calls and the channel. *)

LEMMA PendingType ==
    ASSUME TypeOK, Pending
    PROVE  /\ current \in 1..MaxChannels
           /\ chans[current].pending \in Batch
  BY BoundsAreNat DEF TypeOK, Pending, Channel

LEMMA BatchOfCall ==
    ASSUME TypeOK, NEW k \in Undelivered
    PROVE  k \in Calls /\ call[k].step = "written" /\ call[k].batch \in Batch
  BY DEF TypeOK, Undelivered, CallState

LEMMA ServerInit == Init => ServerInv
  <1> SUFFICES ASSUME Init PROVE ServerInv
    OBVIOUS
  <1>1. log = <<EmptyDoc>> /\ Len(log) = 1 /\ log[1] = EmptyDoc
    BY DEF Init
  <1>2. Undelivered = {} /\ ~Pending
    BY DEF Init, Undelivered, Pending
  <1>3. FlowInv
    BY <1>1, <1>2, NoBatchFacts DEF Init, FlowInv, Tip, SyncChannel
  <1> QED
    BY <1>1, <1>3 DEF Init, ServerInv, OneCall, LogInv

LEMMA ServerFrame ==
    ASSUME ServerInv, UNCHANGED <<serverVars, sent, chans, current>>
    PROVE  ServerInv'
  BY DEF ServerInv, OneCall, LogInv, FlowInv, Leads, Pending, Tip, Undelivered,
         serverVars

\* The only channel of the key is new.
LEMMA ServerInstall ==
    ASSUME TypeOK, Orderly, ServerInv, NEW s \in FlushStrategy, Install(s)
    PROVE  ServerInv'
  <1>1. /\ current = 0 /\ current' = 1 /\ 1 \in 1..MaxChannels
        /\ chans' = [chans EXCEPT ![1] = SyncChannel(s, NoBatch, FALSE)]
        /\ UNCHANGED <<serverVars, sent>>
    <2>1. current = 0 /\ current < MaxChannels
      BY DEF Orderly, Install
    <2> QED
      BY <2>1, BoundsAreNat DEF Install, wireVars
  <1>2. chans'[1].pending = NoBatch /\ chans'[1].pending.size = 0
    BY <1>1, NoBatchFacts DEF TypeOK, SyncChannel
  <1>3. ~Pending /\ ~Pending' /\ Tip' = Tip
    <2>1. current = 0 /\ current' = 1
      BY <1>1
    <2>2. ~Pending /\ ~Pending'
      BY <1>2, <2>1 DEF Pending
    <2> QED
      BY <1>1, <2>2 DEF Tip
  <1>4. \A h \in 1..MaxChannels : h # current' => chans'[h].pending.size = 0
    BY <1>1 DEF TypeOK, ServerInv, FlowInv
  <1>5. FlowInv'
    BY <1>1, <1>3, <1>4 DEF ServerInv, FlowInv, Leads, Undelivered, serverVars
  <1> QED
    BY <1>1, <1>5 DEF ServerInv, OneCall, LogInv, serverVars

LEMMA ServerTimer ==
    ASSUME TypeOK, ServerInv, NEW h \in 1..MaxChannels, FlushTimer(h)
    PROVE  ServerInv'
  <1> DEFINE b == chans[h].pending
             ch == SyncChannel(chans[h].strategy, NoBatch, FALSE)
  <1>1. UNCHANGED <<serverVars, current>>
    BY DEF FlushTimer
  <1>2. \A g \in 1..MaxChannels : chans'[g] = IF g = h THEN ch ELSE chans[g]
    BY DEF TypeOK, FlushTimer, Hold, FlushOut
  <1>3. chans'[h].pending.size = 0
    BY <1>2, NoBatchFacts DEF SyncChannel
  <1>4. \A g \in 1..MaxChannels : g # current => chans'[g].pending.size = 0
    BY <1>2, <1>3 DEF ServerInv, FlowInv
  <1>5. b \in Batch
    BY DEF TypeOK, Channel
  <1> HIDE DEF ch
  <1>6. CASE b.size = 0
    <2>1. sent' = sent
      BY <1>6 DEF FlushTimer, Hold, wireVars
    <2>2. /\ Pending' = Pending
          /\ Pending => chans'[current].pending = chans[current].pending
      <3>1. CASE h = current
        BY <1>1, <1>3, <1>6, <3>1 DEF Pending
      <3>2. CASE h # current
        <4>1. current # 0 => current \in 1..MaxChannels
          BY CurrentType
        <4> QED
          BY <1>1, <1>2, <3>2, <4>1 DEF Pending
      <3> QED
        BY <3>1, <3>2
    <2>3. Tip' = Tip
      BY <1>1, <2>1, <2>2 DEF Tip
    <2>4. FlowInv'
      BY <1>1, <1>4, <2>1, <2>2, <2>3
      DEF ServerInv, FlowInv, Leads, Undelivered, serverVars
    <2> QED
      BY <1>1, <2>1, <2>4 DEF ServerInv, OneCall, LogInv, serverVars
  <1>7. CASE b.size # 0
    <2>1. h = current /\ Pending
      BY <1>5, <1>7 DEF ServerInv, FlowInv, Pending, Batch
    <2>2. sent' = b.upto /\ ~Pending'
      BY <1>1, <1>3, <1>7, <2>1 DEF FlushTimer, FlushOut, Broadcast, Pending
    <2>3. Leads(b) /\ Tip = b.upto /\ Tip' = Tip
      BY <2>1, <2>2 DEF ServerInv, FlowInv, Tip
    <2>4. sent' \in 1..Len(log)
      BY <2>2, <2>3 DEF Leads, TypeOK
    <2>5. FlowInv'
      BY <1>1, <1>4, <2>2, <2>3 DEF ServerInv, FlowInv, Leads, Undelivered, serverVars
    <2> QED
      BY <1>1, <2>4, <2>5 DEF ServerInv, OneCall, LogInv, serverVars
  <1> QED
    BY <1>6, <1>7

LEMMA ServerClose ==
    ASSUME TypeOK, ServerInv, Close
    PROVE  ServerInv'
  <1>1. current' = 0 /\ UNCHANGED serverVars
    BY DEF Close
  <1>2. ~Pending'
    BY <1>1 DEF Pending
  <1>3. sent' = Tip
    BY NoBatchFacts DEF Close, Tip, Pending
  <1>4. Tip' = Tip
    BY <1>2, <1>3 DEF Tip
  <1>5. \A h \in 1..MaxChannels : h # current' => chans'[h].pending.size = 0
    BY NoBatchFacts DEF Close, SyncChannel, ServerInv, FlowInv
  <1>6. sent' \in 1..Len(log)
    BY <1>3, PendingType DEF ServerInv, FlowInv, LogInv, Leads, Tip, TypeOK, Batch
  <1>7. FlowInv'
    BY <1>1, <1>2, <1>4, <1>5 DEF ServerInv, FlowInv, Leads, Undelivered, serverVars
  <1> QED
    BY <1>1, <1>6, <1>7 DEF ServerInv, OneCall, LogInv, serverVars

LEMMA ServerRead ==
    ASSUME TypeOK, Orderly, ServerInv, NEW k \in Calls, NEW value \in Doc,
           Read(k, value)
    PROVE  ServerInv'
  <1>1. /\ \A j \in Calls : call[j].step = "idle"
        /\ call' = [call EXCEPT ![k] = [step |-> "read", old |-> store, new |-> value]]
        /\ UNCHANGED <<store, log, sent, current, chans>>
    BY DEF Read, Orderly, channelVars, wireVars
  <1>2. OneCall'
    BY <1>1 DEF OneCall, TypeOK
  <1>3. Undelivered = {} /\ Undelivered' = {}
    BY <1>1 DEF Undelivered, TypeOK
  <1>4. FlowInv'
    BY <1>1, <1>3 DEF ServerInv, FlowInv, Pending, Tip, Leads
  <1> QED
    BY <1>1, <1>2, <1>4 DEF ServerInv, LogInv

\* The patch starts from the document the log ends with.
LEMMA ServerWrite ==
    ASSUME TypeOK, ServerInv, NEW k \in Calls, Write(k)
    PROVE  LogGrows /\ ServerInv'
  <1> DEFINE new == call[k].new
             n == Len(log)
             m == Len(log')
  <1>1. /\ call[k].step = "read" /\ call[k].old = store /\ new \in Doc
        /\ \A j \in Calls : j # k => call[j].step = "idle"
    BY WriteFacts DEF ServerInv, OneCall, Write
  <1>2. PICK b \in Batch :
        /\ store' = new /\ log' = (IF new = store THEN log ELSE Append(log, new))
        /\ call' = [call EXCEPT ![k] = [step |-> "written", batch |-> b]]
        /\ b.from = n /\ b.upto = m
        /\ b.patch = Diff(store, new) /\ b.size = Cardinality(DOMAIN b.patch)
        /\ UNCHANGED <<chans, current, sent>>
    BY ZenonT(40), <1>1, WriteFacts DEF Write, channelVars, wireVars
  <1>3. /\ n \in Nat \ {0} /\ m \in Nat /\ n <= m
        /\ \A i \in 1..n : log'[i] = log[i]
        /\ log'[m] = new
        /\ new = store => m = n
    <2>1. n \in Nat \ {0} /\ log \in Seq(Doc)
      BY DEF TypeOK
    <2>2. CASE new = store
      BY <1>2, <2>1, <2>2 DEF ServerInv, LogInv
    <2>3. CASE new # store
      BY <1>1, <1>2, <2>1, <2>3, AppendProperties
    <2> QED
      BY <2>2, <2>3
  <1>4. LogGrows
    BY <1>3 DEF LogGrows
  <1>5. LogInv'
    BY <1>2, <1>3 DEF ServerInv, LogInv
  <1>6. OneCall'
    <2>1. call'[k].step = "written" /\ \A j \in Calls : j # k => call'[j].step = "idle"
      BY <1>1, <1>2 DEF TypeOK
    <2> QED
      BY <2>1 DEF OneCall
  <1>7. store \in Doc /\ log[n] = store /\ Tip = n
    <2>1. Undelivered = {}
      BY <1>1 DEF Undelivered
    <2> QED
      BY <2>1 DEF TypeOK, ServerInv, LogInv, FlowInv
  <1>8. Undelivered' = {k} /\ call'[k].batch = b
    BY <1>1, <1>2 DEF Undelivered, TypeOK
  <1>9. Leads(b)'
    <2>1. Apply(store, b.patch) = new
      BY <1>1, <1>2, <1>7, DiffFacts
    <2> QED
      BY <1>2, <1>3, <1>7, <2>1 DEF Leads
  <1>10. b.size = 0 => m = n
    BY <1>1, <1>2, <1>3, <1>7, DiffFacts
  <1>11. Pending' = Pending /\ Tip' = Tip
    BY <1>2 DEF Pending, Tip
  <1>12. Pending => Leads(chans[current].pending)'
    BY <1>2, <1>4, PendingType, LeadsOn DEF ServerInv, FlowInv
  <1>13. FlowInv'
    <2>1. /\ Leads(call[k].batch)' /\ call'[k].batch.from = Tip'
          /\ call'[k].batch.upto = Len(log')
          /\ call'[k].batch.size = 0 => Tip' = Len(log')
      BY <1>2, <1>7, <1>8, <1>9, <1>10, <1>11
    <2>2. \A j \in Undelivered' : j = k
      BY <1>8
    <2>3. Pending' => /\ Leads(chans[current].pending)'
                      /\ chans'[current'].pending.from = sent'
      BY <1>2, <1>11, <1>12 DEF ServerInv, FlowInv
    <2>4. \A h \in 1..MaxChannels : h # current' => chans'[h].pending.size = 0
      BY <1>2 DEF ServerInv, FlowInv
    <2> QED
      BY <1>8, <2>1, <2>2, <2>3, <2>4 DEF FlowInv
  <1> QED
    BY <1>4, <1>5, <1>6, <1>13 DEF ServerInv

\* The pending patches and the difference that joins them lead from what was
\* sent to where the difference leads.
LEMMA MergeLeads ==
    ASSUME TypeOK, ServerInv, NEW k \in Undelivered, current # 0,
           call[k].batch.size > 0
    PROVE  LET more == Merge(chans[current].pending, call[k].batch)
           IN  /\ Leads(more) /\ more.from = sent /\ more.size > 0
               /\ more.upto = call[k].batch.upto
  <1> DEFINE b == call[k].batch
             p == chans[current].pending
             more == Merge(p, b)
  <1>1. p \in Batch /\ b \in Batch /\ more \in Batch
    BY CurrentType, BatchOfCall, MergeFacts
  <1>2. Leads(b) /\ b.from = Tip
    BY DEF ServerInv, FlowInv
  <1>3. CASE p.size = 0
    <2>1. more = b /\ ~Pending
      BY <1>1, <1>3, MergeFacts DEF Pending
    <2> QED
      BY <1>2, <2>1 DEF Tip
  <1>4. CASE p.size # 0
    <2>1. Pending
      BY <1>1, <1>4 DEF Pending, Batch
    <2>2. Leads(p) /\ p.from = sent /\ Tip = p.upto
      BY <2>1 DEF ServerInv, FlowInv, Tip
    <2>3. /\ more.from = p.from /\ more.upto = b.upto
          /\ more.patch = Compose(p.patch, b.patch) /\ more.size = p.size + b.size
      BY <1>1, <1>4, MergeFacts
    <2>4. more.size > 0
      BY <1>1, <1>4, <2>3 DEF Batch
    <2>5. p.from \in 1..Len(log) /\ p.upto \in p.from..Len(log) /\ b.upto \in p.upto..Len(log)
      BY <1>2, <2>2 DEF Leads
    <2>6. log[p.from] \in Doc /\ p.patch \in Patch /\ b.patch \in Patch
      BY SMTT(30), <1>1, <2>5 DEF TypeOK, Batch
    <2>7. Apply(log[p.from], more.patch) = log[b.upto]
      <3>1. Apply(log[p.from], p.patch) = log[p.upto] /\ Apply(log[p.upto], b.patch) = log[b.upto]
        BY <1>2, <2>2 DEF Leads
      <3> QED
        BY <2>3, <2>6, <3>1, ComposeFacts
    <2>8. b.upto \in p.from..Len(log)
      BY <2>5 DEF TypeOK
    <2> HIDE DEF more
    <2>9. /\ Leads(more) /\ more.from = sent /\ more.size > 0
          /\ more.upto = b.upto
      BY <2>2, <2>3, <2>4, <2>5, <2>7, <2>8 DEF Leads
    <2> QED
      BY <2>9 DEF more
  <1> QED
    BY <1>3, <1>4

LEMMA DeliverFacts ==
    ASSUME TypeOK, ServerInv, NEW k \in Calls, Deliver(k)
    PROVE  LET b == call[k].batch IN
           /\ k \in Undelivered /\ b \in Batch /\ Leads(b)
           /\ b.from = Tip /\ b.upto = Len(log)
           /\ b.size = 0 => Tip = Len(log)
           /\ \A j \in Calls : call'[j].step = "idle"
           /\ Undelivered' = {}
           /\ UNCHANGED <<store, log, current>>
  <1>1. k \in Undelivered /\ \A j \in Calls : j # k => call[j].step = "idle"
    BY DEF Deliver, Undelivered, ServerInv, OneCall
  <1>2. \A j \in Calls : call'[j].step = "idle"
    BY <1>1 DEF Deliver, TypeOK
  <1>3. Undelivered' = {}
    BY <1>2 DEF Undelivered
  <1>4. UNCHANGED <<store, log, current>>
    BY DEF Deliver
  <1> QED
    BY <1>1, <1>2, <1>3, <1>4, BatchOfCall DEF ServerInv, FlowInv

LEMMA ServerDeliver ==
    ASSUME TypeOK, ServerInv, NEW k \in Calls, Deliver(k)
    PROVE  ServerInv'
  <1> DEFINE b == call[k].batch
             p == chans[current].pending
             more == Merge(p, b)
  <1>1. /\ k \in Undelivered /\ b \in Batch /\ Leads(b)
        /\ b.from = Tip /\ b.upto = Len(log)
        /\ b.size = 0 => Tip = Len(log)
        /\ \A j \in Calls : call'[j].step = "idle"
        /\ Undelivered' = {}
        /\ UNCHANGED <<store, log, current>>
    BY DeliverFacts
  <1>2. OneCall'
    BY <1>1 DEF OneCall
  <1>3. Len(log) \in Nat \ {0}
    BY DEF TypeOK
  <1>4. SUFFICES /\ sent' \in 1..Len(log)
                 /\ \A h \in 1..MaxChannels : h # current => chans'[h].pending.size = 0
                 /\ Pending' => /\ Leads(chans[current].pending)'
                                /\ chans'[current].pending.from = sent'
                 /\ Tip' = Len(log)
    BY <1>1, <1>2 DEF ServerInv, LogInv, FlowInv
  <1>5. CASE b.size = 0 /\ UNCHANGED <<chans, wireVars>>
    <2>1. Pending' = Pending /\ Tip' = Tip /\ sent' = sent
      BY <1>1, <1>5 DEF Pending, Tip, wireVars
    <2> QED
      BY <1>1, <1>5, <2>1 DEF ServerInv, LogInv, FlowInv, Leads
  <1>6. CASE current = 0 /\ Broadcast(b) /\ UNCHANGED chans
    <2>1. ~Pending' /\ sent' = b.upto
      BY <1>1, <1>6 DEF Pending, Broadcast
    <2> QED
      BY <1>1, <1>3, <1>6, <2>1 DEF ServerInv, FlowInv, Tip
  <1>7. ASSUME b.size > 0, current \in 1..MaxChannels,
               FlushOut(current, more, chans[current].timer)
               \/ Hold(current, more, TRUE)
        PROVE  /\ sent' \in 1..Len(log)
               /\ \A h \in 1..MaxChannels : h # current => chans'[h].pending.size = 0
               /\ Pending' => /\ Leads(chans[current].pending)'
                              /\ chans'[current].pending.from = sent'
               /\ Tip' = Len(log)
    <2>1. Leads(more) /\ more.from = sent /\ more.size > 0 /\ more.upto = Len(log)
      BY <1>1, <1>7, MergeLeads
    <2>2. \A h \in 1..MaxChannels : h # current => chans'[h] = chans[h]
      BY <1>7 DEF FlushOut, Hold, TypeOK
    <2>3. \A h \in 1..MaxChannels : h # current => chans'[h].pending.size = 0
      BY <2>2 DEF ServerInv, FlowInv
    <2> HIDE DEF more
    <2>4. CASE FlushOut(current, more, chans[current].timer)
      <3>1. chans'[current].pending.size = 0 /\ sent' = more.upto
        BY <1>7, <2>4, NoBatchFacts DEF FlushOut, Broadcast, SyncChannel, TypeOK
      <3>2. ~Pending'
        BY <1>1, <3>1 DEF Pending
      <3> QED
        BY <1>3, <2>1, <2>3, <3>1, <3>2 DEF Tip
    <2>5. CASE Hold(current, more, TRUE)
      <3>1. chans'[current].pending = more /\ sent' = sent
        BY <1>7, <2>5 DEF Hold, SyncChannel, TypeOK, wireVars
      <3>2. Pending' /\ Tip' = more.upto
        BY <1>1, <1>7, <2>1, <3>1 DEF Pending, Tip
      <3>3. Leads(chans[current].pending)'
        BY <1>1, <2>1, <3>1 DEF Leads
      <3> QED
        BY <2>1, <2>3, <3>1, <3>2, <3>3 DEF ServerInv, LogInv
    <2> QED
      BY <1>7, <2>4, <2>5
  <1> QED
    BY <1>5, <1>6, <1>7, DeliverCases

-----------------------------------------------------------------------------
(* The inductive step, and the theorems. *)

LEMMA OrderlyInit == Init => OrderlyInv
  <1> SUFFICES ASSUME Init PROVE OrderlyInv
    OBVIOUS
  <1>1. \A c \in Clients : ClientInv(c)
    BY DEF Init, ClientInv
  <1> QED
    BY <1>1, ServerInit DEF OrderlyInv

LEMMA OrderlyTimer ==
    ASSUME TypeOK, OrderlyInv, NEW h \in 1..MaxChannels, FlushTimer(h)
    PROVE  OrderlyInv'
  <1> DEFINE b == chans[h].pending
  <1>1. ASSUME NEW c \in Clients PROVE ClientInv(c)'
    <2>1. LogGrows /\ ClientInv(c) /\ LogInv
      BY LogSame DEF FlushTimer, serverVars, OrderlyInv, ServerInv
    <2>2. CASE b.size = 0
      BY <2>1, <2>2, ClientFrame DEF FlushTimer, Hold, wireVars, clientVars, SameClient
    <2>3. CASE b.size # 0
      <3>1. b \in Batch
        BY DEF TypeOK, Channel
      <3>2. h = current /\ Pending
        BY <2>3, <3>1 DEF OrderlyInv, ServerInv, FlowInv, Pending, Batch
      <3>3. Leads(b) /\ b.from = sent
        BY <3>2 DEF OrderlyInv, ServerInv, FlowInv
      <3>4. Broadcast(b) /\ UNCHANGED <<log, link, mirror, seen, known>>
        BY <2>3 DEF FlushTimer, FlushOut, serverVars, clientVars
      <3> QED
        BY <2>1, <3>1, <3>3, <3>4, ClientBroadcast
    <2> QED
      BY <2>2, <2>3
  <1> QED
    BY <1>1, ServerTimer DEF OrderlyInv

LEMMA OrderlyDeliver ==
    ASSUME TypeOK, OrderlyInv, NEW k \in Calls, Deliver(k)
    PROVE  OrderlyInv'
  <1> DEFINE b == call[k].batch
             p == chans[current].pending
             more == Merge(p, b)
  <1>1. ServerInv /\ ServerInv'
    BY ServerDeliver DEF OrderlyInv
  <1>2. /\ k \in Undelivered /\ b \in Batch /\ Leads(b) /\ b.from = Tip
        /\ UNCHANGED <<log, link, mirror, seen, known>>
    BY <1>1, DeliverFacts DEF Deliver, clientVars
  <1>3. ASSUME NEW c \in Clients PROVE ClientInv(c)'
    <2>1. LogGrows /\ ClientInv(c) /\ LogInv
      BY <1>1, <1>2, LogSame DEF OrderlyInv, ServerInv
    <2>2. CASE UNCHANGED wireVars
      BY <1>2, <2>1, <2>2, ClientFrame DEF wireVars, SameClient
    <2>3. CASE current = 0 /\ Broadcast(b)
      <3>1. b.from = sent
        BY <1>2, <2>3 DEF Tip, Pending
      <3> QED
        BY <1>2, <2>1, <2>3, <3>1, ClientBroadcast
    <2>4. ASSUME b.size > 0, current \in 1..MaxChannels, more \in Batch,
                 FlushOut(current, more, chans[current].timer)
          PROVE  ClientInv(c)'
      <3>1. Leads(more) /\ more.from = sent
        BY <1>1, <1>2, <2>4, MergeLeads
      <3>2. Broadcast(more)
        BY <2>4 DEF FlushOut
      <3> HIDE DEF more
      <3> QED
        BY <1>2, <2>1, <2>4, <3>1, <3>2, ClientBroadcast
    <2> QED
      BY <2>2, <2>3, <2>4, DeliverCases DEF Hold
  <1> QED
    BY <1>1, <1>3 DEF OrderlyInv

\* A step of one client leaves the others, and the server, as they are.
LEMMA OrderlyClient ==
    ASSUME TypeOK, OrderlyInv, NEW c \in Clients,
           Receive(c) \/ Join(c) \/ Leave(c) \/ Rejoin(c)
    PROVE  OrderlyInv'
  <1>1. UNCHANGED <<serverVars, sent, chans, current>>
    BY DEF Receive, Join, Leave, Rejoin, channelVars, wireVars
  <1>2. ServerInv' /\ LogGrows /\ LogInv
    BY <1>1, ServerFrame, LogSame DEF OrderlyInv, ServerInv, serverVars
  <1>3. ASSUME NEW d \in Clients, d # c PROVE SameClient(d)
    BY <1>3 DEF SameClient, TypeOK, Receive, Join, Leave, Rejoin, wireVars
  <1>4. ASSUME NEW d \in Clients PROVE ClientInv(d)'
    <2>1. CASE d = c
      BY <1>2, <2>1, ClientReceive, ClientJoin, ClientLeave, ClientRejoin
      DEF OrderlyInv
    <2>2. CASE d # c
      BY <1>1, <1>2, <1>3, <2>2, ClientFrame DEF OrderlyInv
    <2> QED
      BY <2>1, <2>2
  <1> QED
    BY <1>2, <1>4 DEF OrderlyInv

\* The steps that leave the wire and the clients alone.
LEMMA OrderlyServer ==
    ASSUME TypeOK, OrderlyInv, ServerInv', LogGrows,
           UNCHANGED <<wireVars, clientVars>>
    PROVE  OrderlyInv'
  <1>1. ASSUME NEW c \in Clients PROVE ClientInv(c)'
    BY ClientFrame DEF OrderlyInv, ServerInv, wireVars, clientVars, SameClient
  <1> QED
    BY <1>1 DEF OrderlyInv

LEMMA OrderlyStep == TypeOK /\ Orderly /\ OrderlyInv /\ [Next]_vars => OrderlyInv'
  <1> SUFFICES ASSUME TypeOK, Orderly, OrderlyInv, [Next]_vars PROVE OrderlyInv'
    OBVIOUS
  <1> USE DEF OrderlyInv
  <1>1. ASSUME NEW s \in FlushStrategy, Install(s) PROVE OrderlyInv'
    <2>1. LogGrows /\ UNCHANGED <<wireVars, clientVars>>
      BY <1>1, LogSame DEF Install, serverVars
    <2> QED
      BY <1>1, <2>1, ServerInstall, OrderlyServer
  <1>2. CASE CloseDataChannel \/ UNCHANGED vars
    <2>1. UNCHANGED <<serverVars, sent, chans, current, wireVars, clientVars>>
      BY <1>2 DEF CloseDataChannel, vars, serverVars, wireVars, clientVars
    <2>2. LogGrows
      BY <2>1, LogSame DEF serverVars
    <2> QED
      BY <2>1, <2>2, ServerFrame, OrderlyServer
  <1>3. CASE Close
    <2>1. ASSUME NEW c \in Clients PROVE ClientInv(c)'
      BY <1>3, ClientClose DEF ServerInv
    <2> QED
      BY <1>3, <2>1, ServerClose
  <1>4. ASSUME NEW k \in Calls, NEW value \in Doc, Read(k, value)
        PROVE  OrderlyInv'
    <2>1. LogGrows /\ UNCHANGED <<wireVars, clientVars>>
      BY <1>4, LogSame DEF Read
    <2> QED
      BY <1>4, <2>1, ServerRead, OrderlyServer
  <1>5. ASSUME NEW k \in Calls, Write(k) PROVE OrderlyInv'
    <2>1. UNCHANGED <<wireVars, clientVars>>
      BY <1>5 DEF Write
    <2> QED
      BY <1>5, <2>1, ServerWrite, OrderlyServer
  <1> QED
    BY <1>1, <1>2, <1>3, <1>4, <1>5, OrderlyTimer, OrderlyDeliver, OrderlyClient
    DEF Next, CreateSyncChannel, CreateDataChannel

LEMMA ModeIsConstant == [Next]_vars => mode' = mode
  BY DEF Next, vars, CreateSyncChannel, CreateDataChannel, Install,
         CloseDataChannel, Close, FlushTimer, Read, Write, Deliver,
         Receive, Join, Leave, Rejoin

LEMMA Invariant == Spec => []IInv
  <1>1. Init => IInv
    BY InitType, ChannelInit, OrderlyInit DEF IInv
  <1>2. IInv /\ [Next]_vars => IInv'
    <2> SUFFICES ASSUME IInv, [Next]_vars PROVE IInv'
      OBVIOUS
    <2>1. TypeOK' /\ ChannelInv'
      BY TypeStep, ChannelStep DEF IInv
    <2>2. mode' = mode
      BY ModeIsConstant
    <2>3. Orderly' => Orderly
      BY <2>2 DEF Orderly
    <2> QED
      BY <2>1, <2>3, OrderlyStep DEF IInv
  <1> QED
    BY <1>1, <1>2, PTL DEF Spec

LEMMA NothingIsLost == IInv => NothingLost
  <1> SUFFICES ASSUME IInv, Orderly, NEW c \in Clients, link[c] = "up",
                      trust[c] = "full"
               PROVE  IF Undelivered = {} THEN AfterChannel(c) = store
                      ELSE \A k \in Undelivered :
                               Apply(AfterChannel(c), call[k].batch.patch) = store
    BY DEF NothingLost
  <1>0. TypeOK /\ ChannelInv /\ LogInv /\ FlowInv /\ ClientInv(c)
    BY DEF IInv, OrderlyInv, ServerInv
  <1>1. AfterInbox(c) = log[sent] /\ log[sent] \in Doc
    BY <1>0 DEF ClientInv, InStep, LogInv, TypeOK
  <1>2. AfterChannel(c) = log[Tip]
    <2>1. CASE Pending
      BY <1>0, <1>1, <2>1 DEF AfterChannel, FlowInv, Leads, Pending, Tip
    <2>2. CASE ~Pending
      <3>1. CASE current = 0
        BY <1>1, <3>1 DEF AfterChannel, Pending, Tip
      <3>2. CASE current # 0
        <4>1. chans[current].pending = NoBatch
          BY <1>0, <2>2, <3>2, CurrentType DEF Pending, ChannelInv, HoldsBatches, Batch
        <4>2. Apply(log[sent], NoBatch.patch) = log[sent]
          BY <1>1, NoBatchFacts DEF Apply, Doc
        <4> QED
          BY <1>1, <2>2, <3>2, <4>1, <4>2 DEF AfterChannel, Tip
      <3> QED
        BY <3>1, <3>2
    <2> QED
      BY <2>1, <2>2
  <1>3. log[Len(log)] = store
    BY <1>0 DEF LogInv
  <1>4. ASSUME NEW k \in Undelivered
        PROVE  Apply(AfterChannel(c), call[k].batch.patch) = store
    BY <1>0, <1>2, <1>3 DEF FlowInv, Leads
  <1> QED
    BY <1>0, <1>2, <1>3, <1>4 DEF FlowInv

LEMMA NeverTorn == IInv => MirrorNeverTorn
  <1> SUFFICES ASSUME IInv, Orderly, NEW c \in Clients
               PROVE  /\ trust[c] = "full" => mirror[c] = log[seen[c]]
                      /\ trust[c] = "late" =>
                             mirror[c] = [f \in Fields |->
                                 IF f \in known[c] THEN log[seen[c]][f] ELSE Absent]
    BY DEF MirrorNeverTorn
  <1>1. ClientInv(c) /\ log[1] = EmptyDoc
    BY DEF IInv, OrderlyInv, ServerInv, LogInv
  <1> QED
    BY <1>1 DEF ClientInv, InStep

\* No patch is forgotten or held back too long, everything on its way leads to
\* the stored document, and no mirror is torn: the work of setState, of the
\* channel's flushes and of the client's StateStore together.
THEOREM PatchesAlwaysAddUp == Spec => []PatchesAddUp
  <1>1. IInv => PatchesAddUp
    BY NothingIsLost, NeverTorn DEF PatchesAddUp, IInv, ChannelInv
  <1> QED
    BY <1>1, Invariant, PTL

-----------------------------------------------------------------------------
(* Live state implements the abstract replication. *)

LEMMA ReplicaInit == Init => Replica!Init
  BY DEF Init, Replica!Init

LEMMA PromisesEnd ==
    ASSUME TypeOK, OrderlyInv, [Next]_vars, NEW c \in Clients, trust'[c] = "full"
    PROVE  trust[c] = "full"
  <1>1. ASSUME NEW b, Broadcast(b) PROVE trust[c] = "full"
    BY <1>1 DEF Broadcast
  <1>2. CASE UNCHANGED trust
    BY <1>2
  <1>3. ASSUME NEW h \in 1..MaxChannels, FlushTimer(h) PROVE trust[c] = "full"
    BY <1>1, <1>2, <1>3 DEF FlushTimer, FlushOut, Hold, wireVars
  <1>4. ASSUME NEW k \in Calls, Deliver(k) PROVE trust[c] = "full"
    BY <1>1, <1>2, <1>4, DeliverCases DEF FlushOut, Hold, wireVars
  <1>5. ASSUME NEW d \in Clients, Join(d) PROVE trust[c] = "full"
    BY <1>5 DEF Join, TypeOK, OrderlyInv, ClientInv
  <1>6. ASSUME NEW d \in Clients, Leave(d) PROVE trust[c] = "full"
    BY <1>6 DEF Leave, TypeOK
  <1>7. CASE Close
    BY <1>7 DEF Close
  <1> QED
    BY <1>2, <1>3, <1>4, <1>5, <1>6, <1>7
    DEF Next, vars, CreateSyncChannel, CreateDataChannel, Install,
        CloseDataChannel, Read, Write, Receive, Rejoin, wireVars

LEMMA SeenGrows ==
    ASSUME TypeOK, OrderlyInv, [Next]_vars, NEW c \in Clients, trust'[c] = "full"
    PROVE  seen'[c] >= seen[c]
  <1>1. CASE UNCHANGED seen
    BY <1>1 DEF TypeOK
  <1>2. ASSUME NEW d \in Clients, Join(d) PROVE seen'[c] >= seen[c]
    BY <1>2 DEF Join, TypeOK, OrderlyInv, ServerInv, LogInv, ClientInv
  <1>3. ASSUME NEW d \in Clients, Receive(d) PROVE seen'[c] >= seen[c]
    <2>1. CASE d = c
      <3>1. trust[c] = "full" /\ link[c] = "up" /\ inbox[c] # <<>>
        BY <1>3, <2>1 DEF Receive, OrderlyInv, ClientInv
      <3>2. Head(inbox[c]) = inbox[c][1] /\ 1 \in 1..Len(inbox[c])
        BY <3>1 DEF TypeOK
      <3>3. Leads(inbox[c][1]) /\ inbox[c][1].from = seen[c]
        BY <3>1, <3>2 DEF OrderlyInv, ClientInv, InStep, Chain
      <3>4. seen'[c] = inbox[c][1].upto
        BY <1>3, <2>1, <3>2 DEF Receive, TypeOK
      <3> QED
        BY <3>3, <3>4 DEF Leads, TypeOK
    <2>2. CASE d # c
      BY <1>3, <2>2 DEF Receive, TypeOK
    <2> QED
      BY <2>1, <2>2
  <1> QED
    BY <1>1, <1>2, <1>3
    DEF Next, vars, CreateSyncChannel, CreateDataChannel, Install,
        CloseDataChannel, Close, FlushTimer, Read, Write, Deliver, Leave,
        Rejoin, clientVars

LEMMA HistoryGrows ==
    ASSUME TypeOK, [Next]_vars
    PROVE  /\ Len(log') >= Len(log)
           /\ \A i \in 1..Len(log) : log'[i] = log[i]
  <1>1. CASE UNCHANGED log
    BY <1>1 DEF TypeOK
  <1>2. ASSUME NEW k \in Calls, Write(k), log' # log
        PROVE  /\ Len(log') >= Len(log)
               /\ \A i \in 1..Len(log) : log'[i] = log[i]
    <2>1. log' = Append(log, store') /\ store' \in Doc /\ log \in Seq(Doc)
      BY <1>2, WriteFacts DEF TypeOK
    <2> QED
      BY <2>1, AppendProperties
  <1> QED
    BY <1>1, <1>2
    DEF Next, vars, CreateSyncChannel, CreateDataChannel, Install,
        CloseDataChannel, Close, FlushTimer, Read, Deliver, Receive, Join,
        Leave, Rejoin, serverVars

LEMMA ReplicaStep ==
    IInv /\ IInv' /\ [Next]_vars => [Replica!Next]_Replica!vars
  <1> SUFFICES ASSUME IInv, IInv', [Next]_vars PROVE Replica!Next
    OBVIOUS
  <1> DEFINE promised == {c \in Clients : Orderly /\ trust[c] = "full"}
  <1>1. TypeOK
    BY DEF IInv
  <1>2. mode' = mode
    BY ModeIsConstant
  <1>3. ASSUME NEW c \in promised'
        PROVE  /\ c \in promised
               /\ seen'[c] >= seen[c]
               /\ seen'[c] \in 1..Len(log') /\ mirror'[c] = log'[seen'[c]]
    <2>1. c \in Clients /\ Orderly /\ Orderly' /\ trust'[c] = "full"
      BY <1>2 DEF Orderly
    <2>2. OrderlyInv /\ OrderlyInv'
      BY <2>1 DEF IInv
    <2>3. seen'[c] \in 1..Len(log') /\ mirror'[c] = log'[seen'[c]]
      BY <2>1, <2>2 DEF OrderlyInv, ServerInv, LogInv, ClientInv, InStep, Chain, IInv, TypeOK
    <2> QED
      BY <1>1, <2>1, <2>2, <2>3, PromisesEnd, SeenGrows
  <1>4. promised' \subseteq promised
    BY <1>3
  <1> QED
    BY <1>1, <1>3, <1>4, HistoryGrows DEF Replica!Next, Replica!ShowsHistory

\* Live state is a replication: the documents the clients show are documents
\* the server has held, in the order it held them.
THEOREM Implements == Spec => Replicates
  <1>1. Spec => []IInv
    BY Invariant
  <1> QED
    BY <1>1, ReplicaInit, ReplicaStep, PTL DEF Spec, Replicates, Replica!Spec

=============================================================================
