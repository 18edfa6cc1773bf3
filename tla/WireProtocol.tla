---------------------------- MODULE WireProtocol ----------------------------
(***************************************************************************)
(* Frames between one client and the server over an open connection: how   *)
(* they are encoded, compressed, told apart and refused when too long, and *)
(* what becomes of the calls, events and patches they carry.  Handlers     *)
(* answer in any order, the limiter may refuse any frame, calls time out,  *)
(* and patches are sent at once or in batches.                             *)
(*                                                                         *)
(* Of a payload its size is kept, and the numbers of what it carries.  The *)
(* life of connections is in ClientConnection, the limiter's decisions in  *)
(* ServerTransport, the shared ring in SharedRing.                         *)
(***************************************************************************)
EXTENDS Naturals, FiniteSets, Sequences, SequencesExt

CONSTANTS Sizes,        \* of payloads the application may make
          MaxPayload,   \* MAX_FRAME_PAYLOAD
          Threshold,    \* COMPRESSION_THRESHOLD
          Ids,          \* correlation ids: 2^32 in the code
          MaxName,      \* maxEventNameLength
          MaxBatch,     \* maxBatchSize of the sync channel
          MaxInputs     \* bound: calls, events, patches and refusals

ASSUME SizesAreNat == Sizes \subseteq Nat
ASSUME LimitsAreNat == {MaxPayload, Threshold, MaxName, MaxInputs} \subseteq Nat
ASSUME CountsArePositive == {Ids, MaxBatch} \subseteq Nat \ {0}

\* The client.
VARIABLES
    counter,    \* correlationCounter
    pending,    \* calls that wait for an answer
    emitted,    \* number of events emitted
    mirror      \* changes applied, in order

\* The server.
VARIABLES
    alive,      \* no exception has gone uncaught
    running,    \* RPC requests whose handler is under way
    heard,      \* events handed to the event bus
    channel,    \* constant: how patches go out, "none" or "batched"
    stored,     \* number of changes of the stored document
    batch,      \* pendingPatches of the key's sync channel
    timer       \* its flush timer is armed

\* The connection, the environment, and history.
VARIABLES
    uplink, downlink,
    inputs,     \* inputs that are left
    outcome,    \* history: how each call ended
    refused,    \* history: requests and events the server turned away
    failed,     \* history: requests and events at which the limiter failed
    swallowed,  \* history: calls whose answer was too long
    unsent,     \* history: patches that were too long
    dropped     \* history: patches the client could not apply

clientVars == <<counter, pending, emitted, mirror>>
stateVars == <<channel, stored, batch, timer>>
wireVars == <<uplink, downlink>>
historyVars == <<outcome, refused, failed, swallowed, unsent, dropped>>
vars == <<clientVars, alive, running, heard, stateVars, wireVars, inputs,
          historyVars>>

Numbers == 1..MaxInputs
Waiting == [how |-> "none", of |-> 0]
-----------------------------------------------------------------------------
(***************************************************************************)
(* Frames.                                                                 *)
(***************************************************************************)
Opcode == [RPC_REQ |-> 1, RPC_RES |-> 2, EVENT_C2S |-> 3, STATE_PATCH |-> 5,
           ERROR |-> 9]
ValidOpcodes == 1..11
Magic == 120            \* ZLIB_MAGIC
HeaderSize == 9

\* encodeFrame throws when the payload is too long.
Encodes(size) == size <= MaxPayload

\* setUint32 takes the correlation id modulo 2^32.
EncodeFrame(op, id, size, body) ==
    [op |-> op, id |-> id % Ids, size |-> size, body |-> body]

\* pako.deflate: at least 8 bytes, and up to a few more than it was given.
DeflatedLengths(length) == {8, length + 11}

\* What goes over the WebSocket: the frame as it is, or deflated when it is
\* longer than the threshold.
Messages(frame) ==
    LET length == HeaderSize + frame.size IN
    IF length > Threshold
    THEN {[first |-> Magic, length |-> n, frame |-> frame, deflated |-> TRUE] :
             n \in DeflatedLengths(length)}
    ELSE {[first |-> frame.op, length |-> length, frame |-> frame,
           deflated |-> FALSE]}

\* The receiver looks at the first byte.
LongIsCompressed(w) == w.length > Threshold  \* mutation of IsCompressed: by length
IsCompressed(w) == w.length >= 2 /\ w.first = Magic

\* decompress and decodeFrame throw at anything else.
Decodes(w) == /\ IsCompressed(w) = w.deflated
              /\ w.frame.op \in ValidOpcodes
              /\ w.frame.size <= MaxPayload

Frames == [op : ValidOpcodes, id : 0..(Ids - 1), size : Nat, body : Seq(Nat)]
Wires == [first : Nat, length : Nat, frame : Frames, deflated : BOOLEAN]

TypeOK ==
    /\ counter \in 0..MaxInputs /\ pending \subseteq Numbers
    /\ emitted \in 0..MaxInputs /\ mirror \in Seq(Numbers)
    /\ alive \in BOOLEAN
    /\ running \subseteq [call : Numbers, id : 0..(Ids - 1)]
    /\ heard \in Seq(Numbers)
    /\ channel \in {"none", "batched"} /\ stored \in 0..MaxInputs
    /\ batch \in Seq([patch : Numbers, size : Sizes])
    /\ Len(batch) < MaxBatch /\ timer \in BOOLEAN
    /\ uplink \in Seq(Wires) /\ downlink \in Seq(Wires)
    /\ inputs \in 0..MaxInputs
    /\ outcome \in [Numbers -> [how : {"none", "answer", "timeout", "rejected"},
                                of : 0..MaxInputs]]
    /\ refused \subseteq {"call", "event"} \X Numbers
    /\ failed \subseteq {"call", "event"} \X Numbers
    /\ swallowed \subseteq Numbers
    /\ unsent \subseteq Numbers /\ dropped \subseteq Numbers

Init ==
    /\ counter = 0 /\ pending = {} /\ emitted = 0 /\ mirror = <<>>
    /\ alive = TRUE /\ running = {} /\ heard = <<>>
    /\ channel \in {"none", "batched"}
    /\ stored = 0 /\ batch = <<>> /\ timer = FALSE
    /\ uplink = <<>> /\ downlink = <<>>
    /\ inputs = MaxInputs
    /\ outcome = [n \in Numbers |-> Waiting]
    /\ refused = {} /\ failed = {} /\ swallowed = {}
    /\ unsent = {} /\ dropped = {}

Spend == inputs > 0 /\ inputs' = inputs - 1
-----------------------------------------------------------------------------
(***************************************************************************)
(* The client sends.                                                       *)
(***************************************************************************)
\* RpcClient.call.  A call times out long before 2^32 newer ones are made.
Call(method, size) ==
    LET n == counter + 1 IN
    /\ alive /\ Spend
    /\ \A p \in pending : n - p < Ids
    /\ counter' = n
    /\ IF Encodes(size)
       THEN /\ pending' = pending \union {n}
            /\ \E w \in Messages(EncodeFrame(Opcode.RPC_REQ, n, size, <<n, method>>)) :
                  uplink' = Append(uplink, w)
            /\ UNCHANGED outcome
       ELSE /\ outcome' = [outcome EXCEPT ![n].how = "rejected"]
            /\ UNCHANGED <<pending, uplink>>
    /\ UNCHANGED <<emitted, mirror, alive, running, heard, stateVars, downlink,
                   refused, failed, swallowed, unsent, dropped>>

\* DatasoleClient.emit, which throws when the frame is too long.
Emit(name, size) ==
    /\ alive /\ Spend
    /\ Encodes(size)
    /\ emitted' = emitted + 1
    /\ \E w \in Messages(EncodeFrame(Opcode.EVENT_C2S, 0, size, <<emitted', name>>)) :
          uplink' = Append(uplink, w)
    /\ UNCHANGED <<counter, pending, mirror, alive, running, heard, stateVars,
                   downlink, historyVars>>
-----------------------------------------------------------------------------
(***************************************************************************)
(* The server.                                                             *)
(***************************************************************************)
Registered == {1}       \* methods that have a handler
SmallSize == 1          \* of the payload of an error
ASSUME ErrorsFit == SmallSize <= MaxPayload

\* sendToConnection swallows the exception of encodeFrame.
SendToConnection(op, id, size, body) ==
    IF Encodes(size)
    THEN \E w \in Messages(EncodeFrame(op, id, size, body)) :
            downlink' = Append(downlink, w)
    ELSE UNCHANGED downlink

\* What a frame of the client carries, for the history.
What(f) == <<IF f.op = Opcode.RPC_REQ THEN "call" ELSE "event", f.body[1]>>

\* The interceptor answers with the correlation id of the frame it refuses.
Refuse(f) ==
    /\ Spend
    /\ refused' = refused \union {What(f)}
    /\ SendToConnection(Opcode.ERROR, f.id, SmallSize, <<>>)
    /\ UNCHANGED <<running, heard, failed>>

\* A limiter whose backend or key extractor fails rejects, and so does the
\* pipeline; the transport throws the exception away, and the frame with it.
LimiterFails(f) ==
    /\ Spend
    /\ failed' = failed \union {What(f)}
    /\ UNCHANGED <<running, heard, downlink, refused>>

\* A request starts its handler; without one the answer is an error.
HandleRequest(f) ==
    /\ f.op = Opcode.RPC_REQ
    /\ IF f.body[2] \in Registered
       THEN /\ running' = running \union {[call |-> f.body[1], id |-> f.id]}
            /\ UNCHANGED downlink
       ELSE /\ SendToConnection(Opcode.RPC_RES, f.id, SmallSize, <<f.body[1]>>)
            /\ UNCHANGED running
    /\ UNCHANGED <<heard, refused>>

\* An event goes to the bus, unless its name is empty or too long.
NameIsValid(name) == name > 0 /\ name <= MaxName
HandleEvent(f) ==
    /\ f.op = Opcode.EVENT_C2S
    /\ IF NameIsValid(f.body[2])
       THEN heard' = Append(heard, f.body[1]) /\ UNCHANGED refused
       ELSE refused' = refused \union {<<"event", f.body[1]>>} /\ UNCHANGED heard
    /\ UNCHANGED <<running, downlink>>

\* A message through limiter and router, where messages keep their order; what
\* does not decode is dropped.
Arrive ==
    LET w == Head(uplink) IN
    /\ alive /\ uplink # <<>>
    /\ uplink' = Tail(uplink)
    /\ IF Decodes(w)
       THEN \/ Refuse(w.frame)
            \/ LimiterFails(w.frame)
            \/ /\ HandleRequest(w.frame) \/ HandleEvent(w.frame)
               /\ UNCHANGED <<inputs, failed>>
       ELSE UNCHANGED <<running, heard, downlink, inputs, refused, failed>>
    /\ UNCHANGED <<clientVars, alive, stateVars, outcome, swallowed, unsent, dropped>>

\* The answer carries the correlation id of the request's frame.
NewestId(r) == counter % Ids  \* mutation of AnswerId: that of the newest call
AnswerId(r) == r.id

\* A handler ends, with a result or an error, in any order.
Finish(r, size) ==
    /\ alive /\ r \in running
    /\ running' = running \ {r}
    /\ SendToConnection(Opcode.RPC_RES, AnswerId(r), size, <<r.call>>)
    /\ swallowed' = IF Encodes(size) THEN swallowed ELSE swallowed \union {r.call}
    /\ UNCHANGED <<clientVars, alive, heard, stateVars, uplink, inputs, outcome,
                   refused, failed, unsent, dropped>>
-----------------------------------------------------------------------------
(***************************************************************************)
(* Patches.                                                                *)
(***************************************************************************)
PatchesOf(b) == [i \in DOMAIN b |-> b[i].patch]
SizeOf(b) ==
    LET sum[i \in 0..Len(b)] == IF i = 0 THEN 0 ELSE sum[i-1] + b[i].size
    IN  sum[Len(b)]

\* ProtocolBroadcastSink.broadcastStatePatch: an exception, and the patches are
\* sent to nobody.
BroadcastStatePatch(b) ==
    IF Encodes(SizeOf(b))
    THEN /\ \E w \in Messages(EncodeFrame(Opcode.STATE_PATCH, 0, SizeOf(b), PatchesOf(b))) :
               downlink' = Append(downlink, w)
         /\ UNCHANGED unsent
    ELSE /\ unsent' = unsent \union ToSet(PatchesOf(b))
         /\ UNCHANGED downlink

\* SyncChannel.flush takes the patches out before it hands them to listeners.
KeptOnFlush(b) == b  \* mutation of LeftByFlush: they stay
LeftByFlush(b) == <<>>

\* setState: the document is stored before its patches are broadcast or
\* queued; the caller gets the exception of a broadcast in the same task.
SetState(size) ==
    LET p == [patch |-> stored + 1, size |-> size]
        b == Append(batch, p)
    IN
    /\ alive /\ Spend
    /\ stored' = stored + 1
    /\ \/ /\ channel = "none"
          /\ BroadcastStatePatch(<<p>>)
          /\ UNCHANGED <<batch, timer>>
       \/ /\ channel = "batched" /\ Len(b) >= MaxBatch
          /\ batch' = LeftByFlush(b)
          /\ BroadcastStatePatch(b)
          /\ UNCHANGED timer
       \/ /\ channel = "batched" /\ Len(b) < MaxBatch
          /\ batch' = b /\ timer' = TRUE
          /\ UNCHANGED <<downlink, unsent>>
    /\ UNCHANGED <<clientVars, alive, running, heard, channel, uplink, outcome,
                   refused, failed, swallowed, dropped>>

\* The timer flushes.  Nobody catches what encodeFrame throws here; what has
\* left the process by then may still arrive.
FlushTimer ==
    /\ alive /\ timer
    /\ timer' = FALSE /\ batch' = LeftByFlush(batch)
    /\ IF batch = <<>> THEN UNCHANGED <<downlink, unsent>> ELSE BroadcastStatePatch(batch)
    /\ alive' = Encodes(SizeOf(batch))
    /\ UNCHANGED <<clientVars, running, heard, channel, stored, uplink, inputs,
                   outcome, refused, failed, swallowed, dropped>>
-----------------------------------------------------------------------------
(***************************************************************************)
(* The client receives.                                                    *)
(***************************************************************************)
\* handleResponse finds the call by the id on the wire.
HandleResponse(f) ==
    /\ f.op = Opcode.RPC_RES
    /\ IF f.id \in pending
       THEN /\ pending' = pending \ {f.id}
            /\ outcome' = [outcome EXCEPT ![f.id] = [how |-> "answer", of |-> f.body[1]]]
       ELSE UNCHANGED <<pending, outcome>>
    /\ UNCHANGED <<mirror, dropped>>

\* applyPatch works on a copy and throws when a path of the frame does not exist,
\* which can only be when the mirror lacks an earlier change; whether a frame
\* presupposes that one is left open.  Documents have none of the keys that
\* validatePatches forbids.
Applies(f) == 1..(f.body[1] - 1) \subseteq ToSet(mirror)
HandlePatches(f) ==
    /\ f.op = Opcode.STATE_PATCH
    /\ \/ mirror' = mirror \o f.body /\ UNCHANGED dropped
       \/ /\ ~Applies(f)
          /\ dropped' = dropped \union ToSet(f.body)
          /\ UNCHANGED mirror
    /\ UNCHANGED <<pending, outcome>>

\* buildRouter has no handler for ERROR.
HandleError(f) ==
    f.op = Opcode.ERROR /\ UNCHANGED <<pending, outcome, mirror, dropped>>

Receive ==
    LET w == Head(downlink) IN
    /\ downlink # <<>>
    /\ downlink' = Tail(downlink)
    /\ IF Decodes(w)
       THEN HandleResponse(w.frame) \/ HandlePatches(w.frame) \/ HandleError(w.frame)
       ELSE UNCHANGED <<pending, outcome, mirror, dropped>>
    /\ UNCHANGED <<counter, emitted, alive, running, heard, stateVars, uplink,
                   inputs, refused, failed, swallowed, unsent>>

\* The timer of a call.
Timeout(n) ==
    /\ n \in pending
    /\ pending' = pending \ {n}
    /\ outcome' = [outcome EXCEPT ![n].how = "timeout"]
    /\ UNCHANGED <<counter, emitted, mirror, alive, running, heard, stateVars,
                   wireVars, inputs, refused, failed, swallowed, unsent, dropped>>

Next ==
    \/ \E size \in Sizes :
          \/ \E method \in {1, 2} : Call(method, size)
          \/ \E name \in {0, 1, MaxName + 1} : Emit(name, size)
          \/ SetState(size)
          \/ \E r \in running : Finish(r, size)
    \/ Arrive \/ FlushTimer \/ Receive
    \/ \E n \in pending : Timeout(n)

Spec == Init /\ [][Next]_vars
-----------------------------------------------------------------------------
\* The numbers that a message of this opcode carries: that of an event stands
\* first, those of patches are all there is.
Load(op, w) == IF w.frame.op # op THEN {}
               ELSE IF op = Opcode.EVENT_C2S THEN {w.frame.body[1]}
               ELSE ToSet(w.frame.body)
Loads(op, link) == [i \in DOMAIN link |-> Load(op, link[i])]

\* Numbers that arrived, those under way in a sequence of messages, and those
\* that wait behind them are all of a set, once each and in order.
Before(A, B) == \A a \in A, b \in B : a < b
Rising(s) == \A i, j \in DOMAIN s : i < j => s[i] < s[j]
Under(loads) == UNION ToSet(loads)
Accounted(arrived, loads, waiting, all) ==
    /\ arrived \union Under(loads) \union waiting = all
    /\ Before(arrived, waiting)
    /\ \A i \in DOMAIN loads : Before(arrived, loads[i]) /\ Before(loads[i], waiting)
    /\ \A i, j \in DOMAIN loads : i < j => Before(loads[i], loads[j])

\* A call that ends with an answer ends with that to its own request, however
\* handlers overtake one another, calls time out before they are answered, and
\* correlation ids run over on the wire (protocol.md:236, rpc-client.ts:65).
AnswersMatch == \A n \in Numbers : outcome[n].how = "answer" => outcome[n].of = n

\* When nothing is under way a call still waits for one of four reasons only:
\* the limiter refused it, and the client does not look at ERROR frames; the
\* limiter failed; its answer was too long; or its correlation id does not fit
\* into 32 bits (message-handler.ts:44, server-transport.ts:112,
\* protocol-adapter.ts:88).
CallsExplained ==
    alive /\ uplink = <<>> /\ downlink = <<>> /\ running = {} =>
        \A n \in pending : \/ <<"call", n>> \in refused \union failed
                           \/ n \in swallowed \/ n >= Ids

\* The events heard and those on their way are all that were emitted, once each
\* and in order, but for those turned away or lost to a failing limiter
\* (protocol-adapter.ts:50, server-transport.ts:112).
EventsExplained ==
    /\ Accounted(ToSet(heard), Loads(Opcode.EVENT_C2S, uplink), {},
                 {n \in 1..emitted : <<"event", n>> \notin refused \union failed})
    /\ Rising(heard)

\* What the mirror has applied, what is on its way and what waits in the sync
\* channel are all changes of the stored document, in order, but for those in a
\* frame that was too long, and those the client could not apply; and it fails to
\* apply nothing before something was too long (sync-channel.ts:48,
\* protocol-broadcast-sink.ts:37, client.ts:239).
MirrorLacksOnlyUnsent ==
    /\ Accounted(ToSet(mirror), Loads(Opcode.STATE_PATCH, downlink),
                 ToSet(PatchesOf(batch)),
                 {n \in 1..stored : n \notin unsent \union dropped})
    /\ \A d \in dropped : \E u \in unsent : u < d
    /\ Rising(mirror) /\ Rising(PatchesOf(batch))
    /\ \A i \in DOMAIN downlink :
          downlink[i].frame.op = Opcode.STATE_PATCH => Rising(downlink[i].frame.body)

\* Calls, events and patches: what is lost is lost for a reason that is named,
\* whatever their sizes, and so whether they travel deflated or not.
LossIsExplained == CallsExplained /\ EventsExplained /\ MirrorLacksOnlyUnsent
=============================================================================
