----------------------------- MODULE SharedRing -----------------------------
(***************************************************************************)
(* How frames cross from the transport worker to the main thread when the  *)
(* client uses a SharedArrayBuffer: a ring of bytes with one writer, the   *)
(* worker's WorkerSharedBuffer, and one reader, the main thread's          *)
(* MainThreadSharedBuffer; a `sab-frame' notice for every frame written;   *)
(* and postMessage of the frame itself while there is no ring yet or no    *)
(* room in it.                                                             *)
(*                                                                         *)
(* The two threads run concurrently.  Bytes are copied one at a time, and  *)
(* each Atomics operation is a step.  A byte of the ring is modelled by    *)
(* where it comes from: byte i of the entry of frame f, of which the first *)
(* four are the length.                                                    *)
(***************************************************************************)
EXTENDS Integers, Sequences, FiniteSets

CONSTANTS NFrames,    \* bound: frames the socket receives, 1..NFrames
          FrameSizes, \* lengths a frame can have
          Capacity    \* bytes in the ring

PREFIX == 4  \* bytes of length before each frame

ASSUME NFramesIsNat == NFrames \in Nat
ASSUME SizesPositive == FrameSizes \subseteq Nat \ {0}
ASSUME CapacityFits == Capacity \in Nat /\ Capacity > PREFIX

VARIABLES
    \* The shared memory.
    readIdx, writeIdx, count, cells,
    \* The worker.
    sab,     \* init-sab has reached it
    wpc,     \* where it is in onmessage
    frame,   \* the frame it works on, the last one received
    size,    \* the length of each frame
    wpos,    \* bytes of the entry copied
    \* The port from the worker to the main thread.
    port,
    \* The main thread.
    rpc,     \* where it is in the message handlers
    rlen, rpos, msg,
    \* History.
    lane,    \* how each frame was handed over: "ring", "post" or "none"
    begin,   \* bytes that had been put in the ring before each frame's entry
    freed,   \* bytes that have been freed
    out      \* the frames dispatched, Corrupt for bytes that are none

memVars == <<readIdx, writeIdx, count, cells>>
workerVars == <<sab, wpc, frame, size, wpos, lane, begin>>
readerVars == <<rpc, rlen, rpos, msg, freed, out>>
vars == <<memVars, workerVars, port, readerVars>>

Frames == 1..NFrames
Corrupt == 0
Byte == [frame: 0..NFrames, at: Nat]
Entry(f) == [i \in 1..PREFIX + size[f] |-> [frame |-> f, at |-> i]]
Notice == [type: {"sab-frame"}] \cup [type: {"message"}, frame: Frames]

TypeOK ==
    /\ readIdx \in 0..Capacity - 1
    /\ writeIdx \in 0..Capacity - 1
    /\ count \in 0..NFrames
    /\ cells \in [0..Capacity - 1 -> Byte]
    /\ sab \in BOOLEAN
    /\ wpc \in {"idle", "copy", "publish", "count", "notify", "post"}
    /\ frame \in 0..NFrames
    /\ size \in [Frames -> FrameSizes \cup {0}]
    /\ wpos \in Nat
    /\ port \in Seq(Notice)
    /\ rpc \in {"idle", "check", "length", "copy", "sub", "dispatch"}
    /\ rlen \in Nat /\ rpos \in Nat
    /\ msg \in Seq(Byte)
    /\ lane \in [Frames -> {"none", "ring", "post"}]
    /\ begin \in [Frames -> Nat] /\ freed \in Nat
    /\ out \in Seq(0..NFrames)

Init ==
    /\ readIdx = 0 /\ writeIdx = 0 /\ count = 0
    /\ cells = [i \in 0..Capacity - 1 |-> [frame |-> 0, at |-> 0]]
    /\ sab = FALSE /\ wpc = "idle" /\ frame = 0 /\ wpos = 0
    /\ size = [f \in Frames |-> 0]
    /\ port = <<>>
    /\ rpc = "idle" /\ rlen = 0 /\ rpos = 0 /\ msg = <<>>
    /\ lane = [f \in Frames |-> "none"]
    /\ begin = [f \in Frames |-> 0] /\ freed = 0
    /\ out = <<>>

-----------------------------------------------------------------------------
(* The worker. *)

InitSab ==
    /\ wpc = "idle" /\ ~sab
    /\ sab' = TRUE
    /\ UNCHANGED <<memVars, wpc, frame, size, wpos, lane, begin, port, readerVars>>

Used == IF writeIdx >= readIdx THEN writeIdx - readIdx
                               ELSE Capacity - readIdx + writeIdx

FillingHasRoom(len) ==  \* mutation of HasRoom: > instead of >=
    Used + PREFIX + len <= Capacity
\* write returns false rather than fill the ring.
HasRoom(len) == Used + PREFIX + len < Capacity

\* ws.onmessage: a frame of this length arrives and takes one of the two ways.
Arrive(len) ==
    /\ wpc = "idle" /\ frame < NFrames
    /\ frame' = frame + 1
    /\ size' = [size EXCEPT ![frame + 1] = len]
    /\ wpos' = 0
    /\ IF sab /\ HasRoom(len)
       THEN /\ wpc' = "copy" /\ lane' = [lane EXCEPT ![frame + 1] = "ring"]
            /\ begin' = [begin EXCEPT ![frame + 1] = freed + Used]
       ELSE /\ wpc' = "post" /\ lane' = [lane EXCEPT ![frame + 1] = "post"]
            /\ UNCHANGED begin
    /\ UNCHANGED <<memVars, sab, port, readerVars>>

CopyIn ==
    /\ wpc = "copy"
    /\ cells' = [cells EXCEPT ![(writeIdx + wpos) % Capacity] =
                                  Entry(frame)[wpos + 1]]
    /\ wpos' = wpos + 1
    /\ wpc' = IF wpos' = Len(Entry(frame)) THEN "publish" ELSE "copy"
    /\ UNCHANGED <<readIdx, writeIdx, count, sab, frame, size, lane, begin, port,
                   readerVars>>

Publish ==
    /\ wpc = "publish"
    /\ writeIdx' = (writeIdx + Len(Entry(frame))) % Capacity
    /\ wpc' = "count"
    /\ UNCHANGED <<readIdx, count, cells, sab, frame, size, wpos, lane, begin, port,
                   readerVars>>

AddCount ==
    /\ wpc = "count"
    /\ count' = count + 1
    /\ wpc' = "notify"
    /\ UNCHANGED <<readIdx, writeIdx, cells, sab, frame, size, wpos, lane, begin,
                   port, readerVars>>

Notify ==
    /\ wpc = "notify"
    /\ port' = Append(port, [type |-> "sab-frame"])
    /\ wpc' = "idle"
    /\ UNCHANGED <<memVars, sab, frame, size, wpos, lane, begin, readerVars>>

Post ==
    /\ wpc = "post"
    /\ port' = Append(port, [type |-> "message", frame |-> frame])
    /\ wpc' = "idle"
    /\ UNCHANGED <<memVars, sab, frame, size, wpos, lane, begin, readerVars>>

-----------------------------------------------------------------------------
(* The main thread. *)

OnMessage ==
    /\ rpc = "idle" /\ port # <<>>
    /\ port' = Tail(port)
    /\ IF Head(port).type = "message"
       THEN out' = Append(out, Head(port).frame) /\ UNCHANGED rpc
       ELSE rpc' = "check" /\ UNCHANGED out
    /\ UNCHANGED <<memVars, workerVars, rlen, rpos, msg, freed>>

ImpatientCheckCount ==  \* mutation of CheckCount: stops at the last frame
    /\ rpc = "check"
    /\ rpc' = IF count <= 1 THEN "idle" ELSE "length"
    /\ UNCHANGED <<memVars, workerVars, port, rlen, rpos, msg, freed, out>>

CheckCount ==
    /\ rpc = "check"
    /\ rpc' = IF count <= 0 THEN "idle" ELSE "length"
    /\ UNCHANGED <<memVars, workerVars, port, rlen, rpos, msg, freed, out>>

\* The length is what four bytes say; bytes that are not the four of one
\* frame's prefix could say anything.
ReadLength ==
    LET prefix == [i \in 1..PREFIX |-> cells[(readIdx + i - 1) % Capacity]]
        owners == {f \in 1..frame : prefix = SubSeq(Entry(f), 1, PREFIX)}
    IN  /\ rpc = "length"
        /\ rlen' \in IF owners = {} THEN 0..Capacity
                                   ELSE {size[f] : f \in owners}
        /\ rpos' = 0 /\ msg' = <<>>
        /\ rpc' = "copy"
        /\ UNCHANGED <<memVars, workerVars, port, freed, out>>

CopyOut ==
    /\ rpc = "copy" /\ rpos < rlen
    /\ msg' = Append(msg, cells[(readIdx + PREFIX + rpos) % Capacity])
    /\ rpos' = rpos + 1
    /\ UNCHANGED <<memVars, workerVars, port, rpc, rlen, freed, out>>

UnwrappedFree ==  \* mutation of Free: the index is not taken modulo
    /\ rpc = "copy" /\ rpos = rlen
    /\ readIdx' = readIdx + PREFIX + rlen
    /\ freed' = freed + PREFIX + rlen
    /\ rpc' = "sub"
    /\ UNCHANGED <<writeIdx, count, cells, workerVars, port, rlen, rpos, msg,
                   out>>

Free ==
    /\ rpc = "copy" /\ rpos = rlen
    /\ readIdx' = (readIdx + PREFIX + rlen) % Capacity
    /\ freed' = freed + PREFIX + rlen
    /\ rpc' = "sub"
    /\ UNCHANGED <<writeIdx, count, cells, workerVars, port, rlen, rpos, msg,
                   out>>

SubCount ==
    /\ rpc = "sub"
    /\ count' = count - 1
    /\ rpc' = "dispatch"
    /\ UNCHANGED <<readIdx, writeIdx, cells, workerVars, port, rlen, rpos, msg,
                   freed, out>>

\* What decodeFrame makes of the bytes.
Decoded ==
    LET whole == {f \in 1..frame :
                     msg = SubSeq(Entry(f), PREFIX + 1, Len(Entry(f)))}
    IN  IF whole = {} THEN Corrupt ELSE CHOOSE f \in whole : TRUE

\* dispatchFrame; the drain loop goes on, unless decoding or a handler throws.
Dispatch(throws) ==
    /\ rpc = "dispatch"
    /\ out' = Append(out, Decoded)
    /\ rpc' = IF throws \/ Decoded = Corrupt THEN "idle" ELSE "check"
    /\ UNCHANGED <<memVars, workerVars, port, rlen, rpos, msg, freed>>

-----------------------------------------------------------------------------
Worker == CopyIn \/ Publish \/ AddCount \/ Notify \/ Post
Main == \/ OnMessage \/ CheckCount \/ ReadLength \/ CopyOut \/ Free
        \/ SubCount \/ \E throws \in BOOLEAN : Dispatch(throws)

Next == InitSab \/ (\E len \in FrameSizes : Arrive(len)) \/ Worker \/ Main

Spec == Init /\ [][Next]_vars

\* Both threads keep running; nothing is assumed of the network.
FairSpec == Spec /\ WF_vars(Worker) /\ WF_vars(Main)

-----------------------------------------------------------------------------
(* Properties. *)

\* Each way hands over its own frames whole, once and in order, whatever the
\* two threads do meanwhile.
Lane(l) == {f \in Frames : lane[f] = l}
LanesIntact ==
    /\ \A i \in 1..Len(out) : out[i] # Corrupt
    /\ \A i, j \in 1..Len(out) :
           i < j /\ lane[out[i]] = lane[out[j]] => out[i] < out[j]

\* The ring spells the frames that are in it: from readIdx on, the entries of
\* the frames published and not yet freed, in order, with no gap, no overlap
\* and nothing after; the writer never touches them.
Freed == IF rpc = "dispatch" \/ rpc = "sub" THEN {Decoded} ELSE {}
Delivered == {out[i] : i \in 1..Len(out)}
InRing == (Lane("ring") \ (Delivered \cup Freed))
              \ (IF wpc \in {"copy", "publish"} THEN {frame} ELSE {})
Ahead(f) == begin[f] - freed
End(f) == Ahead(f) + Len(Entry(f))
RingSpellsFrames ==
    /\ \A f \in InRing : 0 <= Ahead(f) /\ End(f) <= Used
    /\ \A f, g \in InRing : f < g => End(f) <= Ahead(g)
    /\ \A n \in {0} \cup {End(f) : f \in InRing} :
           n = Used \/ \E g \in InRing : Ahead(g) = n
    /\ \A f \in InRing : \A i \in 1..Len(Entry(f)) :
           cells[(readIdx + Ahead(f) + i - 1) % Capacity] = Entry(f)[i]

\* A frame is never stranded in the ring: a notice is on its way for every
\* frame counted there (or the main thread, or the worker, is about to see to
\* it), even when handlers throw and cut a drain short.
Notices == {i \in 1..Len(port) : port[i].type = "sab-frame"}
NoStrandedFrame ==
    count <= Cardinality(Notices)
                 + (IF wpc = "notify" THEN 1 ELSE 0)
                 + (IF rpc \in {"check", "length", "copy", "sub"} THEN 1 ELSE 0)

\* The ring loses, tears, doubles and strands nothing.
RingSound == LanesIntact /\ RingSpellsFrames /\ NoStrandedFrame

\* Every frame the worker takes from the socket reaches the router.
EveryFrameDelivered ==
    \A f \in Frames : (frame >= f) ~> (f \in Delivered)
==============================================================================
