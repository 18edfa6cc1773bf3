-------------------------- MODULE SharedRing_proofs --------------------------
(***************************************************************************)
(* Proofs about SharedRing, for a ring of any capacity, frames of any      *)
(* lengths and any number of them.                                         *)
(***************************************************************************)
EXTENDS SharedRing, SequenceTheorems, FiniteSetTheorems, FunctionTheorems, TLAPS

-----------------------------------------------------------------------------
(* The inductive invariant. *)

\* Bytes of an entry, and bytes put in the ring: what readIdx and writeIdx are
\* the remainders of is freed and Written.
Length(f) == PREFIX + size[f]
Written == freed + Used

Ring == Lane("ring")
Writing == wpc \in {"copy", "publish"}
Published == {f \in Ring : ~(Writing /\ f = frame)}

\* The worker is at the last frame, and what it writes has room.
WorkerInv ==
    /\ \A f \in Frames : /\ lane[f] = "none" <=> f > frame
                         /\ f <= frame => size[f] \in FrameSizes
    /\ wpc # "idle" =>
          frame \in Frames /\ lane[frame] = IF wpc = "post" THEN "post" ELSE "ring"
    /\ wpc = "copy" => wpos < Length(frame)
    /\ wpc = "publish" => wpos = Length(frame)
    /\ Writing => Used + Length(frame) < Capacity /\ begin[frame] = Written

\* Entries lie one behind the other, from the first byte freed next to the last
\* one written.
StreamInv ==
    /\ readIdx = freed % Capacity
    /\ \A f, g \in Ring : f < g => begin[f] + Length(f) <= begin[g]
    /\ \A f \in Published : begin[f] + Length(f) <= Written
    /\ \A f \in Published :
          \/ begin[f] + Length(f) = Written
          \/ \E g \in Published : begin[g] = begin[f] + Length(f)
    /\ freed = Written \/ \E g \in Published : begin[g] = freed

\* A byte stays as it is copied until it is freed.
CellsInv ==
    \A f \in Ring : begin[f] >= freed =>
        \A i \in 1..Length(f) : f \in Published \/ i <= wpos =>
            cells[(begin[f] + i - 1) % Capacity] = Entry(f)[i]

\* The count is that of the entries published, counted and not taken off it.
Counted ==
    {f \in Published : /\ begin[f] >= freed \/ (rpc = "sub" /\ begin[f] + Length(f) = freed)
                       /\ ~(wpc = "count" /\ f = frame)}
CountInv ==
    /\ count = Cardinality(Counted)
    /\ wpc = "count" => begin[frame] >= freed
    /\ rpc \in {"length", "copy"} => \E h \in Counted : begin[h] = freed
    /\ rpc = "sub" => \E h \in Counted : begin[h] + Length(h) = freed

\* The main thread copies the first entry, and then has it.
Payload(f, n) == [i \in 1..n |-> Entry(f)[PREFIX + i]]
ReaderInv ==
    /\ rpc = "copy" => \E h \in Published :
          /\ begin[h] = freed /\ rlen = size[h]
          /\ rpos <= rlen /\ msg = Payload(h, rpos)
    /\ rpc \in {"sub", "dispatch"} => \E h \in Published :
          begin[h] + Length(h) = freed /\ msg = Payload(h, size[h])

\* What has been dispatched is all that was freed before, in order.
Taken(f) == begin[f] < freed
            /\ ~(rpc \in {"sub", "dispatch"} /\ begin[f] + Length(f) = freed)
OutInv ==
    /\ \A i \in 1..Len(out) : out[i] \in Frames /\ lane[out[i]] # "none"
    /\ \A f \in Ring : f \in Delivered <=> Taken(f)
    /\ \A i, j \in 1..Len(out) :
          i < j /\ lane[out[i]] = lane[out[j]] => out[i] < out[j]

\* Frames that are posted come in order too.
Posted(n) == n \in 1..Len(port) /\ port[n].type = "message"
PortInv ==
    /\ \A n \in 1..Len(port) : Posted(n) =>
          /\ lane[port[n].frame] = "post"
          /\ wpc = "post" => port[n].frame < frame
          /\ \A m \in 1..n-1 : Posted(m) => port[m].frame < port[n].frame
          /\ \A d \in Delivered : lane[d] = "post" => d < port[n].frame
    /\ wpc = "post" => \A d \in Delivered : lane[d] = "post" => d < frame

IInv == /\ TypeOK /\ WorkerInv /\ StreamInv /\ CellsInv /\ CountInv
        /\ ReaderInv /\ OutInv /\ PortInv /\ NoStrandedFrame
-----------------------------------------------------------------------------
(* Remainders. *)

LEMMA ModFacts ==
    ASSUME NEW a \in Nat, NEW c \in Nat, c > 0
    PROVE  a % c \in 0..c-1 /\ a \div c \in Nat /\ a = c * (a \div c) + (a % c)
  OBVIOUS

LEMMA ModUnique ==
    ASSUME NEW a \in Nat, NEW q \in Nat, NEW r \in Nat, NEW c \in Nat,
           c > 0, r < c, a = c * q + r
    PROVE  a % c = r
  OBVIOUS

LEMMA ModAdd ==
    ASSUME NEW a \in Nat, NEW b \in Nat, NEW c \in Nat, c > 0
    PROVE  ((a % c) + b) % c = (a + b) % c
  <1> DEFINE q == a \div c
             r == a % c
             p == (r + b) \div c
             s == (r + b) % c
  <1>1. q \in Nat /\ r \in 0..c-1 /\ a = c * q + r
    BY ModFacts
  <1>2. r + b \in Nat
    BY <1>1
  <1>3. p \in Nat /\ s \in 0..c-1 /\ r + b = c * p + s
    <2> HIDE DEF r
    <2> QED
      BY <1>2, ModFacts
  <1> HIDE DEF q, r, p, s
  <1>4. a + b = c * (q + p) + s
    BY <1>1, <1>3
  <1>5. (a + b) % c = s
    <2>1. q + p \in Nat /\ s \in Nat /\ s < c /\ a + b \in Nat
      BY <1>1, <1>3
    <2> QED
      BY <1>4, <2>1, ModUnique
  <1> QED
    BY <1>5 DEF r, s

\* Fewer than c apart, two numbers have different remainders.
LEMMA ModNear ==
    ASSUME NEW a \in Nat, NEW b \in Nat, NEW c \in Nat, c > 0, a < b, b < a + c
    PROVE  a % c # b % c
  <1> DEFINE q == a \div c
             r == a % c
             p == b \div c
             s == b % c
  <1>1. q \in Nat /\ r \in 0..c-1 /\ a = c * q + r
    BY ModFacts
  <1>2. p \in Nat /\ s \in 0..c-1 /\ b = c * p + s
    BY ModFacts
  <1> HIDE DEF q, r, p, s
  <1> SUFFICES ASSUME r = s PROVE FALSE
    BY DEF r, s
  <1>3. p > q
    <2> SUFFICES ASSUME p <= q PROVE FALSE
      BY <1>1, <1>2
    <2>1. c * p <= c * q
      BY <1>1, <1>2
    <2> QED
      BY <1>1, <1>2, <2>1
  <1>4. c * p >= c * q + c
    <2>1. PICK d \in Nat : p = q + 1 + d
      <3>1. p - q - 1 \in Nat /\ p = q + 1 + (p - q - 1)
        BY <1>1, <1>2, <1>3
      <3> QED
        BY <3>1
    <2>2. c * p = c * q + c + c * d
      BY <1>1, <2>1
    <2>3. c * d >= 0
      BY <2>1
    <2> QED
      BY <1>1, <2>2, <2>3
  <1> QED
    BY <1>1, <1>2, <1>4

-----------------------------------------------------------------------------
(* The ring. *)

\* Used is how far the writer is ahead of the reader.
LEMMA UsedFacts ==
    ASSUME TypeOK
    PROVE  Used \in 0..Capacity-1 /\ (readIdx + Used) % Capacity = writeIdx
  <1>1. /\ Capacity \in Nat /\ Capacity > 0 /\ readIdx \in 0..Capacity-1
        /\ writeIdx \in 0..Capacity-1
    BY CapacityFits DEF TypeOK, PREFIX
  <1>2. CASE writeIdx >= readIdx
    <2>1. Used = writeIdx - readIdx
      BY <1>2 DEF Used
    <2>2. readIdx + Used = Capacity * 0 + writeIdx
      BY <1>1, <2>1
    <2>3. (readIdx + Used) % Capacity = writeIdx
      <3>1. readIdx + Used \in Nat /\ writeIdx \in Nat /\ writeIdx < Capacity
        BY <1>1, <2>2
      <3> HIDE DEF Used
      <3> QED
        BY <1>1, <2>2, <3>1, ModUnique
    <2> QED
      BY <1>1, <1>2, <2>1, <2>3
  <1>3. CASE ~(writeIdx >= readIdx)
    <2>1. Used = Capacity - readIdx + writeIdx
      BY <1>3 DEF Used
    <2>2. readIdx + Used = Capacity * 1 + writeIdx
      BY <1>1, <2>1
    <2>3. (readIdx + Used) % Capacity = writeIdx
      <3>1. readIdx + Used \in Nat /\ writeIdx \in Nat /\ writeIdx < Capacity
        BY <1>1, <2>2
      <3> HIDE DEF Used
      <3> QED
        BY <1>1, <2>2, <3>1, ModUnique
    <2> QED
      BY <1>1, <1>3, <2>1, <2>3
  <1> QED
    BY <1>2, <1>3

Gap(r, w, c) == IF w >= r THEN w - r ELSE c - r + w
LEMMA UsedIs ==
    ASSUME NEW c \in Nat, c > 0, NEW r \in 0..c-1, NEW u \in 0..c-1,
           NEW w, w = (r + u) % c
    PROVE  Gap(r, w, c) = u
  <1>1. CASE r + u < c
    <2>1. r + u = c * 0 + (r + u) /\ r + u \in Nat
      BY <1>1
    <2>2. w = r + u
      BY <1>1, <2>1, ModUnique
    <2> QED
      BY <2>2 DEF Gap
  <1>2. CASE ~(r + u < c)
    <2>1. r + u = c * 1 + (r + u - c) /\ r + u \in Nat /\ r + u - c \in Nat /\ r + u - c < c
      BY <1>2
    <2>2. w = r + u - c
      BY <1>2, <2>1, ModUnique
    <2> QED
      BY <2>2 DEF Gap
  <1> QED
    BY <1>1, <1>2

LEMMA WrittenFacts ==
    ASSUME TypeOK, StreamInv
    PROVE  /\ freed \in Nat /\ Written \in Nat /\ freed <= Written
           /\ Written < freed + Capacity
           /\ readIdx = freed % Capacity /\ writeIdx = Written % Capacity
  <1>1. freed \in Nat /\ readIdx = freed % Capacity /\ Capacity \in Nat /\ Capacity > 0
    BY CapacityFits DEF TypeOK, StreamInv, PREFIX
  <1>2. Used \in 0..Capacity-1 /\ (readIdx + Used) % Capacity = writeIdx
    BY UsedFacts
  <1> HIDE DEF Used
  <1>3. ((freed % Capacity) + Used) % Capacity = (freed + Used) % Capacity
    <2>1. Used \in Nat
      BY <1>2
    <2> QED
      BY <1>1, <2>1, ModAdd
  <1>4. writeIdx = Written % Capacity
    BY <1>1, <1>2, <1>3 DEF Written
  <1>5. freed + Used \in Nat /\ freed <= freed + Used /\ freed + Used < freed + Capacity
    BY <1>1, <1>2
  <1> QED
    BY <1>1, <1>4, <1>5 DEF Written

LEMMA SizesFacts == \A n \in FrameSizes : n \in Nat /\ n > 0
  <1> SUFFICES ASSUME NEW n \in FrameSizes PROVE n \in Nat /\ n > 0
    OBVIOUS
  <1>1. n \in Nat \ {0}
    BY SizesPositive
  <1> QED
    BY <1>1

LEMMA EntryFacts ==
    ASSUME TypeOK, NEW f \in Frames
    PROVE  /\ size[f] \in Nat /\ Length(f) \in Nat /\ Length(f) = PREFIX + size[f]
           /\ Length(f) >= PREFIX
           /\ Len(Entry(f)) = Length(f) /\ Entry(f) \in Seq(Byte)
           /\ \A i \in 1..Length(f) : Entry(f)[i] = [frame |-> f, at |-> i]
  <1>1. size[f] \in Nat
    <2>1. size[f] \in FrameSizes \cup {0}
      BY DEF TypeOK
    <2>2. CASE size[f] = 0
      BY <2>2
    <2>3. CASE size[f] \in FrameSizes
      BY <2>3, SizesFacts
    <2> QED
      BY <2>1, <2>2, <2>3
  <1>2. Length(f) \in Nat /\ Length(f) = PREFIX + size[f] /\ Length(f) >= PREFIX
    BY <1>1 DEF Length, PREFIX
  <1>3. Entry(f) = [i \in 1..Length(f) |-> [frame |-> f, at |-> i]]
    BY DEF Entry, Length
  <1>4. \A i \in 1..Length(f) : [frame |-> f, at |-> i] \in Byte
    BY NFramesIsNat DEF Byte, Frames
  <1> HIDE DEF Length
  <1>5. Entry(f) \in Seq(Byte) /\ Len(Entry(f)) = Length(f)
    BY <1>2, <1>3, <1>4
  <1> QED
    BY <1>1, <1>2, <1>3, <1>5 DEF Length

-----------------------------------------------------------------------------
(* Facts of a state. *)

LEMMA RingFacts ==
    ASSUME TypeOK, WorkerInv, NEW f \in Ring
    PROVE  /\ f \in Frames /\ f \in Nat /\ lane[f] = "ring" /\ f <= frame
           /\ size[f] \in FrameSizes /\ size[f] > 0 /\ Length(f) > PREFIX
           /\ begin[f] \in Nat
  <1>1. f \in Frames /\ lane[f] = "ring" /\ f \in Nat /\ frame \in Nat
    BY NFramesIsNat DEF Ring, Lane, Frames, TypeOK
  <1>2. f <= frame
    BY <1>1 DEF WorkerInv
  <1>3. size[f] \in FrameSizes
    BY <1>1, <1>2 DEF WorkerInv
  <1>4. begin[f] \in Nat
    BY <1>1 DEF TypeOK
  <1>5. size[f] > 0 /\ size[f] \in Nat
    BY <1>3, SizesFacts
  <1> QED
    BY <1>1, <1>2, <1>3, <1>4, <1>5 DEF Length, PREFIX

\* The payload of an entry is that of no other frame.
LEMMA PayloadFacts ==
    ASSUME TypeOK, WorkerInv, NEW h \in Ring, msg = Payload(h, size[h])
    PROVE  Decoded = h
  <1> DEFINE whole == {f \in 1..frame : msg = SubSeq(Entry(f), PREFIX + 1, Len(Entry(f)))}
             Rest(f) == SubSeq(Entry(f), PREFIX + 1, Len(Entry(f)))
  <1>1. ASSUME NEW f \in 1..frame
        PROVE  /\ f \in Frames /\ Len(Rest(f)) = size[f]
               /\ \A i \in 1..size[f] : Rest(f)[i] = [frame |-> f, at |-> PREFIX + i]
               /\ Rest(f) \in Seq(Byte)
    <2>1. f \in Frames
      BY NFramesIsNat DEF Frames, TypeOK
    <2>2. /\ size[f] \in Nat /\ Length(f) = PREFIX + size[f]
          /\ Len(Entry(f)) = Length(f) /\ Entry(f) \in Seq(Byte)
          /\ \A i \in 1..Length(f) : Entry(f)[i] = [frame |-> f, at |-> i]
      BY <2>1, EntryFacts
    <2> DEFINE e == Entry(f)
               l == Length(f)
               p == PREFIX + 1
    <2>3. p = 5 /\ p \in Int /\ l \in Int /\ l = size[f] + 4
      BY <2>2 DEF PREFIX
    <2> HIDE DEF e, l, p
    <2>4. \A i \in p..l : e[i] \in Byte
      <3> SUFFICES ASSUME NEW i \in p..l PROVE e[i] \in Byte
        OBVIOUS
      <3>1. i \in 1..l
        BY <2>3
      <3>2. e \in Seq(Byte) /\ Len(e) = l
        BY <2>2 DEF e, l
      <3> QED
        BY <3>1, <3>2
    <2>5. /\ SubSeq(e, p, l) \in Seq(Byte)
          /\ Len(SubSeq(e, p, l)) = IF p <= l THEN l-p+1 ELSE 0
          /\ \A i \in 1..l-p+1 : SubSeq(e, p, l)[i] = e[p+i-1]
      BY <2>3, <2>4, SubSeqProperties
    <2>6. Rest(f) = SubSeq(e, p, l)
      BY <2>2 DEF e, l, p
    <2>7. \A i \in 1..size[f] : i \in 1..l-p+1 /\ p+i-1 \in 1..l /\ p+i-1 = PREFIX + i
      BY <2>2, <2>3 DEF PREFIX
    <2>8. \A i \in 1..l : e[i] = [frame |-> f, at |-> i]
      BY <2>2 DEF e, l
    <2> HIDE DEF Rest
    <2>9. Len(Rest(f)) = size[f]
      <3>1. (IF p <= l THEN l-p+1 ELSE 0) = size[f]
        BY <2>2, <2>3
      <3> QED
        BY <2>5, <2>6, <3>1
    <2> QED
      BY <2>1, <2>5, <2>6, <2>7, <2>8, <2>9
  <1>2. h \in 1..frame /\ h \in Frames /\ size[h] > 0 /\ size[h] \in Nat
        /\ Length(h) = PREFIX + size[h]
        /\ \A i \in 1..Length(h) : Entry(h)[i] = [frame |-> h, at |-> i]
    <2>1. h \in Frames /\ h <= frame /\ size[h] > 0
      BY RingFacts
    <2>2. h \in 1..frame
      BY <2>1, NFramesIsNat DEF Frames, TypeOK
    <2> QED
      BY <2>1, <2>2, EntryFacts
  <1>3. msg = [i \in 1..size[h] |-> [frame |-> h, at |-> PREFIX + i]]
    <2>1. \A i \in 1..size[h] : Entry(h)[PREFIX + i] = [frame |-> h, at |-> PREFIX + i]
      <3>1. \A i \in 1..size[h] : PREFIX + i \in 1..Length(h)
        BY <1>2 DEF PREFIX
      <3> QED
        BY <1>2, <3>1
    <2> QED
      BY <2>1 DEF Payload
  <1>4. h \in whole
    <2> SUFFICES msg = Rest(h)
      BY <1>2
    <2>1. /\ Len(Rest(h)) = size[h] /\ Rest(h) \in Seq(Byte)
          /\ \A i \in 1..size[h] : Rest(h)[i] = [frame |-> h, at |-> PREFIX + i]
      BY <1>1, <1>2
    <2> HIDE DEF Rest
    <2>2. Rest(h) = [i \in 1..size[h] |-> Rest(h)[i]]
      BY <2>1
    <2> QED
      BY <1>3, <2>1, <2>2
  <1>5. ASSUME NEW f \in whole PROVE f = h
    <2>1. f \in 1..frame /\ msg = Rest(f)
      OBVIOUS
    <2>2. Len(Rest(f)) = size[f] /\ size[f] \in Nat
      BY <1>1, <2>1, EntryFacts
    <2>3. Len(Rest(h)) = size[h] /\ msg = Rest(h)
      BY <1>1, <1>2, <1>4
    <2>4. 1 \in 1..size[f] /\ 1 \in 1..size[h]
      <3> HIDE DEF Rest
      <3>1. size[f] = size[h]
        BY <2>1, <2>2, <2>3
      <3> QED
        BY <1>2, <3>1
    <2>5. Rest(f)[1] = [frame |-> f, at |-> PREFIX + 1]
      BY <1>1, <2>1, <2>4
    <2>6. Rest(h)[1] = [frame |-> h, at |-> PREFIX + 1]
      BY <1>1, <1>2, <2>4
    <2> HIDE DEF Rest
    <2> QED
      BY <2>1, <2>3, <2>5, <2>6
  <1>6. whole = {h}
    BY <1>4, <1>5
  <1>7. Decoded = IF whole = {} THEN Corrupt ELSE CHOOSE f \in whole : TRUE
    BY DEF Decoded
  <1> HIDE DEF whole
  <1> QED
    BY <1>6, <1>7

\* Two entries are not at the same place.
LEMMA Apart ==
    ASSUME TypeOK, WorkerInv, StreamInv, NEW f \in Ring, NEW g \in Ring
    PROVE  /\ begin[f] = begin[g] => f = g
           /\ begin[f] + Length(f) = begin[g] + Length(g) => f = g
           /\ begin[f] < begin[g] => begin[f] + Length(f) <= begin[g]
  <1>1. /\ f \in Nat /\ g \in Nat /\ begin[f] \in Nat /\ begin[g] \in Nat
        /\ Length(f) > PREFIX /\ Length(g) > PREFIX /\ f \in Frames /\ g \in Frames
    BY RingFacts
  <1>2. Length(f) \in Nat /\ Length(g) \in Nat
    BY <1>1, EntryFacts
  <1>3. /\ f < g => begin[f] + Length(f) <= begin[g]
        /\ g < f => begin[g] + Length(g) <= begin[f]
    BY DEF StreamInv
  <1>4. f < g \/ f = g \/ g < f
    BY <1>1
  <1> QED
    BY <1>1, <1>2, <1>3, <1>4 DEF PREFIX

LEMMA FramesFinite ==
    ASSUME NEW S \in SUBSET Frames
    PROVE  IsFiniteSet(S) /\ Cardinality(S) \in Nat /\ Cardinality(S) <= NFrames
  <1>1. IsFiniteSet(1..NFrames) /\ Cardinality(1..NFrames) = NFrames
    <2>1. 1 \in Int /\ NFrames \in Int /\ NFrames \in Nat
      BY NFramesIsNat
    <2>2. /\ IsFiniteSet(1..NFrames)
          /\ Cardinality(1..NFrames) = IF 1 > NFrames THEN 0 ELSE NFrames - 1 + 1
      BY <2>1, FS_Interval
    <2> QED
      BY <2>1, <2>2
  <1>2. S \subseteq 1..NFrames
    BY DEF Frames
  <1> QED
    BY <1>1, <1>2, FS_Subset, FS_CardinalityType

LEMMA CountedFacts ==
    IsFiniteSet(Counted) /\ Cardinality(Counted) \in Nat /\ Cardinality(Counted) <= NFrames
  <1>1. Counted \in SUBSET Frames
    BY DEF Counted, Published, Ring, Lane
  <1> HIDE DEF Counted
  <1> QED
    BY <1>1, FramesFinite

-----------------------------------------------------------------------------
(* What a step that leaves a part alone keeps. *)

LEMMA WorkerStays ==
    ASSUME WorkerInv, UNCHANGED <<readIdx, writeIdx, freed, wpc, frame, size, wpos, lane, begin>>
    PROVE  WorkerInv'
  BY DEF WorkerInv, Writing, Used, Written, Length

LEMMA StreamStays ==
    ASSUME StreamInv, UNCHANGED <<readIdx, writeIdx, freed, frame, size, lane, begin>>,
           Writing' <=> Writing
    PROVE  StreamInv' /\ Published' = Published
  BY DEF StreamInv, Published, Ring, Lane, Used, Written, Length

LEMMA CellsStay ==
    ASSUME CellsInv, UNCHANGED <<cells, freed, frame, size, lane, begin, wpos>>,
           Writing' <=> Writing
    PROVE  CellsInv'
  BY DEF CellsInv, Published, Ring, Lane, Length, Entry

LEMMA CountStays ==
    ASSUME CountInv, UNCHANGED <<count, freed, frame, size, lane, begin>>,
           rpc' = rpc \/ ({rpc, rpc'} \cap {"length", "copy", "sub"} = {}),
           Writing' <=> Writing, (wpc' = "count") <=> (wpc = "count")
    PROVE  CountInv'
  <1>1. Counted' = Counted
    BY DEF Counted, Published, Ring, Lane, Length
  <1> QED
    BY <1>1 DEF CountInv, Length

LEMMA ReaderStays ==
    ASSUME ReaderInv, UNCHANGED <<freed, frame, size, lane, begin, rpc, rlen, rpos, msg>>,
           Writing' => Writing
    PROVE  ReaderInv'
  BY DEF ReaderInv, Published, Ring, Lane, Length, Payload, Entry

LEMMA OutStays ==
    ASSUME OutInv, UNCHANGED <<freed, size, lane, begin, out>>,
           rpc' = rpc \/ ({rpc, rpc'} \cap {"sub", "dispatch"} = {})
    PROVE  OutInv'
  BY DEF OutInv, Taken, Delivered, Ring, Lane, Length

LEMMA PortStays ==
    ASSUME PortInv, UNCHANGED <<port, lane, frame, out>>, wpc' = "post" => wpc = "post"
    PROVE  PortInv'
  BY DEF PortInv, Posted, Delivered

-----------------------------------------------------------------------------
(* The worker. *)

LEMMA InitInv == Init => IInv
  <1> SUFFICES ASSUME Init PROVE IInv
    OBVIOUS
  <1>1. Ring = {} /\ Counted = {} /\ Published = {}
    BY DEF Init, Counted, Published, Ring, Lane
  <1>2. Capacity \in Nat /\ Capacity > 0 /\ NFrames \in Nat
    BY CapacityFits, NFramesIsNat DEF PREFIX
  <1>3. Used = 0 /\ Written = 0 /\ freed = 0
    BY DEF Init, Used, Written
  <1>4. TypeOK
    <2>1. cells \in [0..Capacity-1 -> Byte]
      BY <1>2 DEF Init, Byte
    <2>2. port \in Seq(Notice) /\ msg \in Seq(Byte) /\ out \in Seq(0..NFrames)
      BY EmptySeq DEF Init
    <2>3. /\ size \in [Frames -> FrameSizes \cup {0}]
          /\ lane \in [Frames -> {"none", "ring", "post"}] /\ begin \in [Frames -> Nat]
      BY DEF Init
    <2>4. /\ readIdx \in 0..Capacity-1 /\ writeIdx \in 0..Capacity-1 /\ count \in 0..NFrames
          /\ frame \in 0..NFrames
      BY <1>2 DEF Init
    <2> QED
      BY <2>1, <2>2, <2>3, <2>4 DEF Init, TypeOK
  <1>5. WorkerInv
    BY DEF Init, WorkerInv, Frames, Writing
  <1>6. StreamInv
    <2>1. 0 % Capacity = 0
      <3>1. 0 = Capacity * 0 + 0
        BY <1>2
      <3> QED
        BY <1>2, <3>1, ModUnique
    <2> QED
      BY <1>1, <1>3, <2>1 DEF Init, StreamInv
  <1>7. CellsInv /\ ReaderInv
    BY <1>1 DEF Init, CellsInv, ReaderInv
  <1>8. CountInv
    BY <1>1, FS_EmptySet DEF Init, CountInv
  <1>9. OutInv
    <2>1. Len(out) = 0 /\ Delivered = {}
      BY EmptySeq DEF Init, Delivered
    <2> QED
      BY <1>1, <2>1 DEF OutInv
  <1>10. PortInv /\ NoStrandedFrame
    <2>1. Len(port) = 0 /\ Notices = {} /\ count = 0 /\ wpc = "idle" /\ rpc = "idle"
      BY EmptySeq DEF Init, Notices
    <2>2. Cardinality(Notices) = 0
      BY <2>1, FS_EmptySet
    <2> QED
      BY <2>1, <2>2 DEF PortInv, NoStrandedFrame
  <1> QED
    BY <1>4, <1>5, <1>6, <1>7, <1>8, <1>9, <1>10 DEF IInv

LEMMA InitSabStep == IInv /\ InitSab => IInv'
  <1> SUFFICES ASSUME IInv, InitSab PROVE IInv'
    OBVIOUS
  <1>0. UNCHANGED <<readIdx, writeIdx, count, cells, wpc, frame, size, wpos, lane, begin,
                    port, rpc, rlen, rpos, msg, freed, out>> /\ sab' = TRUE
    BY DEF InitSab, memVars, readerVars
  <1>1. TypeOK'
    BY <1>0 DEF IInv, TypeOK
  <1>2. Writing' <=> Writing
    BY <1>0 DEF Writing
  <1>3. NoStrandedFrame'
    BY <1>0 DEF IInv, NoStrandedFrame, Notices
  <1> QED
    BY <1>0, <1>1, <1>2, <1>3, WorkerStays, StreamStays, CellsStay, CountStays, ReaderStays,
       OutStays, PortStays DEF IInv

LEMMA ArriveStep ==
    ASSUME IInv, NEW len \in FrameSizes, Arrive(len)
    PROVE  IInv'
  <1>n. PICK n \in Nat : n = frame + 1
    BY NFramesIsNat DEF IInv, TypeOK
  <1>0. /\ TypeOK /\ WorkerInv /\ StreamInv /\ CellsInv /\ CountInv /\ ReaderInv /\ OutInv
        /\ PortInv /\ NoStrandedFrame
        /\ wpc = "idle" /\ frame < NFrames /\ frame' = n
        /\ size' = [size EXCEPT ![n] = len] /\ wpos' = 0
        /\ UNCHANGED <<readIdx, writeIdx, count, cells, sab, port, rpc, rlen, rpos, msg,
                       freed, out>>
    BY <1>n DEF IInv, Arrive, memVars, readerVars
  <1>1. \/ /\ wpc' = "copy" /\ lane' = [lane EXCEPT ![n] = "ring"] /\ HasRoom(len)
           /\ begin' = [begin EXCEPT ![n] = freed + Used]
        \/ /\ wpc' = "post" /\ lane' = [lane EXCEPT ![n] = "post"] /\ begin' = begin
    BY <1>n DEF Arrive
  <1>2. n \in Frames /\ n \in Nat /\ frame \in Nat /\ ~(n <= frame) /\ frame < n /\ NFrames \in Nat
    BY <1>0, <1>n, NFramesIsNat DEF TypeOK, Frames
  <1>3. /\ freed \in Nat /\ Written \in Nat /\ freed <= Written /\ Written = freed + Used
        /\ Used' = Used /\ Written' = Written /\ len \in Nat /\ len > 0
    BY <1>0, WrittenFacts, SizesFacts DEF Used, Written
  <1>4. /\ lane[n] = "none" /\ n \notin Ring
        /\ \A f \in Ring : f \in Frames /\ f <= frame /\ f < n /\ f # n
    <2>1. lane[n] = "none"
      BY <1>0, <1>2 DEF WorkerInv
    <2>2. \A f \in Ring : f \in Frames /\ f <= frame /\ f \in Nat
      BY <1>0, RingFacts
    <2>3. \A f \in Ring : f < n /\ f # n
      BY <1>2, <2>2
    <2> QED
      BY <2>1, <2>2, <2>3 DEF Ring, Lane
  <1>5. /\ \A f \in Frames : f # n => lane'[f] = lane[f] /\ size'[f] = size[f]
                                      /\ begin'[f] = begin[f]
        /\ size'[n] = len /\ lane'[n] \in {"ring", "post"}
        /\ lane'[n] = "ring" => begin'[n] = Written /\ wpc' = "copy" /\ HasRoom(len)
        /\ lane'[n] = "post" => wpc' = "post"
    BY <1>0, <1>1, <1>2, <1>3 DEF TypeOK
  <1>6. /\ Published = Ring /\ Published' = Ring
        /\ Ring' = Ring \cup (IF lane'[n] = "ring" THEN {n} ELSE {})
    <2>1. Published = Ring
      BY <1>0 DEF Published, Writing
    <2>2. Ring' = Ring \cup (IF lane'[n] = "ring" THEN {n} ELSE {})
      BY <1>2, <1>4, <1>5 DEF Ring, Lane
    <2>3. lane'[n] = "ring" => Writing'
      BY <1>5 DEF Writing
    <2>4. Published' = {f \in Ring' : ~(Writing' /\ f = n)}
      BY <1>0 DEF Published
    <2> QED
      BY <1>4, <2>1, <2>2, <2>3, <2>4
  <1>7. \A f \in Ring : /\ Length(f)' = Length(f) /\ Entry(f)' = Entry(f)
                        /\ begin'[f] = begin[f] /\ lane'[f] = lane[f] /\ size'[f] = size[f]
    BY <1>4, <1>5 DEF Length, Entry
  <1>8. TypeOK'
    <2>1. size' \in [Frames -> FrameSizes \cup {0}]
      BY <1>0 DEF TypeOK
    <2>2. lane' \in [Frames -> {"none", "ring", "post"}] /\ begin' \in [Frames -> Nat]
      BY <1>0, <1>1, <1>3 DEF TypeOK
    <2>3. wpc' \in {"idle", "copy", "publish", "count", "notify", "post"}
      BY <1>1
    <2>4. frame' \in 0..NFrames
      BY <1>0, <1>2 DEF Frames
    <2> QED
      BY <1>0, <2>1, <2>2, <2>3, <2>4 DEF TypeOK
  <1>9. WorkerInv'
    <2>1. ASSUME NEW f \in Frames
          PROVE  (lane'[f] = "none" <=> f > frame') /\ (f <= frame' => size'[f] \in FrameSizes)
      <3>1. CASE f = n
        BY <1>0, <1>2, <1>5, <3>1
      <3>2. CASE f # n
        <4>1. f \in Nat /\ (f > n <=> f > frame) /\ (f <= n <=> f <= frame)
          BY <1>2, <1>n, <3>2, NFramesIsNat DEF Frames
        <4> QED
          BY <1>0, <1>5, <3>2, <4>1 DEF WorkerInv
      <3> QED
        BY <3>1, <3>2
    <2>2. lane'[n] = IF wpc' = "post" THEN "post" ELSE "ring"
      BY <1>5
    <2>3. wpc' \in {"copy", "post"}
      BY <1>1
    <2>4. Length(n)' = PREFIX + len /\ wpos' < Length(n)'
      BY <1>0, <1>3, <1>5 DEF Length, PREFIX
    <2>5. wpc' = "copy" => Used + (PREFIX + len) < Capacity /\ begin'[n] = Written
      <3>1. wpc' = "copy" => lane'[n] = "ring"
        BY <1>5
      <3>2. Used \in Nat
        BY <1>0, UsedFacts
      <3> HIDE DEF Used
      <3>3. HasRoom(len) => Used + (PREFIX + len) < Capacity
        BY <1>3, <3>2, CapacityFits DEF HasRoom, PREFIX
      <3> QED
        BY <1>5, <3>1, <3>3
    <2>6. WorkerInv' <=>
             /\ \A f \in Frames : /\ lane'[f] = "none" <=> f > frame'
                                  /\ f <= frame' => size'[f] \in FrameSizes
             /\ wpc' # "idle" =>
                  n \in Frames /\ lane'[n] = IF wpc' = "post" THEN "post" ELSE "ring"
             /\ wpc' = "copy" => wpos' < Length(n)'
             /\ wpc' = "publish" => wpos' = Length(n)'
             /\ Writing' => Used' + Length(n)' < Capacity /\ begin'[n] = Written'
      BY <1>0 DEF WorkerInv, Length
    <2> QED
      BY <1>2, <1>3, <2>1, <2>2, <2>3, <2>4, <2>5, <2>6 DEF Writing
  <1>10. StreamInv'
    <2>1. \A f \in Ring : begin[f] + Length(f) <= Written
      BY <1>0, <1>6 DEF StreamInv
    <2>2. ASSUME NEW f \in Ring', NEW g \in Ring', f < g
          PROVE  begin'[f] + Length(f)' <= begin'[g]
      <3>1. f # n
        <4> SUFFICES ASSUME f = n PROVE FALSE
          OBVIOUS
        <4>1. g \in Ring /\ g \in Nat
          <5>1. f \in Nat /\ (g = n => FALSE)
            BY <2>2
          <5>2. g \in Ring
            BY <1>6, <5>1
          <5> QED
            BY <1>0, <5>2, RingFacts
        <4>2. g < n
          BY <1>4, <4>1
        <4> QED
          BY <2>2, <4>1, <4>2
      <3>2. f \in Ring
        BY <1>6, <3>1
      <3>3. CASE g = n
        <4>1. begin'[n] = Written
          BY <1>4, <1>5, <1>6, <3>3
        <4> QED
          BY <1>7, <2>1, <3>2, <3>3, <4>1
      <3>4. CASE g # n
        BY <1>0, <1>6, <1>7, <2>2, <3>2, <3>4 DEF StreamInv
      <3> QED
        BY <3>3, <3>4
    <2>3. /\ readIdx' = freed' % Capacity
          /\ \A f \in Published' : begin'[f] + Length(f)' <= Written'
          /\ \A f \in Published' : begin'[f] + Length(f)' = Written'
                \/ \E g \in Published' : begin'[g] = begin'[f] + Length(f)'
          /\ freed' = Written' \/ \E g \in Published' : begin'[g] = freed'
      BY <1>0, <1>3, <1>6, <1>7 DEF StreamInv
    <2> QED
      BY <2>2, <2>3 DEF StreamInv
  <1>11. CellsInv'
    <2> SUFFICES ASSUME NEW f \in Ring', begin'[f] >= freed', NEW i \in 1..Length(f)',
                        f \in Published' \/ i <= wpos'
                 PROVE  cells'[(begin'[f] + i - 1) % Capacity] = Entry(f)'[i]
      BY DEF CellsInv
    <2>1. f \in Ring
      BY <1>0, <1>6
    <2> QED
      BY <1>0, <1>6, <1>7, <2>1 DEF CellsInv
  <1>12. CountInv'
    <2>1. wpc' # "count" /\ wpc # "count"
      BY <1>0, <1>1
    <2>2. Counted' = Counted
      BY <1>0, <1>6, <1>7, <2>1 DEF Counted
    <2>3. \A h \in Counted : h \in Ring
      BY <1>6 DEF Counted
    <2> QED
      BY <1>0, <1>7, <2>1, <2>2, <2>3 DEF CountInv
  <1>13. ReaderInv'
    <2>1. \A h \in Ring : \A k : Payload(h, k)' = Payload(h, k)
      BY <1>7 DEF Payload
    <2> QED
      BY <1>0, <1>6, <1>7 DEF ReaderInv, Payload
  <1>14. n \notin Delivered /\ \A i \in 1..Len(out) : out[i] # n
    <2>1. \A i \in 1..Len(out) : out[i] # n
      BY <1>0, <1>4 DEF OutInv
    <2> QED
      BY <2>1 DEF Delivered
  <1>15. OutInv'
    <2>1. ASSUME NEW f \in Ring' PROVE f \in Delivered' <=> Taken(f)'
      <3>1. CASE f = n
        <4>1. begin'[n] = Written
          BY <1>4, <1>5, <1>6, <3>1
        <4>2. ~(begin'[n] < freed)
          BY <1>3, <4>1
        <4> QED
          BY <1>0, <1>14, <3>1, <4>2 DEF Taken, Delivered
      <3>2. CASE f # n
        <4>1. f \in Ring
          BY <1>6, <3>2
        <4> QED
          BY <1>0, <1>7, <4>1 DEF OutInv, Taken, Delivered
      <3> QED
        BY <3>1, <3>2
    <2>2. \A i \in 1..Len(out) : out[i] \in Frames /\ lane'[out[i]] = lane[out[i]]
      BY <1>0, <1>5, <1>14 DEF OutInv
    <2>3. /\ \A i \in 1..Len(out) : out[i] \in Frames /\ lane'[out[i]] # "none"
          /\ \A i, j \in 1..Len(out) :
                i < j /\ lane'[out[i]] = lane'[out[j]] => out[i] < out[j]
      BY <1>0, <2>2 DEF OutInv
    <2> QED
      BY <1>0, <2>1, <2>3 DEF OutInv
  <1>16. PortInv'
    <2>1. \A d \in Delivered : d \in Frames /\ lane'[d] = lane[d] /\ d <= frame /\ d < n
      <3> SUFFICES ASSUME NEW i \in 1..Len(out)
                   PROVE  out[i] \in Frames /\ lane'[out[i]] = lane[out[i]]
                          /\ out[i] <= frame /\ out[i] < n
        BY DEF Delivered
      <3>1. out[i] \in Frames /\ lane[out[i]] # "none" /\ out[i] # n
        BY <1>0, <1>14 DEF OutInv
      <3>2. ~(out[i] > frame) /\ out[i] \in Nat
        BY <1>0, <3>1, NFramesIsNat DEF WorkerInv, Frames
      <3> QED
        BY <1>2, <1>5, <3>1, <3>2
    <2>2. ASSUME NEW k \in 1..Len(port), Posted(k)
          PROVE  /\ port[k].frame \in Frames /\ lane'[port[k].frame] = "post"
                 /\ port[k].frame < n
      <3>1. port[k].frame \in Frames
        BY <1>0, <2>2 DEF TypeOK, Posted, Notice
      <3>2. lane[port[k].frame] = "post"
        BY <1>0, <2>2 DEF PortInv
      <3>3. ~(port[k].frame > frame) /\ port[k].frame \in Nat
        BY <1>0, <3>1, <3>2, NFramesIsNat DEF WorkerInv, Frames
      <3>4. port[k].frame # n
        BY <1>4, <3>2
      <3> QED
        BY <1>2, <1>5, <3>1, <3>2, <3>3, <3>4
    <2>3. Delivered' = Delivered /\ port' = port /\ \A k : Posted(k)' <=> Posted(k)
      BY <1>0 DEF Delivered, Posted
    <2> QED
      BY <1>0, <2>1, <2>2, <2>3 DEF PortInv, Posted
  <1>17. NoStrandedFrame'
    <2>1. wpc # "notify" /\ wpc' # "notify"
      BY <1>0, <1>1
    <2> QED
      BY <1>0, <2>1 DEF NoStrandedFrame, Notices
  <1> QED
    BY <1>8, <1>9, <1>10, <1>11, <1>12, <1>13, <1>15, <1>16, <1>17 DEF IInv

\* The byte copied goes where none is that the main thread may still read.
LEMMA CopyInStep == IInv /\ CopyIn => IInv'
  <1> SUFFICES ASSUME IInv, CopyIn PROVE IInv'
    OBVIOUS
  <1>0. /\ TypeOK /\ WorkerInv /\ StreamInv /\ CellsInv /\ CountInv /\ ReaderInv /\ OutInv
        /\ PortInv /\ NoStrandedFrame
        /\ wpc = "copy" /\ wpos' = wpos + 1
        /\ cells' = [cells EXCEPT ![(writeIdx + wpos) % Capacity] = Entry(frame)[wpos + 1]]
        /\ wpc' = IF wpos' = Len(Entry(frame)) THEN "publish" ELSE "copy"
        /\ UNCHANGED <<readIdx, writeIdx, count, sab, frame, size, lane, begin, port,
                       rpc, rlen, rpos, msg, freed, out>>
    BY DEF IInv, CopyIn, readerVars
  <1>1. /\ frame \in Ring /\ frame \in Frames /\ begin[frame] = Written
        /\ Used + Length(frame) < Capacity /\ wpos < Length(frame) /\ wpos \in Nat
    BY <1>0 DEF WorkerInv, Writing, Ring, Lane, TypeOK
  <1>2. /\ Len(Entry(frame)) = Length(frame) /\ Length(frame) \in Nat
        /\ wpos + 1 \in 1..Length(frame) /\ Entry(frame)[wpos + 1] \in Byte
    <2>1. /\ Len(Entry(frame)) = Length(frame) /\ Length(frame) \in Nat
          /\ Entry(frame) \in Seq(Byte)
      BY <1>0, <1>1, EntryFacts
    <2>2. wpos + 1 \in 1..Length(frame)
      BY <1>1, <2>1
    <2> HIDE DEF Entry
    <2> QED
      BY <2>1, <2>2
  <1>3. /\ freed \in Nat /\ Written \in Nat /\ freed <= Written /\ Written = freed + Used
        /\ writeIdx = Written % Capacity /\ Capacity \in Nat /\ Capacity > 0
    BY <1>0, WrittenFacts, CapacityFits DEF Written, PREFIX
  <1>4. Writing /\ Writing' /\ wpc' # "count" /\ wpc # "count" /\ wpc' \in {"copy", "publish"}
        /\ wpc' # "post" /\ wpc' # "notify"
    BY <1>0 DEF Writing
  <1> DEFINE at == (Written + wpos) % Capacity
  <1>5. (writeIdx + wpos) % Capacity = at /\ at \in 0..Capacity-1
    <2>1. (writeIdx + wpos) % Capacity = at
      <3> HIDE DEF Written
      <3> QED
        BY <1>1, <1>3, ModAdd
    <2>2. Written + wpos \in Nat
      BY <1>1, <1>3
    <2> HIDE DEF Written
    <2> QED
      BY <1>3, <2>1, <2>2, ModFacts
  <1>6. /\ cells'[at] = Entry(frame)[wpos + 1]
        /\ \A a \in 0..Capacity-1 : a # at => cells'[a] = cells[a]
    <2> HIDE DEF at
    <2> QED
      BY <1>0, <1>5 DEF TypeOK
  <1>7. TypeOK'
    <2>1. cells' \in [0..Capacity-1 -> Byte]
      <3> HIDE DEF at
      <3> QED
        BY <1>0, <1>2, <1>5 DEF TypeOK
    <2>2. wpos' \in Nat
      BY <1>0, <1>1
    <2> QED
      BY <1>0, <1>4, <2>1, <2>2 DEF TypeOK
  <1>8. WorkerInv'
    <2>1. Length(frame)' = Length(frame) /\ Used' = Used /\ Written' = Written
          /\ Entry(frame)' = Entry(frame)
      BY <1>0 DEF Length, Used, Written, Entry
    <2>2. /\ wpc' = "copy" => wpos' < Length(frame)
          /\ wpc' = "publish" => wpos' = Length(frame)
      BY <1>0, <1>1, <1>2
    <2>3. lane[frame] = "ring"
      BY <1>1 DEF Ring, Lane
    <2> HIDE DEF Length, Used, Written
    <2> QED
      BY <1>0, <1>1, <1>4, <2>1, <2>2, <2>3 DEF WorkerInv, Length
  <1>9. Published' = Published /\ Ring' = Ring /\ \A f : Length(f)' = Length(f)
        /\ Entry(f)' = Entry(f)
    BY <1>0, <1>4 DEF Published, Ring, Lane, Length, Entry
  <1>10. CellsInv'
    <2> SUFFICES ASSUME NEW f \in Ring, begin[f] >= freed, NEW i \in 1..Length(f),
                        f \in Published \/ i <= wpos + 1
                 PROVE  cells'[(begin[f] + i - 1) % Capacity] = Entry(f)[i]
      BY <1>0, <1>9 DEF CellsInv
    <2>1. begin[f] \in Nat /\ Length(f) \in Nat /\ i \in Nat /\ i >= 1 /\ i <= Length(f)
      <3>1. begin[f] \in Nat /\ f \in Frames
        BY <1>0, RingFacts
      <3>2. Length(f) \in Nat
        BY <1>0, <3>1, EntryFacts
      <3> HIDE DEF Length
      <3> QED
        BY <3>1, <3>2
    <2> DEFINE b == begin[f] + i - 1
               w == Written + wpos
    <2>2. b \in Nat /\ w \in Nat /\ b >= freed /\ w < freed + Capacity
      <3>1. b \in Nat /\ b >= freed
        BY <1>3, <2>1
      <3> DEFINE m == Length(frame)
                 u == Used
                 n == Written
      <3>2. /\ u + m < Capacity /\ wpos < m /\ wpos \in Nat /\ m \in Nat /\ u \in Nat
            /\ n = freed + u /\ n \in Nat /\ freed \in Nat /\ Capacity \in Nat
        BY <1>0, <1>1, <1>2, <1>3, UsedFacts
      <3> HIDE DEF m, u, n
      <3>3. n + wpos \in Nat /\ n + wpos < freed + Capacity
        BY <3>2
      <3> QED
        BY <3>1, <3>3 DEF n
    <2>3. CASE f = frame /\ i = wpos + 1
      <3>1. b = w
        BY <1>1, <1>3, <2>1, <2>3
      <3> HIDE DEF b, w
      <3>2. cells'[b % Capacity] = Entry(frame)[wpos + 1]
        BY <1>6, <3>1 DEF w
      <3> QED
        BY <2>3, <3>2 DEF b
    <2>4. CASE ~(f = frame /\ i = wpos + 1)
      <3>1. b < w /\ (f \in Published \/ i <= wpos)
        <4>1. CASE f = frame
          <5>1. f \notin Published
            BY <1>4, <4>1 DEF Published
          <5>2. i <= wpos
            BY <1>1, <2>1, <2>4, <4>1, <5>1
          <5> HIDE DEF Written
          <5> QED
            BY <1>1, <1>3, <2>1, <4>1, <5>2
        <4>2. CASE f # frame
          <5>1. f \in Published
            BY <4>2 DEF Published
          <5>2. begin[f] + Length(f) <= Written
            BY <1>0, <5>1 DEF StreamInv
          <5> HIDE DEF Written, Length
          <5> QED
            BY <1>1, <1>3, <2>1, <5>1, <5>2
        <4> QED
          BY <4>1, <4>2
      <3>2. cells[b % Capacity] = Entry(f)[i]
        BY <1>0, <3>1 DEF CellsInv
      <3> HIDE DEF b, w
      <3>3. b % Capacity # w % Capacity
        <4>1. w < b + Capacity
          BY <1>3, <2>2
        <4> QED
          BY <1>3, <2>2, <3>1, <4>1, ModNear
      <3>4. b % Capacity \in 0..Capacity-1
        BY <1>3, <2>2, ModFacts
      <3>5. cells'[b % Capacity] = cells[b % Capacity]
        BY <1>6, <3>3, <3>4 DEF w
      <3> QED
        BY <3>2, <3>5 DEF b
    <2> QED
      BY <2>3, <2>4
  <1>11. NoStrandedFrame'
    BY <1>0, <1>4 DEF NoStrandedFrame, Notices
  <1> QED
    BY <1>0, <1>4, <1>7, <1>8, <1>10, <1>11, StreamStays, CountStays, ReaderStays,
       OutStays, PortStays DEF IInv

\* A published entry begins where the last one ended; it is not counted yet.
LEMMA PublishStep == IInv /\ Publish => IInv'
  <1> SUFFICES ASSUME IInv, Publish PROVE IInv'
    OBVIOUS
  <1>0. /\ TypeOK /\ WorkerInv /\ StreamInv /\ CellsInv /\ CountInv /\ ReaderInv /\ OutInv
        /\ PortInv /\ NoStrandedFrame
        /\ wpc = "publish" /\ wpc' = "count"
        /\ writeIdx' = (writeIdx + Len(Entry(frame))) % Capacity
        /\ UNCHANGED <<readIdx, count, cells, sab, frame, size, wpos, lane, begin, port,
                       rpc, rlen, rpos, msg, freed, out>>
    BY DEF IInv, Publish, readerVars
  <1> DEFINE l == Length(frame)
  <1>1. /\ frame \in Ring /\ frame \in Frames /\ begin[frame] = Written
        /\ Used + l < Capacity /\ wpos = l /\ Writing /\ ~Writing'
        /\ lane[frame] = "ring"
    BY <1>0 DEF WorkerInv, Writing, Ring, Lane, TypeOK
  <1>2. Len(Entry(frame)) = l /\ l \in Nat
    BY <1>0, <1>1, EntryFacts
  <1>3. /\ freed \in Nat /\ Written \in Nat /\ freed <= Written /\ Written = freed + Used
        /\ readIdx \in 0..Capacity-1 /\ Used \in 0..Capacity-1
        /\ (readIdx + Used) % Capacity = writeIdx
        /\ Capacity \in Nat /\ Capacity > 0
    <2>1. /\ freed \in Nat /\ Written \in Nat /\ freed <= Written /\ Written = freed + Used
      BY <1>0, WrittenFacts DEF Written
    <2>2. Used \in 0..Capacity-1 /\ (readIdx + Used) % Capacity = writeIdx
      BY <1>0, UsedFacts
    <2>3. readIdx \in 0..Capacity-1 /\ Capacity \in Nat /\ Capacity > 0
      BY <1>0, CapacityFits DEF PREFIX, TypeOK
    <2> HIDE DEF Used, Written
    <2> QED
      BY <2>1, <2>2, <2>3
  <1> HIDE DEF l
  <1>4. Used' = Used + l /\ writeIdx' \in 0..Capacity-1 /\ Written' = Written + l
    <2> DEFINE u == Used
    <2>1. u \in 0..Capacity-1 /\ (readIdx + u) % Capacity = writeIdx /\ u + l < Capacity
          /\ u \in Nat /\ readIdx \in Nat /\ readIdx + u \in Nat
      BY <1>1, <1>3
    <2> HIDE DEF u
    <2>2. (((readIdx + u) % Capacity) + l) % Capacity = (readIdx + u + l) % Capacity
      BY <1>2, <1>3, <2>1, ModAdd
    <2>3. writeIdx' = (readIdx + (u + l)) % Capacity
      <3>1. readIdx + u + l = readIdx + (u + l)
        BY <1>2, <2>1
      <3> QED
        BY <1>0, <1>2, <2>1, <2>2, <3>1
    <2>4. u + l \in 0..Capacity-1
      BY <1>2, <1>3, <2>1
    <2>5. Gap(readIdx, writeIdx', Capacity) = u + l
      <3> DEFINE v == u + l
                 w == writeIdx'
      <3>1. v \in 0..Capacity-1 /\ w = (readIdx + v) % Capacity
        BY <2>3, <2>4
      <3> HIDE DEF v, w
      <3>2. Gap(readIdx, w, Capacity) = v
        BY <1>3, <3>1, UsedIs
      <3> QED
        BY <3>2 DEF v, w
    <2>6. Used' = u + l
      BY <1>0, <2>5 DEF Used, Gap
    <2>7. writeIdx' \in 0..Capacity-1
      <3>1. readIdx + (u + l) \in Nat
        BY <1>2, <2>1
      <3> QED
        BY <1>3, <2>3, <3>1, ModFacts
    <2>8. Written' = freed + (u + l) /\ Written = freed + u
      BY <1>0, <2>6 DEF Written, u
    <2> QED
      BY <1>2, <1>3, <2>1, <2>6, <2>7, <2>8 DEF u
  <1>5. /\ Ring' = Ring /\ Published' = Ring /\ Published = Ring \ {frame}
        /\ \A f : Length(f)' = Length(f) /\ Entry(f)' = Entry(f)
    BY <1>0, <1>1 DEF Published, Ring, Lane, Length, Entry
  <1>6. TypeOK'
    BY <1>0, <1>4 DEF TypeOK
  <1>7. WorkerInv'
    BY <1>0, <1>1, <1>5 DEF WorkerInv
  <1>8. StreamInv'
    <2>1. ASSUME NEW f \in Ring
          PROVE  /\ begin[f] + Length(f) <= Written'
                 /\ \/ begin[f] + Length(f) = Written'
                    \/ \E g \in Ring : begin[g] = begin[f] + Length(f)
      <3>1. CASE f = frame
        BY <1>1, <1>2, <1>3, <1>4, <3>1 DEF l
      <3>2. CASE f # frame
        <4>1. f \in Published
          BY <1>5, <3>2
        <4>2. /\ begin[f] + Length(f) <= Written
              /\ \/ begin[f] + Length(f) = Written
                 \/ \E g \in Published : begin[g] = begin[f] + Length(f)
          BY <1>0, <4>1 DEF StreamInv
        <4>3. begin[f] \in Nat /\ Length(f) \in Nat
          BY <1>0, RingFacts, EntryFacts
        <4>4. begin[f] + Length(f) <= Written'
          <5> DEFINE e == begin[f] + Length(f)
          <5>1. e \in Nat /\ e <= Written
            BY <4>2, <4>3
          <5> HIDE DEF e
          <5> QED
            BY <1>2, <1>3, <1>4, <5>1 DEF e
        <4>5. \/ begin[f] + Length(f) = Written'
              \/ \E g \in Ring : begin[g] = begin[f] + Length(f)
          BY <1>1, <1>5, <4>2
        <4> QED
          BY <4>4, <4>5
      <3> QED
        BY <3>1, <3>2
    <2>2. freed = Written' \/ \E g \in Ring : begin[g] = freed
      BY <1>0, <1>1, <1>5 DEF StreamInv
    <2>3. \A f, g \in Ring : f < g => begin[f] + Length(f) <= begin[g]
      BY <1>0 DEF StreamInv
    <2>4. readIdx = freed % Capacity
      BY <1>0 DEF StreamInv
    <2> QED
      BY <1>0, <1>5, <2>1, <2>2, <2>3, <2>4 DEF StreamInv
  <1>9. CellsInv'
    <2> SUFFICES ASSUME NEW f \in Ring, begin[f] >= freed, NEW i \in 1..Length(f)
                 PROVE  cells[(begin[f] + i - 1) % Capacity] = Entry(f)[i]
      BY <1>0, <1>5 DEF CellsInv
    <2>1. f \in Published \/ i <= wpos
      <3>1. CASE f = frame
        BY <1>1, <1>2, <3>1 DEF l
      <3>2. CASE f # frame
        BY <1>5, <3>2
      <3> QED
        BY <3>1, <3>2
    <2> QED
      BY <1>0, <2>1 DEF CellsInv
  <1>10. CountInv'
    <2>1. Counted' = Counted
      BY <1>0, <1>5 DEF Counted
    <2> QED
      BY <1>0, <1>1, <1>3, <1>5, <2>1 DEF CountInv
  <1>11. ReaderInv'
    BY <1>0, <1>1, ReaderStays
  <1>12. NoStrandedFrame'
    BY <1>0 DEF NoStrandedFrame, Notices
  <1>13. OutInv' /\ PortInv'
    BY <1>0, OutStays, PortStays
  <1> QED
    BY <1>6, <1>7, <1>8, <1>9, <1>10, <1>11, <1>12, <1>13 DEF IInv

LEMMA AddCountStep == IInv /\ AddCount => IInv'
  <1> SUFFICES ASSUME IInv, AddCount PROVE IInv'
    OBVIOUS
  <1>0. /\ TypeOK /\ WorkerInv /\ StreamInv /\ CellsInv /\ CountInv /\ ReaderInv /\ OutInv
        /\ PortInv /\ NoStrandedFrame
        /\ wpc = "count" /\ wpc' = "notify" /\ count' = count + 1
        /\ UNCHANGED <<readIdx, writeIdx, cells, sab, frame, size, wpos, lane, begin, port,
                       rpc, rlen, rpos, msg, freed, out>>
    BY DEF IInv, AddCount, readerVars
  <1>1. ~Writing /\ ~Writing' /\ frame \in Ring /\ frame \in Frames /\ begin[frame] >= freed
    BY <1>0 DEF Writing, WorkerInv, CountInv, Ring, Lane
  <1>2. Published = Ring /\ Published' = Ring /\ Ring' = Ring /\ \A f : Length(f)' = Length(f)
    BY <1>0, <1>1 DEF Published, Ring, Lane, Length
  <1>3. Counted' = Counted \cup {frame} /\ frame \notin Counted
    BY <1>0, <1>1, <1>2 DEF Counted
  <1>4. count' = Cardinality(Counted') /\ count' \in 0..NFrames
    <2>1. Counted \cup {frame} \in SUBSET Frames
      BY <1>1 DEF Counted, Published, Ring, Lane
    <2>2. Cardinality(Counted \cup {frame}) \in Nat /\ Cardinality(Counted \cup {frame}) <= NFrames
      <3> HIDE DEF Counted
      <3> QED
        BY <2>1, FramesFinite
    <2>3. Cardinality(Counted \cup {frame}) = Cardinality(Counted) + 1
      <3> HIDE DEF Counted
      <3> QED
        BY <1>3, CountedFacts, FS_AddElement
    <2>4. count' = Cardinality(Counted \cup {frame})
      BY <1>0, <2>3 DEF CountInv
    <2> QED
      BY <1>3, <2>2, <2>4, NFramesIsNat
  <1>5. TypeOK'
    BY <1>0, <1>4 DEF TypeOK
  <1>6. WorkerInv'
    BY <1>0, <1>1, <1>2 DEF WorkerInv
  <1>7. CountInv'
    BY <1>0, <1>2, <1>3, <1>4 DEF CountInv
  <1>8. NoStrandedFrame'
    <2>1. Notices' = Notices /\ Cardinality(Notices) \in Nat
      <3>1. Len(port) \in Nat
        BY <1>0 DEF TypeOK
      <3>2. IsFiniteSet(Notices)
        <4>1. 1 \in Int /\ Len(port) \in Int
          BY <3>1
        <4>2. IsFiniteSet(1..Len(port))
          BY <4>1, FS_Interval
        <4> QED
          BY <4>2, FS_Subset DEF Notices
      <3> QED
        BY <1>0, <3>2, FS_CardinalityType DEF Notices
    <2>2. count \in Nat
      BY <1>0, NFramesIsNat DEF TypeOK
    <2> HIDE DEF Notices
    <2> QED
      BY <1>0, <2>1, <2>2 DEF NoStrandedFrame
  <1> QED
    BY <1>0, <1>1, <1>5, <1>6, <1>7, <1>8, StreamStays, CellsStay, ReaderStays, OutStays,
       PortStays DEF IInv

\* The notices under way, and what one more or one fewer does to them.
LEMMA NoticesFacts ==
    ASSUME NEW q \in Seq(Notice)
    PROVE  LET N == {i \in 1..Len(q) : q[i].type = "sab-frame"} IN
           IsFiniteSet(N) /\ Cardinality(N) \in Nat
  <1>1. 1 \in Int /\ Len(q) \in Int
    OBVIOUS
  <1>2. IsFiniteSet(1..Len(q))
    BY <1>1, FS_Interval
  <1> DEFINE N == {i \in 1..Len(q) : q[i].type = "sab-frame"}
  <1>3. N \subseteq 1..Len(q)
    OBVIOUS
  <1> HIDE DEF N
  <1>4. IsFiniteSet(N) /\ Cardinality(N) \in Nat
    BY <1>2, <1>3, FS_Subset, FS_CardinalityType
  <1> QED
    BY <1>4 DEF N

LEMMA AppendFacts ==
    ASSUME NEW S, NEW q \in Seq(S), NEW x \in S
    PROVE  /\ Append(q, x) \in Seq(S) /\ Len(q) \in Nat /\ Len(Append(q, x)) = Len(q) + 1
           /\ \A i \in 1..Len(q) : Append(q, x)[i] = q[i]
           /\ Append(q, x)[Len(q) + 1] = x
  BY AppendProperties

LEMMA TailFacts ==
    ASSUME NEW S, NEW q \in Seq(S), q # <<>>
    PROVE  /\ Tail(q) \in Seq(S) /\ Len(q) \in Nat /\ Len(q) >= 1 /\ Len(Tail(q)) = Len(q) - 1
           /\ Head(q) = q[1] /\ Head(q) \in S
           /\ \A i \in 1..Len(q)-1 : Tail(q)[i] = q[i+1]
  BY HeadTailProperties, EmptySeq

LEMMA NotifyStep == IInv /\ Notify => IInv'
  <1> SUFFICES ASSUME IInv, Notify PROVE IInv'
    OBVIOUS
  <1> DEFINE note == [type |-> "sab-frame"]
             n == Len(port)
  <1>0. /\ TypeOK /\ WorkerInv /\ StreamInv /\ CellsInv /\ CountInv /\ ReaderInv /\ OutInv
        /\ PortInv /\ NoStrandedFrame
        /\ wpc = "notify" /\ wpc' = "idle" /\ port' = Append(port, note)
        /\ UNCHANGED <<readIdx, writeIdx, count, cells, sab, frame, size, wpos, lane, begin,
                       rpc, rlen, rpos, msg, freed, out>>
    BY DEF IInv, Notify, memVars, readerVars
  <1>1. note \in Notice /\ note.type = "sab-frame"
    BY DEF Notice
  <1> HIDE DEF note
  <1>2. /\ port' \in Seq(Notice) /\ n \in Nat /\ Len(port') = n + 1
        /\ \A i \in 1..n : port'[i] = port[i]
        /\ port'[n+1] = note /\ port \in Seq(Notice)
    BY <1>0, <1>1, AppendFacts DEF TypeOK
  <1>3. TypeOK'
    BY <1>0, <1>2 DEF TypeOK
  <1>4. ~Writing /\ ~Writing'
    BY <1>0 DEF Writing
  <1>5. WorkerInv'
    BY <1>0, <1>4 DEF WorkerInv
  <1> HIDE DEF n
  <1>6. PortInv'
    <2>1. \A i \in 1..n+1 : Posted(i)' <=> (i \in 1..n /\ Posted(i))
      <3> SUFFICES ASSUME NEW i \in 1..n+1 PROVE Posted(i)' <=> (i \in 1..n /\ Posted(i))
        OBVIOUS
      <3>1. CASE i = n + 1
        BY <1>1, <1>2, <3>1 DEF Posted
      <3>2. CASE i # n + 1
        <4>1. i \in 1..n
          BY <1>2, <3>2
        <4> QED
          BY <1>2, <4>1 DEF Posted, n
      <3> QED
        BY <3>1, <3>2
    <2>2. Delivered' = Delivered
      BY <1>0 DEF Delivered
    <2>3. ASSUME NEW i \in 1..n+1, Posted(i)'
          PROVE  /\ lane[port'[i].frame] = "post"
                 /\ \A m \in 1..i-1 : Posted(m)' => port'[m].frame < port'[i].frame
                 /\ \A d \in Delivered : lane[d] = "post" => d < port'[i].frame
      <3>1. i \in 1..n /\ Posted(i) /\ port'[i] = port[i]
        BY <1>2, <2>1, <2>3
      <3>2. \A m \in 1..i-1 : m \in 1..n /\ m \in 1..n+1 /\ port'[m] = port[m]
        BY <1>2, <3>1
      <3>3. /\ lane[port[i].frame] = "post"
            /\ \A m \in 1..i-1 : Posted(m) => port[m].frame < port[i].frame
            /\ \A d \in Delivered : lane[d] = "post" => d < port[i].frame
        BY <1>0, <3>1 DEF PortInv, n
      <3> QED
        BY <2>1, <3>1, <3>2, <3>3
    <2> QED
      BY <1>0, <1>2, <2>2, <2>3 DEF PortInv
  <1>7. NoStrandedFrame'
    <2>1. Notices' = Notices \cup {n+1} /\ n + 1 \notin Notices
      BY <1>1, <1>2 DEF Notices, n
    <2>2. IsFiniteSet(Notices) /\ Cardinality(Notices) \in Nat
      BY <1>2, NoticesFacts DEF Notices
    <2> HIDE DEF Notices
    <2>3. Cardinality(Notices') = Cardinality(Notices) + 1
      BY <2>1, <2>2, FS_AddElement
    <2>4. count \in Nat
      BY <1>0, NFramesIsNat DEF TypeOK
    <2> QED
      BY <1>0, <2>2, <2>3, <2>4 DEF NoStrandedFrame
  <1> QED
    BY <1>0, <1>3, <1>4, <1>5, <1>6, <1>7, StreamStays, CellsStay, CountStays, ReaderStays,
       OutStays DEF IInv

LEMMA PostStep == IInv /\ Post => IInv'
  <1> SUFFICES ASSUME IInv, Post PROVE IInv'
    OBVIOUS
  <1> DEFINE note == [type |-> "message", frame |-> frame]
             n == Len(port)
  <1>0. /\ TypeOK /\ WorkerInv /\ StreamInv /\ CellsInv /\ CountInv /\ ReaderInv /\ OutInv
        /\ PortInv /\ NoStrandedFrame
        /\ wpc = "post" /\ wpc' = "idle" /\ port' = Append(port, note)
        /\ UNCHANGED <<readIdx, writeIdx, count, cells, sab, frame, size, wpos, lane, begin,
                       rpc, rlen, rpos, msg, freed, out>>
    BY DEF IInv, Post, memVars, readerVars
  <1>1. frame \in Frames /\ lane[frame] = "post"
    BY <1>0 DEF WorkerInv
  <1>2. note \in Notice /\ note.type = "message" /\ note.frame = frame
    BY <1>1 DEF Notice
  <1> HIDE DEF note
  <1>3. /\ port' \in Seq(Notice) /\ n \in Nat /\ Len(port') = n + 1
        /\ \A i \in 1..n : port'[i] = port[i]
        /\ port'[n+1] = note /\ port \in Seq(Notice)
    BY <1>0, <1>2, AppendFacts DEF TypeOK
  <1>4. TypeOK'
    BY <1>0, <1>3 DEF TypeOK
  <1>5. ~Writing /\ ~Writing'
    BY <1>0 DEF Writing
  <1>6. WorkerInv'
    BY <1>0, <1>5 DEF WorkerInv
  <1> HIDE DEF n
  <1>7. PortInv'
    <2>1. \A i \in 1..n : (Posted(i)' <=> Posted(i)) /\ port'[i] = port[i]
      BY <1>3 DEF Posted, n
    <2>2. Delivered' = Delivered
      BY <1>0 DEF Delivered
    <2>3. ASSUME NEW i \in 1..n+1, Posted(i)'
          PROVE  /\ lane[port'[i].frame] = "post"
                 /\ \A m \in 1..i-1 : Posted(m)' => port'[m].frame < port'[i].frame
                 /\ \A d \in Delivered : lane[d] = "post" => d < port'[i].frame
      <3>1. CASE i = n + 1
        <4>1. port'[i].frame = frame
          BY <1>2, <1>3, <3>1
        <4>2. \A m \in 1..i-1 : m \in 1..n
          BY <1>3, <3>1
        <4>3. \A m \in 1..n : Posted(m) => port[m].frame < frame
          BY <1>0 DEF PortInv, n
        <4>4. \A d \in Delivered : lane[d] = "post" => d < frame
          BY <1>0 DEF PortInv
        <4> QED
          BY <1>1, <2>1, <4>1, <4>2, <4>3, <4>4
      <3>2. CASE i # n + 1
        <4>1. i \in 1..n /\ \A m \in 1..i-1 : m \in 1..n
          BY <1>3, <3>2
        <4>2. Posted(i) /\ port'[i] = port[i]
          BY <2>1, <2>3, <4>1
        <4>3. /\ lane[port[i].frame] = "post"
              /\ \A m \in 1..i-1 : Posted(m) => port[m].frame < port[i].frame
              /\ \A d \in Delivered : lane[d] = "post" => d < port[i].frame
          BY <1>0, <4>1, <4>2 DEF PortInv, n
        <4> QED
          BY <2>1, <4>1, <4>2, <4>3
      <3> QED
        BY <3>1, <3>2
    <2> QED
      BY <1>0, <1>3, <2>2, <2>3 DEF PortInv
  <1>8. NoStrandedFrame'
    <2>1. Notices' = Notices
      <3>1. Notices' = {i \in 1..n+1 : port'[i].type = "sab-frame"}
        BY <1>3 DEF Notices
      <3>2. Notices = {i \in 1..n : port[i].type = "sab-frame"}
        BY DEF Notices, n
      <3>3. \A i \in 1..n+1 : i = n + 1 \/ i \in 1..n
        BY <1>3
      <3>4. port'[n+1].type # "sab-frame" /\ \A i \in 1..n : i \in 1..n+1
        BY <1>2, <1>3
      <3> QED
        BY <1>3, <3>1, <3>2, <3>3, <3>4
    <2> QED
      BY <1>0, <2>1 DEF NoStrandedFrame
  <1> QED
    BY <1>0, <1>4, <1>5, <1>6, <1>7, <1>8, StreamStays, CellsStay, CountStays, ReaderStays,
       OutStays DEF IInv

-----------------------------------------------------------------------------
(* The main thread. *)

\* A message handled takes its notice, if it is one.
LEMMA TailNotices ==
    ASSUME port \in Seq(Notice), port # <<>>, port' = Tail(port)
    PROVE  /\ Cardinality(Notices) \in Nat /\ Cardinality(Notices') \in Nat
           /\ Head(port).type # "sab-frame" => Cardinality(Notices') = Cardinality(Notices)
           /\ Head(port).type = "sab-frame" => Cardinality(Notices) = Cardinality(Notices') + 1
  <1> DEFINE n == Len(port)
             Rest == {i \in 2..n : port[i].type = "sab-frame"}
             down == [i \in Rest |-> i - 1]
  <1>1. /\ port' \in Seq(Notice) /\ n \in Nat /\ n >= 1
        /\ Len(port') = n - 1 /\ Head(port) = port[1]
        /\ \A i \in 1..n-1 : port'[i] = port[i+1]
    BY TailFacts
  <1>2. /\ IsFiniteSet(Notices) /\ Cardinality(Notices) \in Nat
        /\ IsFiniteSet(Notices') /\ Cardinality(Notices') \in Nat
    BY <1>1, NoticesFacts DEF Notices
  <1> HIDE DEF n
  <1>3. Notices = Rest \cup (IF Head(port).type = "sab-frame" THEN {1} ELSE {})
    <2>1. Notices = {i \in 1..n : port[i].type = "sab-frame"}
      BY DEF Notices, n
    <2>2. \A i \in 1..n : i = 1 \/ i \in 2..n
      BY <1>1
    <2>3. 1 \in 1..n /\ \A i \in 2..n : i \in 1..n
      BY <1>1
    <2> QED
      BY <1>1, <2>1, <2>2, <2>3
  <1>4. Notices' = {i \in 1..n-1 : port[i+1].type = "sab-frame"}
    BY <1>1 DEF Notices
  <1>5. down \in Bijection(Rest, Notices')
    <2>1. down \in [Rest -> Notices']
      <3> SUFFICES ASSUME NEW i \in Rest PROVE i - 1 \in Notices'
        OBVIOUS
      <3>1. i - 1 \in 1..n-1 /\ (i - 1) + 1 = i
        BY <1>1
      <3> QED
        BY <1>4, <3>1
    <2>2. \A i, j \in Rest : down[i] = down[j] => i = j
      OBVIOUS
    <2>3. \A m \in Notices' : \E i \in Rest : down[i] = m
      <3> SUFFICES ASSUME NEW m \in Notices' PROVE \E i \in Rest : down[i] = m
        OBVIOUS
      <3>1. m \in 1..n-1 /\ port[m+1].type = "sab-frame"
        BY <1>4
      <3>2. m + 1 \in Rest /\ (m + 1) - 1 = m
        BY <1>1, <3>1
      <3> QED
        BY <3>2
    <2> HIDE DEF down, Rest
    <2> QED
      BY <2>1, <2>2, <2>3, Fun_IsBij
  <1>6. IsFiniteSet(Rest) /\ Cardinality(Rest) = Cardinality(Notices')
    <2>1. Rest \subseteq Notices
      BY <1>3
    <2> HIDE DEF Rest, down
    <2>2. IsFiniteSet(Rest)
      BY <1>2, <2>1, FS_Subset
    <2>3. ExistsBijection(Rest, Notices')
      BY <1>5 DEF ExistsBijection
    <2> QED
      BY <1>2, <2>2, <2>3, FS_Bijection
  <1>7. CASE Head(port).type # "sab-frame"
    <2>1. Notices = Rest
      BY <1>3, <1>7
    <2> QED
      BY <1>2, <1>6, <1>7, <2>1
  <1>8. CASE Head(port).type = "sab-frame"
    <2>1. Notices = Rest \cup {1} /\ 1 \notin Rest
      BY <1>3, <1>8
    <2> HIDE DEF Rest
    <2>2. Cardinality(Rest \cup {1}) = Cardinality(Rest) + 1
      BY <1>6, <2>1, FS_AddElement
    <2> QED
      BY <1>2, <1>6, <1>8, <2>1, <2>2
  <1> QED
    BY <1>7, <1>8

LEMMA OnMessageStep == IInv /\ OnMessage => IInv'
  <1> SUFFICES ASSUME IInv, OnMessage PROVE IInv'
    OBVIOUS
  <1> DEFINE n == Len(port)
  <1>0. /\ TypeOK /\ WorkerInv /\ StreamInv /\ CellsInv /\ CountInv /\ ReaderInv /\ OutInv
        /\ PortInv /\ NoStrandedFrame
        /\ rpc = "idle" /\ port # <<>> /\ port' = Tail(port)
        /\ IF Head(port).type = "message"
           THEN out' = Append(out, Head(port).frame) /\ UNCHANGED rpc
           ELSE rpc' = "check" /\ UNCHANGED out
        /\ UNCHANGED <<readIdx, writeIdx, count, cells, sab, wpc, frame, size, wpos, lane,
                       begin, rlen, rpos, msg, freed>>
    BY DEF IInv, OnMessage, memVars, workerVars
  <1>1. /\ port \in Seq(Notice) /\ port' \in Seq(Notice) /\ n \in Nat /\ n >= 1
        /\ Len(port') = n - 1 /\ Head(port) = port[1] /\ Head(port) \in Notice
        /\ \A i \in 1..n-1 : port'[i] = port[i+1]
    BY <1>0, TailFacts DEF TypeOK
  <1> HIDE DEF n
  <1>2. Writing' <=> Writing
    BY <1>0 DEF Writing
  <1>3. \A i \in 1..n-1 : (Posted(i)' <=> Posted(i+1)) /\ i + 1 \in 1..n
    BY <1>1 DEF Posted, n
  <1>4. rpc' \in {"idle", "check"}
    BY <1>0
  <1>5. CASE Head(port).type = "message"
    <2> DEFINE p == Head(port).frame
               k == Len(out)
    <2>1. out' = Append(out, p) /\ rpc' = "idle"
      BY <1>0, <1>5
    <2>2. Posted(1) /\ p = port[1].frame /\ 1 \in 1..n
      BY <1>1, <1>5 DEF Posted, n
    <2>3. p \in Frames /\ lane[p] = "post" /\ p \in 0..NFrames
      <3>1. p \in Frames
        BY <1>1, <1>5 DEF Notice
      <3>2. lane[p] = "post"
        BY <1>0, <2>2 DEF PortInv, n
      <3>3. Frames \subseteq 0..NFrames
        BY NFramesIsNat DEF Frames
      <3> QED
        BY <3>1, <3>2, <3>3
    <2> HIDE DEF p
    <2>4. /\ out' \in Seq(0..NFrames) /\ k \in Nat /\ Len(out') = k + 1
          /\ \A i \in 1..k : out'[i] = out[i]
          /\ out'[k+1] = p
      BY <1>0, <2>1, <2>3, AppendFacts DEF TypeOK
    <2> HIDE DEF k
    <2>5. Delivered' = Delivered \cup {p}
      <3>1. Delivered' = {out'[i] : i \in 1..k+1}
        BY <2>4 DEF Delivered
      <3>2. Delivered = {out[i] : i \in 1..k}
        BY DEF Delivered, k
      <3>3. \A i \in 1..k+1 : i = k+1 \/ i \in 1..k
        BY <2>4
      <3>4. k+1 \in 1..k+1 /\ \A i \in 1..k : i \in 1..k+1
        BY <2>4
      <3> QED
        BY <2>4, <3>1, <3>2, <3>3, <3>4
    <2>6. OutInv'
      <3>1. \A i \in 1..k+1 : out'[i] \in Frames /\ lane[out'[i]] # "none"
        <4> SUFFICES ASSUME NEW i \in 1..k+1
                     PROVE  out'[i] \in Frames /\ lane[out'[i]] # "none"
          OBVIOUS
        <4>1. CASE i = k + 1
          BY <2>3, <2>4, <4>1
        <4>2. CASE i # k + 1
          <5>1. i \in 1..k
            BY <2>4, <4>2
          <5> QED
            BY <1>0, <2>4, <5>1 DEF OutInv, k
        <4> QED
          BY <4>1, <4>2
      <3>2. \A f \in Ring : f \in Delivered' <=> Taken(f)'
        <4> SUFFICES ASSUME NEW f \in Ring PROVE f \in Delivered' <=> Taken(f)'
          OBVIOUS
        <4>1. f # p
          BY <2>3 DEF Ring, Lane
        <4>2. f \in Delivered' <=> f \in Delivered
          BY <2>5, <4>1
        <4>3. Taken(f)' <=> Taken(f)
          BY <1>0, <2>1 DEF Taken, Length
        <4> QED
          BY <1>0, <4>2, <4>3 DEF OutInv
      <3>3. ASSUME NEW i \in 1..k+1, NEW j \in 1..k+1, i < j, lane[out'[i]] = lane[out'[j]]
            PROVE  out'[i] < out'[j]
        <4>1. i \in 1..k
          BY <2>4, <3>3
        <4>2. CASE j = k + 1
          <5>1. out[i] \in Delivered /\ lane[out[i]] = "post" /\ out'[i] = out[i]
            BY <2>3, <2>4, <3>3, <4>1, <4>2 DEF Delivered, k
          <5>2. out[i] < port[1].frame
            BY <1>0, <2>2, <5>1 DEF PortInv, n
          <5> QED
            BY <2>2, <2>4, <4>2, <5>1, <5>2
        <4>3. CASE j # k + 1
          <5>1. j \in 1..k
            BY <2>4, <4>3
          <5>2. out'[i] = out[i] /\ out'[j] = out[j]
            BY <2>4, <4>1, <5>1
          <5> QED
            BY <1>0, <3>3, <4>1, <5>1, <5>2 DEF OutInv, k
        <4> QED
          BY <4>2, <4>3
      <3>4. Ring' = Ring
        BY <1>0 DEF Ring, Lane
      <3> QED
        BY <1>0, <2>4, <3>1, <3>2, <3>3, <3>4 DEF OutInv
    <2>7. PortInv'
      <3>1. ASSUME NEW i \in 1..n-1, Posted(i)'
            PROVE  /\ lane[port'[i].frame] = "post"
                   /\ wpc = "post" => port'[i].frame < frame
                   /\ \A m \in 1..i-1 : Posted(m)' => port'[m].frame < port'[i].frame
                   /\ \A d \in Delivered' : lane[d] = "post" => d < port'[i].frame
        <4>1. /\ i + 1 \in 1..n /\ Posted(i+1) /\ port'[i] = port[i+1] /\ 1 \in 1..(i+1)-1
              /\ \A m \in 1..i-1 : m \in 1..n-1 /\ m + 1 \in 1..(i+1)-1
          BY <1>1, <1>3, <3>1
        <4>2. /\ lane[port[i+1].frame] = "post"
              /\ wpc = "post" => port[i+1].frame < frame
              /\ \A m \in 1..(i+1)-1 : Posted(m) => port[m].frame < port[i+1].frame
              /\ \A d \in Delivered : lane[d] = "post" => d < port[i+1].frame
          BY <1>0, <4>1 DEF PortInv, n
        <4>3. p < port[i+1].frame
          BY <2>2, <4>1, <4>2
        <4> QED
          BY <1>1, <1>3, <2>5, <4>1, <4>2, <4>3
      <3>2. wpc = "post" => p < frame
        BY <1>0, <2>2 DEF PortInv, n
      <3>3. wpc = "post" => \A d \in Delivered' : lane[d] = "post" => d < frame
        BY <1>0, <2>5, <3>2 DEF PortInv
      <3> QED
        BY <1>0, <1>1, <3>1, <3>3 DEF PortInv
    <2>8. NoStrandedFrame'
      <3>1. Cardinality(Notices') = Cardinality(Notices)
        BY <1>0, <1>1, <1>5, TailNotices
      <3> QED
        BY <1>0, <2>1, <3>1 DEF NoStrandedFrame
    <2>9. TypeOK'
      BY <1>0, <1>1, <2>1, <2>4 DEF TypeOK
    <2> QED
      BY <1>0, <1>2, <2>1, <2>6, <2>7, <2>8, <2>9, WorkerStays, StreamStays, CellsStay,
         CountStays, ReaderStays DEF IInv
  <1>6. CASE Head(port).type # "message"
    <2>1. rpc' = "check" /\ out' = out
      BY <1>0, <1>6
    <2>2. Delivered' = Delivered
      BY <2>1 DEF Delivered
    <2>3. PortInv'
      <3>1. ASSUME NEW i \in 1..n-1, Posted(i)'
            PROVE  /\ lane[port'[i].frame] = "post"
                   /\ wpc = "post" => port'[i].frame < frame
                   /\ \A m \in 1..i-1 : Posted(m)' => port'[m].frame < port'[i].frame
                   /\ \A d \in Delivered' : lane[d] = "post" => d < port'[i].frame
        <4>1. /\ i + 1 \in 1..n /\ Posted(i+1) /\ port'[i] = port[i+1]
              /\ \A m \in 1..i-1 : m \in 1..n-1 /\ m + 1 \in 1..(i+1)-1
          BY <1>1, <1>3, <3>1
        <4>2. /\ lane[port[i+1].frame] = "post"
              /\ wpc = "post" => port[i+1].frame < frame
              /\ \A m \in 1..(i+1)-1 : Posted(m) => port[m].frame < port[i+1].frame
              /\ \A d \in Delivered : lane[d] = "post" => d < port[i+1].frame
          BY <1>0, <4>1 DEF PortInv, n
        <4> QED
          BY <1>1, <1>3, <2>2, <4>1, <4>2
      <3>2. wpc = "post" => \A d \in Delivered' : lane[d] = "post" => d < frame
        BY <1>0, <2>2 DEF PortInv
      <3> QED
        BY <1>0, <1>1, <3>1, <3>2 DEF PortInv
    <2>4. NoStrandedFrame'
      <3>1. Head(port).type = "sab-frame"
        BY <1>1, <1>6 DEF Notice
      <3>2. Cardinality(Notices) = Cardinality(Notices') + 1 /\ Cardinality(Notices') \in Nat
        BY <1>0, <1>1, <3>1, TailNotices
      <3>3. count \in Nat
        BY <1>0, NFramesIsNat DEF TypeOK
      <3> HIDE DEF Notices
      <3> QED
        BY <1>0, <2>1, <3>2, <3>3 DEF NoStrandedFrame
    <2>5. TypeOK'
      BY <1>0, <1>1, <2>1 DEF TypeOK
    <2> QED
      BY <1>0, <1>2, <2>1, <2>3, <2>4, <2>5, WorkerStays, StreamStays, CellsStay,
         CountStays, ReaderStays, OutStays DEF IInv, ReaderInv
  <1> QED
    BY <1>5, <1>6

\* What is counted is there: the first entry begins at the first byte not freed.
LEMMA CheckCountStep == IInv /\ CheckCount => IInv'
  <1> SUFFICES ASSUME IInv, CheckCount PROVE IInv'
    OBVIOUS
  <1>0. /\ TypeOK /\ WorkerInv /\ StreamInv /\ CellsInv /\ CountInv /\ ReaderInv /\ OutInv
        /\ PortInv /\ NoStrandedFrame
        /\ rpc = "check" /\ rpc' = IF count <= 0 THEN "idle" ELSE "length"
        /\ UNCHANGED <<readIdx, writeIdx, count, cells, sab, wpc, frame, size, wpos, lane,
                       begin, port, rlen, rpos, msg, freed, out>>
    BY DEF IInv, CheckCount, memVars, workerVars
  <1>1. (Writing' <=> Writing) /\ rpc' \in {"idle", "length"} /\ count \in Nat
    BY <1>0, NFramesIsNat DEF Writing, TypeOK
  <1>2. /\ Counted' = Counted /\ Published' = Published
        /\ \A f : Length(f)' = Length(f)
    BY <1>0, <1>1 DEF Counted, Published, Ring, Lane, Length, Writing
  <1>3. rpc' = "length" => \E h \in Counted : begin[h] = freed
    <2> SUFFICES ASSUME rpc' = "length" PROVE \E h \in Counted : begin[h] = freed
      OBVIOUS
    <2>1. Counted # {}
      <3>1. ~(count <= 0)
        BY <1>0
      <3>2. count # 0 /\ count = Cardinality(Counted)
        BY <1>0, <1>1, <3>1 DEF CountInv
      <3> HIDE DEF Counted
      <3> QED
        BY <3>2, FS_EmptySet
    <2>2. PICK k \in Counted : TRUE
      BY <2>1
    <2>3. k \in Published /\ k \in Ring /\ begin[k] >= freed /\ ~(wpc = "count" /\ k = frame)
      BY <1>0, <2>2 DEF Counted, Published
    <2>4. begin[k] \in Nat /\ Length(k) \in Nat /\ Length(k) > PREFIX /\ k \in Nat /\ k <= frame
          /\ freed \in Nat /\ begin[k] + Length(k) <= Written /\ Written \in Nat
      BY <1>0, <2>3, RingFacts, EntryFacts, WrittenFacts DEF StreamInv
    <2>5. freed # Written
      <3> HIDE DEF Length, Written
      <3> QED
        BY <2>3, <2>4 DEF PREFIX
    <2>6. PICK g \in Published : begin[g] = freed
      BY <1>0, <2>5 DEF StreamInv
    <2>7. ~(wpc = "count" /\ g = frame)
      <3> SUFFICES ASSUME wpc = "count", g = frame PROVE FALSE
        OBVIOUS
      <3>1. k # frame /\ frame \in Nat /\ frame \in Ring
        BY <1>0, <2>3, <2>6 DEF Published, TypeOK
      <3>2. k < frame
        BY <2>4, <3>1
      <3>3. begin[k] + Length(k) <= begin[frame]
        BY <1>0, <2>3, <3>1, <3>2 DEF StreamInv
      <3> HIDE DEF Length
      <3> QED
        BY <2>3, <2>4, <2>6, <3>3 DEF PREFIX
    <2>8. g \in Counted
      <3>1. begin[g] >= freed
        BY <2>4, <2>6
      <3> QED
        BY <2>6, <2>7, <3>1 DEF Counted
    <2> QED
      BY <2>6, <2>8
  <1>4. CountInv'
    BY <1>0, <1>1, <1>2, <1>3 DEF CountInv
  <1>5. TypeOK'
    BY <1>0, <1>1 DEF TypeOK
  <1>6. NoStrandedFrame'
    <2>1. Notices' = Notices /\ Cardinality(Notices) \in Nat
      <3>1. Cardinality(Notices) \in Nat
        BY <1>0, NoticesFacts DEF TypeOK, Notices
      <3> QED
        BY <1>0, <3>1 DEF Notices
    <2> HIDE DEF Notices
    <2> QED
      BY <1>0, <1>1, <2>1 DEF NoStrandedFrame
  <1>7. ReaderInv' /\ OutInv'
    BY <1>0, <1>1, OutStays DEF ReaderInv
  <1> QED
    BY <1>0, <1>1, <1>4, <1>5, <1>6, <1>7, WorkerStays, StreamStays, CellsStay, PortStays
    DEF IInv

\* What the main thread reads at the first byte not freed.
LEMMA ReadFacts ==
    ASSUME TypeOK, WorkerInv, StreamInv, CellsInv, NEW h \in Published, begin[h] = freed
    PROVE  /\ h \in Ring /\ h \in Frames /\ Length(h) \in Nat /\ Length(h) = PREFIX + size[h]
           /\ size[h] \in Nat
           /\ \A i \in 1..Length(h) :
                 /\ Entry(h)[i] = [frame |-> h, at |-> i]
                 /\ cells[(readIdx + (i - 1)) % Capacity] = Entry(h)[i]
  <1>1. h \in Ring /\ h \in Frames
    BY RingFacts DEF Published
  <1>2. /\ Length(h) \in Nat /\ Length(h) = PREFIX + size[h] /\ size[h] \in Nat
        /\ \A i \in 1..Length(h) : Entry(h)[i] = [frame |-> h, at |-> i]
    BY <1>1, EntryFacts
  <1>3. freed \in Nat /\ readIdx = freed % Capacity /\ Capacity \in Nat /\ Capacity > 0
    BY CapacityFits DEF TypeOK, StreamInv, PREFIX
  <1>4. ASSUME NEW i \in 1..Length(h)
        PROVE  cells[(readIdx + (i - 1)) % Capacity] = Entry(h)[i]
    <2>1. begin[h] >= freed
      BY <1>3
    <2>2. cells[(begin[h] + i - 1) % Capacity] = Entry(h)[i]
      BY <1>1, <2>1 DEF CellsInv
    <2>3. i - 1 \in Nat
      BY <1>2
    <2>4. ((freed % Capacity) + (i - 1)) % Capacity = (freed + (i - 1)) % Capacity
      BY <1>3, <2>3, ModAdd
    <2>5. begin[h] + i - 1 = freed + (i - 1)
      BY <1>2, <1>3
    <2> QED
      BY <1>3, <2>2, <2>4, <2>5
  <1> QED
    BY <1>1, <1>2, <1>4

LEMMA ReadLengthStep == IInv /\ ReadLength => IInv'
  <1> SUFFICES ASSUME IInv, ReadLength PROVE IInv'
    OBVIOUS
  <1> DEFINE prefix == [i \in 1..PREFIX |-> cells[(readIdx + i - 1) % Capacity]]
             owners == {f \in 1..frame : prefix = SubSeq(Entry(f), 1, PREFIX)}
  <1>0. /\ TypeOK /\ WorkerInv /\ StreamInv /\ CellsInv /\ CountInv /\ ReaderInv /\ OutInv
        /\ PortInv /\ NoStrandedFrame
        /\ rpc = "length" /\ rpc' = "copy" /\ rpos' = 0 /\ msg' = <<>>
        /\ rlen' \in IF owners = {} THEN 0..Capacity ELSE {size[f] : f \in owners}
        /\ UNCHANGED <<readIdx, writeIdx, count, cells, sab, wpc, frame, size, wpos, lane,
                       begin, port, freed, out>>
    BY DEF IInv, ReadLength, memVars, workerVars
  <1>1. PICK h \in Counted : begin[h] = freed
    BY <1>0 DEF CountInv
  <1>2. h \in Published
    BY DEF Counted
  <1>3. /\ h \in Ring /\ h \in Frames /\ Length(h) \in Nat /\ Length(h) = PREFIX + size[h]
        /\ size[h] \in Nat
        /\ \A i \in 1..Length(h) :
              /\ Entry(h)[i] = [frame |-> h, at |-> i]
              /\ cells[(readIdx + (i - 1)) % Capacity] = Entry(h)[i]
    BY <1>0, <1>1, <1>2, ReadFacts
  <1>4. h \in 1..frame
    <2>1. h \in Nat /\ h <= frame /\ frame \in Nat
      BY <1>0, <1>3, RingFacts, NFramesIsNat DEF TypeOK
    <2> QED
      BY <1>3, <2>1 DEF Frames
  <1>5. ASSUME NEW f \in 1..frame
        PROVE  SubSeq(Entry(f), 1, PREFIX) = [i \in 1..PREFIX |-> [frame |-> f, at |-> i]]
    <2>1. f \in Frames
      BY <1>0, NFramesIsNat DEF Frames, TypeOK
    <2>2. /\ Length(f) \in Nat /\ Length(f) >= PREFIX /\ Entry(f) \in Seq(Byte)
          /\ Len(Entry(f)) = Length(f)
          /\ \A i \in 1..Length(f) : Entry(f)[i] = [frame |-> f, at |-> i]
      BY <1>0, <2>1, EntryFacts
    <2> DEFINE e == Entry(f)
               p == PREFIX
               b == SubSeq(e, 1, p)
    <2>3. p \in Int /\ p = 4 /\ \A i \in 1..p : i \in 1..Length(f)
      BY <2>2 DEF PREFIX
    <2> HIDE DEF e, p
    <2>4. \A i \in 1..p : e[i] \in Byte /\ e[i] = [frame |-> f, at |-> i]
      BY <2>2, <2>3 DEF e
    <2>5. /\ b \in Seq(Byte) /\ Len(b) = IF 1 <= p THEN p-1+1 ELSE 0
          /\ \A i \in 1..p-1+1 : b[i] = e[1+i-1]
      BY <2>3, <2>4, SubSeqProperties
    <2> HIDE DEF b
    <2>6. Len(b) = p /\ \A i \in 1..p : b[i] = [frame |-> f, at |-> i]
      <3>1. p-1+1 = p /\ 1 <= p /\ \A i \in 1..p : 1+i-1 = i
        BY <2>3
      <3> QED
        BY <2>4, <2>5, <3>1
    <2>7. b = [i \in 1..p |-> b[i]]
      BY <2>5, <2>6
    <2>8. b = [i \in 1..p |-> [frame |-> f, at |-> i]]
      BY <2>6, <2>7
    <2> QED
      BY <2>8 DEF b, e, p
  <1>6. prefix = [i \in 1..PREFIX |-> [frame |-> h, at |-> i]]
    <2> SUFFICES ASSUME NEW i \in 1..PREFIX
                 PROVE  cells[(readIdx + i - 1) % Capacity] = [frame |-> h, at |-> i]
      OBVIOUS
    <2>1. i \in 1..Length(h)
      <3>1. Length(h) \in Nat /\ Length(h) = PREFIX + size[h] /\ size[h] \in Nat
        BY <1>3
      <3> HIDE DEF Length
      <3> QED
        BY <3>1 DEF PREFIX
    <2>2. readIdx + i - 1 = readIdx + (i - 1)
      <3>1. readIdx \in Nat /\ i \in Nat
        BY <1>0 DEF PREFIX, TypeOK
      <3> QED
        BY <3>1
    <2> QED
      BY <1>3, <2>1, <2>2
  <1>7. owners = {h}
    <2> HIDE DEF prefix
    <2>1. h \in owners
      BY <1>4, <1>5, <1>6
    <2>2. ASSUME NEW f \in owners PROVE f = h
      <3>1. f \in 1..frame /\ prefix = [i \in 1..PREFIX |-> [frame |-> f, at |-> i]]
        BY <1>5
      <3>2. 1 \in 1..PREFIX
        BY DEF PREFIX
      <3>3. prefix[1] = [frame |-> f, at |-> 1]
        BY <3>1, <3>2
      <3>4. prefix[1] = [frame |-> h, at |-> 1]
        BY <1>6, <3>2
      <3> QED
        BY <3>3, <3>4
    <2> QED
      BY <2>1, <2>2
  <1>8. rlen' = size[h]
    <2> HIDE DEF owners
    <2> QED
      BY <1>0, <1>7
  <1>9. TypeOK'
    BY <1>0, <1>3, <1>8, EmptySeq DEF TypeOK
  <1>10. Writing' <=> Writing
    BY <1>0 DEF Writing
  <1>11. ReaderInv'
    <2>1. Published' = Published /\ \A k : Payload(h, k)' = Payload(h, k)
      BY <1>0, <1>10 DEF Published, Ring, Lane, Payload, Entry
    <2>2. msg' = Payload(h, rpos')
      <3>1. \A i : i \notin 1..0
        OBVIOUS
      <3> QED
        BY <1>0, <3>1 DEF Payload
    <2>3. rpos' <= rlen'
      BY <1>0, <1>3, <1>8
    <2> QED
      BY <1>0, <1>1, <1>2, <1>8, <2>1, <2>2, <2>3 DEF ReaderInv, Payload, Entry
  <1>12. CountInv'
    <2>1. Counted' = Counted
      BY <1>0, <1>10 DEF Counted, Published, Ring, Lane, Length
    <2> QED
      BY <1>0, <1>1, <2>1 DEF CountInv
  <1>13. NoStrandedFrame'
    BY <1>0 DEF NoStrandedFrame, Notices
  <1> QED
    BY <1>0, <1>9, <1>10, <1>11, <1>12, <1>13, WorkerStays, StreamStays, CellsStay, OutStays,
       PortStays DEF IInv

LEMMA CopyOutStep == IInv /\ CopyOut => IInv'
  <1> SUFFICES ASSUME IInv, CopyOut PROVE IInv'
    OBVIOUS
  <1> DEFINE x == cells[(readIdx + PREFIX + rpos) % Capacity]
  <1>0. /\ TypeOK /\ WorkerInv /\ StreamInv /\ CellsInv /\ CountInv /\ ReaderInv /\ OutInv
        /\ PortInv /\ NoStrandedFrame
        /\ rpc = "copy" /\ rpos < rlen /\ msg' = Append(msg, x) /\ rpos' = rpos + 1
        /\ UNCHANGED <<readIdx, writeIdx, count, cells, sab, wpc, frame, size, wpos, lane,
                       begin, port, rpc, rlen, freed, out>>
    BY DEF IInv, CopyOut, memVars, workerVars
  <1>1. PICK h \in Published : /\ begin[h] = freed /\ rlen = size[h]
                               /\ rpos <= rlen /\ msg = Payload(h, rpos)
    BY <1>0 DEF ReaderInv
  <1>2. /\ h \in Ring /\ h \in Frames /\ Length(h) \in Nat /\ Length(h) = PREFIX + size[h]
        /\ size[h] \in Nat
        /\ \A i \in 1..Length(h) :
              /\ Entry(h)[i] = [frame |-> h, at |-> i]
              /\ cells[(readIdx + (i - 1)) % Capacity] = Entry(h)[i]
    BY <1>0, <1>1, ReadFacts
  <1>3. rpos \in Nat /\ readIdx \in Nat /\ rpos + 1 <= size[h]
    BY <1>0, <1>1, <1>2 DEF TypeOK
  <1>4. x = Entry(h)[PREFIX + (rpos + 1)] /\ x \in Byte
    <2> DEFINE i == PREFIX + (rpos + 1)
    <2>1. i \in 1..Length(h) /\ readIdx + PREFIX + rpos = readIdx + (i - 1) /\ i \in Nat
      BY <1>2, <1>3 DEF PREFIX
    <2> HIDE DEF i
    <2>2. x = Entry(h)[i] /\ Entry(h)[i] = [frame |-> h, at |-> i]
      BY <1>2, <2>1
    <2>3. [frame |-> h, at |-> i] \in Byte
      <3>1. h \in 0..NFrames
        BY <1>2, NFramesIsNat DEF Frames
      <3> QED
        BY <2>1, <3>1 DEF Byte
    <2> QED
      BY <2>2, <2>3 DEF i
  <1> HIDE DEF x
  <1>5. /\ msg' \in Seq(Byte) /\ Len(msg) \in Nat /\ Len(msg') = Len(msg) + 1
        /\ \A i \in 1..Len(msg) : msg'[i] = msg[i]
        /\ msg'[Len(msg) + 1] = x /\ msg \in Seq(Byte)
    BY <1>0, <1>4, AppendFacts DEF TypeOK
  <1>6. Len(msg) = rpos
    <2>1. DOMAIN msg = 1..rpos
      BY <1>1 DEF Payload
    <2>2. DOMAIN msg = 1..Len(msg)
      BY <1>5
    <2> QED
      BY <1>3, <1>5, <2>1, <2>2
  <1>7. msg' = Payload(h, rpos + 1)
    <2>1. msg' = [i \in 1..rpos + 1 |-> msg'[i]]
      BY <1>5, <1>6
    <2>2. ASSUME NEW i \in 1..rpos + 1 PROVE msg'[i] = Entry(h)[PREFIX + i]
      <3>1. CASE i = rpos + 1
        BY <1>4, <1>5, <1>6, <3>1
      <3>2. CASE i # rpos + 1
        <4>1. i \in 1..rpos
          BY <1>3, <3>2
        <4>2. msg[i] = Entry(h)[PREFIX + i]
          BY <1>1, <4>1 DEF Payload
        <4> QED
          BY <1>5, <1>6, <4>1, <4>2
      <3> QED
        BY <3>1, <3>2
    <2> QED
      BY <2>1, <2>2 DEF Payload
  <1>8. TypeOK'
    <2>1. msg' \in Seq(Byte)
      BY <1>5
    <2>2. rpos' \in Nat
      BY <1>0, <1>3
    <2> QED
      BY <1>0, <2>1, <2>2 DEF TypeOK
  <1>9. Writing' <=> Writing
    BY <1>0 DEF Writing
  <1>10. ReaderInv'
    <2> SUFFICES \E k \in Published' : /\ begin'[k] = freed' /\ rlen' = size'[k]
                                       /\ rpos' <= rlen' /\ msg' = Payload(k, rpos)'
      BY <1>0 DEF ReaderInv
    <2>1. Published' = Published
      BY <1>0, <1>9 DEF Published, Ring, Lane
    <2>2. Payload(h, rpos)' = Payload(h, rpos + 1)
      BY <1>0 DEF Payload, Entry
    <2>3. begin'[h] = freed' /\ rlen' = size'[h] /\ rpos' <= rlen'
      BY <1>0, <1>1, <1>3
    <2>4. msg' = Payload(h, rpos)'
      BY <1>7, <2>2
    <2> HIDE DEF Payload, Published
    <2> QED
      BY <1>1, <2>1, <2>3, <2>4
  <1>11. NoStrandedFrame'
    BY <1>0 DEF NoStrandedFrame, Notices
  <1> QED
    BY <1>0, <1>8, <1>9, <1>10, <1>11, WorkerStays, StreamStays, CellsStay, CountStays,
       OutStays, PortStays DEF IInv

\* Freeing the first entry uncovers the next one.
LEMMA FreeStep == IInv /\ Free => IInv'
  <1> SUFFICES ASSUME IInv, Free PROVE IInv'
    OBVIOUS
  <1>0. /\ TypeOK /\ WorkerInv /\ StreamInv /\ CellsInv /\ CountInv /\ ReaderInv /\ OutInv
        /\ PortInv /\ NoStrandedFrame
        /\ rpc = "copy" /\ rpos = rlen /\ rpc' = "sub"
        /\ readIdx' = (readIdx + PREFIX + rlen) % Capacity /\ freed' = freed + PREFIX + rlen
        /\ UNCHANGED <<writeIdx, count, cells, sab, wpc, frame, size, wpos, lane, begin,
                       port, rlen, rpos, msg, out>>
    BY DEF IInv, Free, workerVars
  <1>1. PICK h \in Counted : begin[h] = freed
    BY <1>0 DEF CountInv
  <1>2. PICK k \in Published : begin[k] = freed /\ rlen = size[k] /\ msg = Payload(k, rpos)
    BY <1>0 DEF ReaderInv
  <1>3. h \in Published /\ h \in Ring /\ k \in Ring /\ ~(wpc = "count" /\ h = frame) /\ k = h
    <2>1. h \in Published /\ h \in Ring /\ k \in Ring /\ ~(wpc = "count" /\ h = frame)
      BY DEF Counted, Published
    <2> QED
      BY <1>0, <1>1, <1>2, <2>1, Apart
  <1> DEFINE l == Length(h)
  <1>4. /\ h \in Frames /\ l \in Nat /\ l = PREFIX + rlen /\ l > PREFIX
        /\ begin[h] + l <= Written /\ msg = Payload(h, size[h])
        /\ \/ begin[h] + l = Written
           \/ \E g \in Published : begin[g] = begin[h] + l
    BY <1>0, <1>2, <1>3, RingFacts, EntryFacts DEF StreamInv
  <1>5. /\ freed \in Nat /\ Written \in Nat /\ Written = freed + Used
        /\ readIdx \in 0..Capacity-1 /\ Used \in 0..Capacity-1
        /\ (readIdx + Used) % Capacity = writeIdx /\ writeIdx \in 0..Capacity-1
        /\ readIdx = freed % Capacity /\ Capacity \in Nat /\ Capacity > 0
    <2>1. /\ freed \in Nat /\ Written \in Nat /\ Written = freed + Used
          /\ readIdx = freed % Capacity
      BY <1>0, WrittenFacts DEF Written
    <2>2. Used \in 0..Capacity-1 /\ (readIdx + Used) % Capacity = writeIdx
      BY <1>0, UsedFacts
    <2>3. /\ readIdx \in 0..Capacity-1 /\ writeIdx \in 0..Capacity-1
          /\ Capacity \in Nat /\ Capacity > 0
      BY <1>0, CapacityFits DEF PREFIX, TypeOK
    <2> HIDE DEF Used, Written
    <2> QED
      BY <2>1, <2>2, <2>3
  <1> HIDE DEF l
  <1>6. freed' = freed + l /\ freed' \in Nat /\ l \in Nat /\ l >= 1
    BY <1>0, <1>4, <1>5 DEF PREFIX, TypeOK
  <1>7. /\ Used' = Used - l /\ Used' \in 0..Capacity-1 /\ Written' = Written
        /\ readIdx' = freed' % Capacity /\ readIdx' \in 0..Capacity-1
    <2> DEFINE u == Used
               r == readIdx'
    <2>1. /\ u \in 0..Capacity-1 /\ u \in Nat /\ l <= u /\ readIdx \in Nat
          /\ (readIdx + u) % Capacity = writeIdx /\ u - l \in Nat /\ u - l \in 0..Capacity-1
      <3>1. u \in 0..Capacity-1 /\ l <= u
        <4>1. freed + l <= freed + u
          BY <1>1, <1>4, <1>5
        <4>2. u \in 0..Capacity-1
          BY <1>5
        <4> HIDE DEF u
        <4> QED
          BY <1>5, <1>6, <4>1, <4>2
      <3>2. (readIdx + u) % Capacity = writeIdx
        BY <1>5
      <3> HIDE DEF u
      <3> QED
        BY <1>5, <1>6, <3>1, <3>2
    <2>2. r = (readIdx + l) % Capacity
      <3>1. readIdx + PREFIX + rlen = readIdx + l
        BY <1>0, <1>4, <2>1 DEF PREFIX, TypeOK
      <3> QED
        BY <1>0, <3>1
    <2>0. Capacity \in Nat /\ Capacity > 0 /\ freed \in Nat /\ l \in Nat
      BY <1>5, <1>6
    <2> HIDE DEF u, r
    <2>3. r \in 0..Capacity-1 /\ r = (freed + l) % Capacity
      <3>1. ((freed % Capacity) + l) % Capacity = (freed + l) % Capacity
        BY <2>0, ModAdd
      <3>2. freed + l \in Nat
        BY <1>5, <1>6
      <3> QED
        BY <1>5, <2>2, <3>1, <3>2, ModFacts
    <2>4. (r + (u - l)) % Capacity = writeIdx
      <3> DEFINE v == u - l
                 a == readIdx + l
      <3>1. v \in Nat /\ a \in Nat /\ a + v = readIdx + u
        BY <1>6, <2>1
      <3>2. r = a % Capacity
        BY <2>2
      <3> HIDE DEF v, a
      <3>3. ((a % Capacity) + v) % Capacity = (a + v) % Capacity
        BY <2>0, <3>1, ModAdd
      <3>4. (r + v) % Capacity = writeIdx
        BY <2>1, <3>1, <3>2, <3>3
      <3> QED
        BY <3>4 DEF v
    <2>5. Gap(r, writeIdx, Capacity) = u - l
      <3> DEFINE v == u - l
      <3>1. v \in 0..Capacity-1 /\ writeIdx = (r + v) % Capacity
        BY <2>1, <2>4
      <3> HIDE DEF v
      <3>2. Gap(r, writeIdx, Capacity) = v
        BY <1>5, <2>3, <3>1, UsedIs
      <3> QED
        BY <3>2 DEF v
    <2>6. Used' = u - l
      BY <1>0, <2>5 DEF Used, Gap, r
    <2>7. Written' = (freed + l) + (u - l) /\ Written = freed + u
      BY <1>6, <2>6 DEF Written, u
    <2>8. Written' = Written
      BY <1>5, <1>6, <2>1, <2>7
    <2> QED
      BY <1>6, <2>1, <2>3, <2>6, <2>8 DEF u, r
  <1>8. /\ Ring' = Ring /\ Published' = Published /\ (Writing' <=> Writing)
        /\ \A f : Length(f)' = Length(f) /\ Entry(f)' = Entry(f)
    BY <1>0 DEF Published, Ring, Lane, Length, Entry, Writing
  <1>9. ASSUME NEW f \in Ring
        PROVE  /\ begin[f] \in Nat /\ Length(f) \in Nat /\ Length(f) > PREFIX
               /\ begin[f] >= freed' => begin[f] >= freed
               /\ begin[f] >= freed => f = h \/ begin[f] >= freed'
               /\ begin[f] < freed => begin[f] + Length(f) < freed'
               /\ begin[f] < freed => begin[f] < freed'
    <2>1. /\ begin[f] \in Nat /\ Length(f) \in Nat /\ Length(f) > PREFIX
      BY <1>0, RingFacts, EntryFacts
    <2>2. /\ begin[f] = begin[h] => f = h
          /\ begin[f] < begin[h] => begin[f] + Length(f) <= begin[h]
          /\ begin[h] < begin[f] => begin[h] + l <= begin[f]
      BY <1>0, <1>3, Apart DEF l
    <2> DEFINE m == Length(f)
    <2> HIDE DEF m
    <2>3. m \in Nat /\ begin[f] < begin[h] => begin[f] + m <= begin[h]
      BY <2>1, <2>2 DEF m
    <2>4. /\ begin[f] >= freed' => begin[f] >= freed
          /\ begin[f] >= freed => f = h \/ begin[f] >= freed'
          /\ begin[f] < freed => begin[f] + m < freed'
          /\ begin[f] < freed => begin[f] < freed'
      BY <1>1, <1>5, <1>6, <2>1, <2>2, <2>3 DEF m
    <2> QED
      BY <2>1, <2>4 DEF m
  <1>10. TypeOK'
    BY <1>0, <1>6, <1>7 DEF TypeOK
  <1>11. WorkerInv'
    <2>1. Writing => Used' + Length(frame) < Capacity /\ begin[frame] = Written'
      <3> SUFFICES ASSUME Writing PROVE Used' + Length(frame) < Capacity
                                        /\ begin[frame] = Written'
        OBVIOUS
      <3>1. Used + Length(frame) < Capacity /\ begin[frame] = Written /\ frame \in Frames
        BY <1>0 DEF WorkerInv, Writing
      <3>2. Length(frame) \in Nat
        BY <1>0, <3>1, EntryFacts
      <3> DEFINE u == Used
                 m == Length(frame)
      <3>3. u \in Nat /\ m \in Nat /\ u + m < Capacity /\ Used' = u - l
        BY <1>5, <1>7, <3>1, <3>2
      <3> HIDE DEF u, m
      <3>4. Used' + m < Capacity
        BY <1>5, <1>6, <3>3
      <3> QED
        BY <1>7, <3>1, <3>4 DEF m
    <2> QED
      BY <1>0, <1>8, <2>1 DEF WorkerInv
  <1>12. StreamInv'
    <2>1. \A f \in Published : begin[f] + Length(f) <= Written'
      BY <1>0, <1>7 DEF StreamInv
    <2>2. \A f \in Published :
             \/ begin[f] + Length(f) = Written'
             \/ \E g \in Published : begin[g] = begin[f] + Length(f)
      BY <1>0, <1>7 DEF StreamInv
    <2>3. freed' = Written' \/ \E g \in Published : begin[g] = freed'
      BY <1>1, <1>4, <1>6, <1>7
    <2>4. \A f, g \in Ring : f < g => begin[f] + Length(f) <= begin[g]
      BY <1>0 DEF StreamInv
    <2> QED
      BY <1>0, <1>7, <1>8, <2>1, <2>2, <2>3, <2>4 DEF StreamInv
  <1>13. CellsInv'
    BY <1>0, <1>8, <1>9 DEF CellsInv
  <1>14. CountInv'
    <2>1. ASSUME NEW f \in Published
          PROVE  (begin[f] >= freed' \/ begin[f] + Length(f) = freed') <=> begin[f] >= freed
      <3>1. f \in Ring
        BY DEF Published
      <3>2. CASE f = h
        <4>1. begin[f] + Length(f) = freed' /\ begin[f] >= freed
          BY <1>1, <1>5, <1>6, <3>2 DEF l
        <4> QED
          BY <4>1
      <3>3. CASE f # h
        <4>1. begin[f] >= freed \/ begin[f] < freed
          BY <1>5, <1>9, <3>1
        <4>2. begin[f] < freed => ~(begin[f] >= freed') /\ begin[f] + Length(f) # freed'
          <5> DEFINE e == begin[f] + Length(f)
          <5>1. e \in Nat /\ (begin[f] < freed => e < freed' /\ begin[f] < freed')
                /\ begin[f] \in Nat
            BY <1>9, <3>1
          <5> HIDE DEF e
          <5>2. begin[f] < freed => ~(begin[f] >= freed') /\ e # freed'
            BY <1>6, <5>1
          <5> QED
            BY <5>2 DEF e
        <4>3. begin[f] >= freed => begin[f] >= freed'
          BY <1>9, <3>1, <3>3
        <4>4. ~(begin[f] >= freed /\ begin[f] < freed)
          BY <1>5, <1>9, <3>1
        <4> QED
          BY <4>1, <4>2, <4>3, <4>4
      <3> QED
        BY <3>2, <3>3
    <2>2. Counted' = Counted
      BY <1>0, <1>8, <2>1 DEF Counted
    <2>3. wpc = "count" => begin[frame] >= freed'
      <3> SUFFICES ASSUME wpc = "count" PROVE begin[frame] >= freed'
        OBVIOUS
      <3>1. frame \in Ring /\ begin[frame] >= freed /\ frame # h
        BY <1>0, <1>3 DEF CountInv, WorkerInv, Ring, Lane
      <3> QED
        BY <1>9, <3>1
    <2>4. begin[h] + Length(h) = freed'
      BY <1>1, <1>6 DEF l
    <2> QED
      BY <1>0, <1>8, <2>2, <2>3, <2>4 DEF CountInv
  <1>15. ReaderInv'
    <2>1. Payload(h, size[h])' = Payload(h, size[h])
      BY <1>0 DEF Payload, Entry
    <2>2. begin[h] + Length(h) = freed'
      BY <1>1, <1>6 DEF l
    <2> QED
      BY <1>0, <1>3, <1>4, <1>8, <2>1, <2>2 DEF ReaderInv
  <1>16. OutInv'
    <2>1. ASSUME NEW f \in Ring PROVE Taken(f)' <=> Taken(f)
      <3>1. Taken(f) <=> begin[f] < freed
        BY <1>0 DEF Taken
      <3>2. Taken(f)' <=> begin[f] < freed' /\ begin[f] + Length(f) # freed'
        BY <1>0, <1>8 DEF Taken
      <3>3. CASE f = h
        <4>1. begin[f] + Length(f) = freed' /\ ~(begin[f] < freed)
          BY <1>1, <1>5, <1>6, <3>3 DEF l
        <4> QED
          BY <3>1, <3>2, <4>1
      <3>4. CASE f # h /\ begin[f] < freed
        <4> DEFINE e == begin[f] + Length(f)
        <4>1. e \in Nat /\ e < freed' /\ begin[f] < freed'
          BY <1>9, <3>4
        <4> HIDE DEF e
        <4>2. e # freed'
          BY <1>6, <4>1
        <4> QED
          BY <3>1, <3>2, <3>4, <4>1, <4>2 DEF e
      <3>5. CASE f # h /\ ~(begin[f] < freed)
        <4>1. begin[f] >= freed' /\ begin[f] \in Nat
          BY <1>5, <1>9, <3>5
        <4>2. ~(begin[f] < freed')
          BY <1>6, <4>1
        <4> QED
          BY <3>1, <3>2, <3>5, <4>2
      <3> QED
        BY <3>3, <3>4, <3>5
    <2>2. Delivered' = Delivered
      BY <1>0 DEF Delivered
    <2> QED
      BY <1>0, <1>8, <2>1, <2>2 DEF OutInv
  <1>17. NoStrandedFrame'
    BY <1>0 DEF NoStrandedFrame, Notices
  <1> QED
    BY <1>0, <1>10, <1>11, <1>12, <1>13, <1>14, <1>15, <1>16, <1>17, PortStays DEF IInv

LEMMA SubCountStep == IInv /\ SubCount => IInv'
  <1> SUFFICES ASSUME IInv, SubCount PROVE IInv'
    OBVIOUS
  <1>0. /\ TypeOK /\ WorkerInv /\ StreamInv /\ CellsInv /\ CountInv /\ ReaderInv /\ OutInv
        /\ PortInv /\ NoStrandedFrame
        /\ rpc = "sub" /\ rpc' = "dispatch" /\ count' = count - 1
        /\ UNCHANGED <<readIdx, writeIdx, cells, sab, wpc, frame, size, wpos, lane, begin,
                       port, rlen, rpos, msg, freed, out>>
    BY DEF IInv, SubCount, workerVars
  <1>1. PICK h \in Counted : begin[h] + Length(h) = freed
    BY <1>0 DEF CountInv
  <1>2. h \in Published /\ h \in Ring
    BY DEF Counted, Published
  <1>3. /\ freed \in Nat /\ count \in Nat
        /\ \A f \in Ring : /\ begin[f] \in Nat /\ Length(f) \in Nat /\ Length(f) > PREFIX
                           /\ begin[f] + Length(f) = freed => f = h
    BY <1>0, <1>1, <1>2, RingFacts, EntryFacts, Apart, NFramesIsNat DEF TypeOK
  <1>4. /\ Ring' = Ring /\ Published' = Published /\ (Writing' <=> Writing)
        /\ \A f : Length(f)' = Length(f) /\ Entry(f)' = Entry(f)
    BY <1>0 DEF Published, Ring, Lane, Length, Entry, Writing
  <1>5. Counted' = Counted \ {h}
    <2>1. ~(begin[h] >= freed)
      <3> DEFINE m == Length(h)
      <3>1. m \in Nat /\ m > PREFIX /\ begin[h] + m = freed /\ begin[h] \in Nat
        BY <1>1, <1>2, <1>3
      <3> HIDE DEF m
      <3> QED
        BY <3>1 DEF PREFIX
    <2>2. \A f \in Published : f \in Ring
      BY DEF Published
    <2>3. Counted' = {f \in Published : begin[f] >= freed /\ ~(wpc = "count" /\ f = frame)}
      BY <1>0, <1>4 DEF Counted
    <2>4. ~(wpc = "count" /\ h = frame)
      BY DEF Counted
    <2> QED
      BY <1>0, <1>3, <2>1, <2>2, <2>3, <2>4 DEF Counted
  <1>6. count' = Cardinality(Counted') /\ count' \in 0..NFrames
    <2>1. Cardinality(Counted \ {h}) = Cardinality(Counted) - 1
      <3> HIDE DEF Counted
      <3> QED
        BY CountedFacts, FS_RemoveElement
    <2>2. Cardinality(Counted \ {h}) \in Nat /\ Cardinality(Counted \ {h}) <= NFrames
      <3>1. Counted \ {h} \in SUBSET Frames
        BY DEF Counted, Published, Ring, Lane
      <3> HIDE DEF Counted
      <3> QED
        BY <3>1, FramesFinite
    <2>3. count' = Cardinality(Counted \ {h})
      BY <1>0, <2>1 DEF CountInv
    <2> QED
      BY <1>5, <2>2, <2>3, NFramesIsNat
  <1>7. TypeOK'
    BY <1>0, <1>6 DEF TypeOK
  <1>8. CountInv'
    BY <1>0, <1>6 DEF CountInv
  <1>9. ReaderInv'
    <2>1. PICK k \in Published : begin[k] + Length(k) = freed /\ msg = Payload(k, size[k])
      BY <1>0 DEF ReaderInv
    <2>2. Payload(k, size[k])' = Payload(k, size[k])
      BY <1>0 DEF Payload, Entry
    <2> QED
      BY <1>0, <1>4, <2>1, <2>2 DEF ReaderInv
  <1>10. OutInv'
    <2>1. \A f \in Ring : Taken(f)' <=> Taken(f)
      BY <1>0, <1>4 DEF Taken
    <2>2. Delivered' = Delivered
      BY <1>0 DEF Delivered
    <2> QED
      BY <1>0, <1>4, <2>1, <2>2 DEF OutInv
  <1>11. NoStrandedFrame'
    <2>1. Notices' = Notices /\ Cardinality(Notices) \in Nat
      <3>1. Cardinality(Notices) \in Nat
        BY <1>0, NoticesFacts DEF TypeOK, Notices
      <3> QED
        BY <1>0, <3>1 DEF Notices
    <2> HIDE DEF Notices
    <2> QED
      BY <1>0, <1>3, <2>1 DEF NoStrandedFrame
  <1> QED
    BY <1>0, <1>4, <1>7, <1>8, <1>9, <1>10, <1>11, WorkerStays, StreamStays, CellsStay,
       PortStays DEF IInv

\* What is dispatched is the frame whose entry was freed last.
LEMMA DispatchStep ==
    ASSUME IInv, NEW throws \in BOOLEAN, Dispatch(throws)
    PROVE  IInv'
  <1> DEFINE k == Len(out)
  <1>0. /\ TypeOK /\ WorkerInv /\ StreamInv /\ CellsInv /\ CountInv /\ ReaderInv /\ OutInv
        /\ PortInv /\ NoStrandedFrame
        /\ rpc = "dispatch" /\ out' = Append(out, Decoded) /\ rpc' \in {"idle", "check"}
        /\ UNCHANGED <<readIdx, writeIdx, count, cells, sab, wpc, frame, size, wpos, lane,
                       begin, port, rlen, rpos, msg, freed>>
    BY DEF IInv, Dispatch, memVars, workerVars
  <1>1. PICK h \in Published : begin[h] + Length(h) = freed /\ msg = Payload(h, size[h])
    BY <1>0 DEF ReaderInv
  <1>2. /\ h \in Ring /\ h \in Frames /\ lane[h] = "ring" /\ h \in 0..NFrames
    <2>1. h \in Ring
      BY DEF Published
    <2> QED
      BY <1>0, <2>1, RingFacts, NFramesIsNat DEF Frames
  <1>3. Decoded = h
    BY <1>0, <1>1, <1>2, PayloadFacts
  <1>4. /\ out' \in Seq(0..NFrames) /\ k \in Nat /\ Len(out') = k + 1
        /\ \A i \in 1..k : out'[i] = out[i]
        /\ out'[k+1] = h
    BY <1>0, <1>2, <1>3, AppendFacts DEF TypeOK
  <1> HIDE DEF k
  <1>5. Delivered' = Delivered \cup {h}
    <2>1. Delivered' = {out'[i] : i \in 1..k+1}
      BY <1>4 DEF Delivered
    <2>2. Delivered = {out[i] : i \in 1..k}
      BY DEF Delivered, k
    <2>3. \A i \in 1..k+1 : i = k+1 \/ i \in 1..k
      BY <1>4
    <2>4. k+1 \in 1..k+1 /\ \A i \in 1..k : i \in 1..k+1
      BY <1>4
    <2> QED
      BY <1>4, <2>1, <2>2, <2>3, <2>4
  <1>6. /\ Ring' = Ring /\ Published' = Published /\ (Writing' <=> Writing)
        /\ \A f : Length(f)' = Length(f)
    BY <1>0 DEF Published, Ring, Lane, Length, Writing
  <1>7. ASSUME NEW f \in Ring
        PROVE  /\ f \in Nat /\ h \in Nat /\ freed \in Nat /\ begin[f] \in Nat
               /\ begin[h] \in Nat /\ Length(h) \in Nat /\ Length(h) > PREFIX
               /\ begin[f] + Length(f) = freed => f = h
               /\ f > h => begin[f] >= freed
    <2>1. /\ f \in Nat /\ h \in Nat /\ freed \in Nat /\ begin[f] \in Nat
          /\ begin[h] \in Nat /\ Length(h) \in Nat /\ Length(h) > PREFIX
      BY <1>0, <1>2, RingFacts, EntryFacts DEF TypeOK
    <2>2. begin[f] + Length(f) = freed => f = h
      BY <1>0, <1>1, <1>2, Apart
    <2>3. f > h => begin[f] >= freed
      <3> SUFFICES ASSUME f > h PROVE begin[f] >= freed
        OBVIOUS
      <3>1. h < f
        BY <2>1
      <3>2. begin[h] + Length(h) <= begin[f]
        BY <1>0, <1>2, <3>1 DEF StreamInv
      <3> QED
        BY <1>1, <2>1, <3>2
    <2> QED
      BY <2>1, <2>2, <2>3
  <1>8. begin[h] < freed
    <2> DEFINE m == Length(h)
    <2>1. m \in Nat /\ m > PREFIX /\ begin[h] + m = freed /\ begin[h] \in Nat
      BY <1>1, <1>2, <1>7
    <2> HIDE DEF m
    <2> QED
      BY <2>1 DEF PREFIX
  <1>9. OutInv'
    <2>1. \A i \in 1..k+1 : out'[i] \in Frames /\ lane[out'[i]] # "none"
      <3> SUFFICES ASSUME NEW i \in 1..k+1
                   PROVE  out'[i] \in Frames /\ lane[out'[i]] # "none"
        OBVIOUS
      <3>1. CASE i = k + 1
        BY <1>2, <1>4, <3>1
      <3>2. CASE i # k + 1
        <4>1. i \in 1..k
          BY <1>4, <3>2
        <4> QED
          BY <1>0, <1>4, <4>1 DEF OutInv, k
      <3> QED
        BY <3>1, <3>2
    <2>2. ASSUME NEW f \in Ring PROVE f \in Delivered' <=> Taken(f)'
      <3>1. f \in Delivered <=> begin[f] < freed /\ begin[f] + Length(f) # freed
        BY <1>0 DEF OutInv, Taken
      <3>2. Taken(f)' <=> begin[f] < freed
        BY <1>0 DEF Taken
      <3>3. f \in Delivered' <=> f \in Delivered \/ f = h
        BY <1>5
      <3> QED
        BY <1>7, <1>8, <3>1, <3>2, <3>3
    <2>3. ASSUME NEW i \in 1..k+1, NEW j \in 1..k+1, i < j, lane[out'[i]] = lane[out'[j]]
          PROVE  out'[i] < out'[j]
      <3>1. i \in 1..k
        BY <1>4, <2>3
      <3>2. CASE j = k + 1
        <4> DEFINE f == out[i]
        <4>1. /\ f \in Delivered /\ f \in Frames /\ lane[f] = "ring" /\ out'[i] = f
              /\ out'[j] = h
          BY <1>0, <1>2, <1>4, <2>3, <3>1, <3>2 DEF Delivered, k, OutInv
        <4> HIDE DEF f
        <4>2. f \in Ring
          BY <4>1 DEF Ring, Lane
        <4>3. begin[f] < freed /\ begin[f] + Length(f) # freed
          BY <1>0, <4>1, <4>2 DEF OutInv, Taken
        <4>4. f # h /\ ~(begin[f] >= freed)
          BY <1>1, <1>7, <4>2, <4>3
        <4>5. ~(f > h) /\ f \in Nat /\ h \in Nat
          BY <1>7, <4>2, <4>4
        <4> QED
          BY <4>1, <4>4, <4>5
      <3>3. CASE j # k + 1
        <4>1. j \in 1..k
          BY <1>4, <3>3
        <4>2. out'[i] = out[i] /\ out'[j] = out[j]
          BY <1>4, <3>1, <4>1
        <4> QED
          BY <1>0, <2>3, <3>1, <4>1, <4>2 DEF OutInv, k
      <3> QED
        BY <3>2, <3>3
    <2> QED
      BY <1>0, <1>4, <1>6, <2>1, <2>2, <2>3 DEF OutInv
  <1>10. PortInv'
    <2>1. \A n : Posted(n)' <=> Posted(n)
      BY <1>0 DEF Posted
    <2>2. lane[h] # "post"
      BY <1>2
    <2> QED
      BY <1>0, <1>5, <2>1, <2>2 DEF PortInv
  <1>11. NoStrandedFrame'
    <2>1. Notices' = Notices /\ Cardinality(Notices) \in Nat /\ count \in Nat
      <3>1. Cardinality(Notices) \in Nat
        BY <1>0, NoticesFacts DEF TypeOK, Notices
      <3> QED
        BY <1>0, <3>1, NFramesIsNat DEF Notices, TypeOK
    <2> HIDE DEF Notices
    <2> QED
      BY <1>0, <2>1 DEF NoStrandedFrame
  <1>12. TypeOK'
    BY <1>0, <1>4 DEF TypeOK
  <1>13. CountInv' /\ ReaderInv'
    BY <1>0, <1>6, CountStays DEF ReaderInv
  <1> QED
    BY <1>0, <1>6, <1>9, <1>10, <1>11, <1>12, <1>13, WorkerStays, StreamStays, CellsStay
    DEF IInv

-----------------------------------------------------------------------------
(* The invariant, and what follows from it. *)

LEMMA StutterStep == IInv /\ UNCHANGED vars => IInv'
  <1> SUFFICES ASSUME IInv, UNCHANGED vars PROVE IInv'
    OBVIOUS
  <1>0. UNCHANGED <<readIdx, writeIdx, count, cells, sab, wpc, frame, size, wpos, lane, begin,
                    port, rpc, rlen, rpos, msg, freed, out>>
    BY DEF vars, memVars, workerVars, readerVars
  <1>1. TypeOK' /\ NoStrandedFrame' /\ (Writing' <=> Writing)
    BY <1>0 DEF IInv, TypeOK, NoStrandedFrame, Notices, Writing
  <1> QED
    BY <1>0, <1>1, WorkerStays, StreamStays, CellsStay, CountStays, ReaderStays, OutStays,
       PortStays DEF IInv

LEMMA NextInv == IInv /\ [Next]_vars => IInv'
  <1> SUFFICES ASSUME IInv, [Next]_vars PROVE IInv'
    OBVIOUS
  <1>1. ASSUME NEW len \in FrameSizes, Arrive(len) PROVE IInv'
    BY <1>1, ArriveStep
  <1>2. CASE Worker
    BY <1>2, CopyInStep, PublishStep, AddCountStep, NotifyStep, PostStep DEF Worker
  <1>3. ASSUME NEW throws \in BOOLEAN, Dispatch(throws) PROVE IInv'
    BY <1>3, DispatchStep
  <1>4. CASE Main
    BY <1>3, <1>4, OnMessageStep, CheckCountStep, ReadLengthStep, CopyOutStep, FreeStep,
       SubCountStep DEF Main
  <1> QED
    BY <1>1, <1>2, <1>4, InitSabStep, StutterStep DEF Next

LEMMA Invariant == Spec => []IInv
  BY InitInv, NextInv, PTL DEF Spec

\* The frames in the ring are those published whose entry is not freed.
LEMMA InRingIs == IInv => InRing = {f \in Published : begin[f] >= freed}
  <1> SUFFICES ASSUME IInv PROVE InRing = {f \in Published : begin[f] >= freed}
    OBVIOUS
  <1>0. TypeOK /\ WorkerInv /\ StreamInv /\ ReaderInv /\ OutInv
    BY DEF IInv
  <1>1. ASSUME NEW f \in Ring PROVE f \in Delivered \cup Freed <=> ~(begin[f] >= freed)
    <2>1. begin[f] \in Nat /\ freed \in Nat /\ f \in Delivered <=> Taken(f)
      BY <1>0, RingFacts DEF OutInv, TypeOK
    <2>2. begin[f] \in Nat /\ freed \in Nat
      BY <1>0, RingFacts DEF TypeOK
    <2>3. CASE rpc \in {"sub", "dispatch"}
      <3>1. PICK h \in Published : begin[h] + Length(h) = freed /\ msg = Payload(h, size[h])
        BY <1>0, <2>3 DEF ReaderInv
      <3>2. h \in Ring
        BY DEF Published
      <3>3. Freed = {h}
        BY <1>0, <2>3, <3>1, <3>2, PayloadFacts DEF Freed
      <3>4. begin[f] + Length(f) = freed <=> f = h
        BY <1>0, <3>1, <3>2, Apart
      <3>5. begin[h] < freed
        <4> DEFINE m == Length(h)
        <4>1. m \in Nat /\ m > PREFIX /\ begin[h] + m = freed /\ begin[h] \in Nat
          BY <1>0, <3>1, <3>2, RingFacts, EntryFacts
        <4> HIDE DEF m
        <4> QED
          BY <4>1 DEF PREFIX
      <3>6. f \in Delivered <=> begin[f] < freed /\ f # h
        BY <1>0, <2>3, <3>4 DEF OutInv, Taken
      <3> QED
        BY <2>2, <3>3, <3>5, <3>6
    <2>4. CASE rpc \notin {"sub", "dispatch"}
      <3>1. Freed = {}
        BY <2>4 DEF Freed
      <3>2. f \in Delivered <=> begin[f] < freed
        BY <1>0, <2>4 DEF OutInv, Taken
      <3> QED
        BY <2>2, <3>1, <3>2
    <2> QED
      BY <2>3, <2>4
  <1>2. InRing = (Ring \ (Delivered \cup Freed)) \ (IF Writing THEN {frame} ELSE {})
    BY DEF InRing, Ring, Writing
  <1> QED
    BY <1>1, <1>2 DEF Published

LEMMA SpellsFrames == IInv => RingSpellsFrames
  <1> SUFFICES ASSUME IInv PROVE RingSpellsFrames
    OBVIOUS
  <1>0. TypeOK /\ WorkerInv /\ StreamInv /\ CellsInv
    BY DEF IInv
  <1>1. InRing = {f \in Published : begin[f] >= freed}
    BY InRingIs
  <1>2. /\ freed \in Nat /\ Used \in Nat /\ Written = freed + Used
        /\ readIdx = freed % Capacity /\ Capacity \in Nat /\ Capacity > 0
    <2>1. freed \in Nat /\ readIdx = freed % Capacity /\ Capacity \in Nat /\ Capacity > 0
      BY <1>0, CapacityFits DEF TypeOK, StreamInv, PREFIX
    <2>2. Capacity - 1 \in Int /\ Used \in 0..Capacity-1
      BY <1>0, <2>1, UsedFacts
    <2>3. Written = freed + Used
      BY DEF Written
    <2> HIDE DEF Used, Written
    <2> QED
      BY <2>1, <2>2, <2>3
  <1>3. ASSUME NEW f \in InRing
        PROVE  /\ f \in Published /\ f \in Ring /\ begin[f] \in Nat /\ begin[f] >= freed
               /\ Length(f) \in Nat /\ Len(Entry(f)) = Length(f)
               /\ Ahead(f) = begin[f] - freed /\ End(f) = begin[f] + Length(f) - freed
               /\ Ahead(f) \in Nat
    <2>1. f \in Published /\ f \in Ring /\ begin[f] >= freed
      BY <1>1 DEF Published
    <2>2. begin[f] \in Nat /\ Length(f) \in Nat /\ Len(Entry(f)) = Length(f)
      BY <1>0, <2>1, RingFacts, EntryFacts
    <2> DEFINE m == Length(f)
    <2>3. m \in Nat /\ Len(Entry(f)) = m
      BY <2>2
    <2> HIDE DEF m
    <2>4. Ahead(f) = begin[f] - freed /\ End(f) = begin[f] + m - freed /\ Ahead(f) \in Nat
      BY <1>2, <2>1, <2>2, <2>3 DEF Ahead, End
    <2> QED
      BY <2>1, <2>2, <2>4 DEF m
  <1>4. ASSUME NEW f \in InRing PROVE 0 <= Ahead(f) /\ End(f) <= Used
    <2> DEFINE e == begin[f] + Length(f)
               u == Used
    <2>1. e <= Written /\ e \in Nat /\ u \in Nat /\ Written = freed + u /\ End(f) = e - freed
      BY <1>0, <1>2, <1>3 DEF StreamInv
    <2> HIDE DEF e, u
    <2>2. End(f) <= u
      BY <1>2, <2>1
    <2> QED
      BY <1>3, <2>2 DEF u
  <1>5. ASSUME NEW f \in InRing, NEW g \in InRing, f < g PROVE End(f) <= Ahead(g)
    <2> DEFINE e == begin[f] + Length(f)
    <2>0. f \in Ring /\ g \in Ring
      BY <1>3
    <2>1. e <= begin[g]
      BY <1>0, <1>5, <2>0 DEF StreamInv
    <2>2. begin[f] \in Nat /\ begin[g] \in Nat /\ Length(f) \in Nat
          /\ End(f) = begin[f] + Length(f) - freed /\ Ahead(g) = begin[g] - freed
      BY <1>3
    <2>3. e \in Nat /\ End(f) = e - freed /\ Ahead(g) = begin[g] - freed /\ begin[g] \in Nat
      <3> DEFINE m == Length(f)
      <3>1. m \in Nat /\ begin[f] \in Nat /\ End(f) = begin[f] + m - freed /\ e = begin[f] + m
        BY <2>2
      <3> HIDE DEF m, e
      <3>0. freed \in Nat
        BY <1>2
      <3>2. e \in Nat /\ End(f) = e - freed
        BY <3>0, <3>1
      <3> QED
        BY <2>2, <3>2
    <2> HIDE DEF e
    <2> QED
      BY <1>2, <2>1, <2>3
  <1>6. ASSUME NEW b \in Nat, b >= freed, b = Written \/ \E g \in Published : begin[g] = b
        PROVE  b - freed = Used \/ \E g \in InRing : Ahead(g) = b - freed
    <2>1. CASE b = Written
      <3> DEFINE u == Used
      <3>1. b = freed + u /\ u \in Nat
        BY <1>2, <2>1
      <3> HIDE DEF u
      <3>2. b - freed = u
        BY <1>2, <3>1
      <3> QED
        BY <3>2 DEF u
    <2>2. CASE \E g \in Published : begin[g] = b
      <3>1. PICK g \in Published : begin[g] = b
        BY <2>2
      <3>2. g \in InRing
        BY <1>1, <1>6, <3>1
      <3> QED
        BY <1>3, <3>1, <3>2
    <2> QED
      BY <1>6, <2>1, <2>2
  <1>7. ASSUME NEW n \in {0} \cup {End(f) : f \in InRing}
        PROVE  n = Used \/ \E g \in InRing : Ahead(g) = n
    <2>1. CASE n = 0
      <3>1. freed = Written \/ \E g \in Published : begin[g] = freed
        BY <1>0 DEF StreamInv
      <3>2. freed - freed = 0 /\ freed >= freed
        BY <1>2
      <3> QED
        BY <1>2, <1>6, <2>1, <3>1, <3>2
    <2>2. ASSUME NEW f \in InRing, n = End(f)
          PROVE  n = Used \/ \E g \in InRing : Ahead(g) = n
      <3> DEFINE b == begin[f] + Length(f)
      <3>1. b = Written \/ \E g \in Published : begin[g] = b
        BY <1>0, <1>3 DEF StreamInv
      <3>2. b \in Nat /\ b >= freed /\ n = b - freed
        <4> DEFINE m == Length(f)
        <4>1. m \in Nat /\ begin[f] \in Nat /\ begin[f] >= freed /\ n = begin[f] + m - freed
          BY <1>3, <2>2
        <4> HIDE DEF m
        <4>2. begin[f] + m \in Nat /\ begin[f] + m >= freed /\ n = (begin[f] + m) - freed
          BY <1>2, <4>1
        <4> QED
          BY <4>2 DEF m
      <3> HIDE DEF b
      <3> QED
        BY <1>6, <3>1, <3>2
    <2> QED
      BY <2>1, <2>2
  <1>8. ASSUME NEW f \in InRing, NEW i \in 1..Len(Entry(f))
        PROVE  cells[(readIdx + Ahead(f) + i - 1) % Capacity] = Entry(f)[i]
    <2>1. i \in 1..Length(f)
      BY <1>3
    <2>2. cells[(begin[f] + i - 1) % Capacity] = Entry(f)[i]
      BY <1>0, <1>3, <2>1 DEF CellsInv
    <2> DEFINE d == Ahead(f) + (i - 1)
    <2>3. i \in Nat /\ i >= 1 /\ readIdx \in Nat
      <3>1. Length(f) \in Nat
        BY <1>3
      <3> HIDE DEF Length
      <3> QED
        BY <1>0, <2>1, <3>1 DEF TypeOK
    <2>4. d \in Nat /\ freed + d = begin[f] + i - 1 /\ readIdx + d = readIdx + Ahead(f) + i - 1
      <3> DEFINE a == Ahead(f)
      <3>1. a \in Nat /\ a = begin[f] - freed /\ begin[f] \in Nat
        BY <1>3
      <3> HIDE DEF a
      <3> DEFINE r == readIdx
      <3>2. freed \in Nat /\ r \in Nat
        BY <1>2, <2>3
      <3> HIDE DEF r
      <3>3. /\ a + (i - 1) \in Nat /\ freed + (a + (i - 1)) = begin[f] + i - 1
            /\ r + (a + (i - 1)) = r + a + i - 1
        <4> DEFINE b == begin[f]
        <4>1. i \in Nat /\ i >= 1 /\ a \in Nat /\ a = b - freed /\ b \in Nat
          BY <2>3, <3>1
        <4> HIDE DEF b
        <4>2. a + freed = b
          BY <3>2, <4>1
        <4>3. a + (i - 1) \in Nat /\ r + (a + (i - 1)) = r + a + i - 1
          BY <3>2, <4>1
        <4>4. freed + (a + (i - 1)) = b + i - 1
          BY <3>2, <4>1, <4>2
        <4> QED
          BY <4>3, <4>4 DEF b
      <3> QED
        BY <3>3 DEF a, r
    <2> HIDE DEF d
    <2>5. ((freed % Capacity) + d) % Capacity = (freed + d) % Capacity
      BY <1>2, <2>4, ModAdd
    <2> QED
      BY <1>2, <2>2, <2>4, <2>5
  <1> QED
    BY <1>4, <1>5, <1>7, <1>8 DEF RingSpellsFrames

\* Every variable of the two threads, of the ring and of the port keeps its
\* type; both indices stay inside the ring, and the count, which two threads
\* change, in 0..NFrames (worker/shared-buffer.ts:48-50,
\* transport/shared-buffer.ts:54-55).
THEOREM TypeCorrect == Spec => []TypeOK
  <1>1. IInv => TypeOK
    BY DEF IInv
  <1> QED
    BY <1>1, Invariant, PTL

\* The ring loses, tears, doubles and strands nothing: the bytes that leave it
\* are frames, each once and in the order of arrival; from readIdx on it spells
\* the frames in it with no gap, out of the writer's way
\* (worker/shared-buffer.ts:28-52, transport/shared-buffer.ts:32-57); and a
\* notice is on its way for every frame counted, even when a handler throws and
\* leaves the drain loop of client.ts:296-302.
THEOREM RingIsSound == Spec => []RingSound
  <1>1. IInv => LanesIntact
    <2> SUFFICES ASSUME IInv PROVE LanesIntact
      OBVIOUS
    <2>1. OutInv
      BY DEF IInv
    <2>2. \A f \in Frames : f # Corrupt
      BY NFramesIsNat DEF Frames, Corrupt
    <2> QED
      BY <2>1, <2>2 DEF OutInv, LanesIntact
  <1>2. IInv => RingSound
    BY <1>1, SpellsFrames DEF IInv, RingSound
  <1> QED
    BY <1>2, Invariant, PTL

=============================================================================
