------------------------ MODULE WireProtocol_proofs ------------------------
(***************************************************************************)
(* Proofs about WireProtocol, for any payload sizes, any limits of payload,*)
(* name and batch, any threshold of compression, any width of correlation  *)
(* ids and any number of inputs.                                           *)
(***************************************************************************)
EXTENDS WireProtocol, SequenceTheorems, WellFoundedInduction, TLAPS

-----------------------------------------------------------------------------
(* The inductive invariant. *)

\* Calls, events and patches are numbered as inputs are spent.
Bounded ==
    /\ counter + inputs <= MaxInputs
    /\ emitted + inputs <= MaxInputs
    /\ stored + inputs <= MaxInputs
    /\ pending \subseteq 1..counter
    /\ unsent \subseteq 1..stored /\ dropped \subseteq 1..stored
    /\ \A n \in Numbers : <<"event", n>> \in refused \union failed => n <= emitted
    /\ channel = "none" => batch = <<>>
    /\ \A p \in ToSet(PatchesOf(batch)) : p <= stored

\* What becomes of the number of a call on the wire.
IdOf(call) == call % Ids

\* A message that can be read: a request of a call that was made, under its
\* number as far as it fits, or an event that was emitted.
Sent(w, calls, events) ==
    /\ Decodes(w)
    /\ w.frame.op \in {Opcode.RPC_REQ, Opcode.EVENT_C2S}
    /\ w.frame.op = Opcode.RPC_REQ =>
           /\ w.frame.body \in (1..calls) \X {1, 2}
           /\ w.frame.id = IdOf(w.frame.body[1])
    /\ w.frame.op = Opcode.EVENT_C2S =>
           w.frame.body \in (1..events) \X {0, 1, MaxName + 1}

\* An answer under the number of its call, patches of the stored document, or
\* an error.
Answered(w, calls) ==
    /\ Decodes(w)
    /\ w.frame.op \in {Opcode.RPC_RES, Opcode.STATE_PATCH, Opcode.ERROR}
    /\ w.frame.op = Opcode.RPC_RES =>
           /\ w.frame.body[1] \in 1..calls
           /\ w.frame.id = IdOf(w.frame.body[1])
    /\ w.frame.op = Opcode.STATE_PATCH =>
           /\ w.frame.body \in Seq(Numbers) /\ w.frame.body # <<>>
           /\ Rising(w.frame.body)

LinksInv ==
    /\ \A i \in DOMAIN uplink : Sent(uplink[i], counter, emitted)
    /\ \A i \in DOMAIN downlink : Answered(downlink[i], counter)
    /\ \A r \in running : r.call \in 1..counter /\ r.id = IdOf(r.call)

\* A call that waits is so recent that no newer one can have had its id, ...
Recent == \A p \in pending : counter - p < Ids

\* ... and its answer is still to come, unless there is a reason.
Awaited(n) ==
    \/ <<"call", n>> \in refused \union failed \/ n \in swallowed
    \/ \E i \in DOMAIN uplink :
           uplink[i].frame.op = Opcode.RPC_REQ /\ uplink[i].frame.body[1] = n
    \/ \E r \in running : r.call = n
    \/ \E i \in DOMAIN downlink :
           downlink[i].frame.op = Opcode.RPC_RES /\ downlink[i].frame.body[1] = n
CallsInv == \A n \in pending : n < Ids => Awaited(n)

IInv == /\ TypeOK /\ Bounded /\ LinksInv /\ Recent /\ AnswersMatch /\ CallsInv
        /\ EventsExplained /\ MirrorLacksOnlyUnsent
-----------------------------------------------------------------------------
(* Sequences of numbers, and of messages. *)

LEMMA ModFacts ==
    ASSUME NEW d \in Nat \ {0}, NEW n \in Nat
    PROVE  /\ n % d \in 0..(d - 1)
           /\ n % d <= n
           /\ n < d => n % d = n
           /\ n % d < n => n - (n % d) >= d
  <1>1. n % d \in 0..(d - 1) /\ n = d * (n \div d) + (n % d) /\ n \div d \in Int
    BY SMT
  <1> DEFINE q == n \div d
             r == n % d
  <1>2. d \in Nat /\ d > 0 /\ q \in Int /\ r \in 0..(d-1) /\ n = d * q + r
    BY <1>1
  <1> HIDE DEF q, r
  <1>3. q >= 0
    <2>1. SUFFICES ASSUME q <= -1 PROVE FALSE
      BY <1>2
    <2>2. d * q <= -d
      BY <1>2, <2>1
    <2> QED
      BY <1>2, <2>2
  <1>4. d * q >= 0
    BY <1>2, <1>3
  <1>5. q = 0 \/ d * q >= d
    BY <1>2, <1>3
  <1>6. r <= n /\ (n < d => r = n) /\ (r < n => n - r >= d)
    BY <1>2, <1>4, <1>5
  <1> QED
    BY <1>2, <1>6 DEF r

LEMMA IdFacts ==
    ASSUME NEW n \in Nat
    PROVE  /\ IdOf(n) \in 0..(Ids - 1) /\ IdOf(n) \in Nat
           /\ IdOf(n) <= n /\ (n < Ids => IdOf(n) = n)
           /\ IdOf(n) < n => n - IdOf(n) >= Ids
           /\ IdOf(IdOf(n)) = IdOf(n)
  <1>1. Ids \in Nat \ {0}
    BY CountsArePositive
  <1>2. /\ IdOf(n) \in 0..(Ids - 1) /\ IdOf(n) <= n /\ (n < Ids => IdOf(n) = n)
        /\ IdOf(n) < n => n - IdOf(n) >= Ids
    BY <1>1, ModFacts DEF IdOf
  <1>3. IdOf(n) \in Nat /\ IdOf(n) < Ids
    BY <1>1, <1>2
  <1>4. IdOf(IdOf(n)) = IdOf(n)
    <2> DEFINE i == IdOf(n)
    <2>1. i \in Nat /\ i < Ids
      BY <1>3
    <2> HIDE DEF i
    <2>2. IdOf(i) = i
      BY <1>1, <2>1, ModFacts DEF IdOf
    <2> QED
      BY <2>2 DEF i
  <1> QED
    BY <1>2, <1>3, <1>4

LEMMA AppendFacts ==
    ASSUME NEW S, NEW s \in Seq(S), NEW x \in S
    PROVE  /\ Append(s, x) \in Seq(S) /\ Len(Append(s, x)) = Len(s) + 1
           /\ DOMAIN Append(s, x) = DOMAIN s \union {Len(s) + 1}
           /\ DOMAIN s = 1..Len(s) /\ Len(s) \in Nat
           /\ \A i \in DOMAIN s : Append(s, x)[i] = s[i]
           /\ Append(s, x)[Len(s) + 1] = x
           /\ ToSet(Append(s, x)) = ToSet(s) \union {x}
  <1>1. /\ Append(s, x) \in Seq(S) /\ Len(Append(s, x)) = Len(s) + 1
        /\ \A i \in 1..Len(s) : Append(s, x)[i] = s[i]
        /\ Append(s, x)[Len(s) + 1] = x
    BY AppendProperties
  <1>2. DOMAIN s = 1..Len(s) /\ Len(s) \in Nat
    OBVIOUS
  <1>3. DOMAIN Append(s, x) = 1..Len(s) + 1
    BY <1>1
  <1>4. DOMAIN Append(s, x) = DOMAIN s \union {Len(s) + 1}
    BY <1>2, <1>3
  <1>5. ToSet(Append(s, x)) = ToSet(s) \union {x}
    <2> DEFINE t == Append(s, x)
    <2>1. DOMAIN t = DOMAIN s \union {Len(s) + 1} /\ t[Len(s)+1] = x
          /\ \A i \in DOMAIN s : t[i] = s[i]
      BY <1>1, <1>2, <1>4
    <2> HIDE DEF t
    <2>2. ToSet(t) = ToSet(s) \union {x}
      BY <2>1 DEF ToSet
    <2> QED
      BY <2>2 DEF t
  <1> QED
    BY <1>1, <1>2, <1>4, <1>5

LEMMA TailFacts ==
    ASSUME NEW S, NEW s \in Seq(S), s # <<>>
    PROVE  /\ Head(s) \in S /\ Head(s) = s[1] /\ 1 \in DOMAIN s
           /\ Tail(s) \in Seq(S)
           /\ \A i \in DOMAIN Tail(s) : i + 1 \in DOMAIN s /\ Tail(s)[i] = s[i+1]
           /\ \A i \in DOMAIN s : i # 1 => i - 1 \in DOMAIN Tail(s)
           /\ DOMAIN s \subseteq Nat /\ DOMAIN Tail(s) \subseteq Nat
  <1>1. /\ Head(s) \in S /\ Tail(s) \in Seq(S) /\ Len(Tail(s)) = Len(s) - 1
        /\ \A i \in 1..Len(Tail(s)) : Tail(s)[i] = s[i+1]
    BY HeadTailProperties
  <1>2. Head(s) = s[1] /\ Len(s) \in Nat \ {0} /\ DOMAIN s = 1..Len(s)
    BY EmptySeq
  <1>3. DOMAIN Tail(s) = 1..(Len(s) - 1)
    BY <1>1
  <1> DEFINE t == Tail(s)
  <1> HIDE DEF t
  <1>4. /\ \A i \in DOMAIN t : i + 1 \in DOMAIN s /\ t[i] = s[i+1]
        /\ \A i \in DOMAIN s : i # 1 => i - 1 \in DOMAIN t
        /\ 1 \in DOMAIN s /\ DOMAIN s \subseteq Nat /\ DOMAIN t \subseteq Nat
    BY <1>1, <1>2, <1>3 DEF t
  <1> QED
    BY <1>1, <1>2, <1>4 DEF t

LEMMA ConcatFacts ==
    ASSUME NEW S, NEW s \in Seq(S), NEW t \in Seq(S)
    PROVE  /\ s \o t \in Seq(S)
           /\ DOMAIN (s \o t) = 1..Len(s) + Len(t)
           /\ \A i \in DOMAIN s : i \in DOMAIN (s \o t) /\ (s \o t)[i] = s[i]
           /\ \A j \in DOMAIN t : Len(s) + j \in DOMAIN (s \o t)
                                  /\ (s \o t)[Len(s) + j] = t[j]
           /\ \A k \in DOMAIN (s \o t) : k \in DOMAIN s \/ k - Len(s) \in DOMAIN t
           /\ ToSet(s \o t) = ToSet(s) \union ToSet(t)
  <1> DEFINE c == s \o t
             m == Len(s)
             n == Len(t)
  <1>1. /\ c \in Seq(S) /\ Len(c) = m + n /\ m \in Nat /\ n \in Nat
        /\ DOMAIN s = 1..m /\ DOMAIN t = 1..n
        /\ \A j \in 1..m + n : c[j] = IF j <= m THEN s[j] ELSE t[j - m]
    BY ConcatProperties
  <1>2. DOMAIN c = 1..m + n
    BY <1>1
  <1> HIDE DEF c, m, n
  <1>3. /\ \A i \in DOMAIN s : i \in DOMAIN c /\ c[i] = s[i]
        /\ \A j \in DOMAIN t : m + j \in DOMAIN c /\ c[m + j] = t[j]
    <2>1. \A i \in 1..m : i \in 1..m + n /\ c[i] = s[i]
      BY <1>1
    <2>2. \A j \in 1..n : m + j \in 1..m + n /\ c[m + j] = t[j]
      <3> SUFFICES ASSUME NEW j \in 1..n
                   PROVE  m + j \in 1..m + n /\ c[m + j] = t[j]
        OBVIOUS
      <3>1. m + j \in 1..m + n /\ ~(m + j <= m) /\ (m + j) - m = j
        BY <1>1
      <3> QED
        BY <1>1, <3>1
    <2> QED
      BY <1>1, <1>2, <2>1, <2>2
  <1>4. \A k \in DOMAIN c : \/ k \in DOMAIN s /\ c[k] = s[k]
                            \/ k - m \in DOMAIN t /\ c[k] = t[k - m]
    BY <1>1, <1>2
  <1>5. ToSet(c) = ToSet(s) \union ToSet(t)
    BY <1>3, <1>4 DEF ToSet
  <1> QED
    BY <1>1, <1>2, <1>3, <1>4, <1>5 DEF c, m, n

-----------------------------------------------------------------------------
(* Accounts of numbers under way. *)

LEMMA InUnder ==
    ASSUME NEW L
    PROVE  \A x : x \in Under(L) <=> \E i \in DOMAIN L : x \in L[i]
  BY DEF Under, ToSet

\* What is made joins what waits.
LEMMA AccountedMade ==
    ASSUME NEW A, NEW L, NEW W, NEW all, NEW n,
           Accounted(A, L, W, all), Before(all, {n})
    PROVE  Accounted(A, L, W \union {n}, all \union {n})
  <1> DEFINE U == Under(L)
  <1>1. \A i \in DOMAIN L : \A x \in L[i] : x \in U
    BY InUnder
  <1> HIDE DEF U
  <1>2. A \union U \union W = all
    BY DEF Accounted, U
  <1>3. A \union U \union (W \union {n}) = all \union {n}
    BY <1>2
  <1>4. Before(A, W \union {n})
    BY <1>2 DEF Accounted, Before
  <1>5. \A i \in DOMAIN L : Before(A, L[i]) /\ Before(L[i], W \union {n})
    BY <1>1, <1>2 DEF Accounted, Before
  <1> QED
    BY <1>3, <1>4, <1>5 DEF Accounted, U

\* What waits sets out in a message.
LEMMA AccountedSent ==
    ASSUME NEW S, NEW A, NEW L \in Seq(S), NEW W \in S, NEW all,
           Accounted(A, L, W, all)
    PROVE  Accounted(A, Append(L, W), {}, all)
  <1> DEFINE M == Append(L, W)
             k == Len(L) + 1
  <1>1. /\ DOMAIN M = DOMAIN L \union {k} /\ M[k] = W
        /\ \A i \in DOMAIN L : M[i] = L[i]
        /\ DOMAIN L = 1..Len(L) /\ Len(L) \in Nat
    BY AppendFacts
  <1>2. \A i \in DOMAIN L : i < k /\ ~(k < i)
    BY <1>1
  <1>3. ~(k < k)
    BY <1>1
  <1> HIDE DEF M, k
  <1>4. A \union Under(M) \union {} = all
    <2>1. Under(M) = Under(L) \union W
      BY <1>1, InUnder
    <2> QED
      BY <2>1 DEF Accounted
  <1>5. \A i \in DOMAIN M : Before(A, M[i]) /\ Before(M[i], {})
    BY <1>1 DEF Accounted, Before
  <1>6. \A i, j \in DOMAIN M : i < j => Before(M[i], M[j])
    <2> SUFFICES ASSUME NEW i \in DOMAIN M, NEW j \in DOMAIN M, i < j
                 PROVE  Before(M[i], M[j])
      OBVIOUS
    <2>1. i \in DOMAIN L
      BY <1>1, <1>2, <1>3
    <2>2. CASE j \in DOMAIN L
      BY <1>1, <2>1, <2>2 DEF Accounted
    <2>3. CASE j = k
      BY <1>1, <2>1, <2>3 DEF Accounted
    <2> QED
      BY <1>1, <2>2, <2>3
  <1>7. Before(A, {})
    BY DEF Before
  <1>8. Accounted(A, M, {}, all)
    BY <1>4, <1>5, <1>6, <1>7 DEF Accounted
  <1> QED
    BY <1>8 DEF M

\* A message without numbers sets out.
LEMMA AccountedPassed ==
    ASSUME NEW S, NEW A, NEW L \in Seq(S), NEW W, NEW all, {} \in S,
           Accounted(A, L, W, all)
    PROVE  Accounted(A, Append(L, {}), W, all)
  <1> DEFINE M == Append(L, {})
             k == Len(L) + 1
  <1>1. /\ DOMAIN M = DOMAIN L \union {k} /\ M[k] = {}
        /\ \A i \in DOMAIN L : M[i] = L[i]
    BY AppendFacts
  <1> HIDE DEF M, k
  <1>4. A \union Under(M) \union W = all
    <2>1. Under(M) = Under(L)
      BY <1>1, InUnder
    <2> QED
      BY <2>1 DEF Accounted
  <1>5. \A i \in DOMAIN M : Before(A, M[i]) /\ Before(M[i], W)
    BY <1>1 DEF Accounted, Before
  <1>6. \A i, j \in DOMAIN M : i < j => Before(M[i], M[j])
    <2> SUFFICES ASSUME NEW i \in DOMAIN M, NEW j \in DOMAIN M, i < j
                 PROVE  Before(M[i], M[j])
      OBVIOUS
    <2>1. CASE i \in DOMAIN L /\ j \in DOMAIN L
      BY <1>1, <2>1 DEF Accounted
    <2>2. CASE i = k \/ j = k
      BY <1>1, <2>2 DEF Before
    <2> QED
      BY <1>1, <2>1, <2>2
  <1>7. Accounted(A, M, W, all)
    BY <1>4, <1>5, <1>6 DEF Accounted
  <1> QED
    BY <1>7 DEF M

\* The first message arrives, ...
LEMMA AccountedArrived ==
    ASSUME NEW S, NEW A, NEW L \in Seq(S), NEW W, NEW all, L # <<>>,
           Accounted(A, L, W, all)
    PROVE  Accounted(A \union Head(L), Tail(L), W, all) /\ Before(A, Head(L))
  <1> DEFINE M == Tail(L)
             h == Head(L)
  <1>1. /\ h = L[1] /\ 1 \in DOMAIN L
        /\ \A i \in DOMAIN M : i + 1 \in DOMAIN L /\ M[i] = L[i+1]
        /\ \A i \in DOMAIN L : i # 1 => i - 1 \in DOMAIN M
        /\ DOMAIN L \subseteq Nat /\ DOMAIN M \subseteq Nat
    BY TailFacts
  <1>2. \A i \in DOMAIN M : 1 < i + 1
    <2>1. DOMAIN M = 1..Len(M)
      BY HeadTailProperties
    <2> HIDE DEF M
    <2> QED
      BY <1>1, <2>1
  <1> HIDE DEF M, h
  <1>3. \A i \in DOMAIN L : i # 1 => M[i-1] = L[i]
    BY <1>1
  <1>4. (A \union h) \union Under(M) \union W = all
    <2>1. Under(L) = h \union Under(M)
      BY <1>1, <1>3, InUnder
    <2> QED
      BY <2>1 DEF Accounted
  <1>5. \A i \in DOMAIN M : Before(A \union h, M[i]) /\ Before(M[i], W)
    <2> SUFFICES ASSUME NEW i \in DOMAIN M
                 PROVE  Before(A \union h, M[i]) /\ Before(M[i], W)
      OBVIOUS
    <2>1. Before(A, M[i]) /\ Before(M[i], W)
      BY <1>1 DEF Accounted
    <2>2. Before(h, M[i])
      BY <1>1, <1>2 DEF Accounted
    <2> QED
      BY <2>1, <2>2 DEF Before
  <1>6. \A i, j \in DOMAIN M : i < j => Before(M[i], M[j])
    <2> SUFFICES ASSUME NEW i \in DOMAIN M, NEW j \in DOMAIN M, i < j
                 PROVE  Before(M[i], M[j])
      OBVIOUS
    <2>1. i + 1 < j + 1
      BY <1>1
    <2> QED
      BY <1>1, <2>1 DEF Accounted
  <1>7. Before(A \union h, W) /\ Before(A, h)
    BY <1>1 DEF Accounted, Before
  <1>8. Accounted(A \union h, M, W, all) /\ Before(A, h)
    BY <1>4, <1>5, <1>6, <1>7 DEF Accounted
  <1> QED
    BY <1>8 DEF M, h

\* ... or is turned away.
LEMMA AccountedRefused ==
    ASSUME NEW A, NEW L \in Seq(SUBSET Nat), NEW W, NEW all \in SUBSET Nat,
           L # <<>>, Accounted(A, L, W, all)
    PROVE  Accounted(A, Tail(L), W, all \ Head(L))
  <1> DEFINE M == Tail(L)
             h == Head(L)
  <1>1. /\ Accounted(A \union h, M, W, all) /\ Before(A, h)
    BY AccountedArrived
  <1>2. h \subseteq Nat /\ h = L[1] /\ 1 \in DOMAIN L
    BY TailFacts
  <1> HIDE DEF M, h
  <1> DEFINE U == Under(M)
  <1>3. Before(h, W) /\ Before(h, U)
    BY <1>1, InUnder DEF Accounted, Before
  <1>4. (A \union h) \union U \union W = all
    BY <1>1 DEF Accounted
  <1> HIDE DEF U
  <1>5. \A x \in Nat : ~(x < x)
    OBVIOUS
  <1>6. A \union U \union W = all \ h
    <2>1. \A x \in h : x \notin A /\ x \notin W /\ x \notin U
      BY <1>1, <1>2, <1>3, <1>5 DEF Before
    <2> QED
      BY <1>4, <2>1
  <1>7. Before(A, W) /\ \A i \in DOMAIN M : Before(A, M[i])
    BY <1>1 DEF Accounted, Before
  <1>8. Accounted(A, M, W, all \ h)
    BY <1>1, <1>6, <1>7 DEF Accounted, U
  <1> QED
    BY <1>8 DEF M, h

\* What waits is lost.
LEMMA AccountedLost ==
    ASSUME NEW A \in SUBSET Nat, NEW L \in Seq(SUBSET Nat), NEW W \in SUBSET Nat,
           NEW all, Accounted(A, L, W, all)
    PROVE  Accounted(A, L, {}, all \ W)
  <1> DEFINE U == Under(L)
  <1>1. U \subseteq Nat
    BY InUnder
  <1>2. A \union U \union W = all /\ Before(A, W) /\ Before(U, W)
    BY InUnder DEF Accounted, Before
  <1>3. \A x \in Nat : ~(x < x)
    OBVIOUS
  <1> HIDE DEF U
  <1>4. \A x \in W : x \notin A /\ x \notin U
    BY <1>1, <1>2, <1>3 DEF Before
  <1>5. A \union U \union {} = all \ W
    BY <1>2, <1>4
  <1> QED
    BY <1>5 DEF Accounted, Before, U

-----------------------------------------------------------------------------
(* Messages. *)

\* What encodeFrame accepts travels in a message that can be read.
LEMMA MessageFacts ==
    ASSUME NEW op \in ValidOpcodes, NEW id \in Nat, NEW size \in Nat,
           NEW body \in Seq(Nat), Encodes(size),
           NEW w \in Messages(EncodeFrame(op, id, size, body))
    PROVE  /\ w \in Wires /\ Decodes(w)
           /\ w.frame.op = op /\ w.frame.id = IdOf(id) /\ w.frame.body = body
  <1> DEFINE f == EncodeFrame(op, id, size, body)
             length == HeaderSize + f.size
  <1>1. /\ f \in Frames /\ f.op = op /\ f.id = IdOf(id) /\ f.body = body
        /\ f.size = size
    <2>1. IdOf(id) \in 0..(Ids - 1)
      BY IdFacts
    <2>2. f = [op |-> op, id |-> IdOf(id), size |-> size, body |-> body]
      BY DEF EncodeFrame, IdOf
    <2> QED
      BY <2>1, <2>2 DEF Frames
  <1>2. length \in Nat /\ length >= 9
    BY <1>1 DEF HeaderSize
  <1>3. w \in Messages(f)
    OBVIOUS
  <1>4. Threshold \in Nat
    BY LimitsAreNat
  <1> HIDE DEF f
  <1>5. CASE length > Threshold
    <2>1. PICK n \in DeflatedLengths(length) :
              w = [first |-> Magic, length |-> n, frame |-> f, deflated |-> TRUE]
      BY <1>3, <1>5 DEF Messages
    <2>2. n \in Nat /\ n >= 2
      BY <1>2 DEF DeflatedLengths
    <2>3. w.frame = f /\ w.first = Magic /\ w.length = n /\ w.deflated = TRUE
      BY <2>1
    <2>4. IsCompressed(w)
      BY <2>2, <2>3 DEF IsCompressed
    <2>5. Decodes(w)
      BY <1>1, <2>3, <2>4 DEF Decodes, Encodes
    <2>6. w \in Wires
      BY <1>1, <2>1, <2>2 DEF Wires, Magic
    <2> QED
      BY <1>1, <2>3, <2>5, <2>6
  <1>6. CASE ~(length > Threshold)
    <2>1. w = [first |-> f.op, length |-> length, frame |-> f, deflated |-> FALSE]
      BY <1>3, <1>6 DEF Messages
    <2>2. op \in 1..11 /\ op # Magic
      BY DEF ValidOpcodes, Magic
    <2>3. w.frame = f /\ w.first = op /\ w.length = length /\ w.deflated = FALSE
      BY <1>1, <2>1
    <2>4. IsCompressed(w) = FALSE
      BY <2>2, <2>3 DEF IsCompressed
    <2>5. Decodes(w)
      BY <1>1, <2>3, <2>4 DEF Decodes, Encodes
    <2>6. w \in Wires
      BY <1>1, <1>2, <2>1, <2>2 DEF Wires
    <2> QED
      BY <1>1, <2>3, <2>5, <2>6
  <1> QED
    BY <1>5, <1>6

\* Loads that follow a link, when a message joins it or its first leaves.
LEMMA LoadsFollow ==
    ASSUME NEW l \in Seq(Wires), NEW w \in Wires,
           NEW e \in Seq(SUBSET Nat), NEW x \in SUBSET Nat, Len(e) = Len(l)
    PROVE  /\ \A f \in Seq(SUBSET Nat) :
                  /\ Len(f) = Len(l) + 1 /\ f[Len(l) + 1] = x
                  /\ \A i \in 1..Len(l) : f[i] = e[i]
                  => f = Append(e, x)
           /\ l # <<>> => /\ e # <<>> /\ Head(e) = e[1]
                          /\ \A f \in Seq(SUBSET Nat) :
                                 /\ Len(f) = Len(l) - 1
                                 /\ \A i \in 1..Len(l) - 1 : f[i] = e[i+1]
                                 => f = Tail(e)
  <1>1. Len(l) \in Nat
    OBVIOUS
  <1>2. ASSUME NEW f \in Seq(SUBSET Nat), Len(f) = Len(l) + 1, f[Len(l) + 1] = x,
               \A i \in 1..Len(l) : f[i] = e[i]
        PROVE  f = Append(e, x)
    <2> DEFINE a == Append(e, x)
               n == Len(l)
    <2>1. a \in Seq(SUBSET Nat) /\ Len(a) = n + 1 /\ a[n+1] = x
          /\ \A i \in 1..n : a[i] = e[i]
      BY AppendProperties
    <2> HIDE DEF a, n
    <2>2. \A i \in 1..n+1 : i \in 1..n \/ i = n + 1
      BY <1>1 DEF n
    <2>3. \A i \in 1..Len(f) : f[i] = a[i]
      BY <1>2, <2>1, <2>2 DEF n
    <2>4. f = a
      BY <1>2, <2>1, <2>3, SeqEqual DEF n
    <2> QED
      BY <2>4 DEF a
  <1>3. ASSUME l # <<>>, NEW f \in Seq(SUBSET Nat), Len(f) = Len(l) - 1,
               \A i \in 1..Len(l) - 1 : f[i] = e[i+1]
        PROVE  f = Tail(e)
    <2> DEFINE t == Tail(e)
    <2>1. e # <<>>
      BY <1>1, <1>3, EmptySeq
    <2>2. t \in Seq(SUBSET Nat) /\ Len(t) = Len(l) - 1
          /\ \A i \in 1..Len(t) : t[i] = e[i+1]
      BY <2>1, HeadTailProperties
    <2> HIDE DEF t
    <2>3. \A i \in 1..Len(f) : f[i] = t[i]
      BY <1>3, <2>2
    <2>4. f = t
      BY <1>3, <2>2, <2>3, SeqEqual
    <2> QED
      BY <2>4 DEF t
  <1>4. l # <<>> => e # <<>> /\ Head(e) = e[1]
    <2> SUFFICES ASSUME l # <<>> PROVE e # <<>> /\ Head(e) = e[1]
      OBVIOUS
    <2>1. e # <<>>
      BY <1>1, EmptySeq
    <2> QED
      BY <2>1
  <1> QED
    BY <1>2, <1>3, <1>4

LEMMA LoadsType ==
    ASSUME NEW op, NEW l \in Seq(Wires), \A i \in DOMAIN l : Load(op, l[i]) \in SUBSET Nat
    PROVE  /\ Loads(op, l) \in Seq(SUBSET Nat) /\ Len(Loads(op, l)) = Len(l)
           /\ \A i \in 1..Len(l) : Loads(op, l)[i] = Load(op, l[i])
  <1>1. Len(l) \in Nat /\ DOMAIN l = 1..Len(l)
    OBVIOUS
  <1>2. Loads(op, l) = [i \in 1..Len(l) |-> Load(op, l[i])]
    BY <1>1 DEF Loads
  <1> QED
    BY <1>1, <1>2

LEMMA LoadsFacts ==
    ASSUME NEW op, NEW l \in Seq(Wires), NEW w \in Wires,
           \A i \in DOMAIN l : Load(op, l[i]) \in SUBSET Nat,
           Load(op, w) \in SUBSET Nat
    PROVE  /\ Loads(op, l) \in Seq(SUBSET Nat)
           /\ Loads(op, Append(l, w)) = Append(Loads(op, l), Load(op, w))
           /\ l # <<>> => /\ Loads(op, Tail(l)) = Tail(Loads(op, l))
                          /\ Loads(op, l) # <<>>
                          /\ Head(Loads(op, l)) = Load(op, Head(l))
  <1> DEFINE e == Loads(op, l)
             a == Append(l, w)
             t == Tail(l)
  <1>1. e \in Seq(SUBSET Nat) /\ Len(e) = Len(l)
        /\ \A i \in 1..Len(l) : e[i] = Load(op, l[i])
    BY LoadsType
  <1>2. Len(l) \in Nat /\ DOMAIN l = 1..Len(l)
    OBVIOUS
  <1> HIDE DEF e
  <1>3. Loads(op, a) = Append(e, Load(op, w))
    <2>1. a \in Seq(Wires) /\ Len(a) = Len(l) + 1
          /\ DOMAIN a = DOMAIN l \union {Len(l) + 1}
          /\ (\A i \in 1..Len(l) : a[i] = l[i]) /\ a[Len(l)+1] = w
      BY AppendFacts
    <2> HIDE DEF a
    <2>2. \A i \in DOMAIN a : Load(op, a[i]) \in SUBSET Nat
      BY <1>2, <2>1
    <2>3. Loads(op, a) \in Seq(SUBSET Nat) /\ Len(Loads(op, a)) = Len(l) + 1
          /\ \A i \in 1..Len(l) + 1 : Loads(op, a)[i] = Load(op, a[i])
      BY <2>1, <2>2, LoadsType
    <2>4. \A i \in 1..Len(l) : Loads(op, a)[i] = e[i]
      BY <1>1, <1>2, <2>1, <2>3
    <2>5. Loads(op, a)[Len(l) + 1] = Load(op, w)
      BY <1>2, <2>1, <2>3
    <2> QED
      BY <1>1, <2>3, <2>4, <2>5, LoadsFollow
  <1>4. ASSUME l # <<>>
        PROVE  Loads(op, t) = Tail(e) /\ e # <<>> /\ Head(e) = Load(op, Head(l))
    <2>1. /\ Head(l) = l[1] /\ t \in Seq(Wires) /\ Len(t) = Len(l) - 1
          /\ \A i \in 1..Len(t) : t[i] = l[i+1]
      BY <1>4, HeadTailProperties
    <2>2. Len(l) >= 1 /\ DOMAIN t = 1..Len(l) - 1
      BY <1>2, <1>4, <2>1, EmptySeq
    <2> HIDE DEF t
    <2>3. \A i \in 1..Len(l) - 1 : i + 1 \in 1..Len(l) /\ t[i] = l[i+1]
      BY <1>2, <2>1
    <2>4. Loads(op, t) \in Seq(SUBSET Nat) /\ Len(Loads(op, t)) = Len(l) - 1
          /\ \A i \in 1..Len(l) - 1 : Loads(op, t)[i] = Load(op, t[i])
      <3>1. \A i \in DOMAIN t : Load(op, t[i]) \in SUBSET Nat
        BY <1>2, <2>2, <2>3
      <3> QED
        BY <2>1, <3>1, LoadsType
    <2>5. \A i \in 1..Len(l) - 1 : Loads(op, t)[i] = e[i+1]
      BY <1>1, <2>3, <2>4
    <2>6. e # <<>> /\ Head(e) = e[1] /\ Loads(op, t) = Tail(e)
      BY <1>1, <1>4, <2>4, <2>5, LoadsFollow
    <2> QED
      BY <1>1, <1>2, <2>1, <2>2, <2>6
  <1> QED
    BY <1>1, <1>3, <1>4 DEF e

-----------------------------------------------------------------------------
(* Sizes. *)

\* A set of naturals has a least element.
LEMMA LeastExists ==
    ASSUME NEW S \in SUBSET Nat, S # {}
    PROVE  \E m \in S : \A k \in S : m <= k
  <1> DEFINE R == OpToRel(<, Nat)
  <1>1. PICK x \in S : TRUE
    OBVIOUS
  <1>2. PICK m \in S : \A y \in S : ~ (<<y, m>> \in R)
    <2> HIDE DEF R
    <2>1. IsWellFoundedOn(R, Nat)
      BY NatLessThanWellFounded DEF R
    <2> QED
      BY <1>1, <2>1, WFMin
  <1>3. \A k \in S : ~(k < m)
    BY <1>2 DEF OpToRel
  <1>4. \A k \in S : m <= k
    <2> HIDE DEF R
    <2> SUFFICES ASSUME NEW k \in S PROVE m <= k
      OBVIOUS
    <2>1. k \in Nat /\ m \in Nat /\ ~(k < m)
      BY <1>3
    <2> QED
      BY <2>1
  <1> QED
    BY <1>4

LEMMA SizeOfIsNat ==
    ASSUME NEW b \in Seq([patch : Numbers, size : Sizes])
    PROVE  SizeOf(b) \in Nat
  <1> DEFINE n == Len(b)
             Sums(g, k) == \A i \in 0..k : g[i] = IF i = 0 THEN 0 ELSE g[i-1] + b[i].size
             Good == {k \in 0..n : \E g \in [0..n -> Nat] : Sums(g, k)}
             Bad == 0..n \ Good
  <1>1. n \in Nat /\ \A i \in 1..n : b[i].size \in Nat
    <2>1. n \in Nat
      OBVIOUS
    <2>2. \A i \in 1..n : b[i].size \in Sizes
      <3>1. \A i \in 1..n : b[i] \in [patch : Numbers, size : Sizes]
        BY ElementOfSeq
      <3> HIDE DEF n
      <3> QED
        BY <3>1
    <2> HIDE DEF n
    <2> QED
      BY <2>1, <2>2, SizesAreNat
  <1>2. Bad = {}
    <2> SUFFICES ASSUME Bad # {} PROVE FALSE
      OBVIOUS
    <2>1. PICK k \in Bad : \A j \in Bad : k <= j
      <3>1. Bad \in SUBSET Nat
        BY <1>1
      <3> HIDE DEF Bad
      <3> QED
        BY <3>1, LeastExists
    <2>2. k \in 0..n
      BY <2>1
    <2>3. CASE k = 0
      <3> DEFINE g == [i \in 0..n |-> 0]
      <3>1. g \in [0..n -> Nat] /\ Sums(g, 0)
        BY <1>1
      <3>2. 0 \in 0..n
        BY <1>1
      <3> HIDE DEF g, Sums
      <3>3. 0 \in Good
        BY <3>1, <3>2
      <3> QED
        BY <2>1, <2>3, <3>3
    <2>4. CASE k # 0
      <3>1. k - 1 \in Good
        <4>1. k - 1 \in 0..n /\ ~(k <= k - 1)
          BY <1>1, <2>2, <2>4
        <4> QED
          BY <2>1, <4>1
      <3>2. PICK g \in [0..n -> Nat] : Sums(g, k - 1)
        BY <3>1
      <3> DEFINE h == [g EXCEPT ![k] = g[k-1] + b[k].size]
      <3>3. k \in 1..n /\ g[k-1] \in Nat /\ b[k].size \in Nat
        BY <1>1, <2>2, <2>4
      <3>4. h \in [0..n -> Nat]
        BY <3>3
      <3>5. Sums(h, k)
        <4> SUFFICES ASSUME NEW i \in 0..k
                     PROVE  h[i] = IF i = 0 THEN 0 ELSE h[i-1] + b[i].size
          OBVIOUS
        <4>1. CASE i = k
          BY <1>1, <3>3, <4>1
        <4>2. CASE i # k
          <5>1. i \in 0..k-1 /\ i \in 0..n /\ (i # 0 => i - 1 \in 0..n /\ i - 1 # k)
            BY <1>1, <3>3, <4>2
          <5>2. g[i] = IF i = 0 THEN 0 ELSE g[i-1] + b[i].size
            BY <3>2, <5>1
          <5> QED
            BY <4>2, <5>1, <5>2
        <4> QED
          BY <4>1, <4>2
      <3> HIDE DEF h, Sums
      <3>6. k \in Good
        BY <2>2, <3>4, <3>5
      <3> QED
        BY <2>1, <3>6
    <2> QED
      BY <2>3, <2>4
  <1>3. PICK g \in [0..n -> Nat] : Sums(g, n)
    <2>1. n \in Good
      BY <1>1, <1>2
    <2> QED
      BY <2>1
  <1> DEFINE IsSum(f) == f = [i \in 0..n |-> IF i = 0 THEN 0 ELSE f[i-1] + b[i].size]
             sum == CHOOSE f : IsSum(f)
  <1>4. IsSum(g)
    BY <1>1, <1>3
  <1>5. IsSum(sum)
    <2> HIDE DEF IsSum
    <2> QED
      BY <1>4
  <1>6. SizeOf(b) = sum[n]
    BY DEF SizeOf
  <1>7. \A i \in 0..n : sum[i] = IF i = 0 THEN 0 ELSE sum[i-1] + b[i].size
    <2> HIDE DEF sum
    <2> QED
      BY <1>1, <1>5
  <1> HIDE DEF sum, Bad, Good, n
  <1> DEFINE Apart == {i \in 0..n : sum[i] # g[i]}
  <1>8. Apart = {}
    <2> SUFFICES ASSUME Apart # {} PROVE FALSE
      OBVIOUS
    <2>1. PICK k \in Apart : \A j \in Apart : k <= j
      <3>1. Apart \in SUBSET Nat
        BY <1>1
      <3> HIDE DEF Apart
      <3> QED
        BY <3>1, LeastExists
    <2>2. k \in 0..n
      BY <2>1
    <2>3. k # 0
      BY <1>1, <1>3, <1>7, <2>1
    <2>4. k - 1 \in 0..n /\ ~(k <= k - 1)
      BY <1>1, <2>2, <2>3
    <2>5. sum[k-1] = g[k-1]
      BY <2>1, <2>4
    <2>6. sum[k] = sum[k-1] + b[k].size /\ g[k] = g[k-1] + b[k].size
      BY <1>3, <1>7, <2>2, <2>3
    <2> QED
      BY <2>1, <2>5, <2>6
  <1>9. sum[n] = g[n] /\ g[n] \in Nat
    <2>1. n \in 0..n
      BY <1>1
    <2> QED
      BY <1>3, <1>8, <2>1
  <1> QED
    BY <1>6, <1>9

-----------------------------------------------------------------------------
(* What stays true of messages under way. *)

LEMMA TypeFacts ==
    ASSUME TypeOK
    PROVE  /\ uplink \in Seq(Wires) /\ downlink \in Seq(Wires)
           /\ heard \in Seq(Numbers) /\ mirror \in Seq(Numbers)
           /\ counter \in Nat /\ emitted \in Nat /\ stored \in Nat /\ inputs \in Nat
           /\ MaxInputs \in Nat /\ Numbers \subseteq Nat
           /\ batch \in Seq([patch : Numbers, size : Sizes])
  <1>1. MaxInputs \in Nat /\ Numbers \subseteq Nat
    BY LimitsAreNat DEF Numbers
  <1> QED
    BY <1>1 DEF TypeOK

LEMMA SentFacts ==
    ASSUME NEW c \in Nat, NEW e \in Nat, NEW d \in Nat, NEW f \in Nat,
           NEW w \in Wires, Sent(w, c, e)
    PROVE  /\ c <= d /\ e <= f => Sent(w, d, f)
           /\ \A op : Load(op, w) \in SUBSET Nat
  <1>1. c <= d /\ e <= f => Sent(w, d, f)
    <2> SUFFICES ASSUME c <= d, e <= f PROVE Sent(w, d, f)
      OBVIOUS
    <2>1. 1..c \subseteq 1..d /\ 1..e \subseteq 1..f
      OBVIOUS
    <2> QED
      BY <2>1 DEF Sent
  <1>2. ASSUME NEW op
        PROVE  Load(op, w) \in SUBSET Nat
    <2>1. w.frame.body \in Seq(Nat)
      BY DEF Wires, Frames
    <2>2. ToSet(w.frame.body) \in SUBSET Nat
      BY <2>1 DEF ToSet
    <2>3. ASSUME w.frame.op = Opcode.EVENT_C2S
          PROVE  w.frame.body[1] \in Nat
      BY <2>3 DEF Sent
    <2> QED
      BY <2>2, <2>3 DEF Load
  <1> QED
    BY <1>1, <1>2

LEMMA AnsweredFacts ==
    ASSUME NEW c \in Nat, NEW d \in Nat, NEW w \in Wires, Answered(w, c)
    PROVE  /\ c <= d => Answered(w, d)
           /\ \A op : op # Opcode.EVENT_C2S => Load(op, w) \in SUBSET Nat
  <1>1. c <= d => Answered(w, d)
    <2> SUFFICES ASSUME c <= d PROVE Answered(w, d)
      OBVIOUS
    <2>1. 1..c \subseteq 1..d
      OBVIOUS
    <2> QED
      BY <2>1 DEF Answered
  <1>2. ASSUME NEW op, op # Opcode.EVENT_C2S
        PROVE  Load(op, w) \in SUBSET Nat
    <2>1. w.frame.body \in Seq(Nat)
      BY DEF Wires, Frames
    <2>2. ToSet(w.frame.body) \in SUBSET Nat
      BY <2>1 DEF ToSet
    <2> QED
      BY <1>2, <2>2 DEF Load
  <1> QED
    BY <1>1, <1>2

\* The loads of the links.
LEMMA LinkLoads ==
    ASSUME TypeOK, LinksInv
    PROVE  /\ \A i \in DOMAIN uplink : Load(Opcode.EVENT_C2S, uplink[i]) \in SUBSET Nat
           /\ \A i \in DOMAIN downlink : Load(Opcode.STATE_PATCH, downlink[i]) \in SUBSET Nat
  <1>1. uplink \in Seq(Wires) /\ downlink \in Seq(Wires) /\ counter \in Nat /\ emitted \in Nat
    BY TypeFacts
  <1>2. ASSUME NEW i \in DOMAIN uplink
        PROVE  Load(Opcode.EVENT_C2S, uplink[i]) \in SUBSET Nat
    <2>1. uplink[i] \in Wires /\ Sent(uplink[i], counter, emitted)
      BY <1>1 DEF LinksInv
    <2> QED
      BY <1>1, <2>1, SentFacts
  <1>3. ASSUME NEW i \in DOMAIN downlink
        PROVE  Load(Opcode.STATE_PATCH, downlink[i]) \in SUBSET Nat
    <2>1. downlink[i] \in Wires /\ Answered(downlink[i], counter)
      BY <1>1 DEF LinksInv
    <2>2. Opcode.STATE_PATCH # Opcode.EVENT_C2S
      BY DEF Opcode
    <2> QED
      BY <1>1, <2>1, <2>2, AnsweredFacts
  <1> QED
    BY <1>2, <1>3

\* A message joins the uplink.
LEMMA UplinkGrows ==
    ASSUME TypeOK, LinksInv, counter' \in Nat, emitted' \in Nat,
           counter <= counter', emitted <= emitted',
           NEW w \in Wires, Sent(w, counter', emitted'), uplink' = Append(uplink, w)
    PROVE  /\ uplink' \in Seq(Wires)
           /\ \A i \in DOMAIN uplink' : Sent(uplink'[i], counter', emitted')
           /\ \A i \in DOMAIN uplink : i \in DOMAIN uplink' /\ uplink'[i] = uplink[i]
           /\ \E i \in DOMAIN uplink' : uplink'[i] = w
           /\ Loads(Opcode.EVENT_C2S, uplink)' =
                  Append(Loads(Opcode.EVENT_C2S, uplink), Load(Opcode.EVENT_C2S, w))
  <1>1. uplink \in Seq(Wires) /\ counter \in Nat /\ emitted \in Nat
    BY TypeFacts
  <1>2. /\ uplink' \in Seq(Wires)
        /\ DOMAIN uplink' = DOMAIN uplink \union {Len(uplink) + 1}
        /\ \A i \in DOMAIN uplink : uplink'[i] = uplink[i]
        /\ uplink'[Len(uplink) + 1] = w
    BY <1>1, AppendFacts
  <1>3. \A i \in DOMAIN uplink : Sent(uplink[i], counter', emitted')
    <2> SUFFICES ASSUME NEW i \in DOMAIN uplink
                 PROVE  Sent(uplink[i], counter', emitted')
      OBVIOUS
    <2>1. uplink[i] \in Wires /\ Sent(uplink[i], counter, emitted)
      BY <1>1 DEF LinksInv
    <2> QED
      BY <1>1, <2>1, SentFacts
  <1>4. Load(Opcode.EVENT_C2S, w) \in SUBSET Nat
    BY SentFacts
  <1>5. Loads(Opcode.EVENT_C2S, Append(uplink, w)) =
            Append(Loads(Opcode.EVENT_C2S, uplink), Load(Opcode.EVENT_C2S, w))
    BY <1>1, <1>4, LinkLoads, LoadsFacts
  <1> QED
    BY <1>2, <1>3, <1>5

\* A message joins the downlink.
LEMMA DownlinkGrows ==
    ASSUME TypeOK, LinksInv,
           NEW w \in Wires, Answered(w, counter), downlink' = Append(downlink, w)
    PROVE  /\ downlink' \in Seq(Wires)
           /\ \A i \in DOMAIN downlink' : Answered(downlink'[i], counter)
           /\ \A i \in DOMAIN downlink :
                  i \in DOMAIN downlink' /\ downlink'[i] = downlink[i]
           /\ \E i \in DOMAIN downlink' : downlink'[i] = w
           /\ Loads(Opcode.STATE_PATCH, downlink)' =
                  Append(Loads(Opcode.STATE_PATCH, downlink), Load(Opcode.STATE_PATCH, w))
  <1>1. downlink \in Seq(Wires) /\ counter \in Nat
    BY TypeFacts
  <1>2. /\ downlink' \in Seq(Wires)
        /\ DOMAIN downlink' = DOMAIN downlink \union {Len(downlink) + 1}
        /\ \A i \in DOMAIN downlink : downlink'[i] = downlink[i]
        /\ downlink'[Len(downlink) + 1] = w
    BY <1>1, AppendFacts
  <1>3. Opcode.STATE_PATCH # Opcode.EVENT_C2S
    BY DEF Opcode
  <1>4. Load(Opcode.STATE_PATCH, w) \in SUBSET Nat
    BY <1>1, <1>3, AnsweredFacts
  <1>5. Loads(Opcode.STATE_PATCH, Append(downlink, w)) =
            Append(Loads(Opcode.STATE_PATCH, downlink), Load(Opcode.STATE_PATCH, w))
    BY <1>1, <1>4, LinkLoads, LoadsFacts
  <1> QED
    BY <1>2, <1>5 DEF LinksInv

\* The first message leaves a link.
LEMMA UplinkShrinks ==
    ASSUME TypeOK, LinksInv, uplink # <<>>, uplink' = Tail(uplink)
    PROVE  /\ uplink' \in Seq(Wires)
           /\ \A i \in DOMAIN uplink' : Sent(uplink'[i], counter, emitted)
           /\ Head(uplink) \in Wires /\ Sent(Head(uplink), counter, emitted)
           /\ \A i \in DOMAIN uplink :
                  uplink[i] = Head(uplink) \/ \E j \in DOMAIN uplink' : uplink'[j] = uplink[i]
           /\ Loads(Opcode.EVENT_C2S, uplink) \in Seq(SUBSET Nat)
           /\ Loads(Opcode.EVENT_C2S, uplink) # <<>>
           /\ Loads(Opcode.EVENT_C2S, uplink)' = Tail(Loads(Opcode.EVENT_C2S, uplink))
           /\ Head(Loads(Opcode.EVENT_C2S, uplink)) = Load(Opcode.EVENT_C2S, Head(uplink))
  <1>1. uplink \in Seq(Wires)
    BY TypeFacts
  <1>2. /\ Head(uplink) \in Wires /\ Head(uplink) = uplink[1] /\ 1 \in DOMAIN uplink
        /\ uplink' \in Seq(Wires)
        /\ \A i \in DOMAIN uplink' : i + 1 \in DOMAIN uplink /\ uplink'[i] = uplink[i+1]
        /\ \A i \in DOMAIN uplink : i # 1 => i - 1 \in DOMAIN uplink'
        /\ DOMAIN uplink \subseteq Nat
    BY <1>1, TailFacts
  <1>3. ASSUME NEW i \in DOMAIN uplink
        PROVE  uplink[i] = Head(uplink) \/ \E j \in DOMAIN uplink' : uplink'[j] = uplink[i]
    <2>1. CASE i = 1
      BY <1>2, <2>1
    <2>2. CASE i # 1
      <3>1. i - 1 \in DOMAIN uplink' /\ (i - 1) + 1 = i
        BY <1>2, <2>2
      <3> QED
        BY <1>2, <3>1
    <2> QED
      BY <2>1, <2>2
  <1>4. /\ Loads(Opcode.EVENT_C2S, uplink) \in Seq(SUBSET Nat)
        /\ Loads(Opcode.EVENT_C2S, uplink) # <<>>
        /\ Loads(Opcode.EVENT_C2S, Tail(uplink)) = Tail(Loads(Opcode.EVENT_C2S, uplink))
        /\ Head(Loads(Opcode.EVENT_C2S, uplink)) = Load(Opcode.EVENT_C2S, Head(uplink))
    <2>1. Load(Opcode.EVENT_C2S, Head(uplink)) \in SUBSET Nat
      BY <1>2, LinkLoads
    <2> QED
      BY <1>1, <1>2, <2>1, LinkLoads, LoadsFacts
  <1> QED
    BY <1>2, <1>3, <1>4 DEF LinksInv

LEMMA DownlinkShrinks ==
    ASSUME TypeOK, LinksInv, downlink # <<>>, downlink' = Tail(downlink)
    PROVE  /\ downlink' \in Seq(Wires)
           /\ \A i \in DOMAIN downlink' : Answered(downlink'[i], counter)
           /\ Head(downlink) \in Wires /\ Answered(Head(downlink), counter)
           /\ \A i \in DOMAIN downlink :
                  \/ downlink[i] = Head(downlink)
                  \/ \E j \in DOMAIN downlink' : downlink'[j] = downlink[i]
           /\ Loads(Opcode.STATE_PATCH, downlink) \in Seq(SUBSET Nat)
           /\ Loads(Opcode.STATE_PATCH, downlink) # <<>>
           /\ Loads(Opcode.STATE_PATCH, downlink)' = Tail(Loads(Opcode.STATE_PATCH, downlink))
           /\ Head(Loads(Opcode.STATE_PATCH, downlink)) = Load(Opcode.STATE_PATCH, Head(downlink))
  <1>1. downlink \in Seq(Wires)
    BY TypeFacts
  <1>2. /\ Head(downlink) \in Wires /\ Head(downlink) = downlink[1] /\ 1 \in DOMAIN downlink
        /\ downlink' \in Seq(Wires)
        /\ \A i \in DOMAIN downlink' : i + 1 \in DOMAIN downlink /\ downlink'[i] = downlink[i+1]
        /\ \A i \in DOMAIN downlink : i # 1 => i - 1 \in DOMAIN downlink'
        /\ DOMAIN downlink \subseteq Nat
    BY <1>1, TailFacts
  <1>3. ASSUME NEW i \in DOMAIN downlink
        PROVE  downlink[i] = Head(downlink) \/ \E j \in DOMAIN downlink' : downlink'[j] = downlink[i]
    <2>1. CASE i = 1
      BY <1>2, <2>1
    <2>2. CASE i # 1
      <3>1. i - 1 \in DOMAIN downlink' /\ (i - 1) + 1 = i
        BY <1>2, <2>2
      <3> QED
        BY <1>2, <3>1
    <2> QED
      BY <2>1, <2>2
  <1>4. /\ Loads(Opcode.STATE_PATCH, downlink) \in Seq(SUBSET Nat)
        /\ Loads(Opcode.STATE_PATCH, downlink) # <<>>
        /\ Loads(Opcode.STATE_PATCH, Tail(downlink)) = Tail(Loads(Opcode.STATE_PATCH, downlink))
        /\ Head(Loads(Opcode.STATE_PATCH, downlink)) = Load(Opcode.STATE_PATCH, Head(downlink))
    <2>1. Load(Opcode.STATE_PATCH, Head(downlink)) \in SUBSET Nat
      BY <1>2, LinkLoads
    <2> QED
      BY <1>1, <1>2, <2>1, LinkLoads, LoadsFacts
  <1> QED
    BY <1>2, <1>3, <1>4 DEF LinksInv

-----------------------------------------------------------------------------
(* Numbers in order. *)

LEMMA RisingAppend ==
    ASSUME NEW S \in SUBSET Nat, NEW s \in Seq(S), NEW n \in S,
           Rising(s), Before(ToSet(s), {n})
    PROVE  Rising(Append(s, n))
  <1> DEFINE a == Append(s, n)
             k == Len(s) + 1
  <1>1. /\ DOMAIN a = DOMAIN s \union {k} /\ a[k] = n
        /\ \A i \in DOMAIN s : a[i] = s[i]
        /\ DOMAIN s = 1..Len(s) /\ Len(s) \in Nat
    BY AppendFacts
  <1>2. (\A i \in DOMAIN s : ~(k < i)) /\ ~(k < k)
    BY <1>1
  <1> HIDE DEF a, k
  <1>3. \A i \in DOMAIN s : s[i] < n
    BY DEF Before, ToSet
  <1> SUFFICES ASSUME NEW i \in DOMAIN a, NEW j \in DOMAIN a, i < j
               PROVE  a[i] < a[j]
    BY DEF Rising, a
  <1>4. i \in DOMAIN s
    BY <1>1, <1>2
  <1>5. CASE j \in DOMAIN s
    BY <1>1, <1>4, <1>5 DEF Rising
  <1>6. CASE j = k
    BY <1>1, <1>3, <1>4, <1>6
  <1> QED
    BY <1>1, <1>5, <1>6

LEMMA RisingConcat ==
    ASSUME NEW S \in SUBSET Nat, NEW s \in Seq(S), NEW t \in Seq(S),
           Rising(s), Rising(t), Before(ToSet(s), ToSet(t))
    PROVE  Rising(s \o t)
  <1> DEFINE c == s \o t
             m == Len(s)
  <1>1. /\ \A i \in DOMAIN s : i \in DOMAIN c /\ c[i] = s[i]
        /\ \A j \in DOMAIN t : m + j \in DOMAIN c /\ c[m + j] = t[j]
        /\ \A k \in DOMAIN c : k \in DOMAIN s \/ k - m \in DOMAIN t
        /\ DOMAIN c = 1..m + Len(t)
    BY ConcatFacts
  <1>2. m \in Nat /\ Len(t) \in Nat /\ DOMAIN s = 1..m /\ DOMAIN t = 1..Len(t)
    OBVIOUS
  <1> HIDE DEF c, m
  <1>3. \A i \in DOMAIN s, j \in DOMAIN t : s[i] < t[j]
    BY DEF Before, ToSet
  <1> SUFFICES ASSUME NEW i \in DOMAIN c, NEW j \in DOMAIN c, i < j
               PROVE  c[i] < c[j]
    BY DEF Rising, c
  <1>4. i \in Nat /\ j \in Nat
    BY <1>1
  <1>5. CASE i \in DOMAIN s /\ j \in DOMAIN s
    BY <1>1, <1>5 DEF Rising
  <1>6. CASE i \in DOMAIN s /\ j \notin DOMAIN s
    <2>1. j - m \in DOMAIN t /\ m + (j - m) = j
      BY <1>1, <1>2, <1>4, <1>6
    <2> QED
      BY <1>1, <1>3, <1>6, <2>1
  <1>7. CASE i \notin DOMAIN s
    <2>1. i - m \in DOMAIN t /\ m + (i - m) = i /\ j \notin DOMAIN s
      BY <1>1, <1>2, <1>4, <1>7
    <2>2. j - m \in DOMAIN t /\ m + (j - m) = j /\ i - m < j - m
      BY <1>1, <1>2, <1>4, <2>1
    <2> QED
      BY <1>1, <2>1, <2>2 DEF Rising
  <1> QED
    BY <1>5, <1>6, <1>7

-----------------------------------------------------------------------------
(* The client sends. *)

LEMMA CallStep ==
    ASSUME IInv, NEW size \in Sizes, NEW method \in {1, 2}, Call(method, size)
    PROVE  IInv'
  <1> DEFINE n == counter + 1
  <1>1. /\ counter \in Nat /\ emitted \in Nat /\ MaxInputs \in Nat /\ inputs \in Nat
        /\ Numbers \subseteq Nat /\ uplink \in Seq(Wires)
    BY TypeFacts DEF IInv
  <1>2. /\ counter' = n /\ inputs > 0 /\ inputs' = inputs - 1
        /\ \A p \in pending : n - p < Ids
        /\ UNCHANGED <<emitted, mirror, alive, running, heard, channel, stored,
                       batch, timer, downlink, refused, failed, swallowed, unsent, dropped>>
    BY DEF Call, Spend, stateVars
  <1>3. /\ n \in Nat /\ n \in 1..n /\ n \in Numbers /\ n \in 0..MaxInputs
        /\ counter <= n /\ n + inputs' <= MaxInputs /\ inputs' \in 0..MaxInputs
        /\ emitted + inputs' <= MaxInputs /\ stored + inputs' <= MaxInputs
    <2>1. /\ counter + inputs <= MaxInputs /\ emitted + inputs <= MaxInputs
          /\ stored + inputs <= MaxInputs /\ stored \in Nat
      BY TypeFacts DEF IInv, Bounded
    <2> QED
      BY <1>1, <1>2, <2>1 DEF Numbers
  <1>4. CASE Encodes(size)
    <2>1. PICK w \in Messages(EncodeFrame(Opcode.RPC_REQ, n, size, <<n, method>>)) :
              uplink' = Append(uplink, w)
      BY <1>4 DEF Call
    <2>2. pending' = pending \union {n} /\ outcome' = outcome
      BY <1>4 DEF Call
    <2>3. /\ w \in Wires /\ Decodes(w) /\ w.frame.op = Opcode.RPC_REQ
          /\ w.frame.id = IdOf(n) /\ w.frame.body = <<n, method>>
      <3> DEFINE body == <<n, method>>
                 op == Opcode.RPC_REQ
      <3>1. op \in ValidOpcodes /\ size \in Nat /\ body \in Seq(Nat) /\ n \in Nat
        BY <1>3, SizesAreNat DEF Opcode, ValidOpcodes
      <3> HIDE DEF n, body, op
      <3>2. w \in Messages(EncodeFrame(op, n, size, body))
        BY DEF body, op
      <3>3. /\ w \in Wires /\ Decodes(w)
            /\ w.frame.op = op /\ w.frame.id = IdOf(n) /\ w.frame.body = body
        BY <1>4, <3>1, <3>2, MessageFacts
      <3> QED
        BY <3>3 DEF body, op
    <2>4. Sent(w, n, emitted)
      BY <1>3, <2>3 DEF Sent, Opcode
    <2> HIDE DEF n
    <2>5. /\ uplink' \in Seq(Wires)
          /\ \A i \in DOMAIN uplink' : Sent(uplink'[i], counter', emitted')
          /\ \A i \in DOMAIN uplink : i \in DOMAIN uplink' /\ uplink'[i] = uplink[i]
          /\ \E i \in DOMAIN uplink' : uplink'[i] = w
          /\ Loads(Opcode.EVENT_C2S, uplink)' =
                 Append(Loads(Opcode.EVENT_C2S, uplink), Load(Opcode.EVENT_C2S, w))
      BY SMTT(30), <1>1, <1>2, <1>3, <2>1, <2>3, <2>4, UplinkGrows DEF IInv
    <2>6. TypeOK'
      BY <1>2, <1>3, <2>2, <2>5 DEF IInv, TypeOK
    <2>7. Bounded'
      <3>1. pending' \subseteq 1..n
        BY <1>1, <1>3, <2>2 DEF IInv, Bounded, n
      <3> QED
        BY <1>2, <1>3, <3>1 DEF IInv, Bounded
    <2>8. LinksInv'
      <3>1. \A i \in DOMAIN downlink : Answered(downlink[i], n)
        <4> SUFFICES ASSUME NEW i \in DOMAIN downlink PROVE Answered(downlink[i], n)
          OBVIOUS
        <4>1. downlink[i] \in Wires /\ Answered(downlink[i], counter)
          BY TypeFacts DEF IInv, LinksInv
        <4> QED
          BY <1>1, <1>3, <4>1, AnsweredFacts
      <3>2. 1..counter \subseteq 1..n
        BY <1>1, <1>3
      <3> QED
        BY <1>2, <2>5, <3>1, <3>2 DEF IInv, LinksInv
    <2>9. Recent'
      <3>1. n - n < Ids
        BY <1>3, CountsArePositive
      <3> QED
        BY <1>2, <2>2, <3>1 DEF Recent
    <2>10. AnswersMatch'
      BY <2>2 DEF IInv, AnswersMatch
    <2>11. CallsInv'
      <3> SUFFICES ASSUME NEW p \in pending', p < Ids
                   PROVE  Awaited(p)'
        BY DEF CallsInv
      <3>1. CASE p = n
        <4>1. w.frame.body[1] = n
          BY <2>3
        <4> QED
          BY <2>3, <2>5, <3>1, <4>1 DEF Awaited
      <3>2. CASE p \in pending
        <4>1. Awaited(p)
          BY <3>2 DEF IInv, CallsInv
        <4> QED
          BY <1>2, <2>5, <4>1 DEF Awaited
      <3> QED
        BY <2>2, <3>1, <3>2
    <2>12. EventsExplained'
      <3>1. Load(Opcode.EVENT_C2S, w) = {}
        BY <2>3 DEF Load, Opcode
      <3>2. Loads(Opcode.EVENT_C2S, uplink) \in Seq(SUBSET Nat)
        BY <1>1, LinkLoads, LoadsType DEF IInv
      <3> DEFINE all == {k \in 1..emitted : <<"event", k>> \notin refused \union failed}
      <3>3. Accounted(ToSet(heard), Loads(Opcode.EVENT_C2S, uplink), {}, all)
        BY DEF IInv, EventsExplained
      <3> HIDE DEF all
      <3>4. Accounted(ToSet(heard), Append(Loads(Opcode.EVENT_C2S, uplink), {}), {}, all)
        BY <3>2, <3>3, AccountedPassed
      <3> QED
        BY <1>2, <2>5, <3>1, <3>4 DEF IInv, EventsExplained, all
    <2>13. MirrorLacksOnlyUnsent'
      BY <1>2 DEF IInv, MirrorLacksOnlyUnsent
    <2> QED
      BY <2>6, <2>7, <2>8, <2>9, <2>10, <2>11, <2>12, <2>13 DEF IInv
  <1>5. CASE ~Encodes(size)
    <2>1. /\ pending' = pending /\ uplink' = uplink
          /\ outcome' = [outcome EXCEPT ![n].how = "rejected"]
      BY <1>5 DEF Call
    <2> HIDE DEF n
    <2>2. TypeOK'
      BY <1>2, <1>3, <2>1 DEF IInv, TypeOK
    <2>3. Bounded'
      <3>1. pending' \subseteq 1..n
        BY <1>1, <1>3, <2>1 DEF IInv, Bounded, n
      <3> QED
        BY <1>2, <1>3, <3>1 DEF IInv, Bounded
    <2>4. LinksInv'
      <3>1. \A i \in DOMAIN downlink : Answered(downlink[i], n)
        <4> SUFFICES ASSUME NEW i \in DOMAIN downlink PROVE Answered(downlink[i], n)
          OBVIOUS
        <4>1. downlink[i] \in Wires /\ Answered(downlink[i], counter)
          BY TypeFacts DEF IInv, LinksInv
        <4> QED
          BY <1>1, <1>3, <4>1, AnsweredFacts
      <3>2. \A i \in DOMAIN uplink : Sent(uplink[i], n, emitted)
        <4> SUFFICES ASSUME NEW i \in DOMAIN uplink PROVE Sent(uplink[i], n, emitted)
          OBVIOUS
        <4>1. uplink[i] \in Wires /\ Sent(uplink[i], counter, emitted)
          BY TypeFacts DEF IInv, LinksInv
        <4> QED
          BY <1>1, <1>3, <4>1, SentFacts
      <3>3. 1..counter \subseteq 1..n
        BY <1>1, <1>3
      <3> QED
        BY <1>2, <2>1, <3>1, <3>2, <3>3 DEF IInv, LinksInv
    <2>5. Recent'
      BY <1>2, <2>1 DEF Recent
    <2>6. AnswersMatch'
      BY <1>3, <2>1 DEF IInv, AnswersMatch, TypeOK
    <2>7. CallsInv'
      BY <1>2, <2>1 DEF IInv, CallsInv, Awaited
    <2>8. EventsExplained' /\ MirrorLacksOnlyUnsent'
      BY <1>2, <2>1 DEF IInv, EventsExplained, MirrorLacksOnlyUnsent
    <2> QED
      BY <2>2, <2>3, <2>4, <2>5, <2>6, <2>7, <2>8 DEF IInv
  <1> QED
    BY <1>4, <1>5

LEMMA EmitStep ==
    ASSUME IInv, NEW size \in Sizes, NEW name \in {0, 1, MaxName + 1}, Emit(name, size)
    PROVE  IInv'
  <1> DEFINE n == emitted + 1
             loads == Loads(Opcode.EVENT_C2S, uplink)
             all == {k \in 1..emitted : <<"event", k>> \notin refused \union failed}
  <1>1. /\ counter \in Nat /\ emitted \in Nat /\ MaxInputs \in Nat /\ inputs \in Nat
        /\ Numbers \subseteq Nat /\ uplink \in Seq(Wires)
    BY TypeFacts DEF IInv
  <1>2. /\ Encodes(size) /\ emitted' = n /\ inputs > 0 /\ inputs' = inputs - 1
        /\ UNCHANGED <<counter, pending, mirror, alive, running, heard, channel,
                       stored, batch, timer, downlink, outcome, refused,
                       failed, swallowed, unsent, dropped>>
    BY DEF Emit, Spend, stateVars, historyVars
  <1>3. /\ n \in Nat /\ n \in 1..n /\ n \in Numbers /\ n \in 0..MaxInputs
        /\ emitted <= n /\ n + inputs' <= MaxInputs /\ inputs' \in 0..MaxInputs
        /\ counter + inputs' <= MaxInputs /\ stored + inputs' <= MaxInputs
    <2>1. /\ counter + inputs <= MaxInputs /\ emitted + inputs <= MaxInputs
          /\ stored + inputs <= MaxInputs /\ stored \in Nat
      BY TypeFacts DEF IInv, Bounded
    <2> QED
      BY <1>1, <1>2, <2>1 DEF Numbers
  <1>4. PICK w \in Messages(EncodeFrame(Opcode.EVENT_C2S, 0, size, <<n, name>>)) :
            uplink' = Append(uplink, w)
    BY <1>2 DEF Emit
  <1>5. /\ w \in Wires /\ Decodes(w) /\ w.frame.op = Opcode.EVENT_C2S
        /\ w.frame.body = <<n, name>>
    <2> DEFINE body == <<n, name>>
               op == Opcode.EVENT_C2S
    <2>1. op \in ValidOpcodes /\ size \in Nat /\ body \in Seq(Nat) /\ 0 \in Nat
      BY <1>3, SizesAreNat, LimitsAreNat DEF Opcode, ValidOpcodes
    <2> HIDE DEF n, body, op
    <2>2. w \in Messages(EncodeFrame(op, 0, size, body))
      BY DEF body, op
    <2>3. w \in Wires /\ Decodes(w) /\ w.frame.op = op /\ w.frame.body = body
      BY <1>2, <2>1, <2>2, MessageFacts
    <2> QED
      BY <2>3 DEF body, op
  <1>6. Sent(w, counter, n)
    BY <1>3, <1>5 DEF Sent, Opcode
  <1> HIDE DEF n, all, loads
  <1>7. /\ uplink' \in Seq(Wires)
        /\ \A i \in DOMAIN uplink' : Sent(uplink'[i], counter', emitted')
        /\ \A i \in DOMAIN uplink : i \in DOMAIN uplink' /\ uplink'[i] = uplink[i]
        /\ loads' = Append(loads, Load(Opcode.EVENT_C2S, w))
    <2>1. /\ counter' \in Nat /\ emitted' \in Nat /\ counter <= counter'
          /\ emitted <= emitted' /\ Sent(w, counter', emitted')
      BY <1>1, <1>2, <1>3, <1>6
    <2> QED
      BY <1>4, <1>5, <2>1, UplinkGrows DEF IInv, loads
  <1>8. TypeOK'
    BY <1>2, <1>3, <1>7 DEF IInv, TypeOK
  <1>9. Bounded'
    <2>1. \A k \in Numbers : <<"event", k>> \in refused \union failed => k <= n
      <3> SUFFICES ASSUME NEW k \in Numbers, <<"event", k>> \in refused \union failed
                   PROVE  k <= n
        OBVIOUS
      <3>1. k <= emitted /\ k \in Nat
        BY <1>1 DEF IInv, Bounded
      <3> QED
        BY <1>1, <1>3, <3>1
    <2> QED
      BY <1>2, <1>3, <2>1 DEF IInv, Bounded
  <1>10. LinksInv' /\ Recent' /\ AnswersMatch'
    BY <1>2, <1>7 DEF IInv, LinksInv, Recent, AnswersMatch
  <1>11. CallsInv'
    <2> SUFFICES ASSUME NEW k \in pending, k < Ids PROVE Awaited(k)'
      BY <1>2 DEF CallsInv
    <2>1. Awaited(k)
      BY DEF IInv, CallsInv
    <2> QED
      BY <1>2, <1>7, <2>1 DEF Awaited
  <1>12. EventsExplained'
    <2>1. Load(Opcode.EVENT_C2S, w) = {n}
      BY <1>5 DEF Load
    <2>2. loads \in Seq(SUBSET Nat)
      BY <1>1, LinkLoads, LoadsType DEF IInv, loads
    <2>3. Accounted(ToSet(heard), loads, {}, all)
      BY DEF IInv, EventsExplained, loads, all
    <2>4. Before(all, {n})
      BY <1>1 DEF Before, all, n
    <2>5. Accounted(ToSet(heard), loads, {} \union {n}, all \union {n})
      BY <2>3, <2>4, AccountedMade
    <2>6. Accounted(ToSet(heard), Append(loads, {n}), {}, all \union {n})
      <3>1. {} \union {n} = {n} /\ {n} \in SUBSET Nat
        BY <1>3
      <3> QED
        BY <2>2, <2>5, <3>1, AccountedSent
    <2>7. {k \in 1..n : <<"event", k>> \notin refused \union failed} = all \union {n}
      <3>1. <<"event", n>> \notin refused \union failed
        BY <1>1, <1>3 DEF IInv, Bounded, n
      <3>2. \A k : k \in 1..n <=> k \in 1..emitted \/ k = n
        BY <1>1 DEF n
      <3> QED
        BY <3>1, <3>2 DEF all
    <2>8. Accounted(ToSet(heard), loads', {}, {k \in 1..n : <<"event", k>> \notin refused \union failed})
      BY <1>7, <2>1, <2>6, <2>7
    <2> QED
      BY <1>2, <2>8 DEF IInv, EventsExplained, loads
  <1>13. MirrorLacksOnlyUnsent'
    BY <1>2 DEF IInv, MirrorLacksOnlyUnsent
  <1> QED
    BY <1>8, <1>9, <1>10, <1>11, <1>12, <1>13 DEF IInv

-----------------------------------------------------------------------------
(* The server. *)

\* An error, or an answer under the id of its call.
Answering(op, id, body) ==
    /\ op \in {Opcode.RPC_RES, Opcode.ERROR}
    /\ op = Opcode.RPC_RES => body[1] \in 1..counter /\ id = IdOf(body[1])

\* It goes out, unless it is too long.
LEMMA SendFacts ==
    ASSUME IInv, NEW op, NEW id \in Nat, NEW size \in Nat, NEW body \in Seq(Nat),
           Answering(op, id, body),
           SendToConnection(op, id, size, body),
           UNCHANGED <<mirror, batch, stored, unsent, dropped>>
    PROVE  /\ downlink' \in Seq(Wires)
           /\ \A i \in DOMAIN downlink' : Answered(downlink'[i], counter)
           /\ \A i \in DOMAIN downlink :
                  i \in DOMAIN downlink' /\ downlink'[i] = downlink[i]
           /\ Encodes(size) /\ op = Opcode.RPC_RES =>
                  \E i \in DOMAIN downlink' :
                      /\ downlink'[i].frame.op = Opcode.RPC_RES
                      /\ downlink'[i].frame.body[1] = body[1]
           /\ MirrorLacksOnlyUnsent'
  <1>1. /\ downlink \in Seq(Wires) /\ counter \in Nat
        /\ \A i \in DOMAIN downlink : Answered(downlink[i], counter)
    BY TypeFacts DEF IInv, LinksInv
  <1>2. CASE ~Encodes(size)
    <2>1. downlink' = downlink
      BY <1>2 DEF SendToConnection
    <2> QED
      BY <1>1, <1>2, <2>1 DEF IInv, MirrorLacksOnlyUnsent
  <1>3. CASE Encodes(size)
    <2>1. PICK w \in Messages(EncodeFrame(op, id, size, body)) :
              downlink' = Append(downlink, w)
      BY <1>3 DEF SendToConnection
    <2>2. op \in ValidOpcodes
      BY DEF Answering, Opcode, ValidOpcodes
    <2>3. /\ w \in Wires /\ Decodes(w) /\ w.frame.op = op
          /\ w.frame.id = IdOf(id) /\ w.frame.body = body
      BY <1>3, <2>1, <2>2, MessageFacts
    <2>4. op = Opcode.RPC_RES => w.frame.id = IdOf(body[1])
      <3> SUFFICES ASSUME op = Opcode.RPC_RES PROVE w.frame.id = IdOf(body[1])
        OBVIOUS
      <3>1. body[1] \in Nat /\ id = IdOf(body[1])
        BY <1>1 DEF Answering
      <3> QED
        BY <2>3, <3>1, IdFacts
    <2>5. op # Opcode.STATE_PATCH
      BY DEF Answering, Opcode
    <2>6. Answered(w, counter)
      BY <2>3, <2>4, <2>5 DEF Answered, Answering
    <2>7. /\ downlink' \in Seq(Wires)
          /\ \A i \in DOMAIN downlink' : Answered(downlink'[i], counter)
          /\ \A i \in DOMAIN downlink :
                 i \in DOMAIN downlink' /\ downlink'[i] = downlink[i]
          /\ \E i \in DOMAIN downlink' : downlink'[i] = w
          /\ Loads(Opcode.STATE_PATCH, downlink)' =
                 Append(Loads(Opcode.STATE_PATCH, downlink), Load(Opcode.STATE_PATCH, w))
      BY <2>1, <2>3, <2>6, DownlinkGrows DEF IInv
    <2>8. MirrorLacksOnlyUnsent'
      <3> DEFINE loads == Loads(Opcode.STATE_PATCH, downlink)
                 all == {n \in 1..stored : n \notin unsent \union dropped}
      <3>1. Load(Opcode.STATE_PATCH, w) = {}
        BY <2>3, <2>5 DEF Load
      <3>2. loads \in Seq(SUBSET Nat)
        BY <1>1, LinkLoads, LoadsType DEF IInv
      <3>3. Accounted(ToSet(mirror), loads, ToSet(PatchesOf(batch)), all)
        BY DEF IInv, MirrorLacksOnlyUnsent
      <3> HIDE DEF all, loads
      <3>4. Accounted(ToSet(mirror), Append(loads, {}), ToSet(PatchesOf(batch)), all)
        BY <3>2, <3>3, AccountedPassed
      <3>5. Accounted(ToSet(mirror), loads, ToSet(PatchesOf(batch)), all)'
        BY <2>7, <3>1, <3>4 DEF loads, all
      <3>6. \A i \in DOMAIN downlink' : downlink'[i].frame.op = Opcode.STATE_PATCH =>
                Rising(downlink'[i].frame.body)
        BY <2>7 DEF Answered
      <3> QED
        BY <3>5, <3>6 DEF IInv, MirrorLacksOnlyUnsent, loads, all
    <2> QED
      BY <2>3, <2>7, <2>8
  <1> QED
    BY <1>2, <1>3

LEMMA FinishStep ==
    ASSUME IInv, NEW r \in running, NEW size \in Sizes, Finish(r, size)
    PROVE  IInv'
  <1>1. /\ running' = running \ {r}
        /\ SendToConnection(Opcode.RPC_RES, r.id, size, <<r.call>>)
        /\ swallowed' = IF Encodes(size) THEN swallowed ELSE swallowed \union {r.call}
        /\ UNCHANGED <<counter, pending, emitted, mirror, alive, heard, channel,
                       stored, batch, timer, uplink, inputs, outcome, refused,
                       failed, unsent, dropped>>
    BY DEF Finish, AnswerId, clientVars, stateVars
  <1>2. /\ r.call \in 1..counter /\ r.id = IdOf(r.call) /\ counter \in Nat
        /\ r.call \in Numbers /\ r.id \in Nat /\ size \in Nat
    BY TypeFacts, SizesAreNat DEF IInv, LinksInv, TypeOK
  <1>3. /\ downlink' \in Seq(Wires)
        /\ \A i \in DOMAIN downlink' : Answered(downlink'[i], counter)
        /\ \A i \in DOMAIN downlink :
               i \in DOMAIN downlink' /\ downlink'[i] = downlink[i]
        /\ Encodes(size) =>
               \E i \in DOMAIN downlink' :
                   /\ downlink'[i].frame.op = Opcode.RPC_RES
                   /\ downlink'[i].frame.body[1] = r.call
        /\ MirrorLacksOnlyUnsent'
    <2> DEFINE body == <<r.call>>
               op == Opcode.RPC_RES
    <2>1. body \in Seq(Nat) /\ body[1] = r.call /\ Answering(op, r.id, body)
      BY <1>2 DEF Answering
    <2>2. SendToConnection(op, r.id, size, body)
      BY <1>1
    <2>3. op = Opcode.RPC_RES
      OBVIOUS
    <2> HIDE DEF body, op
    <2>4. UNCHANGED <<mirror, batch, stored, unsent, dropped>>
      BY <1>1
    <2>5. r.id \in Nat /\ size \in Nat
      BY <1>2
    <2>6. /\ downlink' \in Seq(Wires)
          /\ \A i \in DOMAIN downlink' : Answered(downlink'[i], counter)
          /\ \A i \in DOMAIN downlink :
                 i \in DOMAIN downlink' /\ downlink'[i] = downlink[i]
          /\ Encodes(size) /\ op = Opcode.RPC_RES =>
                 \E i \in DOMAIN downlink' :
                     /\ downlink'[i].frame.op = Opcode.RPC_RES
                     /\ downlink'[i].frame.body[1] = body[1]
          /\ MirrorLacksOnlyUnsent'
      BY <2>1, <2>2, <2>4, <2>5, SendFacts
    <2> QED
      BY <2>1, <2>3, <2>6
  <1>4. TypeOK'
    BY <1>1, <1>2, <1>3 DEF IInv, TypeOK
  <1>5. Bounded' /\ LinksInv' /\ Recent' /\ AnswersMatch'
    BY <1>1, <1>3 DEF IInv, Bounded, LinksInv, Recent, AnswersMatch
  <1>6. CallsInv'
    <2> SUFFICES ASSUME NEW n \in pending, n < Ids
                 PROVE  Awaited(n)'
      BY <1>1 DEF CallsInv
    <2>1. Awaited(n)
      BY DEF IInv, CallsInv
    <2>2. CASE n = r.call
      BY <1>1, <1>3, <2>2 DEF Awaited
    <2>3. CASE n # r.call
      BY <1>1, <1>3, <2>1, <2>3 DEF Awaited
    <2> QED
      BY <2>2, <2>3
  <1>7. EventsExplained'
    BY <1>1 DEF IInv, EventsExplained
  <1> QED
    BY <1>3, <1>4, <1>5, <1>6, <1>7 DEF IInv

\* The message at the head of the uplink.
LEMMA HeadFacts ==
    ASSUME IInv, uplink # <<>>, NEW f, f = Head(uplink).frame
    PROVE  /\ Decodes(Head(uplink)) /\ f.id \in Nat
           /\ f.op = Opcode.RPC_REQ \/ f.op = Opcode.EVENT_C2S
           /\ f.body[1] \in Numbers /\ f.body[1] \in Nat
           /\ f.op = Opcode.RPC_REQ => /\ f.body[1] \in 1..counter
                                       /\ f.id = IdOf(f.body[1])
                                       /\ Load(Opcode.EVENT_C2S, Head(uplink)) = {}
           /\ f.op = Opcode.EVENT_C2S => /\ f.body[1] \in 1..emitted
                                         /\ Load(Opcode.EVENT_C2S, Head(uplink)) = {f.body[1]}
  <1> DEFINE w == Head(uplink)
  <1>1. /\ w \in Wires /\ Sent(w, counter, emitted)
    <2>1. uplink \in Seq(Wires) /\ \A i \in DOMAIN uplink : Sent(uplink[i], counter, emitted)
      BY TypeFacts DEF IInv, LinksInv
    <2> QED
      BY <2>1, TailFacts
  <1>2. f = w.frame
    OBVIOUS
  <1> HIDE DEF w
  <1>3. f.id \in 0..(Ids - 1) /\ Ids \in Nat \ {0}
    BY <1>1, <1>2, CountsArePositive DEF Wires, Frames
  <1>4. f.id \in Nat
    BY <1>3
  <1>5. /\ f.op = Opcode.RPC_REQ \/ f.op = Opcode.EVENT_C2S
        /\ f.op = Opcode.RPC_REQ => f.body[1] \in 1..counter /\ f.id = IdOf(f.body[1])
        /\ f.op = Opcode.EVENT_C2S => f.body[1] \in 1..emitted
    BY <1>1, <1>2 DEF Sent
  <1>6. 1..counter \subseteq Numbers /\ 1..emitted \subseteq Numbers /\ Numbers \subseteq Nat
    <2>1. counter \in 0..MaxInputs /\ emitted \in 0..MaxInputs /\ MaxInputs \in Nat
      BY TypeFacts DEF IInv, TypeOK
    <2> QED
      BY <2>1 DEF Numbers
  <1>7. Opcode.RPC_REQ # Opcode.EVENT_C2S
    BY DEF Opcode
  <1> QED
    BY <1>1, <1>2, <1>4, <1>5, <1>6, <1>7 DEF Load, Sent, w

\* The limiter turns the message away, or fails.
LEMMA RefuseStep ==
    ASSUME IInv, uplink # <<>>, uplink' = Tail(uplink),
           Refuse(Head(uplink).frame) \/ LimiterFails(Head(uplink).frame),
           UNCHANGED <<clientVars, alive, stateVars, outcome, swallowed, unsent, dropped>>
    PROVE  IInv'
  <1> DEFINE w == Head(uplink)
  <1>0. PICK f : f = w.frame
    OBVIOUS
  <1>1. /\ inputs > 0 /\ inputs' = inputs - 1
        /\ \/ refused' = refused \union {What(f)} /\ UNCHANGED failed
           \/ failed' = failed \union {What(f)} /\ UNCHANGED refused
        /\ SendToConnection(Opcode.ERROR, f.id, SmallSize, <<>>) \/ UNCHANGED downlink
        /\ UNCHANGED <<running, heard, counter, pending, emitted, mirror, alive,
                       channel, stored, batch, timer, outcome, swallowed, unsent, dropped>>
    BY <1>0 DEF Refuse, LimiterFails, Spend, clientVars, stateVars
  <1>2. /\ f.id \in Nat
        /\ f.op = Opcode.RPC_REQ \/ f.op = Opcode.EVENT_C2S
        /\ f.body[1] \in Numbers /\ f.body[1] \in Nat
        /\ f.op = Opcode.RPC_REQ => Load(Opcode.EVENT_C2S, w) = {}
        /\ f.op = Opcode.EVENT_C2S => /\ f.body[1] \in 1..emitted
                                      /\ Load(Opcode.EVENT_C2S, w) = {f.body[1]}
        /\ f.op = Opcode.RPC_REQ => What(f) = <<"call", f.body[1]>>
        /\ f.op = Opcode.EVENT_C2S => What(f) = <<"event", f.body[1]>>
        /\ Opcode.RPC_REQ # Opcode.EVENT_C2S
    <2>1. Opcode.RPC_REQ # Opcode.EVENT_C2S
      BY DEF Opcode
    <2>2. /\ f.op = Opcode.RPC_REQ => What(f) = <<"call", f.body[1]>>
          /\ f.op = Opcode.EVENT_C2S => What(f) = <<"event", f.body[1]>>
      BY <2>1 DEF What
    <2> QED
      BY <1>0, <2>1, <2>2, HeadFacts
  <1>3. /\ uplink' \in Seq(Wires)
        /\ \A i \in DOMAIN uplink' : Sent(uplink'[i], counter, emitted)
        /\ \A i \in DOMAIN uplink :
               uplink[i] = w \/ \E j \in DOMAIN uplink' : uplink'[j] = uplink[i]
        /\ Loads(Opcode.EVENT_C2S, uplink) \in Seq(SUBSET Nat)
        /\ Loads(Opcode.EVENT_C2S, uplink) # <<>>
        /\ Loads(Opcode.EVENT_C2S, uplink)' = Tail(Loads(Opcode.EVENT_C2S, uplink))
        /\ Head(Loads(Opcode.EVENT_C2S, uplink)) = Load(Opcode.EVENT_C2S, w)
    BY UplinkShrinks DEF IInv
  <1> HIDE DEF w
  <1>4. /\ downlink' \in Seq(Wires)
        /\ \A i \in DOMAIN downlink' : Answered(downlink'[i], counter)
        /\ \A i \in DOMAIN downlink :
               i \in DOMAIN downlink' /\ downlink'[i] = downlink[i]
        /\ MirrorLacksOnlyUnsent'
    <2> DEFINE op == Opcode.ERROR
               body == <<>>
    <2>1. Answering(op, f.id, body) /\ body \in Seq(Nat) /\ SmallSize \in Nat
      BY DEF Answering, Opcode, SmallSize
    <2>2. SendToConnection(op, f.id, SmallSize, body) \/ UNCHANGED downlink
      BY <1>1
    <2>3. UNCHANGED <<mirror, batch, stored, unsent, dropped>>
      BY <1>1
    <2> HIDE DEF op, body
    <2>4. CASE SendToConnection(op, f.id, SmallSize, body)
      BY <1>2, <2>1, <2>3, <2>4, SendFacts
    <2>5. CASE UNCHANGED downlink
      BY <2>3, <2>5, TypeFacts DEF IInv, LinksInv, MirrorLacksOnlyUnsent
    <2> QED
      BY <2>2, <2>4, <2>5
  <1>5. /\ inputs' \in 0..MaxInputs /\ counter + inputs' <= MaxInputs
        /\ emitted + inputs' <= MaxInputs /\ stored + inputs' <= MaxInputs
    <2>1. /\ counter + inputs <= MaxInputs /\ emitted + inputs <= MaxInputs
          /\ stored + inputs <= MaxInputs /\ inputs \in 0..MaxInputs
          /\ stored \in Nat /\ counter \in Nat /\ emitted \in Nat /\ MaxInputs \in Nat
      BY TypeFacts DEF IInv, Bounded, TypeOK
    <2> QED
      BY <1>1, <2>1
  <1>6. TypeOK'
    <2>1. /\ refused' \subseteq {"call", "event"} \X Numbers
          /\ failed' \subseteq {"call", "event"} \X Numbers
      <3>1. What(f) \in {"call", "event"} \X Numbers
        BY <1>2
      <3>2. /\ refused \subseteq {"call", "event"} \X Numbers
            /\ failed \subseteq {"call", "event"} \X Numbers
        BY DEF IInv, TypeOK
      <3> QED
        BY <1>1, <3>1, <3>2
    <2> QED
      BY <1>1, <1>3, <1>4, <1>5, <2>1 DEF IInv, TypeOK
  <1>7. Bounded'
    <2>1. \A n \in Numbers : <<"event", n>> \in refused' \union failed' => n <= emitted
      <3>1. f.op = Opcode.EVENT_C2S => f.body[1] <= emitted
        BY <1>2, TypeFacts DEF IInv
      <3> QED
        BY <1>1, <1>2, <3>1 DEF IInv, Bounded
    <2> QED
      BY <1>1, <1>5, <2>1 DEF IInv, Bounded
  <1>8. LinksInv' /\ Recent' /\ AnswersMatch'
    BY <1>1, <1>3, <1>4 DEF IInv, LinksInv, Recent, AnswersMatch
  <1>9. CallsInv'
    <2> SUFFICES ASSUME NEW n \in pending, n < Ids
                 PROVE  Awaited(n)'
      BY <1>1 DEF CallsInv
    <2>1. Awaited(n)
      BY DEF IInv, CallsInv
    <2>2. CASE \E i \in DOMAIN uplink :
                   uplink[i].frame.op = Opcode.RPC_REQ /\ uplink[i].frame.body[1] = n
      <3>1. PICK i \in DOMAIN uplink :
                uplink[i].frame.op = Opcode.RPC_REQ /\ uplink[i].frame.body[1] = n
        BY <2>2
      <3>2. CASE uplink[i] = w
        <4>1. f.op = Opcode.RPC_REQ /\ f.body[1] = n
          BY <1>0, <3>1, <3>2
        <4>2. What(f) = <<"call", n>>
          BY <1>2, <4>1
        <4> QED
          BY <1>1, <4>2 DEF Awaited
      <3>3. CASE \E j \in DOMAIN uplink' : uplink'[j] = uplink[i]
        BY <3>1, <3>3 DEF Awaited
      <3> QED
        BY <1>3, <3>2, <3>3
    <2>3. CASE ~ \E i \in DOMAIN uplink :
                   uplink[i].frame.op = Opcode.RPC_REQ /\ uplink[i].frame.body[1] = n
      BY <1>1, <1>4, <2>1, <2>3 DEF Awaited
    <2> QED
      BY <2>2, <2>3
  <1>10. EventsExplained'
    <2> DEFINE loads == Loads(Opcode.EVENT_C2S, uplink)
               all == {k \in 1..emitted : <<"event", k>> \notin refused \union failed}
               load == Load(Opcode.EVENT_C2S, w)
    <2>1. Accounted(ToSet(heard), loads, {}, all)
      BY DEF IInv, EventsExplained
    <2>2. all' = all \ load
      <3>1. CASE f.op = Opcode.EVENT_C2S
        <4>1. \A k : <<"event", k>> \in refused' \union failed'
                     <=> <<"event", k>> \in refused \union failed \/ k = f.body[1]
          BY <1>1, <1>2, <3>1
        <4> QED
          BY <1>1, <1>2, <3>1, <4>1
      <3>2. CASE f.op = Opcode.RPC_REQ
        <4>1. \A k : <<"event", k>> \in refused' \union failed'
                     <=> <<"event", k>> \in refused \union failed
          BY <1>1, <1>2, <3>2
        <4> QED
          BY <1>1, <1>2, <3>2, <4>1
      <3> QED
        BY <1>2, <3>1, <3>2
    <2>3. all \in SUBSET Nat
      BY TypeFacts DEF IInv
    <2> HIDE DEF loads, all, load
    <2>4. Accounted(ToSet(heard), Tail(loads), {}, all \ load)
      BY <1>3, <2>1, <2>3, AccountedRefused DEF loads, load
    <2>5. Accounted(ToSet(heard), loads, {}, all)'
      BY <1>1, <1>3, <2>2, <2>4 DEF loads
    <2> QED
      BY <1>1, <2>5 DEF IInv, EventsExplained, loads, all
  <1> QED
    BY <1>4, <1>6, <1>7, <1>8, <1>9, <1>10 DEF IInv

LEMMA HandleRequestStep ==
    ASSUME IInv, uplink # <<>>, uplink' = Tail(uplink),
           HandleRequest(Head(uplink).frame),
           UNCHANGED <<clientVars, alive, stateVars, inputs, outcome, failed, swallowed, unsent, dropped>>
    PROVE  IInv'
  <1> DEFINE w == Head(uplink)
  <1>0. PICK f : f = w.frame
    OBVIOUS
  <1> DEFINE call == f.body[1]
             taken == f.body[2] \in Registered
  <1>1. /\ f.op = Opcode.RPC_REQ
        /\ taken => running' = running \union {[call |-> call, id |-> f.id]}
                    /\ UNCHANGED downlink
        /\ ~taken => SendToConnection(Opcode.RPC_RES, f.id, SmallSize, <<call>>)
                     /\ UNCHANGED running
        /\ UNCHANGED <<heard, counter, pending, emitted, mirror, alive, channel,
                       stored, batch, timer, inputs, outcome, refused, failed, swallowed,
                       unsent, dropped>>
    BY <1>0 DEF HandleRequest, clientVars, stateVars
  <1>2. /\ f.id \in Nat /\ f.id \in 0..(Ids - 1)
        /\ call \in Numbers /\ call \in Nat
        /\ call \in 1..counter /\ f.id = IdOf(call)
        /\ Load(Opcode.EVENT_C2S, w) = {}
    BY <1>0, <1>1, HeadFacts, IdFacts
  <1>3. /\ uplink' \in Seq(Wires)
        /\ \A i \in DOMAIN uplink' : Sent(uplink'[i], counter, emitted)
        /\ \A i \in DOMAIN uplink :
               uplink[i] = w \/ \E j \in DOMAIN uplink' : uplink'[j] = uplink[i]
        /\ Loads(Opcode.EVENT_C2S, uplink) \in Seq(SUBSET Nat)
        /\ Loads(Opcode.EVENT_C2S, uplink) # <<>>
        /\ Loads(Opcode.EVENT_C2S, uplink)' = Tail(Loads(Opcode.EVENT_C2S, uplink))
        /\ Head(Loads(Opcode.EVENT_C2S, uplink)) = Load(Opcode.EVENT_C2S, w)
    BY UplinkShrinks DEF IInv
  <1> HIDE DEF w, call, taken
  <1>4. /\ downlink' \in Seq(Wires)
        /\ \A i \in DOMAIN downlink' : Answered(downlink'[i], counter)
        /\ \A i \in DOMAIN downlink :
               i \in DOMAIN downlink' /\ downlink'[i] = downlink[i]
        /\ \/ \E i \in DOMAIN downlink' :
                  /\ downlink'[i].frame.op = Opcode.RPC_RES
                  /\ downlink'[i].frame.body[1] = call
           \/ taken
        /\ MirrorLacksOnlyUnsent'
    <2>1. CASE taken
      BY <1>1, <2>1, TypeFacts DEF IInv, LinksInv, MirrorLacksOnlyUnsent
    <2>2. CASE ~taken
      <3> DEFINE op == Opcode.RPC_RES
                 body == <<call>>
      <3>1. /\ Answering(op, f.id, body) /\ op = Opcode.RPC_RES
            /\ body \in Seq(Nat) /\ body[1] = call /\ SmallSize \in Nat
            /\ Encodes(SmallSize)
        BY <1>2, ErrorsFit DEF Answering, SmallSize, Encodes
      <3>2. SendToConnection(op, f.id, SmallSize, body)
        BY <1>1, <2>2
      <3>3. UNCHANGED <<mirror, batch, stored, unsent, dropped>>
        BY <1>1
      <3> HIDE DEF op, body
      <3> QED
        BY <1>2, <3>1, <3>2, <3>3, SendFacts
    <2> QED
      BY <2>1, <2>2
  <1>5. /\ running' \subseteq [call : Numbers, id : 0..(Ids - 1)]
        /\ running \subseteq running'
        /\ \A r \in running' : r.call \in 1..counter /\ r.id = IdOf(r.call)
        /\ taken => \E r \in running' : r.call = call
    <2>1. /\ running \subseteq [call : Numbers, id : 0..(Ids - 1)]
          /\ \A r \in running : r.call \in 1..counter /\ r.id = IdOf(r.call)
      BY DEF IInv, TypeOK, LinksInv
    <2> DEFINE new == [call |-> call, id |-> f.id]
    <2>2. /\ new \in [call : Numbers, id : 0..(Ids - 1)]
          /\ new.call = call /\ new.id = f.id
      BY <1>2
    <2>3. taken => running' = running \union {new}
      BY <1>1
    <2>4. ~taken => running' = running
      BY <1>1
    <2> HIDE DEF new
    <2> QED
      BY <1>2, <2>1, <2>2, <2>3, <2>4
  <1>6. TypeOK'
    BY <1>1, <1>3, <1>4, <1>5 DEF IInv, TypeOK
  <1>7. Bounded' /\ Recent' /\ AnswersMatch'
    BY <1>1 DEF IInv, Bounded, Recent, AnswersMatch
  <1>8. LinksInv'
    BY <1>1, <1>3, <1>4, <1>5 DEF LinksInv
  <1>9. CallsInv'
    <2> SUFFICES ASSUME NEW n \in pending, n < Ids
                 PROVE  Awaited(n)'
      BY <1>1 DEF CallsInv
    <2>1. Awaited(n)
      BY DEF IInv, CallsInv
    <2>2. CASE \E i \in DOMAIN uplink :
                   uplink[i].frame.op = Opcode.RPC_REQ /\ uplink[i].frame.body[1] = n
      <3>1. PICK i \in DOMAIN uplink :
                uplink[i].frame.op = Opcode.RPC_REQ /\ uplink[i].frame.body[1] = n
        BY <2>2
      <3>2. CASE uplink[i] = w
        <4>1. call = n
          BY <1>0, <3>1, <3>2 DEF call
        <4> QED
          BY <1>4, <1>5, <4>1 DEF Awaited
      <3>3. CASE \E j \in DOMAIN uplink' : uplink'[j] = uplink[i]
        BY <3>1, <3>3 DEF Awaited
      <3> QED
        BY <1>3, <3>2, <3>3
    <2>3. CASE ~ \E i \in DOMAIN uplink :
                   uplink[i].frame.op = Opcode.RPC_REQ /\ uplink[i].frame.body[1] = n
      BY <1>1, <1>4, <1>5, <2>1, <2>3 DEF Awaited
    <2> QED
      BY <2>2, <2>3
  <1>10. EventsExplained'
    <2> DEFINE loads == Loads(Opcode.EVENT_C2S, uplink)
               all == {k \in 1..emitted : <<"event", k>> \notin refused \union failed}
    <2>1. Accounted(ToSet(heard), loads, {}, all)
      BY DEF IInv, EventsExplained
    <2>2. all \in SUBSET Nat
      BY TypeFacts DEF IInv
    <2>3. all' = all /\ all \ {} = all
      BY <1>1
    <2> HIDE DEF loads, all
    <2>4. Accounted(ToSet(heard), Tail(loads), {}, all \ {})
      BY <1>2, <1>3, <2>1, <2>2, AccountedRefused DEF loads
    <2>5. Accounted(ToSet(heard), loads, {}, all)'
      BY <1>1, <1>3, <2>3, <2>4 DEF loads
    <2> QED
      BY <1>1, <2>5 DEF IInv, EventsExplained, loads, all
  <1> QED
    BY <1>4, <1>6, <1>7, <1>8, <1>9, <1>10 DEF IInv

LEMMA HandleEventStep ==
    ASSUME IInv, uplink # <<>>, uplink' = Tail(uplink),
           HandleEvent(Head(uplink).frame),
           UNCHANGED <<clientVars, alive, stateVars, inputs, outcome, failed, swallowed, unsent, dropped>>
    PROVE  IInv'
  <1> DEFINE w == Head(uplink)
  <1>0. PICK f : f = w.frame
    OBVIOUS
  <1> DEFINE n == f.body[1]
             valid == NameIsValid(f.body[2])
             loads == Loads(Opcode.EVENT_C2S, uplink)
             all == {k \in 1..emitted : <<"event", k>> \notin refused \union failed}
  <1>1. /\ f.op = Opcode.EVENT_C2S
        /\ valid => heard' = Append(heard, n) /\ UNCHANGED refused
        /\ ~valid => refused' = refused \union {<<"event", n>>} /\ UNCHANGED heard
        /\ UNCHANGED <<running, downlink, counter, pending, emitted, mirror, alive,
                       channel, stored, batch, timer, inputs, outcome, failed, swallowed,
                       unsent, dropped>>
    BY <1>0 DEF HandleEvent, clientVars, stateVars
  <1>2. /\ n \in Numbers /\ n \in Nat /\ n \in 1..emitted
        /\ Load(Opcode.EVENT_C2S, w) = {n}
    BY <1>0, <1>1, HeadFacts
  <1>3. /\ uplink' \in Seq(Wires)
        /\ \A i \in DOMAIN uplink' : Sent(uplink'[i], counter, emitted)
        /\ \A i \in DOMAIN uplink :
               uplink[i] = w \/ \E j \in DOMAIN uplink' : uplink'[j] = uplink[i]
        /\ loads \in Seq(SUBSET Nat) /\ loads # <<>>
        /\ loads' = Tail(loads) /\ Head(loads) = {n}
    BY <1>2, UplinkShrinks DEF IInv
  <1>4. heard \in Seq(Numbers) /\ Numbers \in SUBSET Nat /\ emitted \in Nat
    BY TypeFacts DEF IInv
  <1> HIDE DEF w, n, valid
  <1>5. heard' \in Seq(Numbers)
    <2>1. Append(heard, n) \in Seq(Numbers)
      BY <1>2, <1>4, AppendProperties
    <2>2. heard' = Append(heard, n) \/ heard' = heard
      BY <1>1
    <2> QED
      BY <1>4, <2>1, <2>2
  <1>6. /\ refused' \subseteq {"call", "event"} \X Numbers
        /\ refused \subseteq refused'
        /\ \A k \in Numbers : <<"event", k>> \in refused' \union failed => k <= emitted
    <2>1. /\ refused \subseteq {"call", "event"} \X Numbers
          /\ \A k \in Numbers : <<"event", k>> \in refused \union failed => k <= emitted
      BY DEF IInv, TypeOK, Bounded
    <2>2. n <= emitted
      BY <1>2, <1>4
    <2> QED
      BY <1>1, <1>2, <2>1, <2>2
  <1>7. TypeOK'
    BY <1>1, <1>3, <1>5, <1>6 DEF IInv, TypeOK
  <1>8. Bounded'
    BY <1>1, <1>6 DEF IInv, Bounded
  <1>9. LinksInv' /\ Recent' /\ AnswersMatch'
    BY <1>1, <1>3 DEF IInv, LinksInv, Recent, AnswersMatch
  <1>10. CallsInv'
    <2> SUFFICES ASSUME NEW k \in pending, k < Ids
                 PROVE  Awaited(k)'
      BY <1>1 DEF CallsInv
    <2>1. Awaited(k)
      BY DEF IInv, CallsInv
    <2>2. CASE \E i \in DOMAIN uplink :
                   uplink[i].frame.op = Opcode.RPC_REQ /\ uplink[i].frame.body[1] = k
      <3>1. PICK i \in DOMAIN uplink :
                uplink[i].frame.op = Opcode.RPC_REQ /\ uplink[i].frame.body[1] = k
        BY <2>2
      <3>2. uplink[i] # w
        BY <1>0, <1>1, <3>1 DEF Opcode
      <3>3. PICK j \in DOMAIN uplink' : uplink'[j] = uplink[i]
        BY <1>3, <3>2
      <3> QED
        BY <3>1, <3>3 DEF Awaited
    <2>3. CASE ~ \E i \in DOMAIN uplink :
                   uplink[i].frame.op = Opcode.RPC_REQ /\ uplink[i].frame.body[1] = k
      BY <1>1, <1>6, <2>1, <2>3 DEF Awaited
    <2> QED
      BY <2>2, <2>3
  <1>11. EventsExplained'
    <2>1. Accounted(ToSet(heard), loads, {}, all)
      BY DEF IInv, EventsExplained
    <2>2. all \in SUBSET Nat
      BY TypeFacts DEF IInv
    <2>3. CASE valid
      <3>1. all' = all
        BY <1>1, <2>3
      <3> HIDE DEF loads, all
      <3>2. /\ Accounted(ToSet(heard) \union {n}, Tail(loads), {}, all)
            /\ Before(ToSet(heard), {n})
        BY <1>3, <2>1, AccountedArrived
      <3>3. ToSet(heard') = ToSet(heard) \union {n}
        <4>1. ToSet(Append(heard, n)) = ToSet(heard) \union {n}
          BY <1>2, <1>4, AppendFacts
        <4> QED
          BY <1>1, <2>3, <4>1
      <3>4. Rising(heard')
        BY <1>1, <1>2, <1>4, <2>3, <3>2, RisingAppend DEF IInv, EventsExplained
      <3>5. Accounted(ToSet(heard'), loads', {}, all')
        BY <1>3, <3>1, <3>2, <3>3
      <3> QED
        BY <1>1, <3>4, <3>5 DEF EventsExplained, loads, all
    <2>4. CASE ~valid
      <3>1. all' = all \ {n}
        <4>1. \A k : <<"event", k>> \in refused' \union failed'
                     <=> <<"event", k>> \in refused \union failed \/ k = n
          BY <1>1, <2>4
        <4> QED
          BY <1>1, <4>1
      <3> HIDE DEF loads, all
      <3>2. Accounted(ToSet(heard), Tail(loads), {}, all \ {n})
        BY <1>3, <2>1, <2>2, AccountedRefused
      <3>3. Accounted(ToSet(heard'), loads', {}, all')
        BY <1>1, <1>3, <2>4, <3>1, <3>2
      <3> QED
        BY <1>1, <2>4, <3>3 DEF IInv, EventsExplained, loads, all
    <2> QED
      BY <2>3, <2>4
  <1>12. MirrorLacksOnlyUnsent'
    BY <1>1 DEF IInv, MirrorLacksOnlyUnsent
  <1> QED
    BY <1>7, <1>8, <1>9, <1>10, <1>11, <1>12 DEF IInv

LEMMA ArriveStep ==
    ASSUME IInv, Arrive
    PROVE  IInv'
  <1>1. /\ uplink # <<>> /\ uplink' = Tail(uplink)
        /\ UNCHANGED <<clientVars, alive, stateVars, outcome, swallowed, unsent, dropped>>
    BY DEF Arrive
  <1>2. Decodes(Head(uplink))
    BY <1>1, HeadFacts
  <1>3. CASE Refuse(Head(uplink).frame) \/ LimiterFails(Head(uplink).frame)
    BY <1>1, <1>3, RefuseStep
  <1>4. CASE HandleRequest(Head(uplink).frame) /\ UNCHANGED <<inputs, failed>>
    BY <1>1, <1>4, HandleRequestStep
  <1>5. CASE HandleEvent(Head(uplink).frame) /\ UNCHANGED <<inputs, failed>>
    BY <1>1, <1>5, HandleEventStep
  <1> QED
    BY <1>2, <1>3, <1>4, <1>5 DEF Arrive

-----------------------------------------------------------------------------
(* Patches. *)

LEMMA PatchesFacts ==
    ASSUME NEW b \in Seq([patch : Numbers, size : Sizes])
    PROVE  /\ PatchesOf(b) \in Seq(Numbers) /\ Len(PatchesOf(b)) = Len(b)
           /\ \A p \in [patch : Numbers, size : Sizes] :
                  PatchesOf(Append(b, p)) = Append(PatchesOf(b), p.patch)
  <1> DEFINE Patches == [patch : Numbers, size : Sizes]
             n == Len(b)
  <1>1. n \in Nat /\ DOMAIN b = 1..n /\ \A i \in 1..n : b[i] \in Patches
    <2>1. b \in Seq(Patches)
      OBVIOUS
    <2> HIDE DEF Patches
    <2> QED
      BY <2>1
  <1>2. PatchesOf(b) \in Seq(Numbers) /\ Len(PatchesOf(b)) = n
        /\ \A i \in 1..n : PatchesOf(b)[i] = b[i].patch
    <2>1. PatchesOf(b) = [i \in 1..n |-> b[i].patch]
      BY <1>1 DEF PatchesOf
    <2>2. \A i \in 1..n : b[i].patch \in Numbers
      BY <1>1
    <2> HIDE DEF n
    <2> QED
      BY <1>1, <2>1, <2>2
  <1>3. ASSUME NEW p \in Patches
        PROVE  PatchesOf(Append(b, p)) = Append(PatchesOf(b), p.patch)
    <2> DEFINE a == Append(b, p)
               s == PatchesOf(b)
               t == Append(s, p.patch)
    <2>1. /\ a \in Seq(Patches) /\ DOMAIN a = 1..n+1 /\ a[n+1] = p
          /\ \A i \in 1..n : a[i] = b[i]
      BY <1>1, AppendProperties
    <2>2. p.patch \in Numbers
      OBVIOUS
    <2>3. t \in Seq(Numbers) /\ Len(t) = n + 1 /\ t[n+1] = p.patch
          /\ \A i \in 1..n : t[i] = s[i]
      BY <1>2, <2>2, AppendProperties
    <2> HIDE DEF a, n, s, t, Patches
    <2>4. PatchesOf(a) = [i \in 1..n+1 |-> a[i].patch]
      BY <2>1 DEF PatchesOf
    <2>5. \A i \in 1..n+1 : a[i].patch = t[i]
      <3> SUFFICES ASSUME NEW i \in 1..n+1 PROVE a[i].patch = t[i]
        OBVIOUS
      <3>1. CASE i = n + 1
        BY <2>1, <2>3, <3>1
      <3>2. CASE i # n + 1
        <4>1. i \in 1..n
          BY <1>1, <3>2
        <4> QED
          BY <1>2, <2>1, <2>3, <4>1 DEF s
      <3> QED
        BY <3>1, <3>2
    <2>6. t = [i \in 1..n+1 |-> t[i]]
      BY <1>1, <2>3
    <2>7. PatchesOf(a) = t
      BY <2>4, <2>5, <2>6
    <2> QED
      BY <2>7 DEF a, t, s
  <1> QED
    BY <1>2, <1>3

LEMMA NoPatches == PatchesOf(<<>>) = <<>> /\ ToSet(PatchesOf(<<>>)) = {}
                   /\ Rising(PatchesOf(<<>>))
  <1>1. \A i : i \notin DOMAIN <<>>
    OBVIOUS
  <1>2. PatchesOf(<<>>) = <<>>
    BY <1>1 DEF PatchesOf
  <1> QED
    BY <1>1, <1>2 DEF ToSet, Rising

\* The patches in b go out, or are too long.
LEMMA BroadcastFacts ==
    ASSUME IInv, NEW b \in Seq([patch : Numbers, size : Sizes]), NEW m \in Nat,
           stored <= m, Rising(PatchesOf(b)),
           Accounted(ToSet(mirror), Loads(Opcode.STATE_PATCH, downlink),
                     ToSet(PatchesOf(b)), {k \in 1..m : k \notin unsent \union dropped}),
           BroadcastStatePatch(b), b # <<>>,
           mirror' = mirror, stored' = m, batch' = <<>>, dropped' = dropped
    PROVE  /\ downlink' \in Seq(Wires)
           /\ \A i \in DOMAIN downlink' : Answered(downlink'[i], counter)
           /\ \A i \in DOMAIN downlink :
                  i \in DOMAIN downlink' /\ downlink'[i] = downlink[i]
           /\ unsent' \subseteq Numbers /\ unsent' \subseteq 1..m
           /\ MirrorLacksOnlyUnsent'
  <1> DEFINE loads == Loads(Opcode.STATE_PATCH, downlink)
             body == PatchesOf(b)
             all == {k \in 1..m : k \notin unsent \union dropped}
             op == Opcode.STATE_PATCH
             size == SizeOf(b)
  <1>1. /\ downlink \in Seq(Wires) /\ counter \in Nat /\ stored \in Nat
        /\ \A i \in DOMAIN downlink : Answered(downlink[i], counter)
        /\ mirror \in Seq(Numbers) /\ Numbers \subseteq Nat
        /\ unsent \subseteq Numbers /\ unsent \subseteq 1..stored
    BY TypeFacts DEF IInv, LinksInv, TypeOK, Bounded
  <1>2. body \in Seq(Numbers) /\ size \in Nat /\ body # <<>>
    <2>1. body \in Seq(Numbers) /\ Len(body) = Len(b)
      BY PatchesFacts
    <2>2. Len(b) # 0
      BY EmptySeq
    <2>3. Len(<<>>) = 0
      BY EmptySeq
    <2> QED
      BY <2>1, <2>2, <2>3, SizeOfIsNat
  <1>3. ToSet(body) \in SUBSET Nat /\ ToSet(body) \subseteq Numbers
        /\ ToSet(mirror) \in SUBSET Nat /\ body \in Seq(Nat)
    <2>1. \A s \in Seq(Numbers) : ToSet(s) \subseteq Numbers
      BY DEF ToSet
    <2>2. ToSet(body) \subseteq Numbers /\ ToSet(mirror) \subseteq Numbers
      BY <1>1, <1>2, <2>1
    <2>3. body \in Seq(Nat)
      <3> HIDE DEF body
      <3>1. Len(body) \in Nat /\ body = [i \in 1..Len(body) |-> body[i]]
            /\ \A i \in 1..Len(body) : body[i] \in Nat
        BY <1>1, <1>2
      <3> QED
        BY <3>1, IsASeq
    <2> QED
      BY <1>1, <2>2, <2>3
  <1>4. loads \in Seq(SUBSET Nat)
    BY <1>1, LinkLoads, LoadsType DEF IInv
  <1>5. Accounted(ToSet(mirror), loads, ToSet(body), all)
    OBVIOUS
  <1>6. 1..stored \subseteq 1..m
    BY <1>1
  <1> HIDE DEF loads, body, all, op, size
  <1>7. CASE Encodes(size)
    <2>1. PICK w \in Messages(EncodeFrame(op, 0, size, body)) : downlink' = Append(downlink, w)
      BY <1>7 DEF BroadcastStatePatch, op, size, body
    <2>2. unsent' = unsent
      BY <1>7 DEF BroadcastStatePatch, size
    <2>3. w \in Wires /\ Decodes(w) /\ w.frame.op = op /\ w.frame.body = body
      <3>1. op \in ValidOpcodes /\ 0 \in Nat
        BY DEF op, Opcode, ValidOpcodes
      <3> QED
        BY <1>2, <1>3, <1>7, <2>1, <3>1, MessageFacts
    <2>4. Answered(w, counter)
      BY <1>2, <2>3 DEF Answered, op, Opcode, body
    <2>5. /\ downlink' \in Seq(Wires)
          /\ \A i \in DOMAIN downlink' : Answered(downlink'[i], counter)
          /\ \A i \in DOMAIN downlink :
                 i \in DOMAIN downlink' /\ downlink'[i] = downlink[i]
          /\ loads' = Append(loads, Load(Opcode.STATE_PATCH, w))
      BY <2>1, <2>3, <2>4, DownlinkGrows DEF IInv, loads
    <2>6. Load(Opcode.STATE_PATCH, w) = ToSet(body)
      BY <2>3 DEF Load, op, Opcode
    <2>7. Accounted(ToSet(mirror), Append(loads, ToSet(body)), {}, all)
      BY <1>3, <1>4, <1>5, AccountedSent
    <2>8. Accounted(ToSet(mirror'), loads', ToSet(PatchesOf(batch')), all)
      BY <2>5, <2>6, <2>7, NoPatches
    <2>9. {k \in 1..stored' : k \notin unsent' \union dropped'} = all
      BY <2>2 DEF all
    <2>10. \A i \in DOMAIN downlink' : downlink'[i].frame.op = Opcode.STATE_PATCH =>
                Rising(downlink'[i].frame.body)
      BY <2>5 DEF Answered
    <2>11. MirrorLacksOnlyUnsent'
      <3>1. Accounted(ToSet(mirror'), loads', ToSet(PatchesOf(batch')),
                      {k \in 1..stored' : k \notin unsent' \union dropped'})
        BY <2>8, <2>9
      <3>2. Rising(mirror') /\ \A d \in dropped' : \E u \in unsent' : u < d
        BY <2>2 DEF IInv, MirrorLacksOnlyUnsent
      <3> QED
        BY <2>10, <3>1, <3>2, NoPatches DEF MirrorLacksOnlyUnsent, loads
    <2> QED
      BY <1>1, <1>6, <2>2, <2>5, <2>11
  <1>8. CASE ~Encodes(size)
    <2>1. downlink' = downlink /\ unsent' = unsent \union ToSet(body)
      BY <1>8 DEF BroadcastStatePatch, size, body
    <2>2. Accounted(ToSet(mirror), loads, {}, all \ ToSet(body))
      BY <1>3, <1>4, <1>5, AccountedLost
    <2>3. {k \in 1..stored' : k \notin unsent' \union dropped'} = all \ ToSet(body)
      BY <2>1 DEF all
    <2>4. loads' = loads
      BY <2>1 DEF loads
    <2>5. Accounted(ToSet(mirror'), loads', ToSet(PatchesOf(batch')),
                    {k \in 1..stored' : k \notin unsent' \union dropped'})
      BY <2>2, <2>3, <2>4, NoPatches
    <2>6. MirrorLacksOnlyUnsent'
      BY <2>1, <2>5, NoPatches DEF IInv, MirrorLacksOnlyUnsent, loads
    <2>7. ToSet(body) \subseteq 1..m
      BY <1>5 DEF Accounted, all
    <2> QED
      BY <1>1, <1>3, <1>6, <2>1, <2>6, <2>7
  <1> QED
    BY <1>7, <1>8

LEMMA SetStateStep ==
    ASSUME IInv, NEW size \in Sizes, SetState(size)
    PROVE  IInv'
  <1> DEFINE n == stored + 1
             p == [patch |-> n, size |-> size]
             b == Append(batch, p)
             loads == Loads(Opcode.STATE_PATCH, downlink)
             all == {k \in 1..n : k \notin unsent \union dropped}
  <1>1. /\ counter \in Nat /\ emitted \in Nat /\ MaxInputs \in Nat /\ inputs \in 0..MaxInputs
        /\ stored \in Nat /\ Numbers \in SUBSET Nat
        /\ batch \in Seq([patch : Numbers, size : Sizes])
        /\ counter + inputs <= MaxInputs /\ emitted + inputs <= MaxInputs
        /\ stored + inputs <= MaxInputs
        /\ unsent \subseteq Numbers /\ unsent \subseteq 1..stored
        /\ dropped \subseteq 1..stored
        /\ downlink \in Seq(Wires)
        /\ \A i \in DOMAIN downlink : Answered(downlink[i], counter)
    BY TypeFacts DEF IInv, Bounded, TypeOK, LinksInv
  <1>2. /\ inputs > 0 /\ inputs' = inputs - 1 /\ stored' = n
        /\ UNCHANGED <<counter, pending, emitted, mirror, alive, running, heard,
                       channel, uplink, outcome, refused, failed, swallowed, dropped>>
    BY DEF SetState, Spend, clientVars
  <1>3. /\ n \in Nat /\ n \in Numbers /\ n \in 0..MaxInputs /\ stored <= n
        /\ inputs' \in 0..MaxInputs /\ counter + inputs' <= MaxInputs
        /\ emitted + inputs' <= MaxInputs /\ n + inputs' <= MaxInputs
        /\ 1..stored \subseteq 1..n /\ n \in 1..n
    BY <1>1, <1>2 DEF Numbers
  <1>4. /\ p \in [patch : Numbers, size : Sizes] /\ p.patch = n
    BY <1>3
  <1>5. /\ PatchesOf(b) = Append(PatchesOf(batch), n)
        /\ PatchesOf(batch) \in Seq(Numbers)
        /\ b \in Seq([patch : Numbers, size : Sizes]) /\ b # <<>>
    <2> HIDE DEF n, p
    <2>1. \A q \in [patch : Numbers, size : Sizes] :
              PatchesOf(Append(batch, q)) = Append(PatchesOf(batch), q.patch)
      BY <1>1, PatchesFacts
    <2>2. PatchesOf(b) = Append(PatchesOf(batch), p.patch)
      BY <1>4, <2>1
    <2>3. b \in Seq([patch : Numbers, size : Sizes]) /\ b # <<>>
      BY <1>1, <1>4, AppendProperties
    <2> QED
      BY <1>1, <1>4, <2>2, <2>3, PatchesFacts
  <1>6. /\ ToSet(PatchesOf(b)) = ToSet(PatchesOf(batch)) \union {n}
        /\ Rising(PatchesOf(b))
        /\ Accounted(ToSet(mirror), loads, ToSet(PatchesOf(b)), all)
    <2> DEFINE old == {k \in 1..stored : k \notin unsent \union dropped}
    <2>1. Before(old, {n})
      BY <1>1 DEF Before
    <2>2. Accounted(ToSet(mirror), loads, ToSet(PatchesOf(batch)), old)
      BY DEF IInv, MirrorLacksOnlyUnsent
    <2>3. old \union {n} = all
      <3>1. n \notin unsent \union dropped
        BY <1>1, <1>3
      <3>2. \A k : k \in 1..n <=> k \in 1..stored \/ k = n
        BY <1>1
      <3> QED
        BY <3>1, <3>2
    <2> HIDE DEF n, p, b, loads, old, all
    <2>4. ToSet(PatchesOf(b)) = ToSet(PatchesOf(batch)) \union {n}
      BY <1>3, <1>5, AppendFacts
    <2>5. Before(ToSet(PatchesOf(batch)), {n})
      BY <2>1, <2>2 DEF Accounted, Before
    <2>6. Rising(PatchesOf(b))
      BY <1>1, <1>3, <1>5, <2>5, RisingAppend DEF IInv, MirrorLacksOnlyUnsent
    <2>7. Accounted(ToSet(mirror), loads, ToSet(PatchesOf(batch)) \union {n}, old \union {n})
      BY <2>1, <2>2, AccountedMade
    <2> QED
      BY <2>3, <2>4, <2>6, <2>7
  <1> HIDE DEF p, b, loads
  <1>7. CASE (channel = "none" /\ BroadcastStatePatch(<<p>>) /\ batch' = batch /\ timer' = timer)
             \/ (channel = "batched" /\ batch' = LeftByFlush(b)
                 /\ BroadcastStatePatch(b) /\ timer' = timer)
    <2>1. BroadcastStatePatch(b) /\ batch' = <<>> /\ timer' = timer
      <3>1. CASE channel = "none"
        <4>1. batch = <<>>
          BY <3>1 DEF IInv, Bounded
        <4>2. b = <<p>>
          BY <4>1 DEF b
        <4> QED
          BY <1>7, <3>1, <4>1, <4>2
      <3>2. CASE channel # "none"
        BY <1>7, <3>2 DEF LeftByFlush
      <3> QED
        BY <3>1, <3>2
    <2>2. /\ downlink' \in Seq(Wires)
          /\ \A i \in DOMAIN downlink' : Answered(downlink'[i], counter)
          /\ \A i \in DOMAIN downlink :
                 i \in DOMAIN downlink' /\ downlink'[i] = downlink[i]
          /\ unsent' \subseteq Numbers /\ unsent' \subseteq 1..n
          /\ MirrorLacksOnlyUnsent'
      BY <1>2, <1>3, <1>5, <1>6, <2>1, BroadcastFacts DEF loads
    <2>3. batch' \in Seq([patch : Numbers, size : Sizes]) /\ Len(batch') < MaxBatch
      BY <2>1, CountsArePositive, EmptySeq
    <2>4. TypeOK'
      BY <1>2, <1>3, <2>1, <2>2, <2>3 DEF IInv, TypeOK
    <2>5. Bounded'
      BY <1>2, <1>3, <2>1, <2>2, NoPatches DEF IInv, Bounded
    <2>6. LinksInv' /\ Recent' /\ AnswersMatch'
      BY <1>2, <2>2 DEF IInv, LinksInv, Recent, AnswersMatch
    <2>7. CallsInv'
      BY <1>2, <2>2 DEF IInv, CallsInv, Awaited
    <2>8. EventsExplained'
      BY <1>2 DEF IInv, EventsExplained
    <2> QED
      BY <2>2, <2>4, <2>5, <2>6, <2>7, <2>8 DEF IInv
  <1>8. CASE /\ channel = "batched" /\ Len(b) < MaxBatch
             /\ batch' = b /\ timer' = TRUE
             /\ UNCHANGED <<downlink, unsent>>
    <2> HIDE DEF n
    <2>1. MirrorLacksOnlyUnsent'
      BY <1>2, <1>8, <1>6 DEF IInv, MirrorLacksOnlyUnsent, loads
    <2>2. \A k \in ToSet(PatchesOf(b)) : k <= n
      <3> SUFFICES ASSUME NEW k \in ToSet(PatchesOf(b)) PROVE k <= n
        OBVIOUS
      <3>1. k \in all
        BY <1>6 DEF Accounted
      <3> QED
        BY <1>3, <3>1
    <2>3. TypeOK'
      BY <1>2, <1>3, <1>8, <1>5 DEF IInv, TypeOK
    <2>4. Bounded'
      BY <1>1, <1>2, <1>3, <1>8, <2>2 DEF IInv, Bounded
    <2>5. LinksInv' /\ Recent' /\ AnswersMatch'
      BY <1>2, <1>8 DEF IInv, LinksInv, Recent, AnswersMatch
    <2>6. CallsInv'
      BY <1>2, <1>8 DEF IInv, CallsInv, Awaited
    <2>7. EventsExplained'
      BY <1>2 DEF IInv, EventsExplained
    <2> QED
      BY <2>1, <2>3, <2>4, <2>5, <2>6, <2>7 DEF IInv
  <1> QED
    BY <1>7, <1>8 DEF SetState, n, p, b

LEMMA FlushTimerStep ==
    ASSUME IInv, FlushTimer
    PROVE  IInv'
  <1>1. /\ timer' = FALSE /\ batch' = <<>>
        /\ batch = <<>> => UNCHANGED <<downlink, unsent>>
        /\ batch # <<>> => BroadcastStatePatch(batch)
        /\ alive' = Encodes(SizeOf(batch))
        /\ UNCHANGED <<counter, pending, emitted, mirror, running, heard, channel,
                       stored, uplink, inputs, outcome, refused, failed, swallowed, dropped>>
    BY DEF FlushTimer, LeftByFlush, clientVars
  <1>2. /\ stored \in Nat /\ batch \in Seq([patch : Numbers, size : Sizes])
        /\ downlink \in Seq(Wires)
        /\ \A i \in DOMAIN downlink : Answered(downlink[i], counter)
        /\ unsent \subseteq Numbers /\ unsent \subseteq 1..stored
    BY TypeFacts DEF IInv, Bounded, TypeOK, LinksInv
  <1>3. /\ downlink' \in Seq(Wires)
        /\ \A i \in DOMAIN downlink' : Answered(downlink'[i], counter)
        /\ \A i \in DOMAIN downlink :
               i \in DOMAIN downlink' /\ downlink'[i] = downlink[i]
        /\ unsent' \subseteq Numbers /\ unsent' \subseteq 1..stored
        /\ MirrorLacksOnlyUnsent'
    <2>1. CASE batch = <<>>
      BY <1>1, <1>2, <2>1 DEF IInv, MirrorLacksOnlyUnsent
    <2>2. CASE batch # <<>>
      <3>1. /\ Accounted(ToSet(mirror), Loads(Opcode.STATE_PATCH, downlink),
                         ToSet(PatchesOf(batch)), {k \in 1..stored : k \notin unsent \union dropped})
            /\ Rising(PatchesOf(batch)) /\ stored <= stored
        BY <1>2 DEF IInv, MirrorLacksOnlyUnsent
      <3> QED
        BY <1>1, <1>2, <2>2, <3>1, BroadcastFacts
    <2> QED
      BY <2>1, <2>2
  <1>4. batch' \in Seq([patch : Numbers, size : Sizes]) /\ Len(batch') < MaxBatch
    BY <1>1, CountsArePositive, EmptySeq
  <1>5. alive' \in BOOLEAN
    BY <1>1 DEF Encodes
  <1>6. TypeOK'
    BY <1>1, <1>3, <1>4, <1>5 DEF IInv, TypeOK
  <1>7. Bounded'
    BY <1>1, <1>3, NoPatches DEF IInv, Bounded
  <1>8. LinksInv' /\ Recent' /\ AnswersMatch'
    BY <1>1, <1>3 DEF IInv, LinksInv, Recent, AnswersMatch
  <1>9. CallsInv'
    BY <1>1, <1>3 DEF IInv, CallsInv, Awaited
  <1>10. EventsExplained'
    BY <1>1 DEF IInv, EventsExplained
  <1> QED
    BY <1>3, <1>6, <1>7, <1>8, <1>9, <1>10 DEF IInv

-----------------------------------------------------------------------------
(* The client receives. *)

\* The first of rising numbers is the least.
LEMMA RisingFirst ==
    ASSUME NEW s \in Seq(Numbers), s # <<>>, Rising(s)
    PROVE  /\ s[1] \in ToSet(s)
           /\ \A d \in ToSet(s) : d \in Nat /\ s[1] <= d
  <1>1. Numbers \subseteq Nat
    BY LimitsAreNat DEF Numbers
  <1>2. 1 \in DOMAIN s /\ DOMAIN s \subseteq Nat
    BY EmptySeq
  <1>3. s[1] \in ToSet(s)
    BY <1>2 DEF ToSet
  <1>4. \A i \in DOMAIN s : i # 1 => 1 < i
    OBVIOUS
  <1>5. \A i \in DOMAIN s : i # 1 => s[1] < s[i]
    BY <1>2, <1>4 DEF Rising
  <1>6. \A d \in ToSet(s) : d \in Nat
    <2>1. \A i \in DOMAIN s : s[i] \in Numbers
      OBVIOUS
    <2> QED
      BY <1>1, <2>1 DEF ToSet
  <1> DEFINE first == s[1]
  <1> HIDE DEF first
  <1>7. \A d \in ToSet(s) : d = first \/ first < d
    BY <1>5 DEF ToSet, first
  <1>8. first \in ToSet(s)
    BY <1>3 DEF first
  <1>9. \A d \in ToSet(s) : first <= d
    BY <1>6, <1>7, <1>8
  <1> QED
    BY <1>3, <1>6, <1>9 DEF first

\* What did not arrive before something that did is not accounted for.
LEMMA LackedBefore ==
    ASSUME NEW A, NEW L, NEW W, NEW all, Accounted(A, L, W, all),
           NEW first \in Nat, first \in A, NEW j \in Nat, j < first, j \notin A
    PROVE  j \notin all
  <1> SUFFICES ASSUME j \in all PROVE FALSE
    OBVIOUS
  <1>1. /\ A \union Under(L) \union W = all
        /\ Before(A, W)
        /\ \A i \in DOMAIN L : Before(A, L[i])
    BY DEF Accounted
  <1>2. ~(first < j)
    OBVIOUS
  <1>3. j \notin W
    BY <1>1, <1>2 DEF Before
  <1>4. j \notin Under(L)
    BY <1>1, <1>2, InUnder DEF Before
  <1> QED
    BY <1>1, <1>3, <1>4

LEMMA ReceiveStep ==
    ASSUME IInv, Receive
    PROVE  IInv'
  <1> DEFINE w == Head(downlink)
             loads == Loads(Opcode.STATE_PATCH, downlink)
             all == {k \in 1..stored : k \notin unsent \union dropped}
  <1>0. PICK f : f = w.frame
    OBVIOUS
  <1>1. /\ downlink # <<>> /\ downlink' = Tail(downlink)
        /\ UNCHANGED <<counter, emitted, alive, running, heard, channel, stored,
                       batch, timer, uplink, inputs, refused, failed, swallowed, unsent>>
    BY DEF Receive, stateVars
  <1>2. /\ downlink' \in Seq(Wires)
        /\ \A i \in DOMAIN downlink' : Answered(downlink'[i], counter)
        /\ w \in Wires /\ Answered(w, counter)
        /\ \A i \in DOMAIN downlink :
               downlink[i] = w \/ \E j \in DOMAIN downlink' : downlink'[j] = downlink[i]
        /\ loads \in Seq(SUBSET Nat) /\ loads # <<>>
        /\ loads' = Tail(loads) /\ Head(loads) = Load(Opcode.STATE_PATCH, w)
    BY <1>1, DownlinkShrinks DEF IInv
  <1>3. HandleResponse(f) \/ HandlePatches(f) \/ HandleError(f)
    BY <1>0, <1>2 DEF Receive, Answered
  <1>4. /\ counter \in Nat /\ counter \in 0..MaxInputs /\ MaxInputs \in Nat
        /\ pending \subseteq Numbers /\ pending \subseteq 1..counter
        /\ mirror \in Seq(Numbers) /\ Numbers \in SUBSET Nat
        /\ outcome \in [Numbers -> [how : {"none", "answer", "timeout", "rejected"},
                                    of : 0..MaxInputs]]
        /\ unsent \subseteq Numbers /\ dropped \subseteq Numbers
        /\ dropped \subseteq 1..stored /\ stored \in 0..MaxInputs
    BY TypeFacts DEF IInv, TypeOK, Bounded
  <1>5. /\ Accounted(ToSet(mirror), loads, ToSet(PatchesOf(batch)), all)
        /\ Rising(mirror) /\ Rising(PatchesOf(batch))
        /\ \A d \in dropped : \E u \in unsent : u < d
    BY DEF IInv, MirrorLacksOnlyUnsent
  <1>6. \A i \in DOMAIN downlink' : downlink'[i].frame.op = Opcode.STATE_PATCH =>
            Rising(downlink'[i].frame.body)
    BY <1>2 DEF Answered
  <1>7. (dropped' = dropped => all' = all) /\ PatchesOf(batch)' = PatchesOf(batch)
    BY <1>1
  <1> HIDE DEF w, loads, all
  <1>8. LinksInv' /\ EventsExplained'
    BY <1>1, <1>2 DEF IInv, LinksInv, EventsExplained
  <1>9. /\ Accounted(ToSet(mirror) \union Load(Opcode.STATE_PATCH, w), Tail(loads),
                     ToSet(PatchesOf(batch)), all)
        /\ Before(ToSet(mirror), Load(Opcode.STATE_PATCH, w))
    BY <1>2, <1>5, AccountedArrived
  <1>10. CASE f.op # Opcode.STATE_PATCH /\ UNCHANGED <<mirror, dropped>>
    <2>1. Load(Opcode.STATE_PATCH, w) = {} /\ ToSet(mirror) \union {} = ToSet(mirror)
      BY <1>0, <1>10 DEF Load
    <2>2. Accounted(ToSet(mirror'), loads', ToSet(PatchesOf(batch)'), all')
      BY <1>2, <1>7, <1>9, <1>10, <2>1
    <2>3. MirrorLacksOnlyUnsent'
      BY <1>1, <1>5, <1>6, <1>7, <1>10, <2>2 DEF MirrorLacksOnlyUnsent, loads, all
    <2>4. CASE f.op = Opcode.RPC_RES /\ f.id \in pending
      <3> DEFINE m == f.body[1]
                 i == f.id
      <3>1. /\ pending' = pending \ {i}
            /\ outcome' = [outcome EXCEPT ![i] = [how |-> "answer", of |-> m]]
        BY <1>3, <2>4 DEF HandleResponse, HandlePatches, HandleError, Opcode
      <3>2. m \in 1..counter /\ i = IdOf(m)
        BY <1>0, <1>2, <2>4 DEF Answered
      <3>3. m \in Nat /\ i \in Nat /\ m <= counter /\ counter - i < Ids
            /\ Ids \in Nat /\ m \in 0..MaxInputs /\ i \in Numbers /\ i \in 1..counter
        <4>1. counter - i < Ids /\ Ids \in Nat
          BY <2>4, CountsArePositive DEF IInv, Recent
        <4>2. i \in Numbers /\ i \in 1..counter /\ i \in Nat
          BY <1>4, <2>4
        <4> HIDE DEF m, i
        <4> QED
          BY <1>4, <3>2, <4>1, <4>2
      <3> HIDE DEF m, i
      <3>4. i = m
        <4>1. IdOf(m) <= m /\ (IdOf(m) < m => m - IdOf(m) >= Ids)
          BY <3>3, IdFacts
        <4>2. i <= m /\ (i < m => m - i >= Ids)
          BY <3>2, <4>1
        <4> QED
          BY <1>4, <3>3, <4>2
      <3>5. TypeOK'
        <4>1. [how |-> "answer", of |-> m] \in
                  [how : {"none", "answer", "timeout", "rejected"}, of : 0..MaxInputs]
          BY <3>3
        <4>2. outcome' \in [Numbers -> [how : {"none", "answer", "timeout", "rejected"},
                                        of : 0..MaxInputs]]
          BY <1>4, <3>1, <4>1
        <4> QED
          BY <1>1, <1>2, <1>10, <3>1, <4>2 DEF IInv, TypeOK
      <3>6. Bounded' /\ Recent'
        <4>1. dropped' = dropped
          BY <1>10
        <4>2. Bounded'
          BY <1>1, <3>1, <4>1 DEF IInv, Bounded
        <4>3. Recent'
          BY <1>1, <3>1 DEF IInv, Recent
        <4> QED
          BY <4>2, <4>3
      <3>7. AnswersMatch'
        <4> SUFFICES ASSUME NEW k \in Numbers, outcome'[k].how = "answer"
                     PROVE  outcome'[k].of = k
          BY DEF AnswersMatch
        <4>1. CASE k = i
          <5>1. outcome'[k] = [how |-> "answer", of |-> m]
            BY <1>4, <3>1, <3>3, <4>1
          <5> QED
            BY <3>4, <4>1, <5>1
        <4>2. CASE k # i
          <5>1. outcome'[k] = outcome[k]
            BY <1>4, <3>1, <4>2
          <5> QED
            BY <5>1 DEF IInv, AnswersMatch
        <4> QED
          BY <4>1, <4>2
      <3>8. CallsInv'
        <4> SUFFICES ASSUME NEW k \in pending', k < Ids PROVE Awaited(k)'
          BY DEF CallsInv
        <4>1. k \in pending /\ k # i
          BY <3>1
        <4>2. Awaited(k)
          BY <4>1 DEF IInv, CallsInv
        <4>3. CASE \E j \in DOMAIN downlink : downlink[j].frame.op = Opcode.RPC_RES
                                              /\ downlink[j].frame.body[1] = k
          <5>1. PICK j \in DOMAIN downlink : downlink[j].frame.op = Opcode.RPC_RES
                                             /\ downlink[j].frame.body[1] = k
            BY <4>3
          <5>2. downlink[j] # w
            BY <1>0, <3>4, <4>1, <5>1 DEF m
          <5>3. PICK j2 \in DOMAIN downlink' : downlink'[j2] = downlink[j]
            BY <1>2, <5>2
          <5> QED
            BY <5>1, <5>3 DEF Awaited
        <4>4. CASE ~ \E j \in DOMAIN downlink : downlink[j].frame.op = Opcode.RPC_RES
                                                /\ downlink[j].frame.body[1] = k
          BY <1>1, <4>2, <4>4 DEF Awaited
        <4> QED
          BY <4>3, <4>4
      <3> QED
        BY <1>8, <2>3, <3>5, <3>6, <3>7, <3>8 DEF IInv
    <2>5. CASE ~(f.op = Opcode.RPC_RES /\ f.id \in pending)
      <3>1. pending' = pending /\ outcome' = outcome
        BY <1>3, <1>10, <2>5 DEF HandleResponse, HandlePatches, HandleError
      <3>2. TypeOK' /\ Bounded' /\ Recent' /\ AnswersMatch'
        BY <1>1, <1>2, <1>10, <3>1 DEF IInv, TypeOK, Bounded, Recent, AnswersMatch
      <3>3. CallsInv'
        <4> SUFFICES ASSUME NEW k \in pending, k < Ids PROVE Awaited(k)'
          BY <3>1 DEF CallsInv
        <4>1. Awaited(k)
          BY DEF IInv, CallsInv
        <4>2. CASE \E j \in DOMAIN downlink : downlink[j].frame.op = Opcode.RPC_RES
                                              /\ downlink[j].frame.body[1] = k
          <5>1. PICK j \in DOMAIN downlink : downlink[j].frame.op = Opcode.RPC_RES
                                             /\ downlink[j].frame.body[1] = k
            BY <4>2
          <5>2. downlink[j] # w
            <6> SUFFICES ASSUME downlink[j] = w PROVE FALSE
              OBVIOUS
            <6>1. f.op = Opcode.RPC_RES /\ f.body[1] = k
              BY <1>0, <5>1
            <6>2. f.id = IdOf(k)
              BY <1>0, <1>2, <6>1 DEF Answered
            <6>3. k \in Nat
              BY <1>4
            <6>4. IdOf(k) = k
              BY <6>3, IdFacts
            <6> QED
              BY <2>5, <6>1, <6>2, <6>4
          <5>3. PICK j2 \in DOMAIN downlink' : downlink'[j2] = downlink[j]
            BY <1>2, <5>2
          <5> QED
            BY <5>1, <5>3 DEF Awaited
        <4>3. CASE ~ \E j \in DOMAIN downlink : downlink[j].frame.op = Opcode.RPC_RES
                                                /\ downlink[j].frame.body[1] = k
          BY <1>1, <4>1, <4>3 DEF Awaited
        <4> QED
          BY <4>2, <4>3
      <3> QED
        BY <1>8, <2>3, <3>2, <3>3 DEF IInv
    <2> QED
      BY <2>4, <2>5
  <1>11. CASE HandlePatches(f)
    <2>1. /\ f.op = Opcode.STATE_PATCH
          /\ pending' = pending /\ outcome' = outcome
          /\ \/ mirror' = mirror \o f.body /\ UNCHANGED dropped
             \/ /\ ~Applies(f) /\ dropped' = dropped \union ToSet(f.body)
                /\ UNCHANGED mirror
      BY <1>11 DEF HandlePatches
    <2>2. f.body \in Seq(Numbers) /\ f.body # <<>> /\ Rising(f.body)
      BY <1>0, <1>2, <2>1 DEF Answered
    <2>3. Load(Opcode.STATE_PATCH, w) = ToSet(f.body)
      BY <1>0, <2>1 DEF Load, Opcode
    <2>7. /\ MirrorLacksOnlyUnsent'
          /\ mirror' \in Seq(Numbers) /\ dropped' \subseteq Numbers
          /\ dropped' \subseteq 1..stored
      <3>1. CASE mirror' = mirror \o f.body /\ UNCHANGED dropped
        <4>1. /\ mirror' \in Seq(Numbers)
              /\ ToSet(mirror') = ToSet(mirror) \union ToSet(f.body)
          BY <1>4, <2>2, <3>1, ConcatFacts
        <4>2. Rising(mirror')
          BY <1>4, <1>5, <1>9, <2>2, <2>3, <3>1, RisingConcat
        <4>3. Accounted(ToSet(mirror'), loads', ToSet(PatchesOf(batch)'), all')
          BY <1>2, <1>7, <1>9, <2>3, <3>1, <4>1
        <4> QED
          BY <1>1, <1>4, <1>5, <1>6, <1>7, <3>1, <4>1, <4>2, <4>3
          DEF MirrorLacksOnlyUnsent, loads, all
      <3>2. CASE ~Applies(f) /\ dropped' = dropped \union ToSet(f.body) /\ UNCHANGED mirror
        <4>1. all \in SUBSET Nat /\ all \subseteq 1..stored /\ 1..stored \subseteq Numbers
          BY <1>4 DEF all, Numbers
        <4>2. Accounted(ToSet(mirror), Tail(loads), ToSet(PatchesOf(batch)),
                        all \ ToSet(f.body))
          BY <1>2, <1>5, <2>3, <4>1, AccountedRefused
        <4>3. all' = all \ ToSet(f.body)
          BY <1>1, <3>2 DEF all
        <4>4. Accounted(ToSet(mirror'), loads', ToSet(PatchesOf(batch)'), all')
          BY <1>2, <1>7, <3>2, <4>2, <4>3
        <4>5. ToSet(f.body) \subseteq all
          BY <1>9, <2>3 DEF Accounted
        <4>6. \A d \in ToSet(f.body) : \E u \in unsent : u < d
          <5> DEFINE A == ToSet(mirror) \union ToSet(f.body)
                     W == ToSet(PatchesOf(batch))
                     L == Tail(loads)
                     first == f.body[1]
          <5>1. Accounted(A, L, W, all)
            BY <1>9, <2>3
          <5>2. /\ first \in ToSet(f.body) /\ first \in A
                /\ \A d \in ToSet(f.body) : d \in Nat /\ first <= d
            BY <2>2, RisingFirst
          <5>3. PICK j \in 1..(first - 1) : j \notin ToSet(mirror)
            BY <3>2 DEF Applies
          <5> HIDE DEF W, L, first
          <5>4. first \in Nat /\ j \in Nat /\ j < first
            BY <5>2, <5>3
          <5>5. j \notin A
            BY <5>2, <5>3, <5>4
          <5> HIDE DEF A
          <5>6. j \notin all
            BY <5>1, <5>2, <5>4, <5>5, LackedBefore
          <5>7. j \in 1..stored
            <6>1. first \in 1..stored
              BY <4>1, <4>5, <5>2
            <6> QED
              BY <1>4, <5>3, <5>4, <6>1
          <5>8. PICK u \in unsent : u = j \/ u < j
            BY <1>5, <5>6, <5>7 DEF all
          <5>9. u \in Nat
            BY <1>4, <5>8
          <5>10. \A d \in ToSet(f.body) : u < d
            BY <5>2, <5>4, <5>8, <5>9
          <5> QED
            BY <5>8, <5>10
        <4>7. \A d \in dropped' : \E u \in unsent' : u < d
          BY <1>1, <1>5, <3>2, <4>6
        <4> QED
          BY <1>1, <1>4, <1>5, <1>6, <1>7, <3>2, <4>1, <4>4, <4>5, <4>7
          DEF MirrorLacksOnlyUnsent, loads, all
      <3> QED
        BY <2>1, <3>1, <3>2
    <2>8. TypeOK' /\ Bounded' /\ Recent' /\ AnswersMatch'
      BY <1>1, <1>2, <2>1, <2>7 DEF IInv, TypeOK, Bounded, Recent, AnswersMatch
    <2>9. CallsInv'
      <3> SUFFICES ASSUME NEW k \in pending, k < Ids PROVE Awaited(k)'
        BY <2>1 DEF CallsInv
      <3>1. Awaited(k)
        BY DEF IInv, CallsInv
      <3>2. CASE \E j \in DOMAIN downlink : downlink[j].frame.op = Opcode.RPC_RES
                                            /\ downlink[j].frame.body[1] = k
        <4>1. PICK j \in DOMAIN downlink : downlink[j].frame.op = Opcode.RPC_RES
                                           /\ downlink[j].frame.body[1] = k
          BY <3>2
        <4>2. downlink[j] # w
          BY <1>0, <2>1, <4>1 DEF Opcode
        <4>3. PICK j2 \in DOMAIN downlink' : downlink'[j2] = downlink[j]
          BY <1>2, <4>2
        <4> QED
          BY <4>1, <4>3 DEF Awaited
      <3>3. CASE ~ \E j \in DOMAIN downlink : downlink[j].frame.op = Opcode.RPC_RES
                                              /\ downlink[j].frame.body[1] = k
        BY <1>1, <3>1, <3>3 DEF Awaited
      <3> QED
        BY <3>2, <3>3
    <2> QED
      BY <1>8, <2>7, <2>8, <2>9 DEF IInv
  <1> QED
    <2>1. HandlePatches(f) \/ (f.op # Opcode.STATE_PATCH /\ UNCHANGED <<mirror, dropped>>)
      BY <1>3 DEF HandleResponse, HandleError, Opcode
    <2> QED
      BY <1>10, <1>11, <2>1

LEMMA TimeoutStep ==
    ASSUME IInv, NEW n \in pending, Timeout(n)
    PROVE  IInv'
  <1>1. /\ pending' = pending \ {n}
        /\ outcome' = [outcome EXCEPT ![n].how = "timeout"]
        /\ UNCHANGED <<counter, emitted, mirror, alive, running, heard, channel,
                       stored, batch, timer, uplink, downlink, inputs, refused,
                       failed, swallowed, unsent, dropped>>
    BY DEF Timeout, stateVars, wireVars
  <1>2. n \in Numbers
    BY DEF IInv, TypeOK
  <1>3. TypeOK'
    BY <1>1, <1>2 DEF IInv, TypeOK
  <1>4. Bounded' /\ LinksInv' /\ Recent'
    BY <1>1 DEF IInv, Bounded, LinksInv, Recent
  <1>5. AnswersMatch'
    BY <1>1, <1>2 DEF IInv, AnswersMatch, TypeOK
  <1>6. CallsInv'
    BY <1>1 DEF IInv, CallsInv, Awaited
  <1>7. EventsExplained' /\ MirrorLacksOnlyUnsent'
    BY <1>1 DEF IInv, EventsExplained, MirrorLacksOnlyUnsent
  <1> QED
    BY <1>3, <1>4, <1>5, <1>6, <1>7 DEF IInv

-----------------------------------------------------------------------------
(* The theorems. *)

LEMMA InitInv ==
    ASSUME Init
    PROVE  IInv
  <1>1. MaxInputs \in Nat /\ MaxBatch \in Nat \ {0} /\ Ids \in Nat \ {0}
    BY LimitsAreNat, CountsArePositive
  <1>2. \A i : i \notin DOMAIN <<>>
    OBVIOUS
  <1>3. Len(<<>>) = 0 /\ \A S : <<>> \in Seq(S)
    BY EmptySeq
  <1>4. TypeOK
    <2>1. 0 \in 0..MaxInputs /\ MaxInputs \in 0..MaxInputs /\ Len(<<>>) < MaxBatch
      BY <1>1, <1>3
    <2>2. Waiting \in [how : {"none", "answer", "timeout", "rejected"}, of : 0..MaxInputs]
      BY <2>1 DEF Waiting
    <2> QED
      BY <1>3, <2>1, <2>2 DEF Init, TypeOK
  <1>5. Bounded
    BY <1>1, NoPatches DEF Init, Bounded
  <1>6. LinksInv /\ Recent /\ CallsInv
    BY <1>2 DEF Init, LinksInv, Recent, CallsInv
  <1>7. AnswersMatch
    BY DEF Init, AnswersMatch, Waiting
  <1>8. \A op : /\ \A i : i \notin DOMAIN Loads(op, <<>>)
                /\ Under(Loads(op, <<>>)) = {}
    <2> SUFFICES ASSUME NEW op
                 PROVE  /\ \A i : i \notin DOMAIN Loads(op, <<>>)
                        /\ Under(Loads(op, <<>>)) = {}
      OBVIOUS
    <2>1. \A i : i \notin DOMAIN Loads(op, <<>>)
      BY <1>2 DEF Loads
    <2> QED
      BY <2>1, InUnder
  <1>9. ToSet(<<>>) = {} /\ Rising(<<>>) /\ Before({}, {})
    BY <1>2 DEF ToSet, Rising, Before
  <1>10. \A op : Accounted({}, Loads(op, <<>>), {}, {})
    BY <1>8, <1>9 DEF Accounted
  <1>11. EventsExplained
    <2>1. {k \in 1..0 : <<"event", k>> \notin refused \union failed} = {}
      OBVIOUS
    <2> QED
      BY <1>9, <1>10, <2>1 DEF Init, EventsExplained
  <1>12. MirrorLacksOnlyUnsent
    <2>1. {k \in 1..0 : k \notin unsent \union dropped} = {}
      OBVIOUS
    <2> QED
      BY <1>2, <1>9, <1>10, <2>1, NoPatches DEF Init, MirrorLacksOnlyUnsent
  <1> QED
    BY <1>4, <1>5, <1>6, <1>7, <1>11, <1>12 DEF IInv

LEMMA NextInv ==
    ASSUME IInv, [Next]_vars
    PROVE  IInv'
  <1>1. CASE UNCHANGED vars
    <2>1. UNCHANGED <<counter, pending, emitted, mirror, alive, running, heard,
                      channel, stored, batch, timer, uplink, downlink, inputs,
                      outcome, refused, failed, swallowed, unsent, dropped>>
      BY <1>1 DEF vars, clientVars, stateVars, wireVars, historyVars
    <2>2. TypeOK' /\ Bounded' /\ LinksInv' /\ Recent' /\ AnswersMatch'
      BY <2>1 DEF IInv, TypeOK, Bounded, LinksInv, Recent, AnswersMatch
    <2>3. CallsInv' /\ EventsExplained' /\ MirrorLacksOnlyUnsent'
      BY <2>1 DEF IInv, CallsInv, Awaited, EventsExplained, MirrorLacksOnlyUnsent
    <2> QED
      BY <2>2, <2>3 DEF IInv
  <1>2. ASSUME NEW size \in Sizes, NEW method \in {1, 2}, Call(method, size)
        PROVE  IInv'
    BY <1>2, CallStep
  <1>3. ASSUME NEW size \in Sizes, NEW name \in {0, 1, MaxName + 1}, Emit(name, size)
        PROVE  IInv'
    BY <1>3, EmitStep
  <1>4. ASSUME NEW size \in Sizes, SetState(size)
        PROVE  IInv'
    BY <1>4, SetStateStep
  <1>5. ASSUME NEW size \in Sizes, NEW r \in running, Finish(r, size)
        PROVE  IInv'
    BY <1>5, FinishStep
  <1>6. CASE Arrive
    BY <1>6, ArriveStep
  <1>7. CASE FlushTimer
    BY <1>7, FlushTimerStep
  <1>8. CASE Receive
    BY <1>8, ReceiveStep
  <1>9. ASSUME NEW n \in pending, Timeout(n)
        PROVE  IInv'
    BY <1>9, TimeoutStep
  <1> QED
    BY <1>1, <1>2, <1>3, <1>4, <1>5, <1>6, <1>7, <1>8, <1>9 DEF Next

LEMMA Invariant == Spec => []IInv
  BY InitInv, NextInv, PTL DEF Spec

\* Every variable keeps its type: in particular the server never holds as many
\* patches as a batch may have, and every message on a link is one of the
\* protocol (sync-channel.ts:28, frames.ts:30).
THEOREM TypeCorrect == Spec => []TypeOK
  <1>1. IInv => TypeOK
    BY DEF IInv
  <1> QED
    BY <1>1, Invariant, PTL

\* A call is never given the answer of another, for any width of correlation
\* ids, as long as a call times out before so many newer ones are made that its
\* id comes round again (rpc-client.ts:65).
THEOREM AnswersReachTheirCalls == Spec => []AnswersMatch
  <1>1. IInv => AnswersMatch
    BY DEF IInv
  <1> QED
    BY <1>1, Invariant, PTL

\* Calls, events and patches of any size are lost for the named reasons only,
\* whatever the limits and the threshold of compression (frames.ts:30,
\* compression.ts:24, sync-channel.ts:48).
THEOREM NothingElseIsLost == Spec => []LossIsExplained
  <1>1. IInv => CallsExplained
    <2> SUFFICES ASSUME IInv, uplink = <<>>, downlink = <<>>, running = {},
                        NEW n \in pending, ~(n >= Ids)
                 PROVE  <<"call", n>> \in refused \union failed \/ n \in swallowed
      BY DEF CallsExplained
    <2>0. n < Ids
      <3>1. n \in Nat /\ Ids \in Nat
        BY TypeFacts, CountsArePositive DEF IInv, TypeOK
      <3> QED
        BY <3>1
    <2>1. Awaited(n)
      BY <2>0 DEF IInv, CallsInv
    <2>2. \A i : i \notin DOMAIN <<>>
      OBVIOUS
    <2> QED
      BY <2>1, <2>2 DEF Awaited
  <1>2. IInv => LossIsExplained
    BY <1>1 DEF IInv, LossIsExplained
  <1> QED
    BY <1>2, Invariant, PTL

=============================================================================
