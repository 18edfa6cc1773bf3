----------------------- MODULE ServerTransport_proofs -----------------------
(***************************************************************************)
(* Proofs about ServerTransport, for any set of connections, any limit on  *)
(* them, any finite set of frames, any quota and any length of a window.   *)
(***************************************************************************)
EXTENDS ServerTransport, FiniteSetTheorems, SequenceTheorems, TLAPS

-----------------------------------------------------------------------------
(* The door: who is connected, as far as the parts of the server know. *)

DoorType ==
    /\ door \in {"up", "stopping", "stopped"}
    /\ upgrade \in [Conns -> {"idle", "auth", "timedOut", "gone", "over"}]
    /\ wire \in [Conns -> {"none", "open", "closing", "closed"}]
    /\ connections \subseteq Conns
    /\ now \in 0..MaxNow

\* The set of connections, the executor's copy and the gauge agree; a
\* connection is admitted while its WebSocket is open, and an upgrade request
\* has no WebSocket until it is over.
Registered ==
    /\ IsFiniteSet(connections)
    /\ executor = connections /\ gauge = Cardinality(connections)
    /\ Cardinality(connections) <= MaxConnections
    /\ \A c \in Conns : /\ c \in connections => wire[c] \in {"open", "closing"}
                        /\ wire[c] = "open" => c \in connections
                        /\ upgrade[c] # "over" => wire[c] = "none"
                        /\ door = "stopped" => wire[c] \in {"none", "closed"}

DoorInv == DoorType /\ Registered

LEMMA DoorInit == Init => DoorInv
  BY FS_EmptySet, LimitsAreNat DEF Init, DoorInv, DoorType, Registered

\* Admission tests the limit on the connections as they are when it registers.
LEMMA DoorWelcome ==
    ASSUME DoorInv, NEW c \in Conns, NEW verdict, AuthDone(c, verdict)
    PROVE  DoorInv'
  <1>1. CASE upgrade[c] = "auth" /\ verdict = "yes" /\ door = "up" /\ ~Full
    <2>1. /\ connections' = connections \cup {c} /\ executor' = executor \cup {c}
          /\ gauge' = gauge + 1
          /\ wire' = [wire EXCEPT ![c] = "open"]
          /\ upgrade' = [upgrade EXCEPT ![c] = "over"]
          /\ door' = door /\ now' = now
      BY <1>1 DEF AuthDone, Welcome, AddConnection
    <2>2. c \notin connections
      BY <1>1 DEF DoorInv, Registered
    <2>3. /\ IsFiniteSet(connections')
          /\ Cardinality(connections') = Cardinality(connections) + 1
      BY <2>1, <2>2, FS_AddElement DEF DoorInv, Registered
    <2>4. Cardinality(connections') <= MaxConnections
      <3>1. Cardinality(connections) \in Nat /\ MaxConnections \in Nat
        BY FS_CardinalityType, LimitsAreNat DEF DoorInv, Registered
      <3>2. ~(Cardinality(connections) >= MaxConnections)
        BY <1>1 DEF Full
      <3> QED
        BY <3>1, <3>2, <2>3
    <2>5. DoorType'
      BY <2>1 DEF DoorInv, DoorType
    <2> QED
      BY <1>1, <2>1, <2>2, <2>3, <2>4, <2>5 DEF DoorInv, DoorType, Registered
  <1>2. CASE upgrade[c] = "auth" /\ verdict = "yes" /\ door = "up" /\ Full
    BY <1>2 DEF AuthDone, Welcome, DoorInv, DoorType, Registered, AddConnection
  <1>3. CASE ~(upgrade[c] = "auth" /\ verdict = "yes" /\ door = "up")
    BY <1>3 DEF AuthDone, DoorInv, DoorType, Registered
  <1> QED
    BY <1>1, <1>2, <1>3

LEMMA DoorClosed ==
    ASSUME DoorInv, NEW c \in Conns, Closed(c)
    PROVE  DoorInv'
  <1>1. /\ IsFiniteSet(connections')
        /\ Cardinality(connections') = IF c \in connections
                                       THEN Cardinality(connections) - 1
                                       ELSE Cardinality(connections)
    BY FS_RemoveElement DEF DoorInv, Registered, Closed, RemoveConnection
  <1>2. Cardinality(connections) \in Nat /\ Cardinality(connections') \in Nat
    BY <1>1, FS_CardinalityType DEF DoorInv, Registered
  <1>3. gauge' = Cardinality(connections')
    BY <1>1, <1>2 DEF DoorInv, Registered, Closed, Decrement, RemoveConnection
  <1>4. Cardinality(connections') <= MaxConnections
    BY <1>1, <1>2, LimitsAreNat DEF DoorInv, Registered
  <1> QED
    BY <1>1, <1>3, <1>4 DEF DoorInv, DoorType, Registered, Closed, RemoveConnection

LEMMA DoorStopped ==
    ASSUME DoorInv, Stopped
    PROVE  DoorInv'
  <1>1. connections = {} /\ connections' = {} /\ executor' = {}
    BY DEF DoorInv, DoorType, Registered, Stopped
  <1> QED
    BY <1>1 DEF DoorInv, DoorType, Registered, Stopped

\* What the frames do leaves the door alone.
FrameStep ==
    \/ \E f \in Frames, c \in Conns, k \in {"call", "oneway"} : Arrive(f, c, k)
    \/ \E f \in Frames : GetOrCreate(f) \/ Consume(f) \/ Judge(f)
    \/ \E f \in Frames, outcome \in {"result", "error"}, encodes \in BOOLEAN :
           Finish(f, outcome, encodes)

LEMMA DoorStep == DoorInv /\ [Next]_vars => DoorInv'
  <1> SUFFICES ASSUME DoorInv, [Next]_vars
               PROVE  DoorInv'
    OBVIOUS
  <1>1. ASSUME NEW c \in Conns, BeginUpgrade(c) \/ AuthTimeout(c) \/ ClientGone(c)
        PROVE  DoorInv'
    BY <1>1 DEF BeginUpgrade, AuthTimeout, ClientGone, DoorInv, DoorType, Registered
  <1>2. ASSUME NEW c \in Conns, PeerLeaves(c)
        PROVE  DoorInv'
    BY <1>2 DEF PeerLeaves, DoorInv, DoorType, Registered
  <1>3. CASE Stop
    BY <1>3 DEF Stop, DoorInv, DoorType, Registered
  <1>4. CASE Tick
    BY <1>4, LimitsAreNat DEF Tick, doorVars, DoorInv, DoorType, Registered
  <1>5. CASE FrameStep \/ UNCHANGED vars
    <2>1. UNCHANGED <<doorVars, now>>
      BY <1>5 DEF FrameStep, Arrive, GetOrCreate, Consume, Judge, Finish, vars
    <2> QED
      BY <2>1 DEF doorVars, DoorInv, DoorType, Registered
  <1> QED
    BY <1>1, <1>2, <1>3, <1>4, <1>5, DoorWelcome, DoorClosed, DoorStopped
    DEF Next, FrameStep

LEMMA DoorInvariance == Spec => []DoorInv
  BY DoorInit, DoorStep, PTL DEF Spec

\* The admitted connections never exceed maxConnections.
THEOREM CapIsKept == Spec => []CapHolds
  <1>1. DoorInv => CapHolds
    BY DEF DoorInv, Registered, CapHolds
  <1> QED
    BY <1>1, DoorInvariance, PTL

\* The gauge and the executor agree with the set of connections.
THEOREM GaugeIsExact == Spec => []GaugeIsHonest
  <1>1. DoorInv => GaugeIsHonest
    BY DEF DoorInv, Registered, GaugeIsHonest
  <1> QED
    BY <1>1, DoorInvariance, PTL

\* When close() is through, no WebSocket is open and none is counted.
THEOREM StopLeavesNobody == Spec => []StoppedIsEmpty
  <1>1. DoorInv => StoppedIsEmpty
    <2> SUFFICES ASSUME DoorInv, door = "stopped"
                 PROVE  gauge = 0 /\ \A c \in Conns : wire[c] \in {"none", "closed"}
      BY DEF StoppedIsEmpty
    <2>1. connections = {}
      BY DEF DoorInv, DoorType, Registered
    <2> QED
      BY <2>1, FS_EmptySet DEF DoorInv, Registered
  <1> QED
    BY <1>1, DoorInvariance, PTL

\* The gauge, the connections and the executor agree, to the end.
THEOREM AccountsAgree == Spec => []AccountsBalance
  <1>1. GaugeIsHonest /\ StoppedIsEmpty => AccountsBalance
    BY DEF AccountsBalance
  <1> QED
    BY <1>1, GaugeIsExact, StopLeavesNobody, PTL

-----------------------------------------------------------------------------
(* Frames: whose they are, where they are counted, whether they are answered. *)

Stages == {"new", "handling", "done"} \cup InLimiter
HeapType == heap \in Seq([count: Nat, resetAt: Nat])

FrameType ==
    /\ store \in [Conns -> 0..Len(heap)]
    /\ stage \in [Frames -> Stages]
    /\ from \in [Frames -> Conns \cup {None}]
    /\ kind \in [Frames -> {"call", "oneway"}]
    /\ born \in [Frames -> 0..MaxNow]
    /\ seen \in [Frames -> 0..Len(heap)] /\ window \in [Frames -> 0..Len(heap)]
    /\ reply \in [Frames -> {"none", "result", "error", "limited"}]
    /\ swallowed \subseteq Frames
    /\ passed \subseteq Frames /\ overlapped \subseteq Conns

Windowless == {"new", "get"}

Waiting == {"new"} \cup InLimiter

\* A frame that has arrived has a connection, which once had a WebSocket; from
\* getOrCreate on it has a window, and it is handled once it has passed.
Placed ==
    \A f \in Frames :
        /\ stage[f] # "new" => from[f] \in Conns /\ wire[from[f]] # "none"
        /\ stage[f] = "new" => seen[f] = 0
        /\ window[f] = 0 <=> stage[f] \in Windowless
        /\ stage[f] \in Waiting => f \notin passed /\ reply[f] = "none"
        /\ stage[f] = "handling" => f \in passed

FrameInv == HeapType /\ FrameType /\ Placed /\ AnsweredUnlessGone

LEMMA FrameInit == Init => FrameInv
  BY EmptySeq, LimitsAreNat
  DEF Init, FrameInv, HeapType, FrameType, Placed, AnsweredUnlessGone, Stages,
      InLimiter, Waiting, Windowless

\* The door's steps: no socket opens twice, so a frame's connection that has
\* gone stays gone.
LEMMA FrameDoor ==
    ASSUME FrameInv, DoorInv, [Next]_vars, ~FrameStep
    PROVE  /\ FrameInv'
           /\ UNCHANGED <<limitVars, frameVars>>
  <1>1. UNCHANGED <<limitVars, frameVars>>
    <2>1. CASE \E c \in Conns, verdict \in {"yes", "no", "throws"} : AuthDone(c, verdict)
      BY <2>1 DEF AuthDone
    <2>2. CASE \E c \in Conns : \/ BeginUpgrade(c) \/ AuthTimeout(c) \/ ClientGone(c)
                                \/ PeerLeaves(c) \/ Closed(c)
      BY <2>2 DEF BeginUpgrade, AuthTimeout, ClientGone, PeerLeaves, Closed
    <2>3. CASE Stop \/ Stopped \/ Tick \/ UNCHANGED vars
      BY <2>3 DEF Stop, Stopped, Tick, vars
    <2> QED
      BY <2>1, <2>2, <2>3 DEF Next, FrameStep
  <1>2. \A c \in Conns : /\ wire[c] # "none" => wire'[c] # "none"
                         /\ wire[c] # "none" /\ wire[c] # "open" => wire'[c] # "open"
    <2>1. ASSUME NEW d \in Conns, NEW verdict, AuthDone(d, verdict)
          PROVE  \A c \in Conns : wire'[c] = wire[c] \/ (c = d /\ wire[d] = "none"
                                                         /\ wire'[d] # "none")
      BY <2>1 DEF AuthDone, Welcome, DoorInv, DoorType, Registered, AddConnection
    <2>2. CASE \E c \in Conns : \/ BeginUpgrade(c) \/ AuthTimeout(c) \/ ClientGone(c)
                                \/ PeerLeaves(c) \/ Closed(c)
      BY <2>2 DEF BeginUpgrade, AuthTimeout, ClientGone, PeerLeaves, Closed,
                  RemoveConnection, DoorInv, DoorType
    <2>3. CASE Stop \/ Stopped \/ Tick \/ UNCHANGED vars
      BY <2>3 DEF Stop, Stopped, Tick, vars, doorVars, DoorInv, DoorType
    <2> QED
      BY <2>1, <2>2, <2>3 DEF Next, FrameStep
  <1>3. HeapType' /\ FrameType'
    BY <1>1 DEF FrameInv, HeapType, FrameType, limitVars, frameVars
  <1>4. Placed' /\ AnsweredUnlessGone'
    BY <1>1, <1>2 DEF FrameInv, Placed, AnsweredUnlessGone, limitVars, frameVars
  <1> QED
    BY <1>1, <1>3, <1>4 DEF FrameInv

LEMMA FrameArrive ==
    ASSUME FrameInv, DoorInv, NEW f \in Frames, NEW c \in Conns,
           NEW k \in {"call", "oneway"}, Arrive(f, c, k)
    PROVE  FrameInv'
  <1>1. HeapType' /\ FrameType'
    BY DEF Arrive, limitVars, doorVars, FrameInv, HeapType, FrameType, Stages, InLimiter,
           DoorInv, DoorType
  <1>2. Placed' /\ AnsweredUnlessGone'
    BY DEF Arrive, limitVars, doorVars, FrameInv, FrameType, Placed, AnsweredUnlessGone,
           Windowless, Stages, InLimiter, Waiting
  <1> QED
    BY <1>1, <1>2 DEF FrameInv

\* getOrCreate returns the stored window or appends a fresh, empty one.
LEMMA FrameGetOrCreate ==
    ASSUME FrameInv, NEW f \in Frames, GetOrCreate(f)
    PROVE  /\ FrameInv'
           /\ Len(heap) \in Nat
           /\ \/ heap' = heap /\ store' = store /\ seen[f] # 0
                 /\ window' = [window EXCEPT ![f] = seen[f]]
              \/ /\ Len(heap') = Len(heap) + 1
                 /\ \A w \in 1..Len(heap) : heap'[w] = heap[w]
                 /\ heap'[Len(heap')].count = 0
                 /\ store' = [store EXCEPT ![from[f]] = Len(heap')]
                 /\ window' = [window EXCEPT ![f] = Len(heap')]
  <1> DEFINE new == [count |-> 0, resetAt |-> born[f] + WindowMs]
  <1>1. Len(heap) \in Nat
    BY LenProperties DEF FrameInv, HeapType
  <1>2. CASE heap' = heap /\ store' = store /\ seen[f] # 0
             /\ window' = [window EXCEPT ![f] = seen[f]]
    <2>1. HeapType' /\ FrameType'
      BY <1>1, <1>2 DEF GetOrCreate, doorVars, FrameInv, HeapType, FrameType, Stages, InLimiter
    <2>2. Placed' /\ AnsweredUnlessGone'
      BY <1>1, <1>2 DEF GetOrCreate, doorVars, FrameInv, FrameType, Placed,
         AnsweredUnlessGone, Windowless, Waiting, InLimiter
    <2> QED
      BY <1>1, <1>2, <2>1, <2>2 DEF FrameInv
  <1>3. CASE /\ heap' = Append(heap, new)
             /\ store' = [store EXCEPT ![from[f]] = Len(heap')]
             /\ window' = [window EXCEPT ![f] = Len(heap')]
    <2>1. new \in [count: Nat, resetAt: Nat]
      BY LimitsAreNat DEF FrameInv, FrameType
    <2>2. /\ heap' \in Seq([count: Nat, resetAt: Nat])
          /\ Len(heap') = Len(heap) + 1
          /\ \A w \in 1..Len(heap) : heap'[w] = heap[w]
          /\ heap'[Len(heap)+1] = new
      BY <1>3, <2>1, AppendProperties DEF FrameInv, HeapType
    <2>3. HeapType' /\ FrameType'
      <3>1. 0..Len(heap) \subseteq 0..Len(heap') /\ Len(heap') \in 0..Len(heap')
        BY <1>1, <2>2
      <3>2. /\ store' \in [Conns -> 0..Len(heap')] /\ window' \in [Frames -> 0..Len(heap')]
            /\ seen' \in [Frames -> 0..Len(heap')]
        BY <1>3, <3>1 DEF GetOrCreate, FrameInv, FrameType
      <3>3. stage' \in [Frames -> Stages]
        BY DEF GetOrCreate, FrameInv, FrameType, Stages, InLimiter
      <3>4. UNCHANGED <<from, kind, born, reply, swallowed, passed, overlapped>>
        BY DEF GetOrCreate
      <3> QED
        BY <2>2, <3>2, <3>3, <3>4 DEF FrameInv, HeapType, FrameType
    <2>4. Placed' /\ AnsweredUnlessGone'
      BY <1>1, <1>3, <2>2 DEF GetOrCreate, doorVars, FrameInv, FrameType, Placed,
         AnsweredUnlessGone, Windowless, Waiting, InLimiter
    <2> QED
      BY <1>1, <1>3, <2>2, <2>3, <2>4 DEF FrameInv
  <1> QED
    BY <1>2, <1>3 DEF GetOrCreate, limitVars

LEMMA FrameConsume ==
    ASSUME FrameInv, NEW f \in Frames, Consume(f)
    PROVE  /\ FrameInv'
           /\ window[f] \in 1..Len(heap)
           /\ Len(heap') = Len(heap)
           /\ \A w \in 1..Len(heap) :
                  heap'[w].count = heap[w].count + (IF w = window[f] THEN 1 ELSE 0)
  <1>1. Len(heap) \in Nat /\ window[f] \in 1..Len(heap)
    <2>1. Len(heap) \in Nat
      BY LenProperties DEF FrameInv, HeapType
    <2> QED
      BY <2>1 DEF FrameInv, FrameType, Placed, Consume, Windowless
  <1> DEFINE more == [heap[window[f]] EXCEPT !.count = @ + 1]
  <1>2. \A w \in 1..Len(heap) : heap[w] \in [count: Nat, resetAt: Nat]
    BY ElementOfSeq DEF FrameInv, HeapType
  <1>3. more \in [count: Nat, resetAt: Nat] /\ more.count = heap[window[f]].count + 1
    BY <1>1, <1>2
  <1>4. heap' = [heap EXCEPT ![window[f]] = more]
    BY DEF Consume
  <1>5. /\ heap' \in Seq([count: Nat, resetAt: Nat])
        /\ Len(heap') = Len(heap)
        /\ \A w \in 1..Len(heap) : heap'[w] = IF w = window[f] THEN more ELSE heap[w]
    <2> HIDE DEF more
    <2> QED
      BY <1>1, <1>3, <1>4, ExceptSeq DEF FrameInv, HeapType
  <1>6. \A w \in 1..Len(heap) :
            heap'[w].count = heap[w].count + (IF w = window[f] THEN 1 ELSE 0)
    <2> HIDE DEF more
    <2> QED
      BY SMTT(30), <1>2, <1>3, <1>5
  <1>7. /\ stage' = [stage EXCEPT ![f] = "saved"] /\ stage[f] = "have"
        /\ store' = [store EXCEPT ![from[f]] = window[f]]
        /\ UNCHANGED <<doorVars, now, from, kind, born, seen, window, reply, swallowed,
                       passed, overlapped>>
    BY DEF Consume
  <1>8. HeapType' /\ FrameType'
    BY <1>1, <1>5, <1>7 DEF FrameInv, HeapType, FrameType, Stages, InLimiter
  <1>9. Placed' /\ AnsweredUnlessGone'
    BY <1>7 DEF doorVars, FrameInv, FrameType, Placed, AnsweredUnlessGone, Windowless, Waiting, InLimiter
  <1> QED
    BY <1>1, <1>5, <1>6, <1>8, <1>9 DEF FrameInv

\* The executor knows every open connection, and a refusal reaches it.
LEMMA FrameJudge ==
    ASSUME FrameInv, DoorInv, NEW f \in Frames, Judge(f)
    PROVE  FrameInv'
  <1>1. HeapType' /\ FrameType'
    BY DEF Judge, Dispatched, Routed, Send, limitVars, doorVars, FrameInv,
           HeapType, FrameType, Stages, InLimiter
  <1>2. /\ f \notin passed /\ reply[f] = "none" /\ stage[f] = "saved"
        /\ from[f] \in Conns /\ window[f] # 0 /\ wire' = wire
        /\ UNCHANGED <<from, kind, seen, window, swallowed>>
    BY DEF Judge, FrameInv, Placed, Waiting, Windowless, InLimiter, doorVars
  <1>3. wire[from[f]] = "open" => from[f] \in connections /\ from[f] \in executor
    BY <1>2 DEF DoorInv, Registered
  <1>0. /\ Placed /\ AnsweredUnlessGone
        /\ stage \in [Frames -> Stages]
    BY DEF FrameInv, FrameType
  <1>4. CASE Allowed(f)
    <2>1. /\ passed' = passed \cup {f} /\ reply' = reply
          /\ stage' = [stage EXCEPT ![f] = Dispatched(f)]
          /\ Dispatched(f) \in {"handling", "done"}
      BY <1>4 DEF Judge, Dispatched, Routed
    <2>2. Dispatched(f) = "done" /\ wire[from[f]] = "open" => kind[f] # "call"
      BY <1>3 DEF Dispatched, Routed
    <2>3. /\ stage'[f] \in {"handling", "done"} /\ stage'[f] = Dispatched(f)
          /\ \A g \in Frames : g # f => stage'[g] = stage[g]
      BY <1>0, <2>1
    <2>4. Placed'
      BY <1>0, <1>2, <2>1, <2>3 DEF Placed, Waiting, Windowless, InLimiter
    <2>5. AnsweredUnlessGone'
      BY <1>0, <1>2, <2>1, <2>2, <2>3 DEF AnsweredUnlessGone
    <2> QED
      BY <1>1, <2>4, <2>5 DEF FrameInv
  <1>5. CASE ~Allowed(f)
    <2>1. passed' = passed /\ stage' = [stage EXCEPT ![f] = "done"]
      BY <1>5 DEF Judge
    <2>2. /\ wire[from[f]] = "open" => reply' = [reply EXCEPT ![f] = "limited"]
          /\ \A g \in Frames : g # f => reply'[g] = reply[g]
      BY <1>3, <1>5 DEF Judge, Send, FrameInv, FrameType
    <2>3. /\ stage'[f] = "done" /\ \A g \in Frames : g # f => stage'[g] = stage[g]
          /\ wire[from[f]] = "open" => reply'[f] = "limited"
      BY <1>0, <2>1, <2>2 DEF FrameInv, FrameType
    <2>4. Placed'
      BY <1>0, <1>2, <2>1, <2>2, <2>3 DEF Placed, Waiting, Windowless, InLimiter
    <2>5. AnsweredUnlessGone'
      BY <1>0, <1>2, <2>1, <2>2, <2>3 DEF AnsweredUnlessGone
    <2> QED
      BY <1>1, <2>4, <2>5 DEF FrameInv
  <1> QED
    BY <1>4, <1>5

LEMMA FrameFinish ==
    ASSUME FrameInv, NEW f \in Frames, NEW outcome \in {"result", "error"},
           NEW encodes \in BOOLEAN, Finish(f, outcome, encodes)
    PROVE  FrameInv'
  <1>1. HeapType' /\ FrameType'
    BY DEF Finish, Send, limitVars, FrameInv, HeapType, FrameType, Stages, InLimiter
  <1>2. Placed' /\ AnsweredUnlessGone'
    BY DEF Finish, Send, limitVars, doorVars, FrameInv, FrameType, Placed,
           AnsweredUnlessGone, Windowless, Waiting, InLimiter
  <1> QED
    BY <1>1, <1>2 DEF FrameInv

LEMMA FrameInvStep == FrameInv /\ DoorInv /\ [Next]_vars => FrameInv'
  BY FrameDoor, FrameArrive, FrameGetOrCreate, FrameConsume, FrameJudge, FrameFinish
  DEF FrameStep

LEMMA FrameInvariance == Spec => []FrameInv
  BY FrameInit, FrameInvStep, DoorInvariance, PTL DEF Spec

\* No call on an open connection is lost between the limiter, the executor and
\* the dispatcher: it is refused by the first or answered by the last, unless
\* sendToConnection swallowed an answer it could not encode.
THEOREM EveryCallIsAnswered == Spec => []AnsweredUnlessGone
  <1>1. FrameInv => AnsweredUnlessGone
    BY DEF FrameInv
  <1> QED
    BY <1>1, FrameInvariance, PTL

-----------------------------------------------------------------------------
(* A window's count is the number of frames counted in it. *)

Counted(w) == {f \in Frames : window[f] = w /\ stage[f] \in {"saved", "handling", "done"}}
Counts == \A w \in 1..Len(heap) : heap[w].count = Cardinality(Counted(w))

LEMMA CountsInit == Init => Counts
  BY EmptySeq DEF Init, Counts

LEMMA CountsStep ==
    ASSUME Counts, FrameInv, DoorInv, [Next]_vars
    PROVE  Counts'
  <1>0. /\ HeapType /\ FrameType /\ Placed
        /\ Len(heap) \in Nat
    BY LenProperties DEF FrameInv, HeapType
  <1>1. CASE ~FrameStep
    <2>1. UNCHANGED <<heap, window, stage>>
      BY <1>1, FrameDoor DEF limitVars, frameVars
    <2> QED
      BY <2>1 DEF Counts, Counted
  <1>2. ASSUME NEW f \in Frames, NEW c \in Conns, NEW k, Arrive(f, c, k)
        PROVE  Counts'
    <2>1. UNCHANGED <<heap, window>> /\ stage[f] = "new"
          /\ stage' = [stage EXCEPT ![f] = "get"]
      BY <1>2 DEF Arrive, limitVars
    <2>2. \A w : Counted(w)' = Counted(w)
      BY <1>0, <2>1 DEF Counted, FrameType
    <2> QED
      BY <2>1, <2>2 DEF Counts
  <1>3. ASSUME NEW f \in Frames, GetOrCreate(f)
        PROVE  Counts'
    <2>1. /\ stage[f] = "get" /\ stage' = [stage EXCEPT ![f] = "have"]
          /\ \A g \in Frames : g # f => window'[g] = window[g]
      BY <1>0, <1>3 DEF GetOrCreate, FrameType
    <2>2. \A w : Counted(w)' = Counted(w)
      BY <1>0, <2>1 DEF Counted, FrameType
    <2>3. CASE heap' = heap
      BY <2>2, <2>3 DEF Counts
    <2>4. CASE /\ Len(heap') = Len(heap) + 1
               /\ \A w \in 1..Len(heap) : heap'[w] = heap[w]
               /\ heap'[Len(heap')].count = 0
      <3>1. Counted(Len(heap')) = {}
        BY <1>0, <2>4 DEF Counted, FrameType
      <3>2. \A w \in 1..Len(heap') : w \in 1..Len(heap) \/ w = Len(heap')
        BY <1>0, <2>4
      <3> QED
        BY <2>2, <2>4, <3>1, <3>2, FS_EmptySet DEF Counts
    <2> QED
      BY <1>3, <2>3, <2>4, FrameGetOrCreate
  <1>4. ASSUME NEW f \in Frames, Consume(f)
        PROVE  Counts'
    <2>1. /\ stage[f] = "have" /\ stage' = [stage EXCEPT ![f] = "saved"]
          /\ window' = window
      BY <1>4 DEF Consume
    <2>2. ASSUME NEW w \in 1..Len(heap')
          PROVE  heap'[w].count = Cardinality(Counted(w)')
      <3>1. w \in 1..Len(heap) /\ heap[w].count = Cardinality(Counted(w))
        BY <1>4, <2>2, FrameConsume DEF Counts
      <3>2. heap'[w].count = heap[w].count + (IF w = window[f] THEN 1 ELSE 0)
        BY <1>4, <3>1, FrameConsume
      <3>3. IsFiniteSet(Counted(w)) /\ f \notin Counted(w)
        BY <2>1, FramesFinite, FS_Subset DEF Counted
      <3>4. CASE w = window[f]
        <4>1. Counted(w)' = Counted(w) \cup {f}
          BY <1>0, <2>1, <3>4 DEF Counted, FrameType
        <4> QED
          BY ZenonT(40), <3>1, <3>2, <3>3, <3>4, <4>1, FS_AddElement
      <3>5. CASE w # window[f]
        <4>1. Counted(w)' = Counted(w)
          BY <1>0, <2>1, <3>5 DEF Counted, FrameType
        <4>2. Cardinality(Counted(w)) \in Nat
          BY <3>3, FS_CardinalityType
        <4> QED
          BY <3>1, <3>2, <3>5, <4>1, <4>2
      <3> QED
        BY <3>4, <3>5
    <2> QED
      BY <2>2 DEF Counts
  <1>5. ASSUME NEW f \in Frames, Judge(f) \/ \E outcome, encodes : Finish(f, outcome, encodes)
        PROVE  Counts'
    <2>1. /\ UNCHANGED <<heap, window>> /\ stage[f] \in {"saved", "handling"}
          /\ \E s \in {"handling", "done"} : stage' = [stage EXCEPT ![f] = s]
      BY <1>5 DEF Judge, Dispatched, Routed, Finish, limitVars
    <2>2. \A w : Counted(w)' = Counted(w)
      BY <1>0, <2>1 DEF Counted, FrameType
    <2> QED
      BY <2>1, <2>2 DEF Counts
  <1> QED
    BY <1>1, <1>2, <1>3, <1>4, <1>5 DEF FrameStep

\* TypeOK, with the bound on the counts: no window counts a frame twice.
THEOREM TypeCorrect == Spec => []TypeOK
  <1>1. DoorInv /\ FrameInv /\ Counts => TypeOK
    <2> SUFFICES ASSUME DoorInv, FrameInv, Counts
                 PROVE  TypeOK
      OBVIOUS
    <2>1. gauge \in Nat
      BY FS_CardinalityType DEF DoorInv, Registered
    <2>2. heap \in Seq(Window)
      <3>1. ASSUME NEW w \in 1..Len(heap)
            PROVE  heap[w] \in Window
        <4>1. heap[w] \in [count: Nat, resetAt: Nat]
          BY ElementOfSeq DEF FrameInv, HeapType
        <4>2. /\ Cardinality(Counted(w)) <= Cardinality(Frames)
              /\ IsFiniteSet(Counted(w))
          BY FramesFinite, FS_Subset DEF Counted
        <4>3. heap[w].count \in 0..Cardinality(Frames)
          BY <4>2, FramesFinite, FS_CardinalityType DEF Counts
        <4> QED
          BY <4>1, <4>3 DEF Window
      <3>2. Len(heap) \in Nat /\ heap \in [1..Len(heap) -> [count: Nat, resetAt: Nat]]
        BY LenProperties DEF FrameInv, HeapType
      <3>3. heap \in [1..Len(heap) -> Window]
        BY <3>1, <3>2
      <3> QED
        BY <3>2, <3>3
    <2> QED
      BY <2>1, <2>2 DEF TypeOK, DoorInv, DoorType, Registered, FrameInv, FrameType, Stages
  <1>2. Spec => []Counts
    BY CountsInit, CountsStep, FrameInvariance, DoorInvariance, PTL DEF Spec
  <1> QED
    BY <1>1, <1>2, DoorInvariance, FrameInvariance, PTL

-----------------------------------------------------------------------------
(* The quota of connections whose frames do not overlap in the limiter. *)

\* Every window belongs to one connection: frames of two connections never
\* meet in one.
Owns(owner) ==
    /\ \A f \in Frames : /\ window[f] # 0 => owner[window[f]] = from[f]
                         /\ seen[f] # 0 => owner[seen[f]] = from[f]
    /\ \A c \in Conns : store[c] # 0 => owner[store[c]] = c
Owned == \E owner \in [1..Len(heap) -> Conns] : Owns(owner)

Alone ==
    \A f, g \in Frames :
        /\ stage[f] \in InLimiter /\ stage[g] \in InLimiter
        /\ from[f] = from[g] /\ from[f] \notin overlapped
        => f = g

Serial(w) == \A f \in Frames : window[f] = w => from[f] \notin overlapped
JudgedIn(w) == {f \in Frames : window[f] = w /\ Judged(f)}
Quota(n) == IF n < MaxRequests THEN n ELSE MaxRequests
QuotaMet ==
    \A w \in 1..Len(heap) :
        Serial(w) => Cardinality(JudgedIn(w) \cap passed) = Quota(Cardinality(JudgedIn(w)))

PassedJudged == \A f \in passed : Judged(f)

LimitInv == Owned /\ Alone /\ PassedJudged /\ QuotaMet

LEMMA LimitInit == Init => LimitInv
  <1> SUFFICES ASSUME Init
               PROVE  LimitInv
    OBVIOUS
  <1>1. Owned
    <2>1. [w \in 1..Len(heap) |-> CHOOSE c \in Conns : TRUE] \in [1..Len(heap) -> Conns]
      BY EmptySeq DEF Init
    <2> QED
      BY <2>1 DEF Init, Owned, Owns
  <1> QED
    BY <1>1, EmptySeq DEF Init, LimitInv, Alone, InLimiter, PassedJudged, QuotaMet

LEMMA LimitArrive ==
    ASSUME LimitInv, FrameInv, NEW f \in Frames, NEW c \in Conns, NEW k, Arrive(f, c, k)
    PROVE  LimitInv'
  <1>1. /\ stage[f] = "new" /\ stage' = [stage EXCEPT ![f] = "get"]
        /\ from' = [from EXCEPT ![f] = c] /\ seen' = [seen EXCEPT ![f] = store[c]]
        /\ window[f] = 0
        /\ UNCHANGED <<heap, store, window, passed>>
    BY DEF Arrive, limitVars, FrameInv, Placed, Windowless
  <1>2. overlapped' = IF \E g \in Frames : from[g] = c /\ stage[g] \in InLimiter
                      THEN overlapped \cup {c} ELSE overlapped
    BY DEF Arrive
  <1>3. Owned'
    BY <1>1 DEF LimitInv, Owned, Owns, FrameInv, FrameType
  <1>4. Alone'
    BY <1>1, <1>2 DEF LimitInv, Alone, FrameInv, FrameType, InLimiter
  <1>5. PassedJudged'
    BY <1>1 DEF LimitInv, PassedJudged, Judged, FrameInv, FrameType
  <1>6. \A w \in 1..Len(heap) : JudgedIn(w)' = JudgedIn(w) /\ (Serial(w)' => Serial(w))
    BY <1>1, <1>2 DEF JudgedIn, Judged, Serial, FrameInv, FrameType
  <1>7. QuotaMet'
    BY <1>1, <1>6 DEF LimitInv, QuotaMet, Quota
  <1> QED
    BY <1>3, <1>4, <1>5, <1>7 DEF LimitInv

LEMMA LimitGetOrCreate ==
    ASSUME LimitInv, FrameInv, NEW f \in Frames, GetOrCreate(f)
    PROVE  LimitInv'
  <1>1. /\ stage[f] = "get" /\ stage' = [stage EXCEPT ![f] = "have"]
        /\ from[f] \in Conns /\ window[f] = 0
        /\ UNCHANGED <<from, seen, passed, overlapped>>
        /\ Len(heap) \in Nat
    BY FrameGetOrCreate DEF GetOrCreate, FrameInv, Placed, Windowless
  <1>2. Alone' /\ PassedJudged'
    BY <1>1 DEF LimitInv, Alone, PassedJudged, Judged, InLimiter, FrameInv, FrameType
  <1>3. PICK owner \in [1..Len(heap) -> Conns] : Owns(owner)
    BY DEF LimitInv, Owned
  <1>4. CASE heap' = heap /\ store' = store /\ seen[f] # 0
             /\ window' = [window EXCEPT ![f] = seen[f]]
    <2>1. Owns(owner)'
      BY <1>1, <1>3, <1>4 DEF Owns, FrameInv, FrameType
    <2>2. Owned'
      BY <1>3, <1>4, <2>1 DEF Owned
    <2>3. \A w \in 1..Len(heap) : JudgedIn(w)' = JudgedIn(w) /\ (Serial(w)' => Serial(w))
      BY <1>1, <1>4 DEF JudgedIn, Judged, Serial, FrameInv, FrameType
    <2>4. QuotaMet'
      BY <1>1, <1>4, <2>3 DEF LimitInv, QuotaMet, Quota
    <2> QED
      BY <1>2, <2>2, <2>4 DEF LimitInv
  <1>5. CASE /\ Len(heap') = Len(heap) + 1
             /\ store' = [store EXCEPT ![from[f]] = Len(heap')]
             /\ window' = [window EXCEPT ![f] = Len(heap')]
    <2>0. PICK n : n = Len(heap') /\ n = Len(heap) + 1
      BY <1>5
    <2>1. PICK next \in [1..n -> Conns] :
              next[n] = from[f] /\ \A w \in 1..Len(heap) : next[w] = owner[w]
      <3> DEFINE longer == [w \in 1..n |-> IF w = n THEN from[f] ELSE owner[w]]
      <3>1. longer \in [1..n -> Conns]
        BY <1>1, <1>3, <2>0
      <3>2. longer[n] = from[f] /\ \A w \in 1..Len(heap) : longer[w] = owner[w]
        BY <1>1, <2>0
      <3> HIDE DEF longer
      <3> QED
        BY <3>1, <3>2
    <2>2. ASSUME NEW g \in Frames
          PROVE  /\ window'[g] # 0 => next[window'[g]] = from'[g]
                 /\ seen'[g] # 0 => next[seen'[g]] = from'[g]
      <3>1. /\ window[g] # 0 => window[g] \in 1..Len(heap)
            /\ seen[g] # 0 => seen[g] \in 1..Len(heap)
            /\ window'[g] = IF g = f THEN n ELSE window[g]
        BY <1>1, <1>5, <2>0 DEF FrameInv, FrameType
      <3> QED
        BY <1>1, <1>3, <2>1, <3>1 DEF Owns
    <2>3. ASSUME NEW c \in Conns
          PROVE  store'[c] # 0 => next[store'[c]] = c
      <3>1. /\ store[c] # 0 => store[c] \in 1..Len(heap)
            /\ store'[c] = IF c = from[f] THEN n ELSE store[c]
        BY <1>1, <1>5, <2>0 DEF FrameInv, FrameType
      <3> QED
        BY <1>3, <2>1, <3>1 DEF Owns
    <2>4. Owned'
      <3>1. Owns(next)'
        BY <2>2, <2>3 DEF Owns
      <3> QED
        BY <2>0, <2>1, <3>1 DEF Owned
    <2>5. \A w \in 1..Len(heap) : JudgedIn(w)' = JudgedIn(w) /\ (Serial(w)' => Serial(w))
      BY <1>1, <1>5 DEF JudgedIn, Judged, Serial, FrameInv, FrameType
    <2>6. JudgedIn(n)' = {}
      BY <1>1, <1>5, <2>0 DEF JudgedIn, Judged, FrameInv, FrameType
    <2>7. \A w \in 1..Len(heap') : w \in 1..Len(heap) \/ w = n
      BY <1>1, <2>0
    <2>8. Quota(0) = 0
      BY LimitsAreNat DEF Quota
    <2>9. QuotaMet'
      <3>1. ASSUME NEW w \in 1..Len(heap), Serial(w)'
            PROVE  Cardinality(JudgedIn(w) \cap passed)' = Quota(Cardinality(JudgedIn(w)))'
        BY <1>1, <2>5, <3>1 DEF LimitInv, QuotaMet, Quota
      <3>2. Cardinality(JudgedIn(n) \cap passed)' = Quota(Cardinality(JudgedIn(n)))'
        BY <2>6, <2>8, FS_EmptySet DEF Quota
      <3> QED
        BY <2>7, <3>1, <3>2 DEF QuotaMet
    <2> QED
      BY <1>2, <2>4, <2>9 DEF LimitInv
  <1> QED
    BY <1>4, <1>5, FrameGetOrCreate

LEMMA LimitConsume ==
    ASSUME LimitInv, FrameInv, NEW f \in Frames, Consume(f)
    PROVE  LimitInv'
  <1>1. /\ stage[f] = "have" /\ stage' = [stage EXCEPT ![f] = "saved"]
        /\ store' = [store EXCEPT ![from[f]] = window[f]]
        /\ UNCHANGED <<from, seen, window, passed, overlapped>>
        /\ Len(heap') = Len(heap)
    BY FrameConsume DEF Consume
  <1>2. Owned'
    BY ZenonT(40), <1>1 DEF LimitInv, Owned, Owns, FrameInv, FrameType
  <1>3. Alone' /\ PassedJudged'
    BY <1>1 DEF LimitInv, Alone, PassedJudged, Judged, InLimiter, FrameInv, FrameType
  <1>4. \A w \in 1..Len(heap) : JudgedIn(w)' = JudgedIn(w) /\ Serial(w)' = Serial(w)
    BY <1>1 DEF JudgedIn, Judged, Serial, FrameInv, FrameType
  <1>5. QuotaMet'
    BY <1>1, <1>4 DEF LimitInv, QuotaMet, Quota
  <1> QED
    BY <1>2, <1>3, <1>5 DEF LimitInv

\* In a serial window the frame being judged is the only one not judged yet,
\* so the count it is judged by is one more than the frames judged before.
LEMMA LimitJudge ==
    ASSUME LimitInv, FrameInv, Counts, NEW f \in Frames, Judge(f)
    PROVE  LimitInv'
  <1>1. /\ stage[f] = "saved" /\ f \notin passed
        /\ \E s \in {"handling", "done"} : stage' = [stage EXCEPT ![f] = s]
        /\ passed' = IF Allowed(f) THEN passed \cup {f} ELSE passed
        /\ UNCHANGED <<heap, store, from, seen, window, overlapped>>
    BY DEF Judge, Dispatched, Routed, limitVars, LimitInv, PassedJudged, Judged
  <1>2. Owned'
    BY <1>1 DEF LimitInv, Owned, Owns
  <1>3. Alone' /\ PassedJudged'
    BY <1>1 DEF LimitInv, Alone, PassedJudged, Judged, InLimiter, FrameInv, FrameType
  <1>4. ASSUME NEW w \in 1..Len(heap), Serial(w)
        PROVE  Cardinality(JudgedIn(w) \cap passed)' = Quota(Cardinality(JudgedIn(w)))'
    <2>1. /\ IsFiniteSet(JudgedIn(w)) /\ IsFiniteSet(JudgedIn(w) \cap passed)
          /\ Cardinality(JudgedIn(w)) \in Nat
          /\ Cardinality(JudgedIn(w) \cap passed) \in Nat
      BY FramesFinite, FS_Subset, FS_CardinalityType DEF JudgedIn
    <2>2. Cardinality(JudgedIn(w) \cap passed) = Quota(Cardinality(JudgedIn(w)))
      BY <1>4 DEF LimitInv, QuotaMet
    <2>3. CASE w # window[f]
      <3>1. JudgedIn(w)' = JudgedIn(w) /\ (JudgedIn(w) \cap passed)' = JudgedIn(w) \cap passed
        BY <1>1, <2>3 DEF JudgedIn, Judged, FrameInv, FrameType
      <3> QED
        BY <2>2, <3>1 DEF Quota
    <2>4. CASE w = window[f]
      <3>1. JudgedIn(w)' = JudgedIn(w) \cup {f} /\ f \notin JudgedIn(w)
        BY <1>1, <2>4 DEF JudgedIn, Judged, FrameInv, FrameType
      <3>2. Counted(w) = JudgedIn(w) \cup {f}
        <4>1. PICK owner \in [1..Len(heap) -> Conns] : Owns(owner)
          BY DEF LimitInv, Owned
        <4>2. ASSUME NEW g \in Frames, window[g] = w, stage[g] = "saved"
              PROVE  g = f
          <5>1. w # 0
            BY <1>4, LenProperties DEF FrameInv, HeapType
          <5>2. from[g] = from[f]
            BY <2>4, <4>1, <4>2, <5>1 DEF Owns
          <5> QED
            BY <1>1, <1>4, <2>4, <4>2, <5>2 DEF LimitInv, Alone, InLimiter, Serial
        <4> QED
          BY <1>1, <2>4, <4>2 DEF Counted, JudgedIn, Judged
      <3>3. heap[w].count = Cardinality(JudgedIn(w)) + 1
        BY ZenonT(40), <2>1, <3>1, <3>2, FS_AddElement DEF Counts
      <3>4. Cardinality(JudgedIn(w)') = Cardinality(JudgedIn(w)) + 1
        BY <2>1, <3>1, FS_AddElement
      <3>5. CASE Allowed(f)
        <4>1. (JudgedIn(w) \cap passed)' = (JudgedIn(w) \cap passed) \cup {f}
          BY <1>1, <3>1, <3>5 DEF JudgedIn
        <4>2. Cardinality((JudgedIn(w) \cap passed)') = Cardinality(JudgedIn(w) \cap passed) + 1
          BY <2>1, <3>1, <4>1, FS_AddElement
        <4>3. Cardinality(JudgedIn(w)) + 1 <= MaxRequests
          BY <2>4, <3>3, <3>5 DEF Allowed
        <4> QED
          BY <2>1, <2>2, <3>4, <4>2, <4>3, LimitsAreNat DEF Quota
      <3>6. CASE ~Allowed(f)
        <4>1. (JudgedIn(w) \cap passed)' = JudgedIn(w) \cap passed
          BY <1>1, <3>1, <3>6 DEF JudgedIn
        <4>2. ~(Cardinality(JudgedIn(w)) + 1 <= MaxRequests)
          BY <2>4, <3>3, <3>6 DEF Allowed
        <4>3. ASSUME NEW n \in Nat, ~(n + 1 <= MaxRequests)
              PROVE  Quota(n + 1) = Quota(n)
          BY <4>3, LimitsAreNat DEF Quota
        <4> QED
          BY <2>1, <2>2, <3>4, <4>1, <4>2, <4>3 DEF Quota
      <3> QED
        BY <3>5, <3>6
    <2> QED
      BY <2>3, <2>4
  <1>5. \A w \in 1..Len(heap) : Serial(w)' = Serial(w)
    BY <1>1 DEF Serial
  <1>6. QuotaMet'
    BY <1>1, <1>4, <1>5 DEF QuotaMet
  <1> QED
    BY <1>2, <1>3, <1>6 DEF LimitInv

\* Everything else leaves the limiter's variables alone, or moves a frame from
\* one judged stage to another.
LEMMA LimitElsewhere ==
    ASSUME LimitInv, FrameInv, UNCHANGED <<heap, store, from, seen, window, passed, overlapped>>,
           \/ stage' = stage
           \/ \E f \in Frames : stage[f] = "handling" /\ stage' = [stage EXCEPT ![f] = "done"]
    PROVE  LimitInv'
  <1>1. \A f \in Frames : /\ stage'[f] \in InLimiter <=> stage[f] \in InLimiter
                          /\ Judged(f)' <=> Judged(f)
    BY DEF InLimiter, Judged, FrameInv, FrameType
  <1>2. Owned'
    BY DEF LimitInv, Owned, Owns
  <1>3. Alone'
    <2> SUFFICES ASSUME NEW f \in Frames, NEW g \in Frames,
                        stage'[f] \in InLimiter, stage'[g] \in InLimiter,
                        from[f] = from[g], from[f] \notin overlapped
                 PROVE  f = g
      BY DEF Alone
    <2>1. stage[f] \in InLimiter /\ stage[g] \in InLimiter
      BY <1>1
    <2> QED
      BY <2>1 DEF LimitInv, Alone
  <1>4. PassedJudged'
    <2> SUFFICES ASSUME NEW f \in passed PROVE Judged(f)'
      BY DEF PassedJudged
    <2>1. f \in Frames /\ Judged(f)
      BY DEF LimitInv, PassedJudged, FrameInv, FrameType
    <2> QED
      BY <1>1, <2>1
  <1>5. \A w \in 1..Len(heap) : JudgedIn(w)' = JudgedIn(w) /\ Serial(w)' = Serial(w)
    BY <1>1 DEF JudgedIn, Serial, FrameInv, FrameType
  <1>6. QuotaMet'
    BY <1>5 DEF LimitInv, QuotaMet, Quota
  <1> QED
    BY <1>2, <1>3, <1>4, <1>6 DEF LimitInv

LEMMA LimitStep == LimitInv /\ FrameInv /\ DoorInv /\ Counts /\ [Next]_vars => LimitInv'
  <1> SUFFICES ASSUME LimitInv, FrameInv, DoorInv, Counts, [Next]_vars
               PROVE  LimitInv'
    OBVIOUS
  <1>1. CASE ~FrameStep
    BY <1>1, FrameDoor, LimitElsewhere DEF limitVars, frameVars
  <1>2. ASSUME NEW f \in Frames, NEW outcome, NEW encodes, Finish(f, outcome, encodes)
        PROVE  LimitInv'
    BY <1>2, LimitElsewhere DEF Finish, limitVars
  <1> QED
    BY <1>1, <1>2, LimitArrive, LimitGetOrCreate, LimitConsume, LimitJudge DEF FrameStep

\* Frames that come one at a time get exactly the quota of each window.
THEOREM SerialQuotaIsExact == Spec => []SerialQuota
  <1>1. LimitInv /\ FrameInv => SerialQuota
    <2> SUFFICES ASSUME LimitInv, FrameInv, NEW w \in DOMAIN heap, Serial(w)
                 PROVE  Cardinality(JudgedIn(w) \cap passed) = Quota(Cardinality(JudgedIn(w)))
      BY DEF SerialQuota, Serial, JudgedIn, Quota
    <2>1. w \in 1..Len(heap)
      BY LenProperties DEF FrameInv, HeapType
    <2> QED
      BY <2>1 DEF LimitInv, QuotaMet
  <1>2. Spec => []Counts
    BY CountsInit, CountsStep, FrameInvariance, DoorInvariance, PTL DEF Spec
  <1> QED
    BY <1>1, <1>2, LimitInit, LimitStep, FrameInvariance, DoorInvariance, PTL DEF Spec

=============================================================================
