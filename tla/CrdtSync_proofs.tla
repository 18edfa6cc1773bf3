-------------------------- MODULE CrdtSync_proofs --------------------------
(***************************************************************************)
(* Proofs about CrdtSync, for any clients and backends, any order of the   *)
(* node identifiers, and any numbers of operations and clock readings.     *)
(***************************************************************************)
EXTENDS CrdtSync, SequenceTheorems, FiniteSetTheorems, TLAPS

-----------------------------------------------------------------------------
(* The operators: what they return has the type, and nothing in it is less. *)

Below(v, w) == \A n \in Nodes : v[n] <= w[n]

LEMMA ServerIsNode == Server \in Nodes /\ Server \in Nat /\ Clients \subseteq Nodes
  BY NodesAreNumbers DEF Nodes

LEMMA BumpFacts ==
    ASSUME NEW v \in Vector, NEW op \in Op, NEW name
    PROVE  /\ Bump(v, op, name) \in Vector
           /\ Below(v, Bump(v, op, name))
           /\ \A n \in Nodes : Bump(v, op, name)[n] =
                  IF op.op = name /\ n = op.node THEN v[n] + op.value ELSE v[n]
  <1>1. op.node \in Nodes /\ op.value \in Nat
    BY DEF Op, Nodes
  <1>2. v \in [Nodes -> Nat]
    BY DEF Vector
  <1>3. CASE op.op = name
    <2>1. Bump(v, op, name) = [v EXCEPT ![op.node] = v[op.node] + op.value]
      BY <1>3 DEF Bump
    <2> QED
      BY <1>1, <1>2, <1>3, <2>1 DEF Below, Vector
  <1>4. CASE op.op # name
    BY <1>2, <1>4 DEF Bump, Below
  <1> QED
    BY <1>3, <1>4

LEMMA TwiceFacts ==
    ASSUME NEW v \in Vector, NEW op \in Op, NEW name
    PROVE  /\ Twice(v, op, name) \in Vector
           /\ Below(v, Twice(v, op, name))
           /\ Below(Bump(v, op, name), Twice(v, op, name))
  <1> DEFINE w == Bump(v, op, name)
             x == Bump(w, op, name)
  <1>1. w \in Vector /\ Below(v, w)
    BY BumpFacts
  <1> HIDE DEF w
  <1>2. x \in Vector /\ Below(w, x)
    BY <1>1, BumpFacts
  <1> HIDE DEF x
  <1>3. Below(v, x)
    BY <1>1, <1>2 DEF Below, Vector
  <1> QED
    BY <1>1, <1>2, <1>3 DEF Twice, w, x

LEMMA MaxVectorFacts ==
    ASSUME NEW v \in Vector, NEW w \in Vector
    PROVE  /\ MaxVector(v, w) \in Vector
           /\ Below(v, MaxVector(v, w)) /\ Below(w, MaxVector(v, w))
           /\ \A n \in Nodes : MaxVector(v, w)[n] \in {v[n], w[n]}
  BY DEF Vector, MaxVector, Below

LEMMA PutFacts ==
    ASSUME NEW r \in Register, NEW value \in Nat, NEW ts \in {0} \cup Time
    PROVE  /\ Put(r, value, ts) \in Register
           /\ r.ts \in Nat /\ ts \in Nat /\ Put(r, value, ts).ts \in Nat
           /\ r.ts <= Put(r, value, ts).ts /\ ts <= Put(r, value, ts).ts
           /\ Put(r, value, ts) = r \/ Put(r, value, ts).ts = ts
           /\ Put(Put(r, value, ts), value, ts) = Put(r, value, ts)
  <1>1. r.ts \in Nat /\ ts \in Nat
    BY BoundsAreNat DEF Register, Time
  <1>2. CASE ts >= r.ts
    <2>1. Put(r, value, ts) = [value |-> value, ts |-> ts]
      BY <1>2 DEF Put
    <2> QED
      BY <1>1, <1>2, <2>1 DEF Put, Register
  <1>3. CASE ~(ts >= r.ts)
    <2>1. Put(r, value, ts) = r
      BY <1>3 DEF Put
    <2> QED
      BY <1>1, <1>3, <2>1
  <1> QED
    BY <1>2, <1>3

LEMMA WriteFacts ==
    ASSUME NEW r \in Register, NEW op \in Op
    PROVE  /\ Write(r, op) \in Register
           /\ r.ts \in Nat /\ Write(r, op).ts \in Nat
           /\ r.ts <= Write(r, op).ts
           /\ type = "lww-register" => op.ts <= Write(r, op).ts
           /\ Write(r, op) = r \/ Write(r, op).ts = op.ts
           /\ Write(Write(r, op), op) = Write(r, op)
  <1>1. op.value \in Nat /\ op.ts \in {0} \cup Time
    BY DEF Op
  <1>2. r.ts \in Nat
    BY <1>1, PutFacts
  <1>3. CASE type = "lww-register"
    BY <1>1, <1>3, PutFacts DEF Write
  <1>4. CASE type # "lww-register"
    BY <1>2, <1>4 DEF Write
  <1> QED
    BY <1>3, <1>4

LEMMA WriteFieldFacts ==
    ASSUME NEW m \in Map, NEW op \in Op, NEW f \in Fields
    PROVE  /\ WriteField(m, op, f) \in Map
           /\ \A g \in Fields : /\ m[g].ts \in Nat /\ WriteField(m, op, f)[g].ts \in Nat
                                /\ m[g].ts <= WriteField(m, op, f)[g].ts
  <1>1. op.value \in Nat /\ op.ts \in {0} \cup Time /\ None \in Nat
    BY DEF Op, None
  <1>2. m \in [Fields -> Register]
    BY DEF Map
  <1>3. \A g \in Fields : m[g].ts \in Nat
    BY <1>1, <1>2, PutFacts
  <1>4. ASSUME NEW p \in Register, m[f].ts <= p.ts, p.ts \in Nat,
               WriteField(m, op, f) = [m EXCEPT ![f] = p]
        PROVE  /\ WriteField(m, op, f) \in Map
               /\ \A g \in Fields : /\ m[g].ts \in Nat /\ WriteField(m, op, f)[g].ts \in Nat
                                    /\ m[g].ts <= WriteField(m, op, f)[g].ts
    BY <1>2, <1>3, <1>4 DEF Map
  <1>5. CASE type = "lww-map" /\ op.op = "set"
    <2> DEFINE p == Put(m[f], op.value, op.ts)
    <2>1. WriteField(m, op, f) = [m EXCEPT ![f] = p]
      BY <1>5 DEF WriteField
    <2>2. m[f] \in Register
      BY <1>2
    <2>3. p \in Register /\ m[f].ts <= p.ts /\ p.ts \in Nat
      BY <1>1, <2>2, PutFacts
    <2> HIDE DEF p
    <2> QED
      BY <1>4, <2>1, <2>3
  <1>6. CASE type = "lww-map" /\ op.op = "remove" /\ m[f] # NoField
    <2> DEFINE p == Put(m[f], None, op.ts)
    <2>1. WriteField(m, op, f) = [m EXCEPT ![f] = p]
      BY <1>6 DEF WriteField
    <2>2. m[f] \in Register
      BY <1>2
    <2>3. p \in Register /\ m[f].ts <= p.ts /\ p.ts \in Nat
      BY <1>1, <2>2, PutFacts
    <2> HIDE DEF p
    <2> QED
      BY <1>4, <2>1, <2>3
  <1>7. CASE /\ ~(type = "lww-map" /\ op.op = "set")
             /\ ~(type = "lww-map" /\ op.op = "remove" /\ m[f] # NoField)
    <2>1. WriteField(m, op, f) = m
      BY <1>7 DEF WriteField
    <2> QED
      BY <1>3, <2>1
  <1> QED
    BY <1>5, <1>6, <1>7

LEMMA MergeRegisterFacts ==
    ASSUME NEW n, NEW r \in Register, NEW remote \in Register
    PROVE  /\ MergeRegister(n, r, remote) \in Register
           /\ r.ts \in Nat /\ remote.ts \in Nat
           /\ r.ts <= MergeRegister(n, r, remote).ts
           /\ MergeRegister(n, r, remote) \in {r, remote}
  BY BoundsAreNat DEF MergeRegister, Register, Time

LEMMA MergeMapFacts ==
    ASSUME NEW m \in Map, NEW remote \in State
    PROVE  /\ MergeMap(m, remote) \in Map
           /\ \A g \in Fields : m[g].ts <= MergeMap(m, remote)[g].ts
  <1>1. ASSUME NEW g \in Fields
        PROVE  MergeMap(m, remote)[g] \in Register /\ m[g].ts <= MergeMap(m, remote)[g].ts
    <2>1. /\ m[g] \in Register /\ remote.map[g] \in Nat /\ remote.at \in {0} \cup Time
      BY DEF Map, State
    <2>2. MergeMap(m, remote)[g] = IF remote.map[g] = None THEN m[g]
                                   ELSE Put(m[g], remote.map[g], remote.at)
      BY DEF MergeMap
    <2>3. CASE remote.map[g] = None
      BY <2>1, <2>2, <2>3, BoundsAreNat DEF Register, Time
    <2>4. CASE remote.map[g] # None
      <3> DEFINE p == Put(m[g], remote.map[g], remote.at)
      <3>1. p \in Register /\ m[g].ts <= p.ts
        BY <2>1, PutFacts
      <3> QED
        BY <2>2, <2>4, <3>1
    <2> QED
      BY <2>3, <2>4
  <1> QED
    BY <1>1 DEF MergeMap, Map

-----------------------------------------------------------------------------
(* Types, and replicas that grow. *)

Risen ==
    \A n \in Nodes :
        /\ \A m \in Nodes : inc'[n][m] >= inc[n][m] /\ dec'[n][m] >= dec[n][m]
        /\ reg'[n].ts >= reg[n].ts
        /\ \A f \in Fields : map'[n][f].ts >= map[n][f].ts

ReplicasTyped ==
    /\ inc \in [Nodes -> Vector] /\ dec \in [Nodes -> Vector]
    /\ reg \in [Nodes -> Register] /\ map \in [Nodes -> Map]

\* One replica has changed, and only upwards.
LEMMA OneRises ==
    ASSUME ReplicasTyped, NEW n \in Nodes,
           NEW v \in Vector, NEW w \in Vector, NEW r \in Register, NEW m \in Map,
           inc' = [inc EXCEPT ![n] = v], Below(inc[n], v),
           dec' = [dec EXCEPT ![n] = w], Below(dec[n], w),
           reg' = [reg EXCEPT ![n] = r], reg[n].ts <= r.ts,
           map' = [map EXCEPT ![n] = m], \A f \in Fields : map[n][f].ts <= m[f].ts
    PROVE  ReplicasTyped' /\ Risen
  <1>1. ReplicasTyped'
    BY DEF ReplicasTyped
  <1>2. ASSUME NEW k \in Nodes
        PROVE  /\ \A j \in Nodes : inc'[k][j] >= inc[k][j] /\ dec'[k][j] >= dec[k][j]
               /\ reg'[k].ts >= reg[k].ts
               /\ \A f \in Fields : map'[k][f].ts >= map[k][f].ts
    <2>1. /\ \A j \in Nodes : inc[k][j] \in Nat /\ dec[k][j] \in Nat
          /\ reg[k].ts \in Nat /\ r.ts \in Nat
          /\ \A f \in Fields : map[k][f].ts \in Nat /\ m[f].ts \in Nat
      BY BoundsAreNat DEF ReplicasTyped, Vector, Register, Map, Time
    <2>2. CASE k = n
      <3>1. inc'[k] = v /\ dec'[k] = w /\ reg'[k] = r /\ map'[k] = m
        BY <2>2 DEF ReplicasTyped
      <3> QED
        BY <2>1, <2>2, <3>1 DEF Below, Vector
    <2>3. CASE k # n
      <3>1. inc'[k] = inc[k] /\ dec'[k] = dec[k] /\ reg'[k] = reg[k] /\ map'[k] = map[k]
        BY <2>3 DEF ReplicasTyped
      <3> QED
        BY <2>1, <3>1
    <2> QED
      BY <2>2, <2>3
  <1> QED
    BY <1>1, <1>2 DEF Risen

LEMMA ApplyOpFacts ==
    ASSUME ReplicasTyped, NEW n \in Nodes, NEW op \in Op, ApplyOp(n, op)
    PROVE  ReplicasTyped' /\ Risen
  <1> DEFINE v == Bump(inc[n], op, "increment")
             w == Bump(dec[n], op, "decrement")
             r == Write(reg[n], op)
             m == WriteField(map[n], op, FieldOf(n))
  <1>1. /\ inc[n] \in Vector /\ dec[n] \in Vector /\ reg[n] \in Register
        /\ map[n] \in Map /\ FieldOf(n) \in Fields
    BY DEF ReplicasTyped, FieldOf, Fields
  <1>2. /\ v \in Vector /\ Below(inc[n], v) /\ w \in Vector /\ Below(dec[n], w)
        /\ r \in Register /\ reg[n].ts <= r.ts
        /\ m \in Map /\ \A f \in Fields : map[n][f].ts <= m[f].ts
    BY <1>1, BumpFacts, WriteFacts, WriteFieldFacts
  <1>3. /\ inc' = [inc EXCEPT ![n] = v] /\ dec' = [dec EXCEPT ![n] = w]
        /\ reg' = [reg EXCEPT ![n] = r] /\ map' = [map EXCEPT ![n] = m]
    BY DEF ApplyOp
  <1> HIDE DEF v, w, r, m
  <1> QED
    BY <1>2, <1>3, OneRises

LEMMA ApplyAndHearFacts ==
    ASSUME ReplicasTyped, NEW op \in Op, ApplyAndHear(op)
    PROVE  /\ ReplicasTyped' /\ Risen
           /\ reg' = [reg EXCEPT ![Server] = Write(reg[Server], op)]
           /\ \A c \in Clients : inc'[c] = inc[c] /\ dec'[c] = dec[c]
           /\ Below(Bump(inc[Server], op, "increment"), inc'[Server])
           /\ Below(Bump(dec[Server], op, "decrement"), dec'[Server])
  <1> USE ServerIsNode
  <1>1. /\ inc[Server] \in Vector /\ dec[Server] \in Vector /\ reg[Server] \in Register
        /\ map[Server] \in Map /\ "key" \in Fields /\ FieldOf(Server) = "key"
    BY DEF ReplicasTyped, FieldOf, Fields
  <1>2. CASE backend = "memory"
    <2> DEFINE v == Twice(inc[Server], op, "increment")
               w == Twice(dec[Server], op, "decrement")
               r == Write(Write(reg[Server], op), op)
               m1 == WriteField(map[Server], op, "key")
               m == WriteField(m1, op, "key")
    <2>1. /\ v \in Vector /\ Below(inc[Server], v) /\ w \in Vector /\ Below(dec[Server], w)
          /\ Below(Bump(inc[Server], op, "increment"), v)
          /\ Below(Bump(dec[Server], op, "decrement"), w)
          /\ r = Write(reg[Server], op)
          /\ r \in Register /\ reg[Server].ts <= r.ts
      BY <1>1, TwiceFacts, WriteFacts
    <2>2. /\ m1 \in Map /\ \A f \in Fields : /\ map[Server][f].ts \in Nat
                                            /\ m1[f].ts \in Nat
                                            /\ map[Server][f].ts <= m1[f].ts
      BY <1>1, WriteFieldFacts
    <2>3. m \in Map /\ \A f \in Fields : map[Server][f].ts <= m[f].ts
      <3> HIDE DEF m1
      <3>1. m \in Map /\ \A f \in Fields : m[f].ts \in Nat /\ m1[f].ts <= m[f].ts
        BY <1>1, <2>2, WriteFieldFacts
      <3> HIDE DEF m
      <3> QED
        BY <2>2, <3>1
    <2>4. /\ inc' = [inc EXCEPT ![Server] = v] /\ dec' = [dec EXCEPT ![Server] = w]
          /\ reg' = [reg EXCEPT ![Server] = r] /\ map' = [map EXCEPT ![Server] = m]
      BY <1>2 DEF ApplyAndHear
    <2> HIDE DEF v, w, r, m, m1
    <2>5. ReplicasTyped' /\ Risen
      BY <2>1, <2>3, <2>4, OneRises
    <2> QED
      BY <2>1, <2>4, <2>5, ServerIsNoClient DEF ReplicasTyped
  <1>3. CASE backend # "memory"
    <2>1. ApplyOp(Server, op)
      BY <1>3 DEF ApplyAndHear
    <2>2. ReplicasTyped' /\ Risen
      BY <2>1, ApplyOpFacts
    <2>3. /\ inc' = [inc EXCEPT ![Server] = Bump(inc[Server], op, "increment")]
          /\ dec' = [dec EXCEPT ![Server] = Bump(dec[Server], op, "decrement")]
          /\ reg' = [reg EXCEPT ![Server] = Write(reg[Server], op)]
      BY <2>1 DEF ApplyOp
    <2>4. /\ inc'[Server] = Bump(inc[Server], op, "increment")
          /\ dec'[Server] = Bump(dec[Server], op, "decrement")
          /\ \A c \in Clients : inc'[c] = inc[c] /\ dec'[c] = dec[c]
      BY <2>3, ServerIsNoClient DEF ReplicasTyped
    <2>5. /\ Below(inc'[Server], inc'[Server]) /\ Below(dec'[Server], dec'[Server])
      BY <2>2 DEF ReplicasTyped, Vector, Below
    <2> QED
      BY <2>2, <2>3, <2>4, <2>5
  <1> QED
    BY <1>2, <1>3

MergedFacts(c, remote) ==
    /\ inc' = [inc EXCEPT ![c] = MaxVector(inc[c], remote.inc)]
    /\ dec' = [dec EXCEPT ![c] = MaxVector(dec[c], remote.dec)]
    /\ reg' = [reg EXCEPT ![c] = MergeRegister(c, reg[c], remote.reg)]
    /\ map' = [map EXCEPT ![c] = MergeMap(map[c], remote)]

LEMMA MergeFacts ==
    ASSUME ReplicasTyped, NEW c \in Clients, NEW remote \in State,
           MergedFacts(c, remote)
    PROVE  ReplicasTyped' /\ Risen
  <1> DEFINE v == MaxVector(inc[c], remote.inc)
             w == MaxVector(dec[c], remote.dec)
             r == MergeRegister(c, reg[c], remote.reg)
             m == MergeMap(map[c], remote)
  <1>1. /\ c \in Nodes /\ inc[c] \in Vector /\ dec[c] \in Vector
        /\ reg[c] \in Register /\ map[c] \in Map
        /\ remote.inc \in Vector /\ remote.dec \in Vector /\ remote.reg \in Register
    BY ServerIsNode DEF ReplicasTyped, State
  <1>2. /\ v \in Vector /\ Below(inc[c], v) /\ w \in Vector /\ Below(dec[c], w)
        /\ r \in Register /\ reg[c].ts <= r.ts
        /\ m \in Map /\ \A f \in Fields : map[c][f].ts <= m[f].ts
    BY <1>1, MaxVectorFacts, MergeRegisterFacts, MergeMapFacts
  <1>3. /\ inc' = [inc EXCEPT ![c] = v] /\ dec' = [dec EXCEPT ![c] = w]
        /\ reg' = [reg EXCEPT ![c] = r] /\ map' = [map EXCEPT ![c] = m]
    BY DEF MergedFacts
  <1> HIDE DEF v, w, r, m
  <1> QED
    BY <1>1, <1>2, <1>3, OneRises

\* The operation a client makes.
Made(c, name, ts) ==
    [node |-> c, op |-> name, ts |-> ts,
     value |-> CASE name = "set" -> made + 1
                 [] name = "remove" -> None
                 [] OTHER -> 1]

LEMMA MadeType ==
    ASSUME TypeOK, NEW c \in Clients, NEW name \in OpsOf(type), NEW ts \in Time
    PROVE  /\ Made(c, name, ts) \in Op /\ Made(c, name, ts).node = c
           /\ Made(c, name, ts).op = name /\ Made(c, name, ts).ts = ts
           /\ name \in {"increment", "decrement"} => Made(c, name, ts).value = 1
  <1>1. name \in {"increment", "decrement", "set", "remove"}
    BY DEF TypeOK, Types, OpsOf
  <1>2. made + 1 \in Nat /\ None \in Nat /\ 1 \in Nat
    BY BoundsAreNat DEF TypeOK, None
  <1>3. (CASE name = "set" -> made + 1 [] name = "remove" -> None [] OTHER -> 1) \in Nat
    BY <1>1, <1>2
  <1>4. name \in {"increment", "decrement"} =>
            (CASE name = "set" -> made + 1 [] name = "remove" -> None [] OTHER -> 1) = 1
    OBVIOUS
  <1> QED
    BY <1>1, <1>3, <1>4 DEF Made, Op

LEMMA AnswerType ==
    ASSUME ReplicasTyped, NEW op \in Op, NEW at \in Time
    PROVE  Answer(op, at) \in State
  <1>1. /\ inc[Server] \in Vector /\ dec[Server] \in Vector /\ reg[Server] \in Register
        /\ map[Server] \in Map /\ "key" \in Fields
    BY ServerIsNode DEF ReplicasTyped, Fields
  <1>2. /\ Bump(inc[Server], op, "increment") \in Vector
        /\ Bump(dec[Server], op, "decrement") \in Vector
        /\ Write(reg[Server], op) \in Register
        /\ WriteField(map[Server], op, "key") \in Map
    BY <1>1, BumpFacts, WriteFacts, WriteFieldFacts
  <1>3. [f \in Fields |-> WriteField(map[Server], op, "key")[f].value] \in [Fields -> Nat]
    BY <1>2 DEF Map, Register
  <1> QED
    BY <1>2, <1>3 DEF Answer, State

LEMMA TypeInit == Init => TypeOK
  <1> SUFFICES ASSUME Init PROVE TypeOK
    OBVIOUS
  <1>1. inc \in [Nodes -> Vector] /\ dec \in [Nodes -> Vector]
    BY DEF Init, Vector
  <1>2. start \in [Clients -> Time]
    BY DEF Init
  <1>3. reg \in [Nodes -> Register]
    BY <1>2 DEF Init, Register, None, Nodes
  <1>4. map \in [Nodes -> Map]
    BY DEF Init, Map, NoField, Register, None
  <1>5. clock \in [Nodes -> Time]
    <2>1. 1 \in Time
      BY BoundsAreNat DEF Time
    <2> QED
      BY <1>2, <2>1 DEF Init, Nodes
  <1>6. /\ up \in [Clients -> Seq(Op)] /\ down \in [Clients -> Seq(State)]
        /\ loop \in Seq(Op)
    BY EmptySeq DEF Init
  <1>7. made \in 0..MaxOps /\ type \in Types /\ backend \in Backends
    BY BoundsAreNat DEF Init
  <1> QED
    BY <1>1, <1>2, <1>3, <1>4, <1>5, <1>6, <1>7 DEF TypeOK

LEMMA TypeOperate ==
    ASSUME TypeOK, NEW c \in Clients, NEW name \in OpsOf(type), NEW ts \in Time,
           Operate(c, name, ts)
    PROVE  /\ TypeOK' /\ Risen /\ ApplyOp(c, Made(c, name, ts))
           /\ up' = [up EXCEPT ![c] = Append(up[c], Made(c, name, ts))]
  <1> DEFINE op == Made(c, name, ts)
  <1>1. /\ made < MaxOps /\ clock' = [clock EXCEPT ![c] = ts] /\ made' = made + 1
        /\ ApplyOp(c, op) /\ up' = [up EXCEPT ![c] = Append(up[c], op)]
        /\ UNCHANGED <<setup, down, loop, start>>
    BY DEF Operate, Made
  <1>2. op \in Op
    BY MadeType
  <1> HIDE DEF op
  <1>3. ReplicasTyped' /\ Risen
    BY <1>1, <1>2, ApplyOpFacts, ServerIsNode DEF TypeOK, ReplicasTyped
  <1>4. up[c] \in Seq(Op) /\ Append(up[c], op) \in Seq(Op)
    BY <1>2, AppendProperties DEF TypeOK
  <1>5. up' \in [Clients -> Seq(Op)]
    BY <1>1, <1>4 DEF TypeOK
  <1>6. clock' \in [Nodes -> Time]
    BY <1>1, ServerIsNode DEF TypeOK
  <1>7. made' \in 0..MaxOps
    BY <1>1, BoundsAreNat DEF TypeOK
  <1> QED
    BY <1>1, <1>3, <1>5, <1>6, <1>7 DEF TypeOK, ReplicasTyped, setup, op

LEMMA TypeMerge ==
    ASSUME TypeOK, NEW c \in Clients, Merge(c)
    PROVE  /\ TypeOK' /\ Risen
           /\ down[c] \in Seq(State) /\ down[c] # <<>> /\ Head(down[c]) \in State
           /\ MergedFacts(c, Head(down[c]))
           /\ down' = [down EXCEPT ![c] = Tail(down[c])]
  <1> DEFINE remote == Head(down[c])
  <1>1. /\ down[c] # <<>> /\ MergedFacts(c, remote)
        /\ down' = [down EXCEPT ![c] = Tail(down[c])]
        /\ UNCHANGED <<setup, up, loop, clock, made, start>>
    BY DEF Merge, MergedFacts
  <1>2. down[c] \in Seq(State) /\ remote \in State /\ Tail(down[c]) \in Seq(State)
    BY <1>1, HeadTailProperties DEF TypeOK
  <1>3. ReplicasTyped' /\ Risen
    <2> HIDE DEF remote
    <2> QED
      BY <1>1, <1>2, MergeFacts DEF TypeOK, ReplicasTyped
  <1>4. down' \in [Clients -> Seq(State)]
    BY <1>1, <1>2 DEF TypeOK
  <1> QED
    BY <1>1, <1>2, <1>3, <1>4 DEF TypeOK, ReplicasTyped, setup

LEMMA TypeReceive ==
    ASSUME TypeOK, NEW c \in Clients, NEW at \in Time, Receive(c, at)
    PROVE  /\ TypeOK' /\ Risen
           /\ up[c] \in Seq(Op) /\ up[c] # <<>> /\ Head(up[c]) \in Op
           /\ ApplyAndHear(Head(up[c])) /\ Answer(Head(up[c]), at) \in State
           /\ down' = [d \in Clients |-> Append(down[d], Answer(Head(up[c]), at))]
           /\ up' = [up EXCEPT ![c] = Tail(up[c])]
  <1> DEFINE op == Head(up[c])
             answer == Answer(op, at)
  <1>1. /\ up[c] # <<>> /\ Reading(at) /\ ApplyAndHear(op) /\ Publish(op)
        /\ down' = [d \in Clients |-> Append(down[d], answer)]
        /\ up' = [up EXCEPT ![c] = Tail(up[c])]
        /\ UNCHANGED <<setup, made, start>>
    BY DEF Receive
  <1>2. up[c] \in Seq(Op) /\ op \in Op /\ Tail(up[c]) \in Seq(Op)
    BY <1>1, HeadTailProperties DEF TypeOK
  <1>3. answer \in State
    BY <1>2, AnswerType DEF TypeOK, ReplicasTyped
  <1>4. ReplicasTyped' /\ Risen
    <2> HIDE DEF op
    <2> QED
      BY <1>1, <1>2, ApplyAndHearFacts DEF TypeOK, ReplicasTyped
  <1> HIDE DEF answer
  <1>5. down' \in [Clients -> Seq(State)]
    <2>1. \A d \in Clients : Append(down[d], answer) \in Seq(State)
      BY <1>3, AppendProperties DEF TypeOK
    <2> QED
      BY <1>1, <2>1
  <1>6. up' \in [Clients -> Seq(Op)]
    BY <1>1, <1>2 DEF TypeOK
  <1>7. loop' \in Seq(Op)
    <2>1. loop \in Seq(Op) /\ Append(loop, op) \in Seq(Op)
      BY <1>2, AppendProperties DEF TypeOK
    <2>2. backend \in {"memory", "remote"}
      BY BackendsAreKnown DEF TypeOK
    <2>3. loop' \in {loop, Append(loop, op)}
      BY <1>1, <2>2 DEF Publish
    <2> QED
      BY <2>1, <2>3
  <1>8. clock' \in [Nodes -> Time]
    BY <1>1, ServerIsNode DEF Reading, TypeOK
  <1> QED
    BY <1>1, <1>2, <1>3, <1>4, <1>5, <1>6, <1>7, <1>8 DEF TypeOK, ReplicasTyped, setup, answer

LEMMA TypeLoopback ==
    ASSUME TypeOK, Loopback
    PROVE  TypeOK' /\ Risen /\ Head(loop) \in Op
  <1>1. /\ loop # <<>> /\ ApplyOp(Server, Head(loop)) /\ loop' = Tail(loop)
        /\ UNCHANGED <<setup, up, down, clock, made, start>>
    BY DEF Loopback
  <1>2. Head(loop) \in Op /\ Tail(loop) \in Seq(Op)
    BY <1>1, HeadTailProperties DEF TypeOK
  <1>3. ReplicasTyped' /\ Risen
    BY <1>1, <1>2, ApplyOpFacts, ServerIsNode DEF TypeOK, ReplicasTyped
  <1> QED
    BY <1>1, <1>2, <1>3 DEF TypeOK, ReplicasTyped, setup

LEMMA StaysRisen == TypeOK /\ UNCHANGED replicaVars => Risen
  <1> SUFFICES ASSUME TypeOK, UNCHANGED replicaVars, NEW n \in Nodes
               PROVE  /\ \A m \in Nodes : inc[n][m] >= inc[n][m] /\ dec[n][m] >= dec[n][m]
                      /\ reg[n].ts >= reg[n].ts
                      /\ \A f \in Fields : map[n][f].ts >= map[n][f].ts
    BY DEF Risen, replicaVars
  <1>1. /\ \A m \in Nodes : inc[n][m] \in Nat /\ dec[n][m] \in Nat
        /\ reg[n].ts \in Nat /\ \A f \in Fields : map[n][f].ts \in Nat
    BY BoundsAreNat DEF TypeOK, Vector, Register, Map, Time
  <1> QED
    BY <1>1

LEMMA TypeStep == TypeOK /\ [Next]_vars => TypeOK' /\ Risen
  <1> SUFFICES ASSUME TypeOK, [Next]_vars PROVE TypeOK' /\ Risen
    OBVIOUS
  <1>1. CASE \E c \in Clients, name \in OpsOf(type), ts \in Time : Operate(c, name, ts)
    BY <1>1, TypeOperate
  <1>2. CASE \E c \in Clients : Merge(c)
    BY <1>2, TypeMerge
  <1>3. CASE \E c \in Clients, at \in Time : Receive(c, at)
    BY <1>3, TypeReceive
  <1>4. CASE Loopback
    BY <1>4, TypeLoopback
  <1>5. CASE UNCHANGED vars
    <2>1. TypeOK'
      BY <1>5 DEF vars, setup, replicaVars, wireVars, TypeOK
    <2> QED
      BY <1>5, <2>1, StaysRisen DEF vars
  <1> QED
    BY <1>1, <1>2, <1>3, <1>4, <1>5 DEF Next

\* Replicas, messages and clocks keep their types (CrdtStore, CrdtManager).
THEOREM TypeCorrect == Spec => []TypeOK
  BY TypeInit, TypeStep, PTL DEF Spec

\* No replica, the server's or a client's, ever lets go of what it has
\* counted or gives a register or a field an older time, in whatever order
\* operations and states arrive and however often the backend brings an
\* operation back (PNCounter, LWWRegister and LWWMap).
THEOREM NothingForgotten == Spec => ReplicasGrow
  <1>1. TypeOK /\ [Next]_vars => [Risen]_vars
    BY TypeStep
  <1> QED
    BY <1>1, TypeCorrect, PTL DEF Spec, ReplicasGrow, Risen

-----------------------------------------------------------------------------
(* Operations of a name in a sequence of them. *)

Pending(s, name) == {k \in 1..Len(s) : s[k].op = name}
Count(s, name) == Cardinality(Pending(s, name))

LEMMA PendingFinite ==
    ASSUME NEW s \in Seq(Op), NEW name
    PROVE  IsFiniteSet(Pending(s, name)) /\ Count(s, name) \in Nat
  <1>1. Len(s) \in Nat /\ Pending(s, name) \in SUBSET (1..Len(s))
    BY DEF Pending
  <1>2. IsFiniteSet(1..Len(s))
    BY <1>1, FS_Interval
  <1> QED
    BY <1>1, <1>2, FS_Subset, FS_CardinalityType DEF Count

LEMMA CountAppend ==
    ASSUME NEW s \in Seq(Op), NEW op \in Op, NEW name
    PROVE  Count(Append(s, op), name) =
               Count(s, name) + (IF op.op = name THEN 1 ELSE 0)
  <1> DEFINE t == Append(s, op)
             n == Len(s) + 1
  <1>1. /\ Len(s) \in Nat /\ Len(t) = n /\ t[n] = op
        /\ \A k \in 1..Len(s) : t[k] = s[k]
    BY AppendProperties
  <1> HIDE DEF t
  <1>2. Pending(t, name) = IF op.op = name THEN Pending(s, name) \cup {n}
                           ELSE Pending(s, name)
    BY <1>1 DEF Pending
  <1>3. n \notin Pending(s, name)
    BY <1>1 DEF Pending
  <1>4. IsFiniteSet(Pending(s, name)) /\ Cardinality(Pending(s, name)) \in Nat
    BY PendingFinite DEF Count
  <1>5. Cardinality(Pending(s, name) \cup {n}) = Cardinality(Pending(s, name)) + 1
    BY <1>3, <1>4, FS_AddElement
  <1> QED
    BY <1>2, <1>4, <1>5 DEF Count, t

LEMMA CountTail ==
    ASSUME NEW s \in Seq(Op), s # <<>>, NEW name
    PROVE  Count(s, name) = Count(Tail(s), name) + (IF Head(s).op = name THEN 1 ELSE 0)
  <1> DEFINE t == Tail(s)
             P == Pending(s, name)
             Q == Pending(t, name)
             f == [k \in Q |-> k + 1]
  <1>1. /\ Len(s) \in Nat /\ Len(s) > 0 /\ Len(t) = Len(s) - 1 /\ t \in Seq(Op)
        /\ \A k \in 1..Len(t) : t[k] = s[k + 1]
        /\ Head(s) = s[1]
    BY HeadTailProperties
  <1> HIDE DEF t
  <1>2. P \ {1} = {k + 1 : k \in Q}
    <2>1. ASSUME NEW k \in P, k # 1
          PROVE  k - 1 \in Q /\ k = (k - 1) + 1
      BY <1>1, <2>1 DEF Pending
    <2>2. ASSUME NEW k \in Q
          PROVE  k + 1 \in P /\ k + 1 # 1
      BY <1>1, <2>2 DEF Pending
    <2> HIDE DEF P, Q
    <2> QED
      BY <2>1, <2>2
  <1>3. 1 \in P <=> Head(s).op = name
    BY <1>1 DEF Pending
  <1>4. IsFiniteSet(P) /\ IsFiniteSet(Q) /\ Cardinality(P) \in Nat /\ Cardinality(Q) \in Nat
    BY <1>1, PendingFinite DEF Count
  <1>5. Q \subseteq Nat
    BY DEF Pending
  <1> HIDE DEF P, Q
  <1>6. f \in Bijection(Q, P \ {1})
    <2>1. f \in [Q -> P \ {1}] /\ \A k \in P \ {1} : \E j \in Q : f[j] = k
      BY <1>2
    <2>2. \A j, k \in Q : f[j] = f[k] => j = k
      BY <1>5
    <2> QED
      BY <2>1, <2>2 DEF Bijection, Injection, Surjection, IsInjective
  <1>7. Cardinality(P \ {1}) = Cardinality(Q)
    BY <1>4, <1>6, FS_Bijection DEF ExistsBijection
  <1>8. Cardinality(P \ {1}) = IF 1 \in P THEN Cardinality(P) - 1 ELSE Cardinality(P)
    BY <1>4, FS_RemoveElement
  <1> QED
    BY <1>3, <1>4, <1>7, <1>8 DEF Count, P, Q, t

LEMMA CountEmpty ==
    ASSUME NEW s, s = <<>>, NEW name
    PROVE  Count(s, name) = 0
  <1>1. Pending(s, name) = {}
    BY EmptySeq DEF Pending
  <1> QED
    BY <1>1, FS_EmptySet DEF Count

-----------------------------------------------------------------------------
(* Counters. *)

Names == {"increment", "decrement"}
Vec(name) == IF name = "increment" THEN inc ELSE dec
Part(s, name) == IF name = "increment" THEN s.inc ELSE s.dec

\* A client's operations are its own, and count one.
Own ==
    \A c \in Clients : \A k \in 1..Len(up[c]) :
        /\ up[c][k].node = c
        /\ up[c][k].op \in Names => up[c][k].value = 1

\* L is the entry for m in the last state the server has broadcast, 0 before:
\* nothing broadcast is above it, a client that has received everything has it,
\* and only the node that counts may be ahead, by what it has still to tell.
Told(name, m, L) ==
    /\ L <= Vec(name)[Server][m]
    /\ \A c \in Clients :
        /\ \A k \in 1..Len(down[c]) : Part(down[c][k], name)[m] <= L
        /\ down[c] # <<>> => Part(down[c][Len(down[c])], name)[m] = L
        /\ down[c] = <<>> => L <= Vec(name)[c][m]
        /\ c # m => Vec(name)[c][m] <= L
        /\ c = m => Vec(name)[c][m] <= L + Count(up[c], name)

CountInv == \A name \in Names, m \in Nodes : \E L \in Nat : Told(name, m, L)

LEMMA VecType ==
    ASSUME TypeOK, NEW name
    PROVE  /\ Vec(name) \in [Nodes -> Vector]
           /\ \A n, m \in Nodes : Vec(name)[n] \in Vector /\ Vec(name)[n][m] \in Nat
           /\ \A s \in State : Part(s, name) \in Vector
           /\ \A s \in State, m \in Nodes : Part(s, name)[m] \in Nat
  <1>1. inc \in [Nodes -> Vector] /\ dec \in [Nodes -> Vector]
    BY DEF TypeOK
  <1>2. \A s \in State : s.inc \in Vector /\ s.dec \in Vector
    BY DEF State
  <1> QED
    BY <1>1, <1>2 DEF Vec, Part, Vector

LEMMA OwnOperate ==
    ASSUME TypeOK, Own, NEW c \in Clients, NEW name \in OpsOf(type), NEW ts \in Time,
           Operate(c, name, ts)
    PROVE  Own'
  <1> DEFINE op == Made(c, name, ts)
  <1>1. op \in Op /\ op.node = c /\ (op.op \in Names => op.value = 1)
    BY MadeType DEF Names
  <1> HIDE DEF op
  <1>2. up' = [up EXCEPT ![c] = Append(up[c], op)]
    BY TypeOperate DEF op
  <1> SUFFICES ASSUME NEW d \in Clients, NEW k \in 1..Len(up'[d])
               PROVE  up'[d][k].node = d /\ (up'[d][k].op \in Names => up'[d][k].value = 1)
    BY DEF Own
  <1>3. CASE d # c
    <2>1. up'[d] = up[d]
      BY <1>2, <1>3 DEF TypeOK
    <2> QED
      BY <2>1 DEF Own
  <1>4. CASE d = c
    <2>1. up'[d] = Append(up[c], op) /\ up[c] \in Seq(Op)
      BY <1>2, <1>4 DEF TypeOK
    <2>2. /\ Len(up'[d]) = Len(up[c]) + 1 /\ up'[d][Len(up[c]) + 1] = op
          /\ \A j \in 1..Len(up[c]) : up'[d][j] = up[c][j]
      BY <1>1, <2>1, AppendProperties
    <2>3. k \in 1..Len(up[c]) \/ k = Len(up[c]) + 1
      BY <2>1, <2>2
    <2> QED
      BY <1>1, <1>4, <2>2, <2>3 DEF Own
  <1> QED
    BY <1>3, <1>4

LEMMA OwnReceive ==
    ASSUME TypeOK, Own, NEW c \in Clients, NEW at \in Time, Receive(c, at)
    PROVE  Own' /\ Head(up[c]).node = c /\ (Head(up[c]).op \in Names => Head(up[c]).value = 1)
  <1>1. /\ up[c] \in Seq(Op) /\ up[c] # <<>> /\ up' = [up EXCEPT ![c] = Tail(up[c])]
    BY TypeReceive
  <1>2. /\ Len(up[c]) \in Nat /\ Len(up[c]) > 0 /\ Head(up[c]) = up[c][1]
        /\ Len(Tail(up[c])) = Len(up[c]) - 1
        /\ \A k \in 1..Len(Tail(up[c])) : Tail(up[c])[k] = up[c][k + 1]
    BY <1>1, HeadTailProperties
  <1>3. ASSUME NEW d \in Clients, NEW k \in 1..Len(up'[d])
        PROVE  up'[d][k].node = d /\ (up'[d][k].op \in Names => up'[d][k].value = 1)
    <2>1. CASE d # c
      <3>1. up'[d] = up[d]
        BY <1>1, <2>1 DEF TypeOK
      <3> QED
        BY <3>1 DEF Own
    <2>2. CASE d = c
      <3>1. up'[d] = Tail(up[c])
        BY <1>1, <2>2 DEF TypeOK
      <3>2. k + 1 \in 1..Len(up[c]) /\ up'[d][k] = up[c][k + 1]
        BY <1>2, <3>1
      <3> QED
        BY <2>2, <3>2 DEF Own
    <2> QED
      BY <2>1, <2>2
  <1>4. 1 \in 1..Len(up[c])
    BY <1>2
  <1> QED
    BY <1>2, <1>3, <1>4 DEF Own

\* The node that counts is one ahead more, and has one more to tell.
LEMMA ToldOperate ==
    ASSUME TypeOK, NEW c \in Clients, NEW op \in Op, op.node = c,
           op.op \in Names => op.value = 1, ApplyOp(c, op),
           up' = [up EXCEPT ![c] = Append(up[c], op)], UNCHANGED down,
           NEW name \in Names, NEW m \in Nodes, NEW L \in Nat, Told(name, m, L)
    PROVE  Told(name, m, L)'
  <1> DEFINE V == Vec(name)
             v == Bump(V[c], op, name)
  <1>1. /\ V \in [Nodes -> Vector] /\ V[c] \in Vector
        /\ \A n \in Nodes : V[n][m] \in Nat
    BY VecType, ServerIsNode
  <1>2. Vec(name)' = [V EXCEPT ![c] = v]
    BY DEF Vec, ApplyOp, Names
  <1>3. v[m] = IF op.op = name /\ m = c THEN V[c][m] + 1 ELSE V[c][m]
    BY <1>1, BumpFacts DEF Names
  <1> HIDE DEF v, V
  <1>4. /\ c \in Nodes /\ Server \in Nodes /\ Server # c
        /\ Vec(name)'[Server] = V[Server]
    BY <1>1, <1>2, ServerIsNode, ServerIsNoClient
  <1>5. ASSUME NEW d \in Clients
        PROVE  /\ down[d] = <<>> => L <= Vec(name)'[d][m]
               /\ d # m => Vec(name)'[d][m] <= L
               /\ d = m => Vec(name)'[d][m] <= L + Count(up'[d], name)
    <2>1. CASE d # c
      <3>1. Vec(name)'[d] = V[d] /\ up'[d] = up[d]
        BY <1>1, <1>2, <2>1, ServerIsNode DEF TypeOK
      <3> QED
        BY <3>1 DEF Told, V
    <2>2. CASE d = c
      <3>1. Vec(name)'[d][m] = v[m] /\ up'[d] = Append(up[c], op) /\ up[c] \in Seq(Op)
        BY <1>1, <1>2, <1>4, <2>2 DEF TypeOK
      <3>2. /\ Count(up'[d], name) = Count(up[c], name) + (IF op.op = name THEN 1 ELSE 0)
            /\ Count(up[c], name) \in Nat /\ V[c][m] \in Nat
        <4>1. /\ Count(Append(up[c], op), name) =
                     Count(up[c], name) + (IF op.op = name THEN 1 ELSE 0)
              /\ Count(up[c], name) \in Nat
          BY <3>1, CountAppend, PendingFinite
        <4> QED
          BY <1>1, <1>4, <3>1, <4>1
      <3>3. /\ down[c] = <<>> => L <= V[c][m]
            /\ c # m => V[c][m] <= L
            /\ c = m => V[c][m] <= L + Count(up[c], name)
        BY DEF Told, V
      <3> QED
        BY <1>3, <2>2, <3>1, <3>2, <3>3
    <2> QED
      BY <2>1, <2>2
  <1> QED
    BY <1>4, <1>5 DEF Told, V

LEMMA ToldMerge ==
    ASSUME TypeOK, NEW c \in Clients, Merge(c),
           NEW name \in Names, NEW m \in Nodes, NEW L \in Nat, Told(name, m, L)
    PROVE  Told(name, m, L)'
  <1> DEFINE V == Vec(name)
             s == down[c]
             remote == Head(s)
             w == Part(remote, name)
             v == MaxVector(V[c], w)
  <1>1. /\ s \in Seq(State) /\ s # <<>> /\ remote \in State
        /\ MergedFacts(c, remote) /\ down' = [down EXCEPT ![c] = Tail(s)]
        /\ up' = up
    BY TypeMerge DEF Merge
  <1>2. /\ V \in [Nodes -> Vector] /\ \A n \in Nodes : V[n] \in Vector /\ V[n][m] \in Nat
        /\ w \in Vector /\ w[m] \in Nat
    BY <1>1, VecType
  <1>3. Vec(name)' = [V EXCEPT ![c] = v]
    BY <1>1 DEF Vec, Part, MergedFacts, Names
  <1>4. c \in Nodes /\ Server \in Nodes /\ Server # c
    BY ServerIsNode, ServerIsNoClient
  <1>5. v \in Vector /\ v[m] \in {V[c][m], w[m]} /\ V[c][m] <= v[m] /\ w[m] <= v[m]
    BY <1>2, <1>4, MaxVectorFacts DEF Below
  <1>6. /\ Len(s) \in Nat /\ Len(s) > 0 /\ remote = s[1]
        /\ Len(Tail(s)) = Len(s) - 1 /\ Tail(s) \in Seq(State)
        /\ \A k \in 1..Len(Tail(s)) : Tail(s)[k] = s[k + 1]
    BY <1>1, HeadTailProperties
  <1>7. /\ \A k \in 1..Len(s) : Part(s[k], name)[m] <= L
        /\ Part(s[Len(s)], name)[m] = L
        /\ c # m => V[c][m] <= L
        /\ c = m => V[c][m] <= L + Count(up[c], name)
        /\ L <= V[Server][m]
    BY <1>1 DEF Told
  <1>8. Count(up[c], name) \in Nat
    BY PendingFinite DEF TypeOK
  <1>9. w[m] <= L
    BY <1>6, <1>7
  <1> HIDE DEF v
  <1>10. ASSUME NEW d \in Clients, d # c
         PROVE  Vec(name)'[d] = V[d] /\ down'[d] = down[d]
    BY <1>1, <1>2, <1>3, <1>10, ServerIsNode DEF TypeOK
  <1>11. Vec(name)'[Server] = V[Server] /\ Vec(name)'[c] = v /\ down'[c] = Tail(s)
    BY <1>1, <1>2, <1>3, <1>4 DEF TypeOK
  <1>12. /\ \A k \in 1..Len(Tail(s)) : Part(Tail(s)[k], name)[m] <= L
         /\ Tail(s) # <<>> => Part(Tail(s)[Len(Tail(s))], name)[m] = L
         /\ Tail(s) = <<>> => L <= v[m]
    <2>1. \A k \in 1..Len(Tail(s)) : Part(Tail(s)[k], name)[m] <= L
      BY <1>6, <1>7
    <2>2. ASSUME Tail(s) # <<>>
          PROVE  Part(Tail(s)[Len(Tail(s))], name)[m] = L
      <3>1. Len(Tail(s)) \in 1..Len(Tail(s)) /\ Len(Tail(s)) + 1 = Len(s)
        BY <1>6, <2>2, EmptySeq
      <3> QED
        BY <1>6, <1>7, <3>1
    <2>3. ASSUME Tail(s) = <<>>
          PROVE  L <= v[m]
      <3>1. Len(Tail(s)) = 0
        BY <2>3, EmptySeq
      <3> QED
        <4>1. Len(s) = 1
          BY <1>6, <3>1
        <4> QED
          BY <1>5, <1>6, <1>7, <4>1
    <2> QED
      BY <2>1, <2>2, <2>3
  <1>13. /\ c # m => v[m] <= L
         /\ c = m => v[m] <= L + Count(up[c], name)
    <2> HIDE DEF V, w, remote, s
    <2> QED
      BY <1>2, <1>4, <1>5, <1>7, <1>8, <1>9
  <1>14. ASSUME NEW d \in Clients
         PROVE  /\ \A k \in 1..Len(down'[d]) : Part(down'[d][k], name)[m] <= L
                /\ down'[d] # <<>> => Part(down'[d][Len(down'[d])], name)[m] = L
                /\ down'[d] = <<>> => L <= Vec(name)'[d][m]
                /\ d # m => Vec(name)'[d][m] <= L
                /\ d = m => Vec(name)'[d][m] <= L + Count(up'[d], name)
    <2>1. CASE d # c
      BY <1>1, <1>10, <2>1 DEF Told
    <2>2. CASE d = c
      BY <1>1, <1>11, <1>12, <1>13, <2>2
    <2> QED
      BY <2>1, <2>2
  <1> QED
    BY <1>7, <1>11, <1>14 DEF Told

LEMMA ToldReceive ==
    ASSUME TypeOK, Own, NEW c \in Clients, NEW at \in Time, Receive(c, at),
           NEW name \in Names, NEW m \in Nodes, NEW L \in Nat, Told(name, m, L)
    PROVE  \E K \in Nat : Told(name, m, K)'
  <1> DEFINE V == Vec(name)
             op == Head(up[c])
             answer == Answer(op, at)
  <1>1. /\ up[c] \in Seq(Op) /\ up[c] # <<>> /\ op \in Op
        /\ ApplyAndHear(op) /\ answer \in State
        /\ down' = [d \in Clients |-> Append(down[d], answer)]
        /\ up' = [up EXCEPT ![c] = Tail(up[c])]
    BY TypeReceive
  <1>2. op.node = c /\ (op.op \in Names => op.value = 1)
    BY OwnReceive
  <1>12. Part(answer, name)[m] \in Nat
    <2> HIDE DEF answer
    <2> QED
      BY <1>1, VecType
  <1>13. PICK K \in Nat : K = Part(answer, name)[m]
    BY <1>12
  <1>3. /\ V \in [Nodes -> Vector] /\ \A n \in Nodes : V[n] \in Vector /\ V[n][m] \in Nat
        /\ \A n \in Nodes : Vec(name)'[n][m] \in Nat
    <2>1. TypeOK'
      BY TypeReceive
    <2>2. \A n \in Nodes : Vec(name)'[n][m] \in Nat
      BY <2>1 DEF TypeOK, Vec, Vector
    <2> QED
      BY <2>2, VecType
  <1>4. K = Bump(V[Server], op, name)[m]
    BY <1>13 DEF Answer, Part, Vec, Names
  <1>5. /\ \A d \in Clients : Vec(name)'[d] = V[d]
        /\ Below(Bump(V[Server], op, name), Vec(name)'[Server])
    <2> HIDE DEF op, V
    <2> QED
      BY <1>1, ApplyAndHearFacts DEF V, Vec, Names, TypeOK, ReplicasTyped
  <1>6. K <= Vec(name)'[Server][m]
    BY <1>4, <1>5 DEF Below
  <1>7. K = IF op.op = name /\ m = c THEN V[Server][m] + 1 ELSE V[Server][m]
    <2> HIDE DEF op, V
    <2> QED
      BY <1>1, <1>2, <1>3, <1>4, BumpFacts, ServerIsNode DEF Names
  <1>8. L <= V[Server][m] /\ V[Server][m] \in Nat /\ L <= K
    <2>1. L <= V[Server][m] /\ V[Server][m] \in Nat
      BY <1>3, ServerIsNode DEF Told
    <2> HIDE DEF V, op
    <2> QED
      BY <1>7, <2>1
  <1>9. ASSUME NEW d \in Clients
        PROVE  /\ \A k \in 1..Len(down'[d]) : Part(down'[d][k], name)[m] <= K
               /\ down'[d] # <<>> /\ Part(down'[d][Len(down'[d])], name)[m] = K
    <2> HIDE DEF answer
    <2>1. down'[d] = Append(down[d], answer) /\ down[d] \in Seq(State)
      BY <1>1 DEF TypeOK
    <2>2. /\ Append(down[d], answer) # <<>>
          /\ Len(Append(down[d], answer)) = Len(down[d]) + 1 /\ Len(down[d]) \in Nat
          /\ Append(down[d], answer)[Len(down[d]) + 1] = answer
          /\ \A k \in 1..Len(down[d]) : Append(down[d], answer)[k] = down[d][k]
      <3>1. answer \in State
        BY <1>1
      <3> QED
        BY <2>1, <3>1, AppendProperties
    <2>3. ASSUME NEW k \in 1..Len(down[d])
          PROVE  Part(down[d][k], name)[m] <= K
      <3>1. Part(down[d][k], name)[m] <= L
        BY DEF Told
      <3>2. down[d][k] \in State
        BY <2>1
      <3>3. Part(down[d][k], name)[m] \in Nat
        BY <3>2, VecType
      <3> QED
        BY <1>3, <1>8, <3>1, <3>3, ServerIsNode
    <2>4. \A k \in 1..Len(down'[d]) : k \in 1..Len(down[d]) \/ k = Len(down[d]) + 1
      BY <2>1, <2>2
    <2>5. K <= K /\ Part(answer, name)[m] = K
      BY <1>13
    <2> QED
      BY <2>1, <2>2, <2>3, <2>4, <2>5
  <1>10. ASSUME NEW d \in Clients
         PROVE  /\ d # m => V[d][m] <= K
                /\ d = m => V[d][m] <= K + Count(up'[d], name)
    <2>1. /\ d # m => V[d][m] <= L
          /\ d = m => V[d][m] <= L + Count(up[d], name)
      BY DEF Told
    <2>2. V[d][m] \in Nat /\ Count(up[d], name) \in Nat /\ Count(up'[d], name) \in Nat
      <3>1. up[d] \in Seq(Op) /\ up'[d] \in Seq(Op)
        BY TypeReceive DEF TypeOK
      <3> QED
        BY <1>3, <3>1, PendingFinite, ServerIsNode
    <2>3. CASE d # c
      <3>1. up'[d] = up[d]
        BY <1>1, <2>3 DEF TypeOK
      <3> HIDE DEF V, op
      <3> QED
        BY <1>3, <1>8, <2>1, <2>2, <3>1
    <2>4. CASE d = c
      <3>1. up'[d] = Tail(up[c])
        BY <1>1, <2>4 DEF TypeOK
      <3>2. Count(up[c], name) = Count(Tail(up[c]), name) + (IF op.op = name THEN 1 ELSE 0)
        BY <1>1, CountTail
      <3> HIDE DEF V, op
      <3>3. CASE d = m /\ op.op = name
        <4>1. K = V[Server][m] + 1 /\ Count(up[d], name) = Count(up'[d], name) + 1
          BY <1>7, <2>4, <3>1, <3>2, <3>3
        <4> QED
          BY <1>3, <1>8, <2>1, <2>2, <3>3, <4>1
      <3>4. CASE d = m /\ op.op # name
        <4>1. Count(up[d], name) = Count(up'[d], name)
          BY <2>2, <2>4, <3>1, <3>2, <3>4
        <4> QED
          BY <1>3, <1>8, <2>1, <2>2, <3>4, <4>1
      <3>5. CASE d # m
        BY <1>3, <1>8, <2>1, <2>2, <3>5
      <3> QED
        BY <3>3, <3>4, <3>5
    <2> QED
      BY <2>3, <2>4
  <1>11. Told(name, m, K)'
    <2> HIDE DEF V, answer, op
    <2>1. ASSUME NEW d \in Clients
          PROVE  /\ \A k \in 1..Len(down'[d]) : Part(down'[d][k], name)[m] <= K
                 /\ down'[d] # <<>> => Part(down'[d][Len(down'[d])], name)[m] = K
                 /\ down'[d] = <<>> => K <= Vec(name)'[d][m]
                 /\ d # m => Vec(name)'[d][m] <= K
                 /\ d = m => Vec(name)'[d][m] <= K + Count(up'[d], name)
      BY <1>5, <1>9, <1>10
    <2> QED
      BY <1>6, <2>1 DEF Told
  <1> QED
    BY <1>11

LEMMA ToldLoopback ==
    ASSUME TypeOK, Loopback,
           NEW name \in Names, NEW m \in Nodes, NEW L \in Nat, Told(name, m, L)
    PROVE  Told(name, m, L)'
  <1>1. /\ \A d \in Clients : Vec(name)'[d] = Vec(name)[d]
        /\ UNCHANGED <<up, down>>
    BY ServerIsNoClient, ServerIsNode DEF Loopback, ApplyOp, Vec, TypeOK
  <1>2. Vec(name)[Server][m] <= Vec(name)'[Server][m]
    BY TypeLoopback, ServerIsNode DEF Risen, Vec
  <1>3. L <= Vec(name)'[Server][m]
    <2>1. L <= Vec(name)[Server][m] /\ Vec(name)[Server][m] \in Nat
      BY VecType, ServerIsNode DEF Told
    <2>2. TypeOK'
      BY TypeLoopback
    <2>3. Vec(name)'[Server][m] \in Nat
      BY <2>2, ServerIsNode DEF TypeOK, Vec, Vector
    <2> QED
      BY <1>2, <2>1, <2>3
  <1> QED
    BY <1>1, <1>3 DEF Told

LEMMA CountInit == Init => Own /\ CountInv
  <1> SUFFICES ASSUME Init PROVE Own /\ CountInv
    OBVIOUS
  <1>1. TypeOK
    BY TypeInit
  <1>2. Own
    BY EmptySeq DEF Init, Own
  <1>3. ASSUME NEW name \in Names, NEW m \in Nodes
        PROVE  Told(name, m, 0)
    <2>1. \A n \in Nodes : Vec(name)[n][m] = 0
      BY DEF Init, Vec
    <2>2. \A c \in Clients : down[c] = <<>> /\ Len(down[c]) = 0 /\ Count(up[c], name) = 0
      BY EmptySeq, CountEmpty DEF Init
    <2>3. ASSUME NEW c \in Clients
          PROVE  /\ down[c] = <<>> /\ \A k \in 1..Len(down[c]) : FALSE
                 /\ Vec(name)[c][m] = 0 /\ Count(up[c], name) = 0
      <3>1. c \in Nodes
        BY ServerIsNode
      <3>2. \A k \in 1..Len(down[c]) : FALSE
        BY <2>2
      <3> QED
        BY <2>1, <2>2, <3>1, <3>2
    <2>4. 0 <= Vec(name)[Server][m]
      BY <2>1, ServerIsNode
    <2> QED
      BY <2>3, <2>4 DEF Told
  <1> QED
    BY <1>2, <1>3 DEF CountInv

LEMMA CountStep == TypeOK /\ Own /\ CountInv /\ [Next]_vars => Own' /\ CountInv'
  <1> SUFFICES ASSUME TypeOK, Own, CountInv, [Next]_vars PROVE Own' /\ CountInv'
    OBVIOUS
  <1>1. ASSUME NEW c \in Clients, NEW name \in OpsOf(type), NEW ts \in Time,
               Operate(c, name, ts)
        PROVE  Own' /\ CountInv'
    <2> DEFINE op == Made(c, name, ts)
    <2>1. /\ op \in Op /\ op.node = c /\ (op.op \in Names => op.value = 1)
          /\ ApplyOp(c, op) /\ up' = [up EXCEPT ![c] = Append(up[c], op)] /\ UNCHANGED down
      <3>1. UNCHANGED down
        BY <1>1 DEF Operate
      <3>2. op \in Op /\ op.node = c /\ (op.op \in Names => op.value = 1)
        BY MadeType DEF Names
      <3> HIDE DEF op
      <3>3. ApplyOp(c, op) /\ up' = [up EXCEPT ![c] = Append(up[c], op)]
        BY <1>1, TypeOperate DEF op
      <3> QED
        BY <3>1, <3>2, <3>3
    <2> HIDE DEF op
    <2>2. CountInv'
      BY <2>1, ToldOperate DEF CountInv
    <2> QED
      BY <1>1, <2>2, OwnOperate
  <1>2. ASSUME NEW c \in Clients, Merge(c)
        PROVE  Own' /\ CountInv'
    <2>1. Own'
      BY <1>2 DEF Merge, Own
    <2>2. CountInv'
      BY <1>2, ToldMerge DEF CountInv
    <2> QED
      BY <2>1, <2>2
  <1>3. ASSUME NEW c \in Clients, NEW at \in Time, Receive(c, at)
        PROVE  Own' /\ CountInv'
    BY <1>3, OwnReceive, ToldReceive DEF CountInv
  <1>4. CASE Loopback
    <2>1. Own'
      BY <1>4 DEF Loopback, Own
    <2>2. CountInv'
      BY <1>4, ToldLoopback DEF CountInv
    <2> QED
      BY <2>1, <2>2
  <1>5. CASE UNCHANGED vars
    BY <1>5 DEF vars, replicaVars, wireVars, Own, CountInv, Told, Vec
  <1> QED
    BY <1>1, <1>2, <1>3, <1>4, <1>5 DEF Next

LEMMA CountersFromInv == TypeOK /\ CountInv => CountersAgree
  <1> SUFFICES ASSUME TypeOK, CountInv, Quiet, NEW c \in Clients, NEW d \in Clients
               PROVE  inc[c] = inc[d] /\ dec[c] = dec[d]
    BY DEF CountersAgree
  <1>1. ASSUME NEW name \in Names, NEW m \in Nodes
        PROVE  Vec(name)[c][m] = Vec(name)[d][m]
    <2>1. PICK L \in Nat : Told(name, m, L)
      BY DEF CountInv
    <2>2. ASSUME NEW e \in Clients
          PROVE  Vec(name)[e][m] = L
      <3>1. Count(up[e], name) = 0 /\ Vec(name)[e][m] \in Nat
        BY VecType, CountEmpty, ServerIsNode DEF Quiet
      <3> QED
        BY <2>1, <3>1 DEF Told, Quiet
    <2> QED
      BY <2>2
  <1>2. inc[c] \in Vector /\ inc[d] \in Vector /\ dec[c] \in Vector /\ dec[d] \in Vector
    BY ServerIsNode DEF TypeOK
  <1>3. \A m \in Nodes : inc[c][m] = inc[d][m] /\ dec[c][m] = dec[d][m]
    BY <1>1 DEF Vec, Names
  <1> QED
    BY <1>2, <1>3 DEF Vector

-----------------------------------------------------------------------------
(* Registers, with the memory backend. *)

\* A client's own write, still on its way, is not older than its register.
Later(c) == \E k \in 1..Len(up[c]) : up[c][k].ts >= reg[c].ts

\* The last state broadcast has the server's register; a client's is newer only
\* by its registration or a write still on its way; and a client that has
\* received everything and gives way in a tie has the server's register, or
\* such a newer one.
Follows(c) ==
    /\ \A k \in 1..Len(down[c]) : down[c][k].reg.ts <= reg[Server].ts
    /\ down[c] # <<>> => down[c][Len(down[c])].reg = reg[Server]
    /\ reg[c].ts <= reg[Server].ts \/ reg[c].ts <= start[c] \/ Later(c)
    /\ down[c] = <<>> /\ reg[Server].ts > 0 /\ c < Server =>
           reg[c] = reg[Server] \/ reg[c].ts > reg[Server].ts \/ Later(c)

RegisterInv ==
    IF type = "lww-register"
    THEN backend = "memory" => loop = <<>> /\ \A c \in Clients : Follows(c)
    ELSE reg[Server].ts = 0

RegisterType(n) == reg[n] \in Register /\ reg[n].ts \in Nat

LEMMA RegisterTypes ==
    ASSUME TypeOK
    PROVE  /\ \A n \in Nodes : RegisterType(n)
           /\ \A s \in State : s.reg \in Register /\ s.reg.ts \in Nat
           /\ \A c \in Clients : start[c] \in Nat /\ start[c] > 0
  <1>1. \A r \in Register : r.ts \in Nat
    BY BoundsAreNat DEF Register, Time
  <1>2. \A s \in State : s.reg \in Register
    BY DEF State
  <1>3. \A c \in Clients : start[c] \in Nat /\ start[c] > 0
    BY BoundsAreNat DEF TypeOK, Time
  <1> QED
    BY <1>1, <1>2, <1>3 DEF TypeOK, RegisterType

LEMMA FollowsOperate ==
    ASSUME TypeOK, type = "lww-register", NEW c \in Clients, NEW op \in Op,
           ApplyOp(c, op), up' = [up EXCEPT ![c] = Append(up[c], op)],
           UNCHANGED <<down, start>>, NEW d \in Clients, Follows(d)
    PROVE  Follows(d)'
  <1> DEFINE r == Write(reg[c], op)
  <1>1. reg' = [reg EXCEPT ![c] = r]
    BY DEF ApplyOp
  <1>2. c \in Nodes /\ d \in Nodes /\ Server \in Nodes /\ Server # c
    BY ServerIsNode, ServerIsNoClient
  <1>3. reg[c] \in Register /\ reg[c].ts \in Nat /\ op.ts \in Nat
    BY <1>2, RegisterTypes, BoundsAreNat DEF RegisterType, Op, Time
  <1>4. r = reg[c] \/ r.ts = op.ts
    BY <1>3, WriteFacts
  <1> HIDE DEF r
  <1>5. reg'[Server] = reg[Server]
    BY <1>1, <1>2 DEF TypeOK
  <1>6. CASE d # c
    <2>1. reg'[d] = reg[d] /\ up'[d] = up[d]
      BY <1>1, <1>2, <1>6 DEF TypeOK
    <2> QED
      BY <1>5, <2>1 DEF Follows, Later
  <1>7. CASE d = c
    <2>1. reg'[c] = r /\ up'[c] = Append(up[c], op) /\ up[c] \in Seq(Op)
      BY <1>1, <1>2 DEF TypeOK
    <2>2. /\ Len(up'[c]) = Len(up[c]) + 1 /\ Len(up[c]) \in Nat
          /\ up'[c][Len(up[c]) + 1] = op
          /\ \A k \in 1..Len(up[c]) : up'[c][k] = up[c][k]
      BY <2>1, AppendProperties
    <2>3. CASE r = reg[c]
      <3>1. Later(c) => Later(c)'
        BY <2>1, <2>2, <2>3 DEF Later
      <3> QED
        BY <1>5, <1>7, <2>1, <2>3, <3>1 DEF Follows
    <2>4. CASE r.ts = op.ts
      <3>1. Len(up[c]) + 1 \in 1..Len(up'[c]) /\ up'[c][Len(up[c]) + 1].ts >= reg'[c].ts
        BY <1>3, <2>1, <2>2, <2>4
      <3>2. Later(c)'
        BY <3>1 DEF Later
      <3> QED
        BY <1>5, <1>7, <3>2 DEF Follows
    <2> QED
      BY <1>4, <2>3, <2>4
  <1> QED
    BY <1>6, <1>7

LEMMA FollowsMerge ==
    ASSUME TypeOK, NEW c \in Clients, Merge(c), NEW d \in Clients, Follows(d)
    PROVE  Follows(d)'
  <1> DEFINE s == down[c]
             remote == Head(s).reg
             r == MergeRegister(c, reg[c], remote)
  <1>1. /\ s \in Seq(State) /\ s # <<>> /\ Head(s) \in State
        /\ reg' = [reg EXCEPT ![c] = r]
        /\ down' = [down EXCEPT ![c] = Tail(s)]
        /\ UNCHANGED <<up, start>>
    BY TypeMerge DEF Merge, MergedFacts
  <1>2. c \in Nodes /\ d \in Nodes /\ Server \in Nodes /\ Server # c
    BY ServerIsNode, ServerIsNoClient
  <1>3. /\ reg[c] \in Register /\ reg[c].ts \in Nat /\ reg[Server].ts \in Nat
        /\ remote \in Register /\ remote.ts \in Nat
    BY <1>1, <1>2, RegisterTypes DEF RegisterType
  <1>4. /\ r \in {reg[c], remote}
        /\ r = reg[c] => \/ reg[c].ts > remote.ts
                         \/ reg[c].ts = remote.ts /\ ~(Server > c)
                         \/ reg[c] = remote
    BY <1>3 DEF MergeRegister
  <1>5. /\ Len(s) \in Nat /\ Len(s) > 0 /\ Head(s) = s[1]
        /\ Len(Tail(s)) = Len(s) - 1 /\ Tail(s) \in Seq(State)
        /\ \A k \in 1..Len(Tail(s)) : Tail(s)[k] = s[k + 1]
    BY <1>1, HeadTailProperties
  <1> HIDE DEF r
  <1>6. reg'[Server] = reg[Server]
    BY <1>1, <1>2 DEF TypeOK
  <1>7. CASE d # c
    <2>1. reg'[d] = reg[d] /\ down'[d] = down[d]
      BY <1>1, <1>2, <1>7 DEF TypeOK
    <2> QED
      BY <1>1, <1>6, <2>1 DEF Follows, Later
  <1>8. CASE d = c
    <2>1. reg'[c] = r /\ down'[c] = Tail(s)
      BY <1>1, <1>2 DEF TypeOK
    <2>2. /\ \A k \in 1..Len(s) : s[k].reg.ts <= reg[Server].ts
          /\ s[Len(s)].reg = reg[Server]
          /\ reg[c].ts <= reg[Server].ts \/ reg[c].ts <= start[c] \/ Later(c)
      BY <1>1, <1>8 DEF Follows
    <2>3. \A k \in 1..Len(Tail(s)) : Tail(s)[k].reg.ts <= reg[Server].ts
      BY <1>5, <2>2
    <2>4. ASSUME Tail(s) # <<>>
          PROVE  Tail(s)[Len(Tail(s))].reg = reg[Server]
      <3>1. Len(Tail(s)) \in 1..Len(Tail(s)) /\ Len(Tail(s)) + 1 = Len(s)
        BY <1>5, <2>4, EmptySeq
      <3> QED
        BY <1>5, <2>2, <3>1
    <2>5. remote.ts <= reg[Server].ts
      BY <1>5, <2>2
    <2>6. r.ts <= reg[Server].ts \/ r.ts <= start[c] \/ Later(c)'
      <3>1. CASE r = remote
        BY <2>5, <3>1
      <3>2. CASE r = reg[c]
        BY <1>1, <2>1, <2>2, <3>2 DEF Later
      <3> QED
        BY <1>4, <3>1, <3>2
    <2>7. ASSUME Tail(s) = <<>>, c < Server
          PROVE  r = reg[Server] \/ r.ts > reg[Server].ts
      <3>1. Len(Tail(s)) = 0
        BY <2>7, EmptySeq
      <3>2. Len(s) = 1
        BY <1>5, <3>1
      <3>3. remote = reg[Server]
        BY <1>5, <2>2, <3>2
      <3>4. c \in Nat /\ Server \in Nat
        BY <1>2, NodesAreNumbers
      <3> QED
        BY <1>3, <1>4, <2>7, <3>3, <3>4
    <2> QED
      BY <1>1, <1>6, <1>8, <2>1, <2>3, <2>4, <2>6, <2>7 DEF Follows
  <1> QED
    BY <1>7, <1>8

LEMMA FollowsReceive ==
    ASSUME TypeOK, type = "lww-register", NEW c \in Clients, NEW at \in Time,
           Receive(c, at), NEW d \in Clients, Follows(d)
    PROVE  Follows(d)'
  <1> DEFINE op == Head(up[c])
             answer == Answer(op, at)
             r == Write(reg[Server], op)
  <1>1. /\ up[c] \in Seq(Op) /\ up[c] # <<>> /\ op \in Op
        /\ ApplyAndHear(op) /\ answer \in State
        /\ down' = [e \in Clients |-> Append(down[e], answer)]
        /\ up' = [up EXCEPT ![c] = Tail(up[c])] /\ UNCHANGED start
    BY TypeReceive DEF Receive
  <1>2. c \in Nodes /\ d \in Nodes /\ Server \in Nodes /\ Server # d
    BY ServerIsNode, ServerIsNoClient
  <1>3. /\ reg[Server] \in Register /\ reg[Server].ts \in Nat /\ reg[d].ts \in Nat
        /\ op.ts \in Nat /\ start[d] \in Nat
    BY <1>1, <1>2, RegisterTypes, BoundsAreNat DEF RegisterType, Op, Time
  <1>4. r.ts \in Nat /\ reg[Server].ts <= r.ts /\ op.ts <= r.ts
    BY <1>1, <1>3, WriteFacts
  <1>5. answer.reg = r
    BY DEF Answer
  <1>6. reg' = [reg EXCEPT ![Server] = r]
    <2> HIDE DEF op
    <2> QED
      BY <1>1, ApplyAndHearFacts DEF TypeOK, ReplicasTyped
  <1>7. reg'[Server] = r /\ reg'[d] = reg[d]
    BY <1>2, <1>6 DEF TypeOK
  <1> HIDE DEF r, answer
  <1>8. /\ down'[d] # <<>> /\ Len(down'[d]) = Len(down[d]) + 1 /\ Len(down[d]) \in Nat
        /\ down'[d][Len(down[d]) + 1] = answer
        /\ \A k \in 1..Len(down[d]) : down'[d][k] = down[d][k] /\ down[d][k] \in State
    <2>1. down[d] \in Seq(State) /\ answer \in State /\ down'[d] = Append(down[d], answer)
      BY <1>1 DEF TypeOK
    <2> QED
      BY <2>1, AppendProperties
  <1>9. \A k \in 1..Len(down'[d]) : down'[d][k].reg.ts <= r.ts
    <2> SUFFICES ASSUME NEW k \in 1..Len(down'[d])
                 PROVE  down'[d][k].reg.ts <= r.ts
      OBVIOUS
    <2>1. CASE k \in 1..Len(down[d])
      <3>1. down[d][k].reg.ts <= reg[Server].ts /\ down[d][k].reg.ts \in Nat
        BY <1>8, <2>1, RegisterTypes DEF Follows
      <3>2. down'[d][k] = down[d][k]
        BY <1>8, <2>1
      <3>3. reg[Server].ts <= r.ts /\ reg[Server].ts \in Nat /\ r.ts \in Nat
        BY <1>3, <1>4
      <3>4. down[d][k].reg.ts <= r.ts
        BY <3>1, <3>3
      <3> QED
        BY <3>2, <3>4
    <2>2. CASE k = Len(down[d]) + 1
      BY <1>4, <1>5, <1>8, <2>2
    <2> QED
      BY <1>8, <2>1, <2>2
  <1>10. reg[d].ts <= r.ts \/ reg[d].ts <= start[d] \/ Later(d)'
    <2>1. CASE reg[d].ts <= reg[Server].ts
      BY <1>3, <1>4, <2>1
    <2>2. CASE reg[d].ts <= start[d]
      BY <2>2
    <2>3. CASE Later(d)
      <3>1. PICK k \in 1..Len(up[d]) : up[d][k].ts >= reg[d].ts
        BY <2>3 DEF Later
      <3>2. CASE d # c
        <4>1. up'[d] = up[d]
          BY <1>1, <3>2 DEF TypeOK
        <4> QED
          BY <1>7, <3>1, <4>1 DEF Later
      <3>3. CASE d = c
        <4>1. /\ Len(up[c]) \in Nat /\ op = up[c][1] /\ up'[d] = Tail(up[c])
              /\ Len(Tail(up[c])) = Len(up[c]) - 1
              /\ \A j \in 1..Len(Tail(up[c])) : Tail(up[c])[j] = up[c][j + 1]
          BY <1>1, <3>3, HeadTailProperties DEF TypeOK
        <4> HIDE DEF op
        <4>2. CASE k = 1
          BY <1>3, <1>4, <3>1, <3>3, <4>1, <4>2
        <4>3. CASE k # 1
          <5>1. k - 1 \in 1..Len(Tail(up[c])) /\ Tail(up[c])[k - 1] = up[c][k]
            BY <3>3, <4>1, <4>3
          <5> QED
            BY <1>7, <3>1, <3>3, <4>1, <5>1 DEF Later
        <4> QED
          BY <4>2, <4>3
      <3> QED
        BY <3>2, <3>3
    <2> QED
      BY <2>1, <2>2, <2>3 DEF Follows
  <1> QED
    BY <1>1, <1>5, <1>7, <1>8, <1>9, <1>10 DEF Follows

LEMMA RegisterInit == Init => RegisterInv
  <1> SUFFICES ASSUME Init PROVE RegisterInv
    OBVIOUS
  <1>1. /\ reg[Server].ts = 0 /\ \A c \in Clients : reg[c].ts = start[c] /\ start[c] \in Nat
    BY ServerIsNode, ServerIsNoClient, BoundsAreNat DEF Init, Time
  <1>2. ASSUME NEW c \in Clients
        PROVE  Follows(c)
    <2>1. down[c] = <<>> /\ Len(down[c]) = 0
      BY EmptySeq DEF Init
    <2> QED
      BY <1>1, <2>1 DEF Follows
  <1> QED
    BY <1>1, <1>2 DEF RegisterInv, Init

LEMMA RegisterStep == TypeOK /\ RegisterInv /\ [Next]_vars => RegisterInv'
  <1> SUFFICES ASSUME TypeOK, RegisterInv, [Next]_vars PROVE RegisterInv'
    OBVIOUS
  <1>1. type' = type /\ backend' = backend
    BY DEF Next, Operate, Merge, Receive, Loopback, vars, setup
  <1>2. CASE type # "lww-register"
    <2>1. reg'[Server] = reg[Server]
      <3>1. reg \in [Nodes -> Register] /\ Server \in Nodes /\ Server \notin Clients
        BY ServerIsNode, ServerIsNoClient DEF TypeOK
      <3>2. \A r, op : Write(r, op) = r
        BY <1>2 DEF Write
      <3>3. ASSUME NEW n \in Nodes, NEW op, ApplyOp(n, op)
            PROVE  reg'[Server] = reg[Server]
        BY <3>1, <3>2, <3>3 DEF ApplyOp
      <3>4. ASSUME NEW op, ApplyAndHear(op)
            PROVE  reg'[Server] = reg[Server]
        BY <3>1, <3>2, <3>3, <3>4 DEF ApplyAndHear
      <3>5. ASSUME NEW c \in Clients, Merge(c)
            PROVE  reg'[Server] = reg[Server]
        BY <3>1, <3>5 DEF Merge
      <3> QED
        BY <3>1, <3>3, <3>4, <3>5, ServerIsNode
        DEF Next, Operate, Receive, Loopback, vars, replicaVars
    <2> QED
      BY <1>1, <1>2, <2>1 DEF RegisterInv
  <1>3. CASE type = "lww-register" /\ backend # "memory"
    BY <1>1, <1>3 DEF RegisterInv
  <1>4. CASE type = "lww-register" /\ backend = "memory"
    <2>7. loop = <<>> /\ loop' = <<>>
      <3>1. loop = <<>>
        BY <1>4 DEF RegisterInv
      <3> QED
        BY <1>4, <3>1
        DEF Next, Operate, Merge, Receive, Publish, Loopback, vars, wireVars
    <2> SUFFICES ASSUME NEW d \in Clients PROVE Follows(d)'
      BY <1>1, <1>4, <2>7 DEF RegisterInv
    <2>1. Follows(d)
      BY <1>4 DEF RegisterInv
    <2>2. ASSUME NEW c \in Clients, NEW name \in OpsOf(type), NEW ts \in Time,
                 Operate(c, name, ts)
          PROVE  Follows(d)'
      <3> DEFINE op == Made(c, name, ts)
      <3>1. op \in Op
        BY MadeType
      <3> HIDE DEF op
      <3>2. ApplyOp(c, op) /\ up' = [up EXCEPT ![c] = Append(up[c], op)]
        BY <2>2, TypeOperate DEF op
      <3>3. UNCHANGED <<down, start>>
        BY <2>2 DEF Operate
      <3> QED
        BY <1>4, <2>1, <3>1, <3>2, <3>3, FollowsOperate
    <2>3. ASSUME NEW c \in Clients, Merge(c)
          PROVE  Follows(d)'
      BY <2>1, <2>3, FollowsMerge
    <2>4. ASSUME NEW c \in Clients, NEW at \in Time, Receive(c, at)
          PROVE  Follows(d)'
      BY <1>4, <2>1, <2>4, FollowsReceive
    <2>5. CASE Loopback
      BY <2>5, <2>7 DEF Loopback
    <2>6. CASE UNCHANGED vars
      BY <2>1, <2>6 DEF vars, replicaVars, wireVars, Follows, Later
    <2> QED
      BY <2>2, <2>3, <2>4, <2>5, <2>6 DEF Next
  <1> QED
    BY <1>2, <1>3, <1>4

LEMMA RegistersFromInv == TypeOK /\ RegisterInv => RegistersConverge
  <1> SUFFICES ASSUME TypeOK, RegisterInv, Quiet, backend = "memory", NEW c \in Clients,
                      c < Server, start[c] <= reg[Server].ts
               PROVE  reg[c] = reg[Server]
    BY DEF RegistersConverge
  <1>1. /\ start[c] \in Nat /\ start[c] > 0 /\ reg[Server].ts \in Nat /\ reg[c].ts \in Nat
    BY RegisterTypes, ServerIsNode DEF RegisterType
  <1>2. reg[Server].ts > 0
    BY <1>1
  <1>3. Follows(c)
    BY <1>2 DEF RegisterInv
  <1>4. ~Later(c)
    BY EmptySeq DEF Quiet, Later
  <1> QED
    BY <1>1, <1>2, <1>3, <1>4 DEF Follows, Quiet

-----------------------------------------------------------------------------
(* The result. *)

IInv == TypeOK /\ Own /\ CountInv /\ RegisterInv

LEMMA InitIInv == Init => IInv
  BY TypeInit, CountInit, RegisterInit DEF IInv

LEMMA StepIInv == IInv /\ [Next]_vars => IInv'
  BY TypeStep, CountStep, RegisterStep DEF IInv

\* Once nothing is on its way every client has the same counter, whatever
\* clients did meanwhile and however often the server has counted an operation,
\* and every client that gives way to the server in a tie has its register,
\* unless it registered after the last write (CrdtStore.merge, CrdtManager).
THEOREM Converged == Spec => []ReplicasAgree
  <1>1. IInv => ReplicasAgree
    BY CountersFromInv, RegistersFromInv DEF IInv, ReplicasAgree
  <1> QED
    BY <1>1, InitIInv, StepIInv, PTL DEF Spec

=============================================================================
