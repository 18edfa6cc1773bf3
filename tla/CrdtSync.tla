------------------------------ MODULE CrdtSync ------------------------------
(***************************************************************************)
(* One CRDT key shared by the clients' CrdtStores through the server's     *)
(* CrdtManager: a client changes its replica and sends the operation       *)
(* (CRDT_OP); the server applies it, broadcasts the state it then has      *)
(* (CRDT_STATE) and publishes the operation to the backend, whose          *)
(* subscribers include the manager itself; clients merge the states.  The  *)
(* memory backend calls its subscribers before publish returns, the others *)
(* some time later, if their link holds.                                   *)
(*                                                                         *)
(* The key holds a pn-counter, an lww-register or an lww-map.  A connection *)
(* keeps the order of its messages.  Node identifiers are numbers, because *)
(* the register compares them; the server's has its place among them.      *)
(*                                                                         *)
(* Of a map the clients use one field.  The server files every operation   *)
(* under the name of the CRDT key itself (the spread in the CRDT_OP        *)
(* handler overrides the operation's own key): a map has these two fields. *)
(***************************************************************************)
EXTENDS Naturals, Sequences, FiniteSets

CONSTANTS Clients,   \* node identifiers of the clients
          Backends,  \* what the server may be configured with
          Server,    \* node identifier of the server, "server" in the code
          MaxTime,   \* bound: clock readings, 1..MaxTime
          MaxOps     \* bound: operations made

Nodes == Clients \cup {Server}
Time == 1..MaxTime
None == 0   \* the value of a register nobody has written: undefined

ASSUME NodesAreNumbers == Nodes \subseteq Nat /\ IsFiniteSet(Nodes)
ASSUME ServerIsNoClient == Server \notin Clients
ASSUME BackendsAreKnown == Backends \subseteq {"memory", "remote"}
ASSUME BoundsAreNat == MaxTime \in Nat \ {0} /\ MaxOps \in Nat

VARIABLES
    type,      \* what the key holds, constant
    backend,   \* the server's StateBackend, constant
    inc, dec,  \* the vectors of each replica
    reg,       \* value and timestamp of each replica's register
    map,       \* the same of each field of each replica's map
    up, down,  \* operations and states on their way
    loop,      \* operations the backend has still to bring back to the manager
    clock,     \* the last reading of each node's clock
    made,      \* history: operations made
    start      \* history: when each client registered the key

replicaVars == <<inc, dec, reg, map>>
wireVars == <<up, down, loop>>
setup == <<type, backend>>
vars == <<setup, replicaVars, wireVars, clock, made, start>>

Vector == [Nodes -> Nat]
Register == [value: Nat, ts: {0} \cup Time]
NoField == [value |-> None, ts |-> 0]
Fields == {"field", "key"}
Map == [Fields -> Register]
State == [inc: Vector, dec: Vector, reg: Register,
          map: [Fields -> Nat], at: Time]
Op == [node: Clients, op: {"increment", "decrement", "set", "remove"},
       value: Nat, ts: Time]
Types == {"pn-counter", "lww-register", "lww-map"}
OpsOf(t) == CASE t = "pn-counter" -> {"increment", "decrement"}
              [] t = "lww-register" -> {"set"}
              [] t = "lww-map" -> {"set", "remove"}

TypeOK ==
    /\ type \in Types /\ backend \in Backends
    /\ inc \in [Nodes -> Vector] /\ dec \in [Nodes -> Vector]
    /\ reg \in [Nodes -> Register] /\ map \in [Nodes -> Map]
    /\ up \in [Clients -> Seq(Op)]
    /\ down \in [Clients -> Seq(State)]
    /\ loop \in Seq(Op)
    /\ clock \in [Nodes -> Time]
    /\ made \in 0..MaxOps
    /\ start \in [Clients -> Time]

\* A client's register starts at the time of its registration, with an
\* initial value of the client's own (0 stands for all of them); the server's
\* starts at time 0.
Init ==
    /\ type \in Types /\ backend \in Backends
    /\ inc = [n \in Nodes |-> [m \in Nodes |-> 0]]
    /\ dec = [n \in Nodes |-> [m \in Nodes |-> 0]]
    /\ start \in [Clients -> Time]
    /\ reg = [n \in Nodes |-> IF n = Server
                              THEN [value |-> None, ts |-> 0]
                              ELSE [value |-> None, ts |-> start[n]]]
    /\ map = [n \in Nodes |-> [f \in Fields |-> NoField]]
    /\ up = [c \in Clients |-> <<>>] /\ down = [c \in Clients |-> <<>>]
    /\ loop = <<>>
    /\ clock = [n \in Nodes |-> IF n = Server THEN 1 ELSE start[n]]
    /\ made = 0

-----------------------------------------------------------------------------
(* PNCounter.apply and LWWRegister.apply. *)

SignedBump(vector, op, name) ==  \* mutation of Bump: one vector for both
    CASE op.op = "decrement" -> [vector EXCEPT ![op.node] = @ - op.value]
      [] op.op = name -> [vector EXCEPT ![op.node] = @ + op.value]
      [] OTHER -> vector

Bump(vector, op, name) ==
    IF op.op = name THEN [vector EXCEPT ![op.node] = @ + op.value] ELSE vector

\* LWWRegister.set and apply.
Put(r, value, ts) == IF ts >= r.ts THEN [value |-> value, ts |-> ts] ELSE r

Write(r, op) ==
    IF type = "lww-register" THEN Put(r, op.value, op.ts) ELSE r

\* LWWMap.apply, by way of set and delete: a field that is not there is not
\* deleted, one that is leaves a tombstone.
WriteField(m, op, f) ==
    CASE type = "lww-map" /\ op.op = "set" ->
             [m EXCEPT ![f] = Put(@, op.value, op.ts)]
      [] type = "lww-map" /\ op.op = "remove" /\ m[f] # NoField ->
             [m EXCEPT ![f] = Put(@, None, op.ts)]
      [] OTHER -> m

FieldOf(n) == IF n = Server THEN "key" ELSE "field"

ApplyOp(n, op) ==
    /\ inc' = [inc EXCEPT ![n] = Bump(@, op, "increment")]
    /\ dec' = [dec EXCEPT ![n] = Bump(@, op, "decrement")]
    /\ reg' = [reg EXCEPT ![n] = Write(@, op)]
    /\ map' = [map EXCEPT ![n] = WriteField(@, op, FieldOf(n))]

(* PNCounter.merge, LWWRegister.merge and LWWMap.merge. *)

TakeRemote(v, w) == w  \* mutation of MaxVector: the remote vector replaces it

MaxVector(v, w) == [n \in Nodes |-> IF v[n] > w[n] THEN v[n] ELSE w[n]]

StrictMerge(n, r, remote) ==  \* mutation of MergeRegister: no tie break
    IF remote.ts > r.ts THEN remote ELSE r

MergeRegister(n, r, remote) ==
    IF \/ remote.ts > r.ts
       \/ remote.ts = r.ts /\ Server > n
    THEN remote ELSE r

\* The fields that have a value there, all with the one time of the state.
MergeMap(m, remote) ==
    [f \in Fields |-> IF remote.map[f] = None THEN m[f]
                      ELSE Put(m[f], remote.map[f], remote.at)]

-----------------------------------------------------------------------------
(* The client. *)

\* increment, decrement, set or delete, and the operation sent; a set with a
\* clock behind the register's time changes nothing here.
Operate(c, name, ts) ==
    LET op == [node |-> c, op |-> name, ts |-> ts,
               value |-> CASE name = "set" -> made + 1
                           [] name = "remove" -> None
                           [] OTHER -> 1]
    IN  /\ made < MaxOps
        /\ ts >= clock[c]
        /\ clock' = [clock EXCEPT ![c] = ts]
        /\ made' = made + 1
        /\ ApplyOp(c, op)
        /\ up' = [up EXCEPT ![c] = Append(@, op)]
        /\ UNCHANGED <<setup, down, loop, start>>

Merge(c) ==
    /\ down[c] # <<>>
    /\ LET remote == Head(down[c])
       IN  /\ inc' = [inc EXCEPT ![c] = MaxVector(@, remote.inc)]
           /\ dec' = [dec EXCEPT ![c] = MaxVector(@, remote.dec)]
           /\ reg' = [reg EXCEPT ![c] = MergeRegister(c, @, remote.reg)]
           /\ map' = [map EXCEPT ![c] = MergeMap(@, remote)]
    /\ down' = [down EXCEPT ![c] = Tail(@)]
    /\ UNCHANGED <<setup, up, loop, clock, made, start>>

-----------------------------------------------------------------------------
(* The server. *)

\* A publication while the backend's link or subscription is not up is lost.
Publish(op) ==
    CASE backend = "memory" -> loop' = loop
      [] backend = "remote" -> loop' \in {loop, Append(loop, op)}

\* CrdtManager.apply: with the memory backend the manager hears its own
\* publication, and applies the operation a second time, before it returns.
Twice(vector, op, name) == Bump(Bump(vector, op, name), op, name)

ApplyAndHear(op) ==
    IF backend = "memory"
    THEN /\ inc' = [inc EXCEPT ![Server] = Twice(@, op, "increment")]
         /\ dec' = [dec EXCEPT ![Server] = Twice(@, op, "decrement")]
         /\ reg' = [reg EXCEPT ![Server] = Write(Write(@, op), op)]
         /\ map' = [map EXCEPT ![Server] =
                       WriteField(WriteField(@, op, "key"), op, "key")]
    ELSE ApplyOp(Server, op)

\* The state the broadcast carries: one application only.  Of a map it tells
\* the values, not their times, and the time it is read at.
Answer(op, at) ==
    [inc |-> Bump(inc[Server], op, "increment"),
     dec |-> Bump(dec[Server], op, "decrement"),
     reg |-> Write(reg[Server], op),
     map |-> [f \in Fields |-> WriteField(map[Server], op, "key")[f].value],
     at |-> at]

\* The server's clock when it answers; only a map's state asks for it.
Reading(at) ==
    /\ at >= clock[Server]
    /\ type # "lww-map" => at = clock[Server]
    /\ clock' = [clock EXCEPT ![Server] = at]

Receive(c, at) ==
    /\ up[c] # <<>> /\ Reading(at)
    /\ LET op == Head(up[c])
       IN  /\ ApplyAndHear(op)
           /\ Publish(op)
           /\ down' = [d \in Clients |-> Append(down[d], Answer(op, at))]
    /\ up' = [up EXCEPT ![c] = Tail(@)]
    /\ UNCHANGED <<setup, made, start>>

\* The manager's own subscription, with a backend that answers later.
Loopback ==
    /\ loop # <<>>
    /\ ApplyOp(Server, Head(loop))
    /\ loop' = Tail(loop)
    /\ UNCHANGED <<setup, up, down, clock, made, start>>

-----------------------------------------------------------------------------
Next ==
    \/ \E c \in Clients, name \in OpsOf(type), ts \in Time : Operate(c, name, ts)
    \/ \E c \in Clients : Merge(c)
    \/ \E c \in Clients, at \in Time : Receive(c, at)
    \/ Loopback

Spec == Init /\ [][Next]_vars

-----------------------------------------------------------------------------
(* Properties. *)

Quiet == /\ \A c \in Clients : up[c] = <<>> /\ down[c] = <<>>
         /\ loop = <<>>

\* Clients agree on the counter with one another, once nothing is on its way;
\* whatever they did meanwhile (the merge keeps the larger entry and every
\* state goes to every client).
CountersAgree ==
    Quiet => \A c, d \in Clients : inc[c] = inc[d] /\ dec[c] = dec[d]

\* No replica forgets: an entry of a counter, counted once, stays counted, and
\* no register or field gives way to an older write.
ReplicasGrow ==
    [][\A n \in Nodes :
          /\ \A m \in Nodes : inc'[n][m] >= inc[n][m] /\ dec'[n][m] >= dec[n][m]
          /\ reg'[n].ts >= reg[n].ts
          /\ \A f \in Fields : map'[n][f].ts >= map[n][f].ts]_vars

\* docs/architecture.md, "All three nodes converge to the same value": a client
\* shows the server's register once nothing is on its way, whatever the clocks
\* say and however the writes cross, provided that its identifier sorts before
\* the server's (ties are settled by identifier), that it registered the key no
\* later than the write that won (its initial value bears the time of
\* registration) and that the backend is the memory one (an operation that
\* comes back late can undo a later write of the same time).
RegistersConverge ==
    Quiet /\ backend = "memory" => \A c \in Clients :
        c < Server /\ start[c] <= reg[Server].ts => reg[c] = reg[Server]

\* Once nothing is on its way the replicas have converged: counters among the
\* clients, registers with the server.
ReplicasAgree == CountersAgree /\ RegistersConverge
=============================================================================
