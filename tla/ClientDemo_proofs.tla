-------------------------- MODULE ClientDemo_proofs --------------------------
(***************************************************************************)
(* Proofs about the client and about the page of the demo applications     *)
(* that is built on it; the two share no state.  About ClientConnection:   *)
(* for any number of links and calls, any retry budget and every kind of   *)
(* client and application.  About DemoChat: for each of the demos, any     *)
(* limits of the chat and of the panel, any range that can be entered and  *)
(* any number of inputs.                                                   *)
(***************************************************************************)
EXTENDS ClientConnection, DemoChat, FiniteSetTheorems, SequenceTheorems,
        WellFoundedInduction, TLAPS

-----------------------------------------------------------------------------
(* ClientConnection: type correctness. *)

\* The microtask queue stays a sequence of jobs when one is taken or added.
LEMMA AppendJob ==
    ASSUME NEW q \in Seq(Job), NEW j \in Job
    PROVE  Append(q, j) \in Seq(Job) /\ Len(Append(q, j)) = Len(q) + 1
  OBVIOUS

LEMMA TakeJob ==
    ASSUME NEW q \in Seq(Job), q # <<>>
    PROVE  /\ Head(q) \in Job
           /\ Head(q).op \in {"connect", "disconnect"}
           /\ Tail(q) \in Seq(Job)
           /\ Len(q) \in Nat
           /\ Len(Tail(q)) = Len(q) - 1
  <1>1. /\ Head(q) \in Job
        /\ Tail(q) \in Seq(Job)
        /\ Len(Tail(q)) = Len(q) - 1
    BY HeadTailProperties, Zenon
  <1>2. Head(q).op \in {"connect", "disconnect"}
    BY <1>1 DEF Job
  <1>3. Len(q) \in Nat
    BY LenProperties, Zenon
  <1> QED
    BY <1>1, <1>2, <1>3

\* The first half of connect and disconnect keeps links, calls and jobs typed.
LEMMA BeginDisposeType ==
    ASSUME TypeOK, NEW op \in {"connect", "disconnect"}, BeginDispose(op)
    PROVE  /\ timer' \in BOOLEAN
           /\ links' \in [Links -> LinkState]
           /\ jobs' \in Seq(Job)
           /\ jobs' # <<>>
           /\ call' \in [Calls -> CallState]
           /\ sentOn' \in [Calls -> Links \cup {None}]
  <1>1. /\ [step |-> "resume", op |-> op] \in Job
        /\ [step |-> "release", op |-> op] \in Job
    BY DEF Job
  <1>2. jobs' \in Seq(Job) /\ jobs' # <<>>
    <2>1. jobs \in Seq(Job)
      BY DEF TypeOK
    <2>2. PICK j \in Job : jobs' = Append(jobs, j)
      BY <1>1 DEF BeginDispose
    <2> QED
      BY <2>1, <2>2, AppendJob
  <1>3. links' \in [Links -> LinkState]
    BY DEF BeginDispose, TypeOK, Shut, LinkState
  <1>4. /\ timer' \in BOOLEAN
        /\ call' \in [Calls -> CallState]
        /\ sentOn' \in [Calls -> Links \cup {None}]
    BY DEF BeginDispose, ClearTimer, ClearPending, TypeOK, CallState
  <1> QED
    BY <1>2, <1>3, <1>4

\* TypeOK is inductive: every step keeps every variable in its range, the
\* attempt counter within the retry budget included.
LEMMA TypeStep == TypeOK /\ [Next]_vars => TypeOK'
  <1> SUFFICES ASSUME TypeOK, [Next]_vars
               PROVE  TypeOK'
    OBVIOUS
  <1> USE MaxAttemptsIsNat
  <1>1. CASE Connect
    BY <1>1, BeginDisposeType DEF Connect, TypeOK
  <1>2. CASE Disconnect
    BY <1>2, BeginDisposeType DEF Disconnect, TypeOK
  <1>3. CASE TimerFires
    BY <1>3, BeginDisposeType DEF TimerFires, TypeOK
  <1>4. CASE OrphanTimerFires
    BY <1>4, BeginDisposeType DEF OrphanTimerFires, TypeOK
  <1>5. CASE Release
    <2>1. [step |-> "resume", op |-> Head(jobs).op] \in Job
      BY <1>5, TakeJob DEF Release, TypeOK, Job
    <2>2. jobs' \in Seq(Job)
      BY <1>5, <2>1, TakeJob, AppendJob DEF Release, TypeOK
    <2> QED
      BY <1>5, <2>2 DEF Release, TypeOK, timerVars, rpcVars
  <1>6. CASE ResumeDisconnect
    <2>1. jobs' \in Seq(Job)
      BY <1>6, TakeJob DEF ResumeDisconnect, TypeOK
    <2> QED
      BY <1>6, <2>1
      DEF ResumeDisconnect, TypeOK, ConnectionState, netVars, timerVars, rpcVars
  <1>7. CASE ResumeConnect
    <2>1. jobs' \in Seq(Job)
      BY <1>7, TakeJob DEF ResumeConnect, TypeOK
    <2> QED
      BY <1>7, <2>1
      DEF ResumeConnect, TypeOK, ConnectionState, LinkState, timerVars, rpcVars
  <1>8. ASSUME NEW l \in Links, OnOpen(l)
        PROVE  TypeOK'
    BY <1>8 DEF OnOpen, TypeOK, ConnectionState, LinkState, rpcVars
  <1>9. ASSUME NEW l \in Links, Drop(l)
        PROVE  TypeOK'
    BY <1>9 DEF Drop, TypeOK, LinkState, timerVars, rpcVars
  <1>10. ASSUME NEW l \in Links, OnClose(l)
         PROVE  TypeOK'
    <2>1. links' \in [Links -> LinkState]
      BY <1>10 DEF OnClose, TypeOK, LinkState
    <2>2. call' \in [Calls -> CallState] /\ sentOn' \in [Calls -> Links \cup {None}]
      BY <1>10 DEF OnClose, ClearPending, TypeOK, CallState
    <2>3. /\ state' \in ConnectionState
          /\ timer' \in BOOLEAN
          /\ orphans' \in Nat
          /\ attempts' \in 0..MaxReconnectAttempts
      <3>1. CASE MayRetry
        BY <1>10, <3>1
        DEF OnClose, MayRetry, ScheduleReconnect, TypeOK, ConnectionState
      <3>2. CASE ~MayRetry
        BY <1>10, <3>2 DEF OnClose, TypeOK, ConnectionState, timerVars
      <3> QED
        BY <3>1, <3>2
    <2> QED
      BY <1>10, <2>1, <2>2, <2>3 DEF OnClose, TypeOK
  <1>11. ASSUME NEW c \in Calls, Rpc(c)
         PROVE  TypeOK'
    <2>1. CASE Settle(c, "sendFailed")
      BY <1>11, <2>1 DEF Rpc, Settle, TypeOK, CallState, netVars, timerVars
    <2>2. CASE Await(c, None)
      <3>1. UNCHANGED <<mode, state, current, links, sendFn, timer, orphans, attempts,
                        jobs, intent>>
        BY <1>11 DEF Rpc, netVars, timerVars
      <3> QED
        BY <2>2, <3>1 DEF Await, TypeOK, CallState
    <2>3. CASE CurrentIsOpen /\ Await(c, current)
      BY <1>11, <2>3 DEF Rpc, Await, TypeOK, CallState, netVars, timerVars
    <2> QED
      BY <1>11, <2>1, <2>2, <2>3 DEF Rpc
  <1>12. ASSUME NEW c \in Calls, Respond(c) \/ RpcTimeout(c)
         PROVE  TypeOK'
    BY <1>12 DEF Respond, RpcTimeout, Settle, TypeOK, CallState, netVars, timerVars
  <1>13. CASE UNCHANGED vars
    BY <1>13 DEF vars, TypeOK
  <1> QED
    BY <1>1, <1>2, <1>3, <1>4, <1>5, <1>6, <1>7, <1>8, <1>9, <1>10, <1>11, <1>12,
       <1>13 DEF Next

LEMMA InitType == Init => TypeOK
  <1> SUFFICES ASSUME Init
               PROVE  TypeOK
    OBVIOUS
  <1>1. jobs \in Seq(Job)
    BY EmptySeq DEF Init
  <1>2. attempts \in 0..MaxReconnectAttempts /\ orphans \in Nat
    BY MaxAttemptsIsNat DEF Init
  <1> QED
    BY <1>1, <1>2 DEF Init, TypeOK, ConnectionState, LinkState, CallState

\* Type correctness, for every value of the constants.
THEOREM TypeCorrect == Spec => []TypeOK
  BY InitType, TypeStep, PTL DEF Spec

-----------------------------------------------------------------------------
(* ClientConnection: safety.                                               *)
(*                                                                         *)
(* For an orderly application the client is in one of three phases: a      *)
(* microtask is queued (and no timer, no socket that may still open), a    *)
(* timer is armed (and every link closed), or a link is alive and nothing  *)
(* else is.  The invariant says so, and that the only link that may still  *)
(* open or carry frames is the one the client holds.                       *)

OrderlyInv ==
    /\ orphans = 0
    /\ Len(jobs) <= 1
    /\ timer => jobs = <<>> /\ \A l \in Links : links[l] = "closed"
    /\ jobs # <<>> => \A l \in Links : links[l] \in {"closed", "closing"}
    /\ jobs # <<>> /\ Head(jobs).op = "connect"
          => \A l \in Links : links[l] = "closed"
    /\ \A k, l \in Live : k = l
    /\ \A l \in Links : links[l] \in {"connecting", "open"} => l = current
    /\ state = "connected" /\ jobs = <<>>
          => current # None /\ links[current] \in {"open", "closing"}

WorkerInv ==
    /\ \A l \in Live : l = current
    /\ jobs # <<>> => Live = {}
    /\ intent = "down" =>
          /\ Live = {} /\ ~timer
          /\ jobs = <<>> => state = "disconnected"
          /\ jobs # <<>> => Head(jobs).op = "disconnect"

IInv ==
    /\ TypeOK
    /\ NoPendingOnDeadLink
    /\ ReconnectingHasTimer
    /\ mode.orderly => OrderlyInv
    /\ mode.orderly /\ mode.worker => WorkerInv

\* The kind of client is fixed at construction.
LEMMA ModeIsConstant == [Next]_vars => mode' = mode
  BY DEF Next, vars, Connect, Disconnect, TimerFires, OrphanTimerFires, Release,
         ResumeDisconnect, ResumeConnect, OnOpen, Drop, OnClose, Rpc, Respond, RpcTimeout

\* An orderly application calls connect() only on an idle client.
LEMMA LoadZero ==
    ASSUME TypeOK, Load = 0
    PROVE  (\A l \in Links : links[l] = "closed") /\ ~timer
  <1>1. IsFiniteSet(Live)
    BY LinksFinite, FS_Subset DEF Live
  <1>2. IsFiniteSet(ConnectJobs)
    <2>1. Len(jobs) \in Nat
      BY LenProperties DEF TypeOK
    <2>2. IsFiniteSet(1..Len(jobs))
      BY <2>1, FS_Interval
    <2> QED
      BY <2>2, FS_Subset DEF ConnectJobs
  <1>3. Cardinality(Live) \in Nat /\ Cardinality(ConnectJobs) \in Nat
    BY <1>1, <1>2, FS_CardinalityType
  <1>4. Cardinality(Live) = 0 /\ ~timer
    BY <1>3 DEF Load, TypeOK
  <1> QED
    BY <1>1, <1>4, FS_EmptySet DEF Live

\* A step that neither closes a link nor touches the calls cannot strand one.
LEMMA NoPendingStep ==
    TypeOK /\ NoPendingOnDeadLink /\ [Next]_vars => NoPendingOnDeadLink'
  <1> SUFFICES ASSUME TypeOK, NoPendingOnDeadLink, [Next]_vars
               PROVE  NoPendingOnDeadLink'
    OBVIOUS
  <1> USE DEF NoPendingOnDeadLink
  <1>1. ASSUME ClearPending
        PROVE  NoPendingOnDeadLink'
    BY <1>1 DEF ClearPending
  <1>2. CASE Connect \/ Disconnect \/ TimerFires \/ OrphanTimerFires
    BY <1>1, <1>2 DEF Connect, Disconnect, TimerFires, OrphanTimerFires, BeginDispose
  <1>3. CASE Release \/ ResumeDisconnect
    BY <1>3 DEF Release, ResumeDisconnect, netVars, rpcVars
  <1>4. CASE ResumeConnect
    BY <1>4 DEF ResumeConnect, rpcVars, TypeOK
  <1>5. ASSUME NEW l \in Links, OnOpen(l) \/ Drop(l)
        PROVE  NoPendingOnDeadLink'
    BY <1>5 DEF OnOpen, Drop, rpcVars, TypeOK
  <1>6. ASSUME NEW l \in Links, OnClose(l)
        PROVE  NoPendingOnDeadLink'
    BY <1>1, <1>6 DEF OnClose
  <1>7. ASSUME NEW c \in Calls, Rpc(c)
        PROVE  NoPendingOnDeadLink'
    <2>1. UNCHANGED links
      BY <1>7 DEF Rpc, netVars
    <2>2. \/ \E o \in {"sendFailed"} : Settle(c, o)
          \/ Await(c, None)
          \/ CurrentIsOpen /\ Await(c, current)
      BY <1>7 DEF Rpc
    <2> QED
      BY <2>1, <2>2 DEF Settle, Await, CurrentIsOpen, TypeOK
  <1>8. ASSUME NEW c \in Calls, Respond(c) \/ RpcTimeout(c)
        PROVE  NoPendingOnDeadLink'
    BY <1>8 DEF Respond, RpcTimeout, Settle, netVars, TypeOK
  <1>9. CASE UNCHANGED vars
    BY <1>9 DEF vars
  <1> QED
    BY <1>2, <1>3, <1>4, <1>5, <1>6, <1>7, <1>8, <1>9 DEF Next

\* Only the close handler enters "reconnecting", arming the timer; whoever
\* disarms it has queued the microtask that will leave "reconnecting".
LEMMA ReconnectingStep ==
    TypeOK /\ ReconnectingHasTimer /\ [Next]_vars => ReconnectingHasTimer'
  <1> SUFFICES ASSUME TypeOK, ReconnectingHasTimer, [Next]_vars
               PROVE  ReconnectingHasTimer'
    OBVIOUS
  <1> USE DEF ReconnectingHasTimer
  <1>1. CASE Connect \/ Disconnect \/ TimerFires \/ OrphanTimerFires
    <2>1. PICK op \in {"connect", "disconnect"} : BeginDispose(op)
      BY <1>1 DEF Connect, Disconnect, TimerFires, OrphanTimerFires
    <2> QED
      BY <2>1, BeginDisposeType
  <1>2. CASE Release
    <2>1. [step |-> "resume", op |-> Head(jobs).op] \in Job
      BY <1>2, TakeJob DEF Release, TypeOK, Job
    <2>2. jobs' = Append(Tail(jobs), [step |-> "resume", op |-> Head(jobs).op])
          /\ Tail(jobs) \in Seq(Job)
      BY <1>2, TakeJob DEF Release, TypeOK
    <2> QED
      BY <2>1, <2>2, AppendJob
  <1>3. CASE ResumeDisconnect \/ ResumeConnect
    BY <1>3 DEF ResumeDisconnect, ResumeConnect
  <1>4. ASSUME NEW l \in Links, OnOpen(l) \/ Drop(l)
        PROVE  ReconnectingHasTimer'
    BY <1>4 DEF OnOpen, Drop, timerVars
  <1>5. ASSUME NEW l \in Links, OnClose(l)
        PROVE  ReconnectingHasTimer'
    BY <1>5 DEF OnClose, ScheduleReconnect
  <1>6. ASSUME NEW c \in Calls, Rpc(c) \/ Respond(c) \/ RpcTimeout(c)
        PROVE  ReconnectingHasTimer'
    BY <1>6 DEF Rpc, Respond, RpcTimeout, timerVars
  <1>7. CASE UNCHANGED vars
    BY <1>7 DEF vars
  <1> QED
    BY <1>1, <1>2, <1>3, <1>4, <1>5, <1>6, <1>7 DEF Next

-----------------------------------------------------------------------------
(* ClientConnection: the phases of an orderly client. *)

\* A queue that holds at most one job is empty once it is taken.
LEMMA SingleJob ==
    ASSUME NEW q \in Seq(Job), Len(q) <= 1, NEW j \in Job
    PROVE  /\ q # <<>> => Tail(q) = <<>> /\ Append(Tail(q), j) = <<j>>
           /\ q = <<>> => Append(q, j) = <<j>>
           /\ <<j>> # <<>> /\ Head(<<j>>) = j /\ Len(<<j>>) = 1
           /\ Len(<<>>) = 0
  <1>1. q # <<>> => Tail(q) \in Seq(Job) /\ Len(Tail(q)) = 0
    <2> SUFFICES ASSUME q # <<>>
                 PROVE  Tail(q) \in Seq(Job) /\ Len(Tail(q)) = 0
      OBVIOUS
    <2>1. Len(q) \in Nat \ {0}
      BY EmptySeq, Zenon
    <2>2. Tail(q) \in Seq(Job) /\ Len(Tail(q)) = Len(q) - 1
      BY TakeJob
    <2> QED
      BY <2>1, <2>2
  <1>2. q # <<>> => Tail(q) = <<>>
    BY <1>1, EmptySeq
  <1>3. Append(<<>>, j) = <<j>>
    OBVIOUS
  <1>4. <<j>> # <<>> /\ Head(<<j>>) = j /\ Len(<<j>>) = 1 /\ Len(<<>>) = 0
    OBVIOUS
  <1> QED
    BY <1>2, <1>3, <1>4

\* Starting to dispose of the link enters the microtask phase.
LEMMA OrderlyDispose ==
    ASSUME TypeOK, OrderlyInv, jobs = <<>>, NEW op \in {"connect", "disconnect"},
           BeginDispose(op), UNCHANGED <<mode, state, current, orphans>>,
           op = "connect" => \A l \in Links : links[l] = "closed"
    PROVE  OrderlyInv' /\ Head(jobs').op = op /\ jobs' # <<>> /\ ~timer'
  <1>1. PICK j \in Job : j.op = op /\ jobs' = Append(jobs, j)
    <2>1. /\ [step |-> "resume", op |-> op] \in Job
          /\ [step |-> "release", op |-> op] \in Job
      BY DEF Job
    <2> QED
      BY <2>1 DEF BeginDispose
  <1>2. jobs' = <<j>> /\ jobs' # <<>> /\ Head(jobs') = j /\ Len(jobs') = 1
    BY <1>1, SingleJob DEF TypeOK, OrderlyInv
  <1>3. ~timer'
    BY DEF BeginDispose, ClearTimer
  <1>4. \A l \in Links : /\ links'[l] \in {"closed", "closing"}
                         /\ links[l] = "closed" => links'[l] = "closed"
    <2> TAKE l \in Links
    <2>1. CASE current = l
      BY <2>1, NoneIsNoLink DEF BeginDispose, Shut, TypeOK, LinkState
    <2>2. CASE current # l
      BY <2>2 DEF BeginDispose, TypeOK, OrderlyInv, LinkState
    <2> QED
      BY <2>1, <2>2
  <1>5. \A k, l \in Live' : k = l
    BY <1>4 DEF Live, OrderlyInv
  <1> QED
    BY <1>1, <1>2, <1>3, <1>4, <1>5 DEF OrderlyInv

\* Every step of an orderly client keeps it in one of its three phases.
LEMMA OrderlyStep ==
    ASSUME TypeOK, OrderlyInv, mode.orderly, [Next]_vars
    PROVE  OrderlyInv'
  <1>1. CASE Connect
    <2>1. (\A l \in Links : links[l] = "closed") /\ jobs = <<>>
      BY <1>1, LoadZero DEF Connect, MayConnect
    <2> QED
      BY <1>1, <2>1, OrderlyDispose DEF Connect
  <1>2. CASE Disconnect
    BY <1>2, OrderlyDispose DEF Disconnect, MayDisconnect
  <1>3. CASE TimerFires
    BY <1>3, OrderlyDispose DEF TimerFires, OrderlyInv
  <1>4. CASE OrphanTimerFires
    BY <1>4 DEF OrphanTimerFires, OrderlyInv
  <1>5. CASE Release
    <2>1. [step |-> "resume", op |-> Head(jobs).op] \in Job
      BY <1>5, TakeJob DEF Release, TypeOK, Job
    <2> DEFINE j == [step |-> "resume", op |-> Head(jobs).op]
    <2>2. jobs' = <<j>> /\ jobs' # <<>> /\ Head(jobs') = j /\ Len(jobs') = 1
      BY <1>5, <2>1, SingleJob DEF Release, TypeOK, OrderlyInv
    <2>3. Head(jobs').op = Head(jobs).op
      BY <2>2
    <2> QED
      BY <1>5, <2>2, <2>3 DEF Release, OrderlyInv, Live, timerVars
  <1>6. CASE ResumeDisconnect
    <2>1. jobs' = <<>> /\ Len(jobs') = 0
      BY <1>6, SingleJob, TakeJob DEF ResumeDisconnect, TypeOK, OrderlyInv
    <2> QED
      BY <1>6, <2>1 DEF ResumeDisconnect, OrderlyInv, Live, netVars, timerVars
  <1>7. CASE ResumeConnect
    <2>1. jobs' = <<>> /\ Len(jobs') = 0
      BY <1>7, SingleJob, TakeJob DEF ResumeConnect, TypeOK, OrderlyInv
    <2>2. (\A l \in Links : links[l] = "closed") /\ ~timer
      BY <1>7 DEF ResumeConnect, OrderlyInv
    <2>3. PICK l \in Links :
             /\ current' = l
             /\ links' = [links EXCEPT ![l] = "connecting"] \/ UNCHANGED links
      BY <1>7 DEF ResumeConnect
    <2>4. \A k \in Links : links'[k] # "closed" => k = l
      BY <2>2, <2>3 DEF TypeOK
    <2> QED
      BY <1>7, <2>1, <2>2, <2>3, <2>4 DEF ResumeConnect, OrderlyInv, Live, timerVars
  <1>8. ASSUME NEW l \in Links, OnOpen(l)
        PROVE  OrderlyInv'
    <2>1. l = current /\ current # None
      BY <1>8, NoneIsNoLink DEF OnOpen, OrderlyInv
    <2>2. \A k \in Links : /\ links'[k] # "closed" => links[k] # "closed"
                           /\ k # l => links'[k] = links[k]
      BY <1>8 DEF OnOpen, TypeOK
    <2>3. links'[l] = "open" /\ links[l] = "connecting"
      BY <1>8 DEF OnOpen, TypeOK
    <2> QED
      BY <1>8, <2>1, <2>2, <2>3 DEF OnOpen, OrderlyInv, Live
  <1>9. ASSUME NEW l \in Links, Drop(l)
        PROVE  OrderlyInv'
    <2>1. \A k \in Links : /\ links'[k] # "closed" => links[k] # "closed"
                           /\ k # l => links'[k] = links[k]
      BY <1>9 DEF Drop, TypeOK
    <2>2. links'[l] = "closing" /\ links[l] # "closed"
      BY <1>9 DEF Drop, TypeOK
    <2> QED
      BY <1>9, <2>1, <2>2 DEF Drop, OrderlyInv, Live, timerVars, TypeOK
  <1>10. ASSUME NEW l \in Links, OnClose(l)
         PROVE  OrderlyInv'
    <2>1. jobs' = <<>> /\ jobs = <<>> /\ ~timer /\ orphans = 0
      BY <1>10 DEF OnClose, OrderlyInv
    <2>2. \A k \in Links : links'[k] = "closed"
      BY <1>10 DEF OnClose, OrderlyInv, Live, TypeOK
    <2>3. orphans' = 0 /\ state' # "connected"
      BY <1>10, <2>1 DEF OnClose, ScheduleReconnect, timerVars
    <2> QED
      BY <2>1, <2>2, <2>3 DEF OrderlyInv, Live
  <1>11. ASSUME NEW c \in Calls, Rpc(c) \/ Respond(c) \/ RpcTimeout(c)
         PROVE  OrderlyInv'
    BY <1>11 DEF Rpc, Respond, RpcTimeout, OrderlyInv, Live, netVars, timerVars
  <1>12. CASE UNCHANGED vars
    BY <1>12 DEF vars, OrderlyInv, Live
  <1> QED
    BY <1>1, <1>2, <1>3, <1>4, <1>5, <1>6, <1>7, <1>8, <1>9, <1>10, <1>11, <1>12 DEF Next

\* An orderly worker client whose application has hung up stays down.
LEMMA WorkerStep ==
    ASSUME TypeOK, OrderlyInv, WorkerInv, mode.orderly, mode.worker, [Next]_vars
    PROVE  WorkerInv'
  <1>1. ASSUME NEW op \in {"connect", "disconnect"}, BeginDispose(op)
        PROVE  Live' = {}
    <2> SUFFICES ASSUME NEW l \in Links
                 PROVE  links'[l] = "closed"
      BY DEF Live
    <2>1. CASE l = current
      BY <1>1, <2>1, NoneIsNoLink DEF BeginDispose, Shut, TypeOK
    <2>2. CASE l # current
      BY <1>1, <2>2 DEF BeginDispose, TypeOK, WorkerInv, Live
    <2> QED
      BY <2>1, <2>2
  <1>2. CASE Connect
    BY <1>1, <1>2 DEF Connect, WorkerInv
  <1>3. CASE Disconnect
    <2>1. Live' = {}
      BY <1>1, <1>3 DEF Disconnect
    <2>2. Head(jobs').op = "disconnect" /\ jobs' # <<>> /\ ~timer'
      BY <1>3, OrderlyDispose DEF Disconnect, MayDisconnect
    <2> QED
      BY <2>1, <2>2 DEF WorkerInv
  <1>4. CASE TimerFires
    BY <1>1, <1>4 DEF TimerFires, WorkerInv
  <1>5. CASE OrphanTimerFires
    BY <1>5 DEF OrphanTimerFires, OrderlyInv
  <1>6. CASE Release
    <2> DEFINE j == [step |-> "resume", op |-> Head(jobs).op]
    <2>1. j \in Job
      BY <1>6, TakeJob DEF Release, TypeOK, Job
    <2>2. jobs' = <<j>> /\ jobs' # <<>> /\ Head(jobs') = j
      BY <1>6, <2>1, SingleJob DEF Release, TypeOK, OrderlyInv
    <2>3. Head(jobs').op = Head(jobs).op
      BY <2>2
    <2>4. Live' = {}
      \* The link the continuation nulls was terminated with its worker.
      BY <1>6 DEF Release, WorkerInv, Live
    <2> QED
      BY <1>6, <2>2, <2>3, <2>4 DEF Release, WorkerInv, timerVars
  <1>7. CASE ResumeDisconnect
    <2>1. jobs' = <<>>
      BY <1>7, SingleJob, TakeJob DEF ResumeDisconnect, TypeOK, OrderlyInv
    <2> QED
      BY <1>7, <2>1 DEF ResumeDisconnect, WorkerInv, Live, netVars, timerVars
  <1>8. CASE ResumeConnect
    BY <1>8 DEF ResumeConnect, WorkerInv, OrderlyInv, Live, timerVars, TypeOK
  <1>9. ASSUME NEW l \in Links, OnOpen(l) \/ Drop(l)
        PROVE  WorkerInv'
    <2>1. l \in Live /\ UNCHANGED <<current, jobs, timer, intent>>
      BY <1>9 DEF OnOpen, Drop, Live, timerVars
    <2>2. Live' \subseteq Live
      BY <1>9 DEF OnOpen, Drop, Live, TypeOK
    <2> QED
      BY <2>1, <2>2 DEF WorkerInv
  <1>10. ASSUME NEW l \in Links, OnClose(l)
         PROVE  WorkerInv'
    <2>1. l \in Live
      BY <1>10 DEF OnClose, Live
    <2>2. Live' \subseteq Live /\ UNCHANGED <<current, jobs, intent>>
      BY <1>10 DEF OnClose, Live, TypeOK
    <2> QED
      BY <2>1, <2>2 DEF WorkerInv
  <1>11. ASSUME NEW c \in Calls, Rpc(c) \/ Respond(c) \/ RpcTimeout(c)
         PROVE  WorkerInv'
    BY <1>11 DEF Rpc, Respond, RpcTimeout, WorkerInv, Live, netVars, timerVars
  <1>12. CASE UNCHANGED vars
    BY <1>12 DEF vars, WorkerInv, Live
  <1> QED
    BY <1>2, <1>3, <1>4, <1>5, <1>6, <1>7, <1>8, <1>9, <1>10, <1>11, <1>12 DEF Next

-----------------------------------------------------------------------------
(* ClientConnection: the theorems. *)

LEMMA Invariance == Spec => []IInv
  <1>1. Init => IInv
    <2> SUFFICES ASSUME Init
                 PROVE  IInv
      OBVIOUS
    <2>1. TypeOK
      BY InitType
    <2>2. Len(jobs) = 0
      BY DEF Init
    <2> QED
      BY <2>1, <2>2
      DEF Init, IInv, NoPendingOnDeadLink, ReconnectingHasTimer, OrderlyInv, WorkerInv,
          Live
  <1>2. IInv /\ [Next]_vars => IInv'
    BY TypeStep, NoPendingStep, ReconnectingStep, OrderlyStep, WorkerStep,
       ModeIsConstant DEF IInv
  <1> QED
    BY <1>1, <1>2, PTL DEF Spec

\* No close event strands an RPC call: every call that is still waiting was
\* sent on a link whose close has not been delivered, or never sent.
THEOREM NoCallIsStranded == Spec => []NoPendingOnDeadLink
  BY Invariance, PTL DEF IInv

\* A client that reports "reconnecting" always has something scheduled.
THEOREM ReconnectIsScheduled == Spec => []ReconnectingHasTimer
  BY Invariance, PTL DEF IInv

\* An orderly application never makes one client race itself.
THEOREM OneFlight == Spec => []SingleFlight
  <1>1. IInv => SingleFlight
    <2> SUFFICES ASSUME TypeOK, OrderlyInv, mode.orderly
                 PROVE  SingleFlight
      BY DEF IInv, SingleFlight
    <2>1. jobs = <<>> => ConnectJobs = {}
      BY DEF ConnectJobs
    <2>2. jobs # <<>> /\ ConnectJobs # {} => Head(jobs).op = "connect"
      <3> SUFFICES ASSUME jobs # <<>>, NEW i \in ConnectJobs
                   PROVE  Head(jobs).op = "connect"
        OBVIOUS
      <3>1. Len(jobs) \in Nat /\ Len(jobs) <= 1 /\ i \in 1..Len(jobs)
        BY TakeJob DEF ConnectJobs, OrderlyInv, TypeOK
      <3>2. i = 1 /\ Head(jobs) = jobs[1]
        BY <3>1
      <3> QED
        BY <3>2 DEF ConnectJobs
    <2>3. \A i \in ConnectJobs : ConnectJobs = {i}
      <3>1. Len(jobs) \in Nat /\ Len(jobs) <= 1
        BY LenProperties DEF OrderlyInv, TypeOK
      <3> QED
        BY <3>1 DEF ConnectJobs
    <2>4. \A l \in Live : Live = {l} /\ ~timer /\ ConnectJobs = {}
      BY <2>1, <2>2 DEF OrderlyInv, Live
    <2>5. timer => ConnectJobs = {}
      BY <2>1 DEF OrderlyInv
    <2> QED
      BY <2>3, <2>4, <2>5 DEF SingleFlight, OrderlyInv
  <1> QED
    BY <1>1, Invariance, PTL

\* An orderly application is told "connected" only of a connection that exists.
THEOREM ConnectedIsHonest == Spec => []ConnectedIsTrue
  <1>1. IInv => ConnectedIsTrue
    BY DEF IInv, OrderlyInv, ConnectedIsTrue
  <1> QED
    BY <1>1, Invariance, PTL

\* Through a worker, and only there, disconnect() holds for good.
THEOREM WorkerStaysDown == Spec => []WorkerDisconnectSticks
  <1>1. IInv => WorkerDisconnectSticks
    BY DEF IInv, WorkerInv, WorkerDisconnectSticks
  <1> QED
    BY <1>1, Invariance, PTL

\* What getConnectionState reports of a client is true.
THEOREM StateIsReported == Spec => []StateIsTrue
  <1>1. ReconnectingHasTimer /\ ConnectedIsTrue /\ WorkerDisconnectSticks => StateIsTrue
    BY DEF StateIsTrue
  <1> QED
    BY <1>1, ReconnectIsScheduled, ConnectedIsHonest, WorkerStaysDown, PTL

\* Of an orderly application's calls, the close of a link fails only its own.
THEOREM CloseIsLocal == Spec => CloseSettlesOwnCallsOnly
  <1> DEFINE Local(c) == mode.orderly /\ sentOn[c] # None /\ call'[c] = "connectionClosed"
                            => links'[sentOn[c]] \in {"closed", "closing"}
  <1>1. ASSUME IInv, Next, NEW c \in Calls
        PROVE  Local(c)
    <2> SUFFICES ASSUME mode.orderly, sentOn[c] # None, call'[c] = "connectionClosed"
                 PROVE  links'[sentOn[c]] \in {"closed", "closing"}
      OBVIOUS
    <2>1. call[c] = "pending" /\ sentOn[c] \in Live /\ OrderlyInv /\ TypeOK
      BY <1>1 DEF IInv, NoPendingOnDeadLink, Live, TypeOK
    <2>2. CASE Connect
      BY <2>1, <2>2, LoadZero DEF Connect, MayConnect, Live
    <2>3. CASE Disconnect
      <3>1. jobs' # <<>> /\ OrderlyInv'
        BY <2>1, <2>3, OrderlyDispose DEF Disconnect, MayDisconnect
      <3> QED
        BY <2>1, <3>1 DEF OrderlyInv, Live
    <2>4. CASE TimerFires \/ OrphanTimerFires
      BY <2>1, <2>4 DEF TimerFires, OrphanTimerFires, OrderlyInv, Live
    <2>5. CASE Release \/ ResumeDisconnect \/ ResumeConnect
      BY <2>1, <2>5 DEF Release, ResumeDisconnect, ResumeConnect, rpcVars
    <2>6. ASSUME NEW l \in Links, OnOpen(l) \/ Drop(l)
          PROVE  FALSE
      BY <2>1, <2>6 DEF OnOpen, Drop, rpcVars
    <2>7. ASSUME NEW l \in Links, OnClose(l)
          PROVE  links'[sentOn[c]] \in {"closed", "closing"}
      <3>1. sentOn[c] = l
        BY <2>1, <2>7 DEF OnClose, OrderlyInv, Live
      <3> QED
        BY <2>7, <2>1, <3>1 DEF OnClose, TypeOK
    <2>8. ASSUME NEW d \in Calls, Rpc(d) \/ Respond(d) \/ RpcTimeout(d)
          PROVE  FALSE
      BY <2>1, <2>8 DEF Rpc, Respond, RpcTimeout, Settle, Await, TypeOK
    <2> QED
      BY <1>1, <2>2, <2>3, <2>4, <2>5, <2>6, <2>7, <2>8 DEF Next
  <1>2. IInv /\ [Next]_vars => [\A c \in Calls : Local(c)]_vars
    BY <1>1
  <1> QED
    BY <1>2, Invariance, PTL DEF Spec, CloseSettlesOwnCallsOnly

-----------------------------------------------------------------------------
(* DemoChat: histories, patches and what the vanilla page renders. *)

\* The number of the newest message in a history.
Upto(t) == IF t = <<>> THEN 0 ELSE t[Len(t)]

LEMMA HistoryFacts ==
    ASSUME NEW n \in 0..MaxInputs
    PROVE  /\ HistoryAt(n) \in Texts
           /\ Len(HistoryAt(n)) = IF n < Limit THEN n ELSE Limit
           /\ \A i \in 1..Len(HistoryAt(n)) :
                  HistoryAt(n)[i] = IF n < Limit THEN i ELSE n - Limit + i
           /\ IsInjective(HistoryAt(n))
           /\ Upto(HistoryAt(n)) = n
           /\ n > 0 => n \in ToSet(HistoryAt(n))
  <1> DEFINE k == IF n < Limit THEN n ELSE Limit
             h == HistoryAt(n)
  <1>1. k \in Nat /\ n \in Nat /\ Limit \in Nat /\ Limit > 0 /\ MaxInputs \in Nat
    BY LimitIsPositive, LimitsAreNat
  <1>2. \A i \in 1..k : (IF n < Limit THEN i ELSE n - Limit + i) \in Messages
    BY <1>1 DEF Messages
  <1>3. h = [i \in 1..k |-> IF n < Limit THEN i ELSE n - Limit + i]
    BY DEF HistoryAt
  <1>4. h \in Texts /\ Len(h) = k /\ DOMAIN h = 1..k
    <2> HIDE DEF h, k
    <2> QED
      BY <1>1, <1>2, <1>3 DEF Texts
  <1>5. \A i \in 1..k : h[i] = IF n < Limit THEN i ELSE n - Limit + i
    <2> HIDE DEF h, k
    <2> QED
      BY <1>3
  <1> HIDE DEF h
  <1>6. IsInjective(h)
    BY <1>1, <1>4, <1>5 DEF IsInjective
  <1>7. Upto(h) = n
    <2>1. CASE n = 0
      <3>1. k = 0
        BY <1>1, <2>1
      <3>2. h = <<>>
        BY <1>4, <3>1 DEF Texts
      <3> QED
        BY <2>1, <3>2 DEF Upto
    <2>2. CASE n # 0
      <3>1. k \in 1..k /\ h # <<>>
        BY <1>1, <1>4, <2>2
      <3> QED
        BY <1>1, <1>4, <1>5, <3>1 DEF Upto
    <2> QED
      BY <2>1, <2>2
  <1>8. n > 0 => n \in ToSet(h)
    <2>1. n > 0 => k \in 1..k /\ h[k] = n
      BY <1>1, <1>5
    <2> QED
      BY <1>4, <2>1 DEF ToSet
  <1> QED
    BY <1>4, <1>5, <1>6, <1>7, <1>8 DEF h

LEMMA HistoryStart == HistoryAt(0) = <<>>
  <1>1. 0 < Limit
    BY LimitIsPositive
  <1> QED
    BY <1>1 DEF HistoryAt

LEMMA PushedHistory ==
    ASSUME NEW n \in Nat, n + 1 \in Messages
    PROVE  Pushed(HistoryAt(n), n + 1) = HistoryAt(n + 1)
  <1> DEFINE h == HistoryAt(n)
             g == HistoryAt(n + 1)
  <1>1. n \in 0..MaxInputs /\ n + 1 \in 0..MaxInputs /\ Limit \in Nat /\ Limit > 0
    BY LimitIsPositive, LimitsAreNat DEF Messages
  <1>2. /\ h \in Texts /\ Len(h) = (IF n < Limit THEN n ELSE Limit)
        /\ \A i \in 1..Len(h) : h[i] = IF n < Limit THEN i ELSE n - Limit + i
    BY <1>1, HistoryFacts
  <1>3. /\ g \in Texts /\ Len(g) = (IF n + 1 < Limit THEN n + 1 ELSE Limit)
        /\ \A i \in 1..Len(g) : g[i] = IF n + 1 < Limit THEN i ELSE n + 1 - Limit + i
    BY <1>1, HistoryFacts
  <1> HIDE DEF h, g
  <1>4. CASE n < Limit
    <2> DEFINE y == Append(h, n + 1)
    <2>1. y \in Texts /\ Len(y) = n + 1
      BY <1>1, <1>2, <1>4 DEF Texts
    <2>2. \A i \in 1..n+1 : y[i] = i
      BY <1>1, <1>2, <1>4 DEF Texts
    <2>3. Pushed(h, n + 1) = y
      BY <1>1, <1>2, <1>4 DEF Pushed
    <2> HIDE DEF y
    <2>4. Len(g) = n + 1 /\ \A i \in 1..n+1 : g[i] = i
      BY <1>1, <1>3, <1>4
    <2>5. y = g
      BY <1>3, <2>1, <2>2, <2>4 DEF Texts
    <2> QED
      BY <2>3, <2>5 DEF h, g
  <1>5. CASE ~(n < Limit)
    <2> DEFINE t == Tail(h)
               y == Append(t, n + 1)
    <2>1. h # <<>>
      BY <1>1, <1>2, <1>5
    <2>2. t \in Texts /\ Len(t) = Limit - 1 /\ \A i \in 1..Limit-1 : t[i] = h[i+1]
      BY <1>1, <1>2, <1>5, <2>1, HeadTailProperties DEF Texts
    <2>3. Pushed(h, n + 1) = y
      BY <1>1, <1>2, <1>5 DEF Pushed
    <2>4. \A i \in 1..Limit-1 : h[i+1] = n + 1 - Limit + i
      BY <1>1, <1>2, <1>5
    <2> HIDE DEF t
    <2>5. y \in Texts /\ Len(y) = Limit
      BY <1>1, <2>2 DEF Texts
    <2>6. \A i \in 1..Limit : y[i] = n + 1 - Limit + i
      BY <1>1, <1>5, <2>2, <2>4 DEF Texts
    <2> HIDE DEF y
    <2>7. Len(g) = Limit /\ \A i \in 1..Limit : g[i] = n + 1 - Limit + i
      BY <1>1, <1>3, <1>5
    <2>8. y = g
      BY <1>3, <2>5, <2>6, <2>7 DEF Texts
    <2> QED
      BY <2>3, <2>8 DEF h, g
  <1> QED
    BY <1>4, <1>5

\* The patch for one message, on the history it was made from.
LEMMA PatchedHistory ==
    ASSUME NEW n \in Nat, n + 1 \in Messages
    PROVE  /\ Changed(HistoryAt(n), HistoryAt(n + 1)) \subseteq DOMAIN HistoryAt(n)
           /\ Patched(HistoryAt(n), HistoryAt(n), HistoryAt(n + 1)) = HistoryAt(n + 1)
  <1> DEFINE h == HistoryAt(n)
             g == HistoryAt(n + 1)
             r == [i \in DOMAIN h |-> IF i \in Changed(h, g) THEN g[i] ELSE h[i]]
             a == SubSeq(g, Len(h) + 1, Len(g))
  <1>1. n \in 0..MaxInputs /\ n + 1 \in 0..MaxInputs /\ Limit \in Nat /\ Limit > 0
    BY LimitIsPositive, LimitsAreNat DEF Messages
  <1>2. h \in Texts /\ Len(h) = (IF n < Limit THEN n ELSE Limit)
    BY <1>1, HistoryFacts
  <1>3. g \in Texts /\ Len(g) = (IF n + 1 < Limit THEN n + 1 ELSE Limit)
    BY <1>1, HistoryFacts
  <1> HIDE DEF h, g
  <1>4. /\ DOMAIN h = 1..Len(h) /\ DOMAIN g = 1..Len(g)
        /\ Len(h) \in Nat /\ Len(g) \in Nat /\ Len(h) <= Len(g)
    BY <1>1, <1>2, <1>3 DEF Texts
  <1>5. \A i \in 1..Len(h) : r[i] = g[i]
    BY <1>4 DEF Changed
  <1>6. r \in Texts /\ Len(r) = Len(h)
    <2>1. \A i \in 1..Len(h) : r[i] \in Messages
      BY <1>3, <1>4, <1>5 DEF Texts
    <2>2. r = [i \in 1..Len(h) |-> r[i]]
      BY <1>4
    <2> HIDE DEF r
    <2> QED
      BY <1>4, <2>1, <2>2 DEF Texts
  <1>7. Patched(h, h, g) = r \o a
    BY <1>4 DEF Patched
  <1> HIDE DEF r
  <1>8. /\ a \in Texts /\ Len(a) = Len(g) - Len(h)
        /\ \A i \in 1..Len(g) - Len(h) : a[i] = g[Len(h) + i]
    <2>1. /\ a \in Texts
          /\ Len(a) = IF Len(h) + 1 <= Len(g) THEN Len(g) - (Len(h) + 1) + 1 ELSE 0
          /\ \A i \in 1..Len(g) - (Len(h) + 1) + 1 : a[i] = g[Len(h) + 1 + i - 1]
      <3>1. \A i \in Len(h)+1..Len(g) : i \in 1..Len(g)
        BY <1>4
      <3> QED
        BY <1>3, <1>4, <3>1, SubSeqProperties DEF Texts
    <2> HIDE DEF a
    <2>2. /\ Len(g) - (Len(h) + 1) + 1 = Len(g) - Len(h)
          /\ ~(Len(h) + 1 <= Len(g)) => Len(g) - Len(h) = 0
          /\ \A i \in 1..Len(g) - Len(h) : Len(h) + 1 + i - 1 = Len(h) + i
      <3>1. \A x, z \in Nat : x <= z => /\ z - (x + 1) + 1 = z - x
                                        /\ ~(x + 1 <= z) => z - x = 0
                                        /\ \A i \in 1..z - x : x + 1 + i - 1 = x + i
        OBVIOUS
      <3> QED
        BY <1>4, <3>1
    <2>3. Len(a) = Len(g) - Len(h)
      BY <2>1, <2>2
    <2>4. \A i \in 1..Len(g) - Len(h) : a[i] = g[Len(h) + i]
      BY <2>1, <2>2
    <2> QED
      BY <2>1, <2>3, <2>4
  <1> HIDE DEF a
  <1>9. r \o a = g
    <2> DEFINE y == r \o a
    <2>1. /\ y \in Texts /\ Len(y) = Len(r) + Len(a)
          /\ \A i \in 1..Len(r) + Len(a) :
                 y[i] = IF i <= Len(r) THEN r[i] ELSE a[i - Len(r)]
      BY <1>6, <1>8, ConcatProperties DEF Texts
    <2> HIDE DEF y
    <2>2. Len(r) + Len(a) = Len(g)
      BY <1>4, <1>6, <1>8
    <2>3. \A i \in 1..Len(g) : y[i] = g[i]
      <3> SUFFICES ASSUME NEW i \in 1..Len(g) PROVE y[i] = g[i]
        OBVIOUS
      <3>1. CASE i <= Len(h)
        BY <1>4, <1>5, <1>6, <2>1, <2>2, <3>1
      <3>2. CASE ~(i <= Len(h))
        <4>1. i - Len(h) \in 1..Len(g) - Len(h) /\ Len(h) + (i - Len(h)) = i
          BY <1>4, <3>2
        <4> QED
          BY <1>4, <1>6, <1>8, <2>1, <2>2, <3>2, <4>1
      <3> QED
        BY <3>1, <3>2
    <2>4. y = g
      BY <1>3, <2>1, <2>2, <2>3 DEF Texts
    <2> QED
      BY <2>4 DEF y
  <1>10. Changed(h, g) \subseteq DOMAIN h
    BY DEF Changed
  <1> QED
    BY <1>7, <1>9, <1>10 DEF h, g

LEMMA PatchedType ==
    ASSUME NEW m \in Texts, NEW from \in Texts, NEW to \in Texts
    PROVE  Patched(m, from, to) \in Texts
  <1> DEFINE r == [i \in DOMAIN m |-> IF i \in Changed(from, to) THEN to[i] ELSE m[i]]
             a == SubSeq(to, Len(from) + 1, Len(to))
  <1>1. r \in Texts /\ Len(r) = Len(m)
    <2>1. /\ DOMAIN m = 1..Len(m) /\ DOMAIN to = 1..Len(to) /\ Len(m) \in Nat
          /\ \A i \in DOMAIN m : m[i] \in Messages
          /\ \A i \in DOMAIN to : to[i] \in Messages
      BY DEF Texts
    <2>2. r = [i \in 1..Len(m) |-> r[i]] /\ \A i \in 1..Len(m) : r[i] \in Messages
      BY <2>1 DEF Changed
    <2> HIDE DEF r
    <2> QED
      BY <2>1, <2>2 DEF Texts
  <1>2. Len(m) \in Nat /\ Len(from) \in Nat /\ Len(to) \in Nat
    BY DEF Texts
  <1>3. a \in Texts
    <2>1. \A i \in Len(from)+1..Len(to) : i \in 1..Len(to)
      BY <1>2
    <2> QED
      BY <1>2, <2>1, SubSeqProperties DEF Texts
  <1>4. Patched(m, from, to) = IF Len(m) <= Len(from) THEN r \o a
                               ELSE SubSeq(r, 1, Len(from)) \o a
                                        \o SubSeq(r, Len(from) + 1, Len(m))
    BY DEF Patched
  <1> HIDE DEF a, r
  <1>5. ~(Len(m) <= Len(from)) => /\ SubSeq(r, 1, Len(from)) \in Texts
                                  /\ SubSeq(r, Len(from) + 1, Len(m)) \in Texts
    BY <1>1, <1>2, SubSeqProperties DEF Texts
  <1> QED
    BY <1>1, <1>3, <1>4, <1>5 DEF Texts

\* What the vanilla page may have in its list: no message twice, and the set of
\* those it has shown.
DrawnOnce(d) ==
    /\ d.dom \in Texts /\ d.seen = ToSet(d.dom)
    /\ IsInjective(d.dom)

LEMMA AppendOnce ==
    ASSUME NEW d \in [dom : Texts, seen : SUBSET Messages], DrawnOnce(d),
           NEW m \in Messages
    PROVE  /\ AppendMessage(d, m) \in [dom : Texts, seen : SUBSET Messages]
           /\ DrawnOnce(AppendMessage(d, m))
           /\ AppendMessage(d, m).seen = d.seen \cup {m}
           /\ m \notin d.seen => AppendMessage(d, m).dom = Append(d.dom, m)
           /\ m \in d.seen => AppendMessage(d, m) = d
  <1>1. CASE m \in d.seen
    BY <1>1 DEF AppendMessage
  <1>2. CASE m \notin d.seen
    <2> DEFINE a == d.dom
               y == Append(a, m)
    <2>1. AppendMessage(d, m) = [dom |-> y, seen |-> d.seen \cup {m}]
      BY <1>2 DEF AppendMessage
    <2>2. a \in Seq(Messages) /\ d.seen = ToSet(a) /\ IsInjective(a)
      BY DEF DrawnOnce, Texts
    <2> HIDE DEF a
    <2>3. /\ y \in Seq(Messages) /\ Len(y) = Len(a) + 1 /\ Len(a) \in Nat
          /\ y[Len(a) + 1] = m /\ \A i \in 1..Len(a) : y[i] = a[i]
      BY <2>2
    <2> HIDE DEF y
    <2>4. DOMAIN y = 1..Len(a)+1 /\ DOMAIN a = 1..Len(a)
      BY <2>2, <2>3
    <2>5. \A i \in 1..Len(a) : a[i] \in d.seen
      BY <2>2, <2>4 DEF ToSet
    <2>6. IsInjective(y)
      <3> SUFFICES ASSUME NEW i \in 1..Len(a)+1, NEW j \in 1..Len(a)+1, y[i] = y[j]
                   PROVE  i = j
        BY <2>4 DEF IsInjective
      <3>1. CASE i \in 1..Len(a) /\ j \in 1..Len(a)
        BY <2>2, <2>3, <2>4, <3>1 DEF IsInjective
      <3>2. CASE i \in 1..Len(a) /\ j = Len(a) + 1
        BY <1>2, <2>3, <2>5, <3>2
      <3>3. CASE i = Len(a) + 1 /\ j \in 1..Len(a)
        BY <1>2, <2>3, <2>5, <3>3
      <3> QED
        BY <2>3, <3>1, <3>2, <3>3
    <2>7. ToSet(y) = ToSet(a) \cup {m}
      <3>1. \A i \in 1..Len(a)+1 : y[i] \in ToSet(a) \cup {m}
        BY <2>2, <2>3, <2>5
      <3>2. m \in ToSet(y)
        BY <2>3, <2>4 DEF ToSet
      <3>3. \A x \in ToSet(a) : x \in ToSet(y)
        BY <2>3, <2>4 DEF ToSet
      <3>4. \A x \in ToSet(y) : x \in ToSet(a) \cup {m}
        BY <2>4, <3>1 DEF ToSet
      <3> QED
        BY <3>2, <3>3, <3>4
    <2> QED
      BY <1>2, <2>1, <2>2, <2>3, <2>6, <2>7 DEF DrawnOnce, Texts, a, y
  <1> QED
    BY <1>1, <1>2

LEMMA LeastExists ==
    ASSUME NEW S \in SUBSET Nat, S # {}
    PROVE  \E m \in S : \A k \in S : m <= k
  <1> DEFINE R == OpToRel(<, Nat)
  <1>1. PICK x \in S : TRUE
    OBVIOUS
  <1>2. PICK m \in S : \A y \in S : ~ (<<y, m>> \in R)
    <2> HIDE DEF R
    <2>1. IsWellFoundedOn(R, Nat)
      BY NatLessThanWellFounded DEF R
    <2> QED
      BY <1>1, <2>1, WFMin
  <1>3. \A k \in S : ~(k < m)
    BY <1>2 DEF OpToRel
  <1>4. \A k \in S : m <= k
    <2> HIDE DEF R
    <2> SUFFICES ASSUME NEW k \in S PROVE m <= k
      OBVIOUS
    <2>1. k \in Nat /\ m \in Nat /\ ~(k < m)
      BY <1>3
    <2> QED
      BY <2>1
  <1> QED
    BY <1>4

\* A run over the first n messages of a state, one after the other.
IsDrawing(f, s, n) ==
    f = [i \in 0..n |-> IF i = 0 THEN Empty ELSE AppendMessage(f[i-1], s[i])]

LEMMA DrawingExists ==
    ASSUME NEW s, NEW n \in Nat
    PROVE  \E f : IsDrawing(f, s, n)
  <1> DEFINE Undrawn == {k \in Nat : ~\E f : IsDrawing(f, s, k)}
  <1> SUFFICES ASSUME Undrawn # {} PROVE FALSE
    OBVIOUS
  <1>1. PICK k \in Undrawn : \A j \in Undrawn : k <= j
    <2>1. Undrawn \in SUBSET Nat
      OBVIOUS
    <2> HIDE DEF Undrawn
    <2> QED
      BY <2>1, LeastExists
  <1>2. k \in Nat /\ \A f : ~IsDrawing(f, s, k)
    BY <1>1
  <1>3. k # 0
    <2> SUFFICES ASSUME k = 0 PROVE FALSE
      OBVIOUS
    <2> DEFINE g == [i \in 0..0 |-> Empty]
    <2>1. g = [i \in 0..0 |-> IF i = 0 THEN Empty ELSE AppendMessage(g[i-1], s[i])]
      OBVIOUS
    <2> HIDE DEF g
    <2>2. IsDrawing(g, s, k)
      BY <2>1 DEF IsDrawing
    <2> QED
      BY <1>2, <2>2
  <1>4. k - 1 \in Nat /\ ~(k <= k - 1)
    BY <1>2, <1>3
  <1>5. k - 1 \notin Undrawn
    BY <1>1, <1>4
  <1>6. PICK f : IsDrawing(f, s, k - 1)
    BY <1>4, <1>5
  <1>7. \A i \in 0..k-1 : f[i] = IF i = 0 THEN Empty ELSE AppendMessage(f[i-1], s[i])
    BY <1>6 DEF IsDrawing
  <1> DEFINE g == [i \in 0..k |-> IF i = k THEN AppendMessage(f[k-1], s[k]) ELSE f[i]]
  <1>8. \A i \in 0..k : g[i] = IF i = 0 THEN Empty ELSE AppendMessage(g[i-1], s[i])
    <2> SUFFICES ASSUME NEW i \in 0..k
                 PROVE  g[i] = IF i = 0 THEN Empty ELSE AppendMessage(g[i-1], s[i])
      OBVIOUS
    <2>1. CASE i = k
      <3>1. i # 0 /\ k \in 0..k /\ k - 1 \in 0..k /\ k - 1 # k
        BY <1>2, <1>3, <2>1
      <3>2. g[k] = AppendMessage(f[k-1], s[k]) /\ g[k-1] = f[k-1]
        BY <3>1
      <3> HIDE DEF g
      <3> QED
        BY <2>1, <3>1, <3>2
    <2>2. CASE i # k
      <3>1. i \in 0..k-1 /\ (i # 0 => i - 1 \in 0..k /\ i - 1 # k)
        BY <1>2, <1>3, <2>2
      <3>2. g[i] = f[i] /\ (i # 0 => g[i-1] = f[i-1])
        BY <2>2, <3>1
      <3> HIDE DEF g
      <3> QED
        BY <1>7, <3>1, <3>2
    <2> QED
      BY <2>1, <2>2
  <1>9. g = [i \in 0..k |-> g[i]]
    OBVIOUS
  <1> HIDE DEF g
  <1>10. IsDrawing(g, s, k)
    BY <1>8, <1>9 DEF IsDrawing
  <1> QED
    BY <1>2, <1>10

\* The vanilla page shows each message of a state once, and a state without
\* repetitions as it is.
LEMMA Rendered ==
    ASSUME NEW s \in Texts
    PROVE  /\ VanillaRender(s) \in [dom : Texts, seen : SUBSET Messages]
           /\ DrawnOnce(VanillaRender(s))
           /\ IsInjective(s) => VanillaRender(s).dom = s
  <1> DEFINE n == Len(s)
             f == CHOOSE g : IsDrawing(g, s, n)
  <1>1. s \in Seq(Messages) /\ n \in Nat /\ \A i \in 1..n : s[i] \in Messages
    BY DEF Texts
  <1>2. VanillaRender(s) = f[n]
    BY DEF VanillaRender, IsDrawing
  <1>3. IsDrawing(f, s, n)
    <2>1. \E g : IsDrawing(g, s, n)
      BY <1>1, DrawingExists
    <2> QED
      BY <2>1
  <1> HIDE DEF f, n
  <1>4. \A i \in 0..n : f[i] = IF i = 0 THEN Empty ELSE AppendMessage(f[i-1], s[i])
    BY <1>3 DEF IsDrawing
  <1> DEFINE Good(i) ==
                /\ f[i] \in [dom : Texts, seen : SUBSET Messages]
                /\ DrawnOnce(f[i])
                /\ \A x \in f[i].seen : \E j \in 1..i : s[j] = x
                /\ IsInjective(s) => /\ Len(f[i].dom) = i
                                     /\ \A j \in 1..i : f[i].dom[j] = s[j]
             Bad == {i \in 0..n : ~Good(i)}
  <1>5. Good(0)
    <2>1. f[0] = Empty
      BY <1>1, <1>4
    <2>2. /\ Empty \in [dom : Texts, seen : SUBSET Messages] /\ Empty.seen = {}
          /\ Empty.dom = <<>> /\ ToSet(<<>>) = {} /\ IsInjective(<<>>)
      BY DEF Empty, Texts, ToSet, IsInjective
    <2> QED
      BY <2>1, <2>2 DEF DrawnOnce
  <1>6. ASSUME NEW i \in 1..n, Good(i - 1)
        PROVE  Good(i)
    <2> DEFINE d == f[i-1]
               m == s[i]
    <2>1. /\ i \in 0..n /\ i # 0 /\ i - 1 \in Nat /\ m \in Messages
          /\ f[i] = AppendMessage(d, m)
      BY <1>1, <1>4
    <2>2. /\ d \in [dom : Texts, seen : SUBSET Messages] /\ DrawnOnce(d)
          /\ \A x \in d.seen : \E j \in 1..i-1 : s[j] = x
          /\ IsInjective(s) => Len(d.dom) = i - 1 /\ \A j \in 1..i-1 : d.dom[j] = s[j]
      BY <1>6
    <2> HIDE DEF d
    <2>3. /\ f[i] \in [dom : Texts, seen : SUBSET Messages]
          /\ DrawnOnce(f[i]) /\ f[i].seen = d.seen \cup {m}
          /\ m \notin d.seen => f[i].dom = Append(d.dom, m)
      BY <2>1, <2>2, AppendOnce
    <2>4. \A x \in f[i].seen : \E j \in 1..i : s[j] = x
      BY <2>1, <2>2, <2>3
    <2>5. ASSUME IsInjective(s)
          PROVE  Len(f[i].dom) = i /\ \A j \in 1..i : f[i].dom[j] = s[j]
      <3>1. m \notin d.seen
        <4> SUFFICES ASSUME m \in d.seen PROVE FALSE
          OBVIOUS
        <4>1. PICK j \in 1..i-1 : s[j] = m
          BY <2>2
        <4>2. j \in DOMAIN s /\ i \in DOMAIN s /\ j # i
          BY <1>1, <2>1 DEF n
        <4> QED
          BY <2>5, <4>1, <4>2 DEF IsInjective
      <3> DEFINE a == d.dom
      <3>2. a \in Seq(Messages) /\ Len(a) = i - 1 /\ \A j \in 1..i-1 : a[j] = s[j]
        BY <2>2, <2>5 DEF Texts
      <3>3. f[i].dom = Append(a, m)
        BY <2>3, <3>1
      <3> HIDE DEF a
      <3>4. /\ Len(Append(a, m)) = i /\ Append(a, m)[i] = m
            /\ \A j \in 1..i-1 : Append(a, m)[j] = a[j]
        BY <2>1, <3>2
      <3> QED
        BY <2>1, <3>2, <3>3, <3>4
    <2> QED
      BY <2>3, <2>4, <2>5
  <1> HIDE DEF Good
  <1>7. Bad = {}
    <2> SUFFICES ASSUME Bad # {} PROVE FALSE
      OBVIOUS
    <2>1. PICK k \in Bad : \A j \in Bad : k <= j
      <3>1. Bad \in SUBSET Nat
        BY <1>1
      <3> HIDE DEF Bad
      <3> QED
        BY <3>1, LeastExists
    <2>2. k \in 0..n /\ ~Good(k)
      BY <2>1
    <2>3. k # 0
      BY <1>5, <2>2
    <2>4. k \in 1..n /\ k - 1 \in 0..n /\ ~(k <= k - 1)
      BY <1>1, <2>2, <2>3
    <2>5. Good(k - 1)
      BY <2>1, <2>4
    <2> QED
      BY <1>6, <2>2, <2>4, <2>5
  <1>8. Good(n)
    BY <1>1, <1>7
  <1>9. ASSUME IsInjective(s)
        PROVE  f[n].dom = s
    <2>1. /\ f[n].dom \in Seq(Messages) /\ Len(f[n].dom) = n
          /\ \A j \in 1..n : f[n].dom[j] = s[j]
      BY <1>8, <1>9 DEF Good, Texts
    <2> QED
      BY <1>1, <2>1 DEF n
  <1> QED
    BY <1>2, <1>8, <1>9 DEF Good

-----------------------------------------------------------------------------
(* DemoChat: the page, its calls and its dashboard. *)

\* Calls and ticks are numbered as inputs are spent.
PageBudget == panel.call + ticks + inputs <= MaxInputs

\* One client is in use from the mount on, the one whose state is polled; a
\* page that has gone has closed it.
MountInv ==
    /\ kind # "react" => ~strict
    /\ ~strict => conn[2] = "none"
    /\ page = "blank" => /\ client = 0 /\ polls = {} /\ ~hooks
                         /\ conn = [c \in Clients |-> "none"]
    /\ page = "mounted" => client = Current /\ polls = {client}
    /\ page = "gone" => /\ kind # "vanilla" /\ polls = {} /\ ~hooks
                        /\ conn[Current] = "closed"
                        /\ client \in {0, Current}

Rising(q, lo, hi) ==
    /\ \A i \in DOMAIN q : lo < q[i] /\ q[i] <= hi
    /\ \A i, j \in DOMAIN q : i < j => q[i] < q[j]

LEMMA RisingAppend ==
    ASSUME NEW N \in Nat, NEW q \in Seq(1..N), NEW lo \in Nat, NEW hi \in Nat,
           lo <= hi, hi + 1 <= N, Rising(q, lo, hi)
    PROVE  Append(q, hi + 1) \in Seq(1..N) /\ Rising(Append(q, hi + 1), lo, hi + 1)
  <1> DEFINE y == Append(q, hi + 1)
             n == Len(q)
  <1>1. hi + 1 \in 1..N
    OBVIOUS
  <1>2. /\ y \in Seq(1..N) /\ DOMAIN y = 1..n+1 /\ DOMAIN q = 1..n
        /\ n \in Nat /\ y[n+1] = hi + 1
        /\ \A i \in 1..n : y[i] = q[i] /\ q[i] \in Nat
    BY <1>1
  <1> HIDE DEF y, n
  <1>3. \A i \in 1..n : lo < y[i] /\ y[i] <= hi
    BY <1>2 DEF Rising
  <1>4. \A i \in 1..n+1 : lo < y[i] /\ y[i] <= hi + 1
    <2> SUFFICES ASSUME NEW i \in 1..n+1 PROVE lo < y[i] /\ y[i] <= hi + 1
      OBVIOUS
    <2>1. CASE i \in 1..n
      <3>1. lo < y[i] /\ y[i] <= hi /\ y[i] \in Nat
        BY <1>2, <1>3, <2>1
      <3> QED
        BY <3>1
    <2>2. CASE i = n + 1
      BY <1>2, <2>2
    <2> QED
      BY <1>2, <2>1, <2>2
  <1>5. \A i, j \in 1..n+1 : i < j => y[i] < y[j]
    <2> SUFFICES ASSUME NEW i \in 1..n+1, NEW j \in 1..n+1, i < j PROVE y[i] < y[j]
      OBVIOUS
    <2>1. i \in 1..n
      BY <1>2
    <2>2. CASE j \in 1..n
      BY <1>2, <2>1, <2>2 DEF Rising
    <2>3. CASE j = n + 1
      <3>1. y[i] <= hi /\ y[i] \in Nat
        BY <1>2, <1>3, <2>1
      <3> QED
        BY <1>2, <2>3, <3>1
    <2> QED
      BY <1>2, <2>2, <2>3
  <1>6. Rising(y, lo, hi + 1)
    BY <1>2, <1>4, <1>5 DEF Rising
  <1> QED
    BY <1>2, <1>6 DEF y

LEMMA RisingTail ==
    ASSUME NEW N \in Nat, NEW q \in Seq(1..N), NEW lo \in Nat, NEW hi \in Nat,
           q # <<>>, Rising(q, lo, hi)
    PROVE  /\ Tail(q) \in Seq(1..N) /\ Head(q) \in 1..N /\ Head(q) <= hi
           /\ Rising(Tail(q), lo, hi) /\ Rising(Tail(q), Head(q), hi)
  <1> DEFINE t == Tail(q)
             n == Len(q)
  <1>1. /\ t \in Seq(1..N) /\ DOMAIN t = 1..n-1 /\ DOMAIN q = 1..n
        /\ n \in Nat /\ n >= 1 /\ Head(q) = q[1] /\ q[1] \in 1..N
        /\ \A i \in 1..n-1 : t[i] = q[i+1]
    OBVIOUS
  <1> HIDE DEF t, n
  <1>2. \A i \in 1..n-1 : i + 1 \in 1..n /\ 1 \in 1..n /\ 1 < i + 1
    BY <1>1
  <1>3. \A i, j \in 1..n-1 : i < j => i + 1 < j + 1
    BY <1>1
  <1>4. /\ \A i \in 1..n-1 : lo < t[i] /\ q[1] < t[i] /\ t[i] <= hi
        /\ \A i, j \in 1..n-1 : i < j => t[i] < t[j]
    BY <1>1, <1>2, <1>3 DEF Rising
  <1>5. q[1] <= hi
    <2>1. 1 \in DOMAIN q
      BY <1>1
    <2> QED
      BY <2>1 DEF Rising
  <1> QED
    BY <1>1, <1>4, <1>5 DEF Rising, t

\* Metrics arrive in the order they were taken.
DashInv == dash <= ticks /\ Rising(feed, dash, ticks)

\* Calls ask for a range that is one, and the panel has what the last of them
\* came to.
CallTypes ==
    /\ kind \in Kinds
    /\ panel \in [busy : BOOLEAN, error : BOOLEAN, call : 0..MaxInputs,
                  result : Results, log : Seq(Results)]
    /\ Len(panel.log) <= LogLimit
    /\ asks \subseteq [call : 1..MaxInputs, lo : Int, hi : Int]
    /\ answers \subseteq Results
    /\ last \in [ok : BOOLEAN, result : Results]

PanelInv ==
    /\ panel.busy => panel.call > 0 /\ (kind # "vanilla" => ~panel.error)
    /\ panel.call > 0 /\ ~panel.busy =>
           /\ panel.error = ~last.ok
           /\ last.ok => /\ panel.result = last.result
                         /\ last.result.call = panel.call /\ last.result.fits
                         /\ LogLimit > 0 => /\ panel.log # <<>>
                                            /\ Head(panel.log) = last.result

CallInv ==
    /\ CallTypes /\ PanelInv
    /\ \A q \in asks : q.lo <= q.hi
    /\ \A r \in answers : r.fits

LEMMA NewestFacts ==
    ASSUME NEW r \in Results, NEW log \in Seq(Results), Len(log) <= LogLimit
    PROVE  /\ Newest(r, log) \in Seq(Results) /\ Len(Newest(r, log)) <= LogLimit
           /\ LogLimit > 0 => Newest(r, log) # <<>> /\ Head(Newest(r, log)) = r
  <1> DEFINE s == <<r>> \o log
             n == IF Len(log) < LogLimit THEN Len(log) + 1 ELSE LogLimit
             y == SubSeq(s, 1, n)
  <1>1. /\ s \in Seq(Results) /\ Len(s) = Len(log) + 1 /\ s[1] = r
        /\ Len(log) \in Nat /\ LogLimit \in Nat
    BY LimitsAreNat
  <1>2. n \in Nat /\ n <= Len(log) + 1 /\ n <= LogLimit /\ (LogLimit > 0 => n >= 1)
    BY <1>1
  <1> HIDE DEF s, n
  <1>3. /\ y \in Seq(Results) /\ Len(y) = n /\ \A i \in 1..n : y[i] = s[i]
    <2>1. /\ y \in Seq(Results) /\ Len(y) = IF 1 <= n THEN n - 1 + 1 ELSE 0
          /\ \A i \in 1..n - 1 + 1 : y[i] = s[1 + i - 1]
      <3>1. \A i \in 1..n : i \in 1..Len(s)
        BY <1>1, <1>2
      <3>2. 1 \in Int /\ n \in Int
        BY <1>2
      <3> QED
        BY <1>1, <3>1, <3>2, SubSeqProperties
    <2> HIDE DEF y
    <2> QED
      BY <1>2, <2>1
  <1>4. Newest(r, log) = y
    BY DEF Newest, s, n
  <1> HIDE DEF y
  <1> QED
    BY <1>1, <1>2, <1>3, <1>4

\* However a call ends, the panel shows it.
LEMMA SettleKeeps ==
    ASSUME CallInv, panel.busy, NEW ok \in BOOLEAN, NEW r \in Results,
           ok => r.call = panel.call /\ r.fits,
           SettleCall(ok, r), UNCHANGED kind
    PROVE  /\ panel' \in [busy : BOOLEAN, error : BOOLEAN, call : 0..MaxInputs,
                          result : Results, log : Seq(Results)]
           /\ Len(panel'.log) <= LogLimit
           /\ last' \in [ok : BOOLEAN, result : Results]
           /\ panel'.call = panel.call /\ PanelInv'
  <1> DEFINE Panels == [busy : BOOLEAN, error : BOOLEAN, call : 0..MaxInputs,
                        result : Results, log : Seq(Results)]
             log == Newest(r, panel.log)
             good == [panel EXCEPT !.busy = FALSE, !.error = FALSE, !.result = r,
                                   !.log = log]
             bad == [panel EXCEPT !.busy = FALSE, !.error = TRUE]
  <1>1. /\ panel \in Panels /\ Len(panel.log) <= LogLimit
        /\ kind \in {"vanilla", "react", "vue"} /\ panel.call > 0
        /\ kind # "vanilla" => panel.error = FALSE
    BY KindsAreKnown DEF CallInv, CallTypes, PanelInv
  <1>2. /\ log \in Seq(Results) /\ Len(log) <= LogLimit
        /\ LogLimit > 0 => log # <<>> /\ Head(log) = r
    BY <1>1, NewestFacts
  <1>3. last' = [ok |-> ok, result |-> r]
    BY DEF SettleCall
  <1>4. /\ good \in Panels /\ good.busy = FALSE /\ good.error = FALSE
        /\ good.result = r /\ good.log = log /\ good.call = panel.call
    <2> HIDE DEF log
    <2> QED
      BY <1>1, <1>2
  <1>5. /\ bad \in Panels /\ bad.busy = FALSE /\ bad.error = TRUE
        /\ bad.log = panel.log /\ bad.call = panel.call
    BY <1>1
  <1>6. panel' = IF ok THEN good ELSE bad
    <2>1. CASE kind = "vanilla"
      BY <2>1 DEF SettleCall, Settled, VanillaSettle
    <2>2. CASE kind = "react"
      <3>1. [panel EXCEPT !.busy = FALSE, !.result = r, !.log = log] = good
        <4> HIDE DEF log
        <4> QED
          BY <1>1, <2>2
      <3> QED
        BY <2>2, <3>1 DEF SettleCall, Settled, ReactSettle
    <2>3. CASE kind = "vue"
      <3>1. [panel EXCEPT !.busy = FALSE, !.result = r, !.log = log] = good
        <4> HIDE DEF log
        <4> QED
          BY <1>1, <2>3
      <3> QED
        BY <2>3, <3>1 DEF SettleCall, Settled, VueSettle
    <2> QED
      BY <1>1, <2>1, <2>2, <2>3
  <1> HIDE DEF good, bad, log
  <1>7. CASE ok
    <2>1. panel' = good /\ last'.ok = TRUE /\ last'.result = r
      BY <1>3, <1>6, <1>7
    <2> QED
      BY <1>1, <1>2, <1>3, <1>4, <1>7, <2>1 DEF PanelInv
  <1>8. CASE ~ok
    <2>1. panel' = bad /\ last'.ok = FALSE
      BY <1>3, <1>6, <1>8
    <2> QED
      BY <1>1, <1>3, <1>5, <1>8, <2>1 DEF PanelInv
  <1> QED
    BY <1>7, <1>8

LEMMA NoResultIsOne == NoResult \in Results
  BY LimitsAreNat DEF NoResult, Results

\* A connection that is lost takes what is on its way with it.
LEMMA LoseFramesKeeps ==
    ASSUME CallInv, NEW c, LoseFrames(c), UNCHANGED kind
    PROVE  /\ CallInv' /\ panel'.call = panel.call
           /\ feed' \in {feed, <<>>}
  <1>1. CASE c = client
    <2>1. feed' = <<>> /\ asks' = {} /\ answers' = {} /\ Reject
      BY <1>1 DEF LoseFrames
    <2>2. CASE panel.busy
      <3>1. SettleCall(FALSE, NoResult)
        BY <2>1, <2>2 DEF Reject
      <3> QED
        BY <2>1, <2>2, <3>1, SettleKeeps, NoResultIsOne DEF CallInv, CallTypes
    <2>3. CASE ~panel.busy
      BY <2>1, <2>3 DEF Reject, CallInv, CallTypes, PanelInv
    <2> QED
      BY <2>2, <2>3
  <1>2. CASE c # client
    BY <1>2 DEF LoseFrames, CallInv, CallTypes, PanelInv
  <1> QED
    BY <1>1, <1>2

\* What the panel shows when no call runs.
LEMMA PanelIsTrue ==
    ASSUME CallInv
    PROVE  PanelShowsLastCall
  <1> SUFFICES ASSUME panel.call > 0, ~panel.busy
               PROVE  /\ PanelView.what = (IF last.ok THEN "value" ELSE "error")
                      /\ last.ok => /\ PanelView.result = last.result
                                    /\ last.result.call = panel.call /\ last.result.fits
                                    /\ LogLimit > 0 => Head(PanelView.rows) = last.result
    BY DEF PanelShowsLastCall
  <1>1. /\ kind \in {"vanilla", "react", "vue"} /\ last.ok \in BOOLEAN
        /\ panel.call \in Nat
    BY KindsAreKnown DEF CallInv, CallTypes
  <1>2. /\ PanelView.result = panel.result /\ PanelView.rows = panel.log
        /\ PanelView.what = IF panel.error THEN "error"
                            ELSE IF panel.result = NoResult THEN "prompt" ELSE "value"
    BY <1>1 DEF PanelView, VanillaView, ReactView, VueView, View
  <1>3. /\ panel.error = ~last.ok
        /\ last.ok => /\ panel.result = last.result
                      /\ last.result.call = panel.call /\ last.result.fits
                      /\ LogLimit > 0 => Head(panel.log) = last.result
    BY DEF CallInv, PanelInv
  <1>4. last.ok => panel.result # NoResult
    BY <1>1, <1>3 DEF NoResult
  <1> QED
    BY <1>1, <1>2, <1>3, <1>4

-----------------------------------------------------------------------------
(* DemoChat: the page, action by action. *)

PageCore == PageTypeOK /\ PageBudget /\ MountInv /\ DashInv /\ CallInv

\* What no step of the page does: change its kind, spend more than it has, or
\* go back to before the mount.
PageMove ==
    /\ PageCore' /\ UNCHANGED worldVars
    /\ panel'.call + ticks' + inputs' <= panel.call + ticks + inputs
    /\ page' = "blank" => page = "blank"
    /\ hooks' => hooks \/ kind = "react" \/ page = "blank"

LEMMA CoreNumbers ==
    ASSUME PageCore
    PROVE  /\ panel.call \in 0..MaxInputs /\ ticks \in 0..MaxInputs
           /\ inputs \in 0..MaxInputs /\ MaxInputs \in Nat
           /\ panel.call + ticks + inputs <= MaxInputs
           /\ kind \in {"vanilla", "react", "vue"} /\ Current \in {1, 2}
           /\ Current \in Clients /\ Current \in Effects
           /\ conn \in [Clients -> States]
  BY LimitsAreNat, KindsAreKnown
  DEF PageCore, PageTypeOK, PageBudget, Current, Clients, Effects

LEMMA PageAssembly ==
    ASSUME PageCore, UNCHANGED worldVars,
           serverUp' \in BOOLEAN, ticks' \in Nat, inputs' \in Nat,
           page' \in {"blank", "mounted", "gone"}, client' \in 0..2,
           conn' \in [Clients -> States], polls' \subseteq Clients,
           hooks' \in BOOLEAN, feed' \in Seq(1..MaxInputs), dash' \in 0..MaxInputs,
           panel'.call + ticks' + inputs' <= panel.call + ticks + inputs,
           MountInv', DashInv', CallInv',
           page' = "blank" => page = "blank",
           hooks' => hooks \/ kind = "react" \/ page = "blank"
    PROVE  PageMove
  <1>1. panel'.call \in 0..MaxInputs
    BY DEF CallInv, CallTypes
  <1>2. /\ panel.call + ticks + inputs <= MaxInputs /\ panel.call + ticks + inputs \in Nat
        /\ MaxInputs \in Nat
    BY CoreNumbers
  <1>3. panel'.call + ticks' + inputs' <= MaxInputs
    BY <1>1, <1>2
  <1>4. ticks' \in 0..MaxInputs /\ inputs' \in 0..MaxInputs
    BY <1>1, <1>2, <1>3
  <1>5. PageTypeOK'
    BY <1>4 DEF PageTypeOK, PageCore, CallInv, CallTypes, worldVars
  <1>6. PageBudget'
    BY <1>3 DEF PageBudget
  <1> QED
    BY <1>5, <1>6 DEF PageMove, PageCore

\* A connection that changes its state without opening or closing for good.
LEMMA MountKeeps ==
    ASSUME PageCore, UNCHANGED <<kind, strict, page, client, polls, hooks>>,
           conn' \in [Clients -> States],
           \A c \in Clients : conn[c] \in {"none", "closed"} => conn'[c] = conn[c]
    PROVE  MountInv'
  <1>1. Current' = Current /\ Current \in Clients /\ 2 \in Clients
        /\ conn \in [Clients -> States]
    BY CoreNumbers DEF Current, Clients
  <1>2. ~strict => conn'[2] = "none"
    BY <1>1 DEF PageCore, MountInv
  <1>3. page = "gone" => conn'[Current] = "closed"
    BY <1>1 DEF PageCore, MountInv
  <1>4. page = "blank" => conn' = [c \in Clients |-> "none"]
    <2> SUFFICES ASSUME page = "blank" PROVE conn' = [c \in Clients |-> "none"]
      OBVIOUS
    <2>1. \A c \in Clients : conn[c] = "none"
      BY DEF PageCore, MountInv
    <2>2. \A c \in Clients : conn'[c] = "none"
      BY <2>1
    <2> QED
      BY <2>2
  <1> QED
    BY <1>1, <1>2, <1>3, <1>4 DEF PageCore, MountInv

LEMMA DashKeeps ==
    ASSUME PageCore, feed' \in {feed, <<>>}, UNCHANGED <<ticks, dash>>
    PROVE  DashInv' /\ feed' \in Seq(1..MaxInputs) /\ dash' \in 0..MaxInputs
  <1>1. feed \in Seq(1..MaxInputs) /\ dash \in 0..MaxInputs /\ DashInv
    BY DEF PageCore, PageTypeOK
  <1>2. CASE feed' = feed
    BY <1>1, <1>2 DEF DashInv, Rising
  <1>3. CASE feed' = <<>>
    <2>1. DOMAIN <<>> = {} /\ <<>> \in Seq(1..MaxInputs)
      OBVIOUS
    <2> QED
      BY <1>1, <1>3, <2>1 DEF DashInv, Rising
  <1> QED
    BY <1>2, <1>3

LEMMA CallsKeep ==
    ASSUME PageCore, UNCHANGED <<kind, panel, asks, answers, last>>
    PROVE  CallInv'
  BY DEF PageCore, CallInv, CallTypes, PanelInv

LEMMA StartMoves ==
    ASSUME PageCore, VanillaStart \/ ReactMount \/ VueMount
    PROVE  PageMove
  <1>1. /\ page = "blank" /\ page' = "mounted" /\ client' = Current
        /\ conn' = [d \in Clients |-> IF d \in Effects THEN "connecting" ELSE "none"]
        /\ polls' = {client'} /\ hooks' \in BOOLEAN
        /\ UNCHANGED <<worldVars, serverUp, ticks, inputs, feed, dash, callVars>>
    <2>1. CASE VanillaStart
      <3>1. kind = "vanilla" /\ Start(1, TRUE)
        BY <2>1 DEF VanillaStart
      <3>2. Current = 1
        BY <3>1 DEF PageCore, MountInv, Current
      <3> QED
        BY <3>1, <3>2 DEF Start
    <2>2. CASE ReactMount
      BY <2>2 DEF ReactMount, Start
    <2>3. CASE VueMount
      <3>1. kind = "vue" /\ Start(1, TRUE)
        BY <2>3 DEF VueMount
      <3>2. Current = 1
        BY <3>1 DEF PageCore, MountInv, Current
      <3> QED
        BY <3>1, <3>2 DEF Start
    <2> QED
      BY <2>1, <2>2, <2>3
  <1>2. Current \in {1, 2} /\ Current \in Clients /\ Clients = {1, 2}
    BY CoreNumbers DEF Clients
  <1>3. conn' \in [Clients -> States] /\ (~strict => conn'[2] = "none")
    BY <1>1, <1>2 DEF States, Effects
  <1>4. MountInv'
    BY <1>1, <1>2, <1>3 DEF MountInv, PageCore, Current, worldVars
  <1>5. DashInv' /\ feed' \in Seq(1..MaxInputs) /\ dash' \in 0..MaxInputs
    BY <1>1, DashKeeps
  <1>6. CallInv'
    BY <1>1, CallsKeep DEF worldVars, callVars
  <1>7. /\ serverUp' \in BOOLEAN /\ ticks' \in Nat /\ inputs' \in Nat /\ polls' \subseteq Clients
        /\ client' \in 0..2
        /\ panel'.call + ticks' + inputs' <= panel.call + ticks + inputs
    BY <1>1, <1>2, CoreNumbers DEF PageCore, PageTypeOK, callVars
  <1> QED
    BY <1>1, <1>3, <1>4, <1>5, <1>6, <1>7, PageAssembly

LEMMA HooksMove ==
    ASSUME PageCore, ReactHooks
    PROVE  PageMove
  <1>1. /\ kind = "react" /\ page = "mounted" /\ hooks' = TRUE
        /\ UNCHANGED <<worldVars, serverUp, ticks, inputs, page, client, conn,
                       polls, feed, dash, callVars>>
    BY DEF ReactHooks
  <1>2. MountInv'
    BY <1>1 DEF PageCore, MountInv, Current, worldVars
  <1>3. DashInv' /\ feed' \in Seq(1..MaxInputs) /\ dash' \in 0..MaxInputs
    BY <1>1, DashKeeps
  <1>4. CallInv'
    BY <1>1, CallsKeep DEF worldVars, callVars
  <1>5. /\ serverUp' \in BOOLEAN /\ ticks' \in Nat /\ inputs' \in Nat /\ polls' \subseteq Clients
        /\ client' \in 0..2 /\ conn' \in [Clients -> States]
        /\ panel'.call + ticks' + inputs' <= panel.call + ticks + inputs
    BY <1>1, CoreNumbers DEF PageCore, PageTypeOK, callVars
  <1> QED
    BY <1>1, <1>2, <1>3, <1>4, <1>5, PageAssembly

LEMMA UnmountMoves ==
    ASSUME PageCore, ReactUnmount \/ VueUnmount
    PROVE  PageMove
  <1>1. /\ kind # "vanilla" /\ page = "mounted" /\ page' = "gone" /\ hooks' = FALSE
        /\ polls' = polls \ {client} /\ conn' = [conn EXCEPT ![client] = "closed"]
        /\ client' \in {0, client} /\ LoseFrames(client)
        /\ UNCHANGED <<worldVars, serverUp, ticks, inputs, dash>>
    <2>1. CASE ReactUnmount
      BY <2>1 DEF ReactUnmount, Unmount, DisconnectClient
    <2>2. CASE VueUnmount
      BY <2>2 DEF VueUnmount, Unmount, DisconnectClient
    <2> QED
      BY <2>1, <2>2
  <1>2. /\ client = Current /\ polls = {client} /\ Current \in {1, 2}
        /\ Clients = {1, 2} /\ Current' = Current /\ conn \in [Clients -> States]
    BY <1>1, CoreNumbers DEF PageCore, MountInv, Current, Clients, worldVars
  <1>3. conn' \in [Clients -> States] /\ conn'[Current] = "closed"
    BY <1>1, <1>2 DEF States
  <1>4. ~strict => conn'[2] = "none"
    BY <1>1, <1>2 DEF PageCore, MountInv, Current
  <1>5. MountInv'
    BY <1>1, <1>2, <1>3, <1>4 DEF MountInv, PageCore, worldVars
  <1>6. CallInv' /\ panel'.call = panel.call /\ feed' \in {feed, <<>>}
    BY <1>1, LoseFramesKeeps DEF PageCore, worldVars
  <1>7. DashInv' /\ feed' \in Seq(1..MaxInputs) /\ dash' \in 0..MaxInputs
    BY <1>1, <1>6, DashKeeps
  <1>8. /\ serverUp' \in BOOLEAN /\ ticks' \in Nat /\ inputs' \in Nat /\ polls' \subseteq Clients
        /\ client' \in 0..2
        /\ panel'.call + ticks' + inputs' <= panel.call + ticks + inputs
    BY <1>1, <1>2, <1>6, CoreNumbers DEF PageCore, PageTypeOK
  <1> QED
    BY <1>1, <1>3, <1>5, <1>6, <1>7, <1>8, PageAssembly

LEMMA ConnectionMoves ==
    ASSUME PageCore, NEW c \in Clients,
           Opened(c) \/ Refused(c) \/ Retry(c) \/ Cut(c)
    PROVE  PageMove
  <1>1. /\ \E s \in States : conn' = [conn EXCEPT ![c] = s]
        /\ conn[c] \notin {"none", "closed"}
        /\ \/ LoseFrames(c)
           \/ UNCHANGED <<feed, callVars>>
        /\ inputs' \in {inputs, inputs - 1} /\ (inputs' = inputs \/ inputs > 0)
        /\ UNCHANGED <<worldVars, serverUp, ticks, page, client, polls, hooks, dash>>
    <2>1. CASE Opened(c)
      BY <2>1 DEF Opened, States
    <2>2. CASE Refused(c)
      <3>1. PICK s \in {"waiting", "lost"} : conn' = [conn EXCEPT ![c] = s]
        BY <2>2 DEF Refused
      <3> QED
        BY <2>2, <3>1 DEF Refused, States, Spend
    <2>3. CASE Retry(c)
      BY <2>3 DEF Retry, States
    <2>4. CASE Cut(c)
      BY <2>4 DEF Cut, States, Spend
    <2> QED
      BY <2>1, <2>2, <2>3, <2>4
  <1>2. /\ conn' \in [Clients -> States]
        /\ \A d \in Clients : conn[d] \in {"none", "closed"} => conn'[d] = conn[d]
    BY <1>1, CoreNumbers
  <1>3. MountInv'
    BY <1>1, <1>2, MountKeeps DEF worldVars
  <1>4. CallInv' /\ panel'.call = panel.call /\ feed' \in {feed, <<>>}
    <2>1. CASE LoseFrames(c)
      BY <1>1, <2>1, LoseFramesKeeps DEF PageCore, worldVars
    <2>2. CASE UNCHANGED <<feed, callVars>>
      BY <1>1, <2>2, CallsKeep DEF worldVars, callVars
    <2> QED
      BY <1>1, <2>1, <2>2
  <1>5. DashInv' /\ feed' \in Seq(1..MaxInputs) /\ dash' \in 0..MaxInputs
    BY <1>1, <1>4, DashKeeps
  <1>6. /\ serverUp' \in BOOLEAN /\ ticks' \in Nat /\ inputs' \in Nat /\ polls' \subseteq Clients
        /\ client' \in 0..2 /\ hooks' \in BOOLEAN /\ page' \in {"blank", "mounted", "gone"}
        /\ panel'.call + ticks' + inputs' <= panel.call + ticks + inputs
    BY <1>1, <1>4, CoreNumbers DEF PageCore, PageTypeOK
  <1> QED
    BY <1>1, <1>2, <1>3, <1>4, <1>5, <1>6, PageAssembly

LEMMA StopMoves ==
    ASSUME PageCore, StopServer
    PROVE  PageMove
  <1>1. /\ serverUp' = FALSE
        /\ conn' = [c \in Clients |-> IF conn[c] = "open" THEN "waiting" ELSE conn[c]]
        /\ \/ LoseFrames(client)
           \/ UNCHANGED <<feed, callVars>>
        /\ UNCHANGED <<worldVars, ticks, inputs, page, client, polls, hooks, dash>>
    BY DEF StopServer, callVars
  <1>2. /\ conn' \in [Clients -> States]
        /\ \A d \in Clients : conn[d] \in {"none", "closed"} => conn'[d] = conn[d]
    BY <1>1, CoreNumbers DEF States
  <1>3. MountInv'
    BY <1>1, <1>2, MountKeeps DEF worldVars
  <1>4. CallInv' /\ panel'.call = panel.call /\ feed' \in {feed, <<>>}
    <2>1. CASE LoseFrames(client)
      BY <1>1, <2>1, LoseFramesKeeps DEF PageCore, worldVars
    <2>2. CASE UNCHANGED <<feed, callVars>>
      BY <1>1, <2>2, CallsKeep DEF worldVars, callVars
    <2> QED
      BY <1>1, <2>1, <2>2
  <1>5. DashInv' /\ feed' \in Seq(1..MaxInputs) /\ dash' \in 0..MaxInputs
    BY <1>1, <1>4, DashKeeps
  <1>6. /\ ticks' \in Nat /\ inputs' \in Nat /\ polls' \subseteq Clients
        /\ client' \in 0..2 /\ hooks' \in BOOLEAN /\ page' \in {"blank", "mounted", "gone"}
        /\ panel'.call + ticks' + inputs' <= panel.call + ticks + inputs
    BY <1>1, <1>4, CoreNumbers DEF PageCore, PageTypeOK
  <1> QED
    BY <1>1, <1>2, <1>3, <1>4, <1>5, <1>6, PageAssembly

\* The state of the connection, the mount and the metrics does not change.
LinksKept == UNCHANGED <<worldVars, page, linkVars>>

LEMMA LinksKeep ==
    ASSUME PageCore, LinksKept
    PROVE  /\ MountInv' /\ page' \in {"blank", "mounted", "gone"} /\ client' \in 0..2
           /\ conn' \in [Clients -> States] /\ polls' \subseteq Clients
           /\ hooks' \in BOOLEAN
           /\ page' = "blank" => page = "blank"
           /\ hooks' => hooks
           /\ UNCHANGED <<worldVars, kind>>
  <1>1. UNCHANGED <<kind, strict, page, client, conn, polls, hooks>>
    BY DEF LinksKept, worldVars, linkVars
  <1>2. MountInv'
    BY <1>1 DEF PageCore, MountInv, Current
  <1> QED
    BY <1>1, <1>2 DEF PageCore, PageTypeOK, LinksKept

LEMMA PanelTypes ==
    ASSUME PageCore
    PROVE  /\ kind \in {"vanilla", "react", "vue"}
           /\ panel \in [busy : BOOLEAN, error : BOOLEAN, call : 0..MaxInputs,
                         result : Results, log : Seq(Results)]
           /\ Len(panel.log) <= LogLimit
           /\ asks \subseteq [call : 1..MaxInputs, lo : Int, hi : Int]
           /\ answers \subseteq Results
           /\ last \in [ok : BOOLEAN, result : Results]
           /\ PanelInv
           /\ \A q \in asks : q.lo <= q.hi
           /\ \A r \in answers : r.fits
  BY KindsAreKnown DEF PageCore, CallInv, CallTypes

\* A range is entered in either order.
LEMMA OrderedIs ==
    ASSUME NEW e \in Entries
    PROVE  Ordered(e)[1] \in Int /\ Ordered(e)[2] \in Int /\ Ordered(e)[1] <= Ordered(e)[2]
  <1> DEFINE x == Entered(e)[1]
             z == Entered(e)[2]
  <1>1. e \in Int \X Int
    BY EntriesAreInt
  <1>2. x \in Int /\ z \in Int
    <2>1. \A n \in Int : ParseInt(n) \in Int
      BY DEF ParseInt
    <2>2. ParseInt(e[1]) \in Int /\ ParseInt(e[2]) \in Int
      BY <1>1, <2>1
    <2>3. CASE kind = "vanilla"
      <3>1. /\ x = (IF ParseInt(e[1]) = 0 THEN 2 * 1 ELSE 2 * ParseInt(e[1]))
            /\ z = (IF ParseInt(e[2]) = 0 THEN 2 * 100 ELSE 2 * ParseInt(e[2]))
        BY <2>3 DEF Entered
      <3> HIDE DEF x, z
      <3> QED
        BY <2>2, <3>1
    <2>4. CASE kind # "vanilla"
      BY <1>1, <2>4 DEF Entered
    <2> QED
      BY <2>3, <2>4
  <1>3. CASE x > z
    <2>1. Ordered(e)[1] = z /\ Ordered(e)[2] = x
      BY <1>3 DEF Ordered
    <2> HIDE DEF x, z
    <2> QED
      BY <1>2, <1>3, <2>1
  <1>4. CASE ~(x > z)
    <2>1. Ordered(e)[1] = x /\ Ordered(e)[2] = z
      BY <1>4 DEF Ordered
    <2> HIDE DEF x, z
    <2> QED
      BY <1>2, <1>4, <2>1
  <1> QED
    BY <1>3, <1>4

\* A number between the bounds rounded down fits the range that is shown.
LEMMA RoundedFits ==
    ASSUME NEW q, q.lo \in Int, q.hi \in Int, q.lo <= q.hi,
           NEW v \in RandomInt(Floor(q.lo), Floor(q.hi))
    PROVE  Fits(v, q)
  <1> DEFINE lo == q.lo
             hi == q.hi
             a == lo \div 2
             b == hi \div 2
  <1>1. lo \in Int /\ hi \in Int /\ lo <= hi /\ v \in RandomInt(a, b)
    BY DEF Floor
  <1> HIDE DEF lo, hi
  <1>2. a \in Int /\ b \in Int /\ a <= b /\ lo < 2 * a + 2 /\ 2 * b <= hi
    BY <1>1
  <1> HIDE DEF a, b
  <1>3. v \in a..b
    BY <1>1, <1>2 DEF RandomInt
  <1>4. lo - 2 < 2 * v /\ 2 * v <= hi
    BY <1>1, <1>2, <1>3
  <1> QED
    BY <1>4 DEF Fits, lo, hi

LEMMA ClickMoves ==
    ASSUME PageCore, NEW e \in Entries, Click(e)
    PROVE  PageMove
  <1> DEFINE n == panel.call + 1
             ask == [call |-> panel'.call, lo |-> Ordered(e)[1], hi |-> Ordered(e)[2]]
             Panels == [busy : BOOLEAN, error : BOOLEAN, call : 0..MaxInputs,
                        result : Results, log : Seq(Results)]
  <1>1. /\ LinksKept /\ inputs > 0 /\ inputs' = inputs - 1 /\ panel' = Called(panel)
        /\ asks' \subseteq asks \cup {ask}
        /\ UNCHANGED <<serverUp, ticks, feed, dash, answers, last>>
    BY DEF Click, Spend, LinksKept
  <1>2. n \in 1..MaxInputs /\ n \in 0..MaxInputs /\ panel.call \in Nat
    BY <1>1, CoreNumbers
  <1>3. panel \in Panels /\ kind \in {"vanilla", "react", "vue"}
    BY PanelTypes
  <1>4. panel' = IF kind = "vanilla"
                 THEN [panel EXCEPT !.busy = TRUE, !.call = n]
                 ELSE [panel EXCEPT !.busy = TRUE, !.call = n, !.error = FALSE]
    BY <1>1, <1>3 DEF Called, VanillaCall, ReactCall, VueCall
  <1>5. panel'.call = n
    <2> HIDE DEF n
    <2> QED
      BY <1>3, <1>4
  <1>6. ask \in [call : 1..MaxInputs, lo : Int, hi : Int] /\ ask.lo <= ask.hi
    BY <1>2, <1>5, OrderedIs
  <1> HIDE DEF ask, n
  <1>7. CallInv'
    <2>1. kind' = kind
      BY <1>1, LinksKeep
    <2>2. /\ asks' \subseteq [call : 1..MaxInputs, lo : Int, hi : Int]
          /\ \A q \in asks' : q.lo <= q.hi
      BY <1>1, <1>6, PanelTypes
    <2>3. /\ answers' \subseteq Results /\ last' \in [ok : BOOLEAN, result : Results]
          /\ \A r \in answers' : r.fits
      BY <1>1, PanelTypes
    <2>4. /\ panel' \in Panels /\ panel'.busy = TRUE /\ panel'.log = panel.log
          /\ kind # "vanilla" => panel'.error = FALSE
      BY <1>2, <1>3, <1>4
    <2>5. CallTypes'
      BY <2>1, <2>2, <2>3, <2>4, PanelTypes DEF CallTypes, PageCore, CallInv
    <2>6. n > 0
      BY <1>2
    <2>7. PanelInv'
      BY <1>5, <2>1, <2>4, <2>6 DEF PanelInv
    <2> QED
      BY <2>2, <2>3, <2>5, <2>7 DEF CallInv
  <1>8. DashInv' /\ feed' \in Seq(1..MaxInputs) /\ dash' \in 0..MaxInputs
    BY <1>1, DashKeeps
  <1>9. /\ serverUp' \in BOOLEAN /\ ticks' \in Nat /\ inputs' \in Nat
        /\ panel'.call + ticks' + inputs' <= panel.call + ticks + inputs
    BY <1>1, <1>5, CoreNumbers DEF PageCore, PageTypeOK, n
  <1> QED
    BY <1>1, <1>7, <1>8, <1>9, LinksKeep, PageAssembly

LEMMA ServeMoves ==
    ASSUME PageCore, NEW q, Serve(q)
    PROVE  PageMove
  <1>1. /\ q \in asks /\ asks' = asks \ {q}
        /\ \E v \in RandomInt(Floor(q.lo), Floor(q.hi)) :
              answers' = answers \union {[call |-> q.call, fits |-> Fits(v, q)]}
        /\ LinksKept /\ UNCHANGED <<serverUp, ticks, inputs, feed, dash, panel, last>>
    BY DEF Serve, LinksKept
  <1>2. PICK v \in RandomInt(Floor(q.lo), Floor(q.hi)) :
           answers' = answers \union {[call |-> q.call, fits |-> Fits(v, q)]}
    BY <1>1
  <1>3. /\ q.call \in 1..MaxInputs /\ q.lo <= q.hi
        /\ q.lo \in Int /\ q.hi \in Int
    BY <1>1, PanelTypes
  <1>4. Fits(v, q) = TRUE
    <2>1. Fits(v, q)
      BY <1>2, <1>3, RoundedFits
    <2> QED
      BY <2>1 DEF Fits
  <1> DEFINE r == [call |-> q.call, fits |-> TRUE]
  <1>5. r \in Results /\ r.fits
    BY <1>3 DEF Results
  <1>6. answers' = answers \cup {r}
    BY <1>2, <1>4
  <1> HIDE DEF r
  <1>7. CallInv'
    <2>1. UNCHANGED <<kind, panel, last>>
      BY <1>1, LinksKeep
    <2>2. /\ asks' \subseteq asks /\ answers' \subseteq Results
          /\ \A x \in answers' : x.fits
      BY <1>1, <1>5, <1>6, PanelTypes
    <2> QED
      BY <2>1, <2>2 DEF PageCore, CallInv, CallTypes, PanelInv
  <1>8. DashInv' /\ feed' \in Seq(1..MaxInputs) /\ dash' \in 0..MaxInputs
    BY <1>1, DashKeeps
  <1>9. /\ serverUp' \in BOOLEAN /\ ticks' \in Nat /\ inputs' \in Nat
        /\ panel'.call + ticks' + inputs' <= panel.call + ticks + inputs
    BY <1>1, CoreNumbers DEF PageCore, PageTypeOK
  <1> QED
    BY <1>1, <1>7, <1>8, <1>9, LinksKeep, PageAssembly

LEMMA SettleMoves ==
    ASSUME PageCore, Timeout \/ \E r \in answers : Answered(r)
    PROVE  PageMove
  <1>1. /\ LinksKept /\ answers' \subseteq answers
        /\ UNCHANGED <<serverUp, ticks, inputs, feed, dash, asks>>
        /\ \/ UNCHANGED <<panel, last>>
           \/ panel.busy /\ SettleCall(FALSE, NoResult)
           \/ panel.busy /\ \E r \in answers : r.call = panel.call /\ SettleCall(TRUE, r)
    <2>1. CASE Timeout
      BY <2>1 DEF Timeout, LinksKept
    <2>2. CASE \E r \in answers : Answered(r)
      <3>1. PICK r \in answers : Answered(r)
        BY <2>2
      <3> QED
        BY <3>1 DEF Answered, LinksKept
    <2> QED
      BY <2>1, <2>2
  <1>2. UNCHANGED kind
    BY <1>1, LinksKeep
  <1>3. CallInv /\ CallTypes /\ answers \subseteq Results /\ \A r \in answers : r.fits
    BY DEF PageCore, CallInv, CallTypes
  <1>4. /\ panel' \in [busy : BOOLEAN, error : BOOLEAN, call : 0..MaxInputs,
                       result : Results, log : Seq(Results)]
        /\ Len(panel'.log) <= LogLimit
        /\ last' \in [ok : BOOLEAN, result : Results]
        /\ panel'.call = panel.call /\ PanelInv'
    <2>1. CASE UNCHANGED <<panel, last>>
      BY <1>2, <1>3, <2>1 DEF CallInv, CallTypes, PanelInv
    <2>2. CASE panel.busy /\ SettleCall(FALSE, NoResult)
      BY <1>2, <1>3, <2>2, SettleKeeps, NoResultIsOne
    <2>3. CASE panel.busy /\ \E r \in answers : r.call = panel.call /\ SettleCall(TRUE, r)
      <3>1. PICK r \in answers : r.call = panel.call /\ SettleCall(TRUE, r)
        BY <2>3
      <3>2. r \in Results /\ r.fits
        BY <1>3
      <3> QED
        BY <1>2, <1>3, <2>3, <3>1, <3>2, SettleKeeps
    <2> QED
      BY <1>1, <2>1, <2>2, <2>3
  <1>5. CallInv'
    BY <1>1, <1>2, <1>3, <1>4 DEF CallInv, CallTypes
  <1>6. DashInv' /\ feed' \in Seq(1..MaxInputs) /\ dash' \in 0..MaxInputs
    BY <1>1, DashKeeps
  <1>7. /\ serverUp' \in BOOLEAN /\ ticks' \in Nat /\ inputs' \in Nat
        /\ panel'.call + ticks' + inputs' <= panel.call + ticks + inputs
    BY <1>1, <1>4, CoreNumbers DEF PageCore, PageTypeOK
  <1> QED
    BY <1>1, <1>5, <1>6, <1>7, LinksKeep, PageAssembly

LEMMA TickMoves ==
    ASSUME PageCore, Tick
    PROVE  PageMove
  <1>1. /\ LinksKept /\ inputs > 0 /\ inputs' = inputs - 1 /\ ticks' = ticks + 1
        /\ feed' = IF Linked THEN Append(feed, ticks + 1) ELSE feed
        /\ UNCHANGED <<serverUp, dash, panel, asks, answers, last>>
    BY DEF Tick, Spend, LinksKept, callVars
  <1>2. ticks + 1 <= MaxInputs /\ ticks \in Nat /\ MaxInputs \in Nat
    BY <1>1, CoreNumbers
  <1>3. /\ feed \in Seq(1..MaxInputs) /\ dash \in 0..MaxInputs /\ dash <= ticks
        /\ Rising(feed, dash, ticks)
    BY DEF PageCore, PageTypeOK, DashInv
  <1>4. DashInv' /\ feed' \in Seq(1..MaxInputs) /\ dash' \in 0..MaxInputs
    <2>1. dash \in Nat
      BY <1>2, <1>3
    <2>2. CASE feed' = feed
      <3>1. \A i \in DOMAIN feed : feed[i] <= ticks + 1
        BY <1>2, <1>3 DEF Rising
      <3>2. Rising(feed, dash, ticks + 1)
        BY <1>3, <3>1 DEF Rising
      <3> QED
        BY <1>1, <1>2, <1>3, <2>1, <2>2, <3>2 DEF DashInv
    <2>3. CASE feed' = Append(feed, ticks + 1)
      <3>1. /\ Append(feed, ticks + 1) \in Seq(1..MaxInputs)
            /\ Rising(Append(feed, ticks + 1), dash, ticks + 1)
        BY <1>2, <1>3, <2>1, RisingAppend
      <3> QED
        <4> DEFINE y == Append(feed, ticks + 1)
        <4>1. feed' = y /\ y \in Seq(1..MaxInputs) /\ Rising(y, dash, ticks + 1)
          BY <2>3, <3>1
        <4> HIDE DEF y
        <4>2. ticks' = ticks + 1 /\ dash' = dash /\ dash <= ticks + 1
          BY <1>1, <1>2, <1>3, <2>1
        <4> QED
          BY <1>3, <4>1, <4>2 DEF DashInv
    <2> QED
      BY <1>1, <2>2, <2>3
  <1>5. CallInv'
    BY <1>1, LinksKeep, CallsKeep
  <1>6. /\ serverUp' \in BOOLEAN /\ ticks' \in Nat /\ inputs' \in Nat
        /\ panel'.call + ticks' + inputs' <= panel.call + ticks + inputs
    BY <1>1, CoreNumbers DEF PageCore, PageTypeOK
  <1> QED
    BY <1>1, <1>4, <1>5, <1>6, LinksKeep, PageAssembly

LEMMA ShowMoves ==
    ASSUME PageCore, ShowMetrics
    PROVE  PageMove
  <1>1. /\ LinksKept /\ feed # <<>> /\ feed' = Tail(feed) /\ dash' \in {Head(feed), dash}
        /\ UNCHANGED <<serverUp, ticks, inputs, panel, asks, answers, last>>
    <2>1. dash' \in {Head(feed), dash}
      BY PanelTypes DEF ShowMetrics, VanillaMetrics, ReactEvent, VueEvent
    <2> QED
      BY <2>1 DEF ShowMetrics, LinksKept, callVars
  <1>2. /\ feed \in Seq(1..MaxInputs) /\ dash \in 0..MaxInputs /\ dash <= ticks
        /\ Rising(feed, dash, ticks) /\ ticks \in Nat /\ MaxInputs \in Nat
    BY CoreNumbers DEF PageCore, PageTypeOK, DashInv
  <1>3. /\ Tail(feed) \in Seq(1..MaxInputs) /\ Head(feed) \in 1..MaxInputs
        /\ Head(feed) <= ticks /\ Rising(Tail(feed), dash, ticks)
        /\ Rising(Tail(feed), Head(feed), ticks)
    <2>1. dash \in Nat
      BY <1>2
    <2> QED
      BY <1>1, <1>2, <2>1, RisingTail
  <1>7. DashInv' /\ feed' \in Seq(1..MaxInputs) /\ dash' \in 0..MaxInputs
    <2>1. CASE dash' = dash
      BY <1>1, <1>2, <1>3, <2>1 DEF DashInv
    <2>2. CASE dash' = Head(feed)
      <3>1. Head(feed) \in 0..MaxInputs
        BY <1>2, <1>3
      <3> QED
        BY <1>1, <1>2, <1>3, <2>2, <3>1 DEF DashInv
    <2> QED
      BY <1>1, <2>1, <2>2
  <1>8. CallInv'
    BY <1>1, LinksKeep, CallsKeep
  <1>9. /\ serverUp' \in BOOLEAN /\ ticks' \in Nat /\ inputs' \in Nat
        /\ panel'.call + ticks' + inputs' <= panel.call + ticks + inputs
    BY <1>1, CoreNumbers DEF PageCore, PageTypeOK
  <1> QED
    BY <1>1, <1>7, <1>8, <1>9, LinksKeep, PageAssembly

\* The chat uses the page at most for the input it spends.
LEMMA ChatMoves ==
    ASSUME PageCore, LinksKept,
           UNCHANGED <<serverUp, ticks, feed, dash, callVars>>,
           inputs' = inputs \/ Spend
    PROVE  PageMove /\ UNCHANGED <<panel, ticks>> /\ hooks' = hooks
  <1>1. inputs' \in Nat /\ inputs' <= inputs
    BY CoreNumbers DEF Spend
  <1>2. UNCHANGED <<panel, asks, answers, last>>
    BY DEF callVars
  <1>3. DashInv' /\ feed' \in Seq(1..MaxInputs) /\ dash' \in 0..MaxInputs
    BY DashKeeps
  <1>4. CallInv'
    BY <1>2, LinksKeep, CallsKeep
  <1>5. /\ serverUp' \in BOOLEAN /\ ticks' \in Nat
        /\ panel'.call + ticks' + inputs' <= panel.call + ticks + inputs
    BY <1>1, <1>2, CoreNumbers DEF PageCore, PageTypeOK
  <1> QED
    BY <1>1, <1>2, <1>3, <1>4, <1>5, LinksKeep, PageAssembly DEF LinksKept, linkVars

-----------------------------------------------------------------------------
(* DemoChat: what is on its way to the page. *)

ChatPatches == [type : {"patch"}, from : Texts, to : Texts]
ChatEvents == [type : {"event"}, msg : Messages]
ChatFrames == ChatPatches \cup ChatEvents

\* The message a frame brings.
Brings(f) == IF f.type = "patch" THEN Upto(f.to) ELSE f.msg

\* The frames w lead from what the mirror m holds to the history after k
\* messages, one patch for each; an event follows the patch of its message and
\* comes before any other.
Leads(w, m, k) ==
    /\ Upto(m) \in 0..k /\ m = HistoryAt(Upto(m))
    /\ \A j \in DOMAIN w :
          /\ Upto(m) <= Brings(w[j]) /\ Brings(w[j]) <= k
          /\ w[j].type = "patch" =>
                /\ Upto(m) < Brings(w[j])
                /\ w[j].to = HistoryAt(Brings(w[j]))
                /\ w[j].from = HistoryAt(Brings(w[j]) - 1)
    /\ \A i, j \in DOMAIN w : i < j =>
          /\ Brings(w[i]) <= Brings(w[j])
          /\ w[j].type = "patch" => Brings(w[i]) < Brings(w[j])
    /\ \A n \in Upto(m) + 1 .. k :
          \E j \in DOMAIN w : w[j].type = "patch" /\ Brings(w[j]) = n

LEMMA BringsNat ==
    ASSUME NEW f \in ChatFrames
    PROVE  Brings(f) \in 0..MaxInputs /\ (f.type = "patch" \/ f.type = "event")
  <1>1. MaxInputs \in Nat
    BY LimitsAreNat
  <1>2. CASE f \in ChatPatches
    <2>1. f.type = "patch" /\ f.to \in Texts
      BY <1>2 DEF ChatPatches
    <2>2. f.to # <<>> => f.to[Len(f.to)] \in 1..MaxInputs
      <3> DEFINE t == f.to
      <3>1. t \in Seq(1..MaxInputs)
        BY <2>1 DEF Texts, Messages
      <3> HIDE DEF t
      <3>2. t # <<>> => Len(t) \in 1..Len(t)
        BY <3>1
      <3>3. \A i \in 1..Len(t) : t[i] \in 1..MaxInputs
        BY <3>1, ElementOfSeq
      <3> QED
        BY <3>2, <3>3 DEF t
    <2> QED
      BY <1>1, <2>1, <2>2 DEF Brings, Upto
  <1>3. CASE f \in ChatEvents
    BY <1>1, <1>3 DEF ChatEvents, Brings, Messages
  <1> QED
    BY <1>2, <1>3 DEF ChatFrames

LEMMA LeadsNowhere ==
    ASSUME NEW m, NEW k \in Nat, m = HistoryAt(k), Upto(m) = k
    PROVE  Leads(<<>>, m, k)
  <1>1. DOMAIN <<>> = {}
    OBVIOUS
  <1>2. k + 1 .. k = {}
    OBVIOUS
  <1> QED
    BY <1>1, <1>2 DEF Leads

\* A mirror that no patch is on its way to has all there is.
LEMMA LeadsHere ==
    ASSUME NEW w, NEW m, NEW k \in Nat, Leads(w, m, k),
           \A j \in DOMAIN w : w[j].type # "patch"
    PROVE  Upto(m) = k /\ m = HistoryAt(k) /\ Leads(<<>>, m, k)
  <1>1. Upto(m) \in 0..k /\ m = HistoryAt(Upto(m))
    BY DEF Leads
  <1>2. Upto(m) = k
    <2> SUFFICES ASSUME Upto(m) # k PROVE FALSE
      OBVIOUS
    <2>1. k \in Upto(m) + 1 .. k
      BY <1>1
    <2> QED
      BY <2>1 DEF Leads
  <1> QED
    BY <1>1, <1>2, LeadsNowhere

\* Appending a frame that brings k or more.
LEMMA LeadsOn ==
    ASSUME NEW w \in Seq(ChatFrames), NEW m, NEW k \in Nat, Leads(w, m, k),
           NEW f \in ChatFrames,
           \/ f.type = "event" /\ f.msg = k
           \/ /\ f.type = "patch" /\ Brings(f) = k + 1
              /\ f.from = HistoryAt(k) /\ f.to = HistoryAt(k + 1)
    PROVE  Leads(Append(w, f), m, Brings(f))
  <1> DEFINE y == Append(w, f)
             n == Len(w)
             b == Brings(f)
             u == Upto(m)
  <1>1. /\ y \in Seq(ChatFrames) /\ DOMAIN y = 1..n+1 /\ DOMAIN w = 1..n
        /\ n \in Nat /\ y[n+1] = f /\ \A j \in 1..n : y[j] = w[j]
    OBVIOUS
  <1>2. /\ b \in Nat /\ k <= b /\ (f.type = "patch" => b = k + 1)
        /\ (f.type = "event" => b = k) /\ (f.type = "patch" \/ f.type = "event")
        /\ \A j \in 1..n : Brings(w[j]) \in Nat
    <2>1. b \in 0..MaxInputs /\ (f.type = "event" => b = f.msg)
      BY BringsNat DEF Brings
    <2>2. \A j \in 1..n : w[j] \in ChatFrames
      BY <1>1
    <2>3. \A j \in 1..n : Brings(w[j]) \in 0..MaxInputs
      BY <2>2, BringsNat
    <2> HIDE DEF b
    <2> QED
      BY <2>1, <2>3, BringsNat DEF b
  <1>3. /\ u \in 0..k /\ m = HistoryAt(u)
        /\ \A j \in 1..n :
              /\ u <= Brings(w[j]) /\ Brings(w[j]) <= k
              /\ w[j].type = "patch" =>
                    /\ u < Brings(w[j])
                    /\ w[j].to = HistoryAt(Brings(w[j]))
                    /\ w[j].from = HistoryAt(Brings(w[j]) - 1)
        /\ \A i, j \in 1..n : i < j =>
              /\ Brings(w[i]) <= Brings(w[j])
              /\ w[j].type = "patch" => Brings(w[i]) < Brings(w[j])
        /\ \A x \in u + 1 .. k :
              \E j \in 1..n : w[j].type = "patch" /\ Brings(w[j]) = x
    BY <1>1 DEF Leads
  <1>4. f.type = "patch" => f.from = HistoryAt(b - 1) /\ f.to = HistoryAt(b)
    BY <1>2
  <1>5. y[n+1] = f /\ Brings(y[n+1]) = b
    BY <1>1
  <1> HIDE DEF y, n, b, u
  <1>6. u \in 0..b
    BY <1>2, <1>3
  <1>7. ASSUME NEW j \in 1..n+1
        PROVE  /\ u <= Brings(y[j]) /\ Brings(y[j]) <= b
               /\ y[j].type = "patch" =>
                     /\ u < Brings(y[j])
                     /\ y[j].to = HistoryAt(Brings(y[j]))
                     /\ y[j].from = HistoryAt(Brings(y[j]) - 1)
    <2>1. CASE j \in 1..n
      <3>1. y[j] = w[j] /\ Brings(w[j]) \in Nat /\ Brings(w[j]) <= k
        BY <1>1, <1>2, <1>3, <2>1
      <3>2. Brings(w[j]) <= b
        BY <1>2, <3>1
      <3> QED
        BY <1>3, <2>1, <3>1, <3>2
    <2>2. CASE j = n + 1
      <3>1. u <= b /\ b <= b /\ (f.type = "patch" => u < b)
        BY <1>2, <1>3
      <3> QED
        BY <1>4, <1>5, <2>2, <3>1
    <2> QED
      BY <1>1, <2>1, <2>2
  <1>8. ASSUME NEW i \in 1..n+1, NEW j \in 1..n+1, i < j
        PROVE  /\ Brings(y[i]) <= Brings(y[j])
               /\ y[j].type = "patch" => Brings(y[i]) < Brings(y[j])
    <2>1. i \in 1..n
      BY <1>1, <1>8
    <2>2. CASE j \in 1..n
      BY <1>1, <1>3, <1>8, <2>1, <2>2
    <2>3. CASE j = n + 1
      <3>1. y[i] = w[i] /\ Brings(w[i]) \in Nat /\ Brings(w[i]) <= k
        BY <1>1, <1>2, <1>3, <2>1
      <3>2. Brings(w[i]) <= b /\ (f.type = "patch" => Brings(w[i]) < b)
        BY <1>2, <3>1
      <3> QED
        BY <1>5, <2>3, <3>1, <3>2
    <2> QED
      BY <1>1, <2>2, <2>3
  <1>9. ASSUME NEW x \in u + 1 .. b
        PROVE  \E j \in 1..n+1 : y[j].type = "patch" /\ Brings(y[j]) = x
    <2>1. CASE x <= k
      <3>1. x \in u + 1 .. k
        BY <1>2, <1>3, <2>1
      <3>2. PICK j \in 1..n : w[j].type = "patch" /\ Brings(w[j]) = x
        BY <1>3, <3>1
      <3>3. j \in 1..n+1 /\ y[j] = w[j]
        BY <1>1
      <3> QED
        BY <3>2, <3>3
    <2>2. CASE ~(x <= k)
      <3>1. f.type = "patch" /\ x = b /\ n + 1 \in 1..n+1
        BY <1>1, <1>2, <1>3, <2>2
      <3> QED
        BY <1>5, <3>1
    <2> QED
      BY <2>1, <2>2
  <1>10. Leads(y, m, b)
    BY <1>1, <1>3, <1>6, <1>7, <1>8, <1>9 DEF Leads, u
  <1> QED
    BY <1>10 DEF y, b

\* A patch fits the mirror it reaches.
LEMMA LeadsPatch ==
    ASSUME NEW w \in Seq(ChatFrames), NEW m, NEW k \in 0..MaxInputs, Leads(w, m, k),
           w # <<>>, Head(w).type = "patch"
    PROVE  \E n \in Nat : /\ n + 1 \in Messages /\ m = HistoryAt(n)
                          /\ Head(w).from = HistoryAt(n) /\ Head(w).to = HistoryAt(n + 1)
                          /\ Leads(Tail(w), HistoryAt(n + 1), k)
  <1> DEFINE t == Tail(w)
             l == Len(w)
             f == Head(w)
             u == Upto(m)
  <1>1. /\ t \in Seq(ChatFrames) /\ DOMAIN t = 1..l-1 /\ DOMAIN w = 1..l
        /\ l \in Nat /\ l >= 1 /\ f = w[1] /\ f \in ChatFrames
        /\ \A j \in 1..l-1 : t[j] = w[j+1] /\ w[j+1] \in ChatFrames
    OBVIOUS
  <1>2. /\ u \in 0..k /\ m = HistoryAt(u)
        /\ \A j \in 1..l :
              /\ u <= Brings(w[j]) /\ Brings(w[j]) <= k
              /\ w[j].type = "patch" =>
                    /\ u < Brings(w[j])
                    /\ w[j].to = HistoryAt(Brings(w[j]))
                    /\ w[j].from = HistoryAt(Brings(w[j]) - 1)
        /\ \A i, j \in 1..l : i < j =>
              /\ Brings(w[i]) <= Brings(w[j])
              /\ w[j].type = "patch" => Brings(w[i]) < Brings(w[j])
        /\ \A x \in u + 1 .. k :
              \E j \in 1..l : w[j].type = "patch" /\ Brings(w[j]) = x
    BY <1>1 DEF Leads
  <1>3. MaxInputs \in Nat /\ k \in Nat
    BY LimitsAreNat
  <1>4. \A j \in 1..l : Brings(w[j]) \in 0..MaxInputs
    <2>1. \A j \in 1..l : w[j] \in ChatFrames
      BY <1>1
    <2> QED
      BY <2>1, BringsNat
  <1>5. f.type = "patch"
    OBVIOUS
  <1> HIDE DEF t, l, f, u
  <1>6. 1 \in 1..l
    BY <1>1
  <1>7. Brings(f) = u + 1
    <2>1. u < Brings(f) /\ Brings(f) <= k /\ Brings(f) \in Nat
      BY <1>1, <1>2, <1>3, <1>4, <1>5, <1>6
    <2>2. u + 1 \in u + 1 .. k
      BY <1>2, <1>3, <2>1
    <2>3. PICK j \in 1..l : w[j].type = "patch" /\ Brings(w[j]) = u + 1
      BY <1>2, <2>2
    <2>4. CASE j = 1
      BY <1>1, <2>3, <2>4
    <2>5. CASE 1 < j
      BY <1>1, <1>2, <1>3, <1>6, <2>1, <2>3, <2>5
    <2> QED
      BY <1>1, <2>3, <2>4, <2>5
  <1>8. /\ u \in Nat /\ u + 1 \in Messages /\ u + 1 \in 0..k /\ u + 1 \in 0..MaxInputs
    BY <1>1, <1>2, <1>3, <1>6, <1>7 DEF Messages
  <1>9. f.to = HistoryAt(u + 1) /\ f.from = HistoryAt(u)
    <2>1. f.to = HistoryAt(Brings(f)) /\ f.from = HistoryAt(Brings(f) - 1)
      BY <1>1, <1>2, <1>5, <1>6
    <2>2. Brings(f) - 1 = u
      BY <1>7, <1>8
    <2>3. f.from = HistoryAt(u)
      BY <2>1, <2>2
    <2> QED
      BY <1>7, <2>1, <2>3
  <1> DEFINE h == HistoryAt(u + 1)
  <1>10. Upto(h) = u + 1
    BY <1>8, HistoryFacts
  <1> HIDE DEF h
  <1>11. \A j \in 1..l-1 : j + 1 \in 1..l /\ 1 < j + 1
    BY <1>1
  <1>12. \A i, j \in 1..l-1 : i < j => i + 1 < j + 1
    BY <1>1
  <1>13. ASSUME NEW j \in 1..l-1
         PROVE  /\ u + 1 <= Brings(t[j]) /\ Brings(t[j]) <= k
                /\ t[j].type = "patch" =>
                      /\ u + 1 < Brings(t[j])
                      /\ t[j].to = HistoryAt(Brings(t[j]))
                      /\ t[j].from = HistoryAt(Brings(t[j]) - 1)
    <2>1. t[j] = w[j+1] /\ j + 1 \in 1..l /\ 1 < j + 1
      BY <1>1, <1>11
    <2> QED
      BY <1>1, <1>2, <1>6, <1>7, <2>1
  <1>14. ASSUME NEW i \in 1..l-1, NEW j \in 1..l-1, i < j
         PROVE  /\ Brings(t[i]) <= Brings(t[j])
                /\ t[j].type = "patch" => Brings(t[i]) < Brings(t[j])
    <2>1. /\ t[i] = w[i+1] /\ t[j] = w[j+1] /\ i + 1 \in 1..l /\ j + 1 \in 1..l
          /\ i + 1 < j + 1
      BY <1>1, <1>11, <1>12, <1>14
    <2> QED
      BY <1>2, <2>1
  <1>15. ASSUME NEW x \in u + 1 + 1 .. k
         PROVE  \E j \in 1..l-1 : t[j].type = "patch" /\ Brings(t[j]) = x
    <2>1. x \in u + 1 .. k /\ x # u + 1
      BY <1>3, <1>8
    <2>2. PICK j \in 1..l : w[j].type = "patch" /\ Brings(w[j]) = x
      BY <1>2, <2>1
    <2>3. j # 1
      BY <1>1, <1>7, <2>1, <2>2
    <2>4. j - 1 \in 1..l-1 /\ j - 1 + 1 = j
      BY <1>1, <2>3
    <2>5. t[j-1] = w[j]
      BY <1>1, <2>4
    <2> QED
      BY <2>2, <2>4, <2>5
  <1>16. Leads(t, h, k)
    BY <1>1, <1>8, <1>10, <1>13, <1>14, <1>15 DEF Leads, h
  <1> QED
    BY <1>2, <1>8, <1>9, <1>16 DEF h, f, t

\* An event finds its message in the mirror.
LEMMA LeadsEvent ==
    ASSUME NEW w \in Seq(ChatFrames), NEW m, NEW k \in 0..MaxInputs, Leads(w, m, k),
           w # <<>>, Head(w).type = "event"
    PROVE  /\ Upto(m) = Head(w).msg /\ m = HistoryAt(Upto(m))
           /\ Leads(Tail(w), m, k)
  <1> DEFINE t == Tail(w)
             l == Len(w)
             f == Head(w)
             u == Upto(m)
  <1>1. /\ t \in Seq(ChatFrames) /\ DOMAIN t = 1..l-1 /\ DOMAIN w = 1..l
        /\ l \in Nat /\ l >= 1 /\ f = w[1] /\ f \in ChatFrames
        /\ \A j \in 1..l-1 : t[j] = w[j+1] /\ w[j+1] \in ChatFrames
    OBVIOUS
  <1>2. /\ u \in 0..k /\ m = HistoryAt(u)
        /\ \A j \in 1..l :
              /\ u <= Brings(w[j]) /\ Brings(w[j]) <= k
              /\ w[j].type = "patch" =>
                    /\ u < Brings(w[j])
                    /\ w[j].to = HistoryAt(Brings(w[j]))
                    /\ w[j].from = HistoryAt(Brings(w[j]) - 1)
        /\ \A i, j \in 1..l : i < j =>
              /\ Brings(w[i]) <= Brings(w[j])
              /\ w[j].type = "patch" => Brings(w[i]) < Brings(w[j])
        /\ \A x \in u + 1 .. k :
              \E j \in 1..l : w[j].type = "patch" /\ Brings(w[j]) = x
    BY <1>1 DEF Leads
  <1>3. MaxInputs \in Nat /\ k \in Nat
    BY LimitsAreNat
  <1>4. \A j \in 1..l : Brings(w[j]) \in 0..MaxInputs
    <2>1. \A j \in 1..l : w[j] \in ChatFrames
      BY <1>1
    <2> QED
      BY <2>1, BringsNat
  <1>5. f.type = "event" /\ Brings(f) = f.msg
    BY DEF Brings
  <1> HIDE DEF t, l, f, u
  <1>6. 1 \in 1..l
    BY <1>1
  <1>7. Brings(f) = u
    <2>1. u <= Brings(f) /\ Brings(f) <= k /\ Brings(f) \in Nat
      BY <1>1, <1>2, <1>3, <1>4, <1>6
    <2> SUFFICES ASSUME Brings(f) # u PROVE FALSE
      OBVIOUS
    <2>2. u + 1 \in u + 1 .. k /\ u + 1 <= Brings(f)
      BY <1>2, <1>3, <2>1
    <2>3. PICK j \in 1..l : w[j].type = "patch" /\ Brings(w[j]) = u + 1
      BY <1>2, <2>2
    <2>4. j # 1
      BY <1>1, <1>5, <2>3
    <2>5. 1 < j
      BY <1>1, <2>4
    <2>6. Brings(f) < u + 1
      BY <1>1, <1>2, <1>6, <2>3, <2>5
    <2> QED
      BY <1>2, <2>1, <2>2, <2>6
  <1>11. \A j \in 1..l-1 : j + 1 \in 1..l
    BY <1>1
  <1>12. \A i, j \in 1..l-1 : i < j => i + 1 < j + 1
    BY <1>1
  <1>13. ASSUME NEW j \in 1..l-1
         PROVE  /\ u <= Brings(t[j]) /\ Brings(t[j]) <= k
                /\ t[j].type = "patch" =>
                      /\ u < Brings(t[j])
                      /\ t[j].to = HistoryAt(Brings(t[j]))
                      /\ t[j].from = HistoryAt(Brings(t[j]) - 1)
    <2>1. t[j] = w[j+1] /\ j + 1 \in 1..l
      BY <1>1, <1>11
    <2> QED
      BY <1>2, <2>1
  <1>14. ASSUME NEW i \in 1..l-1, NEW j \in 1..l-1, i < j
         PROVE  /\ Brings(t[i]) <= Brings(t[j])
                /\ t[j].type = "patch" => Brings(t[i]) < Brings(t[j])
    <2>1. /\ t[i] = w[i+1] /\ t[j] = w[j+1] /\ i + 1 \in 1..l /\ j + 1 \in 1..l
          /\ i + 1 < j + 1
      BY <1>1, <1>11, <1>12, <1>14
    <2> QED
      BY <1>2, <2>1
  <1>15. ASSUME NEW x \in u + 1 .. k
         PROVE  \E j \in 1..l-1 : t[j].type = "patch" /\ Brings(t[j]) = x
    <2>2. PICK j \in 1..l : w[j].type = "patch" /\ Brings(w[j]) = x
      BY <1>2
    <2>3. j # 1
      BY <1>1, <1>5, <2>2
    <2>4. j - 1 \in 1..l-1 /\ j - 1 + 1 = j
      BY <1>1, <2>3
    <2>5. t[j-1] = w[j]
      BY <1>1, <2>4
    <2> QED
      BY <2>2, <2>4, <2>5
  <1>16. Leads(t, m, k)
    BY <1>1, <1>2, <1>13, <1>14, <1>15 DEF Leads, u
  <1> QED
    BY <1>2, <1>5, <1>7, <1>16 DEF f, t, u

-----------------------------------------------------------------------------
(* DemoChat: the server's side of the chat. *)

Handlers == [msg : Messages, from : Texts, to : Texts, at : 1..3]
ShortHandlers == {h \in Handlers : Len(h.to) <= Limit}

\* The history is the newest messages.  As long as no two handlers have
\* overlapped, at most one is under way, with the message taken last; its patch
\* starts from the history before that message, which the backend holds until
\* it stores the new one.
ServerInv ==
    /\ taken \in 0..MaxInputs /\ serial \in BOOLEAN
    /\ stored \in Texts /\ Len(stored) <= Limit
    /\ handling \in Seq(ShortHandlers)
    /\ history = HistoryAt(taken)
    /\ serial =>
          \/ handling = <<>> /\ stored = history
          \/ /\ Len(handling) = 1 /\ taken > 0
             /\ handling[1].msg = taken
             /\ handling[1].from = HistoryAt(taken - 1)
             /\ handling[1].to = history
             /\ stored = IF handling[1].at = 1 THEN HistoryAt(taken - 1) ELSE history

\* The messages that have been broadcast in a patch, if handlers never overlap.
Shipped == IF handling # <<>> /\ handling[1].at < 3 THEN taken - 1 ELSE taken

LEMMA HistoryIsShort ==
    ASSUME NEW n \in 0..MaxInputs
    PROVE  HistoryAt(n) \in Texts /\ Len(HistoryAt(n)) <= Limit
  <1>1. n \in Nat /\ Limit \in Nat /\ MaxInputs \in Nat
    BY LimitIsPositive, LimitsAreNat
  <1> QED
    BY <1>1, HistoryFacts

LEMMA ServerFacts ==
    ASSUME ServerInv
    PROVE  /\ MaxInputs \in Nat /\ taken \in Nat /\ taken <= MaxInputs
           /\ history \in Texts /\ Len(history) <= Limit
           /\ handling \in Seq(Handlers)
           /\ \A i \in DOMAIN handling :
                 /\ handling[i] \in Handlers /\ Len(handling[i].to) <= Limit
                 /\ handling[i].at \in 1..3 /\ handling[i].msg \in Messages
                 /\ handling[i].from \in Texts /\ handling[i].to \in Texts
           /\ serial => Shipped \in 0..MaxInputs /\ Shipped <= taken
  <1>1. MaxInputs \in Nat /\ taken \in Nat /\ taken <= MaxInputs
    BY LimitsAreNat DEF ServerInv
  <1>2. history \in Texts /\ Len(history) <= Limit
    BY <1>1, HistoryIsShort DEF ServerInv
  <1>3. \A i \in DOMAIN handling : handling[i] \in ShortHandlers
    BY DEF ServerInv
  <1>4. handling \in Seq(Handlers)
    <2>1. ShortHandlers \subseteq Handlers
      BY DEF ShortHandlers
    <2> QED
      BY <2>1 DEF ServerInv
  <1>5. \A i \in DOMAIN handling :
           handling[i] \in Handlers /\ Len(handling[i].to) <= Limit
    BY <1>3 DEF ShortHandlers
  <1>6. \A i \in DOMAIN handling :
           /\ handling[i].at \in 1..3 /\ handling[i].msg \in Messages
           /\ handling[i].from \in Texts /\ handling[i].to \in Texts
    BY <1>5 DEF Handlers
  <1>7. serial => Shipped \in 0..MaxInputs /\ Shipped <= taken
    <2>1. serial /\ handling # <<>> => taken > 0
      BY DEF ServerInv
    <2> QED
      BY <1>1, <2>1 DEF Shipped
  <1> QED
    BY <1>1, <1>2, <1>4, <1>5, <1>6, <1>7

LEMMA ServerKeeps ==
    ASSUME ServerInv, UNCHANGED <<history, stored, handling, taken, serial>>
    PROVE  ServerInv' /\ Shipped' = Shipped
  BY DEF ServerInv, Shipped

LEMMA TakeKeeps ==
    ASSUME ServerInv, Take, taken + 1 \in Messages
    PROVE  /\ ServerInv' /\ taken' = taken + 1
           /\ serial' => serial /\ Shipped' = Shipped
  <1>1. /\ taken' = taken + 1 /\ stored' = stored
        /\ history' = Pushed(history, taken + 1)
        /\ serial' = (serial /\ handling = <<>>)
    BY DEF Take
  <1>2. /\ taken \in Nat /\ taken + 1 \in 0..MaxInputs /\ MaxInputs \in Nat
        /\ taken + 1 - 1 = taken
    BY ServerFacts DEF Messages
  <1>3. history = HistoryAt(taken)
    BY DEF ServerInv
  <1> DEFINE e == [msg |-> taken + 1, from |-> stored, to |-> HistoryAt(taken + 1), at |-> 1]
             y == Append(handling, e)
  <1>4. history' = HistoryAt(taken + 1)
    BY <1>1, <1>2, <1>3, PushedHistory
  <1>5. handling' = y
    BY <1>4 DEF Take
  <1>6. HistoryAt(taken + 1) \in Texts /\ Len(HistoryAt(taken + 1)) <= Limit
    BY <1>2, HistoryIsShort
  <1>7. /\ e \in ShortHandlers /\ e.msg = taken + 1 /\ e.from = stored
        /\ e.to = HistoryAt(taken + 1) /\ e.at = 1
    BY <1>6 DEF ShortHandlers, Handlers, ServerInv
  <1> HIDE DEF e
  <1>8. handling \in Seq(ShortHandlers)
    BY DEF ServerInv
  <1>9. /\ y \in Seq(ShortHandlers) /\ y # <<>>
        /\ handling = <<>> => Len(y) = 1 /\ y[1] = e
    BY <1>7, <1>8
  <1> HIDE DEF y
  <1>10. serial' => /\ Len(y) = 1 /\ y[1] = e /\ stored = HistoryAt(taken)
    <2>1. serial' => handling = <<>> /\ serial
      BY <1>1
    <2>2. handling = <<>> /\ serial => stored = history
      <3>1. Len(<<>>) # 1
        OBVIOUS
      <3> QED
        BY <3>1 DEF ServerInv
    <2> QED
      BY <1>3, <1>9, <2>1, <2>2
  <1>11. /\ taken' \in 0..MaxInputs /\ taken' > 0 /\ taken' - 1 = taken
         /\ serial' \in BOOLEAN
    BY <1>1, <1>2 DEF ServerInv
  <1>12. ServerInv'
    BY <1>1, <1>4, <1>5, <1>7, <1>9, <1>10, <1>11 DEF ServerInv
  <1>13. serial' => Shipped' = taken
    BY <1>5, <1>7, <1>9, <1>10, <1>11 DEF Shipped
  <1> QED
    BY <1>1, <1>12, <1>13 DEF Shipped

\* A handler that goes on is otherwise as before.
LEMMA OnwardKeeps ==
    ASSUME ServerInv, NEW i \in DOMAIN handling, handling[i].at \in 1..2, Onward(i)
    PROVE  /\ handling' \in Seq(ShortHandlers) /\ Len(handling') = Len(handling)
           /\ handling # <<>> /\ handling' # <<>>
           /\ handling'[i].at = handling[i].at + 1
           /\ handling'[i].msg = handling[i].msg
           /\ handling'[i].from = handling[i].from
           /\ handling'[i].to = handling[i].to
  <1> DEFINE e == [handling[i] EXCEPT !.at = @ + 1]
             y == [handling EXCEPT ![i] = e]
  <1>1. handling' = y
    BY DEF Onward
  <1>2. handling \in Seq(ShortHandlers) /\ handling[i] \in ShortHandlers
    BY DEF ServerInv
  <1>3. /\ e \in ShortHandlers /\ e.at = handling[i].at + 1
        /\ e.msg = handling[i].msg /\ e.from = handling[i].from /\ e.to = handling[i].to
    BY <1>2 DEF ShortHandlers, Handlers
  <1> HIDE DEF e
  <1>4. /\ y \in Seq(ShortHandlers) /\ Len(y) = Len(handling) /\ y[i] = e
        /\ y # <<>> /\ handling # <<>>
    BY <1>2, <1>3
  <1> QED
    BY <1>1, <1>3, <1>4

\* With one handler at most, it is the oldest that takes a step.
LEMMA OnlyHandler ==
    ASSUME ServerInv, serial, NEW i \in DOMAIN handling
    PROVE  /\ i = 1 /\ Len(handling) = 1 /\ handling # <<>> /\ taken > 0
           /\ handling[1].msg = taken
           /\ handling[1].from = HistoryAt(taken - 1)
           /\ handling[1].to = history
           /\ stored = IF handling[1].at = 1 THEN HistoryAt(taken - 1) ELSE history
  <1>1. handling \in Seq(ShortHandlers) /\ handling # <<>>
    BY DEF ServerInv
  <1>2. Len(handling) = 1
    BY <1>1 DEF ServerInv
  <1>3. i = 1
    BY <1>1, <1>2
  <1> QED
    BY <1>1, <1>2, <1>3 DEF ServerInv

LEMMA StoreKeeps ==
    ASSUME ServerInv, NEW i \in DOMAIN handling, StoreState(i)
    PROVE  /\ ServerInv' /\ UNCHANGED <<taken, uplink, wire, mirror, list, serial, whole, owed>>
           /\ serial => Shipped' = Shipped
  <1>1. /\ handling[i].at = 1 /\ Onward(i) /\ stored' = handling[i].to
        /\ UNCHANGED <<history, taken, uplink, wire, mirror, list, serial, whole, owed>>
    BY DEF StoreState
  <1>2. /\ handling' \in Seq(ShortHandlers) /\ Len(handling') = Len(handling)
        /\ handling # <<>> /\ handling' # <<>>
        /\ handling'[i].at = 2
        /\ handling'[i].msg = handling[i].msg
        /\ handling'[i].from = handling[i].from
        /\ handling'[i].to = handling[i].to
    BY <1>1, OnwardKeeps
  <1>3. stored' \in Texts /\ Len(stored') <= Limit
    BY <1>1, ServerFacts
  <1>4. serial => Shipped' = Shipped
    BY <1>1, <1>2, OnlyHandler DEF Shipped
  <1>5. serial =>
           /\ Len(handling') = 1 /\ taken > 0
           /\ handling'[1].msg = taken
           /\ handling'[1].from = HistoryAt(taken - 1)
           /\ handling'[1].to = history
           /\ stored' = IF handling'[1].at = 1 THEN HistoryAt(taken - 1) ELSE history
    BY <1>1, <1>2, OnlyHandler
  <1>6. ServerInv'
    BY <1>1, <1>2, <1>3, <1>5 DEF ServerInv
  <1> QED
    BY <1>1, <1>4, <1>6

LEMMA ShipKeeps ==
    ASSUME ServerInv, NEW i \in DOMAIN handling, Ship(i)
    PROVE  /\ ServerInv' /\ UNCHANGED <<taken, uplink, mirror, list, serial, owed>>
           /\ serial => /\ taken > 0 /\ Shipped = taken - 1 /\ Shipped' = taken
                        /\ handling[i].from = HistoryAt(taken - 1)
                        /\ handling[i].to = HistoryAt(taken)
           /\ handling[i].from \in Texts /\ handling[i].to \in Texts
  <1>1. /\ handling[i].at = 2 /\ Onward(i)
        /\ UNCHANGED <<history, stored, taken, uplink, mirror, list, serial, owed>>
    BY DEF Ship
  <1>2. /\ handling' \in Seq(ShortHandlers) /\ Len(handling') = Len(handling)
        /\ handling # <<>> /\ handling' # <<>>
        /\ handling'[i].at = 3
        /\ handling'[i].msg = handling[i].msg
        /\ handling'[i].from = handling[i].from
        /\ handling'[i].to = handling[i].to
    BY <1>1, OnwardKeeps
  <1>3. serial =>
           /\ Len(handling') = 1 /\ taken > 0
           /\ handling'[1].msg = taken
           /\ handling'[1].from = HistoryAt(taken - 1)
           /\ handling'[1].to = history
           /\ stored' = IF handling'[1].at = 1 THEN HistoryAt(taken - 1) ELSE history
    BY <1>1, <1>2, OnlyHandler
  <1>4. serial => Shipped = taken - 1 /\ Shipped' = taken
    BY <1>1, <1>2, OnlyHandler DEF Shipped
  <1>5. serial => /\ handling[i].from = HistoryAt(taken - 1)
                  /\ handling[i].to = HistoryAt(taken)
    BY OnlyHandler DEF ServerInv
  <1>6. ServerInv'
    BY <1>1, <1>2, <1>3 DEF ServerInv
  <1>7. handling[i].from \in Texts /\ handling[i].to \in Texts
    BY ServerFacts
  <1> QED
    BY <1>1, <1>3, <1>4, <1>5, <1>6, <1>7

\* A handler is done when the one before it is: it is the oldest.
LEMMA AnnounceKeeps ==
    ASSUME ServerInv, NEW i \in DOMAIN handling, Announce(i)
    PROVE  /\ ServerInv'
           /\ UNCHANGED <<taken, uplink, mirror, list, serial, whole, owed>>
           /\ handling[i].msg \in Messages
           /\ serial => Shipped = taken /\ Shipped' = taken /\ handling[i].msg = taken
  <1>1. /\ handling[i].at = 3 /\ handling' = RemoveAt(handling, i)
        /\ UNCHANGED <<history, stored, taken, uplink, mirror, list, serial, whole, owed>>
    BY DEF Announce
  <1>2. handling \in Seq(ShortHandlers) /\ i \in 1..Len(handling) /\ Len(handling) \in Nat
    BY DEF ServerInv
  <1> DEFINE a == SubSeq(handling, 1, i - 1)
             b == SubSeq(handling, i + 1, Len(handling))
             y == a \o b
  <1>3. /\ a \in Seq(ShortHandlers) /\ b \in Seq(ShortHandlers)
        /\ Len(a) = i - 1 /\ Len(b) = Len(handling) - i
    BY <1>2, SubSeqProperties
  <1>4. handling' = y
    BY <1>1 DEF RemoveAt
  <1> HIDE DEF a, b
  <1>5. y \in Seq(ShortHandlers) /\ Len(y) = Len(handling) - 1
    BY <1>2, <1>3
  <1> HIDE DEF y
  <1>6. serial => handling' = <<>> /\ stored = history
    <2>1. serial => Len(y) = 0 /\ stored = history
      BY <1>1, <1>5, OnlyHandler
    <2>2. Len(y) = 0 => y = <<>>
      BY <1>5, EmptySeq
    <2> QED
      BY <1>4, <2>1, <2>2
  <1>7. serial => Shipped = taken /\ Shipped' = taken /\ handling[i].msg = taken
    BY <1>1, <1>6, OnlyHandler DEF Shipped
  <1>8. ServerInv'
    BY <1>1, <1>4, <1>5, <1>6 DEF ServerInv
  <1> QED
    BY <1>1, <1>7, <1>8, ServerFacts

-----------------------------------------------------------------------------
(* DemoChat: what is on its way, and what the page holds. *)

\* As long as no handlers overlap and no patch is lost, the frames on their way
\* lead from what the store holds to what has been broadcast.
WireInv ==
    /\ wire \in Seq(ChatFrames) /\ mirror \in Texts /\ whole \in BOOLEAN
    /\ serial /\ whole => Leads(wire, mirror, Shipped)

LEMMA WireStays ==
    ASSUME WireInv, UNCHANGED <<wire, mirror, whole>>,
           serial' => serial /\ Shipped' = Shipped
    PROVE  WireInv'
  BY DEF WireInv

LEMMA LoseChatKeeps ==
    ASSUME ServerInv, WireInv, LoseChat
    PROVE  /\ ServerInv' /\ WireInv' /\ UNCHANGED <<taken, mirror, list, serial>>
           /\ uplink' = 0 /\ owed' = {} /\ (whole' => whole)
  <1>1. /\ wire' = <<>> /\ uplink' = 0 /\ owed' = {}
        /\ whole' = (whole /\ \A i \in DOMAIN wire : wire[i].type # "patch")
        /\ UNCHANGED <<history, stored, handling, taken, mirror, list, serial>>
    BY DEF LoseChat
  <1>2. ServerInv' /\ Shipped' = Shipped
    BY <1>1, ServerKeeps
  <1>3. serial /\ whole' => Leads(<<>>, mirror, Shipped)
    <2> SUFFICES ASSUME serial, whole' PROVE Leads(<<>>, mirror, Shipped)
      OBVIOUS
    <2>1. Shipped \in Nat
      BY ServerFacts
    <2>2. Leads(wire, mirror, Shipped) /\ \A i \in DOMAIN wire : wire[i].type # "patch"
      BY <1>1 DEF WireInv
    <2> QED
      BY <2>1, <2>2, LeadsHere
  <1>4. <<>> \in Seq(ChatFrames) /\ whole' \in BOOLEAN
    BY <1>1 DEF WireInv
  <1>5. WireInv'
    BY <1>1, <1>2, <1>3, <1>4 DEF WireInv
  <1> QED
    BY <1>1, <1>2, <1>5

LEMMA ShipSends ==
    ASSUME ServerInv, WireInv, NEW i \in DOMAIN handling, Ship(i)
    PROVE  WireInv' /\ (whole' => whole)
  <1> DEFINE from == handling[i].from
             to == handling[i].to
             f == [type |-> "patch", from |-> from, to |-> to]
             y == Append(wire, f)
  <1>1. /\ mirror' = mirror /\ serial' = serial
        /\ from = to => UNCHANGED <<wire, whole>>
        /\ from # to => /\ wire' = IF Linked THEN y ELSE wire
                        /\ whole' = (whole /\ Linked)
    BY DEF Ship
  <1>2. /\ from \in Texts /\ to \in Texts
        /\ serial => /\ taken > 0 /\ Shipped = taken - 1 /\ Shipped' = taken
                     /\ from = HistoryAt(taken - 1) /\ to = HistoryAt(taken)
    BY ShipKeeps
  <1>3. f \in ChatFrames /\ f.type = "patch" /\ f.from = from /\ f.to = to
    BY <1>2 DEF ChatFrames, ChatPatches
  <1>4. taken \in Nat /\ taken <= MaxInputs /\ MaxInputs \in Nat
    BY ServerFacts
  <1>5. serial => from # to /\ Brings(f) = taken
    <2> SUFFICES ASSUME serial PROVE from # to /\ Brings(f) = taken
      OBVIOUS
    <2>1. taken \in 0..MaxInputs /\ taken - 1 \in 0..MaxInputs /\ taken # taken - 1
      BY <1>2, <1>4
    <2>2. Upto(HistoryAt(taken)) = taken /\ Upto(HistoryAt(taken - 1)) = taken - 1
      BY <2>1, HistoryFacts
    <2>3. from # to
      BY <1>2, <2>1, <2>2
    <2>4. Brings(f) = Upto(to)
      BY <1>3 DEF Brings
    <2> QED
      BY <1>2, <2>2, <2>3, <2>4
  <1> HIDE DEF from, to, f
  <1>6. wire \in Seq(ChatFrames) /\ y \in Seq(ChatFrames) /\ mirror \in Texts
    BY <1>3 DEF WireInv
  <1>7. whole' \in BOOLEAN /\ (whole' => whole) /\ wire' \in Seq(ChatFrames)
    <2>1. whole \in BOOLEAN
      BY DEF WireInv
    <2>2. CASE from = to
      BY <1>1, <1>6, <2>1, <2>2
    <2>3. CASE from # to
      <3>1. whole' = (whole /\ Linked) /\ wire' \in {y, wire}
        BY <1>1, <2>3
      <3>2. whole' \in BOOLEAN /\ (whole' => whole)
        BY <3>1
      <3> QED
        BY <1>6, <3>1, <3>2
    <2> QED
      BY <2>2, <2>3
  <1>8. serial /\ whole' => Leads(wire', mirror, taken)
    <2> SUFFICES ASSUME serial, whole' PROVE Leads(wire', mirror, taken)
      OBVIOUS
    <2>1. wire' = y /\ whole
      BY <1>1, <1>5
    <2>2. taken - 1 \in Nat /\ taken - 1 + 1 = taken
      BY <1>2, <1>4
    <2>3. Leads(wire, mirror, taken - 1)
      BY <1>2, <2>1 DEF WireInv
    <2>4. /\ f.type = "patch" /\ Brings(f) = taken - 1 + 1
          /\ f.from = HistoryAt(taken - 1) /\ f.to = HistoryAt(taken - 1 + 1)
      BY <1>2, <1>3, <1>5, <2>2
    <2>5. Leads(y, mirror, Brings(f))
      BY <1>3, <1>6, <2>2, <2>3, <2>4, LeadsOn
    <2> QED
      BY <1>5, <2>1, <2>5
  <1> HIDE DEF y
  <1>9. WireInv'
    BY <1>1, <1>2, <1>6, <1>7, <1>8 DEF WireInv
  <1> QED
    BY <1>7, <1>9

LEMMA AnnounceSends ==
    ASSUME ServerInv, WireInv, NEW i \in DOMAIN handling, Announce(i)
    PROVE  WireInv'
  <1> DEFINE n == handling[i].msg
             f == [type |-> "event", msg |-> n]
             y == Append(wire, f)
  <1>1. /\ UNCHANGED <<mirror, serial, whole>>
        /\ wire' = IF Linked THEN y ELSE wire
    BY DEF Announce
  <1>2. /\ n \in Messages
        /\ serial => Shipped = taken /\ Shipped' = taken /\ n = taken
    BY AnnounceKeeps
  <1> HIDE DEF n
  <1>3. f \in ChatFrames /\ f.type = "event" /\ f.msg = n /\ Brings(f) = n
    BY <1>2 DEF ChatFrames, ChatEvents, Brings
  <1> HIDE DEF f
  <1>4. taken \in Nat
    BY ServerFacts
  <1>5. wire \in Seq(ChatFrames) /\ y \in Seq(ChatFrames) /\ mirror \in Texts
    BY <1>3 DEF WireInv
  <1>6. serial /\ whole => Leads(y, mirror, taken)
    <2> SUFFICES ASSUME serial, whole PROVE Leads(y, mirror, taken)
      OBVIOUS
    <2>1. Leads(wire, mirror, taken)
      BY <1>2 DEF WireInv
    <2>2. f.type = "event" /\ f.msg = taken /\ Brings(f) = taken
      BY <1>2, <1>3
    <2>3. Leads(y, mirror, Brings(f))
      BY <1>3, <1>4, <1>5, <2>1, <2>2, LeadsOn
    <2> QED
      BY <2>2, <2>3
  <1> HIDE DEF y
  <1>7. whole' \in BOOLEAN /\ wire' \in Seq(ChatFrames)
    BY <1>1, <1>5 DEF WireInv
  <1>8. serial /\ whole => Leads(wire', mirror, taken)
    BY <1>1, <1>2, <1>6 DEF WireInv
  <1> QED
    BY <1>1, <1>2, <1>5, <1>7, <1>8 DEF WireInv

\* The vanilla page shows no message twice.  What the others show, and the
\* vanilla page as long as nothing was lost or overlapped, is the store's state.
ListInv ==
    /\ list \in [dom : Texts, seen : SUBSET Messages]
    /\ owed \subseteq Messages
    /\ page = "blank" => mirror = <<>> /\ list = Empty
    /\ kind # "vanilla" /\ hooks => list.dom = mirror
    /\ kind = "vanilla" => DrawnOnce(list)
    /\ kind = "vanilla" /\ serial /\ whole => list.dom = mirror

LEMMA ListStays ==
    ASSUME ListInv, UNCHANGED <<kind, mirror, list>>, owed' \subseteq Messages,
           serial' => serial, whole' => whole,
           page' = "blank" => page = "blank", hooks' => hooks \/ page = "blank"
    PROVE  ListInv'
  <1>1. page = "blank" => list.dom = mirror
    BY DEF ListInv, Empty
  <1>2. kind = "vanilla" => DrawnOnce(list)'
    BY DEF ListInv, DrawnOnce
  <1> QED
    BY <1>1, <1>2 DEF ListInv

LEMMA OwedIs ==
    ASSUME ListInv
    PROVE  \A S : owed \ S \subseteq Messages
  BY DEF ListInv

\* What a notified page shows is the state it was given.
LEMMA NotifyShows ==
    ASSUME PageCore, ListInv, NEW s \in Texts, NEW on \in BOOLEAN, Notify(s, on)
    PROVE  /\ list' \in [dom : Texts, seen : SUBSET Messages]
           /\ owed' \subseteq Messages
           /\ kind # "vanilla" /\ on => list'.dom = s
           /\ kind = "vanilla" => /\ DrawnOnce(list')
                                  /\ IsInjective(s) => list'.dom = s
  <1>1. kind \in {"vanilla", "react", "vue"}
    BY CoreNumbers
  <1>2. owed' \subseteq Messages
    BY OwedIs DEF Notify
  <1>3. CASE kind = "vanilla"
    <2>1. list' = VanillaRender(s)
      BY <1>3 DEF Notify
    <2> QED
      BY <1>2, <1>3, <2>1, Rendered
  <1>4. CASE kind # "vanilla"
    <2>1. list' = IF on THEN [list EXCEPT !.dom = s] ELSE list
      BY <1>1, <1>4 DEF Notify, ReactState, VueState
    <2>2. list \in [dom : Texts, seen : SUBSET Messages]
      BY DEF ListInv
    <2> QED
      BY <1>2, <1>4, <2>1, <2>2
  <1> QED
    BY <1>3, <1>4

LEMMA LinkedIsNotBlank ==
    ASSUME PageCore, Linked
    PROVE  page # "blank"
  BY DEF PageCore, MountInv, Linked

LEMMA FollowKeeps ==
    ASSUME PageCore, WireInv, ListInv, Follow
    PROVE  ListInv' /\ UNCHANGED <<history, stored, handling, taken, uplink, wire, mirror,
                                   serial, whole>>
  <1>1. /\ kind = "react" /\ page = "mounted" /\ hooks' = TRUE
        /\ UNCHANGED <<kind, page>> /\ Notify(mirror, TRUE)
        /\ UNCHANGED <<history, stored, handling, taken, uplink, wire, mirror, serial,
                       whole>>
    BY DEF Follow, ReactHooks, Subscribe, worldVars
  <1>2. /\ list' \in [dom : Texts, seen : SUBSET Messages] /\ owed' \subseteq Messages
        /\ list'.dom = mirror
    BY <1>1, NotifyShows DEF WireInv
  <1> QED
    BY <1>1, <1>2 DEF ListInv

\* A frame of each kind reaches the page.
LEMMA PatchReceived ==
    ASSUME PageCore, ServerInv, WireInv, ListInv, wire # <<>>, Linked,
           wire' = Tail(wire), ReceivePatch,
           UNCHANGED <<kind, page, hooks, history, stored, handling, taken, serial, whole>>
    PROVE  WireInv' /\ ListInv'
  <1> DEFINE f == Head(wire)
             p == Patched(mirror, f.from, f.to)
             t == Tail(wire)
  <1>1. /\ f \in ChatFrames /\ f.type = "patch" /\ t \in Seq(ChatFrames)
        /\ mirror \in Texts /\ whole \in BOOLEAN
        /\ serial /\ whole => Leads(wire, mirror, Shipped)
    BY DEF WireInv, ReceivePatch
  <1>2. f.from \in Texts /\ f.to \in Texts
    BY <1>1 DEF ChatFrames, ChatPatches, ChatEvents
  <1>3. p \in Texts
    BY <1>1, <1>2, PatchedType
  <1>4. IF Changed(f.from, f.to) \subseteq DOMAIN mirror
        THEN mirror' = p /\ Notify(p, hooks)
        ELSE UNCHANGED <<mirror, list, owed>>
    BY DEF ReceivePatch
  <1>5. page # "blank" /\ hooks \in BOOLEAN
    BY LinkedIsNotBlank DEF PageCore, PageTypeOK
  <1>6. Shipped' = Shipped
    BY DEF Shipped
  <1>7. wire \in Seq(ChatFrames) /\ (serial => Shipped \in 0..MaxInputs)
    BY ServerFacts DEF WireInv
  <1>8. serial /\ whole =>
           /\ Changed(f.from, f.to) \subseteq DOMAIN mirror
           /\ IsInjective(p) /\ Leads(t, p, Shipped)
    <2> SUFFICES ASSUME serial, whole
                 PROVE  /\ Changed(f.from, f.to) \subseteq DOMAIN mirror
                        /\ IsInjective(p) /\ Leads(t, p, Shipped)
      OBVIOUS
    <2> HIDE DEF p
    <2>1. PICK n \in Nat : /\ n + 1 \in Messages /\ mirror = HistoryAt(n)
                           /\ f.from = HistoryAt(n) /\ f.to = HistoryAt(n + 1)
                           /\ Leads(t, HistoryAt(n + 1), Shipped)
      BY <1>1, <1>7, LeadsPatch
    <2> HIDE DEF f, t
    <2>2. /\ Changed(f.from, f.to) \subseteq DOMAIN mirror
          /\ p = HistoryAt(n + 1)
      BY <2>1, PatchedHistory DEF p
    <2>3. n + 1 \in 0..MaxInputs
      BY <2>1, LimitsAreNat DEF Messages
    <2>4. IsInjective(HistoryAt(n + 1))
      BY <2>3, HistoryFacts
    <2> QED
      BY <2>1, <2>2, <2>4
  <1> HIDE DEF p, f, t
  <1>9. CASE Changed(f.from, f.to) \subseteq DOMAIN mirror
    <2>1. mirror' = p /\ Notify(p, hooks)
      BY <1>4, <1>9
    <2>2. /\ list' \in [dom : Texts, seen : SUBSET Messages]
          /\ owed' \subseteq Messages
          /\ kind # "vanilla" /\ hooks => list'.dom = p
          /\ kind = "vanilla" => /\ DrawnOnce(list')
                                 /\ IsInjective(p) => list'.dom = p
      BY <1>3, <1>5, <2>1, NotifyShows
    <2>3. WireInv'
      BY <1>1, <1>3, <1>6, <1>8, <2>1 DEF WireInv, t
    <2>4. ListInv'
      BY <1>5, <1>8, <2>1, <2>2 DEF ListInv
    <2> QED
      BY <2>3, <2>4
  <1>10. CASE ~(Changed(f.from, f.to) \subseteq DOMAIN mirror)
    <2>1. UNCHANGED <<mirror, list, owed>> /\ ~(serial /\ whole)
      BY <1>4, <1>8, <1>10
    <2>2. WireInv'
      BY <1>1, <2>1 DEF WireInv, t
    <2>3. ListInv'
      BY <2>1, ListStays DEF ListInv
    <2> QED
      BY <2>2, <2>3
  <1> QED
    BY <1>9, <1>10

LEMMA EventReceived ==
    ASSUME PageCore, ServerInv, WireInv, ListInv, wire # <<>>, Linked,
           wire' = Tail(wire), ReceiveEvent,
           UNCHANGED <<kind, page, hooks, history, stored, handling, taken, serial, whole>>
    PROVE  WireInv' /\ ListInv'
  <1> DEFINE f == Head(wire)
             a == AppendMessage(list, f.msg)
             t == Tail(wire)
  <1>1. /\ f \in ChatFrames /\ f.type = "event" /\ t \in Seq(ChatFrames)
        /\ mirror \in Texts /\ whole \in BOOLEAN
        /\ serial /\ whole => Leads(wire, mirror, Shipped)
    BY DEF WireInv, ReceiveEvent
  <1>2. f.msg \in Messages
    BY <1>1 DEF ChatFrames, ChatPatches, ChatEvents
  <1>3. /\ mirror' = mirror
        /\ list' = IF kind = "vanilla" THEN a ELSE list
        /\ owed' = owed \ ToSet(list'.dom)
    BY DEF ReceiveEvent
  <1>4. page # "blank"
    BY LinkedIsNotBlank
  <1>5. Shipped' = Shipped
    BY DEF Shipped
  <1>6. wire \in Seq(ChatFrames) /\ (serial => Shipped \in 0..MaxInputs)
    BY ServerFacts DEF WireInv
  <1>7. serial /\ whole => /\ Leads(t, mirror, Shipped)
                           /\ Upto(mirror) = f.msg /\ mirror = HistoryAt(Upto(mirror))
    BY <1>1, <1>6, LeadsEvent
  <1> HIDE DEF t
  <1>8. WireInv'
    BY <1>1, <1>3, <1>5, <1>7 DEF WireInv, t
  <1>9. list \in [dom : Texts, seen : SUBSET Messages] /\ owed' \subseteq Messages
    BY <1>3, OwedIs DEF ListInv
  <1>10. CASE kind = "vanilla"
    <2>1. DrawnOnce(list)
      BY <1>10 DEF ListInv
    <2>2. /\ a \in [dom : Texts, seen : SUBSET Messages] /\ DrawnOnce(a)
          /\ f.msg \in list.seen => a = list
      BY <1>2, <1>9, <2>1, AppendOnce
    <2>3. serial /\ whole => list.dom = mirror /\ f.msg \in list.seen
      <3> SUFFICES ASSUME serial, whole PROVE list.dom = mirror /\ f.msg \in list.seen
        OBVIOUS
      <3>1. list.dom = mirror /\ list.seen = ToSet(mirror)
        BY <1>10, <2>1 DEF ListInv, DrawnOnce
      <3>2. f.msg \in 0..MaxInputs /\ f.msg > 0 /\ mirror = HistoryAt(f.msg)
        BY <1>2, <1>7, LimitsAreNat DEF Messages
      <3>3. f.msg \in ToSet(HistoryAt(f.msg))
        BY <3>2, HistoryFacts
      <3> QED
        BY <3>1, <3>2, <3>3
    <2> HIDE DEF a
    <2> QED
      BY <1>3, <1>4, <1>8, <1>9, <1>10, <2>2, <2>3 DEF ListInv
  <1>11. CASE kind # "vanilla"
    <2>1. UNCHANGED <<kind, mirror, list, page, hooks, serial, whole>>
      BY <1>3, <1>11
    <2>2. ListInv'
      BY <1>9, <2>1, ListStays
    <2> QED
      BY <1>8, <2>2
  <1> QED
    BY <1>10, <1>11

-----------------------------------------------------------------------------
(* DemoChat: the invariant, and what each step does to it. *)

\* Every call, tick and message has been paid for with an input.
InputsInv ==
    uplink \in Nat /\ (panel.call + ticks + inputs) + (taken + uplink) <= MaxInputs

ChatInv == PageCore /\ ServerInv /\ WireInv /\ ListInv /\ InputsInv

LEMMA InputsKeep ==
    ASSUME ChatInv, PageMove, taken' = taken, uplink' \in {0, uplink}
    PROVE  InputsInv'
  <1> DEFINE spent == panel.call + ticks + inputs
             spentThen == panel'.call + ticks' + inputs'
  <1>1. spentThen \in Nat
    <2> DEFINE calls == panel'.call
    <2>1. /\ calls \in 0..MaxInputs /\ ticks' \in 0..MaxInputs
          /\ inputs' \in 0..MaxInputs
      BY DEF PageMove, PageCore, PageTypeOK
    <2> HIDE DEF calls
    <2>2. calls \in Nat /\ ticks' \in Nat /\ inputs' \in Nat
      BY <2>1, LimitsAreNat
    <2> QED
      BY <2>2 DEF calls
  <1>2. spent \in Nat /\ taken \in Nat /\ uplink \in Nat /\ MaxInputs \in Nat
    BY CoreNumbers, ServerFacts DEF ChatInv, InputsInv
  <1>3. spentThen <= spent /\ spent + (taken + uplink) <= MaxInputs
    BY DEF PageMove, ChatInv, InputsInv
  <1> HIDE DEF spent, spentThen
  <1>4. uplink' \in Nat /\ spentThen + (taken + uplink') <= MaxInputs
    <2>1. CASE uplink' = 0
      BY <1>1, <1>2, <1>3, <2>1
    <2>2. CASE uplink' = uplink
      BY <1>1, <1>2, <1>3, <2>2
    <2> QED
      BY <2>1, <2>2
  <1> QED
    BY <1>4 DEF InputsInv, spentThen

\* Steps of the page that leave the chat alone, and those that lose what it has
\* on the connection.
LEMMA ChatIsStill ==
    ASSUME ChatInv, PageMove, UNCHANGED chatVars, hooks' => hooks \/ page = "blank"
    PROVE  ChatInv'
  <1>1. UNCHANGED <<history, stored, handling, taken, uplink, wire, mirror, list, serial,
                    whole, owed, kind>>
    BY DEF chatVars, PageMove, worldVars
  <1>2. ServerInv' /\ Shipped' = Shipped
    BY <1>1, ServerKeeps DEF ChatInv
  <1>3. WireInv'
    BY <1>1, <1>2, WireStays DEF ChatInv
  <1>4. owed' \subseteq Messages
    BY <1>1 DEF ChatInv, ListInv
  <1>5. ListInv'
    BY <1>1, <1>4, ListStays DEF ChatInv, PageMove
  <1>6. taken' = taken /\ uplink' \in {0, uplink}
    BY <1>1
  <1>7. InputsInv'
    BY <1>2, <1>6, InputsKeep
  <1> QED
    BY <1>2, <1>3, <1>5, <1>7 DEF ChatInv, PageMove

LEMMA ChatIsLost ==
    ASSUME ChatInv, PageMove, LoseChat, hooks' => hooks \/ page = "blank"
    PROVE  ChatInv'
  <1>1. /\ ServerInv' /\ WireInv' /\ UNCHANGED <<taken, mirror, list, serial>>
        /\ uplink' = 0 /\ owed' = {} /\ (whole' => whole)
    BY LoseChatKeeps DEF ChatInv
  <1>2. kind' = kind /\ owed' \subseteq Messages
    BY <1>1 DEF PageMove, worldVars
  <1>3. ListInv'
    BY <1>1, <1>2, ListStays DEF ChatInv, PageMove
  <1>4. taken' = taken /\ uplink' \in {0, uplink}
    BY <1>1
  <1>5. InputsInv'
    BY <1>1, <1>4, InputsKeep
  <1> QED
    BY <1>1, <1>3, <1>5 DEF ChatInv, PageMove

LEMMA BeginKeeps ==
    ASSUME ChatInv, Begin
    PROVE  ChatInv'
  <1>1. PageMove
    BY StartMoves DEF ChatInv, Begin
  <1>2. page = "blank" /\ UNCHANGED chatVars
    BY DEF Begin, VanillaStart, ReactMount, VueMount, Start
  <1> QED
    BY <1>1, <1>2, ChatIsStill

LEMMA LeaveKeeps ==
    ASSUME ChatInv, Leave
    PROVE  ChatInv'
  <1>1. PageMove
    BY UnmountMoves, StopMoves DEF ChatInv, Leave
  <1>2. LoseChat /\ (hooks' => hooks)
    BY DEF Leave, ReactUnmount, VueUnmount, Unmount, StopServer
  <1> QED
    BY <1>1, <1>2, ChatIsLost

LEMMA ConnectionKeeps ==
    ASSUME ChatInv, NEW c \in Clients, Connection(c) \/ Lose(c)
    PROVE  ChatInv'
  <1>1. PageMove
    BY ConnectionMoves DEF ChatInv, Connection, Lose
  <1>2. hooks' = hooks
    BY DEF Connection, Lose, Opened, Refused, Retry, Cut
  <1>3. UNCHANGED chatVars \/ LoseChat
    BY DEF Connection, Lose
  <1> QED
    BY <1>1, <1>2, <1>3, ChatIsStill, ChatIsLost

LEMMA PanelKeeps ==
    ASSUME ChatInv, PanelCalls
    PROVE  ChatInv'
  <1>1. PageMove
    BY ClickMoves, ServeMoves, SettleMoves DEF ChatInv, PanelCalls
  <1>2. hooks' = hooks
    BY DEF PanelCalls, Click, Serve, Answered, Timeout, linkVars
  <1>3. UNCHANGED chatVars
    BY DEF PanelCalls
  <1> QED
    BY <1>1, <1>2, <1>3, ChatIsStill

LEMMA DashboardKeeps ==
    ASSUME ChatInv, Dashboard
    PROVE  ChatInv'
  <1>1. PageMove
    BY TickMoves, ShowMoves DEF ChatInv, Dashboard
  <1>2. hooks' = hooks /\ UNCHANGED chatVars
    BY DEF Dashboard, Tick, ShowMetrics, linkVars
  <1> QED
    BY <1>1, <1>2, ChatIsStill

LEMMA FollowMoves ==
    ASSUME ChatInv, Follow
    PROVE  ChatInv'
  <1>1. PageMove
    BY HooksMove DEF ChatInv, Follow
  <1>2. ListInv' /\ UNCHANGED <<history, stored, handling, taken, uplink, wire, mirror,
                                serial, whole>>
    BY FollowKeeps DEF ChatInv
  <1>3. ServerInv' /\ Shipped' = Shipped
    BY <1>2, ServerKeeps DEF ChatInv
  <1>4. WireInv'
    BY <1>2, <1>3, WireStays DEF ChatInv
  <1>5. taken' = taken /\ uplink' \in {0, uplink}
    BY <1>2
  <1>6. InputsInv'
    BY <1>1, <1>3, <1>5, InputsKeep
  <1> QED
    BY <1>1, <1>2, <1>3, <1>4, <1>6 DEF ChatInv, PageMove

\* The page stays as it is while the server takes a message or goes on with one.
LEMMA PageRests ==
    ASSUME ChatInv, UNCHANGED pageVars
    PROVE  PageMove /\ UNCHANGED <<kind, page, hooks>>
  <1>1. /\ LinksKept /\ UNCHANGED <<serverUp, ticks, feed, dash, callVars>>
        /\ inputs' = inputs /\ UNCHANGED <<kind, page, hooks>>
    BY DEF pageVars, LinksKept, worldVars, linkVars
  <1> QED
    BY <1>1, ChatMoves DEF ChatInv

LEMMA SendKeeps ==
    ASSUME ChatInv, Send
    PROVE  ChatInv'
  <1>1. /\ LinksKept /\ UNCHANGED <<serverUp, ticks, feed, dash, callVars>> /\ Spend
        /\ uplink' = (IF Linked THEN uplink + 1 ELSE uplink)
        /\ UNCHANGED <<history, stored, handling, taken, wire, mirror, list, serial, whole,
                       owed, kind>>
    BY DEF Send, LinksKept, worldVars
  <1>2. PageMove /\ UNCHANGED <<panel, ticks>> /\ hooks' = hooks
    BY <1>1, ChatMoves DEF ChatInv
  <1>3. ServerInv' /\ Shipped' = Shipped
    BY <1>1, ServerKeeps DEF ChatInv
  <1>4. WireInv'
    BY <1>1, <1>3, WireStays DEF ChatInv
  <1>5. owed' \subseteq Messages
    BY <1>1 DEF ChatInv, ListInv
  <1>6. ListInv'
    BY <1>1, <1>2, <1>5, ListStays DEF ChatInv, PageMove
  <1>7. InputsInv'
    <2> DEFINE calls == panel.call
    <2>1. /\ calls \in Nat /\ ticks \in Nat /\ inputs \in Nat /\ MaxInputs \in Nat
          /\ taken \in Nat /\ uplink \in Nat
          /\ (calls + ticks + inputs) + (taken + uplink) <= MaxInputs
      BY CoreNumbers, ServerFacts DEF ChatInv, InputsInv
    <2>2. /\ inputs' = inputs - 1 /\ taken' = taken /\ ticks' = ticks
          /\ panel'.call = calls /\ inputs > 0
      BY <1>1, <1>2 DEF Spend
    <2>3. uplink' \in {uplink, uplink + 1}
      BY <1>1
    <2> HIDE DEF calls
    <2>4. /\ uplink' \in Nat
          /\ (calls + ticks + (inputs - 1)) + (taken + uplink') <= MaxInputs
      <3>1. (calls + ticks + (inputs - 1)) + (taken + uplink) <= MaxInputs
        BY <2>1
      <3>2. (calls + ticks + (inputs - 1)) + (taken + (uplink + 1)) <= MaxInputs
        BY <2>1
      <3>3. CASE uplink' = uplink
        BY <2>1, <3>1, <3>3
      <3>4. CASE uplink' = uplink + 1
        <4>1. uplink + 1 \in Nat
          BY <2>1
        <4> QED
          BY <3>2, <3>4, <4>1
      <3> QED
        BY <2>3, <3>3, <3>4
    <2> QED
      BY <2>2, <2>4 DEF InputsInv
  <1> QED
    BY <1>2, <1>3, <1>4, <1>6, <1>7 DEF ChatInv, PageMove

LEMMA TakeMoves ==
    ASSUME ChatInv, PageMove, UNCHANGED <<kind, page, hooks, panel, ticks>>, Take,
           \/ uplink > 0 /\ uplink' = uplink - 1 /\ inputs' = inputs
           \/ uplink' = uplink /\ Spend
    PROVE  ChatInv'
  <1>1. /\ panel.call \in Nat /\ ticks \in Nat /\ inputs \in Nat /\ MaxInputs \in Nat
        /\ taken \in Nat /\ uplink \in Nat
        /\ (panel.call + ticks + inputs) + (taken + uplink) <= MaxInputs
    BY CoreNumbers, ServerFacts DEF ChatInv, InputsInv
  <1>2. taken + 1 \in Messages
    BY <1>1 DEF Messages, Spend
  <1>3. /\ ServerInv' /\ taken' = taken + 1
        /\ serial' => serial /\ Shipped' = Shipped
    BY <1>2, TakeKeeps DEF ChatInv
  <1>4. UNCHANGED <<wire, mirror, list, whole>>
    BY DEF Take
  <1>5. WireInv'
    BY <1>3, <1>4, WireStays DEF ChatInv
  <1>6. owed' \subseteq Messages
    BY <1>2 DEF Take, ChatInv, ListInv
  <1>7. ListInv'
    BY <1>3, <1>4, <1>6, ListStays DEF ChatInv
  <1>8. InputsInv'
    BY <1>1, <1>3 DEF InputsInv, Spend
  <1> QED
    BY <1>3, <1>5, <1>7, <1>8 DEF ChatInv, PageMove

LEMMA ArriveKeeps ==
    ASSUME ChatInv, Arrive
    PROVE  ChatInv'
  <1>1. UNCHANGED pageVars /\ Take /\ uplink > 0 /\ uplink' = uplink - 1
    BY DEF Arrive
  <1>2. PageMove /\ UNCHANGED <<kind, page, hooks, panel, ticks>> /\ inputs' = inputs
    BY <1>1, PageRests DEF pageVars, callVars
  <1> QED
    BY <1>1, <1>2, TakeMoves

LEMMA OtherSendsKeeps ==
    ASSUME ChatInv, OtherSends
    PROVE  ChatInv'
  <1>1. /\ LinksKept /\ UNCHANGED <<serverUp, ticks, feed, dash, callVars>>
        /\ Spend /\ Take /\ uplink' = uplink
        /\ UNCHANGED <<kind, page, hooks>>
    BY DEF OtherSends, LinksKept, worldVars, linkVars
  <1>2. PageMove /\ UNCHANGED <<panel, ticks>>
    BY <1>1, ChatMoves DEF ChatInv
  <1> QED
    BY <1>1, <1>2, TakeMoves

LEMMA HandleKeeps ==
    ASSUME ChatInv, NEW i \in DOMAIN handling, Handle(i)
    PROVE  ChatInv'
  <1>1. UNCHANGED pageVars /\ (StoreState(i) \/ Ship(i) \/ Announce(i))
    BY DEF Handle
  <1>2. PageMove /\ UNCHANGED <<kind, page, hooks>>
    BY <1>1, PageRests
  <1>3. /\ ServerInv' /\ WireInv' /\ (whole' => whole)
        /\ UNCHANGED <<taken, uplink, mirror, list, serial, owed>>
    <2>1. CASE StoreState(i)
      <3>1. /\ ServerInv' /\ (serial => Shipped' = Shipped)
            /\ UNCHANGED <<taken, uplink, wire, mirror, list, serial, whole, owed>>
        BY <2>1, StoreKeeps DEF ChatInv
      <3>2. WireInv'
        BY <3>1, WireStays DEF ChatInv
      <3> QED
        BY <3>1, <3>2
    <2>2. CASE Ship(i)
      BY <2>2, ShipKeeps, ShipSends DEF ChatInv
    <2>3. CASE Announce(i)
      BY <2>3, AnnounceKeeps, AnnounceSends DEF ChatInv
    <2> QED
      BY <1>1, <2>1, <2>2, <2>3
  <1>4. owed' \subseteq Messages
    BY <1>3 DEF ChatInv, ListInv
  <1>5. ListInv'
    BY <1>2, <1>3, <1>4, ListStays DEF ChatInv
  <1>6. taken' = taken /\ uplink' \in {0, uplink}
    BY <1>3
  <1>7. InputsInv'
    BY <1>2, <1>3, <1>6, InputsKeep
  <1> QED
    BY <1>2, <1>3, <1>5, <1>7 DEF ChatInv, PageMove

LEMMA ReceiveKeeps ==
    ASSUME ChatInv, Receive
    PROVE  ChatInv'
  <1>1. /\ wire # <<>> /\ Linked /\ wire' = Tail(wire) /\ (ReceivePatch \/ ReceiveEvent)
        /\ UNCHANGED <<pageVars, history, stored, handling, taken, uplink, serial, whole>>
    BY DEF Receive
  <1>2. PageMove /\ UNCHANGED <<kind, page, hooks>>
    BY <1>1, PageRests
  <1>3. WireInv' /\ ListInv'
    BY <1>1, <1>2, PatchReceived, EventReceived DEF ChatInv
  <1>4. ServerInv'
    BY <1>1, ServerKeeps DEF ChatInv
  <1>5. taken' = taken /\ uplink' \in {0, uplink}
    BY <1>1
  <1>6. InputsInv'
    BY <1>2, <1>4, <1>5, InputsKeep
  <1> QED
    BY <1>2, <1>3, <1>4, <1>6 DEF ChatInv, PageMove

LEMMA ChatInitially == ChatInit => ChatInv
  <1> SUFFICES ASSUME ChatInit PROVE ChatInv
    OBVIOUS
  <1>1. MaxInputs \in Nat /\ LogLimit \in Nat /\ Limit \in Nat /\ 0 \in 0..MaxInputs
    BY LimitsAreNat, LimitIsPositive
  <1>2. PageInit
    BY DEF ChatInit
  <1>3. /\ panel = [busy |-> FALSE, error |-> FALSE, call |-> 0, result |-> NoResult,
                    log |-> <<>>]
        /\ panel.call = 0 /\ ~panel.busy /\ panel.log = <<>> /\ Len(panel.log) = 0
        /\ ticks = 0 /\ inputs = MaxInputs /\ feed = <<>> /\ dash = 0
        /\ asks = {} /\ answers = {}
    BY <1>2 DEF PageInit
  <1>4. /\ panel \in [busy : BOOLEAN, error : BOOLEAN, call : 0..MaxInputs,
                      result : Results, log : Seq(Results)]
        /\ last \in [ok : BOOLEAN, result : Results]
    BY <1>1, <1>2, <1>3, NoResultIsOne DEF PageInit
  <1>15. strict \in BOOLEAN /\ (kind # "react" => ~strict)
    BY <1>2 DEF PageInit
  <1>5. PageTypeOK
    <2>1. strict \in BOOLEAN
      BY <1>15
    <2>2. conn \in [Clients -> States]
      BY <1>2 DEF PageInit, States
    <2>3. /\ kind \in Kinds /\ serverUp \in BOOLEAN
          /\ page \in {"blank", "mounted", "gone"} /\ client \in 0..2
      BY <1>2 DEF PageInit
    <2>4. polls \subseteq Clients /\ hooks \in BOOLEAN
      BY <1>2 DEF PageInit
    <2>5. /\ feed \in Seq(1..MaxInputs)
          /\ inputs \in 0..MaxInputs /\ dash \in 0..MaxInputs
      BY <1>1, <1>3, EmptySeq
    <2> QED
      BY <1>1, <1>3, <1>4, <2>1, <2>2, <2>3, <2>4, <2>5 DEF PageTypeOK
  <1>6. PageBudget
    BY <1>1, <1>3 DEF PageBudget
  <1>7. MountInv
    <2>1. /\ page = "blank" /\ client = 0 /\ polls = {} /\ hooks = FALSE
          /\ conn = [c \in Clients |-> "none"]
      BY <1>2 DEF PageInit
    <2>2. 2 \in Clients
      BY DEF Clients
    <2> QED
      BY <1>15, <2>1, <2>2 DEF MountInv
  <1>8. DashInv
    <2>1. DOMAIN feed = {}
      BY <1>3
    <2> QED
      BY <1>3, <2>1 DEF DashInv, Rising
  <1>9. CallInv
    BY <1>1, <1>3, <1>4, <1>5 DEF CallInv, CallTypes, PanelInv, PageTypeOK
  <1>10. Upto(<<>>) = 0
    BY DEF Upto
  <1>11. ServerInv
    <2>1. <<>> \in Texts /\ Len(<<>>) <= Limit /\ <<>> \in Seq(ShortHandlers)
      BY <1>1, EmptySeq DEF Texts
    <2> QED
      BY <1>1, <2>1, HistoryStart DEF ChatInit, ServerInv
  <1>12. WireInv
    <2>1. Shipped = 0
      BY DEF ChatInit, Shipped
    <2>2. Leads(<<>>, <<>>, 0)
      BY <1>10, HistoryStart, LeadsNowhere
    <2> QED
      BY <2>1, <2>2 DEF ChatInit, WireInv, Texts
  <1>13. ListInv
    <2>1. <<>> \in Texts /\ ToSet(<<>>) = {} /\ IsInjective(<<>>)
      BY DEF Texts, ToSet, IsInjective
    <2>2. Empty \in [dom : Texts, seen : SUBSET Messages] /\ DrawnOnce(Empty)
          /\ Empty.dom = <<>>
      BY <2>1 DEF Empty, DrawnOnce
    <2> QED
      BY <2>2 DEF ChatInit, ListInv
  <1>14. InputsInv
    BY <1>1, <1>3 DEF ChatInit, InputsInv
  <1> QED
    BY <1>5, <1>6, <1>7, <1>8, <1>9, <1>11, <1>12, <1>13, <1>14 DEF ChatInv, PageCore

LEMMA ChatKeeps == ChatInv /\ [ChatNext]_demoVars => ChatInv'
  <1> SUFFICES ASSUME ChatInv, [ChatNext]_demoVars PROVE ChatInv'
    OBVIOUS
  <1>1. CASE Begin
    BY <1>1, BeginKeeps
  <1>2. CASE Follow
    BY <1>2, FollowMoves
  <1>3. CASE Leave
    BY <1>3, LeaveKeeps
  <1>4. CASE \E c \in Clients : Connection(c) \/ Lose(c)
    BY <1>4, ConnectionKeeps
  <1>5. CASE PanelCalls
    BY <1>5, PanelKeeps
  <1>6. CASE Dashboard
    BY <1>6, DashboardKeeps
  <1>7. CASE Send
    BY <1>7, SendKeeps
  <1>8. CASE Arrive
    BY <1>8, ArriveKeeps
  <1>9. CASE OtherSends
    BY <1>9, OtherSendsKeeps
  <1>10. CASE Receive
    BY <1>10, ReceiveKeeps
  <1>11. CASE \E i \in DOMAIN handling : Handle(i)
    BY <1>11, HandleKeeps
  <1>12. CASE UNCHANGED demoVars
    <2>1. UNCHANGED pageVars /\ UNCHANGED chatVars
      BY <1>12 DEF demoVars
    <2>2. PageMove /\ UNCHANGED hooks
      BY <2>1, PageRests
    <2> QED
      BY <2>1, <2>2, ChatIsStill
  <1> QED
    BY <1>1, <1>2, <1>3, <1>4, <1>5, <1>6, <1>7, <1>8, <1>9, <1>10, <1>11, <1>12
    DEF ChatNext

LEMMA ChatInvariance == ChatSpec => []ChatInv
  BY ChatInitially, ChatKeeps, PTL DEF ChatSpec

-----------------------------------------------------------------------------
(* DemoChat: the theorems. *)

LEMMA InvGivesTypes == ChatInv => ChatTypeOK
  <1> SUFFICES ASSUME ChatInv PROVE ChatTypeOK
    OBVIOUS
  <1>1. /\ MaxInputs \in Nat /\ taken \in Nat /\ taken <= MaxInputs
        /\ history \in Texts /\ Len(history) <= Limit
        /\ handling \in Seq(Handlers)
    BY ServerFacts DEF ChatInv
  <1>2. uplink \in 0..MaxInputs
    <2>1. panel.call \in Nat /\ ticks \in Nat /\ inputs \in Nat
      BY CoreNumbers DEF ChatInv
    <2> QED
      BY <1>1, <2>1 DEF ChatInv, InputsInv
  <1>3. wire \in Seq([type : {"patch"}, from : Texts, to : Texts]
                     \union [type : {"event"}, msg : Messages])
    BY DEF ChatInv, WireInv, ChatFrames, ChatPatches, ChatEvents
  <1> QED
    BY <1>1, <1>2, <1>3
    DEF ChatInv, PageCore, ServerInv, WireInv, ListInv, ChatTypeOK, Handlers

\* The demo page and its chat keep their types, for every list of demos, limits
\* and number of inputs: in particular the server keeps at most Limit messages
\* (index.mjs:37) and the panel LogLimit results (app.mjs:201).
THEOREM ChatTypeCorrect == ChatSpec => []ChatTypeOK
  BY ChatInvariance, InvGivesTypes, PTL

LEMMA HistoryIsShown == ChatInv => PanelShowsHistory
  <1> SUFFICES ASSUME ChatInv PROVE PanelShowsHistory
    OBVIOUS
  <1>1. kind \in {"vanilla", "react", "vue"}
    BY CoreNumbers DEF ChatInv
  <1>2. Shown = list.dom
    BY <1>1 DEF Shown, VanillaChat, ReactChat, VueChat, ChatView
  <1>3. kind = "vanilla" => IsInjective(Shown)
    BY <1>2 DEF ChatInv, ListInv, DrawnOnce
  <1>4. ASSUME serial, whole, hooks
        PROVE  /\ \E n \in 0..taken : Shown = HistoryAt(n)
               /\ handling = <<>> /\ wire = <<>> => Shown = history
    <2>1. Shown = mirror /\ Leads(wire, mirror, Shipped)
      BY <1>2, <1>4 DEF ChatInv, ListInv, WireInv
    <2>2. Shipped \in Nat /\ Shipped <= taken /\ taken \in Nat
      BY <1>4, ServerFacts DEF ChatInv
    <2>3. Upto(mirror) \in 0..Shipped /\ mirror = HistoryAt(Upto(mirror))
      BY <2>1 DEF Leads
    <2>4. Upto(mirror) \in 0..taken
      BY <2>2, <2>3
    <2>5. handling = <<>> /\ wire = <<>> => mirror = history
      <3> SUFFICES ASSUME handling = <<>>, wire = <<>> PROVE mirror = history
        OBVIOUS
      <3>1. Shipped = taken /\ DOMAIN wire = {}
        BY DEF Shipped
      <3>2. mirror = HistoryAt(taken)
        BY <2>1, <2>2, <3>1, LeadsHere
      <3> QED
        BY <3>2 DEF ChatInv, ServerInv
    <2> QED
      BY <2>1, <2>3, <2>4, <2>5
  <1> QED
    BY <1>3, <1>4 DEF PanelShowsHistory

LEMMA MetricsAreNewest == ChatInv => DashboardIsNewest
  <1> SUFFICES ASSUME ChatInv PROVE DashboardIsNewest
    OBVIOUS
  <1>1. kind \in {"vanilla", "react", "vue"}
    BY CoreNumbers DEF ChatInv
  <1>2. MetricsView = Cards
    BY <1>1 DEF MetricsView, VanillaDashboard, ReactDashboard, VueDashboard
  <1>3. ToSet(Cards) \subseteq {dash}
    BY DEF Cards, ToSet
  <1>4. \A i \in DOMAIN feed : dash < feed[i]
    BY DEF ChatInv, PageCore, DashInv, Rising
  <1> QED
    BY <1>2, <1>3, <1>4 DEF DashboardIsNewest

\* What the panels of the demo page show is true, in each demo.  Unless handlers
\* overlapped or a patch was lost, the chat shows the history as it was at some
\* moment, and as it is once nothing is under way; what is on its way to the
\* dashboard is newer than what it shows; and the RPC panel shows how its last
\* call ended (app.mjs:123, useDatasole.tsx:62, RpcDemo.tsx:28-47).
THEOREM PanelsNeverLie == ChatSpec => []PanelsAreTrue
  <1>1. ChatInv => PanelsAreTrue
    BY HistoryIsShown, MetricsAreNewest, PanelIsTrue
    DEF ChatInv, PageCore, PanelsAreTrue
  <1> QED
    BY <1>1, ChatInvariance, PTL

\* A page that has gone keeps no interval, no handler and no connection, but
\* that of the first client StrictMode made (useDatasole.tsx:32,
\* useDatasole.ts:50).
THEOREM GoneLeavesNothing == ChatSpec => []GoneIsSilent
  <1>1. ChatInv => GoneIsSilent
    <2> SUFFICES ASSUME ChatInv, page = "gone"
                 PROVE  /\ polls = {} /\ ~hooks
                        /\ \A c \in Clients : ~(strict /\ c = 1)
                                              => conn[c] \in {"none", "closed"}
      BY DEF GoneIsSilent
    <2>1. /\ polls = {} /\ ~hooks /\ conn[Current] = "closed"
          /\ ~strict => conn[2] = "none"
      BY DEF ChatInv, PageCore, MountInv
    <2>2. ASSUME NEW c \in Clients, ~(strict /\ c = 1)
          PROVE  conn[c] \in {"none", "closed"}
      BY <2>1, <2>2 DEF Clients, Current
    <2> QED
      BY <2>1, <2>2
  <1> QED
    BY <1>1, ChatInvariance, PTL
=============================================================================
