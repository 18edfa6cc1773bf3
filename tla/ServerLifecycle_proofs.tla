----------------------- MODULE ServerLifecycle_proofs -----------------------
(***************************************************************************)
(* Proofs about ServerLifecycle, for any HTTP servers, browsers, calls and *)
(* keys, whatever assets are built, and any number of inputs.              *)
(***************************************************************************)
EXTENDS ServerLifecycle, SequenceTheorems, WellFoundedInduction, TLAPS

-----------------------------------------------------------------------------
(* The inductive invariant. *)

\* Builds are numbered as inputs are spent.
Bounded == build + inputs <= MaxInputs + 1

\* The application's listener is the last one of its HTTP server; before it are
\* those of attachments to that server that have not been told to stop, once
\* each.
Listening(h) ==
    LET s == listeners[h] IN
    /\ Len(s) >= 1 /\ s[Len(s)] = 0
    /\ \A i \in 1..Len(s) - 1 :
          /\ s[i] \in 1..Len(attached) /\ attached[s[i]] = h
          /\ s[i] \notin down
    /\ \A i, j \in 1..Len(s) - 1 : s[i] = s[j] => i = j

\* ServerTransport refers to the last attachment until it has closed, and close
\* has told that one to stop.
HttpInv ==
    /\ \A h \in Https : Listening(h)
    /\ held \in {0, Len(attached)}
    /\ closing = "open" =>
          /\ held = Len(attached)
          /\ \A h \in ToSet(attached) : Len(listeners[h]) >= 2
    /\ closing # "open" => attached = <<>> \/ Len(attached) \in down
    /\ closing \notin {"open", "transport"} => held = 0
    /\ closing # "open" /\ held = 0 /\ Len(attached) <= 1 => sockets = {}

\* The server answers a request before the application sees it, and silences
\* the response; the application that owes an answer has not answered.
Asked(q) ==
    /\ q.silent <=> q.by = "server"
    /\ q.owes => ~q.threw
    /\ q.owes /\ ~q.silent => q.by = Nobody
RequestInv == \A b \in Browsers : request[b] # NoRequest => Asked(request[b])

\* What is left when close has come to a step, if no handler is under way and
\* no attachment was forgotten.
AfterTransport == Steps \ {"open", "transport"}
AfterSessions == AfterTransport \ {"sessions", "rejected"}
AfterChannels == AfterSessions \ {"executor", "channels"}
AfterEvents == {"rpc", "limiter", "resolved"}
Left ==
    /\ closing \in AfterTransport => running = {} /\ "sessions" \notin intervals
    /\ closing \in AfterSessions => ~counted
    /\ closing = "channels" =>
          \A c \in timers \union subscribed : c[1] \in visited => c \in replaced
    /\ closing \in AfterChannels =>
          channels = {} /\ timers \union subscribed \subseteq replaced
    /\ closing \in AfterChannels \ {"crdt"} => "crdt" \notin heard
    /\ closing \in AfterEvents => "event" \notin heard
    /\ closing \in {"limiter", "resolved"} => ~methods
    /\ closing = "resolved" => "limiter" \notin intervals
StepsInv ==
    /\ unsaved => counted \/ forgotten
    /\ closing \notin AfterChannels =>
          timers \union subscribed \subseteq channels \union replaced
    /\ ~late /\ Len(attached) <= 1 => Left

IInv == TypeOK /\ Bounded /\ HttpInv /\ OneAnswer /\ RequestInv /\ StepsInv
-----------------------------------------------------------------------------
(* Sequences and numbers. *)

\* Where an element was before the one at i was removed.
Was(i, j) == IF j < i THEN j ELSE j + 1

LEMMA RemoveAtFacts ==
    ASSUME NEW S, NEW s \in Seq(S), NEW i \in 1..Len(s)
    PROVE  /\ RemoveAt(s, i) \in Seq(S)
           /\ Len(RemoveAt(s, i)) = Len(s) - 1
           /\ \A j \in 1..Len(s) - 1 :
                  Was(i, j) \in 1..Len(s) /\ RemoveAt(s, i)[j] = s[Was(i, j)]
           /\ \A k \in 1..Len(s) :
                  k # i => \E j \in 1..Len(s) - 1 : Was(i, j) = k
  <1> DEFINE n == Len(s)
             a == SubSeq(s, 1, i-1)
             b == SubSeq(s, i+1, n)
  <1>1. n \in Nat /\ i \in 1..n /\ \A j \in 1..n : s[j] \in S
    OBVIOUS
  <1>2. /\ a \in Seq(S) /\ Len(a) = i - 1
        /\ \A j \in 1..i-1 : a[j] = s[j]
    <2>1. 1 \in Int /\ i - 1 \in Int /\ \A j \in 1..i-1 : s[j] \in S
      BY <1>1
    <2>2. /\ a \in Seq(S) /\ Len(a) = IF 1 <= i - 1 THEN (i-1)-1+1 ELSE 0
          /\ \A j \in 1..(i-1)-1+1 : a[j] = s[1+j-1]
      BY <2>1, SubSeqProperties
    <2> HIDE DEF a
    <2> QED
      BY <1>1, <2>2
  <1>3. /\ b \in Seq(S) /\ Len(b) = n - i
        /\ \A j \in 1..n-i : b[j] = s[i+j]
    <2>1. i + 1 \in Int /\ n \in Int /\ \A j \in i+1..n : s[j] \in S
      BY <1>1
    <2>2. /\ b \in Seq(S) /\ Len(b) = IF i + 1 <= n THEN n-(i+1)+1 ELSE 0
          /\ \A j \in 1..n-(i+1)+1 : b[j] = s[(i+1)+j-1]
      BY <2>1, SubSeqProperties
    <2> HIDE DEF b
    <2> QED
      BY <1>1, <2>2
  <1>4. /\ a \o b \in Seq(S) /\ Len(a \o b) = n - 1
        /\ \A j \in 1..n-1 : (a \o b)[j] = IF j <= i-1 THEN a[j] ELSE b[j-(i-1)]
    <2> HIDE DEF a, b, n
    <2>1. /\ a \o b \in Seq(S) /\ Len(a \o b) = Len(a) + Len(b)
          /\ \A j \in 1..Len(a) + Len(b) :
                 (a \o b)[j] = IF j <= Len(a) THEN a[j] ELSE b[j - Len(a)]
      BY <1>2, <1>3, ConcatProperties
    <2>2. Len(a) = i - 1 /\ Len(a) + Len(b) = n - 1
      BY <1>1, <1>2, <1>3
    <2> QED
      BY <2>1, <2>2
  <1>5. RemoveAt(s, i) = a \o b
    BY DEF RemoveAt
  <1>6. ASSUME NEW j \in 1..n-1
        PROVE  Was(i, j) \in 1..n /\ RemoveAt(s, i)[j] = s[Was(i, j)]
    <2> HIDE DEF a, b, n
    <2> QED
      BY SMTT(30), <1>1, <1>2, <1>3, <1>4, <1>5 DEF Was
  <1>7. ASSUME NEW k \in 1..n, k # i
        PROVE  \E j \in 1..n-1 : Was(i, j) = k
    <2> DEFINE j == IF k < i THEN k ELSE k - 1
    <2>1. j \in 1..n-1 /\ Was(i, j) = k
      BY <1>1, <1>7 DEF Was
    <2> QED
      BY <2>1
  <1> QED
    BY <1>4, <1>5, <1>6, <1>7

LEMMA LargestExists ==
    ASSUME NEW n \in Nat, NEW S \in SUBSET (1..n), S # {}
    PROVE  Max(S) \in S /\ \A j \in S : j <= Max(S)
  <1> DEFINE R == OpToRel(<, Nat)
             T == {m \in Nat : n - m \in S}
  <1>1. PICK s \in S : TRUE
    OBVIOUS
  <1>2. n - s \in T
    BY <1>1
  <1>3. \E x \in T : \A y \in T : ~ (<<y, x>> \in R)
    <2> HIDE DEF T
    <2> QED
      BY <1>2, NatLessThanWellFounded, WFMin DEF T
  <1>4. PICK x \in T : \A y \in T : ~ (<<y, x>> \in R)
    BY <1>3
  <1>5. \A y \in T : ~ (y < x)
    BY <1>4 DEF OpToRel
  <1>6. \A j \in S : n - j \in T
    OBVIOUS
  <1>7. \A j \in S : j <= n - x
    <2> SUFFICES ASSUME NEW j \in S PROVE j <= n - x
      OBVIOUS
    <2>1. ~(n - j < x) /\ j \in 1..n /\ x \in Nat
      BY <1>5, <1>6
    <2> QED
      BY <2>1
  <1>8. n - x \in S /\ \A y \in S : n - x >= y
    BY <1>7
  <1>9. \E x0 \in S : \A y \in S : x0 >= y
    BY <1>8
  <1>10. Max(S) \in S /\ \A y \in S : Max(S) >= y
    BY <1>9 DEF Max
  <1> QED
    BY <1>10

LEMMA LeastExists ==
    ASSUME NEW S \in SUBSET Nat, S # {}
    PROVE  \E m \in S : \A k \in S : m <= k
  <1> DEFINE R == OpToRel(<, Nat)
  <1>1. PICK x \in S : TRUE
    OBVIOUS
  <1>2. PICK m \in S : \A y \in S : ~ (<<y, m>> \in R)
    <2> HIDE DEF R
    <2>1. IsWellFoundedOn(R, Nat)
      BY NatLessThanWellFounded DEF R
    <2> QED
      BY <1>1, <2>1, WFMin
  <1>3. \A k \in S : ~(k < m)
    BY <1>2 DEF OpToRel
  <1>4. \A k \in S : m <= k
    <2> HIDE DEF R
    <2> SUFFICES ASSUME NEW k \in S PROVE m <= k
      OBVIOUS
    <2>1. k \in Nat /\ m \in Nat /\ ~(k < m)
      BY <1>3
    <2> QED
      BY <2>1
  <1> QED
    BY <1>4

-----------------------------------------------------------------------------
(* What the listeners of an HTTP server do with a request. *)

\* A second static listener changes nothing: the response is silent.
LEMMA StaticTwice ==
    ASSUME NEW q \in Requests
    PROVE  StaticListener(StaticListener(q)) = StaticListener(q)
  <1>1. CASE ~IsAsset(q)
    <2>1. CASE ~Unparsable(q)
      BY <1>1, <2>1 DEF StaticListener
    <2>2. CASE Unparsable(q)
      <3> DEFINE r == [q EXCEPT !.threw = TRUE]
      <3>1. StaticListener(q) = r
        BY <1>1, <2>2 DEF StaticListener
      <3>2. /\ r \in Requests /\ r.method = q.method /\ r.path = q.path
            /\ r.threw = TRUE
        BY DEF Requests
      <3>3. [r EXCEPT !.threw = TRUE] = r
        BY <3>2 DEF Requests
      <3>4. ~IsAsset(r) /\ Unparsable(r)
        BY <1>1, <2>2, <3>2 DEF IsAsset, Unparsable
      <3> HIDE DEF r
      <3>5. StaticListener(r) = r
        BY <3>3, <3>4 DEF StaticListener
      <3> QED
        BY <3>1, <3>5
    <2> QED
      BY <2>1, <2>2
  <1>2. CASE IsAsset(q)
    <2> DEFINE r == StaticListener(q)
    <2>1. r = Silenced(Answer(q, SendAsset(q)))
      BY <1>2 DEF StaticListener
    <2>2. r \in Requests /\ r.silent /\ r.method = q.method /\ r.path = q.path
      BY <2>1 DEF Requests, Silenced, Answer, SendAsset
    <2>3. Silenced(r) = r
      BY <2>2 DEF Requests, Silenced
    <2>4. IsAsset(r)
      BY <1>2, <2>2 DEF IsAsset
    <2> HIDE DEF r
    <2>5. StaticListener(r) = Silenced(Answer(r, SendAsset(r)))
      BY <2>4 DEF StaticListener
    <2>6. Answer(r, SendAsset(r)) = r
      BY <2>2 DEF Answer
    <2>7. StaticListener(r) = r
      BY <2>3, <2>5, <2>6
    <2> QED
      BY <2>7 DEF r
  <1> QED
    BY <1>1, <1>2

\* The application comes last; it sees the request as the first static listener
\* has left it, unless that one has thrown.
Served(h, q) == IF Len(listeners[h]) > 1 THEN StaticListener(q) ELSE q
Heard(r, how) == IF r.threw THEN r ELSE AppListener(r, how)

LEMMA EmittedIs ==
    ASSUME NEW h, Listening(h), Len(listeners[h]) \in Nat,
           NEW q \in Requests, ~q.threw, NEW how
    PROVE  Emitted(h, q, how) = Heard(Served(h, q), how)
  <1> DEFINE n == Len(listeners[h])
             s == StaticListener(q)
             last == Heard(Served(h, q), how)
             g == [i \in 0..n |-> IF i = 0 THEN q ELSE IF i < n THEN s ELSE last]
             IsRun(f) == f = [i \in 0..n |-> IF i = 0 THEN q
                     ELSE IF f[i-1].threw THEN f[i-1]
                     ELSE IF listeners[h][i] = 0 THEN AppListener(f[i-1], how)
                     ELSE StaticListener(f[i-1])]
             run == CHOOSE f : IsRun(f)
  <1>1. n \in Nat /\ n >= 1 /\ listeners[h][n] = 0
    BY DEF Listening
  <1>2. \A i \in 1..n-1 : listeners[h][i] # 0
    <2> SUFFICES ASSUME NEW i \in 1..n-1 PROVE listeners[h][i] # 0
      OBVIOUS
    <2>1. listeners[h][i] \in 1..Len(attached)
      BY DEF Listening
    <2> QED
      BY <2>1
  <1>3. Emitted(h, q, how) = run[n]
    BY DEF Emitted
  <1>4. StaticListener(s) = s
    BY StaticTwice
  <1>5. last = Heard(IF n - 1 = 0 THEN q ELSE s, how)
    <2>1. Served(h, q) = IF n > 1 THEN s ELSE q
      BY DEF Served
    <2> HIDE DEF n, s
    <2>2. CASE n = 1
      BY <2>1, <2>2
    <2>3. CASE n # 1
      <3>1. n > 1 /\ n - 1 # 0
        BY <1>1, <2>3
      <3> QED
        BY <2>1, <3>1
    <2> QED
      BY <2>2, <2>3
  <1>6. IsRun(g)
    <2>1. ASSUME NEW i \in 0..n
          PROVE  g[i] = IF i = 0 THEN q
                        ELSE IF g[i-1].threw THEN g[i-1]
                        ELSE IF listeners[h][i] = 0 THEN AppListener(g[i-1], how)
                        ELSE StaticListener(g[i-1])
      <3>1. CASE i = 0
        BY <1>1, <3>1
      <3>2. CASE i # 0 /\ i < n
        <4>1. i \in 1..n-1 /\ i - 1 \in 0..n /\ i - 1 < n
          BY <1>1, <3>2
        <4>2. g[i] = s /\ g[i-1] = IF i - 1 = 0 THEN q ELSE s
          BY <3>2, <4>1
        <4>3. listeners[h][i] # 0
          BY <1>2, <4>1
        <4>4. CASE i - 1 = 0
          <5>1. g[i-1] = q
            BY <4>2, <4>4
          <5> HIDE DEF g
          <5> QED
            BY <3>2, <4>2, <4>3, <5>1
        <4>5. CASE i - 1 # 0
          <5>1. g[i-1] = s
            BY <4>2, <4>5
          <5> HIDE DEF g, s
          <5> QED
            BY <1>4, <3>2, <4>2, <4>3, <5>1
        <4> QED
          BY <4>4, <4>5
      <3>3. CASE i = n
        <4>1. n # 0 /\ n \in 0..n /\ n - 1 \in 0..n /\ n - 1 < n
          BY <1>1
        <4>2. g[n] = last /\ g[n-1] = IF n - 1 = 0 THEN q ELSE s
          BY <4>1
        <4> HIDE DEF g, s, last
        <4>3. last = Heard(g[n-1], how)
          BY <1>5, <4>2
        <4> QED
          BY <1>1, <3>3, <4>1, <4>2, <4>3 DEF Heard
      <3> QED
        BY <1>1, <3>1, <3>2, <3>3
    <2> QED
      BY <2>1
  <1>7. IsRun(run)
    <2> HIDE DEF IsRun
    <2> QED
      BY <1>6
  <1>8. \A i \in 0..n : run[i] = IF i = 0 THEN q
                     ELSE IF run[i-1].threw THEN run[i-1]
                     ELSE IF listeners[h][i] = 0 THEN AppListener(run[i-1], how)
                     ELSE StaticListener(run[i-1])
    <2> HIDE DEF run
    <2> QED
      BY <1>1, <1>7
  <1>9. \A i \in 0..n : g[i] = IF i = 0 THEN q
                     ELSE IF g[i-1].threw THEN g[i-1]
                     ELSE IF listeners[h][i] = 0 THEN AppListener(g[i-1], how)
                     ELSE StaticListener(g[i-1])
    <2> HIDE DEF g
    <2> QED
      BY <1>1, <1>6
  <1>10. g[n] = last
    BY <1>1
  <1> HIDE DEF run, g, n, last
  <1> DEFINE Apart == {i \in 0..n : run[i] # g[i]}
  <1>11. Apart = {}
    <2> SUFFICES ASSUME Apart # {} PROVE FALSE
      OBVIOUS
    <2>1. PICK k \in Apart : \A j \in Apart : k <= j
      <3>1. Apart \in SUBSET Nat
        BY <1>1
      <3> HIDE DEF Apart
      <3> QED
        BY <3>1, LeastExists
    <2>2. k \in 0..n
      BY <2>1
    <2>3. k # 0
      BY <1>1, <1>8, <1>9, <2>1
    <2>4. k - 1 \in 0..n /\ ~(k <= k - 1)
      BY <1>1, <2>2, <2>3
    <2>5. run[k-1] = g[k-1]
      BY <2>1, <2>4
    <2> QED
      BY <1>8, <1>9, <2>1, <2>2, <2>3, <2>5
  <1>12. n \in 0..n
    BY <1>1
  <1> QED
    BY <1>3, <1>10, <1>11, <1>12 DEF last

\* What a request that nobody has answered is like behind all listeners.
Fresh(q) == /\ q \in Requests /\ q.by = Nobody /\ q.status = "none"
            /\ ~q.silent /\ ~q.owes /\ ~q.threw /\ ~q.erred
Same(q, r) == r.path = q.path /\ r.method = q.method /\ r.tag = q.tag /\ r.due = q.due

LEMMA StaticFacts ==
    ASSUME TypeOK, NEW q, Fresh(q), NEW r, r = StaticListener(q)
    PROVE  /\ r \in Requests /\ Same(q, r) /\ ~r.owes /\ ~r.erred
           /\ r.threw <=> Unparsable(q) /\ ~IsAsset(q)
           /\ IsAsset(q) => r.by = "server" /\ r.silent /\ (r.status = "304" => q.tag = build)
           /\ ~IsAsset(q) => r.by = Nobody /\ ~r.silent /\ r.status = "none"
           /\ ~IsAsset(q) /\ ~Unparsable(q) => r = q
  <1>1. CASE IsAsset(q)
    <2>1. Answer(q, SendAsset(q)) = SendAsset(q)
      BY DEF Fresh, Answer
    <2>2. r = Silenced(SendAsset(q))
      BY <1>1, <2>1 DEF StaticListener
    <2>3. r = [q EXCEPT !.by = "server",
                        !.status = IF q.tag = build THEN "304"
                                   ELSE IF q.method = "HEAD" THEN "200 empty" ELSE "200",
                        !.silent = TRUE]
      BY <2>2 DEF Fresh, Requests, Silenced, SendAsset
    <2> QED
      BY <1>1, <2>3 DEF Fresh, Requests, Same
  <1>2. CASE ~IsAsset(q) /\ Unparsable(q)
    <2>1. r = [q EXCEPT !.threw = TRUE]
      BY <1>2 DEF StaticListener
    <2> QED
      BY <1>2, <2>1 DEF Fresh, Requests, Same
  <1>3. CASE ~IsAsset(q) /\ ~Unparsable(q)
    BY <1>3 DEF StaticListener, Fresh, Same
  <1> QED
    BY <1>1, <1>2, <1>3

LEMMA EmittedFacts ==
    ASSUME TypeOK, NEW q, Fresh(q), NEW how \in {"end", "write", "later"}, NEW h,
           NEW r, r = Heard(Served(h, q), how)
    PROVE  /\ r \in Requests /\ Same(q, r) /\ Asked(r)
           /\ r.threw => Unparsable(q) /\ Len(listeners[h]) > 1
           /\ r.erred => r.by = "server"
           /\ r.by # Nobody \/ r.owes \/ r.threw
           /\ r.by = "server" <=> IsAsset(q) /\ Len(listeners[h]) > 1
           /\ r.by = "app" => ~r.silent
           /\ r.status = "304" => r.by = "server" /\ q.tag = build
  <1> DEFINE s == Served(h, q)
             C == IsAsset(q) /\ Len(listeners[h]) > 1
  <1>1. /\ s \in Requests /\ Same(q, s) /\ ~s.owes /\ ~s.erred
        /\ s.threw => Unparsable(q) /\ Len(listeners[h]) > 1 /\ ~C
        /\ C => s.by = "server" /\ s.silent /\ (s.status = "304" => q.tag = build)
        /\ ~C => s.by = Nobody /\ ~s.silent /\ s.status = "none"
    <2>1. CASE Len(listeners[h]) > 1
      BY <2>1, StaticFacts DEF Served
    <2>2. CASE ~(Len(listeners[h]) > 1)
      BY <2>2 DEF Served, Fresh, Same
    <2> QED
      BY <2>1, <2>2
  <1>2. r = IF s.threw THEN s ELSE AppListener(s, how)
    BY DEF Heard
  <1> HIDE DEF s, C
  <1>3. CASE s.threw
    <2>1. r = s /\ ~C
      BY <1>1, <1>2, <1>3
    <2> QED
      BY <1>1, <1>3, <2>1 DEF Asked, Nobody, C
  <1>4. CASE ~s.threw /\ how = "later"
    <2>1. r = [s EXCEPT !.owes = TRUE]
      BY <1>2, <1>4 DEF AppListener
    <2>2. /\ r \in Requests /\ Same(q, r) /\ r.owes /\ ~r.threw /\ ~r.erred
          /\ r.by = s.by /\ r.silent = s.silent /\ r.status = s.status
      BY <1>1, <1>4, <2>1 DEF Requests, Same
    <2>3. CASE C
      BY <1>1, <2>2, <2>3 DEF Asked, Nobody, C
    <2>4. CASE ~C
      BY <1>1, <2>2, <2>4 DEF Asked, Nobody, C
    <2> QED
      BY <2>3, <2>4
  <1>5. CASE ~s.threw /\ how # "later"
    <2>1. r = AppAnswers(s, how)
      BY <1>2, <1>5 DEF AppListener
    <2>2. CASE C /\ how = "write"
      <3>1. r = [s EXCEPT !.erred = TRUE]
        BY <1>1, <2>1, <2>2 DEF AppAnswers
      <3>2. /\ r \in Requests /\ Same(q, r) /\ ~r.owes /\ ~r.threw /\ r.erred
            /\ r.by = s.by /\ r.silent = s.silent /\ r.status = s.status
        BY <1>1, <1>5, <3>1 DEF Requests, Same
      <3> QED
        BY <1>1, <2>2, <3>2 DEF Asked, Nobody, C
    <2>3. CASE C /\ how # "write"
      <3>1. r = s
        BY <1>1, <2>1, <2>3 DEF AppAnswers, Answer
      <3> QED
        BY <1>1, <1>5, <2>3, <3>1 DEF Asked, Nobody, C
    <2>4. CASE ~C
      <3>1. r = [s EXCEPT !.by = "app"]
        BY <1>1, <2>1, <2>4 DEF AppAnswers, Answer
      <3>2. /\ r \in Requests /\ Same(q, r) /\ ~r.owes /\ ~r.threw /\ ~r.silent /\ ~r.erred
            /\ r.by = "app" /\ r.status = "none"
        BY <1>1, <1>5, <2>4, <3>1 DEF Requests, Same
      <3> QED
        BY <2>4, <3>2 DEF Asked, Nobody, C
    <2> QED
      BY <2>2, <2>3, <2>4
  <1> QED
    BY <1>3, <1>4, <1>5

-----------------------------------------------------------------------------
(* Types, and facts of a state. *)

LEMMA AskedFacts ==
    ASSUME TypeOK, NEW b \in Browsers, request[b] # NoRequest
    PROVE  request[b] \in Requests
  BY DEF TypeOK

\* The request of a browser is as it should be.
Right(b, q) ==
    /\ q.threw => Unparsable(q) /\ q.due # "app"
    /\ q.erred => q.by = "server"
    /\ q.by # Nobody \/ q.owes \/ q.threw
    /\ IsAsset(q) /\ q.due = "server" => q.by = "server"
    /\ q.by = "server" => IsAsset(q) /\ q.due # "app"
    /\ q.by = "app" => ~q.silent
    /\ q.status = "304" => copy[b][q.path] = build
    /\ Asked(q)
Proper(b) == request[b] # NoRequest => Right(b, request[b])

LEMMA AllProper == (\A b \in Browsers : Proper(b)) <=> OneAnswer /\ RequestInv
  BY DEF Proper, Right, OneAnswer, RequestInv

LEMMA ProperStays ==
    ASSUME NEW b, Proper(b), request'[b] = request[b], copy'[b] = copy[b],
           build' = build, bundle' = bundle
    PROVE  Proper(b)'
  BY DEF Proper, Right, IsAsset, Unparsable

LEMMA RequestsStay ==
    ASSUME OneAnswer, RequestInv, UNCHANGED <<request, copy, build, bundle>>
    PROVE  OneAnswer' /\ RequestInv'
  BY DEF OneAnswer, RequestInv, IsAsset, Unparsable

LEMMA ListeningStays ==
    ASSUME NEW g, Listening(g), UNCHANGED <<attached, listeners, down>>
    PROVE  Listening(g)'
  <1>1. attached' = attached /\ listeners' = listeners /\ down' = down
    OBVIOUS
  <1>2. Listening(g)
    OBVIOUS
  <1> QED
    BY Zenon, <1>1, <1>2 DEF Listening

LEMMA HttpStays ==
    ASSUME HttpInv, UNCHANGED <<attached, held, down, listeners>>, sockets' \subseteq sockets,
           \/ closing' = closing
           \/ /\ closing \notin {"open", "transport"}
              /\ closing' \notin {"open", "transport"}
    PROVE  HttpInv'
  <1>1. \A h \in Https : Listening(h)'
    BY ListeningStays DEF HttpInv
  <1> QED
    BY <1>1 DEF HttpInv

\* A process that starts.
LEMMA ConstructedFacts ==
    /\ Constructed.attached = <<>> /\ Len(Constructed.attached) = 0
    /\ Constructed.intervals = {"sessions", "limiter"}
    /\ Constructed.listeners = [h \in Https |-> <<0>>]
    /\ Constructed.flushes = [f \in {"interval", "close"} |-> "none"]
  BY EmptySeq DEF Constructed

\* The process as it starts, and what outlives the one before.
New ==
    /\ attached = <<>> /\ held = 0 /\ down = {}
    /\ listeners = [h \in Https |-> <<0>>]
    /\ upgrading = {} /\ sockets = {} /\ executor = {}
    /\ request = [b \in Browsers |-> NoRequest]
    /\ running = {} /\ intervals = {"sessions", "limiter"}
    /\ channels = {} /\ subscribed = {} /\ timers = {} /\ replaced = {}
    /\ visited = {} /\ heard = {}
    /\ methods = TRUE /\ unsaved = FALSE /\ counted = FALSE
    /\ flushes = [f \in {"interval", "close"} |-> "none"]
    /\ closing = "open" /\ late = FALSE /\ forgotten = FALSE

Environment ==
    /\ build \in 1..(MaxInputs + 1) /\ bundle \in Bundles
    /\ connected \in BOOLEAN /\ inputs \in 0..MaxInputs
    /\ build + inputs <= MaxInputs + 1
    /\ copy \in [Browsers -> [Assets -> 0..(MaxInputs + 1)]]

LEMMA NewInv == New /\ Environment => IInv
  <1> SUFFICES ASSUME New, Environment PROVE IInv
    OBVIOUS
  <1>1. /\ attached \in Seq(Https) /\ Len(attached) = 0 /\ DOMAIN attached = {}
        /\ ToSet(attached) = {}
    <2>1. attached = <<>>
      BY DEF New
    <2> QED
      BY <2>1, EmptySeq DEF ToSet
  <1>2. \A h \in Https : /\ listeners[h] = <<0>> /\ listeners[h] \in Seq(0..Len(attached))
                         /\ Len(listeners[h]) = 1 /\ listeners[h][1] = 0
    BY <1>1 DEF New
  <1>3. listeners \in [Https -> Seq(0..Len(attached))]
    BY <1>2 DEF New
  <1>4. TypeOK
    <2>1. flushes \in [{"interval", "close"} -> {"none", "clean", "stale"}]
      BY DEF New
    <2>2. request \in [Browsers -> Requests \union {NoRequest}]
      BY DEF New
    <2>3. held \in 0..Len(attached) /\ down \subseteq DOMAIN attached
      BY <1>1 DEF New
    <2> QED
      BY <1>1, <1>3, <2>1, <2>2, <2>3 DEF New, Environment, TypeOK, Steps
  <1>5. HttpInv
    <2>1. \A h \in Https : Listening(h)
      BY <1>2 DEF Listening
    <2> QED
      BY <1>1, <2>1 DEF New, HttpInv
  <1>6. OneAnswer /\ RequestInv
    BY DEF New, OneAnswer, RequestInv
  <1>7. StepsInv
    BY DEF New, StepsInv, Left, AfterTransport, AfterSessions, AfterChannels,
                        AfterEvents, Steps
  <1>8. Bounded
    BY DEF Environment, Bounded
  <1> QED
    BY <1>4, <1>5, <1>6, <1>7, <1>8 DEF IInv

LEMMA NewInvNext == (New /\ Environment => IInv)'
  BY NewInv, PTL

LEMMA InitInv == Init => IInv
  <1> SUFFICES ASSUME Init PROVE IInv
    OBVIOUS
  <1>1. New
    BY ConstructedFacts DEF Init, New
  <1>2. Environment
    BY InputsAreNat DEF Init, Environment
  <1> QED
    BY <1>1, <1>2, NewInv

LEMMA RestartedInv ==
    ASSUME TypeOK, NEW v \in 1..(MaxInputs + 1), Restarted(v),
           inputs' \in 0..MaxInputs, v + inputs' <= MaxInputs + 1
    PROVE  IInv'
  <1>1. New'
    BY ConstructedFacts DEF Restarted, New
  <1>2. Environment'
    BY DEF Restarted, TypeOK, Environment
  <1> QED
    BY <1>1, <1>2, NewInvNext

\* An input is spent, or none.
LEMMA SpendFacts ==
    ASSUME TypeOK, Bounded, Spend \/ UNCHANGED inputs
    PROVE  /\ inputs' \in 0..MaxInputs
           /\ build + inputs' <= MaxInputs + 1
           /\ Spend => build + 1 \in 1..(MaxInputs + 1)
                       /\ (build + 1) + inputs' <= MaxInputs + 1
  BY InputsAreNat DEF TypeOK, Bounded, Spend

LEMMA StepsStay ==
    ASSUME StepsInv, UNCHANGED <<attached, running, intervals, stateVars, heard, methods,
                                 unsaved, counted, forgotten, closing, late>>
    PROVE  StepsInv'
  BY DEF StepsInv, Left, stateVars
-----------------------------------------------------------------------------
(* HTTP. *)

LEMMA DeployStep == IInv /\ Deploy => IInv'
  <1> SUFFICES ASSUME IInv, Deploy PROVE IInv'
    OBVIOUS
  <1>1. TypeOK /\ Bounded /\ Spend /\ Restarted(build + 1)
    BY DEF IInv, Deploy
  <1> QED
    BY <1>1, SpendFacts, RestartedInv

LEMMA ConnectStep == IInv /\ Connect => IInv'
  <1> SUFFICES ASSUME IInv, Connect PROVE IInv'
    OBVIOUS
  <1>1. TypeOK'
    BY DEF IInv, Connect, TypeOK, httpVars, browserVars, stateVars, sessionVars
  <1>2. Bounded'
    BY DEF IInv, Connect, Bounded
  <1>3. HttpInv'
    BY HttpStays DEF IInv, Connect, httpVars
  <1>4. OneAnswer' /\ RequestInv'
    BY RequestsStay DEF IInv, Connect, browserVars
  <1>5. StepsInv'
    BY StepsStay DEF IInv, Connect, httpVars, stateVars, sessionVars
  <1> QED
    BY <1>1, <1>2, <1>3, <1>4, <1>5 DEF IInv

LEMMA AttachStep ==
    ASSUME IInv, NEW h \in Https, Attach(h)
    PROVE  IInv'
  <1> DEFINE n == Len(attached)
  <1>0. /\ TypeOK /\ Bounded /\ HttpInv /\ OneAnswer /\ RequestInv /\ StepsInv
        /\ closing = "open" /\ Spend
        /\ attached' = Append(attached, h) /\ held' = Len(attached')
        /\ listeners' = [listeners EXCEPT ![h] = <<held'>> \o @]
        /\ UNCHANGED <<build, bundle, connected, down, upgrading, sockets, executor, request,
                       copy,
                       running, intervals, channels, subscribed, timers, replaced, visited,
                       heard, methods,
                       unsaved, counted, flushes, forgotten, closing, late>>
    BY DEF IInv, Attach, processVars, browserVars, stateVars, sessionVars
  <1>1. /\ attached \in Seq(Https) /\ n \in Nat
        /\ attached' \in Seq(Https) /\ Len(attached') = n + 1 /\ held' = n + 1
        /\ \A i \in 1..n : attached'[i] = attached[i]
        /\ attached'[n+1] = h
        /\ DOMAIN attached = 1..n /\ DOMAIN attached' = 1..n+1
    BY <1>0 DEF TypeOK
  <1>2. \A g \in Https : listeners[g] \in Seq(0..n) /\ Len(listeners[g]) \in Nat
                         /\ \A i \in 1..Len(listeners[g]) : listeners[g][i] \in 0..n
    BY <1>0 DEF TypeOK
  <1>3. /\ listeners'[h] \in Seq(0..n+1)
        /\ Len(listeners'[h]) = Len(listeners[h]) + 1
        /\ listeners'[h][1] = n + 1
        /\ \A i \in 2..Len(listeners[h]) + 1 : listeners'[h][i] = listeners[h][i-1]
    <2> DEFINE x == <<n + 1>>
               y == listeners[h]
    <2>1. listeners'[h] = x \o y
      BY <1>0, <1>1 DEF TypeOK
    <2>2. x \in Seq(0..n+1) /\ Len(x) = 1 /\ x[1] = n + 1
      BY <1>1
    <2>3. y \in Seq(0..n+1) /\ Len(y) \in Nat
      <3>1. y \in Seq(0..n) /\ Len(y) \in Nat
        BY <1>2
      <3>2. 0..n \subseteq 0..n+1
        BY <1>1
      <3> HIDE DEF y
      <3> QED
        BY <3>1, <3>2, SeqDef
    <2> HIDE DEF x, y
    <2>4. /\ x \o y \in Seq(0..n+1) /\ Len(x \o y) = Len(x) + Len(y)
          /\ \A i \in 1..Len(x) + Len(y) :
                 (x \o y)[i] = IF i <= Len(x) THEN x[i] ELSE y[i - Len(x)]
      BY <2>2, <2>3, ConcatProperties
    <2>5. /\ (x \o y)[1] = n + 1 /\ Len(x \o y) = Len(y) + 1
          /\ \A i \in 2..Len(y) + 1 : (x \o y)[i] = y[i-1]
      BY <2>2, <2>3, <2>4
    <2> QED
      BY <2>1, <2>4, <2>5 DEF y
  <1>4. \A g \in Https : g # h => listeners'[g] = listeners[g]
    BY <1>0 DEF TypeOK
  <1>5. listeners' \in [Https -> Seq(0..n+1)]
    <2>1. \A g \in Https : listeners'[g] \in Seq(0..n+1)
      <3> SUFFICES ASSUME NEW g \in Https, g # h PROVE listeners'[g] \in Seq(0..n+1)
        BY <1>3
      <3>1. listeners'[g] \in Seq(0..n)
        BY <1>2, <1>4
      <3>2. 0..n \subseteq 0..n+1
        BY <1>1
      <3> QED
        BY <3>1, <3>2, SeqDef
    <2> QED
      BY <1>0, <2>1 DEF TypeOK
  <1>6. \A g \in Https : Listening(g)'
    <2>0. down \subseteq 1..n
      BY <1>0, <1>1 DEF TypeOK
    <2>1. ASSUME NEW g \in Https, g # h PROVE Listening(g)'
      <3>1. Listening(g) /\ listeners'[g] = listeners[g] /\ down' = down
        BY <1>0, <1>4, <2>1 DEF HttpInv
      <3>2. /\ n \in Nat /\ Len(attached') = n + 1
            /\ \A i \in 1..n : i \in 1..n+1 /\ attached'[i] = attached[i]
        BY <1>1
      <3>3. /\ Len(listeners[g]) >= 1 /\ listeners[g][Len(listeners[g])] = 0
            /\ \A i \in 1..Len(listeners[g]) - 1 :
                   /\ listeners[g][i] \in 1..n /\ attached[listeners[g][i]] = g
                   /\ listeners[g][i] \notin down
            /\ \A i, j \in 1..Len(listeners[g]) - 1 :
                   listeners[g][i] = listeners[g][j] => i = j
        BY <3>1 DEF Listening
      <3> HIDE DEF n
      <3>4. \A i \in 1..Len(listeners'[g]) - 1 :
               /\ listeners'[g][i] \in 1..Len(attached') /\ attached'[listeners'[g][i]] = g
               /\ listeners'[g][i] \notin down'
        BY <3>1, <3>2, <3>3
      <3> QED
        BY <3>1, <3>3, <3>4 DEF Listening
    <2>2. Listening(h)'
      <3> DEFINE s == listeners[h]
                 t == listeners'[h]
                 k == Len(s)
      <3>1. /\ k \in Nat /\ k >= 1 /\ s[k] = 0
            /\ \A i \in 1..k-1 : s[i] \in 1..n /\ attached[s[i]] = h /\ s[i] \notin down
            /\ \A i, j \in 1..k-1 : s[i] = s[j] => i = j
        BY <1>0, <1>2 DEF HttpInv, Listening
      <3>2. Len(t) = k + 1 /\ t[1] = n + 1 /\ \A i \in 2..k+1 : t[i] = s[i-1]
        BY <1>3
      <3>3. Len(attached') = n + 1 /\ down' = down
        BY <1>0, <1>1
      <3> HIDE DEF s, t, n, k
      <3>4. Len(t) >= 1 /\ t[Len(t)] = 0
        BY <3>1, <3>2
      <3>5. \A i \in 1..Len(t)-1 : i = 1 \/ (i \in 2..k+1 /\ i-1 \in 1..k-1)
        BY <3>1, <3>2
      <3>6. ASSUME NEW i \in 1..Len(t)-1
            PROVE  t[i] \in 1..n+1 /\ attached'[t[i]] = h /\ t[i] \notin down
        <4>1. CASE i = 1
          BY <1>1, <2>0, <3>2, <4>1
        <4>2. CASE i # 1
          <5>1. i \in 2..k+1 /\ i - 1 \in 1..k-1
            BY <3>5, <4>2
          <5>2. t[i] = s[i-1] /\ s[i-1] \in 1..n
            BY <3>1, <3>2, <5>1
          <5> QED
            BY <1>1, <3>1, <5>1, <5>2
        <4> QED
          BY <4>1, <4>2
      <3>7. ASSUME NEW i \in 1..Len(t)-1, NEW j \in 1..Len(t)-1, t[i] = t[j]
            PROVE  i = j
        <4>1. \A m \in 1..Len(t)-1 : m # 1 => /\ m - 1 \in 1..k-1 /\ t[m] = s[m-1]
                                              /\ t[m] # n + 1
          BY <1>1, <3>1, <3>2, <3>5
        <4> QED
          BY <3>1, <3>2, <3>7, <4>1
      <3> QED
        BY <3>3, <3>4, <3>6, <3>7 DEF Listening, t
    <2> QED
      BY <2>1, <2>2
  <1>7. HttpInv'
    <2>1. \A g \in ToSet(attached') : Len(listeners'[g]) >= 2
      <3> SUFFICES ASSUME NEW i \in 1..n+1 PROVE Len(listeners'[attached'[i]]) >= 2
        BY <1>1 DEF ToSet
      <3>1. Len(listeners'[h]) >= 2
        BY <1>0, <1>2, <1>3 DEF HttpInv, Listening
      <3>2. CASE attached'[i] = h
        BY <3>1, <3>2
      <3>3. CASE attached'[i] # h
        <4>1. i \in 1..n /\ attached'[i] = attached[i]
          BY <1>1, <3>3
        <4>2. attached[i] \in ToSet(attached) /\ attached[i] \in Https
          BY <1>1, <4>1 DEF ToSet
        <4>3. Len(listeners[attached[i]]) >= 2
          BY <1>0, <4>2 DEF HttpInv
        <4> QED
          BY <1>4, <3>3, <4>1, <4>2, <4>3
      <3> QED
        BY <3>2, <3>3
    <2> QED
      BY <1>0, <1>1, <1>6, <2>1 DEF HttpInv
  <1>8. TypeOK'
    <2>1. inputs' \in 0..MaxInputs
      BY <1>0, SpendFacts
    <2>2. sockets' \subseteq (1..Len(attached')) \X Browsers
      <3>1. 1..n \subseteq 1..n+1
        BY <1>1
      <3> QED
        BY <1>0, <1>1, <3>1 DEF TypeOK
    <2>3. down' \subseteq DOMAIN attached' /\ held' \in 0..Len(attached')
      BY <1>0, <1>1 DEF TypeOK
    <2>4. upgrading' \subseteq (1..Len(attached')) \X Browsers
      <3>1. 1..n \subseteq 1..n+1
        BY <1>1
      <3> QED
        BY <1>0, <1>1, <3>1 DEF TypeOK
    <2>5. attached' \in Seq(Https)
      BY <1>1
    <2>6. /\ build' \in 1..(MaxInputs + 1) /\ bundle' \in Bundles /\ connected' \in BOOLEAN
          /\ executor' \subseteq sockets' /\ running' \subseteq Calls
          /\ request' \in [Browsers -> Requests \union {NoRequest}]
          /\ copy' \in [Browsers -> [Assets -> 0..(MaxInputs + 1)]]
      BY <1>0 DEF TypeOK
    <2>7. /\ intervals' \subseteq {"sessions", "limiter"}
          /\ channels' \subseteq Keys \X Nat /\ subscribed' \subseteq Keys \X Nat
          /\ timers' \subseteq Keys \X Nat /\ replaced' \subseteq Keys \X Nat
          /\ visited' \subseteq Keys /\ heard' \subseteq {"crdt", "event"}
      BY <1>0 DEF TypeOK
    <2>8. /\ methods' \in BOOLEAN /\ unsaved' \in BOOLEAN /\ counted' \in BOOLEAN
          /\ flushes' \in [{"interval", "close"} -> {"none", "clean", "stale"}]
          /\ closing' \in Steps /\ late' \in BOOLEAN /\ forgotten' \in BOOLEAN
      BY <1>0 DEF TypeOK
    <2>9. listeners' \in [Https -> Seq(0..Len(attached'))]
      BY <1>1, <1>5
    <2> HIDE DEF n
    <2> QED
      BY <2>1, <2>2, <2>3, <2>4, <2>5, <2>6, <2>7, <2>8, <2>9 DEF TypeOK
  <1>9. Bounded'
    BY <1>0, SpendFacts DEF Bounded
  <1>10. OneAnswer' /\ RequestInv'
    BY <1>0, RequestsStay
  <1>11. StepsInv'
    <2>1. closing = "open" /\ closing' = "open" /\ "open" \notin AfterTransport
          /\ "open" \notin AfterSessions /\ "open" \notin AfterChannels
          /\ "open" \notin AfterEvents
      BY <1>0 DEF AfterTransport, AfterSessions, AfterChannels, AfterEvents, Steps
    <2> QED
      BY <1>0, <2>1 DEF StepsInv, Left
  <1> QED
    BY <1>7, <1>8, <1>9, <1>10, <1>11 DEF IInv

\* What the listeners have made of a request is as it should be: the error of
\* one that throws ends the process or is caught.
LEMMA HandledStep ==
    ASSUME IInv, NEW b \in Browsers, NEW r \in Requests, Handled(b, r),
           Spend \/ UNCHANGED inputs, Right(b, r)
    PROVE  IInv'
  <1>0. TypeOK /\ Bounded /\ HttpInv /\ OneAnswer /\ RequestInv /\ StepsInv
    BY DEF IInv
  <1>1. inputs' \in 0..MaxInputs /\ build + inputs' <= MaxInputs + 1
    BY <1>0, SpendFacts
  <1>2. CASE Restarted(build)
    <2>1. build \in 1..(MaxInputs + 1)
      BY <1>0 DEF TypeOK
    <2> QED
      BY <1>0, <1>1, <1>2, <2>1, RestartedInv
  <1>3. CASE /\ request' = [request EXCEPT ![b] = r]
             /\ UNCHANGED <<processVars, httpVars, copy, running, intervals, stateVars,
                            heard, methods, sessionVars, closing, late>>
    <2>0. UNCHANGED <<build, bundle, connected, attached, held, down, listeners, upgrading,
                      sockets, executor, copy, running, intervals, channels, subscribed,
                      timers, replaced, visited, heard, methods, unsaved, counted, flushes,
                      forgotten, closing, late>>
      BY <1>3 DEF processVars, httpVars, stateVars, sessionVars
    <2>1. Proper(b)'
      <3>1. request'[b] = r
        BY <1>0, <1>3 DEF TypeOK
      <3>2. build' = build /\ copy' = copy /\ bundle' = bundle
        BY <2>0
      <3> QED
        BY <3>1, <3>2 DEF Proper, Right, IsAsset, Unparsable, Asked
    <2>2. ASSUME NEW c \in Browsers, c # b PROVE Proper(c)'
      <3>1. Proper(c) /\ request'[c] = request[c]
        BY <1>0, <1>3, <2>2, AllProper DEF TypeOK
      <3> QED
        BY <2>0, <3>1, ProperStays
    <2>3. OneAnswer' /\ RequestInv'
      <3>1. \A c \in Browsers : Proper(c)'
        BY <2>1, <2>2
      <3> QED
        BY <3>1 DEF Proper, Right, OneAnswer, RequestInv
    <2>4. TypeOK'
      <3>1. request' \in [Browsers -> Requests \union {NoRequest}]
        BY <1>0, <1>3 DEF TypeOK
      <3> QED
        BY <1>0, <1>1, <2>0, <3>1 DEF TypeOK
    <2>5. Bounded'
      BY <1>1, <2>0 DEF Bounded
    <2>6. HttpInv' /\ StepsInv'
      BY <1>0, <2>0, HttpStays, StepsStay DEF stateVars
    <2> QED
      BY <2>3, <2>4, <2>5, <2>6 DEF IInv
  <1> QED
    BY <1>2, <1>3 DEF Handled

LEMMA AskStep ==
    ASSUME IInv, NEW b \in Browsers, NEW h \in Https, NEW path \in Paths,
           NEW method \in {"GET", "HEAD", "POST"}, NEW how \in {"end", "write", "later"},
           Ask(b, h, path, method, how)
    PROVE  IInv'
  <1> DEFINE q == [path |-> path, method |-> method,
                   tag |-> IF path \in Assets THEN copy[b][path] ELSE 0,
                   by |-> Nobody, status |-> "none", silent |-> FALSE, owes |-> FALSE,
                   threw |-> FALSE, erred |-> FALSE, due |-> Due(h)]
             r == Heard(Served(h, q), how)
             s == listeners[h]
  <1>0. /\ TypeOK /\ Bounded /\ HttpInv /\ OneAnswer /\ RequestInv /\ StepsInv
        /\ Handled(b, Emitted(h, q, how)) /\ Spend
    BY DEF IInv, Ask
  <1>1. Fresh(q)
    <2>1. copy[b] \in [Assets -> 0..(MaxInputs + 1)]
      BY <1>0 DEF TypeOK
    <2>2. q.tag \in Nat
      BY <2>1, InputsAreNat
    <2>3. q.due \in {"server", "app", "either"}
      BY DEF Due
    <2> QED
      BY <2>2, <2>3 DEF Fresh, Requests, Nobody
  <1>2. Listening(h) /\ Len(s) \in Nat
    BY <1>0 DEF HttpInv, TypeOK
  <1>3. Emitted(h, q, how) = r
    <2> HIDE DEF q
    <2> QED
      BY <1>1, <1>2, EmittedIs DEF Fresh
  <1>4. /\ r \in Requests /\ Same(q, r) /\ Asked(r)
        /\ r.threw => Unparsable(q) /\ Len(s) > 1
        /\ r.erred => r.by = "server"
        /\ r.by # Nobody \/ r.owes \/ r.threw
        /\ r.by = "server" <=> IsAsset(q) /\ Len(s) > 1
        /\ r.by = "app" => ~r.silent
        /\ r.status = "304" => r.by = "server" /\ q.tag = build
    <2> HIDE DEF q
    <2> QED
      BY <1>0, <1>1, EmittedFacts
  <1>5. (IsAsset(r) <=> IsAsset(q)) /\ (Unparsable(r) <=> Unparsable(q))
    <2> HIDE DEF q, r
    <2> QED
      BY <1>4 DEF IsAsset, Unparsable, Same
  <1>6. r.due = Due(h)
    <2>1. q.due = Due(h)
      OBVIOUS
    <2> HIDE DEF q, r
    <2> QED
      BY <1>4, <2>1 DEF Same
  <1>7. r.due = "server" => Len(s) > 1
    <2> HIDE DEF r
    <2> SUFFICES ASSUME r.due = "server" PROVE Len(s) > 1
      OBVIOUS
    <2>1. h \in ToSet(attached) /\ closing = "open"
      BY <1>6 DEF Due
    <2> QED
      BY <1>0, <1>2, <2>1 DEF HttpInv
  <1>8. Len(s) > 1 => r.due # "app"
    <2> HIDE DEF r
    <2> SUFFICES ASSUME Len(s) > 1, r.due = "app" PROVE FALSE
      OBVIOUS
    <2>1. /\ s[1] \in 1..Len(attached) /\ attached[s[1]] = h /\ s[1] \notin down
      <3>1. 1 \in 1..Len(s)-1
        BY <1>2
      <3> QED
        BY <1>2, <3>1 DEF Listening
    <2>2. h \in ToSet(attached)
      <3>1. attached \in Seq(Https)
        BY <1>0 DEF TypeOK
      <3> QED
        BY <2>1, <3>1 DEF ToSet
    <2>3. closing # "open" /\ Len(attached) = 1
      BY <1>6, <2>2 DEF Due
    <2>4. 1 \in down
      <3>1. attached # <<>>
        BY SMTT(30), <2>3, EmptySeq
      <3> QED
        BY <1>0, <2>3, <3>1 DEF HttpInv
    <2> QED
      BY <2>1, <2>3, <2>4
  <1>9. r.status = "304" => copy[b][r.path] = build
    <2>1. q.path = path /\ q.tag = IF path \in Assets THEN copy[b][path] ELSE 0
      OBVIOUS
    <2> HIDE DEF q, r
    <2> SUFFICES ASSUME r.status = "304" PROVE copy[b][r.path] = build
      OBVIOUS
    <2>2. q.tag = build /\ IsAsset(q) /\ r.path = path
      BY <1>4, <2>1 DEF Same
    <2>3. path \in Assets
      BY <1>0, <2>1, <2>2, BundlesAreAssets DEF IsAsset, TypeOK
    <2> QED
      BY <2>1, <2>2, <2>3
  <1> HIDE DEF q, r, s
  <1>10. Right(b, r)
    <2>1. r.by = "server" => IsAsset(r) /\ r.due # "app"
      BY <1>4, <1>5, <1>8
    <2>2. IsAsset(r) /\ r.due = "server" => r.by = "server"
      BY <1>4, <1>5, <1>7
    <2>3. r.threw => Unparsable(r) /\ r.due # "app"
      BY <1>4, <1>5, <1>8
    <2> QED
      BY <1>4, <1>9, <2>1, <2>2, <2>3 DEF Right
  <1> QED
    BY <1>0, <1>3, <1>4, <1>10, HandledStep

LEMMA AppLaterStep ==
    ASSUME IInv, NEW b \in Browsers, NEW how \in {"end", "write"}, AppLater(b, how)
    PROVE  IInv'
  <1> DEFINE q == request[b]
             p == [q EXCEPT !.owes = FALSE]
             r == AppAnswers(p, how)
  <1>0. /\ TypeOK /\ OneAnswer /\ RequestInv
        /\ q # NoRequest /\ q.owes /\ Handled(b, r) /\ UNCHANGED inputs
    BY DEF IInv, AppLater
  <1>1. q \in Requests
    BY <1>0, AskedFacts
  <1>2. Right(b, q)
    BY <1>0, AllProper DEF Proper
  <1>3. /\ p \in Requests /\ p.path = q.path /\ p.method = q.method /\ p.due = q.due
        /\ p.status = q.status /\ p.silent = q.silent /\ ~p.owes /\ p.by = q.by
        /\ p.threw = q.threw /\ p.erred = q.erred
    BY <1>1 DEF Requests
  <1>4. ~q.threw /\ (~q.silent => q.by = Nobody) /\ (q.silent <=> q.by = "server")
    BY <1>0, <1>2 DEF Right, Asked
  <1> HIDE DEF p, q
  <1>5. /\ r \in Requests /\ r.path = q.path /\ r.method = q.method /\ r.due = q.due
        /\ r.status = q.status /\ r.silent = q.silent /\ ~r.owes /\ ~r.threw
        /\ q.silent => r.by = q.by
        /\ ~q.silent => r.by = "app" /\ r.erred = q.erred
    <2>1. CASE q.silent /\ how = "write"
      <3>1. r = [p EXCEPT !.erred = TRUE]
        BY <1>3, <2>1 DEF AppAnswers
      <3> QED
        BY <1>3, <1>4, <2>1, <3>1 DEF Requests
    <2>2. CASE q.silent /\ how # "write"
      <3>1. r = p
        BY <1>3, <2>2 DEF AppAnswers, Answer
      <3> QED
        BY <1>3, <1>4, <2>2, <3>1
    <2>3. CASE ~q.silent
      <3>1. r = [p EXCEPT !.by = "app"]
        BY <1>3, <1>4, <2>3 DEF AppAnswers, Answer
      <3> QED
        BY <1>3, <1>4, <2>3, <3>1 DEF Requests
    <2> QED
      BY <2>1, <2>2, <2>3
  <1> HIDE DEF r
  <1>6. Right(b, r)
    <2>1. (IsAsset(r) <=> IsAsset(q)) /\ (Unparsable(r) <=> Unparsable(q))
      BY <1>5 DEF IsAsset, Unparsable
    <2>2. CASE q.silent
      BY <1>2, <1>4, <1>5, <2>1, <2>2 DEF Right, Asked, Nobody
    <2>3. CASE ~q.silent
      BY <1>2, <1>4, <1>5, <2>1, <2>3 DEF Right, Asked, Nobody
    <2> QED
      BY <2>2, <2>3
  <1> QED
    BY <1>0, <1>5, <1>6, HandledStep

LEMMA ReceiveStep ==
    ASSUME IInv, NEW b \in Browsers, Receive(b)
    PROVE  IInv'
  <1> DEFINE q == request[b]
  <1>0. /\ TypeOK /\ Bounded /\ HttpInv /\ OneAnswer /\ RequestInv /\ StepsInv
        /\ q # NoRequest /\ request' = [request EXCEPT ![b] = NoRequest]
        /\ copy' = IF q.by = "server" /\ q.status = "200"
                   THEN [copy EXCEPT ![b][q.path] = build] ELSE copy
        /\ UNCHANGED <<build, bundle, connected, inputs, attached, held, down, listeners,
                       upgrading,
                       sockets, executor, running, intervals, channels, subscribed, timers,
                       replaced,
                       visited, heard, methods, unsaved, counted, flushes, forgotten,
                       closing, late>>
    BY DEF IInv, Receive, processVars, httpVars, stateVars, sessionVars
  <1>1. OneAnswer' /\ RequestInv'
    <2>1. ASSUME NEW c \in Browsers, c # b PROVE Proper(c)'
      <3>1. Proper(c) /\ request'[c] = request[c] /\ copy'[c] = copy[c]
        BY <1>0, <2>1, AllProper DEF TypeOK
      <3> QED
        BY <1>0, <3>1, ProperStays
    <2>2. request'[b] = NoRequest
      BY <1>0 DEF TypeOK
    <2>3. \A c \in Browsers : Proper(c)'
      BY <2>1, <2>2 DEF Proper
    <2> QED
      BY <2>3 DEF Proper, Right, OneAnswer, RequestInv
  <1>2. TypeOK'
    <2>1. request' \in [Browsers -> Requests \union {NoRequest}]
      BY <1>0 DEF TypeOK
    <2>2. build \in 0..(MaxInputs + 1)
      BY <1>0, InputsAreNat DEF TypeOK
    <2>3. copy' \in [Browsers -> [Assets -> 0..(MaxInputs + 1)]]
      BY <1>0, <2>2 DEF TypeOK
    <2> QED
      BY <1>0, <2>1, <2>3 DEF TypeOK
  <1>3. Bounded' /\ HttpInv' /\ StepsInv'
    BY <1>0, HttpStays, StepsStay DEF Bounded, stateVars
  <1> QED
    BY <1>1, <1>2, <1>3 DEF IInv

LEMMA BeginUpgradeStep ==
    ASSUME IInv, NEW b \in Browsers, NEW n \in DOMAIN attached, BeginUpgrade(b, n)
    PROVE  IInv'
  <1>0. /\ TypeOK /\ Bounded /\ HttpInv /\ OneAnswer /\ RequestInv /\ StepsInv
        /\ Spend /\ upgrading' = upgrading \union {<<n, b>>}
        /\ UNCHANGED <<build, bundle, connected, attached, held, down, listeners,
                       sockets, executor, request, copy, running, intervals, channels,
                       subscribed, timers, replaced, visited, heard, methods, unsaved,
                       counted, flushes, forgotten, closing, late>>
    BY DEF IInv, BeginUpgrade, processVars, browserVars, stateVars, sessionVars
  <1>1. TypeOK'
    <2>1. inputs' \in 0..MaxInputs
      BY <1>0, SpendFacts
    <2>2. <<n, b>> \in (1..Len(attached)) \X Browsers
      BY <1>0 DEF TypeOK
    <2> QED
      BY <1>0, <2>1, <2>2 DEF TypeOK
  <1>2. Bounded'
    BY <1>0, SpendFacts DEF Bounded
  <1>3. HttpInv' /\ OneAnswer' /\ RequestInv' /\ StepsInv'
    BY <1>0, HttpStays, RequestsStay, StepsStay DEF stateVars
  <1> QED
    BY <1>1, <1>2, <1>3 DEF IInv

\* An upgrade becomes a connection of an attachment that runs: none of them is
\* left when the last one has been told to stop.
LEMMA EndUpgradeStep ==
    ASSUME IInv, NEW u \in upgrading, EndUpgrade(u)
    PROVE  IInv'
  <1>0. /\ TypeOK /\ Bounded /\ HttpInv /\ OneAnswer /\ RequestInv /\ StepsInv
        /\ upgrading' = upgrading \ {u}
        /\ \/ /\ u[1] \notin down
              /\ sockets' = sockets \union {u} /\ executor' = executor \union {u}
           \/ UNCHANGED <<sockets, executor>>
        /\ UNCHANGED <<build, bundle, connected, inputs, attached, held, down, listeners,
                       request, copy, running, intervals, channels, subscribed, timers,
                       replaced, visited, heard, methods, unsaved, counted, flushes,
                       forgotten, closing, late>>
    BY DEF IInv, EndUpgrade, processVars, browserVars, stateVars, sessionVars
  <1>1. u[1] \in 1..Len(attached) /\ Len(attached) \in Nat
    BY <1>0 DEF TypeOK
  <1>2. HttpInv'
    <2>1. CASE UNCHANGED <<sockets, executor>>
      BY <1>0, <2>1, HttpStays
    <2>2. CASE u[1] \notin down
      <3>1. \A g \in Https : Listening(g)'
        BY <1>0 DEF HttpInv, Listening
      <3>2. closing # "open" => Len(attached) > 1
        <4> DEFINE m == Len(attached)
                   i == u[1]
        <4>1. closing # "open" => attached = <<>> \/ m \in down
          BY <1>0 DEF HttpInv
        <4>2. attached = <<>> => m = 0
          BY EmptySeq
        <4>3. i \in 1..m /\ m \in Nat /\ i \notin down
          BY <1>1, <2>2
        <4> HIDE DEF m, i
        <4>4. closing # "open" => m > 1
          BY <4>1, <4>2, <4>3
        <4> QED
          BY <4>4 DEF m
      <3> QED
        BY <1>0, <1>1, <3>1, <3>2 DEF HttpInv
    <2> QED
      BY <1>0, <2>1, <2>2
  <1>3. TypeOK'
    BY <1>0 DEF TypeOK
  <1>4. Bounded'
    BY <1>0 DEF Bounded
  <1>5. OneAnswer' /\ RequestInv' /\ StepsInv'
    BY <1>0, RequestsStay, StepsStay DEF stateVars
  <1> QED
    BY <1>2, <1>3, <1>4, <1>5 DEF IInv

LEMMA BadUpgradeStep ==
    ASSUME IInv, NEW h \in Https, BadUpgrade(h)
    PROVE  IInv'
  <1>1. TypeOK /\ Bounded /\ Spend /\ Restarted(build)
    BY DEF IInv, BadUpgrade
  <1>2. build \in 1..(MaxInputs + 1)
    BY <1>1 DEF TypeOK
  <1> QED
    BY <1>1, <1>2, SpendFacts, RestartedInv

LEMMA SocketClosesStep ==
    ASSUME IInv, NEW s, SocketCloses(s)
    PROVE  IInv'
  <1>0. /\ TypeOK /\ Bounded /\ HttpInv /\ OneAnswer /\ RequestInv /\ StepsInv
        /\ sockets' = sockets \ {s} /\ executor' = executor \ {s}
        /\ UNCHANGED <<build, bundle, connected, inputs, attached, held, down, listeners,
                       upgrading,
                       request, copy, running, intervals, channels, subscribed, timers, replaced,
                       visited, heard, methods, unsaved, counted, flushes, forgotten,
                       closing, late>>
    BY DEF IInv, SocketCloses, Removed, processVars, browserVars, stateVars, sessionVars
  <1>1. TypeOK'
    BY <1>0 DEF TypeOK
  <1>2. HttpInv' /\ OneAnswer' /\ RequestInv' /\ StepsInv' /\ Bounded'
    BY <1>0, HttpStays, RequestsStay, StepsStay DEF Bounded, stateVars
  <1> QED
    BY <1>1, <1>2 DEF IInv

-----------------------------------------------------------------------------
(* The primitives. *)

\* Steps that leave HTTP alone, and close() where it is.
Apart == UNCHANGED <<build, bundle, connected, attached, held, down, listeners, upgrading,
                     sockets, executor, request, copy, closing, late>>

LEMMA ApartSteps ==
    ASSUME IInv, Apart
    PROVE  HttpInv' /\ OneAnswer' /\ RequestInv'
  BY HttpStays, RequestsStay DEF IInv, Apart

\* After the transport has closed a handler runs only if one had been late, or
\* an attachment had been forgotten.
LEMMA NobodyActs ==
    ASSUME IInv, ~late, Len(attached) <= 1, closing \in AfterTransport
    PROVE  running = {} /\ executor = {} /\ ~Acting
  <1>1. closing \notin {"open", "transport"}
    BY DEF AfterTransport
  <1>2. running = {}
    BY DEF IInv, StepsInv, Left
  <1>3. sockets = {}
    BY <1>1 DEF IInv, HttpInv
  <1>4. executor = {}
    BY <1>3 DEF IInv, TypeOK
  <1> QED
    BY <1>1, <1>2, <1>4 DEF Acting

\* The later steps come after the transport.
LEMMA StepsInOrder ==
    /\ AfterSessions \subseteq AfterTransport /\ AfterChannels \subseteq AfterSessions
    /\ AfterEvents \subseteq AfterChannels \ {"crdt"} /\ "channels" \in AfterSessions
    /\ {"limiter", "resolved"} \subseteq AfterEvents
    /\ "open" \notin AfterTransport /\ "transport" \notin AfterTransport
  BY DEF AfterTransport, AfterSessions, AfterChannels, AfterEvents, Steps

\* So what they may do need not be looked at there.
LEMMA NothingLeft ==
    ASSUME closing' \notin AfterTransport
    PROVE  Left'
  <1>1. /\ closing' \notin AfterSessions /\ closing' \notin AfterChannels
        /\ closing' \notin AfterEvents /\ closing' # "channels"
        /\ closing' \notin {"limiter", "resolved"}
    BY StepsInOrder
  <1> QED
    BY <1>1 DEF Left

LEMMA StartCallStep ==
    ASSUME IInv, NEW c \in Calls, StartCall(c)
    PROVE  IInv'
  <1>0. /\ TypeOK /\ Bounded /\ StepsInv /\ Spend /\ executor # {} /\ Apart
        /\ running' = running \union {c}
        /\ UNCHANGED <<intervals, channels, subscribed, timers, replaced, visited, heard,
                       methods, unsaved,
                       counted, flushes, forgotten>>
    BY DEF IInv, StartCall, Apart, processVars, httpVars, browserVars, stateVars, sessionVars
  <1>1. TypeOK' /\ Bounded'
    <2>1. inputs' \in 0..MaxInputs /\ Bounded'
      BY <1>0, SpendFacts DEF Bounded, Apart
    <2> QED
      BY <1>0, <2>1 DEF TypeOK, Apart
  <1>2. StepsInv'
    <2>1. ~late' /\ Len(attached') <= 1 => closing' \notin AfterTransport
      BY <1>0, NobodyActs DEF Apart
    <2> QED
      BY <1>0, <2>1, NothingLeft DEF StepsInv, Apart
  <1> QED
    BY <1>0, <1>1, <1>2, ApartSteps DEF IInv

LEMMA FinishCallStep ==
    ASSUME IInv, NEW c \in Calls, FinishCall(c)
    PROVE  IInv'
  <1>0. /\ TypeOK /\ Bounded /\ StepsInv /\ Apart /\ running' = running \ {c}
        /\ UNCHANGED <<inputs, intervals, channels, subscribed, timers, replaced, visited,
                       heard, methods,
                       unsaved, counted, flushes, forgotten>>
    BY DEF IInv, FinishCall, Apart, processVars, httpVars, browserVars, stateVars, sessionVars
  <1>1. TypeOK' /\ Bounded'
    BY <1>0 DEF TypeOK, Bounded, Apart
  <1>2. StepsInv'
    BY <1>0 DEF StepsInv, Left, Apart
  <1> QED
    BY <1>0, <1>1, <1>2, ApartSteps DEF IInv

LEMMA SetSessionStep == IInv /\ SetSession => IInv'
  <1> SUFFICES ASSUME IInv, SetSession PROVE IInv'
    OBVIOUS
  <1>0. /\ TypeOK /\ Bounded /\ StepsInv /\ Spend /\ Acting /\ Apart
        /\ unsaved' = TRUE /\ counted' = TRUE
        /\ flushes' = [f \in DOMAIN flushes |->
                         IF flushes[f] = "none" THEN "none" ELSE "stale"]
        /\ UNCHANGED <<running, intervals, channels, subscribed, timers, replaced, visited,
                       heard, methods, forgotten>>
    BY DEF IInv, SetSession, Apart, processVars, httpVars, browserVars, stateVars
  <1>1. TypeOK' /\ Bounded'
    <2>1. inputs' \in 0..MaxInputs /\ Bounded'
      BY <1>0, SpendFacts DEF Bounded, Apart
    <2>2. flushes' \in [{"interval", "close"} -> {"none", "clean", "stale"}]
      BY <1>0 DEF TypeOK
    <2> QED
      BY <1>0, <2>1, <2>2 DEF TypeOK, Apart
  <1>2. StepsInv'
    <2>1. ~late' /\ Len(attached') <= 1 => closing' \notin AfterTransport
      BY <1>0, NobodyActs DEF Apart
    <2> QED
      BY <1>0, <2>1, NothingLeft DEF StepsInv, Apart
  <1> QED
    BY <1>0, <1>1, <1>2, ApartSteps DEF IInv

LEMMA CreateSyncChannelStep ==
    ASSUME IInv, NEW k \in Keys, CreateSyncChannel(k)
    PROVE  IInv'
  <1>0. /\ TypeOK /\ Bounded /\ StepsInv /\ Spend /\ Acting /\ Apart
        /\ \E n \in 0..MaxInputs :
              /\ channels' = (channels \ Channel(k)) \union {<<k, n>>}
              /\ subscribed' = subscribed \union {<<k, n>>}
        /\ replaced' = replaced \union Channel(k)
        /\ UNCHANGED <<running, intervals, timers, visited, heard, methods, unsaved,
                       counted, flushes, forgotten>>
    BY DEF IInv, CreateSyncChannel, Apart, processVars, httpVars, browserVars, sessionVars
  <1>1. TypeOK' /\ Bounded'
    <2>1. inputs' \in 0..MaxInputs /\ Bounded'
      BY <1>0, SpendFacts DEF Bounded, Apart
    <2>2. /\ channels' \subseteq Keys \X Nat /\ subscribed' \subseteq Keys \X Nat
          /\ replaced' \subseteq Keys \X Nat
      BY <1>0, InputsAreNat DEF TypeOK, Channel
    <2> QED
      BY <1>0, <2>1, <2>2 DEF TypeOK, Apart
  <1>2. StepsInv'
    <2>1. ~late' /\ Len(attached') <= 1 => closing' \notin AfterTransport
      BY <1>0, NobodyActs DEF Apart
    <2>2. timers \union subscribed \subseteq channels \union replaced =>
          timers' \union subscribed' \subseteq channels' \union replaced'
      BY <1>0 DEF Channel
    <2> QED
      BY <1>0, <2>1, <2>2, NothingLeft DEF StepsInv, Apart
  <1> QED
    BY <1>0, <1>1, <1>2, ApartSteps DEF IInv

LEMMA SetStateStep ==
    ASSUME IInv, NEW k \in Keys, SetState(k)
    PROVE  IInv'
  <1>0. /\ TypeOK /\ Bounded /\ StepsInv /\ Spend /\ Acting /\ Apart
        /\ timers' = timers \union Channel(k)
        /\ UNCHANGED <<running, intervals, channels, subscribed, replaced, visited, heard,
                       methods, unsaved,
                       counted, flushes, forgotten>>
    BY DEF IInv, SetState, Apart, processVars, httpVars, browserVars, sessionVars
  <1>1. TypeOK' /\ Bounded'
    <2>1. inputs' \in 0..MaxInputs /\ Bounded'
      BY <1>0, SpendFacts DEF Bounded, Apart
    <2> QED
      BY <1>0, <2>1 DEF TypeOK, Apart, Channel
  <1>2. StepsInv'
    <2>1. ~late' /\ Len(attached') <= 1 => closing' \notin AfterTransport
      BY <1>0, NobodyActs DEF Apart
    <2> QED
      BY <1>0, <2>1, NothingLeft DEF StepsInv, Apart, Channel
  <1> QED
    BY <1>0, <1>1, <1>2, ApartSteps DEF IInv

LEMMA FlushTimerStep ==
    ASSUME IInv, NEW c \in timers, FlushTimer(c)
    PROVE  IInv'
  <1>0. /\ TypeOK /\ Bounded /\ StepsInv /\ Apart
        /\ timers' = timers \ {c}
        /\ UNCHANGED <<inputs, running, intervals, channels, subscribed, replaced, visited,
                       heard, methods, unsaved,
                       counted, flushes, forgotten>>
    BY DEF IInv, FlushTimer, Apart, processVars, httpVars, browserVars, sessionVars
  <1>1. TypeOK' /\ Bounded'
    BY <1>0 DEF TypeOK, Bounded, Apart
  <1>2. StepsInv'
    <2>1. Left => Left'
      BY <1>0 DEF Left, Apart
    <2> QED
      BY <1>0, <2>1 DEF StepsInv, Apart
  <1> QED
    BY <1>0, <1>1, <1>2, ApartSteps DEF IInv

LEMMA SubscribeStep ==
    ASSUME IInv, Spend, Acting, Apart, NEW m \in {"crdt", "event"}, heard' = heard \union {m},
           UNCHANGED <<running, intervals, channels, subscribed, timers, replaced, visited,
                       methods, unsaved,
                       counted, flushes, forgotten>>
    PROVE  IInv'
  <1>1. TypeOK' /\ Bounded'
    <2>1. inputs' \in 0..MaxInputs /\ Bounded'
      BY SpendFacts DEF IInv, Bounded, Apart
    <2> QED
      BY <2>1 DEF IInv, TypeOK, Apart
  <1>2. StepsInv'
    <2>1. ~late' /\ Len(attached') <= 1 => closing' \notin AfterTransport
      BY NobodyActs DEF Apart
    <2> QED
      BY <2>1, NothingLeft DEF IInv, StepsInv, Apart
  <1> QED
    BY <1>1, <1>2, ApartSteps DEF IInv

LEMMA ApplyCrdtStep == IInv /\ ApplyCrdt => IInv'
  <1> SUFFICES ASSUME IInv, ApplyCrdt PROVE IInv'
    OBVIOUS
  <1>1. CASE connected
    BY <1>1, SubscribeStep
    DEF ApplyCrdt, Apart, processVars, httpVars, browserVars, stateVars, sessionVars
  <1>2. CASE ~connected
    <2>1. TypeOK /\ Bounded /\ Spend /\ Restarted(build)
      BY <1>2 DEF IInv, ApplyCrdt
    <2>2. build \in 1..(MaxInputs + 1)
      BY <2>1 DEF TypeOK
    <2> QED
      BY <2>1, <2>2, SpendFacts, RestartedInv
  <1> QED
    BY <1>1, <1>2

LEMMA ListenStep == IInv /\ Listen => IInv'
  BY SubscribeStep
  DEF Listen, Apart, processVars, httpVars, browserVars, stateVars, sessionVars

LEMMA IntervalFlushStep == IInv /\ IntervalFlush => IInv'
  <1> SUFFICES ASSUME IInv, IntervalFlush PROVE IInv'
    OBVIOUS
  <1>0. /\ TypeOK /\ Bounded /\ StepsInv /\ Apart
        /\ flushes' = [flushes EXCEPT !["interval"] = "clean"]
        /\ UNCHANGED <<inputs, running, intervals, channels, subscribed, timers, replaced,
                       visited, heard,
                       methods, unsaved, counted, forgotten>>
    BY DEF IInv, IntervalFlush, BeginFlush, Apart, processVars, httpVars, browserVars, stateVars
  <1>1. TypeOK' /\ Bounded'
    BY <1>0 DEF TypeOK, Bounded, Apart
  <1>2. StepsInv'
    BY <1>0, StepsStay DEF Apart, stateVars
  <1> QED
    BY <1>0, <1>1, <1>2, ApartSteps DEF IInv

\* A flush that ends leaves no count behind.
LEMMA EndFlushFacts ==
    ASSUME TypeOK, NEW f \in {"interval", "close"}, EndFlush(f)
    PROVE  /\ flushes' \in [{"interval", "close"} -> {"none", "clean", "stale"}]
           /\ unsaved' \in BOOLEAN /\ counted' = FALSE /\ forgotten' \in BOOLEAN
           /\ unsaved' => forgotten'
  BY DEF EndFlush, TypeOK

LEMMA IntervalFlushedStep == IInv /\ IntervalFlushed => IInv'
  <1> SUFFICES ASSUME IInv, IntervalFlushed PROVE IInv'
    OBVIOUS
  <1>0. /\ TypeOK /\ Bounded /\ StepsInv /\ Apart /\ EndFlush("interval")
        /\ UNCHANGED <<inputs, running, intervals, channels, subscribed, timers, replaced,
                       visited, heard, methods>>
    BY DEF IInv, IntervalFlushed, Apart, processVars, httpVars, browserVars, stateVars
  <1>1. TypeOK' /\ Bounded'
    BY <1>0, EndFlushFacts DEF TypeOK, Bounded, Apart
  <1>2. StepsInv'
    <2>1. Left => Left'
      BY <1>0, EndFlushFacts DEF Left, Apart
    <2> QED
      BY <1>0, <2>1, EndFlushFacts DEF StepsInv, Apart
  <1> QED
    BY <1>0, <1>1, <1>2, ApartSteps DEF IInv

LEMMA IntervalRefusedStep == IInv /\ IntervalRefused => IInv'
  <1> SUFFICES ASSUME IInv, IntervalRefused PROVE IInv'
    OBVIOUS
  <1>1. TypeOK /\ Bounded /\ Restarted(build) /\ (Spend \/ UNCHANGED inputs)
    BY DEF IInv, IntervalRefused
  <1>2. build \in 1..(MaxInputs + 1)
    BY <1>1 DEF TypeOK
  <1> QED
    BY <1>1, <1>2, SpendFacts, RestartedInv
-----------------------------------------------------------------------------
(* close(). *)

\* The attachment that has been told to stop loses its listener, and no other.
LEMMA RemovedListening ==
    ASSUME TypeOK, HttpInv, held # 0, NEW g \in Https, UNCHANGED attached,
           listeners' = RemoveListener(attached[held], held),
           down' = down \union {held}
    PROVE  listeners'[g] \in Seq(0..Len(attached)) /\ Listening(g)'
  <1> DEFINE h == attached[held]
             s == listeners[g]
             k == Len(s)
             n == Len(attached)
             at == {i \in DOMAIN listeners[h] : listeners[h][i] = held}
  <1>1. /\ s \in Seq(0..n) /\ k \in Nat /\ n \in Nat /\ held \in 1..n /\ h \in Https
        /\ DOMAIN s = 1..k /\ attached \in Seq(Https)
    BY DEF TypeOK
  <1>2. /\ k >= 1 /\ s[k] = 0
        /\ \A i \in 1..k-1 : s[i] \in 1..n /\ attached[s[i]] = g /\ s[i] \notin down
        /\ \A i, j \in 1..k-1 : s[i] = s[j] => i = j
    BY DEF HttpInv, Listening
  <1>3. listeners' = IF at = {} THEN listeners
                     ELSE [listeners EXCEPT ![h] = RemoveAt(@, Max(at))]
    BY DEF RemoveListener
  <1>4. CASE g # h \/ at = {}
    <2>1. listeners'[g] = s
      BY <1>1, <1>3, <1>4 DEF TypeOK
    <2>2. \A i \in 1..k-1 : s[i] # held
      <3> SUFFICES ASSUME NEW i \in 1..k-1, s[i] = held PROVE FALSE
        OBVIOUS
      <3>1. attached[held] = g
        BY <1>2
      <3>2. g = h /\ i \in DOMAIN s
        BY <1>1, <3>1
      <3>3. i \in at
        BY <3>2
      <3> QED
        BY <1>4, <3>2, <3>3
    <2> HIDE DEF s, k, n, h, at
    <2>3. \A i \in 1..k-1 : s[i] \notin down'
      BY <1>2, <2>2
    <2> QED
      BY <1>1, <1>2, <2>1, <2>3 DEF Listening, k, n
  <1>5. CASE g = h /\ at # {}
    <2> DEFINE p == Max(at)
               t == RemoveAt(s, p)
    <2>1. listeners'[g] = t
      BY <1>1, <1>3, <1>5 DEF TypeOK
    <2>2. at \in SUBSET (1..k) /\ \A i \in at : s[i] = held
      BY <1>1, <1>5
    <2>3. p \in at
      <3> HIDE DEF at, k, s
      <3> QED
        BY <1>1, <1>5, <2>2, LargestExists
    <2> HIDE DEF p, at
    <2>4. s[p] = held /\ p \in 1..k-1
      <3>1. p \in 1..k /\ s[p] = held
        BY <2>2, <2>3
      <3> HIDE DEF s, k, n, h
      <3> QED
        BY <1>1, <1>2, <3>1
    <2>5. /\ t \in Seq(0..n) /\ Len(t) = k - 1
          /\ \A j \in 1..k-1 : Was(p, j) \in 1..k /\ t[j] = s[Was(p, j)]
      <3>1. p \in 1..Len(s)
        BY <1>1, <2>4
      <3> HIDE DEF s, n
      <3> QED
        BY ZenonT(40), <1>1, <3>1, RemoveAtFacts DEF k
    <2> HIDE DEF s, k, n, h, t
    <2>6. /\ Was(p, k-1) = k
          /\ \A j \in 1..k-2 : Was(p, j) \in 1..k-1 /\ Was(p, j) # p
          /\ \A i, j \in 1..k-2 : Was(p, i) = Was(p, j) => i = j
      BY <1>1, <2>4 DEF Was
    <2>7. Len(t) >= 1 /\ t[Len(t)] = 0
      <3>1. k - 1 \in 1..k-1
        BY <1>1, <2>4
      <3> QED
        BY <1>2, <2>5, <2>6, <3>1
    <2>8. ASSUME NEW j \in 1..Len(t)-1
          PROVE  t[j] \in 1..n /\ attached[t[j]] = g /\ t[j] \notin down \union {held}
      <3>1. j \in 1..k-2 /\ j \in 1..k-1
        BY SMTT(30), <1>1, <2>5
      <3>2. t[j] = s[Was(p, j)] /\ Was(p, j) \in 1..k-1 /\ Was(p, j) # p
        BY <2>5, <2>6, <3>1
      <3> QED
        BY <1>2, <2>4, <3>2
    <2>9. ASSUME NEW i \in 1..Len(t)-1, NEW j \in 1..Len(t)-1, t[i] = t[j]
          PROVE  i = j
      <3>0. Len(t) - 1 = k - 2 /\ k \in Nat
        BY <1>1, <2>5
      <3>1. \A m \in 1..Len(t)-1 : m \in 1..k-2 /\ m \in 1..k-1
        BY <3>0
      <3>2. \A m \in 1..k-2 : m \in 1..k-1 => t[m] = s[Was(p, m)] /\ Was(p, m) \in 1..k-1
        BY <2>5, <2>6
      <3> QED
        BY <1>2, <2>6, <2>9, <3>1, <3>2
    <2>10. /\ Len(attached') = n /\ attached' = attached /\ down' = down \union {held}
           /\ \A j \in 1..Len(t) - 1 : t[j] \in 1..n /\ attached[t[j]] = g
                                     /\ t[j] \notin down \union {held}
           /\ \A i, j \in 1..Len(t) - 1 : t[i] = t[j] => i = j
      BY <2>8, <2>9 DEF n
    <2>11. Listening(g)'
      BY SMTT(30), <2>1, <2>7, <2>10 DEF Listening
    <2> QED
      BY <2>1, <2>5, <2>11 DEF n
  <1> QED
    BY <1>4, <1>5

LEMMA CloseStep == IInv /\ Close => IInv'
  <1> SUFFICES ASSUME IInv, Close PROVE IInv'
    OBVIOUS
  <1>0. /\ TypeOK /\ Bounded /\ HttpInv /\ OneAnswer /\ RequestInv /\ StepsInv
        /\ closing \in {"open", "rejected"} /\ closing' = "transport"
        /\ IF held = 0 THEN UNCHANGED <<listeners, down>>
           ELSE /\ listeners' = RemoveListener(attached[held], held)
                /\ down' = down \union {held}
        /\ UNCHANGED <<build, bundle, connected, inputs, attached, held, upgrading, sockets,
                       executor,
                       request, copy, running, intervals, channels, subscribed, timers,
                       replaced, visited, heard,
                       methods, unsaved, counted, flushes, forgotten, late>>
    BY DEF IInv, Close, processVars, browserVars, stateVars, sessionVars
  <1>1. \A g \in Https : listeners'[g] \in Seq(0..Len(attached)) /\ Listening(g)'
    <2>1. CASE held = 0
      BY <1>0, <2>1 DEF TypeOK, HttpInv, Listening
    <2>2. CASE held # 0
      BY <1>0, <2>2, RemovedListening
    <2> QED
      BY <2>1, <2>2
  <1>2. listeners' \in [Https -> Seq(0..Len(attached))]
    <2>1. DOMAIN listeners' = Https /\ listeners' = [g \in Https |-> listeners'[g]]
      BY <1>0 DEF TypeOK, RemoveListener
    <2> QED
      BY <1>1, <2>1
  <1>3. TypeOK' /\ Bounded'
    <2>1. down' \subseteq DOMAIN attached
      BY <1>0 DEF TypeOK
    <2>2. closing' \in Steps
      BY <1>0 DEF Steps
    <2> QED
      BY <1>0, <1>2, <2>1, <2>2 DEF TypeOK, Bounded
  <1>4. HttpInv'
    <2>1. attached \in Seq(Https) /\ Len(attached) \in Nat /\ (Len(attached) = 0 => attached = <<>>)
      BY <1>0, EmptySeq DEF TypeOK
    <2>2. attached = <<>> \/ Len(attached) \in down'
      <3>1. CASE closing = "open"
        BY <1>0, <2>1, <3>1 DEF HttpInv
      <3>2. CASE closing # "open"
        BY <1>0, <3>2 DEF HttpInv
      <3> QED
        BY <3>1, <3>2
    <2>3. held = 0 /\ Len(attached) <= 1 => sockets = {}
      <3>1. CASE closing = "open"
        BY <1>0, <2>1, <3>1 DEF HttpInv, TypeOK
      <3>2. CASE closing # "open"
        BY <1>0, <3>2 DEF HttpInv
      <3> QED
        BY <3>1, <3>2
    <2> QED
      BY <1>0, <1>1, <2>2, <2>3 DEF HttpInv
  <1>5. OneAnswer' /\ RequestInv'
    BY <1>0, RequestsStay
  <1>6. StepsInv'
    <2>1. closing' \notin AfterTransport /\ closing' \notin AfterChannels
          /\ closing \notin AfterChannels
      BY <1>0 DEF AfterTransport, AfterSessions, AfterChannels
    <2> QED
      BY <1>0, <2>1, NothingLeft DEF StepsInv
  <1> QED
    BY <1>3, <1>4, <1>5, <1>6 DEF IInv

LEMMA TransportClosedStep == IInv /\ TransportClosed => IInv'
  <1> SUFFICES ASSUME IInv, TransportClosed PROVE IInv'
    OBVIOUS
  <1>0. /\ TypeOK /\ Bounded /\ HttpInv /\ OneAnswer /\ RequestInv /\ StepsInv
        /\ closing = "transport" /\ SocketsOf(held) = {} /\ held' = 0
        /\ late' = (late \/ running # {}) /\ intervals' = intervals \ {"sessions"}
        /\ IF counted THEN closing' = "sessions" /\ BeginFlush("close")
                      ELSE closing' = "executor" /\ UNCHANGED flushes
        /\ UNCHANGED <<build, bundle, connected, inputs, attached, down, listeners, upgrading,
                       sockets,
                       executor, request, copy, running, channels, subscribed, timers,
                       replaced, visited, heard,
                       methods, unsaved, counted, forgotten>>
    BY DEF IInv, TransportClosed, processVars, browserVars, stateVars
  <1>1. /\ closing' \in {"sessions", "executor"} /\ (counted => closing' = "sessions")
        /\ closing' \notin {"open", "transport"} /\ closing' \in Steps
    BY <1>0 DEF Steps
  <1>2. TypeOK' /\ Bounded'
    <2>1. flushes' \in [{"interval", "close"} -> {"none", "clean", "stale"}]
      BY <1>0 DEF TypeOK, BeginFlush
    <2>2. held' \in 0..Len(attached) /\ late' \in BOOLEAN
      BY <1>0 DEF TypeOK
    <2> QED
      BY <1>0, <1>1, <2>1, <2>2 DEF TypeOK, Bounded
  <1>3. HttpInv'
    <2>1. \A g \in Https : Listening(g)'
      BY <1>0, ListeningStays DEF HttpInv
    <2>2. Len(attached) <= 1 => sockets = {}
      <3> SUFFICES ASSUME Len(attached) <= 1, NEW s \in sockets PROVE FALSE
        OBVIOUS
      <3>1. s[1] \in 1..Len(attached) /\ Len(attached) \in Nat
        BY <1>0 DEF TypeOK
      <3>2. Len(attached) = 1 /\ s[1] = 1
        <4> DEFINE n == Len(attached)
                   m == s[1]
        <4>1. m \in 1..n /\ n \in Nat /\ n <= 1
          BY <3>1
        <4> HIDE DEF n, m
        <4>2. n = 1 /\ m = 1
          BY <4>1
        <4> QED
          BY <4>2 DEF n, m
      <3>3. held = 1
        BY <1>0, <3>2 DEF HttpInv
      <3>4. s \in SocketsOf(held)
        BY <3>2, <3>3 DEF SocketsOf
      <3> QED
        BY <1>0, <3>4
    <2> QED
      BY <1>0, <1>1, <2>1, <2>2 DEF HttpInv
  <1>4. OneAnswer' /\ RequestInv'
    BY <1>0, RequestsStay
  <1>5. StepsInv'
    <2>1. /\ closing \notin AfterChannels /\ closing' \notin AfterChannels
          /\ closing' \notin AfterEvents /\ closing' # "channels"
          /\ (closing' \in AfterSessions => closing' = "executor")
          /\ closing' \notin {"limiter", "resolved"}
      BY <1>0, <1>1 DEF AfterTransport, AfterSessions, AfterChannels, AfterEvents
    <2>2. ~late' => Left'
      BY <1>0, <1>1, <2>1 DEF Left
    <2> QED
      BY <1>0, <2>1, <2>2 DEF StepsInv
  <1> QED
    BY <1>2, <1>3, <1>4, <1>5 DEF IInv

\* The steps that are left take down what is theirs, and HTTP is done with.
Onward == /\ UNCHANGED <<build, bundle, connected, attached, held, down, listeners, upgrading,
                         sockets, request, copy, running, late>>
          /\ closing \in AfterTransport /\ closing' \in AfterTransport

LEMMA OnwardSteps ==
    ASSUME IInv, Onward
    PROVE  HttpInv' /\ OneAnswer' /\ RequestInv'
  <1>1. {closing, closing'} \cap {"open", "transport"} = {}
    BY DEF Onward, AfterTransport
  <1>2. HttpInv'
    BY <1>1, HttpStays DEF IInv, Onward
  <1> QED
    BY <1>2, RequestsStay DEF IInv, Onward

LEMMA SessionsFlushedStep == IInv /\ SessionsFlushed => IInv'
  <1> SUFFICES ASSUME IInv, SessionsFlushed PROVE IInv'
    OBVIOUS
  <1>0. /\ TypeOK /\ Bounded /\ StepsInv /\ EndFlush("close")
        /\ closing = "sessions" /\ closing' = "executor" /\ Onward
        /\ UNCHANGED <<inputs, executor, intervals, channels, subscribed, timers, replaced,
                       visited, heard, methods>>
    BY DEF IInv, SessionsFlushed, Onward, AfterTransport, Steps, processVars, httpVars,
           browserVars, stateVars
  <1>1. TypeOK' /\ Bounded'
    BY <1>0, EndFlushFacts DEF TypeOK, Bounded, Onward, Steps
  <1>2. StepsInv'
    <2>1. Left => Left'
      BY <1>0, EndFlushFacts
      DEF Left, Onward, AfterTransport, AfterSessions, AfterChannels, AfterEvents
    <2>2. closing \notin AfterChannels /\ closing' \notin AfterChannels
      BY <1>0 DEF AfterChannels, AfterSessions
    <2> QED
      BY <1>0, <2>1, <2>2, EndFlushFacts DEF StepsInv, Onward
  <1> QED
    BY <1>0, <1>1, <1>2, OnwardSteps DEF IInv

LEMMA SessionsRefusedStep == IInv /\ SessionsRefused => IInv'
  <1> SUFFICES ASSUME IInv, SessionsRefused PROVE IInv'
    OBVIOUS
  <1>0. /\ TypeOK /\ Bounded /\ StepsInv /\ (Spend \/ UNCHANGED inputs)
        /\ flushes' = [flushes EXCEPT !["close"] = "none"]
        /\ closing = "sessions" /\ closing' = "rejected" /\ Onward
        /\ UNCHANGED <<executor, intervals, channels, subscribed, timers, replaced, visited,
                       heard, methods,
                       unsaved, counted, forgotten>>
    BY DEF IInv, SessionsRefused, Onward, AfterTransport, Steps, processVars, httpVars,
           browserVars, stateVars
  <1>1. TypeOK' /\ Bounded'
    <2>1. inputs' \in 0..MaxInputs /\ Bounded'
      BY <1>0, SpendFacts DEF Bounded, Onward
    <2> QED
      BY <1>0, <2>1 DEF TypeOK, Onward, Steps
  <1>2. StepsInv'
    <2>1. Left => Left'
      BY <1>0
      DEF Left, Onward, AfterTransport, AfterSessions, AfterChannels, AfterEvents
    <2>2. closing \notin AfterChannels /\ closing' \notin AfterChannels
      BY <1>0 DEF AfterChannels, AfterSessions
    <2> QED
      BY <1>0, <2>1, <2>2 DEF StepsInv, Onward
  <1> QED
    BY <1>0, <1>1, <1>2, OnwardSteps DEF IInv

LEMMA ShutdownExecutorStep == IInv /\ ShutdownExecutor => IInv'
  <1> SUFFICES ASSUME IInv, ShutdownExecutor PROVE IInv'
    OBVIOUS
  <1>0. /\ TypeOK /\ Bounded /\ StepsInv /\ executor' = {} /\ visited' = {}
        /\ closing = "executor" /\ closing' = "channels" /\ Onward
        /\ UNCHANGED <<inputs, intervals, channels, subscribed, timers, replaced, heard, methods,
                       unsaved, counted, flushes, forgotten>>
    BY DEF IInv, ShutdownExecutor, Onward, AfterTransport, Steps, processVars,
           browserVars, sessionVars
  <1>1. TypeOK' /\ Bounded'
    BY <1>0 DEF TypeOK, Bounded, Onward, Steps
  <1>2. StepsInv'
    <2>1. Left => Left'
      BY <1>0
      DEF Left, Onward, AfterTransport, AfterSessions, AfterChannels, AfterEvents, Steps
    <2>2. closing \notin AfterChannels /\ closing' \notin AfterChannels
      BY <1>0 DEF AfterChannels, AfterSessions
    <2> QED
      BY <1>0, <2>1, <2>2 DEF StepsInv, Onward
  <1> QED
    BY <1>0, <1>1, <1>2, OnwardSteps DEF IInv

LEMMA DestroyChannelStep ==
    ASSUME IInv, NEW k \in Keys, DestroyChannel(k)
    PROVE  IInv'
  <1>0. /\ TypeOK /\ Bounded /\ StepsInv /\ closing = "channels" /\ Onward
        /\ visited' = visited \union {k}
        /\ timers' = timers \ Channel(k) /\ subscribed' = subscribed \ Channel(k)
        /\ UNCHANGED <<inputs, executor, intervals, channels, replaced, heard, methods,
                       unsaved, counted, flushes, forgotten, closing>>
    BY DEF IInv, DestroyChannel, Onward, AfterTransport, Steps, processVars, httpVars,
           browserVars, sessionVars
  <1>1. TypeOK' /\ Bounded'
    BY <1>0 DEF TypeOK, Bounded, Onward
  <1>2. StepsInv'
    <2>1. /\ timers \union subscribed \subseteq channels \union replaced
          /\ closing' = "channels" /\ "channels" \notin AfterChannels
          /\ "channels" \in AfterSessions /\ "channels" \in AfterTransport
          /\ "channels" \notin AfterEvents
      BY <1>0 DEF StepsInv, AfterChannels, AfterSessions, AfterTransport, AfterEvents, Steps
    <2>2. ASSUME Left PROVE Left'
      <3>1. ASSUME NEW c \in timers' \union subscribed', c[1] \in visited'
            PROVE  c \in replaced'
        <4>1. c \in timers \union subscribed /\ c \notin Channel(k)
          BY <1>0
        <4>2. CASE c[1] = k
          BY <1>0, <2>1, <4>1, <4>2 DEF Channel
        <4>3. CASE c[1] # k
          BY <1>0, <2>2, <3>1, <4>1, <4>3 DEF Left
        <4> QED
          BY <4>2, <4>3
      <3> QED
        BY <1>0, <2>1, <2>2, <3>1 DEF Left, Onward
    <2> QED
      BY <1>0, <2>1, <2>2 DEF StepsInv, Onward
  <1> QED
    BY <1>0, <1>1, <1>2, OnwardSteps DEF IInv

LEMMA ChannelsDestroyedStep == IInv /\ ChannelsDestroyed => IInv'
  <1> SUFFICES ASSUME IInv, ChannelsDestroyed PROVE IInv'
    OBVIOUS
  <1>0. /\ TypeOK /\ Bounded /\ StepsInv /\ closing = "channels" /\ closing' = "crdt" /\ Onward
        /\ (\A c \in channels : c[1] \in visited) /\ channels' = {}
        /\ UNCHANGED <<inputs, executor, intervals, subscribed, timers, replaced, visited,
                       heard, methods, unsaved, counted, flushes, forgotten>>
    BY DEF IInv, ChannelsDestroyed, Onward, AfterTransport, Steps, processVars, httpVars,
           browserVars, sessionVars
  <1>1. TypeOK' /\ Bounded'
    BY <1>0 DEF TypeOK, Bounded, Onward, Steps
  <1>2. StepsInv'
    <2>1. /\ closing \notin AfterChannels /\ closing' \in AfterChannels
          /\ closing \in AfterSessions /\ closing' \notin AfterEvents
      BY <1>0 DEF AfterChannels, AfterSessions, AfterTransport, AfterEvents, Steps
    <2>2. timers \union subscribed \subseteq channels \union replaced
      BY <1>0, <2>1 DEF StepsInv
    <2>3. ASSUME Left PROVE Left'
      <3>1. \A c \in timers \union subscribed : c[1] \in visited => c \in replaced
        BY <1>0, <2>3 DEF Left
      <3>2. timers \union subscribed \subseteq replaced
        BY <1>0, <2>2, <3>1
      <3>3. running = {} /\ "sessions" \notin intervals /\ ~counted
        BY <1>0, <2>1, <2>3 DEF Left, Onward
      <3> QED
        BY <1>0, <2>1, <3>2, <3>3 DEF Left, Onward
    <2> QED
      BY <1>0, <2>1, <2>3 DEF StepsInv, Onward
  <1> QED
    BY <1>0, <1>1, <1>2, OnwardSteps DEF IInv

\* What comes after the channels.
LEMMA LastStepsStep ==
    IInv /\ (DestroyManagers \/ DestroyRpc \/ DestroyLimiter) => IInv'
  <1> SUFFICES ASSUME IInv, DestroyManagers \/ DestroyRpc \/ DestroyLimiter PROVE IInv'
    OBVIOUS
  <1>0. /\ TypeOK /\ Bounded /\ StepsInv /\ Onward
        /\ \/ /\ closing = "crdt" /\ closing' = "events" /\ heard' = heard \ {"crdt"}
              /\ UNCHANGED <<methods, intervals>>
           \/ /\ closing = "events" /\ closing' = "rpc" /\ heard' = heard \ {"event"}
              /\ UNCHANGED <<methods, intervals>>
           \/ /\ closing = "rpc" /\ closing' = "limiter" /\ methods' = FALSE
              /\ UNCHANGED <<heard, intervals>>
           \/ /\ closing = "limiter" /\ closing' = "resolved"
              /\ intervals' = intervals \ {"limiter"} /\ UNCHANGED <<heard, methods>>
        /\ UNCHANGED <<inputs, executor, channels, subscribed, timers, replaced, visited,
                       unsaved, counted, flushes, forgotten>>
    BY DEF IInv, DestroyManagers, DestroyRpc, DestroyLimiter, Onward, AfterTransport, Steps,
           processVars, httpVars, browserVars, stateVars, sessionVars
  <1>1. TypeOK' /\ Bounded'
    BY <1>0 DEF TypeOK, Bounded, Onward, Steps
  <1>2. StepsInv'
    <2>1. closing \in AfterChannels /\ closing' \in AfterChannels
      BY <1>0 DEF AfterChannels, AfterSessions, AfterTransport, Steps
    <2>2. Left => Left'
      BY <1>0
      DEF Left, Onward, AfterTransport, AfterSessions, AfterChannels, AfterEvents, Steps
    <2> QED
      BY <1>0, <2>1, <2>2 DEF StepsInv, Onward
  <1> QED
    BY <1>0, <1>1, <1>2, OnwardSteps DEF IInv
-----------------------------------------------------------------------------
(* The specification. *)

LEMMA CloseGoesOnStep == IInv /\ CloseGoesOn => IInv'
  BY TransportClosedStep, SessionsFlushedStep, SessionsRefusedStep, ShutdownExecutorStep,
     DestroyChannelStep, ChannelsDestroyedStep, LastStepsStep
  DEF CloseGoesOn

LEMMA StutterStep == IInv /\ UNCHANGED vars => IInv'
  <1> SUFFICES ASSUME IInv, UNCHANGED vars PROVE IInv'
    OBVIOUS
  <1>0. /\ Apart
        /\ UNCHANGED <<inputs, running, intervals, channels, subscribed, timers, replaced,
                       visited, heard,
                       methods, unsaved, counted, flushes, forgotten>>
    BY DEF vars, Apart, processVars, httpVars, browserVars, stateVars, sessionVars
  <1>1. TypeOK' /\ Bounded'
    BY <1>0 DEF IInv, TypeOK, Bounded, Apart
  <1>2. StepsInv'
    BY <1>0, StepsStay DEF IInv, Apart, stateVars
  <1> QED
    BY <1>0, <1>1, <1>2, ApartSteps DEF IInv

LEMMA NextInv == IInv /\ [Next]_vars => IInv'
  <1> SUFFICES ASSUME IInv, [Next]_vars PROVE IInv'
    OBVIOUS
  <1>1. CASE UNCHANGED vars
    BY <1>1, StutterStep
  <1>2. CASE Deploy \/ Connect
    BY <1>2, DeployStep, ConnectStep
  <1>3. ASSUME NEW h \in Https, Attach(h)
        PROVE  IInv'
    BY <1>3, AttachStep
  <1>4. ASSUME NEW b \in Browsers,
               Receive(b) \/ \E how \in {"end", "write"} : AppLater(b, how)
        PROVE  IInv'
    BY <1>4, AppLaterStep, ReceiveStep
  <1>5. ASSUME NEW b \in Browsers, NEW h \in Https, NEW path \in Paths,
               NEW method \in {"GET", "HEAD", "POST"}, NEW how \in {"end", "write", "later"},
               Ask(b, h, path, method, how)
        PROVE  IInv'
    BY <1>5, AskStep
  <1>6. ASSUME NEW b \in Browsers, NEW n \in DOMAIN attached, BeginUpgrade(b, n)
        PROVE  IInv'
    BY <1>6, BeginUpgradeStep
  <1>13. ASSUME NEW u \in upgrading, EndUpgrade(u)
         PROVE  IInv'
    BY <1>13, EndUpgradeStep
  <1>14. ASSUME NEW h \in Https, BadUpgrade(h)
         PROVE  IInv'
    BY <1>14, BadUpgradeStep
  <1>7. ASSUME NEW s \in sockets, SocketCloses(s)
        PROVE  IInv'
    BY <1>7, SocketClosesStep
  <1>8. ASSUME NEW c \in Calls, StartCall(c) \/ FinishCall(c)
        PROVE  IInv'
    BY <1>8, StartCallStep, FinishCallStep
  <1>9. ASSUME NEW k \in Keys, CreateSyncChannel(k) \/ SetState(k)
        PROVE  IInv'
    BY <1>9, CreateSyncChannelStep, SetStateStep
  <1>15. ASSUME NEW c \in timers, FlushTimer(c)
         PROVE  IInv'
    BY <1>15, FlushTimerStep
  <1>10. CASE SetSession \/ ApplyCrdt \/ Listen
    BY <1>10, SetSessionStep, ApplyCrdtStep, ListenStep
  <1>11. CASE IntervalFlush \/ IntervalFlushed \/ IntervalRefused
    BY <1>11, IntervalFlushStep, IntervalFlushedStep, IntervalRefusedStep
  <1>12. CASE Close \/ CloseGoesOn
    BY <1>12, CloseStep, CloseGoesOnStep
  <1> QED
    BY <1>1, <1>2, <1>3, <1>4, <1>5, <1>6, <1>7, <1>8, <1>9, <1>10, <1>11, <1>12,
       <1>13, <1>14, <1>15 DEF Next

LEMMA Invariant == Spec => []IInv
  BY InitInv, NextInv, PTL DEF Spec

\* Every variable keeps its type: in particular an attachment that a listener, a
\* socket or ServerTransport refers to has been made, and the executor knows only
\* connections whose socket is open (server-transport.ts:15).
THEOREM TypeCorrect == Spec => []TypeOK
  <1>1. IInv => TypeOK
    BY DEF IInv
  <1> QED
    BY <1>1, Invariant, PTL

\* Every HTTP request is answered once and by whom it should be, but for the two
\* exceptions OneAnswer names, whatever HTTP servers there are, however often the
\* server is attached to each, and whenever and however the application answers
\* (static-assets.ts:73, server-transport.ts:15).
THEOREM RequestsAnsweredOnce == Spec => []OneAnswer
  <1>1. IInv => OneAnswer
    BY DEF IInv
  <1> QED
    BY <1>1, Invariant, PTL

\* A close() that resolves has saved the sessions and left of the server only what
\* ResolvedIsClean names, for any number of keys, channels, calls, browsers and
\* upgrades under way (server.ts:295).
THEOREM CloseLeavesNothing == Spec => []ResolvedIsClean
  <1>1. IInv => ResolvedIsClean
    <2> SUFFICES ASSUME IInv, closing = "resolved", ~late, Len(attached) <= 1
                 PROVE  /\ intervals = {} /\ heard = {} /\ channels = {}
                        /\ timers \union subscribed \subseteq replaced
                        /\ sockets = {} /\ executor = {} /\ ~methods
                        /\ \A h \in Https : listeners[h] = <<0>>
                        /\ unsaved => forgotten
      BY DEF ResolvedIsClean
    <2>1. /\ closing \in AfterTransport /\ closing \in AfterSessions
          /\ closing \in AfterChannels \ {"crdt"} /\ closing \in AfterEvents
      BY DEF AfterTransport, AfterSessions, AfterChannels, AfterEvents, Steps
    <2>2. TypeOK /\ HttpInv /\ StepsInv /\ Left
      BY DEF IInv, StepsInv
    <2>3. /\ "sessions" \notin intervals /\ "limiter" \notin intervals
          /\ timers \union subscribed \subseteq replaced
          /\ "crdt" \notin heard /\ "event" \notin heard
          /\ channels = {} /\ ~methods /\ ~counted
      BY <2>1, <2>2 DEF Left
    <2>4. intervals = {} /\ heard = {}
      BY <2>2, <2>3 DEF TypeOK
    <2>5. sockets = {} /\ executor = {}
      BY <2>2 DEF HttpInv, TypeOK
    <2>6. ASSUME NEW h \in Https PROVE listeners[h] = <<0>>
      <3> DEFINE s == listeners[h]
      <3>1. s \in Seq(0..Len(attached)) /\ Len(s) \in Nat /\ Len(attached) \in Nat
        BY <2>2 DEF TypeOK
      <3>2. /\ Len(s) >= 1 /\ s[Len(s)] = 0
            /\ \A i \in 1..Len(s)-1 : s[i] \in 1..Len(attached) /\ s[i] \notin down
        BY <2>2 DEF HttpInv, Listening
      <3>3. attached = <<>> \/ Len(attached) \in down
        BY <2>2 DEF HttpInv
      <3>4. Len(attached) = 0 \/ (Len(attached) = 1 /\ 1 \in down)
        <4> DEFINE n == Len(attached)
        <4>1. n \in Nat /\ n <= 1 /\ (n = 0 \/ n \in down)
          BY <3>1, <3>3, EmptySeq
        <4> HIDE DEF n
        <4>2. n = 0 \/ n = 1
          BY <4>1
        <4>3. n = 0 \/ (n = 1 /\ 1 \in down)
          BY <4>1, <4>2
        <4> QED
          BY <4>3 DEF n
      <3> HIDE DEF s
      <3>5. Len(s) = 1
        <4> SUFFICES ASSUME Len(s) # 1 PROVE FALSE
          OBVIOUS
        <4>1. 1 \in 1..Len(s)-1
          <5> DEFINE k == Len(s)
          <5>1. k \in Nat /\ k >= 1 /\ k # 1
            BY <3>1, <3>2
          <5> HIDE DEF k
          <5>2. 1 \in 1..k-1
            BY <5>1
          <5> QED
            BY <5>2 DEF k
        <4>2. s[1] \in 1..Len(attached) /\ s[1] \notin down
          BY <3>2, <4>1
        <4> QED
          BY <3>4, <4>2
      <3>6. s = <<0>>
        BY <3>1, <3>2, <3>5
      <3> QED
        BY <3>6 DEF s
    <2> QED
      BY <2>2, <2>3, <2>4, <2>5, <2>6 DEF StepsInv
  <1> QED
    BY <1>1, Invariant, PTL

=============================================================================
