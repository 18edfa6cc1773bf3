---------------------- MODULE SessionsEvents_proofs ----------------------
(***************************************************************************)
(* Proofs about two primitives of the server that share no state.  About   *)
(* Sessions: for any set of users, any flush threshold, and any numbers of *)
(* mutations, flushes and restores.  About Events: for any servers,        *)
(* handlers and backends, and any number of events and registrations.      *)
(***************************************************************************)
EXTENDS Sessions, Events, SequenceTheorems, FiniteSetTheorems, TLAPS

-----------------------------------------------------------------------------
(* Sessions: the inductive invariant. *)

\* Editions count up to what was issued; a session that is not in memory has
\* no count.
Bounded ==
    /\ IsFiniteSet(loaded)
    /\ \A u \in Users : want[u] <= issued[u]
    /\ \A u \in Users : u \notin loaded => dirty[u] = 0
    /\ \A i \in 1..Len(flushes) : flushes[i].edition <= issued[flushes[i].user]
    /\ \A i \in 1..Len(restores) : restores[i].edition <= issued[restores[i].user]

\* The backend carries out writes in the order of the flushes.
StoredFirst ==
    \A i, j \in 1..Len(flushes) : i < j /\ flushes[j].stored => flushes[i].stored

\* While no restore has put back an older session: memory has the last
\* edition, and the flushes of a user carry older editions first, with what
\* the backend has between those it has carried out and the others.
Ascending(u) ==
    /\ u \in loaded => held[u] = want[u]
    /\ stored[u] <= want[u]
    /\ \A i \in 1..Len(flushes) : flushes[i].user = u =>
           /\ flushes[i].edition <= want[u]
           /\ flushes[i].stored => flushes[i].edition <= stored[u]
           /\ ~flushes[i].stored => stored[u] <= flushes[i].edition
    /\ \A i, j \in 1..Len(flushes) :
           i < j /\ flushes[i].user = u /\ flushes[j].user = u
               => flushes[i].edition <= flushes[j].edition

\* A clean count can be trusted, and destroy carries the others.
Saved(u) ==
    /\ dirty[u] = 0 => stored[u] = want[u]
    /\ phase = "destroying" =>
           \/ dirty[u] = 0
           \/ \E i \in 1..Len(flushes) :
                  flushes[i].user = u /\ flushes[i].by = "destroy"
    /\ phase = "destroyed" => dirty[u] = 0

OrderInv == \A u \in Users : "restore" \notin excuse[u] => Ascending(u)
SavedInv == \A u \in Users : excuse[u] = {} => Saved(u)

IInv == TypeOK /\ Bounded /\ StoredFirst /\ OrderInv /\ SavedInv
-----------------------------------------------------------------------------
(* Sessions: sequences. *)

\* Where an element was before the one at i was removed.
Was(i, j) == IF j < i THEN j ELSE j + 1

LEMMA RemoveAtFacts ==
    ASSUME NEW S, NEW s \in Seq(S), NEW i \in 1..Len(s)
    PROVE  /\ RemoveAt(s, i) \in Seq(S)
           /\ Len(RemoveAt(s, i)) = Len(s) - 1
           /\ \A j \in 1..Len(s) - 1 :
                  Was(i, j) \in 1..Len(s) /\ RemoveAt(s, i)[j] = s[Was(i, j)]
           /\ \A k \in 1..Len(s) :
                  k # i => \E j \in 1..Len(s) - 1 : Was(i, j) = k
  <1> DEFINE n == Len(s)
             a == SubSeq(s, 1, i-1)
             b == SubSeq(s, i+1, n)
  <1>1. n \in Nat /\ i \in 1..n /\ \A j \in 1..n : s[j] \in S
    OBVIOUS
  <1>2. /\ a \in Seq(S) /\ Len(a) = i - 1
        /\ \A j \in 1..i-1 : a[j] = s[j]
    <2>1. 1 \in Int /\ i - 1 \in Int /\ \A j \in 1..i-1 : s[j] \in S
      BY <1>1
    <2>2. /\ a \in Seq(S) /\ Len(a) = IF 1 <= i - 1 THEN (i-1)-1+1 ELSE 0
          /\ \A j \in 1..(i-1)-1+1 : a[j] = s[1+j-1]
      BY <2>1, SubSeqProperties
    <2> HIDE DEF a
    <2> QED
      BY <1>1, <2>2
  <1>3. /\ b \in Seq(S) /\ Len(b) = n - i
        /\ \A j \in 1..n-i : b[j] = s[i+j]
    <2>1. i + 1 \in Int /\ n \in Int /\ \A j \in i+1..n : s[j] \in S
      BY <1>1
    <2>2. /\ b \in Seq(S) /\ Len(b) = IF i + 1 <= n THEN n-(i+1)+1 ELSE 0
          /\ \A j \in 1..n-(i+1)+1 : b[j] = s[(i+1)+j-1]
      BY <2>1, SubSeqProperties
    <2> HIDE DEF b
    <2> QED
      BY <1>1, <2>2
  <1>4. /\ a \o b \in Seq(S) /\ Len(a \o b) = n - 1
        /\ \A j \in 1..n-1 : (a \o b)[j] = IF j <= i-1 THEN a[j] ELSE b[j-(i-1)]
    <2> HIDE DEF a, b, n
    <2>1. /\ a \o b \in Seq(S) /\ Len(a \o b) = Len(a) + Len(b)
          /\ \A j \in 1..Len(a) + Len(b) :
                 (a \o b)[j] = IF j <= Len(a) THEN a[j] ELSE b[j - Len(a)]
      BY <1>2, <1>3, ConcatProperties
    <2>2. Len(a) = i - 1 /\ Len(a) + Len(b) = n - 1
      BY <1>1, <1>2, <1>3
    <2> QED
      BY <2>1, <2>2
  <1>5. RemoveAt(s, i) = a \o b
    BY DEF RemoveAt
  <1>6. ASSUME NEW j \in 1..n-1
        PROVE  Was(i, j) \in 1..n /\ RemoveAt(s, i)[j] = s[Was(i, j)]
    <2>1. (a \o b)[j] = IF j <= i-1 THEN a[j] ELSE b[j-(i-1)]
      BY <1>4
    <2> HIDE DEF a, b, n
    <2>2. CASE j <= i-1
      <3>1. j \in 1..i-1 /\ Was(i, j) = j /\ j \in 1..n
        BY <1>1, <2>2 DEF Was
      <3> QED
        BY <1>2, <1>5, <2>1, <2>2, <3>1
    <2>3. CASE ~(j <= i-1)
      <3>1. j-(i-1) \in 1..n-i /\ Was(i, j) = i + (j-(i-1)) /\ Was(i, j) \in 1..n
        BY <1>1, <2>3 DEF Was
      <3> QED
        BY <1>3, <1>5, <2>1, <2>3, <3>1
    <2> QED
      BY <2>2, <2>3
  <1>7. ASSUME NEW k \in 1..n, k # i
        PROVE  \E j \in 1..n-1 : Was(i, j) = k
    <2> DEFINE j == IF k < i THEN k ELSE k - 1
    <2>1. j \in 1..n-1 /\ Was(i, j) = k
      BY <1>1, <1>7 DEF Was
    <2> QED
      BY <2>1
  <1> QED
    BY <1>4, <1>5, <1>6, <1>7

LEMMA LargestExists ==
    ASSUME NEW n \in Nat, NEW S \in SUBSET (1..n), S # {}
    PROVE  Max(S) \in S /\ \A j \in S : j <= Max(S)
  <1> DEFINE R == OpToRel(<, Nat)
             T == {m \in Nat : n - m \in S}
  <1>1. PICK s \in S : TRUE
    OBVIOUS
  <1>2. n - s \in T
    BY <1>1
  <1>3. \E x \in T : \A y \in T : ~ (<<y, x>> \in R)
    <2> HIDE DEF T
    <2> QED
      BY <1>2, NatLessThanWellFounded, WFMin DEF T
  <1>4. PICK x \in T : \A y \in T : ~ (<<y, x>> \in R)
    BY <1>3
  <1>5. \A y \in T : ~ (y < x)
    BY <1>4 DEF OpToRel
  <1>6. \A j \in S : n - j \in T
    OBVIOUS
  <1>7. \A j \in S : j <= n - x
    <2> SUFFICES ASSUME NEW j \in S PROVE j <= n - x
      OBVIOUS
    <2>1. ~(n - j < x) /\ j \in 1..n /\ x \in Nat
      BY <1>5, <1>6
    <2> QED
      BY <2>1
  <1>8. n - x \in S /\ \A y \in S : n - x >= y
    BY <1>7
  <1>9. \E x0 \in S : \A y \in S : x0 >= y
    BY <1>8
  <1>10. Max(S) \in S /\ \A y \in S : Max(S) >= y
    BY <1>9 DEF Max
  <1> QED
    BY <1>10

\* A finite set as a sequence: all its elements and no other.
LEMMA SetToSeqFacts ==
    ASSUME NEW S, IsFiniteSet(S)
    PROVE  /\ SetToSeq(S) \in Seq(S)
           /\ \A x \in S : \E n \in 1..Len(SetToSeq(S)) : SetToSeq(S)[n] = x
  <1> DEFINE m == Cardinality(S)
             f == SetToSeq(S)
  <1>1. m \in Nat /\ \E g : g \in Bijection(1..m, S)
    BY FS_CardinalityType DEF ExistsBijection
  <1>2. \E g \in [1..m -> S] : IsInjective(g)
    BY <1>1 DEF Bijection, Injection
  <1>3. f \in [1..m -> S] /\ IsInjective(f)
    BY <1>2 DEF SetToSeq
  <1>4. f \in Injection(1..m, S)
    BY <1>3 DEF Injection
  <1>5. Cardinality(1..m) = m
    BY <1>1, FS_Interval
  <1>6. f \in Surjection(1..m, S)
    BY <1>1, <1>4, <1>5, FS_Injection
  <1>7. f \in Seq(S) /\ Len(f) = m
    BY <1>1, <1>3
  <1> QED
    BY <1>6, <1>7 DEF Surjection

-----------------------------------------------------------------------------
(* Sessions: types. *)

LEMMA StoreFacts ==
    ASSUME TypeOK, NEW i \in 1..Len(flushes), Store(i)
    PROVE  /\ flushes' \in Seq(Flush) /\ Len(flushes') = Len(flushes)
           /\ \A j \in 1..Len(flushes) :
                  /\ flushes'[j].user = flushes[j].user
                  /\ flushes'[j].edition = flushes[j].edition
                  /\ flushes'[j].by = flushes[j].by
                  /\ flushes'[j].stored <=> flushes[j].stored \/ j = i
  <1> DEFINE f == [flushes[i] EXCEPT !.stored = TRUE]
  <1>1. flushes[i] \in Flush
    BY DEF TypeOK
  <1>2. /\ f \in Flush /\ f.user = flushes[i].user /\ f.edition = flushes[i].edition
        /\ f.by = flushes[i].by /\ f.stored = TRUE
    BY <1>1 DEF Flush
  <1>3. flushes' = [flushes EXCEPT ![i] = f]
    BY <1>1 DEF Store, TypeOK
  <1> HIDE DEF f
  <1>4. flushes \in Seq(Flush) /\ f \in Flush
    BY <1>2 DEF TypeOK
  <1>5. /\ flushes' \in Seq(Flush) /\ Len(flushes') = Len(flushes)
        /\ \A j \in 1..Len(flushes) : flushes'[j] = IF j = i THEN f ELSE flushes[j]
    BY <1>3, <1>4, ExceptSeq
  <1> QED
    BY <1>2, <1>5

\* Flushes have been added to the queue, of the sessions as they are now.
Grown ==
    /\ flushes' \in Seq(Flush) /\ Len(flushes') >= Len(flushes)
    /\ \A j \in 1..Len(flushes) : flushes'[j] = flushes[j]
    /\ \A j \in Len(flushes)+1..Len(flushes') :
           /\ flushes'[j].user \in loaded' /\ ~flushes'[j].stored
           /\ flushes'[j].edition = held'[flushes'[j].user]

LEMMA NotGrown ==
    ASSUME TypeOK, flushes' = flushes
    PROVE  Grown
  BY DEF TypeOK, Grown

LEMMA GrownByOne ==
    ASSUME TypeOK, loaded' \subseteq Users, held' \in [Users -> Edition],
           NEW u \in loaded', NEW by \in {"threshold", "app", "interval", "evict", "destroy"},
           flushes' = Append(flushes, Started(u, held'[u], by))
    PROVE  Grown
  <1> DEFINE f == Started(u, held'[u], by)
  <1>1. /\ f \in Flush /\ f.user = u /\ f.edition = held'[u] /\ ~f.stored
    BY DEF Started, Flush
  <1> HIDE DEF f
  <1>2. /\ flushes' \in Seq(Flush) /\ Len(flushes') = Len(flushes) + 1
        /\ \A j \in 1..Len(flushes) : flushes'[j] = flushes[j]
        /\ flushes'[Len(flushes) + 1] = f
    BY <1>1, AppendProperties DEF TypeOK, f
  <1>3. Len(flushes) \in Nat
    BY DEF TypeOK
  <1> QED
    BY <1>1, <1>2, <1>3 DEF Grown

\* flushAll reaches every loaded user with a count.
LEMMA GrownByAll ==
    ASSUME TypeOK, IsFiniteSet(loaded), UNCHANGED memVars,
           NEW by \in {"interval", "destroy"}, FlushAll(by)
    PROVE  /\ Grown
           /\ \A u \in loaded : dirty[u] > 0 =>
                  \E j \in 1..Len(flushes') :
                      flushes'[j].user = u /\ flushes'[j].by = by
  <1> DEFINE S == {u \in loaded : dirty[u] > 0}
             users == SetToSeq(S)
             m == Len(users)
             n == Len(flushes)
             new == [k \in 1..m |-> Started(users[k], held[users[k]], by)]
  <1>1. IsFiniteSet(S)
    BY FS_Subset
  <1>2. users \in Seq(S) /\ \A x \in S : \E k \in 1..m : users[k] = x
    BY <1>1, SetToSeqFacts
  <1> HIDE DEF users
  <1>3. m \in Nat /\ \A k \in 1..m : users[k] \in S
    BY <1>2
  <1>4. \A k \in 1..m : /\ new[k] \in Flush /\ new[k].user = users[k]
                        /\ new[k].edition = held[users[k]]
                        /\ ~new[k].stored /\ new[k].by = by
    <2> SUFFICES ASSUME NEW k \in 1..m
                 PROVE  /\ new[k] \in Flush /\ new[k].user = users[k]
                        /\ new[k].edition = held[users[k]]
                        /\ ~new[k].stored /\ new[k].by = by
      OBVIOUS
    <2>1. users[k] \in Users
      BY <1>3 DEF TypeOK
    <2> QED
      BY <2>1 DEF Started, Flush, TypeOK
  <1>5. new \in Seq(Flush) /\ Len(new) = m
    BY <1>3, <1>4
  <1>6. flushes' = flushes \o new
    BY DEF FlushAll, users
  <1> HIDE DEF new, S
  <1>7. /\ flushes' \in Seq(Flush) /\ Len(flushes') = n + m /\ n \in Nat
        /\ \A j \in 1..n+m : flushes'[j] = IF j <= n THEN flushes[j] ELSE new[j - n]
    <2>1. flushes \in Seq(Flush) /\ n \in Nat
      BY DEF TypeOK
    <2>2. /\ flushes \o new \in Seq(Flush)
          /\ Len(flushes \o new) = Len(flushes) + Len(new)
          /\ \A j \in 1..Len(flushes) + Len(new) :
                 (flushes \o new)[j] = IF j <= Len(flushes) THEN flushes[j]
                                       ELSE new[j - Len(flushes)]
      BY <1>5, <2>1, ConcatProperties
    <2> HIDE DEF m
    <2> QED
      BY <1>5, <1>6, <2>1, <2>2
  <1>8. \A k \in 1..m : n + k \in 1..n+m /\ flushes'[n+k] = new[k]
    BY <1>3, <1>7
  <1>9. ASSUME NEW j \in n+1..n+m
        PROVE  /\ flushes'[j].user \in loaded /\ ~flushes'[j].stored
               /\ flushes'[j].edition = held[flushes'[j].user]
    <2>1. j - n \in 1..m /\ flushes'[j] = new[j - n]
      BY <1>3, <1>7
    <2> QED
      BY <1>3, <1>4, <2>1 DEF S
  <1>10. Grown
    <2>1. \A j \in 1..n : flushes'[j] = flushes[j]
      BY <1>3, <1>7
    <2> QED
      BY <1>3, <1>7, <1>9, <2>1 DEF Grown, memVars
  <1>11. ASSUME NEW u \in loaded, dirty[u] > 0
         PROVE  \E j \in 1..Len(flushes') :
                    flushes'[j].user = u /\ flushes'[j].by = by
    <2>1. PICK k \in 1..m : users[k] = u
      BY <1>2, <1>11 DEF S
    <2> QED
      <3>1. n + k \in 1..Len(flushes') /\ flushes'[n+k] = new[k]
        BY <1>7, <1>8
      <3>2. new[k].user = u /\ new[k].by = by
        BY <1>4, <2>1
      <3> QED
        BY <3>1, <3>2
  <1> QED
    BY <1>10, <1>11

LEMMA TypeMutate ==
    ASSUME TypeOK, NEW u \in Users, Mutate(u)
    PROVE  /\ held' \in [Users -> Edition] /\ dirty' \in [Users -> Nat]
           /\ issued' \in [Users -> Edition] /\ want' \in [Users -> Edition]
           /\ excuse' \in [Users -> SUBSET Excuse]
           /\ \A v \in Users : held'[v] <= issued'[v] /\ issued[v] <= issued'[v]
           /\ held'[u] = issued'[u] /\ want'[u] = issued'[u] /\ dirty'[u] = dirty[u] + 1
           /\ issued'[u] = issued[u] + 1
           /\ \A v \in Users : v # u => /\ held'[v] = held[v] /\ want'[v] = want[v]
                                        /\ dirty'[v] = dirty[v]
                                        /\ issued'[v] = issued[v]
                                        /\ excuse'[v] = excuse[v]
           /\ excuse[u] \subseteq excuse'[u]
           /\ excuse'[u] = {} => /\ excuse[u] = {} /\ phase = "running"
                                 /\ u \in loaded \/ stored[u] = 0
  <1>1. /\ issued[u] < MaxEditions
        /\ issued' = [issued EXCEPT ![u] = issued[u] + 1]
        /\ held' = [held EXCEPT ![u] = issued[u] + 1]
        /\ want' = [want EXCEPT ![u] = issued[u] + 1]
        /\ dirty' = [dirty EXCEPT ![u] = dirty[u] + 1]
    BY DEF Mutate
  <1>2. /\ held \in [Users -> Edition] /\ dirty \in [Users -> Nat]
        /\ issued \in [Users -> Edition] /\ want \in [Users -> Edition]
        /\ excuse \in [Users -> SUBSET Excuse]
        /\ \A v \in Users : held[v] <= issued[v]
    BY DEF TypeOK
  <1> DEFINE reasons == (IF phase = "running" THEN {} ELSE {"late"})
                   \cup (IF u \in loaded \/ stored[u] = 0 THEN {} ELSE {"unloaded"})
  <1>3. excuse' = [excuse EXCEPT ![u] = excuse[u] \cup reasons]
    BY DEF Mutate, MutationExcused, Excused
  <1>4. /\ reasons \subseteq Excuse
        /\ reasons = {} => phase = "running" /\ (u \in loaded \/ stored[u] = 0)
    BY DEF Excuse
  <1> HIDE DEF reasons
  <1>5. /\ excuse' \in [Users -> SUBSET Excuse]
        /\ \A v \in Users : v # u => excuse'[v] = excuse[v]
        /\ excuse'[u] = excuse[u] \cup reasons
    BY <1>2, <1>3, <1>4
  <1>6. MaxEditions \in Nat /\ issued[u] \in Nat /\ issued[u] + 1 \in Edition
    BY <1>1, <1>2, BoundsAreNat DEF Edition
  <1>7. /\ held' \in [Users -> Edition] /\ issued' \in [Users -> Edition]
        /\ want' \in [Users -> Edition]
    BY <1>1, <1>2, <1>6
  <1>8. dirty' \in [Users -> Nat] /\ dirty'[u] = dirty[u] + 1
    BY <1>1, <1>2
  <1>9. /\ held'[u] = issued[u] + 1 /\ issued'[u] = issued[u] + 1
        /\ want'[u] = issued[u] + 1
        /\ \A v \in Users : v # u => /\ held'[v] = held[v] /\ want'[v] = want[v]
                                     /\ dirty'[v] = dirty[v]
                                     /\ issued'[v] = issued[v]
    BY <1>1, <1>2
  <1>10. \A v \in Users : held'[v] <= issued'[v] /\ issued[v] <= issued'[v]
    <2> SUFFICES ASSUME NEW v \in Users
                 PROVE  held'[v] <= issued'[v] /\ issued[v] <= issued'[v]
      OBVIOUS
    <2>1. held[v] \in Nat /\ issued[v] \in Nat /\ held[v] <= issued[v]
      BY <1>2 DEF Edition
    <2>2. CASE v = u
      BY <1>6, <1>9, <2>2
    <2>3. CASE v # u
      BY <1>9, <2>1, <2>3
    <2> QED
      BY <2>2, <2>3
  <1>11. excuse[u] \subseteq excuse'[u]
    BY <1>5
  <1>12. excuse'[u] = {} => /\ excuse[u] = {} /\ phase = "running"
                            /\ u \in loaded \/ stored[u] = 0
    BY <1>4, <1>5
  <1>13. /\ held'[u] = issued'[u] /\ want'[u] = issued'[u]
         /\ \A v \in Users : v # u => excuse'[v] = excuse[v]
    BY <1>5, <1>9
  <1> QED
    BY <1>5, <1>7, <1>8, <1>9, <1>10, <1>11, <1>12, <1>13

BaseInv == TypeOK /\ Bounded

FlushesBounded ==
    \A i \in 1..Len(flushes) : flushes[i].edition <= issued[flushes[i].user]

LEMMA GrownBounded ==
    ASSUME BaseInv, Grown, loaded' \in SUBSET Users,
           \A u \in Users : issued[u] <= issued'[u] /\ held'[u] <= issued'[u],
           issued' \in [Users -> Edition]
    PROVE  FlushesBounded'
  <1> SUFFICES ASSUME NEW j \in 1..Len(flushes')
               PROVE  flushes'[j].edition <= issued'[flushes'[j].user]
    BY DEF FlushesBounded
  <1>1. Len(flushes) \in Nat /\ Len(flushes') \in Nat
    BY DEF BaseInv, TypeOK, Grown
  <1>2. CASE j \in 1..Len(flushes)
    <2>1. flushes[j] \in Flush /\ flushes'[j] = flushes[j]
      BY <1>2 DEF BaseInv, TypeOK, Grown
    <2>2. flushes[j].edition <= issued[flushes[j].user]
      BY <1>2 DEF BaseInv, Bounded
    <2> QED
      BY <2>1, <2>2 DEF Flush, Edition, BaseInv, TypeOK
  <1>3. CASE j \in Len(flushes)+1..Len(flushes')
    BY <1>3 DEF Grown
  <1> QED
    BY <1>1, <1>2, <1>3

LEMMA RemovedFacts ==
    ASSUME TypeOK, NEW i \in 1..Len(flushes), flushes' = RemoveAt(flushes, i)
    PROVE  /\ flushes' \in Seq(Flush)
           /\ \A j \in 1..Len(flushes') :
                  Was(i, j) \in 1..Len(flushes) /\ flushes'[j] = flushes[Was(i, j)]
           /\ \A j, k \in 1..Len(flushes') : j < k => Was(i, j) < Was(i, k)
           /\ \A k \in 1..Len(flushes) :
                  k # i => \E j \in 1..Len(flushes') : flushes'[j] = flushes[k]
  <1>1. flushes \in Seq(Flush) /\ Len(flushes) \in Nat
    BY DEF TypeOK
  <1>2. /\ flushes' \in Seq(Flush) /\ Len(flushes') = Len(flushes) - 1
        /\ \A j \in 1..Len(flushes') :
               Was(i, j) \in 1..Len(flushes) /\ flushes'[j] = flushes[Was(i, j)]
        /\ \A k \in 1..Len(flushes) :
               k # i => \E j \in 1..Len(flushes') : Was(i, j) = k
    <2>1. /\ Len(RemoveAt(flushes, i)) = Len(flushes) - 1
          /\ RemoveAt(flushes, i) \in Seq(Flush)
          /\ \A j \in 1..Len(flushes) - 1 :
                 /\ Was(i, j) \in 1..Len(flushes)
                 /\ RemoveAt(flushes, i)[j] = flushes[Was(i, j)]
          /\ \A k \in 1..Len(flushes) :
                 k # i => \E j \in 1..Len(flushes) - 1 : Was(i, j) = k
      BY <1>1, RemoveAtFacts
    <2> QED
      BY <2>1
  <1>3. \A j, k \in 1..Len(flushes') : j < k => Was(i, j) < Was(i, k)
    BY <1>1 DEF Was
  <1> QED
    BY <1>2, <1>3

LEMMA RemovedBounded ==
    ASSUME BaseInv, NEW i \in 1..Len(flushes), flushes' = RemoveAt(flushes, i),
           UNCHANGED issued
    PROVE  FlushesBounded'
  <1> SUFFICES ASSUME NEW j \in 1..Len(flushes')
               PROVE  flushes'[j].edition <= issued[flushes'[j].user]
    BY DEF FlushesBounded
  <1>1. Was(i, j) \in 1..Len(flushes) /\ flushes'[j] = flushes[Was(i, j)]
    BY RemovedFacts DEF BaseInv
  <1> HIDE DEF Was
  <1> QED
    BY <1>1 DEF BaseInv, Bounded

\* A crash leaves what was stored, or a flush that reached the backend.
LEMMA CrashFacts ==
    ASSUME TypeOK, Crash, NEW u \in Users
    PROVE  \/ stored'[u] = stored[u]
           \/ \E k \in 1..Len(flushes) :
                 /\ flushes[k].user = u /\ ~flushes[k].stored
                 /\ stored'[u] = flushes[k].edition
  <1>1. PICK i \in 0..Len(flushes) :
            stored' = [v \in Users |->
                LET mine == {j \in 1..i : flushes[j].user = v /\ ~flushes[j].stored}
                IN  IF mine = {} THEN stored[v] ELSE flushes[Max(mine)].edition]
    BY DEF Crash
  <1> DEFINE mine == {j \in 1..i : flushes[j].user = u /\ ~flushes[j].stored}
  <1>2. CASE mine = {}
    BY <1>1, <1>2
  <1>3. CASE mine # {}
    <2>1. i \in Nat /\ i <= Len(flushes) /\ mine \in SUBSET (1..i) /\ Len(flushes) \in Nat
      BY DEF TypeOK
    <2>2. Max(mine) \in mine
      <3> HIDE DEF mine
      <3> QED
        BY <1>3, <2>1, LargestExists
    <2>3. stored'[u] = flushes[Max(mine)].edition
      BY <1>1, <1>3
    <2>4. Max(mine) \in 1..Len(flushes)
      BY <2>1, <2>2
    <2> QED
      BY <2>2, <2>3, <2>4
  <1> QED
    BY <1>2, <1>3

LEMMA BaseInit == Init => BaseInv
  BY FS_EmptySet, BoundsAreNat, EmptySeq
  DEF Init, BaseInv, TypeOK, Bounded, Edition

LEMMA BaseCrash ==
    ASSUME BaseInv, Crash
    PROVE  BaseInv'
  <1>1. ASSUME NEW u \in Users
        PROVE  stored'[u] \in Edition /\ stored'[u] <= issued[u]
    <2>1. CASE stored'[u] = stored[u]
      BY <2>1 DEF BaseInv, TypeOK
    <2>2. ASSUME NEW k \in 1..Len(flushes), flushes[k].user = u,
                 stored'[u] = flushes[k].edition
          PROVE  stored'[u] \in Edition /\ stored'[u] <= issued[u]
      <3>1. flushes[k] \in Flush /\ flushes[k].edition <= issued[flushes[k].user]
        BY DEF BaseInv, TypeOK, Bounded
      <3> QED
        BY <2>2, <3>1 DEF Flush
    <2> QED
      BY <2>1, <2>2, CrashFacts DEF BaseInv
  <1>2. stored' \in [Users -> Edition]
    BY <1>1 DEF Crash
  <1>3. TypeOK'
    <2>1. /\ phase' = "running" /\ loaded' = {} /\ want' = stored' /\ issued' = issued
          /\ held' = [u \in Users |-> 0] /\ dirty' = [u \in Users |-> 0]
          /\ flushes' = <<>> /\ evicts' = <<>> /\ restores' = <<>>
          /\ excuse' = [u \in Users |-> {}]
      BY DEF Crash
    <2>2. 0 \in Edition /\ \A u \in Users : 0 <= issued[u]
      BY BoundsAreNat DEF Edition, BaseInv, TypeOK
    <2> QED
      BY <1>1, <1>2, <2>1, <2>2, EmptySeq DEF BaseInv, TypeOK
  <1>4. Bounded'
    <2>1. /\ loaded' = {} /\ want' = stored' /\ issued' = issued
          /\ dirty' = [u \in Users |-> 0] /\ Len(flushes') = 0 /\ Len(restores') = 0
      BY EmptySeq DEF Crash
    <2> QED
      BY <1>1, <2>1, FS_EmptySet DEF Bounded
  <1> QED
    BY <1>3, <1>4 DEF BaseInv

LEMMA RestoresBounded ==
    ASSUME BaseInv, UNCHANGED restores, issued' \in [Users -> Edition],
           \A u \in Users : issued[u] <= issued'[u]
    PROVE  \A i \in 1..Len(restores') :
               restores'[i].edition <= issued'[restores'[i].user]
  <1> SUFFICES ASSUME NEW i \in 1..Len(restores)
               PROVE  restores[i].edition <= issued'[restores[i].user]
    OBVIOUS
  <1>1. restores[i] \in Restore /\ restores[i].edition <= issued[restores[i].user]
    BY DEF BaseInv, TypeOK, Bounded
  <1> DEFINE u == restores[i].user
  <1>2. u \in Users /\ restores[i].edition \in Nat
    BY <1>1 DEF Restore, Edition
  <1>3. issued[u] \in Nat /\ issued'[u] \in Nat /\ issued[u] <= issued'[u]
    BY <1>2 DEF BaseInv, TypeOK, Edition
  <1> QED
    BY <1>1, <1>2, <1>3

LEMMA BaseMutate ==
    ASSUME BaseInv, NEW u \in Users, Mutate(u), Grown, loaded' = loaded \cup {u},
           UNCHANGED <<phase, evicts, restores, stored>>
    PROVE  BaseInv'
  <1>1. /\ held' \in [Users -> Edition] /\ dirty' \in [Users -> Nat]
        /\ issued' \in [Users -> Edition] /\ want' \in [Users -> Edition]
        /\ excuse' \in [Users -> SUBSET Excuse]
        /\ \A v \in Users : held'[v] <= issued'[v] /\ issued[v] <= issued'[v]
        /\ want'[u] = issued'[u]
        /\ \A v \in Users : v # u => /\ want'[v] = want[v] /\ dirty'[v] = dirty[v]
                                     /\ issued'[v] = issued[v]
    BY TypeMutate DEF BaseInv
  <1>2. FlushesBounded'
    BY <1>1, GrownBounded DEF BaseInv, TypeOK
  <1>3. \A v \in Users : stored[v] <= issued'[v] /\ want'[v] <= issued'[v]
    <2> SUFFICES ASSUME NEW v \in Users
                 PROVE  stored[v] <= issued'[v] /\ want'[v] <= issued'[v]
      OBVIOUS
    <2>1. /\ stored[v] \in Nat /\ issued[v] \in Nat /\ issued'[v] \in Nat
          /\ stored[v] <= issued[v] /\ want[v] <= issued[v]
      BY <1>1 DEF BaseInv, TypeOK, Edition, Bounded
    <2> QED
      BY <1>1, <2>1
  <1>4. TypeOK'
    BY <1>1, <1>3 DEF BaseInv, TypeOK, Grown
  <1>5. IsFiniteSet(loaded')
    BY FS_AddElement DEF BaseInv, Bounded
  <1>6. \A i \in 1..Len(restores') : restores'[i].edition <= issued'[restores'[i].user]
    BY <1>1, RestoresBounded
  <1>7. \A v \in Users : v \notin loaded' => dirty'[v] = 0
    BY <1>1 DEF BaseInv, Bounded
  <1> QED
    BY <1>2, <1>3, <1>4, <1>5, <1>6, <1>7 DEF BaseInv, Bounded, FlushesBounded

LEMMA SetGrows ==
    ASSUME TypeOK, NEW u \in Users, NEW throws \in BOOLEAN, Set(u, throws)
    PROVE  Grown
  <1>1. loaded' \subseteq Users /\ held' \in [Users -> Edition] /\ u \in loaded'
    BY TypeMutate DEF Set, TypeOK
  <1> QED
    BY <1>1, GrownByOne, NotGrown DEF Set

LEMMA BaseSet ==
    ASSUME BaseInv, NEW u \in Users, NEW throws \in BOOLEAN, Set(u, throws)
    PROVE  BaseInv'
  BY SetGrows, BaseMutate DEF Set, BaseInv

LEMMA BaseDelete ==
    ASSUME BaseInv, NEW u \in Users, Delete(u)
    PROVE  BaseInv'
  <1>1. loaded' = loaded \cup {u}
    BY DEF Delete
  <1> QED
    BY <1>1, NotGrown, BaseMutate DEF Delete, BaseInv

\* More flushes of the sessions as they are.
LEMMA BaseGrow ==
    ASSUME BaseInv, Grown, UNCHANGED <<memVars, restores, stored, histVars>>,
           evicts' \in Seq(Users),
           phase' \in {"running", "destroying", "destroyed", "rejected"}
    PROVE  BaseInv'
  <1>1. FlushesBounded'
    <2>1. \A u \in Users : issued[u] <= issued'[u] /\ held'[u] <= issued'[u]
      BY DEF BaseInv, TypeOK, memVars, histVars, Edition
    <2> QED
      BY <2>1, GrownBounded DEF BaseInv, TypeOK, memVars, histVars
  <1>2. TypeOK'
    BY DEF BaseInv, TypeOK, Grown, memVars, histVars
  <1> QED
    BY <1>1, <1>2 DEF BaseInv, Bounded, FlushesBounded, memVars, histVars

LEMMA BaseBeginRestore ==
    ASSUME BaseInv, NEW u \in Users, BeginRestore(u)
    PROVE  BaseInv'
  <1> DEFINE r == [user |-> u, edition |-> stored[u]]
  <1>1. r \in Restore /\ r.edition <= issued[r.user]
    BY DEF Restore, BaseInv, TypeOK
  <1>2. restores' = Append(restores, r)
    BY DEF BeginRestore
  <1> HIDE DEF r
  <1>3. /\ restores' \in Seq(Restore) /\ Len(restores') = Len(restores) + 1
        /\ Len(restores) \in Nat
        /\ \A j \in 1..Len(restores) : restores'[j] = restores[j]
        /\ restores'[Len(restores) + 1] = r
    BY <1>1, <1>2, AppendProperties DEF BaseInv, TypeOK
  <1>4. UNCHANGED <<phase, memVars, flushes, evicts, stored, histVars>>
    BY DEF BeginRestore
  <1>5. \A j \in 1..Len(restores') : restores'[j].edition <= issued[restores'[j].user]
    <2> SUFFICES ASSUME NEW j \in 1..Len(restores')
                 PROVE  restores'[j].edition <= issued[restores'[j].user]
      OBVIOUS
    <2>1. j \in 1..Len(restores) \/ j = Len(restores) + 1
      BY <1>3
    <2> QED
      BY <1>1, <1>3, <2>1 DEF BaseInv, Bounded
  <1> QED
    BY <1>3, <1>4, <1>5 DEF BaseInv, TypeOK, Bounded, memVars, histVars

LEMMA EndRestoreFacts ==
    ASSUME BaseInv, NEW i \in 1..Len(restores), EndRestore(i)
    PROVE  LET u == restores[i].user
               e == restores[i].edition
           IN  /\ u \in Users /\ e \in Edition /\ e <= issued[u]
               /\ restores' \in Seq(Restore)
               /\ \A j \in 1..Len(restores') :
                      restores'[j].edition <= issued[restores'[j].user]
               /\ \/ UNCHANGED <<loaded, held, excuse>>
                  \/ /\ loaded' = loaded \cup {u}
                     /\ held' = [held EXCEPT ![u] = e]
                     /\ excuse' = [excuse EXCEPT ![u] =
                            @ \cup (IF e = want[u] THEN {} ELSE {"restore"})]
               /\ UNCHANGED <<phase, dirty, flushes, evicts, stored, issued, want>>
  <1>1. restores[i] \in Restore /\ restores[i].edition <= issued[restores[i].user]
    <2>1. restores \in Seq(Restore)
      BY DEF BaseInv, TypeOK
    <2>2. \A j \in 1..Len(restores) :
              restores[j].edition <= issued[restores[j].user]
      BY DEF BaseInv, Bounded
    <2> QED
      BY <2>1, <2>2
  <1>2. /\ RemoveAt(restores, i) \in Seq(Restore)
        /\ Len(RemoveAt(restores, i)) = Len(restores) - 1
        /\ \A j \in 1..Len(restores) - 1 :
               /\ Was(i, j) \in 1..Len(restores)
               /\ RemoveAt(restores, i)[j] = restores[Was(i, j)]
    <2>1. restores \in Seq(Restore)
      BY DEF BaseInv, TypeOK
    <2> QED
      BY <2>1, RemoveAtFacts
  <1>3. restores' = RemoveAt(restores, i)
    BY DEF EndRestore
  <1>4. \A j \in 1..Len(restores') :
            restores'[j].edition <= issued[restores'[j].user]
    BY <1>2, <1>3 DEF BaseInv, Bounded
  <1> QED
    BY <1>1, <1>2, <1>3, <1>4 DEF EndRestore, Excused, Restore

LEMMA BaseEndRestore ==
    ASSUME BaseInv, NEW i \in 1..Len(restores), EndRestore(i)
    PROVE  BaseInv'
  <1> DEFINE u == restores[i].user
             e == restores[i].edition
  <1>1. /\ u \in Users /\ e \in Edition /\ e <= issued[u]
        /\ restores' \in Seq(Restore)
        /\ \A j \in 1..Len(restores') :
               restores'[j].edition <= issued[restores'[j].user]
        /\ UNCHANGED <<phase, dirty, flushes, evicts, stored, issued, want>>
    BY EndRestoreFacts
  <1> HIDE DEF u, e
  <1>2. CASE UNCHANGED <<loaded, held, excuse>>
    BY <1>1, <1>2 DEF BaseInv, TypeOK, Bounded
  <1>3. CASE /\ loaded' = loaded \cup {u}
             /\ held' = [held EXCEPT ![u] = e]
             /\ excuse' = [excuse EXCEPT ![u] =
                    @ \cup (IF e = want[u] THEN {} ELSE {"restore"})]
    <2>1. IsFiniteSet(loaded')
      BY <1>3, FS_AddElement DEF BaseInv, Bounded
    <2>2. TypeOK'
      BY <1>1, <1>3 DEF BaseInv, TypeOK, Excuse
    <2> QED
      BY <1>1, <1>3, <2>1, <2>2 DEF BaseInv, Bounded
  <1> QED
    BY <1>2, <1>3, EndRestoreFacts DEF u, e

LEMMA BaseStore ==
    ASSUME BaseInv, NEW i \in 1..Len(flushes), Store(i)
    PROVE  BaseInv'
  <1>1. /\ flushes' \in Seq(Flush) /\ Len(flushes') = Len(flushes)
        /\ \A j \in 1..Len(flushes) :
               /\ flushes'[j].user = flushes[j].user
               /\ flushes'[j].edition = flushes[j].edition
    BY StoreFacts DEF BaseInv
  <1>2. /\ stored' = [stored EXCEPT ![flushes[i].user] = flushes[i].edition]
        /\ UNCHANGED <<phase, memVars, evicts, restores, histVars>>
    BY DEF Store
  <1>3. flushes[i] \in Flush /\ flushes[i].edition <= issued[flushes[i].user]
    BY DEF BaseInv, TypeOK, Bounded
  <1>4. stored' \in [Users -> Edition] /\ \A u \in Users : stored'[u] <= issued[u]
    BY <1>2, <1>3 DEF BaseInv, TypeOK, Flush
  <1> QED
    BY <1>1, <1>2, <1>4 DEF BaseInv, TypeOK, Bounded, memVars, histVars

LEMMA BaseFinish ==
    ASSUME BaseInv, NEW i \in 1..Len(flushes), Finish(i)
    PROVE  BaseInv'
  <1> DEFINE u == flushes[i].user
  <1>1. /\ flushes' = RemoveAt(flushes, i)
        /\ dirty' = [dirty EXCEPT ![u] = 0]
        /\ evicts' \in {evicts, Append(evicts, u)}
        /\ excuse' = [excuse EXCEPT ![u] =
               @ \cup (IF flushes[i].edition = want[u] THEN {} ELSE {"overlap"})]
        /\ UNCHANGED <<phase, loaded, held, restores, stored, issued, want>>
    BY DEF Finish, Excused
  <1>2. u \in Users
    <2>1. flushes[i] \in Flush
      BY DEF BaseInv, TypeOK
    <2> QED
      BY <2>1 DEF Flush
  <1>3. flushes' \in Seq(Flush)
    BY <1>1, RemovedFacts DEF BaseInv
  <1>4. FlushesBounded'
    BY <1>1, RemovedBounded
  <1> HIDE DEF u
  <1>5. evicts' \in Seq(Users)
    <2>1. evicts \in Seq(Users)
      BY DEF BaseInv, TypeOK
    <2>2. Append(evicts, u) \in Seq(Users)
      BY <1>2, <2>1, AppendProperties
    <2> QED
      BY <1>1, <2>1, <2>2
  <1>6. TypeOK'
    <2>1. TypeOK
      BY DEF BaseInv
    <2>2. dirty' \in [Users -> Nat]
      BY <1>1, <2>1 DEF TypeOK
    <2>3. excuse' \in [Users -> SUBSET Excuse]
      <3>1. excuse[u] \subseteq Excuse
        BY <1>2, <2>1 DEF TypeOK
      <3>2. excuse[u] \cup (IF flushes[i].edition = want[u] THEN {} ELSE {"overlap"})
                \in SUBSET Excuse
        BY <3>1 DEF Excuse
      <3>3. excuse \in [Users -> SUBSET Excuse]
        BY <2>1 DEF TypeOK
      <3> QED
        BY <1>1, <1>2, <3>2, <3>3
    <2> QED
      BY <1>1, <1>3, <1>5, <2>1, <2>2, <2>3 DEF TypeOK
  <1>7. IsFiniteSet(loaded') /\ \A v \in Users : v \notin loaded' => dirty'[v] = 0
    BY <1>1, <1>2 DEF BaseInv, Bounded, TypeOK
  <1> QED
    BY <1>1, <1>4, <1>6, <1>7 DEF BaseInv, Bounded, FlushesBounded

LEMMA BaseRefuse ==
    ASSUME BaseInv, NEW i \in 1..Len(flushes), Refuse(i)
    PROVE  BaseInv'
  <1>1. /\ flushes' = RemoveAt(flushes, i)
        /\ phase' \in {phase, "rejected"}
        /\ UNCHANGED <<memVars, evicts, restores, stored, histVars>>
    BY DEF Refuse
  <1>2. flushes' \in Seq(Flush) /\ FlushesBounded'
    BY <1>1, RemovedFacts, RemovedBounded DEF BaseInv, histVars
  <1> QED
    BY <1>1, <1>2 DEF BaseInv, TypeOK, Bounded, FlushesBounded, memVars, histVars

LEMMA BaseEndEvict ==
    ASSUME BaseInv, EndEvict
    PROVE  BaseInv' /\ Head(evicts) \in Users
  <1> DEFINE u == Head(evicts)
  <1>1. /\ evicts # <<>> /\ evicts' = Tail(evicts) /\ evicts \in Seq(Users)
        /\ loaded' = loaded \ {u}
        /\ held' = [held EXCEPT ![u] = 0]
        /\ dirty' = [dirty EXCEPT ![u] = 0]
        /\ excuse' = [excuse EXCEPT ![u] =
               @ \cup (IF dirty[u] = 0 THEN {} ELSE {"evicted"})]
        /\ UNCHANGED <<phase, flushes, restores, stored, issued, want>>
    BY DEF EndEvict, Excused, BaseInv, TypeOK
  <1>2. u \in Users /\ evicts' \in Seq(Users)
    BY <1>1, HeadTailProperties
  <1>3. 0 \in Edition /\ \A v \in Users : 0 <= issued[v]
    BY BoundsAreNat DEF Edition, BaseInv, TypeOK
  <1> HIDE DEF u
  <1>4. TypeOK'
    BY <1>1, <1>2, <1>3 DEF BaseInv, TypeOK, Excuse
  <1>5. IsFiniteSet(loaded') /\ \A v \in Users : v \notin loaded' => dirty'[v] = 0
    BY <1>1, <1>2, FS_Subset DEF BaseInv, Bounded, TypeOK
  <1> QED
    BY <1>1, <1>2, <1>4, <1>5 DEF BaseInv, Bounded, u

-----------------------------------------------------------------------------
(* Sessions: the queue of flushes, and what the backend has. *)

LEMMA FlushType ==
    ASSUME TypeOK, NEW i \in 1..Len(flushes)
    PROVE  /\ flushes[i] \in Flush /\ flushes[i].user \in Users
           /\ flushes[i].edition \in Nat
  <1>1. flushes[i] \in Flush
    BY DEF TypeOK
  <1> QED
    BY <1>1 DEF Flush, Edition

LEMMA UserType ==
    ASSUME TypeOK, NEW u \in Users
    PROVE  /\ held[u] \in Nat /\ stored[u] \in Nat /\ want[u] \in Nat
           /\ issued[u] \in Nat /\ dirty[u] \in Nat
  BY DEF TypeOK, Edition

LEMMA StoredFirstGrown ==
    ASSUME TypeOK, StoredFirst, Grown
    PROVE  StoredFirst'
  <1> SUFFICES ASSUME NEW j \in 1..Len(flushes'), NEW k \in 1..Len(flushes'),
                      j < k, flushes'[k].stored
               PROVE  flushes'[j].stored
    BY DEF StoredFirst
  <1>1. Len(flushes) \in Nat /\ Len(flushes') \in Nat
    BY DEF TypeOK, Grown
  <1>2. k \in 1..Len(flushes)
    <2>1. k \notin Len(flushes)+1..Len(flushes')
      BY DEF Grown
    <2> QED
      BY <1>1, <2>1
  <1>3. j \in 1..Len(flushes)
    BY <1>1, <1>2
  <1>4. flushes'[j] = flushes[j] /\ flushes'[k] = flushes[k]
    BY <1>2, <1>3 DEF Grown
  <1> QED
    BY <1>2, <1>3, <1>4 DEF StoredFirst

LEMMA StoredFirstRemoved ==
    ASSUME TypeOK, StoredFirst, NEW i \in 1..Len(flushes),
           flushes' = RemoveAt(flushes, i)
    PROVE  StoredFirst'
  <1> SUFFICES ASSUME NEW j \in 1..Len(flushes'), NEW k \in 1..Len(flushes'),
                      j < k, flushes'[k].stored
               PROVE  flushes'[j].stored
    BY DEF StoredFirst
  <1> DEFINE wj == Was(i, j)
             wk == Was(i, k)
  <1>1. /\ wj \in 1..Len(flushes) /\ flushes'[j] = flushes[wj]
        /\ wk \in 1..Len(flushes) /\ flushes'[k] = flushes[wk]
        /\ wj < wk
    BY RemovedFacts
  <1> HIDE DEF wj, wk
  <1> QED
    BY <1>1 DEF StoredFirst

LEMMA StoredFirstStore ==
    ASSUME TypeOK, StoredFirst, NEW i \in 1..Len(flushes), Store(i)
    PROVE  StoredFirst'
  <1>1. /\ Len(flushes') = Len(flushes)
        /\ \A j \in 1..Len(flushes) : flushes'[j].stored <=> flushes[j].stored \/ j = i
    BY StoreFacts
  <1>2. \A j \in 1..i-1 : flushes[j].stored
    BY DEF Store
  <1> QED
    BY <1>1, <1>2 DEF StoredFirst, TypeOK

\* New flushes carry the newest edition.
LEMMA AscendingGrown ==
    ASSUME TypeOK, TypeOK', NEW u \in Users, Ascending(u), Grown, UNCHANGED stored,
           want[u] <= want'[u], u \in loaded' => held'[u] = want'[u]
    PROVE  Ascending(u)'
  <1> DEFINE n == Len(flushes)
             m == Len(flushes')
  <1>1. n \in Nat /\ m \in Nat /\ n <= m
    BY DEF TypeOK, Grown
  <1>2. stored[u] \in Nat /\ want[u] \in Nat /\ want'[u] \in Nat /\ stored'[u] = stored[u]
    BY UserType DEF TypeOK, Edition
  <1>3. stored[u] <= want[u]
    BY DEF Ascending
  <1>4. ASSUME NEW i \in 1..m, flushes'[i].user = u
        PROVE  /\ i \notin 1..n => flushes'[i].edition = want'[u] /\ ~flushes'[i].stored
               /\ flushes'[i].edition \in Nat
               /\ i \in 1..n => flushes[i] = flushes'[i] /\ flushes'[i].edition <= want[u]
    <2>1. CASE i \in 1..n
      <3>1. flushes[i] = flushes'[i] /\ flushes[i].edition \in Nat
        BY <2>1, FlushType DEF Grown
      <3>2. flushes[i].edition <= want[u]
        BY <1>4, <2>1, <3>1 DEF Ascending
      <3> QED
        BY <2>1, <3>1, <3>2
    <2>2. CASE i \notin 1..n
      <3>1. i \in n+1..m
        BY <1>1, <2>2
      <3>2. u \in loaded' /\ ~flushes'[i].stored /\ flushes'[i].edition = held'[u]
        BY <1>4, <3>1 DEF Grown
      <3> QED
        BY <1>2, <2>2, <3>2
    <2> QED
      BY <2>1, <2>2
  <1> HIDE DEF n, m
  <1>5. \A i \in 1..m : flushes'[i].user = u =>
            /\ flushes'[i].edition <= want'[u]
            /\ flushes'[i].stored => flushes'[i].edition <= stored'[u]
            /\ ~flushes'[i].stored => stored'[u] <= flushes'[i].edition
    <2> SUFFICES ASSUME NEW i \in 1..m, flushes'[i].user = u
                 PROVE  /\ flushes'[i].edition <= want'[u]
                        /\ flushes'[i].stored => flushes'[i].edition <= stored'[u]
                        /\ ~flushes'[i].stored => stored'[u] <= flushes'[i].edition
      OBVIOUS
    <2>1. CASE i \in 1..n
      BY <1>2, <1>4, <2>1 DEF Ascending, n
    <2>2. CASE i \notin 1..n
      BY <1>2, <1>3, <1>4, <2>2
    <2> QED
      BY <2>1, <2>2
  <1>6. \A i, j \in 1..m :
            i < j /\ flushes'[i].user = u /\ flushes'[j].user = u
                => flushes'[i].edition <= flushes'[j].edition
    <2> SUFFICES ASSUME NEW i \in 1..m, NEW j \in 1..m, i < j,
                        flushes'[i].user = u, flushes'[j].user = u
                 PROVE  flushes'[i].edition <= flushes'[j].edition
      OBVIOUS
    <2>1. CASE j \in 1..n
      <3>1. i \in 1..n
        BY <1>1, <2>1
      <3> QED
        BY <1>4, <2>1, <3>1 DEF Ascending, n
    <2>2. CASE j \notin 1..n
      BY <1>2, <1>4, <2>2
    <2> QED
      BY <2>1, <2>2
  <1>7. stored'[u] <= want'[u]
    BY <1>2, <1>3
  <1> QED
    BY <1>5, <1>6, <1>7 DEF Ascending, m

LEMMA AscendingRemoved ==
    ASSUME TypeOK, NEW u \in Users, Ascending(u), NEW i \in 1..Len(flushes),
           flushes' = RemoveAt(flushes, i), UNCHANGED <<stored, want>>,
           u \in loaded' => u \in loaded /\ held'[u] = held[u]
    PROVE  Ascending(u)'
  <1>1. ASSUME NEW j \in 1..Len(flushes'), flushes'[j].user = u
        PROVE  /\ flushes'[j].edition <= want[u]
               /\ flushes'[j].stored => flushes'[j].edition <= stored[u]
               /\ ~flushes'[j].stored => stored[u] <= flushes'[j].edition
    <2> DEFINE w == Was(i, j)
    <2>1. w \in 1..Len(flushes) /\ flushes'[j] = flushes[w]
      BY RemovedFacts
    <2> HIDE DEF w
    <2> QED
      BY <1>1, <2>1 DEF Ascending
  <1>2. ASSUME NEW j \in 1..Len(flushes'), NEW k \in 1..Len(flushes'), j < k,
               flushes'[j].user = u, flushes'[k].user = u
        PROVE  flushes'[j].edition <= flushes'[k].edition
    <2> DEFINE wj == Was(i, j)
               wk == Was(i, k)
    <2>1. /\ wj \in 1..Len(flushes) /\ flushes'[j] = flushes[wj]
          /\ wk \in 1..Len(flushes) /\ flushes'[k] = flushes[wk]
          /\ wj < wk
      BY <1>2, RemovedFacts
    <2> HIDE DEF wj, wk
    <2> QED
      BY <1>2, <2>1 DEF Ascending
  <1> QED
    BY <1>1, <1>2 DEF Ascending

LEMMA AscendingStore ==
    ASSUME TypeOK, StoredFirst, NEW u \in Users, Ascending(u),
           NEW i \in 1..Len(flushes), Store(i)
    PROVE  Ascending(u)' /\ stored[u] <= stored'[u]
  <1>1. /\ Len(flushes') = Len(flushes)
        /\ \A j \in 1..Len(flushes) :
               /\ flushes'[j].user = flushes[j].user
               /\ flushes'[j].edition = flushes[j].edition
               /\ flushes'[j].stored <=> flushes[j].stored \/ j = i
    BY StoreFacts
  <1>2. /\ ~flushes[i].stored
        /\ stored' = [stored EXCEPT ![flushes[i].user] = flushes[i].edition]
        /\ UNCHANGED <<loaded, held, want>>
    BY DEF Store, memVars, histVars
  <1>3. \A j \in 1..Len(flushes) : flushes[j].edition \in Nat
    BY FlushType
  <1>4. CASE flushes[i].user # u
    <2>1. stored'[u] = stored[u] /\ stored[u] \in Nat
      BY <1>2, <1>4, UserType DEF TypeOK
    <2> QED
      BY <1>1, <1>2, <1>4, <2>1 DEF Ascending
  <1>5. CASE flushes[i].user = u
    <2>1. stored'[u] = flushes[i].edition /\ stored[u] <= flushes[i].edition
      BY <1>2, <1>5 DEF Ascending, TypeOK
    <2>2. flushes[i].edition <= want[u]
      BY <1>5 DEF Ascending
    <2>3. ASSUME NEW j \in 1..Len(flushes), flushes[j].user = u
          PROVE  /\ flushes'[j].stored => flushes[j].edition <= stored'[u]
                 /\ ~flushes'[j].stored => stored'[u] <= flushes[j].edition
      <3>1. i \in Nat /\ j \in Nat /\ Len(flushes) \in Nat
        BY DEF TypeOK
      <3>2. CASE j = i
        BY <1>1, <1>3, <2>1, <3>2
      <3>3. CASE j < i
        <4>1. flushes[j].edition <= flushes[i].edition
          BY <1>5, <2>3, <3>3 DEF Ascending
        <4>2. flushes[j].stored
          BY <3>1, <3>3 DEF Store
        <4> QED
          BY <1>1, <2>1, <4>1, <4>2
      <3>4. CASE j > i
        <4>1. flushes[i].edition <= flushes[j].edition
          BY <1>5, <2>3, <3>4 DEF Ascending
        <4>2. ~flushes[j].stored
          BY <1>2, <3>4 DEF StoredFirst
        <4> QED
          BY <1>1, <2>1, <3>4, <4>1, <4>2
      <3> QED
        BY <3>1, <3>2, <3>3, <3>4
    <2> QED
      BY <1>1, <1>2, <2>1, <2>2, <2>3 DEF Ascending
  <1> QED
    BY <1>4, <1>5

LEMMA AscendingEmpty ==
    ASSUME NEW u \in Users, flushes' = <<>>, loaded' = {}, stored'[u] \in Nat,
           want' = stored'
    PROVE  Ascending(u)'
  <1>1. Len(flushes') = 0
    BY EmptySeq
  <1> QED
    BY <1>1 DEF Ascending

\* The backend never goes back to an older edition in a crash either.
LEMMA CrashAscends ==
    ASSUME TypeOK, Crash, NEW u \in Users, Ascending(u)
    PROVE  stored[u] <= stored'[u]
  <1>1. CASE stored'[u] = stored[u]
    BY <1>1, UserType
  <1>2. ASSUME NEW k \in 1..Len(flushes), flushes[k].user = u, ~flushes[k].stored,
               stored'[u] = flushes[k].edition
        PROVE  stored[u] <= stored'[u]
    BY <1>2 DEF Ascending
  <1> QED
    BY <1>1, <1>2, CrashFacts

-----------------------------------------------------------------------------
(* Sessions: nothing is lost. *)

DestroyFlushesKept ==
    \A k \in 1..Len(flushes) : flushes[k].by = "destroy" =>
        \E j \in 1..Len(flushes') :
            flushes'[j].user = flushes[k].user /\ flushes'[j].by = "destroy"

LEMMA KeptGrown ==
    ASSUME TypeOK, Grown
    PROVE  DestroyFlushesKept
  <1>1. Len(flushes) \in Nat /\ Len(flushes') \in Nat
    BY DEF TypeOK, Grown
  <1> QED
    BY <1>1 DEF DestroyFlushesKept, Grown

LEMMA KeptRemoved ==
    ASSUME TypeOK, NEW i \in 1..Len(flushes), flushes' = RemoveAt(flushes, i),
           flushes[i].by # "destroy"
    PROVE  DestroyFlushesKept
  <1> SUFFICES ASSUME NEW k \in 1..Len(flushes), flushes[k].by = "destroy"
               PROVE  \E j \in 1..Len(flushes') :
                          flushes'[j].user = flushes[k].user /\ flushes'[j].by = "destroy"
    BY DEF DestroyFlushesKept
  <1>1. k # i
    OBVIOUS
  <1>2. PICK j \in 1..Len(flushes') : flushes'[j] = flushes[k]
    BY <1>1, RemovedFacts
  <1> QED
    BY <1>2

\* A step that neither counts a mutation nor drops a flush of destroy.
LEMMA SavedKept ==
    ASSUME NEW u \in Users, Saved(u), dirty'[u] = dirty[u],
           phase' \in {phase, "running", "rejected"}, DestroyFlushesKept,
           dirty[u] = 0 => stored'[u] = want'[u]
    PROVE  Saved(u)'
  <1>1. /\ phase' = "destroying" => phase = "destroying"
        /\ phase' = "destroyed" => phase = "destroyed"
    OBVIOUS
  <1>2. ASSUME phase = "destroying", dirty[u] # 0
        PROVE  \E j \in 1..Len(flushes') :
                   flushes'[j].user = u /\ flushes'[j].by = "destroy"
    <2>1. PICK k \in 1..Len(flushes) :
              flushes[k].user = u /\ flushes[k].by = "destroy"
      BY <1>2 DEF Saved
    <2> QED
      BY <2>1 DEF DestroyFlushesKept
  <1> QED
    BY <1>1, <1>2 DEF Saved

-----------------------------------------------------------------------------
(* Sessions: the invariant, action by action. *)

LEMMA InitIInv == Init => IInv
  <1> SUFFICES ASSUME Init PROVE IInv
    OBVIOUS
  <1>1. BaseInv
    BY BaseInit
  <1>2. Len(flushes) = 0
    BY EmptySeq DEF Init
  <1>3. StoredFirst
    BY <1>2 DEF StoredFirst
  <1>4. ASSUME NEW u \in Users
        PROVE  Ascending(u) /\ Saved(u)
    BY <1>2 DEF Init, Ascending, Saved
  <1> QED
    BY <1>1, <1>3, <1>4 DEF IInv, BaseInv, OrderInv, SavedInv

LEMMA StepMutate ==
    ASSUME IInv, NEW v \in Users, Mutate(v), Grown, loaded' = loaded \cup {v},
           UNCHANGED <<phase, evicts, restores, stored>>
    PROVE  IInv'
  <1>1. TypeOK /\ BaseInv /\ TypeOK' /\ BaseInv'
    BY BaseMutate DEF IInv, BaseInv
  <1>2. StoredFirst'
    BY <1>1, StoredFirstGrown DEF IInv
  <1>3. ASSUME NEW u \in Users, "restore" \notin excuse'[u]
        PROVE  Ascending(u)'
    <2>1. "restore" \notin excuse[u]
      BY <1>1, <1>3, TypeMutate
    <2>2. Ascending(u)
      BY <2>1 DEF IInv, OrderInv
    <2>3. want[u] <= want'[u] /\ (u \in loaded' => held'[u] = want'[u])
      <3>1. CASE u = v
        BY <1>1, <3>1, TypeMutate, UserType DEF Bounded, BaseInv
      <3>2. CASE u # v
        BY <1>1, <2>2, <3>2, TypeMutate, UserType DEF Ascending
      <3> QED
        BY <3>1, <3>2
    <2> QED
      BY <1>1, <2>2, <2>3, AscendingGrown
  <1>4. ASSUME NEW u \in Users, excuse'[u] = {}
        PROVE  Saved(u)'
    <2>1. CASE u = v
      BY SMTT(30), <1>1, <1>4, <2>1, TypeMutate, UserType DEF Saved
    <2>2. CASE u # v
      <3>1. /\ excuse[u] = {} /\ dirty'[u] = dirty[u] /\ want'[u] = want[u]
            /\ stored'[u] = stored[u] /\ phase' = phase
        BY <1>1, <1>4, <2>2, TypeMutate
      <3>2. Saved(u)
        BY <3>1 DEF IInv, SavedInv
      <3>3. DestroyFlushesKept
        BY <1>1, KeptGrown
      <3>4. dirty[u] = 0 => stored'[u] = want'[u]
        BY <3>1, <3>2 DEF Saved
      <3> QED
        BY <3>1, <3>2, <3>3, <3>4, SavedKept
    <2> QED
      BY <2>1, <2>2
  <1> QED
    BY <1>1, <1>2, <1>3, <1>4 DEF IInv, OrderInv, SavedInv, BaseInv

LEMMA StepSet ==
    ASSUME IInv, NEW u \in Users, NEW throws \in BOOLEAN, Set(u, throws)
    PROVE  IInv'
  <1>1. Grown
    BY SetGrows DEF IInv
  <1> QED
    BY <1>1, StepMutate DEF Set

LEMMA StepDelete ==
    ASSUME IInv, NEW u \in Users, Delete(u)
    PROVE  IInv'
  <1>1. loaded' = loaded \cup {u} /\ Grown
    BY NotGrown DEF Delete, IInv
  <1> QED
    BY <1>1, StepMutate DEF Delete

\* More flushes of the sessions as they are: flushUser, evict and flushAll.
LEMMA OrderGrow ==
    ASSUME IInv, Grown, UNCHANGED <<memVars, restores, stored, histVars>>,
           evicts' \in Seq(Users),
           phase' \in {"running", "destroying", "destroyed", "rejected"}
    PROVE  BaseInv' /\ StoredFirst' /\ OrderInv'
  <1>1. TypeOK /\ BaseInv /\ TypeOK' /\ BaseInv'
    BY BaseGrow DEF IInv, BaseInv
  <1>2. StoredFirst'
    BY <1>1, StoredFirstGrown DEF IInv
  <1>3. ASSUME NEW u \in Users, "restore" \notin excuse'[u]
        PROVE  Ascending(u)'
    <2>1. Ascending(u)
      BY <1>3 DEF IInv, OrderInv, histVars
    <2>2. want[u] <= want'[u] /\ (u \in loaded' => held'[u] = want'[u])
      BY <1>1, <2>1, UserType DEF Ascending, memVars, histVars
    <2> QED
      BY <1>1, <2>1, <2>2, AscendingGrown
  <1> QED
    BY <1>1, <1>2, <1>3 DEF OrderInv

LEMMA StepGrow ==
    ASSUME IInv, Grown, UNCHANGED <<phase, memVars, restores, stored, histVars>>,
           evicts' \in Seq(Users)
    PROVE  IInv'
  <1>1. TypeOK /\ phase' \in {"running", "destroying", "destroyed", "rejected"}
    BY DEF IInv, TypeOK
  <1>2. BaseInv' /\ StoredFirst' /\ OrderInv'
    BY <1>1, OrderGrow
  <1>3. ASSUME NEW u \in Users, excuse'[u] = {}
        PROVE  Saved(u)'
    <2>1. Saved(u)
      BY <1>3 DEF IInv, SavedInv, histVars
    <2>2. DestroyFlushesKept
      BY <1>1, KeptGrown
    <2>3. dirty[u] = 0 => stored'[u] = want'[u]
      BY <2>1 DEF Saved, histVars
    <2> QED
      BY <2>1, <2>2, <2>3, SavedKept DEF memVars
  <1> QED
    BY <1>2, <1>3 DEF IInv, SavedInv, BaseInv

LEMMA StepFlushUser ==
    ASSUME IInv, NEW u \in Users, FlushUser(u)
    PROVE  IInv'
  <1>1. Grown /\ evicts' \in Seq(Users)
    BY GrownByOne DEF FlushUser, IInv, TypeOK, memVars
  <1> QED
    BY <1>1, StepGrow DEF FlushUser

LEMMA StepEvict ==
    ASSUME IInv, NEW u \in Users, Evict(u)
    PROVE  IInv'
  <1>1. CASE u \in loaded
    <2>1. Grown /\ evicts' \in Seq(Users)
      BY <1>1, GrownByOne DEF Evict, IInv, TypeOK, memVars
    <2> QED
      BY <2>1, StepGrow DEF Evict
  <1>2. CASE u \notin loaded
    <2>1. Grown /\ evicts' \in Seq(Users)
      <3>1. TypeOK /\ evicts \in Seq(Users) /\ flushes' = flushes
            /\ evicts' = Append(evicts, u)
        BY <1>2 DEF Evict, IInv, TypeOK
      <3>2. Append(evicts, u) \in Seq(Users)
        BY <3>1, AppendProperties
      <3> QED
        BY <3>1, <3>2, NotGrown
    <2> QED
      BY <2>1, StepGrow DEF Evict
  <1> QED
    BY <1>1, <1>2

\* What evict drops is in the backend, or that is the excuse.
LEMMA StepEndEvict ==
    ASSUME IInv, EndEvict
    PROVE  IInv'
  <1> DEFINE v == Head(evicts)
  <1>1. TypeOK /\ BaseInv /\ BaseInv' /\ v \in Users
    BY BaseEndEvict DEF IInv, BaseInv
  <1>2. /\ loaded' = loaded \ {v}
        /\ held' = [held EXCEPT ![v] = 0]
        /\ dirty' = [dirty EXCEPT ![v] = 0]
        /\ excuse' = [excuse EXCEPT ![v] =
               @ \cup (IF dirty[v] = 0 THEN {} ELSE {"evicted"})]
        /\ UNCHANGED <<phase, flushes, restores, stored, issued, want>>
    BY DEF EndEvict, Excused
  <1> HIDE DEF v
  <1>3. ASSUME NEW u \in Users
        PROVE  /\ excuse[u] \subseteq excuse'[u]
               /\ u \in loaded' => u \in loaded /\ held'[u] = held[u]
               /\ excuse'[u] = {} => dirty'[u] = dirty[u]
    BY <1>1, <1>2 DEF TypeOK
  <1>4. ASSUME NEW u \in Users, "restore" \notin excuse'[u]
        PROVE  Ascending(u)'
    BY <1>2, <1>3, <1>4 DEF IInv, OrderInv, Ascending
  <1>5. ASSUME NEW u \in Users, excuse'[u] = {}
        PROVE  Saved(u)'
    BY <1>2, <1>3, <1>5 DEF IInv, SavedInv, Saved
  <1>6. StoredFirst'
    BY <1>2 DEF IInv, StoredFirst
  <1> QED
    BY <1>1, <1>4, <1>5, <1>6 DEF IInv, BaseInv, OrderInv, SavedInv

LEMMA StepInterval ==
    ASSUME IInv, Interval
    PROVE  IInv'
  <1>1. Grown /\ evicts' \in Seq(Users)
    BY GrownByAll DEF Interval, IInv, Bounded, TypeOK
  <1> QED
    BY <1>1, StepGrow DEF Interval

LEMMA StepDestroy ==
    ASSUME IInv, Destroy
    PROVE  IInv'
  <1>1. /\ Grown
        /\ \A u \in loaded : dirty[u] > 0 =>
               \E j \in 1..Len(flushes') :
                   flushes'[j].user = u /\ flushes'[j].by = "destroy"
    BY GrownByAll DEF Destroy, IInv, Bounded
  <1>2. /\ phase' = "destroying" /\ evicts' \in Seq(Users)
        /\ UNCHANGED <<memVars, restores, stored, histVars>>
    BY DEF Destroy, IInv, TypeOK
  <1>3. BaseInv' /\ StoredFirst' /\ OrderInv'
    BY <1>1, <1>2, OrderGrow
  <1>4. ASSUME NEW u \in Users, excuse'[u] = {}
        PROVE  Saved(u)'
    <2>1. Saved(u)
      BY <1>2, <1>4 DEF IInv, SavedInv, histVars
    <2>2. dirty[u] # 0 => u \in loaded /\ dirty[u] > 0
      BY UserType DEF IInv, Bounded
    <2> QED
      BY <1>1, <1>2, <2>1, <2>2 DEF Saved, memVars, histVars
  <1> QED
    BY <1>3, <1>4 DEF IInv, SavedInv, BaseInv

LEMMA StepDestroyed ==
    ASSUME IInv, Destroyed
    PROVE  IInv'
  <1>1. /\ phase = "destroying" /\ phase' = "destroyed"
        /\ \A i \in 1..Len(flushes) : flushes[i].by # "destroy"
        /\ evicts' \in Seq(Users)
        /\ UNCHANGED <<memVars, flushes, restores, stored, histVars>>
    BY DEF Destroyed, IInv, TypeOK
  <1>2. BaseInv' /\ StoredFirst' /\ OrderInv'
    BY <1>1, NotGrown, OrderGrow DEF IInv
  <1>3. ASSUME NEW u \in Users, excuse'[u] = {}
        PROVE  Saved(u)'
    <2>1. Saved(u)
      BY <1>1, <1>3 DEF IInv, SavedInv, histVars
    <2> QED
      BY <1>1, <2>1 DEF Saved, memVars, histVars
  <1> QED
    BY <1>2, <1>3 DEF IInv, SavedInv, BaseInv

LEMMA StepBeginRestore ==
    ASSUME IInv, NEW v \in Users, BeginRestore(v)
    PROVE  IInv'
  <1>1. BaseInv'
    BY BaseBeginRestore DEF IInv, BaseInv
  <1>2. UNCHANGED <<phase, memVars, flushes, stored, histVars>>
    BY DEF BeginRestore
  <1> QED
    BY <1>1, <1>2 DEF IInv, BaseInv, StoredFirst, OrderInv, Ascending, SavedInv,
                      Saved, memVars, histVars

\* What is put back is the last edition, or that is the excuse.
LEMMA StepEndRestore ==
    ASSUME IInv, NEW i \in 1..Len(restores), EndRestore(i)
    PROVE  IInv'
  <1> DEFINE v == restores[i].user
             e == restores[i].edition
  <1>1. BaseInv /\ BaseInv'
    BY BaseEndRestore DEF IInv, BaseInv
  <1>2. /\ v \in Users /\ UNCHANGED <<phase, dirty, flushes, evicts, stored, issued, want>>
        /\ \/ UNCHANGED <<loaded, held, excuse>>
           \/ /\ loaded' = loaded \cup {v}
              /\ held' = [held EXCEPT ![v] = e]
              /\ excuse' = [excuse EXCEPT ![v] =
                     @ \cup (IF e = want[v] THEN {} ELSE {"restore"})]
    BY <1>1, EndRestoreFacts
  <1> HIDE DEF v, e
  <1>3. ASSUME NEW u \in Users
        PROVE  /\ excuse[u] \subseteq excuse'[u]
               /\ "restore" \notin excuse'[u] /\ u \in loaded'
                      => \/ u \in loaded /\ held'[u] = held[u]
                         \/ held'[u] = want[u]
    BY ZenonT(40), <1>1, <1>2 DEF BaseInv, TypeOK
  <1>4. ASSUME NEW u \in Users, "restore" \notin excuse'[u]
        PROVE  Ascending(u)'
    <2>1. Ascending(u)
      BY <1>3, <1>4 DEF IInv, OrderInv
    <2>2. u \in loaded' => held'[u] = want'[u]
      BY <1>2, <1>3, <1>4, <2>1 DEF Ascending
    <2> QED
      BY <1>2, <2>1, <2>2 DEF Ascending
  <1>5. ASSUME NEW u \in Users, excuse'[u] = {}
        PROVE  Saved(u)'
    <2>1. Saved(u)
      BY <1>3, <1>5 DEF IInv, SavedInv
    <2> QED
      BY <1>2, <2>1 DEF Saved
  <1>6. StoredFirst'
    BY <1>2 DEF IInv, StoredFirst
  <1> QED
    BY <1>1, <1>4, <1>5, <1>6 DEF IInv, BaseInv, OrderInv, SavedInv

LEMMA StepStore ==
    ASSUME IInv, NEW i \in 1..Len(flushes), Store(i)
    PROVE  IInv'
  <1>1. TypeOK /\ BaseInv /\ BaseInv' /\ StoredFirst /\ StoredFirst'
    BY BaseStore, StoredFirstStore DEF IInv, BaseInv
  <1>2. ASSUME NEW u \in Users, "restore" \notin excuse'[u]
        PROVE  Ascending(u) /\ Ascending(u)' /\ stored[u] <= stored'[u]
    <2>1. Ascending(u)
      BY <1>2 DEF IInv, OrderInv, Store, histVars
    <2> QED
      BY <1>1, <2>1, AscendingStore
  <1>3. UNCHANGED <<phase, memVars, histVars>>
    BY DEF Store
  <1>4. DestroyFlushesKept
    BY <1>1, StoreFacts DEF DestroyFlushesKept
  <1>5. ASSUME NEW u \in Users, excuse'[u] = {}
        PROVE  Saved(u)'
    <2>1. Saved(u)
      BY <1>3, <1>5 DEF IInv, SavedInv, histVars
    <2>2. stored[u] <= stored'[u] /\ stored'[u] <= want'[u]
      BY <1>2, <1>5 DEF Ascending
    <2>3. dirty[u] = 0 => stored'[u] = want'[u]
      <3>1. stored[u] \in Nat /\ want[u] \in Nat /\ stored'[u] \in Nat /\ want'[u] = want[u]
        BY <1>1, <1>3, UserType DEF BaseInv, TypeOK, Edition, histVars
      <3> QED
        BY <2>1, <2>2, <3>1 DEF Saved
    <2> QED
      BY <1>3, <1>4, <2>1, <2>3, SavedKept DEF memVars
  <1> QED
    BY <1>1, <1>2, <1>5 DEF IInv, BaseInv, OrderInv, SavedInv

LEMMA StepFinish ==
    ASSUME IInv, NEW i \in 1..Len(flushes), Finish(i)
    PROVE  IInv'
  <1> DEFINE v == flushes[i].user
  <1>1. TypeOK /\ BaseInv /\ BaseInv'
    BY BaseFinish DEF IInv, BaseInv
  <1>2. v \in Users /\ flushes[i].edition \in Nat
    BY <1>1, FlushType
  <1>3. /\ flushes[i].stored /\ flushes' = RemoveAt(flushes, i)
        /\ dirty' = [dirty EXCEPT ![v] = 0]
        /\ excuse' = [excuse EXCEPT ![v] =
               @ \cup (IF flushes[i].edition = want[v] THEN {} ELSE {"overlap"})]
        /\ UNCHANGED <<phase, loaded, held, restores, stored, issued, want>>
    BY DEF Finish, Excused
  <1> HIDE DEF v
  <1>4. StoredFirst'
    BY <1>1, <1>3, StoredFirstRemoved DEF IInv
  <1>5. ASSUME NEW u \in Users
        PROVE  /\ excuse[u] \subseteq excuse'[u]
               /\ u \in loaded' => u \in loaded /\ held'[u] = held[u]
               /\ u # v => dirty'[u] = dirty[u]
               /\ u = v => /\ dirty'[u] = 0
                           /\ excuse'[u] = {} => flushes[i].edition = want[u]
    BY <1>1, <1>2, <1>3 DEF TypeOK
  <1>6. ASSUME NEW u \in Users, "restore" \notin excuse'[u]
        PROVE  Ascending(u) /\ Ascending(u)'
    <2>1. Ascending(u)
      BY <1>5, <1>6 DEF IInv, OrderInv
    <2> QED
      BY <1>1, <1>3, <1>5, <2>1, AscendingRemoved
  <1>7. ASSUME NEW u \in Users, excuse'[u] = {}
        PROVE  Saved(u)'
    <2>1. Saved(u)
      BY <1>5, <1>7 DEF IInv, SavedInv
    <2>2. stored'[u] = stored[u] /\ want'[u] = want[u] /\ phase' = phase
      BY <1>3
    <2>3. CASE u = v
      <3>1. flushes[i].edition <= stored[u] /\ stored[u] <= want[u]
        BY <1>3, <1>6, <1>7, <2>3 DEF Ascending, v
      <3>2. stored[u] = want[u]
        BY <1>1, <1>5, <1>7, <2>3, <3>1, UserType
      <3> QED
        BY <1>5, <2>2, <2>3, <3>2 DEF Saved
    <2>4. CASE u # v
      <3>1. ASSUME phase = "destroying", dirty[u] # 0
            PROVE  \E j \in 1..Len(flushes') :
                       flushes'[j].user = u /\ flushes'[j].by = "destroy"
        <4>1. PICK k \in 1..Len(flushes) :
                  flushes[k].user = u /\ flushes[k].by = "destroy"
          BY <2>1, <3>1 DEF Saved
        <4>2. k # i
          BY <2>4, <4>1 DEF v
        <4>3. PICK j \in 1..Len(flushes') : flushes'[j] = flushes[k]
          BY <1>1, <1>3, <4>2, RemovedFacts
        <4> QED
          BY <4>1, <4>3
      <3> QED
        BY <1>5, <2>1, <2>2, <2>4, <3>1 DEF Saved
    <2> QED
      BY <2>3, <2>4
  <1> QED
    BY <1>1, <1>4, <1>6, <1>7 DEF IInv, BaseInv, OrderInv, SavedInv

LEMMA StepRefuse ==
    ASSUME IInv, NEW i \in 1..Len(flushes), Refuse(i)
    PROVE  IInv'
  <1>1. TypeOK /\ BaseInv /\ BaseInv'
    BY BaseRefuse DEF IInv, BaseInv
  <1>2. /\ flushes' = RemoveAt(flushes, i)
        /\ phase' = IF flushes[i].by = "destroy" THEN "rejected" ELSE phase
        /\ UNCHANGED <<memVars, restores, stored, histVars>>
    BY DEF Refuse
  <1>3. StoredFirst'
    BY <1>1, <1>2, StoredFirstRemoved DEF IInv
  <1>4. ASSUME NEW u \in Users, "restore" \notin excuse'[u]
        PROVE  Ascending(u)'
    <2>1. Ascending(u)
      BY <1>2, <1>4 DEF IInv, OrderInv, histVars
    <2> QED
      BY <1>1, <1>2, <2>1, AscendingRemoved DEF memVars, histVars
  <1>5. ASSUME NEW u \in Users, excuse'[u] = {}
        PROVE  Saved(u)'
    <2>1. Saved(u)
      BY <1>2, <1>5 DEF IInv, SavedInv, histVars
    <2>2. dirty'[u] = dirty[u] /\ (dirty[u] = 0 => stored'[u] = want'[u])
      BY <1>2, <2>1 DEF Saved, memVars, histVars
    <2>3. CASE flushes[i].by = "destroy"
      BY <1>2, <2>1, <2>2, <2>3 DEF Saved
    <2>4. CASE flushes[i].by # "destroy"
      <3>1. DestroyFlushesKept
        BY <1>1, <1>2, <2>4, KeptRemoved
      <3> QED
        BY <1>2, <2>1, <2>2, <2>4, <3>1, SavedKept
    <2> QED
      BY <2>3, <2>4
  <1> QED
    BY <1>1, <1>3, <1>4, <1>5 DEF IInv, BaseInv, OrderInv, SavedInv

LEMMA StepCrash ==
    ASSUME IInv, Crash
    PROVE  IInv'
  <1>1. BaseInv'
    BY BaseCrash DEF IInv, BaseInv
  <1>2. /\ phase' = "running" /\ loaded' = {} /\ flushes' = <<>>
        /\ dirty' = [u \in Users |-> 0] /\ want' = stored'
    BY DEF Crash
  <1>3. Len(flushes') = 0
    BY <1>2, EmptySeq
  <1>4. ASSUME NEW u \in Users
        PROVE  Ascending(u)' /\ Saved(u)'
    <2>1. stored'[u] \in Nat
      BY <1>1 DEF BaseInv, TypeOK, Edition
    <2>2. Saved(u)'
      BY <1>2 DEF Saved
    <2> QED
      BY <1>2, <2>1, <2>2, AscendingEmpty
  <1> QED
    BY <1>1, <1>3, <1>4 DEF IInv, BaseInv, StoredFirst, OrderInv, SavedInv

LEMMA StepIInv == IInv /\ [Next]_vars => IInv'
  <1> SUFFICES ASSUME IInv, [Next]_vars PROVE IInv'
    OBVIOUS
  <1>1. CASE \E u \in Users, throws \in BOOLEAN : Set(u, throws)
    BY <1>1, StepSet
  <1>2. CASE \E u \in Users : Delete(u)
    BY <1>2, StepDelete
  <1>3. CASE \E u \in Users : FlushUser(u)
    BY <1>3, StepFlushUser
  <1>4. CASE \E u \in Users : Evict(u)
    BY <1>4, StepEvict
  <1>5. CASE \E u \in Users : BeginRestore(u)
    BY <1>5, StepBeginRestore
  <1>6. CASE \E i \in 1..Len(restores) : EndRestore(i)
    BY <1>6, StepEndRestore
  <1>7. CASE \E i \in 1..Len(flushes) : Store(i)
    BY <1>7, StepStore
  <1>8. CASE \E i \in 1..Len(flushes) : Finish(i)
    BY <1>8, StepFinish
  <1>9. CASE \E i \in 1..Len(flushes) : Refuse(i)
    BY <1>9, StepRefuse
  <1>10. CASE \E i \in 1..Len(flushes) : RefuseInterval(i)
    BY <1>10, StepCrash DEF RefuseInterval
  <1>11. CASE Crash
    BY <1>11, StepCrash
  <1>12. CASE Interval
    BY <1>12, StepInterval
  <1>13. CASE Destroy
    BY <1>13, StepDestroy
  <1>14. CASE Destroyed
    BY <1>14, StepDestroyed
  <1>15. CASE EndEvict
    BY <1>15, StepEndEvict
  <1>16. CASE UNCHANGED vars
    <2>1. /\ phase' = phase /\ loaded' = loaded /\ held' = held /\ dirty' = dirty
          /\ flushes' = flushes /\ evicts' = evicts /\ restores' = restores
          /\ stored' = stored /\ issued' = issued /\ want' = want /\ excuse' = excuse
      BY <1>16 DEF vars, memVars, histVars
    <2>2. TypeOK'
      BY <2>1 DEF IInv, TypeOK
    <2>3. Bounded' /\ StoredFirst'
      BY <2>1 DEF IInv, Bounded, StoredFirst
    <2>4. \A u \in Users : (Ascending(u) => Ascending(u)') /\ (Saved(u) => Saved(u)')
      BY Zenon, <2>1 DEF Ascending, Saved
    <2>5. OrderInv' /\ SavedInv'
      BY <2>1, <2>4 DEF IInv, OrderInv, SavedInv
    <2> QED
      BY <2>2, <2>3, <2>5 DEF IInv
  <1> QED
    BY <1>1, <1>2, <1>3, <1>4, <1>5, <1>6, <1>7, <1>8, <1>9, <1>10, <1>11,
       <1>12, <1>13, <1>14, <1>15, <1>16 DEF Next

LEMMA Invariant == Spec => []IInv
  BY InitIInv, StepIInv, PTL DEF Spec

-----------------------------------------------------------------------------
(* Sessions: theorems. *)

\* The variables keep their types, and no session is held or stored in an
\* edition that was not made (the fields of SessionManager).
THEOREM TypeCorrect == Spec => []TypeOK
  BY Invariant, PTL DEF IInv

LEMMA SavedFromIInv == IInv => SavedOrExcused
  <1> SUFFICES ASSUME IInv PROVE SavedOrExcused
    OBVIOUS
  <1>1. ASSUME NEW u \in Users, excuse[u] = {}
        PROVE  Saved(u)
    BY <1>1 DEF IInv, SavedInv
  <1>2. NothingLost
    BY <1>1 DEF NothingLost, Saved
  <1>3. DestroyPersists
    BY <1>1 DEF DestroyPersists, Saved
  <1> QED
    BY <1>2, <1>3 DEF SavedOrExcused

\* What is not counted as dirty is in the backend in its last edition, and so
\* is everything once destroy has resolved, through refusals, crashes,
\* evictions and restores in any order, unless the application mutated a
\* session during its flush or its eviction, after destroy began, or without
\* loading it, or loaded an older one over it (flushUser, evict, destroy).
THEOREM EditionsAreSaved == Spec => []SavedOrExcused
  BY Invariant, SavedFromIInv, PTL

LEMMA StoredStep ==
    IInv /\ [Next]_vars =>
        [\A u \in Users : "restore" \notin excuse[u] => stored'[u] >= stored[u]]_vars
  <1> SUFFICES ASSUME IInv, [Next]_vars,
                      NEW u \in Users, "restore" \notin excuse[u]
               PROVE  stored'[u] >= stored[u]
    OBVIOUS
  <1>1. Ascending(u) /\ TypeOK /\ StoredFirst
    BY DEF IInv, OrderInv
  <1>2. stored[u] \in Nat /\ stored'[u] \in Nat
    <2>1. TypeOK'
      BY StepIInv DEF IInv
    <2> QED
      BY <1>1, <2>1 DEF TypeOK, Edition
  <1>3. CASE UNCHANGED stored
    BY <1>2, <1>3
  <1>4. ASSUME NEW i \in 1..Len(flushes), Store(i)
        PROVE  stored[u] <= stored'[u]
    BY <1>1, <1>4, AscendingStore
  <1>5. CASE Crash
    BY <1>1, <1>2, <1>5, CrashAscends
  <1> QED
    BY <1>2, <1>3, <1>4, <1>5
    DEF Next, vars, Set, Delete, FlushUser, Evict, EndEvict, BeginRestore,
        EndRestore, Finish, Refuse, RefuseInterval, Interval, Destroy, Destroyed

\* No flush, whatever it overlaps, and no crash puts an older edition of a
\* session over a newer one in the backend, as long as no restore put one back
\* in memory (flushUser and the order of the backend's writes).
THEOREM NeverRegresses == Spec => PersistNeverRegresses
  BY Invariant, StoredStep, PTL DEF Spec, PersistNeverRegresses

-----------------------------------------------------------------------------
(* Events: the inductive invariant. *)

Emitted == 1..Len(emitter)

\* What an account may yet become: its events, then those on their way.
HandlerLine(s, h) == heard[s][h] \o wire[s]
PageLine(s) == (shown[s] \o down[s]) \o wire[s]
Lines == {HandlerLine(s, h) : s \in Servers, h \in Handlers}
             \cup {PageLine(s) : s \in Servers}

\* The bus listens with the backend once, as long as it has an entry.
BusInv ==
    \A s \in Servers :
        /\ taps[s] = IF entry[s] THEN 1 ELSE 0
        /\ handlers[s] # {} => entry[s]

\* The memory backend calls its subscribers before publish returns.
AtOnce ==
    backend = "memory" => \A s \in Servers : out[s] = <<>> /\ wire[s] = <<>>

\* OneOrder, of the lines.
LinesInv ==
    /\ \A q \in Lines : ToSet(q) \subseteq Emitted
    /\ \A p, q \in Lines, d, e \in Events : ~(Before(p, d, e) /\ Before(q, e, d))
    /\ backend # "postgres" =>
          \A q \in Lines, d, e \in Events :
              Before(q, e, d) /\ d < e => emitter[d] # emitter[e]

\* What has yet to reach the backend is on no line, waits once and with its
\* emitter; Redis has taken all that this server emitted before it.
OutInv ==
    \A t \in Servers :
        /\ \A x \in ToSet(out[t]) :
              /\ x \in Emitted /\ emitter[x] = t
              /\ ~Before(out[t], x, x)
              /\ \A q \in Lines : x \notin ToSet(q)
        /\ backend = "redis" =>
              /\ \A d, e \in Events : Before(out[t], d, e) => d < e
              /\ \A q \in Lines : \A d \in ToSet(q), e \in ToSet(out[t]) :
                     emitter[d] = t => d < e

\* OwedIsOnItsWay; and a server that was within hearing still is, with the
\* handler in its set.
OwedInv ==
    \A s \in Servers : alive[s] => \A p \in owed[s] :
        /\ p[1] \in handlers[s] /\ p[2] \in Emitted
        /\ backend = "redis" => ear[s] = "open"
        /\ backend = "postgres" => link[s] = "up"
        /\ \/ p[2] \in ToSet(heard[s][p[1]])
           \/ p[2] \in ToSet(wire[s])
           \/ \E t \in Servers : p[2] \in ToSet(out[t])

EventsInv == EventsTypeOK /\ BusInv /\ AtOnce /\ LinesInv /\ OutInv /\ OwedInv
-----------------------------------------------------------------------------
(* Events: sequences and the order of what is in them. *)

\* Before in two sequences one after the other.
LEMMA BeforeConcat ==
    ASSUME NEW S, NEW a \in Seq(S), NEW b \in Seq(S), NEW d, NEW e
    PROVE  /\ a \o b \in Seq(S)
           /\ ToSet(a \o b) = ToSet(a) \cup ToSet(b)
           /\ Before(a \o b, d, e) <=> \/ Before(a, d, e)
                                       \/ Before(b, d, e)
                                       \/ d \in ToSet(a) /\ e \in ToSet(b)
  <1> DEFINE m == Len(a)
             n == Len(b)
             c == a \o b
  <1>1. m \in Nat /\ n \in Nat /\ DOMAIN a = 1..m /\ DOMAIN b = 1..n
    OBVIOUS
  <1>2. /\ c \in Seq(S) /\ DOMAIN c = 1..(m + n)
        /\ \A i \in 1..(m + n) : c[i] = IF i <= m THEN a[i] ELSE b[i - m]
    BY ConcatProperties
  <1> HIDE DEF c, m, n
  <1>3. \A i \in 1..m : i \in 1..(m + n) /\ c[i] = a[i]
    BY <1>1, <1>2
  <1>4. \A i \in 1..n : m + i \in 1..(m + n) /\ c[m + i] = b[i]
    BY <1>1, <1>2
  <1>5. ASSUME NEW i \in 1..(m + n), ~(i <= m)
        PROVE  i - m \in 1..n /\ c[i] = b[i - m]
    BY <1>1, <1>2, <1>5
  <1>6. \A i \in 1..(m + n) : i <= m => i \in 1..m
    BY <1>1
  <1>7. ToSet(c) = ToSet(a) \cup ToSet(b)
    <2>1. /\ ToSet(a) = {a[i] : i \in 1..m} /\ ToSet(b) = {b[i] : i \in 1..n}
          /\ ToSet(c) = {c[i] : i \in 1..(m + n)}
      BY <1>1, <1>2 DEF ToSet
    <2>2. ToSet(c) \subseteq ToSet(a) \cup ToSet(b)
      <3> SUFFICES ASSUME NEW i \in 1..(m + n)
                   PROVE  c[i] \in ToSet(a) \cup ToSet(b)
        BY <2>1
      <3> QED
        BY <1>3, <1>5, <1>6, <2>1
    <2>3. ToSet(a) \subseteq ToSet(c)
      BY <1>3, <2>1
    <2>4. ToSet(b) \subseteq ToSet(c)
      BY <1>4, <2>1
    <2> QED
      BY <2>2, <2>3, <2>4
  <1>8. ASSUME Before(c, d, e)
        PROVE  \/ Before(a, d, e) \/ Before(b, d, e)
               \/ d \in ToSet(a) /\ e \in ToSet(b)
    <2>1. PICK i, j \in 1..(m + n) : i < j /\ c[i] = d /\ c[j] = e
      BY <1>2, <1>8 DEF Before
    <2>2. CASE j <= m
      <3>1. i \in 1..m /\ j \in 1..m
        BY <1>1, <2>1, <2>2
      <3> QED
        BY <1>1, <1>3, <2>1, <3>1 DEF Before
    <2>3. CASE ~(j <= m) /\ i <= m
      BY <1>1, <1>3, <1>5, <1>6, <2>1, <2>3 DEF ToSet
    <2>4. CASE ~(j <= m) /\ ~(i <= m)
      <3>1. i - m \in 1..n /\ j - m \in 1..n /\ i - m < j - m
        BY <1>1, <1>5, <2>1, <2>4
      <3> QED
        BY <1>1, <1>5, <2>1, <2>4, <3>1 DEF Before
    <2> QED
      BY <2>2, <2>3, <2>4
  <1>9. ASSUME Before(a, d, e)
        PROVE  Before(c, d, e)
    <2>1. PICK i, j \in 1..m : i < j /\ a[i] = d /\ a[j] = e
      BY <1>1, <1>9 DEF Before
    <2> QED
      BY <1>2, <1>3, <2>1 DEF Before
  <1>10. ASSUME Before(b, d, e)
         PROVE  Before(c, d, e)
    <2>1. PICK i, j \in 1..n : i < j /\ b[i] = d /\ b[j] = e
      BY <1>1, <1>10 DEF Before
    <2>2. m + i < m + j
      BY <1>1, <2>1
    <2> QED
      BY <1>2, <1>4, <2>1, <2>2 DEF Before
  <1>11. ASSUME d \in ToSet(a), e \in ToSet(b)
         PROVE  Before(c, d, e)
    <2>1. PICK i \in 1..m, j \in 1..n : a[i] = d /\ b[j] = e
      BY <1>1, <1>11 DEF ToSet
    <2>2. i < m + j
      BY <1>1, <2>1
    <2> QED
      BY <1>2, <1>3, <1>4, <2>1, <2>2 DEF Before
  <1> QED
    BY <1>2, <1>7, <1>8, <1>9, <1>10, <1>11 DEF c

LEMMA BeforeSingle ==
    ASSUME NEW S, NEW x \in S, NEW d, NEW e
    PROVE  /\ <<x>> \in Seq(S) /\ ToSet(<<x>>) = {x} /\ ~Before(<<x>>, d, e)
           /\ <<>> \in Seq(S) /\ ToSet(<<>>) = {} /\ ~Before(<<>>, d, e)
  BY DEF ToSet, Before

LEMMA BeforeAppend ==
    ASSUME NEW S, NEW a \in Seq(S), NEW x \in S, NEW d, NEW e
    PROVE  /\ Append(a, x) \in Seq(S)
           /\ ToSet(Append(a, x)) = ToSet(a) \cup {x}
           /\ Before(Append(a, x), d, e) <=> Before(a, d, e) \/ (d \in ToSet(a) /\ e = x)
  <1> DEFINE y == <<x>>
  <1>1. Append(a, x) = a \o y
    OBVIOUS
  <1>2. y \in Seq(S) /\ ToSet(y) = {x} /\ ~Before(y, d, e)
    BY BeforeSingle
  <1> HIDE DEF y
  <1> QED
    BY <1>1, <1>2, BeforeConcat

LEMMA BeforeTail ==
    ASSUME NEW S, NEW a \in Seq(S), a # <<>>, NEW d, NEW e
    PROVE  /\ Tail(a) \in Seq(S) /\ Head(a) \in S
           /\ ToSet(a) = {Head(a)} \cup ToSet(Tail(a))
           /\ Before(a, d, e) <=>
                  Before(Tail(a), d, e) \/ (d = Head(a) /\ e \in ToSet(Tail(a)))
  <1> DEFINE y == <<Head(a)>>
             t == Tail(a)
  <1>1. Head(a) \in S /\ t \in Seq(S) /\ a = y \o t
    OBVIOUS
  <1>2. y \in Seq(S) /\ ToSet(y) = {Head(a)} /\ ~Before(y, d, e)
    BY <1>1, BeforeSingle
  <1> HIDE DEF y, t
  <1>3. /\ ToSet(y \o t) = ToSet(y) \cup ToSet(t)
        /\ Before(y \o t, d, e) <=> \/ Before(y, d, e) \/ Before(t, d, e)
                                    \/ d \in ToSet(y) /\ e \in ToSet(t)
    BY <1>1, <1>2, BeforeConcat
  <1> QED
    BY <1>1, <1>2, <1>3 DEF t
\* Of sequences with one element taken out.
LEMMA BeforeRemove ==
    ASSUME NEW S, NEW q \in Seq(S), NEW k \in DOMAIN q, NEW d, NEW e
    PROVE  /\ RemoveAt(q, k) \in Seq(S) /\ q[k] \in S
           /\ ToSet(q) = ToSet(RemoveAt(q, k)) \cup {q[k]}
           /\ Before(RemoveAt(q, k), d, e) => Before(q, d, e)
           /\ q[k] \in ToSet(RemoveAt(q, k)) => Before(q, q[k], q[k])
           /\ k = 1 /\ d \in ToSet(RemoveAt(q, k)) => Before(q, q[k], d)
  <1> DEFINE n == Len(q)
             a == SubSeq(q, 1, k - 1)
             b == SubSeq(q, k + 1, n)
             y == <<q[k]>>
  <1>1. /\ k \in 1..n /\ n \in Nat /\ q[k] \in S /\ \A j \in 1..n : q[j] \in S
        /\ RemoveAt(q, k) = a \o b
    BY DEF RemoveAt
  <1>2. a \in Seq(S) /\ Len(a) = k - 1 /\ \A j \in 1..k-1 : a[j] = q[j]
    <2>1. 1 \in Int /\ k - 1 \in Int /\ \A j \in 1..k-1 : q[j] \in S
      BY <1>1
    <2>2. /\ a \in Seq(S) /\ Len(a) = IF 1 <= k - 1 THEN (k-1)-1+1 ELSE 0
          /\ \A j \in 1..(k-1)-1+1 : a[j] = q[1+j-1]
      BY <2>1, SubSeqProperties
    <2> HIDE DEF a
    <2> QED
      BY <1>1, <2>2
  <1>3. b \in Seq(S) /\ Len(b) = n - k /\ \A j \in 1..n-k : b[j] = q[k+j]
    <2>1. k + 1 \in Int /\ n \in Int /\ \A j \in k+1..n : q[j] \in S
      BY <1>1
    <2>2. /\ b \in Seq(S) /\ Len(b) = IF k + 1 <= n THEN n-(k+1)+1 ELSE 0
          /\ \A j \in 1..n-(k+1)+1 : b[j] = q[(k+1)+j-1]
      BY <2>1, SubSeqProperties
    <2> HIDE DEF a, b, n, y
    <2>3. n-(k+1)+1 = n-k /\ (k + 1 <= n \/ n - k = 0) /\ \A j \in 1..n-k : (k+1)+j-1 = k+j
      BY <1>1
    <2>4. Len(b) = n - k
      BY <2>2, <2>3
    <2>5. \A j \in 1..n-k : b[j] = q[k+j]
      BY <2>2, <2>3
    <2> QED
      BY <2>2, <2>4, <2>5
  <1>4. y \in Seq(S) /\ Len(y) = 1 /\ y[1] = q[k] /\ ToSet(y) = {q[k]}
    BY <1>1, BeforeSingle
  <1> HIDE DEF a, b, y
  <1> DEFINE c == a \o y
  <1>5. c \in Seq(S) /\ Len(c) = k /\ \A j \in 1..k : c[j] = q[j]
    <2>1. /\ c \in Seq(S) /\ Len(c) = Len(a) + Len(y)
          /\ \A j \in 1..Len(a) + Len(y) :
                 c[j] = IF j <= Len(a) THEN a[j] ELSE y[j - Len(a)]
      BY <1>2, <1>4, ConcatProperties
    <2> HIDE DEF n, c
    <2>2. Len(c) = k /\ \A j \in 1..k : c[j] = IF j <= k - 1 THEN a[j] ELSE y[j - (k - 1)]
      BY <1>1, <1>2, <1>4, <2>1
    <2> QED
      BY <1>1, <1>2, <1>4, <2>1, <2>2
  <1> HIDE DEF c
  <1>6. q = c \o b
    <2>1. /\ c \o b \in Seq(S) /\ Len(c \o b) = Len(c) + Len(b)
          /\ \A j \in 1..Len(c) + Len(b) :
                 (c \o b)[j] = IF j <= Len(c) THEN c[j] ELSE b[j - Len(c)]
      BY <1>3, <1>5, ConcatProperties
    <2> DEFINE x == c \o b
    <2>2. q \in Seq(S) /\ Len(q) = n
      OBVIOUS
    <2>0. Len(c) + Len(b) = n
      BY <1>1, <1>3, <1>5
    <2>3. x = c \o b
      OBVIOUS
    <2> HIDE DEF n, x
    <2>4. Len(x) = n /\ \A j \in 1..n : x[j] = IF j <= k THEN c[j] ELSE b[j - k]
      BY <1>5, <2>0, <2>1, <2>3
    <2>5. \A j \in 1..n : x[j] = q[j]
      <3> SUFFICES ASSUME NEW j \in 1..n PROVE x[j] = q[j]
        OBVIOUS
      <3>1. CASE j <= k
        <4>1. j \in 1..k
          BY <1>1, <3>1
        <4> QED
          BY <1>5, <2>4, <3>1, <4>1
      <3>2. CASE ~(j <= k)
        <4>1. j - k \in 1..n-k /\ k + (j - k) = j
          BY <1>1, <3>2
        <4> QED
          BY <1>3, <2>4, <3>2, <4>1
      <3> QED
        BY <3>1, <3>2
    <2>6. x \in Seq(S)
      BY <2>1, <2>3
    <2>7. q = x
      BY <2>2, <2>4, <2>5, <2>6
    <2> QED
      BY <2>3, <2>7
  <1>7. /\ ToSet(c) = ToSet(a) \cup {q[k]}
        /\ \A u, v : Before(c, u, v) <=> \/ Before(a, u, v) \/ Before(y, u, v)
                                         \/ u \in ToSet(a) /\ v = q[k]
    BY <1>2, <1>4, BeforeConcat DEF c
  <1>8. /\ ToSet(q) = ToSet(c) \cup ToSet(b)
        /\ \A u, v : Before(q, u, v) <=> \/ Before(c, u, v) \/ Before(b, u, v)
                                         \/ u \in ToSet(c) /\ v \in ToSet(b)
    BY <1>3, <1>5, <1>6, BeforeConcat
  <1>9. /\ a \o b \in Seq(S) /\ ToSet(a \o b) = ToSet(a) \cup ToSet(b)
        /\ \A u, v : Before(a \o b, u, v) <=>
                         \/ Before(a, u, v) \/ Before(b, u, v)
                         \/ u \in ToSet(a) /\ v \in ToSet(b)
    BY <1>2, <1>3, BeforeConcat
  <1>10. k = 1 => ToSet(a) = {}
    <2>1. k = 1 => DOMAIN a = {}
      BY <1>2
    <2> QED
      BY <2>1 DEF ToSet
  <1> QED
    BY <1>1, <1>7, <1>8, <1>9, <1>10

-----------------------------------------------------------------------------
(* Events: type correctness. *)

\* With one listener per bus, a handler is called once.
LEMMA HearIs ==
    ASSUME EventsTypeOK, BusInv, NEW s \in Servers, NEW e \in Events, Hear(s, e)
    PROVE  /\ heard' = [heard EXCEPT ![s] = [h \in Handlers |->
                            IF h \in handlers[s] THEN Append(heard[s][h], e)
                                                 ELSE heard[s][h]]]
           /\ down' = IF Relay \in handlers[s] /\ attached[s]
                      THEN [down EXCEPT ![s] = Append(down[s], e)] ELSE down
  <1> DEFINE calls == [k \in 1..taps[s] |-> e]
  <1>1. /\ heard' = [heard EXCEPT ![s] = [h \in Handlers |->
                        IF h \in handlers[s] THEN heard[s][h] \o calls ELSE heard[s][h]]]
        /\ IF Relay \in handlers[s] THEN PassOn(s, calls) ELSE UNCHANGED down
    BY DEF Hear, EventsTypeOK
  <1>2. handlers[s] # {} => calls = <<e>>
    <2>1. handlers[s] # {} => taps[s] = 1
      BY DEF BusInv
    <2>2. 1..1 = {1}
      OBVIOUS
    <2>3. taps[s] = 1 => calls = [k \in {1} |-> e]
      BY <2>2
    <2>4. [k \in {1} |-> e] = <<e>>
      OBVIOUS
    <2> QED
      BY <2>1, <2>3, <2>4
  <1>3. \A h \in Handlers : heard[s][h] \o <<e>> = Append(heard[s][h], e)
    <2>1. \A h \in Handlers : heard[s][h] \in Seq(Events)
      BY DEF EventsTypeOK
    <2> QED
      BY <2>1
  <1>4. down[s] \o <<e>> = Append(down[s], e)
    <2>1. down[s] \in Seq(Events)
      BY DEF EventsTypeOK
    <2> QED
      BY <2>1
  <1> HIDE DEF calls
  <1>5. \A h \in Handlers :
            (IF h \in handlers[s] THEN heard[s][h] \o calls ELSE heard[s][h])
                = IF h \in handlers[s] THEN Append(heard[s][h], e) ELSE heard[s][h]
    BY <1>2, <1>3
  <1>6. down' = IF Relay \in handlers[s] /\ attached[s]
                THEN [down EXCEPT ![s] = Append(down[s], e)] ELSE down
    <2>1. CASE Relay \in handlers[s]
      <3>1. PassOn(s, <<e>>)
        BY <1>1, <1>2, <2>1
      <3>2. down' = IF attached[s] THEN [down EXCEPT ![s] = down[s] \o <<e>>] ELSE down
        BY <3>1 DEF PassOn, EventsTypeOK
      <3> QED
        BY <1>4, <2>1, <3>2
    <2>2. CASE Relay \notin handlers[s]
      BY <1>1, <2>2
    <2> QED
      BY <2>1, <2>2
  <1>7. heard' = [heard EXCEPT ![s] = [h \in Handlers |->
                            IF h \in handlers[s] THEN Append(heard[s][h], e)
                                                 ELSE heard[s][h]]]
    <2>1. [h \in Handlers |->
             IF h \in handlers[s] THEN heard[s][h] \o calls ELSE heard[s][h]]
          = [h \in Handlers |->
             IF h \in handlers[s] THEN Append(heard[s][h], e) ELSE heard[s][h]]
      BY <1>5
    <2> QED
      BY <1>1, <2>1
  <1> QED
    BY <1>6, <1>7

LEMMA HearType ==
    ASSUME EventsTypeOK, BusInv, NEW s \in Servers, NEW e \in Events, Hear(s, e)
    PROVE  /\ heard' \in [Servers -> [Handlers -> Seq(Events)]]
           /\ down' \in [Servers -> Seq(Events)]
  <1>1. \A h \in Handlers : heard[s][h] \in Seq(Events) /\ Append(heard[s][h], e) \in Seq(Events)
    BY DEF EventsTypeOK
  <1>2. Append(down[s], e) \in Seq(Events)
    BY DEF EventsTypeOK
  <1>3. heard' \in [Servers -> [Handlers -> Seq(Events)]]
    <2> DEFINE row == [h \in Handlers |-> IF h \in handlers[s] THEN Append(heard[s][h], e)
                                                               ELSE heard[s][h]]
    <2>1. row \in [Handlers -> Seq(Events)]
      BY <1>1
    <2>2. heard' = [heard EXCEPT ![s] = row]
      BY HearIs
    <2> HIDE DEF row
    <2> QED
      BY <2>1, <2>2 DEF EventsTypeOK
  <1>4. down' \in [Servers -> Seq(Events)]
    <2>1. down' = down \/ down' = [down EXCEPT ![s] = Append(down[s], e)]
      BY HearIs
    <2> QED
      BY <1>2, <2>1 DEF EventsTypeOK
  <1> QED
    BY <1>3, <1>4

LEMMA EventsTypeStep == EventsTypeOK /\ BusInv /\ [EventsNext]_eventVars => EventsTypeOK'
  <1> SUFFICES ASSUME EventsTypeOK, BusInv, [EventsNext]_eventVars
               PROVE  EventsTypeOK'
    OBVIOUS
  <1> USE EventBoundsAreNat
  <1>1. ASSUME NEW s \in Servers, Connect(s) \/ Subscribed(s)
        PROVE  EventsTypeOK'
    BY <1>1 DEF Connect, Subscribed, EventsTypeOK, busVars, pageVars
  <1>2. ASSUME NEW s \in Servers, Deliver(s)
        PROVE  EventsTypeOK'
    <2>1. wire[s] \in Seq(Events) /\ wire[s] # <<>>
      BY <1>2 DEF Deliver, EventsTypeOK
    <2>2. Head(wire[s]) \in Events /\ Tail(wire[s]) \in Seq(Events)
      BY <2>1, BeforeTail
    <2>3. /\ heard' \in [Servers -> [Handlers -> Seq(Events)]]
          /\ down' \in [Servers -> Seq(Events)]
      BY <1>2, <2>2, HearType DEF Deliver
    <2>4. wire' \in [Servers -> Seq(Events)]
      BY <1>2, <2>2 DEF Deliver, EventsTypeOK
    <2> QED
      BY <1>2, <2>3, <2>4 DEF Deliver, EventsTypeOK, busVars, pageVars
  <1>3. ASSUME NEW s \in Servers, DestroyBus(s)
        PROVE  EventsTypeOK'
    BY <1>3 DEF DestroyBus, EventsTypeOK, pageVars
  <1>4. ASSUME NEW s \in Servers, Emit(s)
        PROVE  EventsTypeOK'
    <2> DEFINE e == Len(emitter) + 1
    <2>1. Len(emitter) \in Nat /\ e \in Events
      BY <1>4 DEF Emit, EventsTypeOK, Events
    <2>2. emitter' \in Seq(Servers) /\ Len(emitter') <= MaxEvents
      BY <1>4, <2>1 DEF Emit, EventsTypeOK
    <2>3. /\ backend' \in Backends /\ link' \in [Servers -> {"none", "pool", "up"}]
          /\ ear' \in [Servers -> {"none", "asked", "open"}]
          /\ listening' \in [Servers -> BOOLEAN] /\ shown' \in [Servers -> Seq(Events)]
          /\ wire' \in [Servers -> Seq(Events)] /\ changes' \in 0..MaxChanges
      BY <1>4 DEF Emit, EventsTypeOK
    <2>4. CASE link[s] = "none"
      <3>1. Die(s)
        BY <1>4, <2>4 DEF Emit
      <3> QED
        BY <2>2, <2>3, <3>1 DEF Die, EventsTypeOK
    <2>5. CASE link[s] # "none"
      <3> HIDE DEF e
      <3>1. /\ owed' = [t \in Servers |-> IF WithinHearing(t, s)
                               THEN owed[t] \cup (handlers[t] \X {e}) ELSE owed[t]]
            /\ IF backend = "memory"
               THEN Hear(s, e) /\ UNCHANGED out
               ELSE /\ out' = [out EXCEPT ![s] = Append(@, e)]
                    /\ UNCHANGED <<heard, down>>
            /\ UNCHANGED <<alive, busVars, attached>>
        BY <1>4, <2>5 DEF Emit, e
      <3>2. owed' \in [Servers -> SUBSET (Handlers \X Events)]
        BY <2>1, <3>1 DEF EventsTypeOK
      <3>3. /\ out' \in [Servers -> Seq(Events)]
            /\ heard' \in [Servers -> [Handlers -> Seq(Events)]]
            /\ down' \in [Servers -> Seq(Events)]
        <4>1. CASE backend = "memory"
          BY <2>1, <3>1, <4>1, HearType DEF EventsTypeOK
        <4>2. CASE backend # "memory"
          <5>1. Append(out[s], e) \in Seq(Events)
            BY <2>1 DEF EventsTypeOK
          <5> QED
            BY <3>1, <4>2, <5>1 DEF EventsTypeOK
        <4> QED
          BY <4>1, <4>2
      <3> QED
        BY <2>2, <2>3, <3>1, <3>2, <3>3 DEF EventsTypeOK, busVars
    <2> QED
      BY <2>4, <2>5
  <1>5. ASSUME NEW s \in Servers, PageConnects(s) \/ PageLeaves(s) \/ PageOn(s) \/ PageOff(s)
        PROVE  EventsTypeOK'
    <2>1. <<>> \in Seq(Events)
      OBVIOUS
    <2>2. CASE PageConnects(s)
      BY <2>2 DEF PageConnects, EventsTypeOK, busVars
    <2>3. CASE PageLeaves(s)
      BY <2>1, <2>3 DEF PageLeaves, EventsTypeOK, busVars
    <2>4. CASE PageOn(s)
      BY <2>4 DEF PageOn, EventsTypeOK, busVars
    <2>5. CASE PageOff(s)
      BY <2>5 DEF PageOff, EventsTypeOK, busVars
    <2> QED
      BY <1>5, <2>2, <2>3, <2>4, <2>5
  <1>6. ASSUME NEW s \in Servers, Show(s)
        PROVE  EventsTypeOK'
    <2>1. down[s] \in Seq(Events) /\ down[s] # <<>>
      BY <1>6 DEF Show, EventsTypeOK
    <2>2. Head(down[s]) \in Events /\ Tail(down[s]) \in Seq(Events)
      BY <2>1, BeforeTail
    <2>3. Append(shown[s], Head(down[s])) \in Seq(Events)
      BY <2>2 DEF EventsTypeOK
    <2>4. shown' \in [Servers -> Seq(Events)] /\ down' \in [Servers -> Seq(Events)]
      BY <1>6, <2>2, <2>3 DEF Show, EventsTypeOK
    <2> QED
      BY <1>6, <2>4 DEF Show, EventsTypeOK, busVars
  <1>7. ASSUME NEW t \in Servers, NEW k \in Events, Take(t, k)
        PROVE  EventsTypeOK'
    <2>1. out[t] \in Seq(Events) /\ k \in DOMAIN out[t]
      BY <1>7 DEF Take, EventsTypeOK
    <2>2. out[t][k] \in Events /\ RemoveAt(out[t], k) \in Seq(Events)
      BY <2>1, BeforeRemove
    <2>3. \A s \in Servers : Append(wire[s], out[t][k]) \in Seq(Events)
      BY <2>2 DEF EventsTypeOK
    <2>4. wire' \in [Servers -> Seq(Events)] /\ out' \in [Servers -> Seq(Events)]
      BY <1>7, <2>2, <2>3 DEF Take, EventsTypeOK
    <2> QED
      BY <1>7, <2>4 DEF Take, EventsTypeOK, busVars, pageVars
  <1>8. ASSUME NEW s \in Servers, NEW h \in Handlers, On(s, h)
        PROVE  EventsTypeOK'
    <2>1. ear' \in [Servers -> {"none", "asked", "open"}]
      BY <1>8 DEF On, Ask, EventsTypeOK
    <2>2. taps' \in [Servers -> {0, 1}]
      <3>1. CASE entry[s]
        BY <1>8, <3>1 DEF On, EventsTypeOK
      <3>2. CASE ~entry[s]
        <4>1. taps[s] = 0 /\ taps' = [taps EXCEPT ![s] = taps[s] + 1]
          BY <1>8, <3>2 DEF On, Tap, BusInv
        <4>2. taps' = [taps EXCEPT ![s] = 1]
          BY <4>1
        <4> QED
          BY <4>2 DEF EventsTypeOK
      <3> QED
        BY <3>1, <3>2
    <2>3. /\ changes' \in 0..MaxChanges
          /\ handlers' \in [Servers -> SUBSET Handlers]
          /\ entry' \in [Servers -> BOOLEAN]
      BY <1>8 DEF On, EventsTypeOK
    <2>4. UNCHANGED <<backend, alive, link, pageVars, out, wire, down, emitter, heard, owed>>
      BY <1>8 DEF On
    <2> QED
      BY <2>1, <2>2, <2>3, <2>4 DEF EventsTypeOK, pageVars
  <1>9. ASSUME NEW s \in Servers, NEW h \in Handlers, Off(s, h)
        PROVE  EventsTypeOK'
    BY <1>9 DEF Off, EventsTypeOK, pageVars
  <1>10. CASE UNCHANGED eventVars
    BY <1>10 DEF eventVars, EventsTypeOK, busVars, pageVars
  <1> QED
    BY <1>1, <1>2, <1>3, <1>4, <1>5, <1>6, <1>7, <1>8, <1>9, <1>10
    DEF EventsNext, PageEmits

\* One tap for an entry, and no handler without one.
LEMMA BusStep == EventsTypeOK /\ BusInv /\ [EventsNext]_eventVars => BusInv'
  <1> SUFFICES ASSUME EventsTypeOK, BusInv, [EventsNext]_eventVars
               PROVE  BusInv'
    OBVIOUS
  <1>1. ASSUME NEW s \in Servers, DestroyBus(s)
        PROVE  BusInv'
    BY <1>1 DEF DestroyBus, EventsTypeOK, BusInv
  <1>2. ASSUME NEW s \in Servers, Emit(s)
        PROVE  BusInv'
    <2>1. CASE link[s] = "none"
      <3>1. Die(s)
        BY <1>2, <2>1 DEF Emit
      <3> QED
        BY <3>1 DEF Die, EventsTypeOK, BusInv
    <2>2. CASE link[s] # "none"
      BY <1>2, <2>2 DEF Emit, BusInv, busVars
    <2> QED
      BY <2>1, <2>2
  <1>3. ASSUME NEW s \in Servers, NEW h \in Handlers, On(s, h)
        PROVE  BusInv'
    BY <1>3 DEF On, Tap, EventsTypeOK, BusInv
  <1>4. ASSUME NEW s \in Servers, NEW h \in Handlers, Off(s, h)
        PROVE  BusInv'
    BY <1>4 DEF Off, EventsTypeOK, BusInv
  <1>5. CASE UNCHANGED busVars
    BY <1>5 DEF BusInv, busVars
  <1> QED
    BY <1>1, <1>2, <1>3, <1>4, <1>5
    DEF EventsNext, PageEmits, Connect, Subscribed, Deliver, PageConnects, PageLeaves,
        PageOn, PageOff, Show, Take, eventVars

\* Over the memory backend nothing waits.
LEMMA AtOnceStep == EventsTypeOK /\ AtOnce /\ [EventsNext]_eventVars => AtOnce'
  <1> SUFFICES ASSUME EventsTypeOK, AtOnce, [EventsNext]_eventVars, backend' = "memory",
                      NEW t \in Servers
               PROVE  out'[t] = <<>> /\ wire'[t] = <<>>
    BY DEF AtOnce
  <1>1. backend = "memory"
    BY DEF EventsNext, PageEmits, Connect, Subscribed, Deliver, DestroyBus, Emit,
           PageConnects, PageLeaves, PageOn, PageOff, Show, Take, On, Off, eventVars
  <1>2. \A s \in Servers : out[s] = <<>> /\ wire[s] = <<>>
    BY <1>1 DEF AtOnce
  <1>3. ASSUME NEW s \in Servers, Deliver(s)
        PROVE  FALSE
    BY <1>2, <1>3 DEF Deliver
  <1>4. ASSUME NEW s \in Servers, NEW k \in Events, Take(s, k)
        PROVE  FALSE
    <2>1. DOMAIN <<>> = {}
      OBVIOUS
    <2> QED
      BY <1>2, <1>4, <2>1 DEF Take
  <1>5. ASSUME NEW s \in Servers, Emit(s)
        PROVE  UNCHANGED <<out, wire>>
    BY <1>1, <1>5 DEF Emit, Die
  <1> QED
    BY <1>2, <1>3, <1>4, <1>5
    DEF EventsNext, PageEmits, Connect, Subscribed, DestroyBus, PageConnects, PageLeaves,
        PageOn, PageOff, Show, On, Off, eventVars

-----------------------------------------------------------------------------
(* Events: lines that lose events at some places and gain one at their end. *)

\* Line q is line p less some of its events, or e after those.
Thins(q, p) ==
    /\ ToSet(q) \subseteq ToSet(p)
    /\ \A d, x \in Events : Before(q, d, x) => Before(p, d, x)
Grows(q, p, e) ==
    /\ ToSet(q) \subseteq ToSet(p) \cup {e}
    /\ \A d, x \in Events :
          Before(q, d, x) => Before(p, d, x) \/ (d \in ToSet(p) /\ x = e)

LEMMA LineMoves ==
    ASSUME NEW a \in Seq(Events), NEW w \in Seq(Events), w # <<>>,
           NEW c \in {a, Append(a, Head(w))}
    PROVE  c \in Seq(Events) /\ Thins(c \o Tail(w), a \o w)
  <1> DEFINE e == Head(w)
             t == Tail(w)
  <1>1. /\ t \in Seq(Events) /\ e \in Events /\ ToSet(w) = {e} \cup ToSet(t)
        /\ \A d, x : Before(w, d, x) <=> Before(t, d, x) \/ (d = e /\ x \in ToSet(t))
    BY BeforeTail
  <1> HIDE DEF e, t
  <1>2. c \in {a, Append(a, e)}
    BY DEF e
  <1>3. /\ c \in Seq(Events)
        /\ \A d, x : Before(c, d, x) =>
               Before(a, d, x) \/ (d \in ToSet(a) /\ x = e)
        /\ ToSet(c) \subseteq ToSet(a) \cup {e}
    <2>1. CASE c = a
      BY <2>1
    <2>2. CASE c = Append(a, e)
      <3> DEFINE y == Append(a, e)
      <3>1. /\ y \in Seq(Events) /\ ToSet(y) = ToSet(a) \cup {e}
            /\ \A d, x : Before(y, d, x) <=> Before(a, d, x) \/ (d \in ToSet(a) /\ x = e)
        BY <1>1, BeforeAppend
      <3> HIDE DEF y
      <3>2. c = y
        BY <2>2 DEF y
      <3> QED
        BY <3>1, <3>2
    <2> QED
      BY <1>2, <2>1, <2>2
  <1>4. /\ ToSet(a \o w) = ToSet(a) \cup ToSet(w)
        /\ \A d, x : Before(a \o w, d, x) <=>
               Before(a, d, x) \/ Before(w, d, x) \/ (d \in ToSet(a) /\ x \in ToSet(w))
    BY BeforeConcat
  <1>5. /\ ToSet(c \o t) = ToSet(c) \cup ToSet(t)
        /\ \A d, x : Before(c \o t, d, x) <=>
               Before(c, d, x) \/ Before(t, d, x) \/ (d \in ToSet(c) /\ x \in ToSet(t))
    BY <1>1, <1>3, BeforeConcat
  <1>6. Thins(c \o t, a \o w)
    BY <1>1, <1>3, <1>4, <1>5 DEF Thins
  <1> QED
    BY <1>3, <1>6 DEF t

LEMMA ThinsConcat ==
    ASSUME NEW a \in Seq(Events), NEW b \in Seq(Events), NEW w \in Seq(Events),
           Thins(a, b)
    PROVE  Thins(a \o w, b \o w)
  <1>1. /\ ToSet(a \o w) = ToSet(a) \cup ToSet(w)
        /\ \A d, x : Before(a \o w, d, x) <=>
               Before(a, d, x) \/ Before(w, d, x) \/ (d \in ToSet(a) /\ x \in ToSet(w))
    BY BeforeConcat
  <1>2. /\ ToSet(b \o w) = ToSet(b) \cup ToSet(w)
        /\ \A d, x : Before(b \o w, d, x) <=>
               Before(b, d, x) \/ Before(w, d, x) \/ (d \in ToSet(b) /\ x \in ToSet(w))
    BY BeforeConcat
  <1> QED
    BY <1>1, <1>2 DEF Thins

LEMMA LineGrows ==
    ASSUME NEW a \in Seq(Events), NEW w \in Seq(Events), NEW e \in Events
    PROVE  Grows(a \o Append(w, e), a \o w, e)
  <1> DEFINE y == Append(w, e)
  <1>1. /\ y \in Seq(Events) /\ ToSet(y) = ToSet(w) \cup {e}
        /\ \A d, x : Before(y, d, x) <=> Before(w, d, x) \/ (d \in ToSet(w) /\ x = e)
    BY BeforeAppend
  <1> HIDE DEF y
  <1>2. /\ ToSet(a \o w) = ToSet(a) \cup ToSet(w)
        /\ \A d, x : Before(a \o w, d, x) <=>
               Before(a, d, x) \/ Before(w, d, x) \/ (d \in ToSet(a) /\ x \in ToSet(w))
    BY BeforeConcat
  <1>3. /\ ToSet(a \o y) = ToSet(a) \cup ToSet(y)
        /\ \A d, x : Before(a \o y, d, x) <=>
               Before(a, d, x) \/ Before(y, d, x) \/ (d \in ToSet(a) /\ x \in ToSet(y))
    BY <1>1, BeforeConcat
  <1>4. Grows(a \o y, a \o w, e)
    BY <1>1, <1>2, <1>3 DEF Grows
  <1> QED
    BY <1>4 DEF y

\* What precedes or follows something is on the line.
LEMMA BeforeIsOn ==
    ASSUME NEW q, NEW d, NEW e, Before(q, d, e)
    PROVE  d \in ToSet(q) /\ e \in ToSet(q)
  BY DEF Before, ToSet

LEMMA LinesThinned ==
    ASSUME LinesInv, OutInv, UNCHANGED <<emitter, backend, out>>,
           \A q \in Lines' : \E p \in Lines : Thins(q, p)
    PROVE  LinesInv' /\ OutInv'
  <1>1. LinesInv'
    <2>1. \A q \in Lines' : ToSet(q) \subseteq Emitted'
      BY DEF LinesInv, Thins, Emitted
    <2>2. ASSUME NEW p \in Lines', NEW q \in Lines', NEW d \in Events, NEW e \in Events,
                 Before(p, d, e), Before(q, e, d)
          PROVE  FALSE
      <3>1. PICK p0 \in Lines, q0 \in Lines : Thins(p, p0) /\ Thins(q, q0)
        OBVIOUS
      <3> QED
        BY <2>2, <3>1 DEF LinesInv, Thins
    <2>3. ASSUME backend # "postgres", NEW q \in Lines', NEW d \in Events, NEW e \in Events,
                 Before(q, e, d), d < e
          PROVE  emitter[d] # emitter[e]
      <3>1. PICK q0 \in Lines : Thins(q, q0)
        OBVIOUS
      <3> QED
        BY <2>3, <3>1 DEF LinesInv, Thins
    <2> QED
      BY <2>1, <2>2, <2>3 DEF LinesInv
  <1>2. OutInv'
    BY DEF OutInv, Thins, Emitted
  <1> QED
    BY <1>1, <1>2

LEMMA LinesExtended ==
    ASSUME LinesInv, backend' = backend, NEW e \in Events, e \in Emitted',
           \A x \in Emitted : x \in Emitted' /\ emitter'[x] = emitter[x],
           Emitted \subseteq Events,
           \A p \in Lines : e \notin ToSet(p),
           backend # "postgres" =>
               \A p \in Lines : \A x \in ToSet(p) : emitter[x] = emitter'[e] => x < e,
           \A q \in Lines' : \E p \in Lines : Grows(q, p, e)
    PROVE  LinesInv'
  <1>1. \A q \in Lines' : ToSet(q) \subseteq Emitted'
    BY DEF LinesInv, Grows
  <1>2. ASSUME NEW p \in Lines', NEW q \in Lines', NEW d \in Events, NEW x \in Events,
               Before(p, d, x), Before(q, x, d)
        PROVE  FALSE
    <2>1. PICK p0 \in Lines, q0 \in Lines : Grows(p, p0, e) /\ Grows(q, q0, e)
      OBVIOUS
    <2>2. /\ Before(p0, d, x) \/ (d \in ToSet(p0) /\ x = e)
          /\ Before(q0, x, d) \/ (x \in ToSet(q0) /\ d = e)
      BY <1>2, <2>1 DEF Grows
    <2>3. /\ Before(p0, d, x) => d \in ToSet(p0) /\ x \in ToSet(p0)
          /\ Before(q0, x, d) => d \in ToSet(q0) /\ x \in ToSet(q0)
      BY BeforeIsOn
    <2>4. e \notin ToSet(p0) /\ e \notin ToSet(q0)
      OBVIOUS
    <2> QED
      BY <2>2, <2>3, <2>4 DEF LinesInv
  <1>3. ASSUME backend # "postgres", NEW q \in Lines', NEW d \in Events, NEW x \in Events,
               Before(q, x, d), d < x
        PROVE  emitter'[d] # emitter'[x]
    <2>1. PICK q0 \in Lines : Grows(q, q0, e)
      OBVIOUS
    <2>2. CASE Before(q0, x, d)
      <3>1. d \in Emitted /\ x \in Emitted
        BY <2>2, BeforeIsOn DEF LinesInv
      <3>2. emitter[d] # emitter[x]
        BY <1>3, <2>2 DEF LinesInv
      <3> QED
        BY <3>1, <3>2
    <2>3. CASE x \in ToSet(q0) /\ d = e
      <3>1. x \in Emitted /\ emitter'[x] = emitter[x]
        BY <2>3 DEF LinesInv
      <3>2. ~(x < e)
        BY <1>3, <2>3 DEF Events
      <3> QED
        BY <1>3, <2>3, <3>1, <3>2
    <2> QED
      BY <1>3, <2>1, <2>2, <2>3 DEF Grows
  <1> QED
    BY <1>1, <1>2, <1>3 DEF LinesInv

LEMMA AppendLater ==
    ASSUME NEW a \in Seq(Events), NEW b \in Seq(Events), NEW e \in Events
    PROVE  a \o Append(b, e) = Append(a \o b, e)
  <1> DEFINE y == <<e>>
             c == a \o b
  <1>1. y \in Seq(Events) /\ c \in Seq(Events) /\ Append(b, e) = b \o y /\ Append(c, e) = c \o y
    OBVIOUS
  <1> HIDE DEF y
  <1>2. a \o (b \o y) = (a \o b) \o y
    BY <1>1, ConcatAssociative
  <1> QED
    BY <1>1, <1>2

\* Lines after a step, of each handler and of each page.
LEMMA ThinnedByParts ==
    ASSUME \A u \in Servers, h \in Handlers :
               Thins(heard'[u][h] \o wire'[u], heard[u][h] \o wire[u]),
           \A u \in Servers :
               Thins((shown'[u] \o down'[u]) \o wire'[u], (shown[u] \o down[u]) \o wire[u])
    PROVE  \A q \in Lines' : \E p \in Lines : Thins(q, p)
  <1> SUFFICES ASSUME NEW q \in Lines'
               PROVE  \E p \in Lines : Thins(q, p)
    OBVIOUS
  <1>1. CASE \E u \in Servers, h \in Handlers : q = heard'[u][h] \o wire'[u]
    <2>1. PICK u \in Servers, h \in Handlers : q = heard'[u][h] \o wire'[u]
      BY <1>1
    <2>2. HandlerLine(u, h) \in Lines
      BY DEF Lines
    <2> QED
      BY <2>1, <2>2 DEF HandlerLine
  <1>2. CASE \E u \in Servers : q = (shown'[u] \o down'[u]) \o wire'[u]
    <2>1. PICK u \in Servers : q = (shown'[u] \o down'[u]) \o wire'[u]
      BY <1>2
    <2>2. PageLine(u) \in Lines
      BY DEF Lines
    <2> QED
      BY <2>1, <2>2 DEF PageLine
  <1>3. \/ \E u \in Servers, h \in Handlers : q = HandlerLine(u, h)'
        \/ \E u \in Servers : q = PageLine(u)'
    BY DEF Lines
  <1> QED
    BY <1>1, <1>2, <1>3 DEF HandlerLine, PageLine

LEMMA GrownByParts ==
    ASSUME NEW e,
           \A u \in Servers, h \in Handlers :
               Grows(heard'[u][h] \o wire'[u], heard[u][h] \o wire[u], e),
           \A u \in Servers :
               Grows((shown'[u] \o down'[u]) \o wire'[u], (shown[u] \o down[u]) \o wire[u], e)
    PROVE  \A q \in Lines' : \E p \in Lines : Grows(q, p, e)
  <1> SUFFICES ASSUME NEW q \in Lines'
               PROVE  \E p \in Lines : Grows(q, p, e)
    OBVIOUS
  <1>1. CASE \E u \in Servers, h \in Handlers : q = heard'[u][h] \o wire'[u]
    <2>1. PICK u \in Servers, h \in Handlers : q = heard'[u][h] \o wire'[u]
      BY <1>1
    <2>2. HandlerLine(u, h) \in Lines
      BY DEF Lines
    <2> QED
      BY <2>1, <2>2 DEF HandlerLine
  <1>2. CASE \E u \in Servers : q = (shown'[u] \o down'[u]) \o wire'[u]
    <2>1. PICK u \in Servers : q = (shown'[u] \o down'[u]) \o wire'[u]
      BY <1>2
    <2>2. PageLine(u) \in Lines
      BY DEF Lines
    <2> QED
      BY <2>1, <2>2 DEF PageLine
  <1>3. \/ \E u \in Servers, h \in Handlers : q = HandlerLine(u, h)'
        \/ \E u \in Servers : q = PageLine(u)'
    BY DEF Lines
  <1> QED
    BY <1>1, <1>2, <1>3 DEF HandlerLine, PageLine

LEMMA ThinsItself == \A q, e : Thins(q, q) /\ Grows(q, q, e)
  BY DEF Thins, Grows

LEMMA LineTypes ==
    ASSUME EventsTypeOK
    PROVE  /\ Emitted \subseteq Events /\ Len(emitter) \in Nat
           /\ \A s \in Servers :
                 /\ out[s] \in Seq(Events) /\ wire[s] \in Seq(Events)
                 /\ shown[s] \in Seq(Events) /\ down[s] \in Seq(Events)
                 /\ shown[s] \o down[s] \in Seq(Events)
                 /\ \A h \in Handlers : heard[s][h] \in Seq(Events)
  <1>1. Emitted \subseteq Events /\ Len(emitter) \in Nat
    BY EventBoundsAreNat DEF EventsTypeOK, Emitted, Events
  <1> QED
    BY <1>1 DEF EventsTypeOK

LEMMA DeliverLines ==
    ASSUME EventsTypeOK, BusInv, LinesInv, OutInv, NEW s \in Servers, Deliver(s)
    PROVE  LinesInv' /\ OutInv'
  <1> DEFINE w == wire[s]
             e == Head(w)
  <1>1. w \in Seq(Events) /\ w # <<>> /\ e \in Events
    BY BeforeTail DEF Deliver, EventsTypeOK
  <1>2. /\ heard' = [heard EXCEPT ![s] = [h \in Handlers |->
                            IF h \in handlers[s] THEN Append(heard[s][h], e)
                                                 ELSE heard[s][h]]]
        /\ down' = IF Relay \in handlers[s] /\ attached[s]
                   THEN [down EXCEPT ![s] = Append(down[s], e)] ELSE down
        /\ wire' = [wire EXCEPT ![s] = Tail(w)]
        /\ UNCHANGED <<emitter, backend, out, shown>>
    BY <1>1, HearIs DEF Deliver, pageVars
  <1>3. ASSUME NEW h \in Handlers
        PROVE  Thins(heard'[s][h] \o wire'[s], heard[s][h] \o w)
    <2>1. heard'[s][h] \in {heard[s][h], Append(heard[s][h], e)} /\ wire'[s] = Tail(w)
      BY <1>2 DEF EventsTypeOK
    <2>2. heard[s][h] \in Seq(Events)
      BY LineTypes
    <2> QED
      BY <1>1, <2>1, <2>2, LineMoves
  <1>4. Thins((shown'[s] \o down'[s]) \o wire'[s], (shown[s] \o down[s]) \o w)
    <2> DEFINE a == shown[s] \o down[s]
    <2>1. a \in Seq(Events) /\ shown[s] \in Seq(Events) /\ down[s] \in Seq(Events)
      BY LineTypes
    <2>2. shown[s] \o Append(down[s], e) = Append(a, e)
      BY <1>1, <2>1, AppendLater
    <2>3. down'[s] \in {down[s], Append(down[s], e)} /\ wire'[s] = Tail(w) /\ shown' = shown
      BY <1>2 DEF EventsTypeOK
    <2>4. shown'[s] \o down'[s] \in {a, Append(a, e)}
      BY <2>2, <2>3
    <2> HIDE DEF a
    <2> DEFINE c == shown'[s] \o down'[s]
    <2>5. c \in {a, Append(a, Head(w))}
      BY <2>4
    <2> HIDE DEF c
    <2>6. Thins(c \o Tail(w), a \o w)
      BY <1>1, <2>1, <2>5, LineMoves
    <2> QED
      BY <2>3, <2>6 DEF a, c
  <1>5. ASSUME NEW u \in Servers, u # s
        PROVE  heard'[u] = heard[u] /\ down'[u] = down[u] /\ wire'[u] = wire[u]
    BY <1>2, <1>5 DEF EventsTypeOK
  <1>6. \A q \in Lines' : \E p \in Lines : Thins(q, p)
    <2>1. ASSUME NEW u \in Servers, NEW h \in Handlers
          PROVE  Thins(heard'[u][h] \o wire'[u], heard[u][h] \o wire[u])
      BY <1>3, <1>5, ThinsItself
    <2>2. ASSUME NEW u \in Servers
          PROVE  Thins((shown'[u] \o down'[u]) \o wire'[u], (shown[u] \o down[u]) \o wire[u])
      <3>1. CASE u = s
        BY <1>4, <3>1
      <3>2. CASE u # s
        BY <1>2, <1>5, <3>2, ThinsItself
      <3> QED
        BY <3>1, <3>2
    <2> QED
      BY <2>1, <2>2, ThinnedByParts
  <1> QED
    BY <1>2, <1>6, LinesThinned

LEMMA PageLines ==
    ASSUME EventsTypeOK, LinesInv, OutInv, NEW s \in Servers, PageLeaves(s) \/ Show(s)
    PROVE  LinesInv' /\ OutInv'
  <1>1. /\ UNCHANGED <<emitter, backend, out, wire, heard>>
        /\ \A u \in Servers : u # s => shown'[u] = shown[u] /\ down'[u] = down[u]
    BY DEF PageLeaves, Show, EventsTypeOK
  <1>2. /\ shown[s] \in Seq(Events) /\ down[s] \in Seq(Events) /\ wire[s] \in Seq(Events)
        /\ shown[s] \o down[s] \in Seq(Events)
    BY LineTypes
  <1> DEFINE a == shown[s] \o down[s]
             c == shown'[s] \o down'[s]
  <1>3. c \in Seq(Events) /\ Thins(c, a)
    <2>1. CASE PageLeaves(s)
      <3>1. shown'[s] = shown[s] /\ down'[s] = <<>>
        BY <2>1 DEF PageLeaves, EventsTypeOK
      <3>2. c = shown[s]
        BY <1>2, <3>1
      <3>3. /\ ToSet(a) = ToSet(shown[s]) \cup ToSet(down[s])
            /\ \A d, x : Before(a, d, x) <=>
                   \/ Before(shown[s], d, x) \/ Before(down[s], d, x)
                   \/ (d \in ToSet(shown[s]) /\ x \in ToSet(down[s]))
        BY <1>2, BeforeConcat
      <3> HIDE DEF a, c
      <3> QED
        BY <1>2, <3>2, <3>3 DEF Thins
    <2>2. CASE Show(s)
      <3>1. down[s] # <<>> /\ down'[s] = Tail(down[s])
        BY <2>2 DEF Show, EventsTypeOK
      <3>2. shown'[s] \in {shown[s], Append(shown[s], Head(down[s]))}
        BY <2>2 DEF Show, EventsTypeOK
      <3>3. shown'[s] \in Seq(Events) /\ Thins(shown'[s] \o Tail(down[s]), a)
        BY <1>2, <3>1, <3>2, LineMoves
      <3>4. Tail(down[s]) \in Seq(Events)
        BY <1>2, <3>1, BeforeTail
      <3>5. shown'[s] \o Tail(down[s]) \in Seq(Events)
        BY <3>3, <3>4
      <3> QED
        BY <3>1, <3>3, <3>5
    <2> QED
      BY <2>1, <2>2
  <1>4. a \in Seq(Events)
    BY <1>2
  <1> HIDE DEF a, c
  <1>5. Thins(c \o wire[s], a \o wire[s])
    BY <1>2, <1>3, <1>4, ThinsConcat
  <1>6. \A q \in Lines' : \E p \in Lines : Thins(q, p)
    <2>1. ASSUME NEW u \in Servers, NEW h \in Handlers
          PROVE  Thins(heard'[u][h] \o wire'[u], heard[u][h] \o wire[u])
      BY <1>1, ThinsItself
    <2>2. ASSUME NEW u \in Servers
          PROVE  Thins((shown'[u] \o down'[u]) \o wire'[u], (shown[u] \o down[u]) \o wire[u])
      <3>1. CASE u = s
        BY <1>1, <1>5, <3>1 DEF a, c
      <3>2. CASE u # s
        BY <1>1, <3>2, ThinsItself
      <3> QED
        BY <3>1, <3>2
    <2> QED
      BY <2>1, <2>2, ThinnedByParts
  <1> QED
    BY <1>1, <1>6, LinesThinned

LEMMA TakeLines ==
    ASSUME EventsTypeOK, AtOnce, LinesInv, OutInv, BackendsAreKnown,
           NEW t \in Servers, NEW k \in Events, Take(t, k)
    PROVE  LinesInv' /\ OutInv'
  <1> DEFINE q0 == out[t]
             e == q0[k]
             r == RemoveAt(q0, k)
  <1>1. /\ q0 \in Seq(Events) /\ k \in DOMAIN q0 /\ (backend = "redis" => k = 1)
        /\ UNCHANGED <<backend, emitter, heard, shown, down>>
        /\ wire' = [s \in Servers |-> IF WithinHearing(s, t)
                                      THEN Append(wire[s], e) ELSE wire[s]]
        /\ out' = [out EXCEPT ![t] = r]
    BY DEF Take, EventsTypeOK, pageVars
  <1>2. /\ r \in Seq(Events) /\ e \in Events /\ ToSet(q0) = ToSet(r) \cup {e}
        /\ e \in ToSet(r) => Before(q0, e, e)
        /\ \A d, x : Before(r, d, x) => Before(q0, d, x)
        /\ k = 1 => \A d : d \in ToSet(r) => Before(q0, e, d)
    <2>1. ASSUME NEW d, NEW x
          PROVE  /\ r \in Seq(Events) /\ e \in Events /\ ToSet(q0) = ToSet(r) \cup {e}
                 /\ e \in ToSet(r) => Before(q0, e, e)
                 /\ Before(r, d, x) => Before(q0, d, x)
                 /\ k = 1 /\ d \in ToSet(r) => Before(q0, e, d)
      <3>1. q0 \in Seq(Events) /\ k \in DOMAIN q0
        BY <1>1
      <3> HIDE DEF q0
      <3> QED
        BY <3>1, BeforeRemove
    <2> HIDE DEF e, r
    <2> QED
      BY <2>1
  <1>3. out'[t] = r /\ \A u \in Servers : u # t => out'[u] = out[u]
    BY <1>1 DEF EventsTypeOK
  <1> HIDE DEF e, r
  <1>4. /\ e \in Emitted /\ emitter[e] = t /\ ~Before(q0, e, e)
        /\ \A q \in Lines : e \notin ToSet(q)
        /\ backend = "redis" =>
               \A q \in Lines : \A d \in ToSet(q) : emitter[d] = t => d < e
    BY <1>2 DEF OutInv
  <1>5. backend # "memory"
    <2>1. DOMAIN <<>> = {}
      OBVIOUS
    <2> QED
      BY <1>1, <2>1 DEF AtOnce
  <1>6. backend # "postgres" => backend = "redis"
    BY <1>5, BackendsAreKnown DEF EventsTypeOK
  <1>7. \A q \in Lines' : \E p \in Lines : Grows(q, p, e)
    <2>1. ASSUME NEW u \in Servers, NEW a \in Seq(Events)
          PROVE  Grows(a \o wire'[u], a \o wire[u], e)
      <3>1. wire[u] \in Seq(Events) /\ wire'[u] \in {wire[u], Append(wire[u], e)}
        BY <1>1, LineTypes
      <3>2. Grows(a \o Append(wire[u], e), a \o wire[u], e)
        BY <1>2, <3>1, LineGrows
      <3> QED
        BY <3>1, <3>2, ThinsItself
    <2>2. ASSUME NEW u \in Servers, NEW h \in Handlers
          PROVE  Grows(heard'[u][h] \o wire'[u], heard[u][h] \o wire[u], e)
      <3>1. heard[u][h] \in Seq(Events) /\ heard' = heard
        BY <1>1, LineTypes
      <3> QED
        BY <2>1, <3>1
    <2>3. ASSUME NEW u \in Servers
          PROVE  Grows((shown'[u] \o down'[u]) \o wire'[u],
                       (shown[u] \o down[u]) \o wire[u], e)
      <3>1. shown[u] \o down[u] \in Seq(Events) /\ shown' = shown /\ down' = down
        BY <1>1, LineTypes
      <3> QED
        BY <2>1, <3>1
    <2> QED
      BY <2>2, <2>3, GrownByParts
  <1>8. LinesInv'
    <2>1. e \in Emitted' /\ Emitted' = Emitted
      BY <1>1, <1>4 DEF Emitted
    <2>2. Emitted \subseteq Events
      BY LineTypes
    <2> QED
      BY <1>1, <1>2, <1>4, <1>6, <1>7, <2>1, <2>2, LinesExtended
  <1>9. ASSUME NEW u \in Servers, NEW x \in ToSet(out'[u])
        PROVE  /\ x \in ToSet(out[u]) /\ x # e
               /\ x \in Emitted' /\ emitter'[x] = u /\ ~Before(out'[u], x, x)
               /\ \A q \in Lines' : x \notin ToSet(q)
    <2>1. x \in ToSet(out[u])
      BY <1>2, <1>3, <1>9
    <2>2. /\ x \in Emitted /\ emitter[x] = u /\ ~Before(out[u], x, x)
          /\ \A q \in Lines : x \notin ToSet(q)
      BY <2>1 DEF OutInv
    <2>3. x # e
      BY <1>2, <1>3, <1>4, <1>9, <2>2
    <2>4. ~Before(out'[u], x, x)
      BY <1>2, <1>3, <2>2
    <2>5. \A q \in Lines' : x \notin ToSet(q)
      BY <1>7, <2>2, <2>3 DEF Grows
    <2> QED
      BY <1>1, <2>1, <2>2, <2>3, <2>4, <2>5 DEF Emitted
  <1>10. ASSUME NEW u \in Servers, backend = "redis"
         PROVE  /\ \A d, x \in Events : Before(out'[u], d, x) => d < x
                /\ \A q \in Lines' : \A d \in ToSet(q), x \in ToSet(out'[u]) :
                       emitter'[d] = u => d < x
    <2>1. \A d, x \in Events : Before(out'[u], d, x) => d < x
      BY <1>2, <1>3, <1>10 DEF OutInv
    <2>2. ASSUME NEW q \in Lines', NEW d \in ToSet(q), NEW x \in ToSet(out'[u]),
                 emitter'[d] = u
          PROVE  d < x
      <3>1. PICK p \in Lines : Grows(q, p, e)
        BY <1>7
      <3>2. CASE d \in ToSet(p)
        BY <1>1, <1>9, <1>10, <2>2, <3>2 DEF OutInv
      <3>3. CASE d = e
        <4>1. u = t /\ k = 1 /\ x \in ToSet(r)
          BY <1>1, <1>3, <1>4, <1>10, <2>2, <3>3
        <4>2. Before(out[t], e, x) /\ x \in Events
          <5>1. x \in Emitted /\ Emitted \subseteq Events
            BY <1>1, <1>9, LineTypes DEF Emitted
          <5> QED
            BY <1>2, <4>1, <5>1
        <4> QED
          BY <1>2, <1>10, <3>3, <4>1, <4>2 DEF OutInv
      <3> QED
        BY <3>1, <3>2, <3>3 DEF Grows
    <2> QED
      BY <2>1, <2>2
  <1>11. OutInv'
    BY <1>1, <1>9, <1>10 DEF OutInv
  <1> QED
    BY <1>8, <1>11

\* What a new event is called with, or waits as.
LEMMA EmitLines ==
    ASSUME EventsTypeOK, BusInv, AtOnce, LinesInv, OutInv, NEW s \in Servers, Emit(s)
    PROVE  LinesInv' /\ OutInv'
  <1> DEFINE e == Len(emitter) + 1
  <1>1. /\ Len(emitter) \in Nat /\ e \in Events /\ Emitted \subseteq Events
        /\ emitter \in Seq(Servers) /\ emitter' = Append(emitter, s)
        /\ UNCHANGED <<backend, shown, wire>>
    <2>1. Len(emitter) \in Nat /\ Emitted \subseteq Events
      BY LineTypes
    <2>2. e <= MaxEvents /\ emitter' = Append(emitter, s) /\ UNCHANGED <<backend, shown, wire>>
      BY DEF Emit
    <2>3. e \in Events
      BY <2>1, <2>2, EventBoundsAreNat DEF Events
    <2> QED
      BY <2>1, <2>2, <2>3 DEF EventsTypeOK
  <1>2. /\ e \in Emitted' /\ emitter'[e] = s /\ e \notin Emitted
        /\ \A x \in Emitted : x \in Emitted' /\ emitter'[x] = emitter[x] /\ x < e
    BY <1>1 DEF Emitted
  <1>3. \A p \in Lines : e \notin ToSet(p) /\ \A x \in ToSet(p) : x < e
    BY <1>2 DEF LinesInv
  <1>4. /\ link[s] = "none" => UNCHANGED <<heard, down, out>>
        /\ link[s] # "none" /\ backend # "memory" =>
               UNCHANGED <<heard, down>> /\ out' = [out EXCEPT ![s] = Append(out[s], e)]
        /\ link[s] # "none" /\ backend = "memory" => Hear(s, e) /\ UNCHANGED out
    BY DEF Emit, Die
  <1> HIDE DEF e
  <1>5. CASE link[s] # "none" /\ backend = "memory"
    <2>1. /\ heard' = [heard EXCEPT ![s] = [h \in Handlers |->
                            IF h \in handlers[s] THEN Append(heard[s][h], e)
                                                 ELSE heard[s][h]]]
          /\ down' = IF Relay \in handlers[s] /\ attached[s]
                     THEN [down EXCEPT ![s] = Append(down[s], e)] ELSE down
          /\ out' = out
      BY <1>1, <1>4, <1>5, HearIs
    <2>2. \A u \in Servers : wire[u] = <<>> /\ wire'[u] = <<>> /\ out'[u] = <<>>
      BY <1>1, <1>5, <2>1 DEF AtOnce
    <2>3. ASSUME NEW a \in Seq(Events)
          PROVE  a \o <<>> = a /\ Grows(Append(a, e), a, e)
      <3>1. a \o <<>> = a
        OBVIOUS
      <3> DEFINE y == Append(a, e)
      <3>2. /\ ToSet(y) = ToSet(a) \cup {e}
            /\ \A d, x : Before(y, d, x) <=> Before(a, d, x) \/ (d \in ToSet(a) /\ x = e)
        BY <1>1, BeforeAppend
      <3> HIDE DEF y
      <3>3. Grows(y, a, e)
        BY <3>2 DEF Grows
      <3> QED
        BY <3>1, <3>3 DEF y
    <2>4. ASSUME NEW u \in Servers, NEW h \in Handlers
          PROVE  Grows(heard'[u][h] \o wire'[u], heard[u][h] \o wire[u], e)
      <3>1. heard[u][h] \in Seq(Events) /\ Append(heard[u][h], e) \in Seq(Events)
        BY <1>1, LineTypes
      <3>2. heard'[u][h] \in {heard[u][h], Append(heard[u][h], e)}
        BY <2>1 DEF EventsTypeOK
      <3> QED
        BY <2>2, <2>3, <3>1, <3>2, ThinsItself
    <2>5. ASSUME NEW u \in Servers
          PROVE  Grows((shown'[u] \o down'[u]) \o wire'[u],
                       (shown[u] \o down[u]) \o wire[u], e)
      <3> DEFINE a == shown[u] \o down[u]
      <3>1. a \in Seq(Events) /\ shown[u] \in Seq(Events) /\ down[u] \in Seq(Events)
        BY LineTypes
      <3>2. down'[u] \in {down[u], Append(down[u], e)}
        BY <2>1 DEF EventsTypeOK
      <3>3. shown[u] \o Append(down[u], e) = Append(a, e)
        BY <1>1, <3>1, AppendLater
      <3>4. shown'[u] \o down'[u] \in {a, Append(a, e)} /\ Append(a, e) \in Seq(Events)
        <4>1. shown'[u] = shown[u]
          BY <1>1
        <4>2. shown'[u] \o down'[u] \in {a, Append(a, e)}
          BY <3>2, <3>3, <4>1
        <4>3. e \in Events
          BY <1>1
        <4> HIDE DEF a
        <4>4. Append(a, e) \in Seq(Events)
          BY <3>1, <4>3
        <4> QED
          BY <4>2, <4>4
      <3> HIDE DEF a
      <3> DEFINE c == shown'[u] \o down'[u]
      <3>5. c \in {a, Append(a, e)}
        BY <3>4
      <3> HIDE DEF c
      <3>6. Grows(c \o wire'[u], a \o wire[u], e)
        BY <2>2, <2>3, <3>1, <3>4, <3>5, ThinsItself
      <3> QED
        BY <3>6 DEF a, c
    <2>6. \A q \in Lines' : \E p \in Lines : Grows(q, p, e)
      BY <2>4, <2>5, GrownByParts
    <2>7. LinesInv'
      BY <1>1, <1>2, <1>3, <2>6, LinesExtended
    <2>8. \A d, x : ToSet(<<>>) = {} /\ ~Before(<<>>, d, x)
      BY DEF ToSet, Before
    <2>9. OutInv'
      BY <2>2, <2>8 DEF OutInv
    <2> QED
      BY <2>7, <2>9
  <1>6. CASE ~(link[s] # "none" /\ backend = "memory")
    <2>1. UNCHANGED <<heard, down, shown, wire>>
      BY <1>1, <1>4, <1>6
    <2>2. Lines' = Lines
      BY <2>1 DEF Lines, HandlerLine, PageLine
    <2>3. LinesInv'
      <3>1. \A q \in Lines' : \E p \in Lines : Grows(q, p, e)
        BY <2>2, ThinsItself
      <3> QED
        BY <1>1, <1>2, <1>3, <3>1, LinesExtended
    <2>4. \A u \in Servers : out'[u] = out[u] \/ (u = s /\ out'[u] = Append(out[s], e))
      BY <1>4, <1>6 DEF EventsTypeOK
    <2>5. out[s] \in Seq(Events)
      BY LineTypes
    <2> DEFINE y == Append(out[s], e)
    <2>6. /\ ToSet(y) = ToSet(out[s]) \cup {e}
          /\ \A d, x : Before(y, d, x) <=> Before(out[s], d, x) \/ (d \in ToSet(out[s]) /\ x = e)
      BY <1>1, <2>5, BeforeAppend
    <2> HIDE DEF y
    <2>7. ~Before(out[s], e, e) /\ e \notin ToSet(out[s])
      BY <1>2, BeforeIsOn DEF OutInv
    <2>8. ASSUME NEW u \in Servers, NEW x \in ToSet(out'[u])
          PROVE  /\ x \in Emitted' /\ emitter'[x] = u /\ ~Before(out'[u], x, x)
                 /\ \A q \in Lines' : x \notin ToSet(q)
      <3>1. CASE out'[u] = out[u]
        BY <1>2, <2>2, <2>8, <3>1 DEF OutInv
      <3>2. CASE u = s /\ out'[u] = y
        BY <1>2, <1>3, <2>2, <2>6, <2>7, <2>8, <3>2 DEF OutInv
      <3> QED
        BY <2>4, <3>1, <3>2 DEF y
    <2>9. ASSUME NEW u \in Servers, backend = "redis"
          PROVE  /\ \A d, x \in Events : Before(out'[u], d, x) => d < x
                 /\ \A q \in Lines' : \A d \in ToSet(q), x \in ToSet(out'[u]) :
                        emitter'[d] = u => d < x
      <3>1. \A q \in Lines : \A d \in ToSet(q) : d \in Emitted
        BY DEF LinesInv
      <3>2. \A d \in ToSet(out[u]) : d \in Emitted
        BY DEF OutInv
      <3>3. CASE out'[u] = out[u]
        BY <1>2, <2>2, <2>9, <3>1, <3>3 DEF OutInv
      <3>4. CASE u = s /\ out'[u] = y
        <4>1. \A d, x \in Events : Before(out'[u], d, x) => d < x
          BY <1>2, <2>6, <2>9, <3>2, <3>4 DEF OutInv
        <4>2. ASSUME NEW q \in Lines', NEW d \in ToSet(q), NEW x \in ToSet(out'[u]),
                     emitter'[d] = u
              PROVE  d < x
          BY <1>2, <2>2, <2>6, <2>9, <3>1, <3>4, <4>2 DEF OutInv
        <4> QED
          BY <4>1, <4>2
      <3> QED
        BY <2>4, <3>3, <3>4 DEF y
    <2>10. OutInv'
      BY <1>1, <2>8, <2>9 DEF OutInv
    <2> QED
      BY <2>3, <2>10
  <1> QED
    BY <1>5, <1>6

-----------------------------------------------------------------------------
(* Events: what handlers are owed. *)

OnItsWay(s, h, e) ==
    \/ e \in ToSet(heard[s][h])
    \/ e \in ToSet(wire[s])
    \/ \E t \in Servers : e \in ToSet(out[t])

\* The part of OwedInv that says who is within hearing.
Hears(s, h) ==
    /\ h \in handlers[s]
    /\ backend = "redis" => ear[s] = "open"
    /\ backend = "postgres" => link[s] = "up"

LEMMA OwedIs ==
    OwedInv <=> \A s \in Servers : alive[s] => \A p \in owed[s] :
                    Hears(s, p[1]) /\ p[2] \in Emitted /\ OnItsWay(s, p[1], p[2])
  BY DEF OwedInv, Hears, OnItsWay

LEMMA OwedNext ==
    OwedInv' <=> \A s \in Servers : alive'[s] => \A p \in owed'[s] :
                    Hears(s, p[1])' /\ p[2] \in Emitted' /\ OnItsWay(s, p[1], p[2])'
  BY DEF OwedInv, Hears, OnItsWay

LEMMA DeliverOwed ==
    ASSUME EventsInv, NEW s \in Servers, Deliver(s)
    PROVE  OwedInv'
  <1> DEFINE w == wire[s]
             e == Head(w)
  <1>1. /\ w \in Seq(Events) /\ w # <<>> /\ e \in Events
        /\ ToSet(w) = {e} \cup ToSet(Tail(w))
    <2>1. w \in Seq(Events) /\ w # <<>>
      BY DEF Deliver, EventsInv, EventsTypeOK
    <2> QED
      BY <2>1, BeforeTail
  <1>2. /\ heard' = [heard EXCEPT ![s] = [h \in Handlers |->
                            IF h \in handlers[s] THEN Append(heard[s][h], e)
                                                 ELSE heard[s][h]]]
        /\ wire' = [wire EXCEPT ![s] = Tail(w)]
        /\ UNCHANGED <<emitter, backend, alive, link, ear, handlers, out, owed>>
    BY <1>1, HearIs DEF Deliver, EventsInv, busVars
  <1> HIDE DEF e
  <1> SUFFICES ASSUME NEW u \in Servers, alive'[u], NEW p \in owed'[u]
               PROVE  Hears(u, p[1])' /\ p[2] \in Emitted' /\ OnItsWay(u, p[1], p[2])'
    BY OwedNext
  <1>3. p[1] \in Handlers /\ Hears(u, p[1]) /\ p[2] \in Emitted /\ OnItsWay(u, p[1], p[2])
    <2>1. p \in owed[u] /\ alive[u] /\ p \in Handlers \X Events
      BY <1>2 DEF EventsInv, EventsTypeOK
    <2> QED
      BY <2>1, OwedIs DEF EventsInv
  <1>4. Hears(u, p[1])' /\ p[2] \in Emitted'
    BY <1>2, <1>3 DEF Hears, Emitted
  <1>5. CASE u # s
    <2>1. heard'[u] = heard[u] /\ wire'[u] = wire[u]
      BY <1>2, <1>5 DEF EventsInv, EventsTypeOK
    <2> QED
      BY <1>2, <1>3, <1>4, <2>1 DEF OnItsWay
  <1>6. CASE u = s
    <2>1. heard'[s][p[1]] = Append(heard[s][p[1]], e) /\ wire'[s] = Tail(w)
      BY <1>2, <1>3, <1>6 DEF EventsInv, EventsTypeOK, Hears
    <2>2. ToSet(heard'[s][p[1]]) = ToSet(heard[s][p[1]]) \cup {e}
      <3>1. heard[s][p[1]] \in Seq(Events)
        BY <1>3 DEF EventsInv, EventsTypeOK
      <3> DEFINE a == heard[s][p[1]]
      <3>2. a \in Seq(Events) /\ heard'[s][p[1]] = Append(a, e)
        BY <2>1, <3>1
      <3> HIDE DEF a
      <3>3. ToSet(Append(a, e)) = ToSet(a) \cup {e}
        BY <1>1, <3>2, BeforeAppend
      <3> QED
        BY <3>2, <3>3 DEF a
    <2>3. OnItsWay(s, p[1], p[2])'
      BY <1>1, <1>2, <1>3, <1>6, <2>1, <2>2 DEF OnItsWay
    <2> QED
      BY <1>4, <1>6, <2>3
  <1> QED
    BY <1>5, <1>6

LEMMA TakeOwed ==
    ASSUME EventsInv, NEW t \in Servers, NEW k \in Events, Take(t, k)
    PROVE  OwedInv'
  <1> DEFINE q0 == out[t]
             e == q0[k]
             r == RemoveAt(q0, k)
  <1>1. /\ q0 \in Seq(Events) /\ k \in DOMAIN q0
        /\ UNCHANGED <<backend, emitter, heard, alive, link, ear, handlers, owed>>
        /\ wire' = [s \in Servers |-> IF WithinHearing(s, t)
                                      THEN Append(wire[s], e) ELSE wire[s]]
        /\ out' = [out EXCEPT ![t] = r]
    BY DEF Take, EventsInv, EventsTypeOK, busVars
  <1>2. e \in Events /\ ToSet(q0) = ToSet(r) \cup {e}
    BY <1>1, BeforeRemove
  <1>3. out'[t] = r /\ \A u \in Servers : u # t => out'[u] = out[u]
    BY <1>1 DEF EventsInv, EventsTypeOK
  <1>4. backend # "memory"
    <2>1. DOMAIN <<>> = {}
      OBVIOUS
    <2> QED
      BY <1>1, <2>1 DEF EventsInv, AtOnce
  <1> HIDE DEF e, r
  <1> SUFFICES ASSUME NEW u \in Servers, alive'[u], NEW p \in owed'[u]
               PROVE  Hears(u, p[1])' /\ p[2] \in Emitted' /\ OnItsWay(u, p[1], p[2])'
    BY OwedNext
  <1>5. /\ p[1] \in Handlers /\ Hears(u, p[1]) /\ p[2] \in Emitted
        /\ OnItsWay(u, p[1], p[2])
    <2>1. p \in owed[u] /\ alive[u] /\ p \in Handlers \X Events
      BY <1>1 DEF EventsInv, EventsTypeOK
    <2> QED
      BY <2>1, OwedIs DEF EventsInv
  <1>6. Hears(u, p[1])' /\ p[2] \in Emitted'
    BY <1>1, <1>5 DEF Hears, Emitted
  <1>7. wire[u] \in Seq(Events) /\ ToSet(wire'[u]) = ToSet(wire[u]) \cup {e}
    <2>1. alive[u] /\ backend \in {"redis", "postgres"}
      BY <1>1, <1>4, BackendsAreKnown DEF EventsInv, EventsTypeOK
    <2>2. WithinHearing(u, t)
      BY <1>5, <2>1 DEF WithinHearing, Hears
    <2>3. wire'[u] = Append(wire[u], e) /\ wire[u] \in Seq(Events)
      BY <1>1, <2>2 DEF EventsInv, EventsTypeOK
    <2> DEFINE a == wire[u]
    <2>4. a \in Seq(Events) /\ wire'[u] = Append(a, e)
      BY <2>3
    <2> HIDE DEF a
    <2>5. ToSet(Append(a, e)) = ToSet(a) \cup {e}
      BY <1>2, <2>4, BeforeAppend
    <2> QED
      BY <2>4, <2>5 DEF a
  <1>8. OnItsWay(u, p[1], p[2])'
    <2>1. CASE \E v \in Servers : p[2] \in ToSet(out[v])
      <3>1. PICK v \in Servers : p[2] \in ToSet(out[v])
        BY <2>1
      <3> QED
        BY <1>2, <1>3, <1>7, <3>1 DEF OnItsWay
    <2>2. CASE p[2] \in ToSet(heard[u][p[1]]) \/ p[2] \in ToSet(wire[u])
      BY <1>1, <1>7, <2>2 DEF OnItsWay
    <2> QED
      BY <1>5, <2>1, <2>2 DEF OnItsWay
  <1> QED
    BY <1>6, <1>8

LEMMA EmitOwed ==
    ASSUME EventsInv, NEW s \in Servers, Emit(s)
    PROVE  OwedInv'
  <1> DEFINE e == Len(emitter) + 1
  <1>1. /\ Len(emitter) \in Nat /\ e \in Events /\ emitter' = Append(emitter, s)
        /\ emitter \in Seq(Servers) /\ UNCHANGED <<backend, link, ear, wire>>
    <2>1. Len(emitter) \in Nat
      BY LineTypes DEF EventsInv
    <2>2. e <= MaxEvents /\ emitter' = Append(emitter, s)
          /\ UNCHANGED <<backend, link, ear, wire>>
      BY DEF Emit
    <2>3. e \in Events
      BY <2>1, <2>2, EventBoundsAreNat DEF Events
    <2> QED
      BY <2>1, <2>2, <2>3 DEF EventsInv, EventsTypeOK
  <1>2. e \in Emitted' /\ Emitted \subseteq Emitted'
    BY <1>1 DEF Emitted
  <1> HIDE DEF e
  <1> SUFFICES ASSUME NEW u \in Servers, alive'[u], NEW p \in owed'[u]
               PROVE  Hears(u, p[1])' /\ p[2] \in Emitted' /\ OnItsWay(u, p[1], p[2])'
    BY OwedNext
  <1>3. CASE link[s] = "none"
    <2>1. /\ alive[u] /\ handlers'[u] = handlers[u] /\ UNCHANGED <<heard, out, owed>>
      BY <1>3 DEF Emit, Die, EventsInv, EventsTypeOK
    <2>2. Hears(u, p[1]) /\ p[2] \in Emitted /\ OnItsWay(u, p[1], p[2])
      BY <2>1, OwedIs DEF EventsInv
    <2> QED
      BY <1>1, <1>2, <2>1, <2>2 DEF Hears, OnItsWay
  <1>4. CASE link[s] # "none"
    <2>1. /\ owed' = [t \in Servers |-> IF WithinHearing(t, s)
                                        THEN owed[t] \cup (handlers[t] \X {e})
                                        ELSE owed[t]]
          /\ backend = "memory" => Hear(s, e) /\ UNCHANGED out
          /\ backend # "memory" =>
                 out' = [out EXCEPT ![s] = Append(out[s], e)] /\ UNCHANGED heard
          /\ UNCHANGED <<alive, handlers>>
      BY <1>4 DEF Emit, busVars, e
    <2>2. /\ \A h \in Handlers : ToSet(heard[u][h]) \subseteq ToSet(heard'[u][h])
          /\ \A v \in Servers : ToSet(out[v]) \subseteq ToSet(out'[v])
          /\ backend # "memory" => e \in ToSet(out'[s])
          /\ backend = "memory" =>
                 \A h \in handlers[s] : e \in ToSet(heard'[s][h])
      <3>1. CASE backend = "memory"
        <4>1. /\ heard' = [heard EXCEPT ![s] = [h \in Handlers |->
                            IF h \in handlers[s] THEN Append(heard[s][h], e)
                                                 ELSE heard[s][h]]]
              /\ out' = out
          BY <1>1, <2>1, <3>1, HearIs DEF EventsInv
        <4>2. ASSUME NEW v \in Servers, NEW h \in Handlers
              PROVE  /\ ToSet(Append(heard[v][h], e)) = ToSet(heard[v][h]) \cup {e}
                     /\ heard'[v][h] = IF v = s /\ h \in handlers[s]
                                       THEN Append(heard[v][h], e) ELSE heard[v][h]
          <5>1. heard[v][h] \in Seq(Events)
            BY DEF EventsInv, EventsTypeOK
          <5>2. ToSet(Append(heard[v][h], e)) = ToSet(heard[v][h]) \cup {e}
            BY <1>1, <5>1, BeforeAppend
          <5> QED
            BY <4>1, <5>2 DEF EventsInv, EventsTypeOK
        <4>3. handlers[s] \subseteq Handlers
          BY DEF EventsInv, EventsTypeOK
        <4>4. ASSUME NEW v \in Servers, NEW h \in Handlers
              PROVE  /\ ToSet(heard[v][h]) \subseteq ToSet(heard'[v][h])
                     /\ v = s /\ h \in handlers[s] => e \in ToSet(heard'[v][h])
          <5>1. CASE v = s /\ h \in handlers[s]
            <6>1. heard'[v][h] = Append(heard[v][h], e)
              BY <4>2, <5>1
            <6> QED
              BY <4>2, <6>1
          <5>2. CASE ~(v = s /\ h \in handlers[s])
            <6>1. heard'[v][h] = heard[v][h]
              BY <4>2, <5>2
            <6> QED
              BY <5>2, <6>1
          <5> QED
            BY <5>1, <5>2
        <4> QED
          BY <3>1, <4>1, <4>3, <4>4
      <3>2. CASE backend # "memory"
        <4>1. out[s] \in Seq(Events)
          BY DEF EventsInv, EventsTypeOK
        <4>2. ToSet(Append(out[s], e)) = ToSet(out[s]) \cup {e}
          BY <1>1, <4>1, BeforeAppend
        <4>3. \A v \in Servers : out'[v] = IF v = s THEN Append(out[s], e) ELSE out[v]
          BY <2>1, <3>2 DEF EventsInv, EventsTypeOK
        <4> QED
          BY <2>1, <3>2, <4>2, <4>3
      <3> QED
        BY <3>1, <3>2
    <2>3. CASE p \in owed[u]
      <3>1. /\ p[1] \in Handlers /\ Hears(u, p[1]) /\ p[2] \in Emitted
            /\ OnItsWay(u, p[1], p[2])
        BY <2>1, <2>3, OwedIs DEF EventsInv, EventsTypeOK
      <3>2. OnItsWay(u, p[1], p[2])'
        BY <1>1, <2>2, <3>1 DEF OnItsWay
      <3> QED
        BY <1>1, <1>2, <2>1, <3>1, <3>2 DEF Hears
    <2>4. CASE p \notin owed[u]
      <3>1. /\ WithinHearing(u, s) /\ p \in handlers[u] \X {e}
        BY <2>1, <2>4
      <3>2. p[1] \in handlers[u] /\ p[2] = e /\ handlers[u] \subseteq Handlers
        BY <3>1 DEF EventsInv, EventsTypeOK
      <3>3. backend \in {"memory", "redis", "postgres"}
        BY BackendsAreKnown DEF EventsInv, EventsTypeOK
      <3>4. /\ backend = "memory" => u = s
            /\ backend = "redis" => ear[u] = "open"
            /\ backend = "postgres" => link[u] = "up"
        BY <3>1, <3>3 DEF WithinHearing
      <3>5. Hears(u, p[1])'
        BY <1>1, <2>1, <3>2, <3>4 DEF Hears
      <3>6. OnItsWay(u, p[1], p[2])'
        BY <2>2, <3>2, <3>4 DEF OnItsWay
      <3> QED
        BY <1>2, <3>2, <3>5, <3>6
    <2> QED
      BY <2>3, <2>4
  <1> QED
    BY <1>3, <1>4

LEMMA OwedStep == EventsInv /\ [EventsNext]_eventVars => OwedInv'
  <1> SUFFICES ASSUME EventsInv, [EventsNext]_eventVars
               PROVE  OwedInv'
    OBVIOUS
  <1>0. EventsTypeOK /\ OwedInv
    BY DEF EventsInv
  <1>1. ASSUME NEW s \in Servers, Connect(s) \/ Subscribed(s)
        PROVE  OwedInv'
    <2>1. UNCHANGED <<backend, alive, handlers, out, wire, emitter, heard, owed>>
      BY <1>1 DEF Connect, Subscribed, busVars
    <2>2. \A u \in Servers : link[u] = "up" => link'[u] = "up"
      BY <1>0, <1>1 DEF Connect, Subscribed, EventsTypeOK
    <2>3. \A u \in Servers : ear[u] = "open" => ear'[u] = "open"
      BY <1>0, <1>1 DEF Connect, Subscribed, EventsTypeOK
    <2> QED
      BY <1>0, <2>1, <2>2, <2>3 DEF OwedInv, Emitted
  <1>2. ASSUME NEW s \in Servers, DestroyBus(s)
        PROVE  OwedInv'
    <2>1. UNCHANGED <<backend, alive, link, ear, out, wire, emitter, heard>>
      BY <1>2 DEF DestroyBus
    <2>2. \A u \in Servers : owed'[u] = {} \/ (handlers'[u] = handlers[u] /\ owed'[u] = owed[u])
      BY <1>0, <1>2 DEF DestroyBus, EventsTypeOK
    <2> QED
      BY <1>0, <2>1, <2>2 DEF OwedInv, Emitted
  <1>3. ASSUME NEW s \in Servers, NEW h \in Handlers, On(s, h)
        PROVE  OwedInv'
    <2>1. /\ \A u \in Servers : handlers[u] \subseteq handlers'[u]
          /\ UNCHANGED <<backend, alive, link, out, wire, emitter, heard, owed>>
      BY <1>0, <1>3 DEF On, EventsTypeOK
    <2>2. \A u \in Servers : ear[u] = "open" => ear'[u] = "open"
      BY <1>0, <1>3 DEF On, Ask, EventsTypeOK
    <2> QED
      BY <1>0, <2>1, <2>2 DEF OwedInv, Emitted
  <1>4. ASSUME NEW s \in Servers, NEW h \in Handlers, Off(s, h)
        PROVE  OwedInv'
    <2>1. UNCHANGED <<backend, alive, link, ear, out, wire, emitter, heard>>
      BY <1>4 DEF Off
    <2>2. ASSUME NEW u \in Servers, NEW p \in owed'[u]
          PROVE  p \in owed[u] /\ (p[1] \in handlers[u] => p[1] \in handlers'[u])
      BY <1>0, <1>4, <2>2 DEF Off, EventsTypeOK
    <2> QED
      BY <1>0, <2>1, <2>2 DEF OwedInv, Emitted
  <1>5. CASE UNCHANGED <<backend, alive, link, ear, handlers, out, wire, emitter, heard, owed>>
    BY <1>0, <1>5 DEF OwedInv, Emitted
  <1> QED
    BY <1>1, <1>2, <1>3, <1>4, <1>5, DeliverOwed, TakeOwed, EmitOwed
    DEF EventsNext, PageEmits, PageConnects, PageLeaves, PageOn, PageOff, Show,
        eventVars, busVars

-----------------------------------------------------------------------------
(* Events: theorems. *)

LEMMA LinesStep == EventsInv /\ [EventsNext]_eventVars => LinesInv' /\ OutInv'
  <1> SUFFICES ASSUME EventsInv, [EventsNext]_eventVars
               PROVE  LinesInv' /\ OutInv'
    OBVIOUS
  <1>0. EventsTypeOK /\ BusInv /\ AtOnce /\ LinesInv /\ OutInv
    BY DEF EventsInv
  <1>1. CASE UNCHANGED <<backend, out, wire, down, shown, emitter, heard>>
    <2>1. Lines' = Lines
      BY <1>1 DEF Lines, HandlerLine, PageLine
    <2> QED
      BY <1>0, <1>1, <2>1, ThinsItself, LinesThinned
  <1>2. ASSUME NEW s \in Servers,
               \/ Connect(s) \/ Subscribed(s) \/ DestroyBus(s)
               \/ PageConnects(s) \/ PageOn(s) \/ PageOff(s)
        PROVE  UNCHANGED <<backend, out, wire, down, shown, emitter, heard>>
    BY <1>2 DEF Connect, Subscribed, DestroyBus, PageConnects, PageOn, PageOff, pageVars
  <1>3. ASSUME NEW s \in Servers, NEW h \in Handlers, On(s, h) \/ Off(s, h)
        PROVE  UNCHANGED <<backend, out, wire, down, shown, emitter, heard>>
    BY <1>3 DEF On, Off, pageVars
  <1> QED
    BY <1>0, <1>1, <1>2, <1>3, DeliverLines, PageLines, TakeLines, EmitLines,
       BackendsAreKnown
    DEF EventsNext, PageEmits, eventVars, pageVars

LEMMA EventsInitially == EventsInit => EventsInv
  <1> SUFFICES ASSUME EventsInit PROVE EventsInv
    OBVIOUS
  <1>1. EventsTypeOK
    <2>1. <<>> \in Seq(Events) /\ <<>> \in Seq(Servers) /\ Len(<<>>) = 0
      OBVIOUS
    <2>2. backend \in Backends
      BY DEF EventsInit
    <2>3. /\ emitter \in Seq(Servers) /\ Len(emitter) <= MaxEvents
          /\ changes \in 0..MaxChanges
      BY <2>1, EventBoundsAreNat DEF EventsInit
    <2> QED
      BY <2>1, <2>2, <2>3 DEF EventsInit, EventsTypeOK
  <1>2. BusInv /\ AtOnce /\ OwedInv
    BY DEF EventsInit, BusInv, AtOnce, OwedInv
  <1>3. \A d, x : ToSet(<<>>) = {} /\ ~Before(<<>>, d, x) /\ <<>> \o <<>> = <<>>
    <2>1. <<>> \o <<>> = <<>>
      OBVIOUS
    <2> QED
      BY <2>1 DEF ToSet, Before
  <1>4. \A q \in Lines : q = <<>>
    <2>1. \A s \in Servers, h \in Handlers : HandlerLine(s, h) = <<>>
      BY <1>3 DEF EventsInit, HandlerLine
    <2>2. \A s \in Servers : PageLine(s) = <<>>
      <3>1. <<>> \o <<>> = <<>>
        BY <1>3
      <3> QED
        BY <3>1 DEF EventsInit, PageLine
    <2> QED
      BY <2>1, <2>2 DEF Lines
  <1>5. LinesInv
    BY <1>3, <1>4 DEF LinesInv
  <1>6. OutInv
    BY <1>3 DEF OutInv, EventsInit
  <1> QED
    BY <1>1, <1>2, <1>5, <1>6 DEF EventsInv

LEMMA EventsInvariance == EventsSpec => []EventsInv
  <1>1. EventsInv /\ [EventsNext]_eventVars => EventsInv'
    BY EventsTypeStep, BusStep, AtOnceStep, LinesStep, OwedStep DEF EventsInv
  <1> QED
    BY <1>1, EventsInitially, PTL DEF EventsSpec

\* Every variable of Events keeps its type: a bus has one listener with the backend
\* at most, however its handlers come and go (event-bus.ts:18-39).
THEOREM EventsTypeCorrect == EventsSpec => []EventsTypeOK
  <1>1. EventsInv => EventsTypeOK
    BY DEF EventsInv
  <1> QED
    BY <1>1, EventsInvariance, PTL

\* An account is the first part of its line.
LEMMA AccountsAreLines ==
    ASSUME EventsInv, NEW q \in Accounts
    PROVE  q \in Seq(Events) /\ \E p \in Lines : Thins(q, p)
  <1>1. ASSUME NEW a \in Seq(Events), NEW w \in Seq(Events)
        PROVE  Thins(a, a \o w)
    BY <1>1, BeforeConcat DEF Thins
  <1>2. ASSUME NEW s \in Servers, NEW h \in Handlers, q = heard[s][h]
        PROVE  q \in Seq(Events) /\ \E p \in Lines : Thins(q, p)
    <2>1. heard[s][h] \in Seq(Events) /\ wire[s] \in Seq(Events)
      BY DEF EventsInv, EventsTypeOK
    <2>2. HandlerLine(s, h) \in Lines
      BY DEF Lines
    <2> QED
      BY <1>1, <1>2, <2>1, <2>2 DEF HandlerLine
  <1>3. ASSUME NEW s \in Servers, q = shown[s] \o down[s]
        PROVE  q \in Seq(Events) /\ \E p \in Lines : Thins(q, p)
    <2>1. shown[s] \o down[s] \in Seq(Events) /\ wire[s] \in Seq(Events)
      BY LineTypes DEF EventsInv
    <2>2. PageLine(s) \in Lines
      BY DEF Lines
    <2> QED
      BY <1>1, <1>3, <2>1, <2>2 DEF PageLine
  <1>4. \/ \E s \in Servers, h \in Handlers : q = heard[s][h]
        \/ \E s \in Servers : q = shown[s] \o down[s]
    <2> DEFINE Both(s) == shown[s] \o down[s]
    <2>1. Accounts = {heard[s][h] : s \in Servers, h \in Handlers}
                         \cup {Both(s) : s \in Servers}
      BY DEF Accounts
    <2> HIDE DEF Both
    <2>2. \/ \E s \in Servers, h \in Handlers : q = heard[s][h]
          \/ \E s \in Servers : q = Both(s)
      BY <2>1
    <2> QED
      BY <2>2 DEF Both
  <1> QED
    BY <1>2, <1>3, <1>4

\* Handlers and pages of all servers hear no event twice and agree on the order of what
\* they hear, and no event is lost on a handler that is owed it: it was called with
\* it, or the event is on its way (event-bus.ts:18-55, redis.ts:40-48).
THEOREM EventsHeardInOrder == EventsSpec => []HeardInOrder
  <1>1. ASSUME EventsInv
        PROVE  OneOrder
    <2>1. ASSUME NEW p \in Accounts, NEW q \in Accounts, NEW d \in Events, NEW e \in Events,
                 Before(p, d, e), Before(q, e, d)
          PROVE  FALSE
      <3>1. PICK p0 \in Lines, q0 \in Lines : Thins(p, p0) /\ Thins(q, q0)
        BY <1>1, AccountsAreLines
      <3> QED
        BY <1>1, <2>1, <3>1 DEF Thins, EventsInv, LinesInv
    <2>2. ASSUME NEW q \in Accounts
          PROVE  IsInjective(q)
      <3>1. q \in Seq(Events)
        BY <1>1, AccountsAreLines
      <3> SUFFICES ASSUME NEW i \in DOMAIN q, NEW j \in DOMAIN q, q[i] = q[j], i # j
                   PROVE  FALSE
        BY DEF IsInjective
      <3>2. i \in Nat /\ j \in Nat /\ q[i] \in Events
        BY <3>1
      <3>3. Before(q, q[i], q[i])
        BY <3>2 DEF Before
      <3> QED
        BY <2>1, <3>2, <3>3
    <2>3. ASSUME backend # "postgres", NEW q \in Accounts, NEW d \in Events, NEW e \in Events,
                 Before(q, e, d), d < e
          PROVE  emitter[d] # emitter[e]
      <3>1. PICK q0 \in Lines : Thins(q, q0)
        BY <1>1, AccountsAreLines
      <3> QED
        BY <1>1, <2>3, <3>1 DEF Thins, EventsInv, LinesInv
    <2> QED
      BY <2>1, <2>2, <2>3 DEF OneOrder
  <1>2. EventsInv => OwedIsOnItsWay
    BY DEF EventsInv, OwedInv, OwedIsOnItsWay
  <1>3. EventsInv => HeardInOrder
    BY <1>1, <1>2 DEF HeardInOrder
  <1> QED
    BY <1>3, EventsInvariance, PTL
=============================================================================
