------------------------------ MODULE Sessions ------------------------------
(***************************************************************************)
(* SessionManager: per-user sessions held in memory and written whole to   *)
(* the backend when enough mutations have gathered, at an interval, on     *)
(* eviction and on shutdown.  flushUser copies the session, awaits the     *)
(* backend, and only then resets the user's dirty count; the application   *)
(* goes on meanwhile.  The backend may refuse a write, and the process may *)
(* die.                                                                    *)
(*                                                                         *)
(* A session is always written and loaded as a whole, so its content is    *)
(* modelled by its edition: each mutation gives the session a new one.     *)
(* The backend carries out writes in the order they were asked for, as     *)
(* MemoryBackend and RedisBackend do.                                      *)
(***************************************************************************)
EXTENDS Naturals, Sequences, SequencesExt

CONSTANTS Users,
          FlushThreshold,  \* options.flushThreshold
          MaxEditions,     \* bound: mutations per user
          MaxFlushes,      \* bound: flushes in progress together
          MaxRestores      \* bound: restores in progress together

ASSUME ThresholdPositive == FlushThreshold \in Nat \ {0}
ASSUME BoundsAreNat == {MaxEditions, MaxFlushes, MaxRestores} \subseteq Nat

VARIABLES
    phase,     \* "running", "destroying", "destroyed" or "rejected"
    loaded,    \* the users in SessionManager.sessions
    held,      \* the edition of each loaded session
    dirty,     \* dirtyCount
    flushes,   \* flushUser calls in progress, oldest first
    evicts,    \* the users of evict calls whose flushUser has returned
    restores,  \* snapshot calls in progress
    stored,    \* the edition the backend has, 0 for none
    \* History.
    issued,    \* editions made so far
    want,      \* the edition a lossless manager would persist
    excuse     \* what the application or the timing did to lose an edition

memVars == <<loaded, held, dirty>>
histVars == <<issued, want, excuse>>
vars == <<phase, memVars, flushes, evicts, restores, stored, histVars>>

Edition == 0..MaxEditions
Flush == [user: Users, edition: Edition, stored: BOOLEAN,
          by: {"threshold", "app", "interval", "evict", "destroy"}]
Restore == [user: Users, edition: Edition]
Excuse == {"overlap",   \* a mutation between a flush's copy and its reset
           "restore",   \* restore replaced a session that had unsaved changes
           "unloaded",  \* a mutation of a session not loaded from the backend
           "evicted",   \* evict dropped a mutation made after its flush
           "late"}      \* a mutation after destroy began

TypeOK ==
    /\ phase \in {"running", "destroying", "destroyed", "rejected"}
    /\ loaded \subseteq Users
    /\ held \in [Users -> Edition]
    /\ dirty \in [Users -> Nat]
    /\ flushes \in Seq(Flush)
    /\ evicts \in Seq(Users)
    /\ restores \in Seq(Restore)
    /\ stored \in [Users -> Edition]
    /\ issued \in [Users -> Edition]
    /\ want \in [Users -> Edition]
    /\ excuse \in [Users -> SUBSET Excuse]
    /\ \A u \in Users : held[u] <= issued[u] /\ stored[u] <= issued[u]

Init ==
    /\ phase = "running"
    /\ loaded = {}
    /\ held = [u \in Users |-> 0]
    /\ dirty = [u \in Users |-> 0]
    /\ flushes = <<>> /\ evicts = <<>> /\ restores = <<>>
    /\ stored = [u \in Users |-> 0]
    /\ issued = [u \in Users |-> 0]
    /\ want = [u \in Users |-> 0]
    /\ excuse = [u \in Users |-> {}]

\* Bound, not code.
MayStart == Len(flushes) + Len(evicts) < MaxFlushes

Excused(u, reasons) == excuse' = [excuse EXCEPT ![u] = @ \cup reasons]

-----------------------------------------------------------------------------
(* flushUser. *)

Started(u, edition, by) ==
    [user |-> u, edition |-> edition, stored |-> FALSE, by |-> by]

\* backend.set has been carried out.
UnorderedStore(i) ==  \* mutation of Store: the backend reorders writes
    /\ ~flushes[i].stored
    /\ stored' = [stored EXCEPT ![flushes[i].user] = flushes[i].edition]
    /\ flushes' = [flushes EXCEPT ![i].stored = TRUE]
    /\ UNCHANGED <<phase, memVars, evicts, restores, histVars>>

Store(i) ==
    /\ ~flushes[i].stored
    /\ \A j \in 1..i - 1 : flushes[j].stored
    /\ stored' = [stored EXCEPT ![flushes[i].user] = flushes[i].edition]
    /\ flushes' = [flushes EXCEPT ![i].stored = TRUE]
    /\ UNCHANGED <<phase, memVars, evicts, restores, histVars>>

\* The process dies, with all it holds in memory, and starts again.  A write
\* in progress may have reached the backend.
Crash ==
    /\ \E i \in 0..Len(flushes) :
           stored' = [u \in Users |->
               LET mine == {j \in 1..i : flushes[j].user = u /\ ~flushes[j].stored}
               IN  IF mine = {} THEN stored[u] ELSE flushes[Max(mine)].edition]
    /\ phase' = "running"
    /\ loaded' = {}
    /\ held' = [u \in Users |-> 0]
    /\ dirty' = [u \in Users |-> 0]
    /\ flushes' = <<>> /\ evicts' = <<>> /\ restores' = <<>>
    /\ want' = stored'
    /\ excuse' = [u \in Users |-> {}]
    /\ UNCHANGED issued

\* The rejection of backend.set: the timer's flushAll leaves it unhandled,
\* which ends the process; the others are caught, by the manager or by
\* whoever called it; a destroy it belongs to is rejected.
Refuse(i) ==
    /\ ~flushes[i].stored
    /\ flushes[i].by # "interval"
    /\ flushes' = RemoveAt(flushes, i)
    /\ phase' = IF flushes[i].by = "destroy" THEN "rejected" ELSE phase
    /\ UNCHANGED <<memVars, evicts, restores, stored, histVars>>
RefuseInterval(i) ==
    /\ ~flushes[i].stored
    /\ flushes[i].by = "interval"
    /\ Crash

\* The await of publish returns: reset the count.  The evict this flush was
\* made for goes on in a step of its own.
SubtractingFinish(i) ==  \* mutation of Finish: takes off a threshold's worth
    /\ flushes[i].stored
    /\ flushes' = RemoveAt(flushes, i)
    /\ dirty' = [dirty EXCEPT ![flushes[i].user] = @ - FlushThreshold]
    /\ UNCHANGED <<phase, loaded, held, evicts, restores, stored, histVars>>

UncountedFinish(i) ==  \* mutation of Finish: the count is not reset
    /\ flushes[i].stored
    /\ flushes' = RemoveAt(flushes, i)
    /\ UNCHANGED <<phase, memVars, evicts, restores, stored, histVars>>

Finish(i) ==
    LET u == flushes[i].user
    IN  /\ flushes[i].stored
        /\ flushes' = RemoveAt(flushes, i)
        /\ dirty' = [dirty EXCEPT ![u] = 0]
        /\ evicts' = IF flushes[i].by = "evict" THEN Append(evicts, u) ELSE evicts
        /\ Excused(u, IF flushes[i].edition = want[u] THEN {} ELSE {"overlap"})
        /\ UNCHANGED <<phase, loaded, held, restores, stored, issued, want>>

-----------------------------------------------------------------------------
(* The application's calls. *)

MutationExcused(u) ==
    Excused(u, (IF phase = "running" THEN {} ELSE {"late"})
                   \cup (IF u \in loaded \/ stored[u] = 0 THEN {}
                                                      ELSE {"unloaded"}))

MutateUncounted(u) ==  \* mutation of Mutate: the mutation is not counted
    /\ issued[u] < MaxEditions
    /\ issued' = [issued EXCEPT ![u] = @ + 1]
    /\ held' = [held EXCEPT ![u] = issued[u] + 1]
    /\ want' = [want EXCEPT ![u] = issued[u] + 1]
    /\ dirty' = dirty
    /\ MutationExcused(u)

Mutate(u) ==
    /\ issued[u] < MaxEditions
    /\ issued' = [issued EXCEPT ![u] = @ + 1]
    /\ held' = [held EXCEPT ![u] = issued[u] + 1]
    /\ want' = [want EXCEPT ![u] = issued[u] + 1]
    /\ dirty' = [dirty EXCEPT ![u] = @ + 1]
    /\ MutationExcused(u)

\* A change handler that throws keeps set from looking at the threshold.
Set(u, throws) ==
    /\ MayStart
    /\ Mutate(u)
    /\ loaded' = loaded \cup {u}
    /\ flushes' = IF dirty'[u] >= FlushThreshold /\ ~throws
                  THEN Append(flushes, Started(u, held'[u], "threshold"))
                  ELSE flushes
    /\ UNCHANGED <<phase, evicts, restores, stored>>

\* Of a key the session has: no look at the threshold.
Delete(u) ==
    /\ u \in loaded /\ held[u] > 0
    /\ Mutate(u)
    /\ UNCHANGED <<phase, loaded, flushes, evicts, restores, stored>>

FlushUser(u) ==
    /\ MayStart /\ u \in loaded
    /\ flushes' = Append(flushes, Started(u, held[u], "app"))
    /\ UNCHANGED <<phase, memVars, evicts, restores, stored, histVars>>

\* flushUser returns at once for a user without a session; evict awaits it all
\* the same.
Evict(u) ==
    /\ MayStart
    /\ \/ /\ u \in loaded
          /\ flushes' = Append(flushes, Started(u, held[u], "evict"))
          /\ UNCHANGED evicts
       \/ /\ u \notin loaded
          /\ evicts' = Append(evicts, u)
          /\ UNCHANGED flushes
    /\ UNCHANGED <<phase, memVars, restores, stored, histVars>>

\* The await of flushUser returns: whatever session the user has by now goes,
\* with its count.
EndEvict ==
    LET u == Head(evicts)
    IN  /\ evicts # <<>>
        /\ evicts' = Tail(evicts)
        /\ loaded' = loaded \ {u}
        /\ held' = [held EXCEPT ![u] = 0]
        /\ dirty' = [dirty EXCEPT ![u] = 0]
        /\ Excused(u, IF dirty[u] = 0 THEN {} ELSE {"evicted"})
        /\ UNCHANGED <<phase, flushes, restores, stored, issued, want>>

\* snapshot, or its alias restore: read the backend, and later replace what
\* is in memory by what was read, if anything was; the count stays.
BeginRestore(u) ==
    /\ Len(restores) < MaxRestores
    /\ restores' = Append(restores, [user |-> u, edition |-> stored[u]])
    /\ UNCHANGED <<phase, memVars, flushes, evicts, stored, histVars>>

EndRestore(i) ==
    LET u == restores[i].user
        e == restores[i].edition
    IN  /\ restores' = RemoveAt(restores, i)
        /\ IF e = 0 THEN UNCHANGED <<loaded, held, excuse>>
           ELSE /\ loaded' = loaded \cup {u}
                /\ held' = [held EXCEPT ![u] = e]
                /\ Excused(u, IF e = want[u] THEN {} ELSE {"restore"})
        /\ UNCHANGED <<phase, dirty, flushes, evicts, stored, issued, want>>

-----------------------------------------------------------------------------
(* The timer and shutdown. *)

\* flushAll: a flush for every user with a count above zero who has a session.
FlushAll(by) ==
    LET users == SetToSeq({u \in loaded : dirty[u] > 0})
    IN  flushes' = flushes \o
            [n \in 1..Len(users) |-> Started(users[n], held[users[n]], by)]

Interval ==
    /\ phase = "running"
    /\ MayStart
    /\ \E u \in loaded : dirty[u] > 0
    /\ FlushAll("interval")
    /\ UNCHANGED <<phase, memVars, evicts, restores, stored, histVars>>

Destroy ==
    /\ phase = "running"
    /\ phase' = "destroying"
    /\ FlushAll("destroy")
    /\ UNCHANGED <<memVars, evicts, restores, stored, histVars>>

\* destroy resolves; its flushes have all been carried out, or it would have
\* been rejected.
Destroyed ==
    /\ phase = "destroying"
    /\ \A i \in 1..Len(flushes) : flushes[i].by # "destroy"
    /\ phase' = "destroyed"
    /\ UNCHANGED <<memVars, flushes, evicts, restores, stored, histVars>>

-----------------------------------------------------------------------------
Next ==
    \/ \E u \in Users, throws \in BOOLEAN : Set(u, throws)
    \/ \E u \in Users : Delete(u)
    \/ \E u \in Users : FlushUser(u)
    \/ \E u \in Users : Evict(u)
    \/ EndEvict
    \/ \E u \in Users : BeginRestore(u)
    \/ \E i \in 1..Len(restores) : EndRestore(i)
    \/ \E i \in 1..Len(flushes) : Store(i)
    \/ \E i \in 1..Len(flushes) : Finish(i)
    \/ \E i \in 1..Len(flushes) : Refuse(i)
    \/ \E i \in 1..Len(flushes) : RefuseInterval(i)
    \/ Crash
    \/ Interval
    \/ Destroy
    \/ Destroyed

Spec == Init /\ [][Next]_vars

\* The interval timer fires, even when the bound on flushes now and then
\* disables it; the backend answers, callbacks run.
FairSpec ==
    /\ Spec
    /\ SF_vars(Interval)
    /\ WF_vars(\E i \in 1..Len(flushes) : Store(i))
    /\ WF_vars(\E i \in 1..Len(flushes) : Finish(i))
    /\ WF_vars(EndEvict)
    /\ WF_vars(\E i \in 1..Len(restores) : EndRestore(i))

-----------------------------------------------------------------------------
(* Properties. *)

\* A clean count can be trusted: when no mutation is counted and no flush is
\* under way, the backend has the last edition, whether the session is still
\* in memory, was evicted or died with the process; unless a mutation fell
\* between a flush's copy and its reset, evict dropped one made while it
\* awaited its flush (session-manager.ts:142-146), or the application worked on
\* a session it had not loaded or had loaded over (session-manager.ts:115-128).
NothingLost ==
    \A u \in Users :
        /\ excuse[u] = {} /\ dirty[u] = 0
        /\ \A i \in 1..Len(flushes) : flushes[i].user # u
        => stored[u] = want[u]

\* Overlapping flushes and evictions never put an older session over a newer
\* one in the backend.
PersistNeverRegresses ==
    [][\A u \in Users : "restore" \notin excuse[u] => stored'[u] >= stored[u]]_vars

\* destroy has persisted every session when it resolves, with the same
\* exceptions; a flush that was already on its way is enough.
DestroyPersists ==
    phase = "destroyed" =>
        \A u \in Users : excuse[u] = {} => stored[u] = want[u]

\* What is not counted, or was there at shutdown, is saved.
SavedOrExcused == NothingLost /\ DestroyPersists

\* Counted mutations do not wait for ever: the timer flushes them, whatever
\* the backend refused before, or an evict under way has dropped them.
DirtyGetsFlushed ==
    \A u \in Users :
        (phase = "running" /\ dirty[u] > 0)
            ~> (dirty[u] = 0 \/ phase # "running")
==============================================================================
