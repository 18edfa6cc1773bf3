-------------------------- MODULE StateReplication --------------------------
(***************************************************************************)
(* What live state promises (docs/server.md, "every connected client sees  *)
(* a live mirror"): the server publishes a history of documents, and each  *)
(* client it has a promise to shows some document of that history, never a *)
(* mixture of two, and never goes back.  Batching may skip documents.      *)
(* LiveState shows for which clients, and which applications, datasole     *)
(* keeps the promise.                                                      *)
(***************************************************************************)
EXTENDS Naturals, Sequences

CONSTANTS Clients, EmptyDoc

VARIABLES history,   \* the documents the server has held, oldest first
          view,      \* the document each client shows
          at,        \* the place in history of a promised client's document
          promised   \* the clients with a promise

vars == <<history, view, at, promised>>

ShowsHistory(c) == at[c] \in 1..Len(history) /\ view[c] = history[at[c]]

Init ==
    /\ history = <<EmptyDoc>>
    /\ view = [c \in Clients |-> EmptyDoc]
    /\ at = [c \in Clients |-> 1]
    /\ promised \subseteq Clients

\* The server may publish, clients may move forward, a promise may be broken
\* off for good; a client without a promise may show anything.
Next ==
    /\ Len(history') >= Len(history)
    /\ \A v \in 1..Len(history) : history'[v] = history[v]
    /\ promised' \subseteq promised
    /\ \A c \in promised' : at'[c] >= at[c] /\ ShowsHistory(c)'

Spec == Init /\ [][Next]_vars
=============================================================================
