------------------------ MODULE MCClientConnection ------------------------
(* Instances of ClientConnection for TLC. *)
EXTENDS ClientConnection

\* Every option, with an orderly application and with one that overlaps calls.
AllModes == Mode

\* The defaults of a client without workers (Node, or useWorker: false), and
\* the most careful application.
DirectReconnecting == {[worker |-> FALSE, reconnect |-> TRUE, orderly |-> TRUE]}
===========================================================================
