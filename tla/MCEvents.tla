------------------------------ MODULE MCEvents ------------------------------
(* An instance of Events for TLC. *)
EXTENDS Events, TLC

\* The servers are alike, and every property is a safety property.
Alike == Permutations(Servers)
=============================================================================
