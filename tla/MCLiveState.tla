---------------------------- MODULE MCLiveState ----------------------------
(* Instances of LiveState for TLC. *)
EXTENDS LiveState, TLC

\* Two setState calls may overlap; nothing else is unusual.
Overlapping == {[serial |-> FALSE, recreate |-> FALSE]}

\* Awaited writers, with one sync channel or with several in a row.
Serial == {m \in Mode : m.serial}
=============================================================================
