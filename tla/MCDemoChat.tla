----------------------------- MODULE MCDemoChat -----------------------------
(* An instance of DemoChat for TLC. *)
EXTENDS DemoChat

\* 0 and 1, and 2.5 and 1.5: a zero, fractions, and either order.
MCEntries == {<<0, 2>>, <<5, 3>>}
=============================================================================
