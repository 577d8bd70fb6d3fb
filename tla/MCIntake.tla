------------------------------- MODULE MCIntake -------------------------------
(* Instances of Intake for TLC. *)
EXTENDS Intake

\* Applications and scopes are compared for equality only.
Symmetry == Permutations(Contexts)

\* Two texts of which the longer fills a batch.
Contents == {"short", "long"}
Lengths == [short |-> 1, long |-> 2]
===============================================================================
