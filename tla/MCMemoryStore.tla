---------------------------- MODULE MCMemoryStore ----------------------------
(* Instances of MemoryStore for TLC. *)
EXTENDS MemoryStore, TLC

\* Ids are never compared except for equality.
Symmetry == Permutations(Memories) \cup Permutations(Evidence) \cup Permutations(Keys)
              \cup Permutations(Clients)

InferredAndExplicit == {1, 4}
=============================================================================
