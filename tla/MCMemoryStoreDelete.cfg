SPECIFICATION Spec
CONSTANTS
  Memories = {m1, m2}
  Evidence = {e1}
  Keys = {k1}
  Clients = {c1}
  CandidateRanks <- InferredAndExplicit
  MaxRevision = 3
  NoMemory = NoMemory
  NoView = NoView
SYMMETRY Symmetry
CHECK_DEADLOCK FALSE
INVARIANTS
  EveryMemoryDeletable
