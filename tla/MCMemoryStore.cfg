SPECIFICATION Spec
CONSTANTS
  Memories = {m1, m2}
  Evidence = {e1}
  Keys = {k1, k2}
  Clients = {c1, c2}
  CandidateRanks <- InferredAndExplicit
  MaxRevision = 3
  NoMemory = NoMemory
  NoView = NoView
SYMMETRY Symmetry
CHECK_DEADLOCK FALSE
INVARIANTS
  ProjectionsFollowMemories
  EvidenceIsKept
  OneRowPerCandidate
  DeletionIsComplete
PROPERTIES
  SupersededBySuccessor
  ImplementsVersions
