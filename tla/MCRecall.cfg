SPECIFICATION RecallSpec
CONSTANTS
  Memories = {m1}
  MaxEntities = 3
  Names <- AllNames
  Shapes <- AllShapes
  Topics <- AllTopics
  EntityQuorum = 1
  MaxBuilds = 1
  NoProfile = NoProfile
  MaxMemory = 2
  Kinds <- AllKinds
  Requests <- AllRequests
  Limit = 1
  MaxChanges = 3
  None = None
CHECK_DEADLOCK FALSE
INVARIANTS
  NamesSurviveMerges
  ShownWasEligible
  NothingIsMissed
  BoostsPrecedeBlend
PROPERTIES
  WithdrawalReachesProfiles
