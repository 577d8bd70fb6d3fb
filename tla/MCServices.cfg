SPECIFICATION ServicesSpec
CONSTANTS
  Capacity = 2
  Policies <- AllPolicies
  MaxItems = 5
  Subsystems = {audio, capture}
  Requests = {r1, r2}
  Keys = {old, new}
  First = old
  TTL = 2
  StaleTTL = 1
  Cooldown = 2
  MaxNow = 6
CHECK_DEADLOCK FALSE
INVARIANTS
  QueueIsSound
  SupervisionIsSound
  WithdrawnKeysEnd
  RefreshesAreSpaced
PROPERTIES
  EndIsReported
  CancellationEndsAll
  CacheNeverGoesBack
