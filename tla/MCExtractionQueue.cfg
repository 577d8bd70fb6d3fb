SPECIFICATION FairSpec
CONSTANTS
  Segments = {s1, s2}
  Workers = {w1, w2}
  WorkerIds = {i1, i2}
  Namings <- TwoNamings
  MaxAttempts = 2
  MaxLease = 1
  MaxBackoff = 1
  Overdue = 0
  MaxSetBacks = 1
  MaxExpired = 3
  NoWorker = NoWorker
  NoTicket = NoTicket
INVARIANTS
  TablesAgree
  AnswerIsForCurrentAttempt
PROPERTIES
  LiveLeaseIsKept
  ImplementsJobs
  EveryJobSettles
