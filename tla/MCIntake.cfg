SPECIFICATION Spec
CONSTANTS
  MaxEvents = 3
  Contexts = {mail, editor}
  Texts <- Contents
  Size <- Lengths
  Limit = 2
  Inactivity = 1
  MaxSegment = 2
  MaxMembers = 2
  Durations = {0, 3}
  MaxAttempts = 2
  MaxTime = 3
SYMMETRY Symmetry
CHECK_DEADLOCK FALSE
INVARIANTS
  NoSourceIsLost
  SegmentsAreSound
  RetriesSkipNothing
