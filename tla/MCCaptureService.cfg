SPECIFICATION FairSpec
CONSTANTS
  Contents = {a, b}
  MaxSessions = 2
  MaxFrames = 2
CHECK_DEADLOCK FALSE
INVARIANTS
  NothingIsLeftBehind
  FramesAreAccountedFor
PROPERTIES
  FramesNeverGoBack
  ImplementsLifecycle
  CallsReturn
