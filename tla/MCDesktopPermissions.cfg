SPECIFICATION PermissionSpec
CONSTANTS
  Callers = {profile1}
  MaxLogins = 1
  MaxRotations = 0
  MaxSignOuts = 0
  MaxCrashes = 0
  Commands = {c1, c2}
  Main = Main
INVARIANTS
  RequestsAreOnRecord
PROPERTIES
  RevocationStopsCapture
  CanAskAgain
