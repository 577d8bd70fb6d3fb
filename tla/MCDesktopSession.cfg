SPECIFICATION SessionSpec
CONSTANTS
  Callers = {profile1, profile2}
  MaxLogins = 2
  MaxRotations = 1
  MaxSignOuts = 2
  MaxCrashes = 1
  Commands = {c1}
  Main = Main
CHECK_DEADLOCK FALSE
INVARIANTS
  SignOutWins
  KeychainIsCurrent
PROPERTIES
  CommandsReturn
