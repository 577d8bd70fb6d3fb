SPECIFICATION FairSpec
CONSTANTS
  mail = mail
  window = window
  button = button
  field = field
  NoApp = NoApp
  Stalky = Stalky
  Apps = {mail}
  Tree <- TwoElements
  Faulty = {window}
  Offering = {window, button}
  MaxStarts = 2
  MaxGeneration = 3
  MaxActions = 1
CHECK_DEADLOCK FALSE
INVARIANTS
  StoppedIsQuiet
  NoActionOnReplacedTree
PROPERTIES
  CallsReturn
