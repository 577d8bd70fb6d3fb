SPECIFICATION Spec
CONSTANTS
  mail = mail
  window = window
  button = button
  field = field
  NoApp = NoApp
  Stalky = Stalky
  Apps = {mail}
  Tree <- TwoElements
  Faulty = {}
  Offering = {window, button}
  MaxStarts = 2
  MaxGeneration = 2
  MaxActions = 1
CHECK_DEADLOCK FALSE
INVARIANTS
  OldSessionsFailClosed
