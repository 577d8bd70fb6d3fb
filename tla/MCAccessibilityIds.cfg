SPECIFICATION Spec
CONSTANTS
  mail = mail
  window = window
  button = button
  field = field
  NoApp = NoApp
  Stalky = Stalky
  Apps = {mail}
  Tree <- ThreeElements
  Faulty = {button}
  Offering = {button, field}
  MaxStarts = 1
  MaxGeneration = 2
  MaxActions = 1
CHECK_DEADLOCK FALSE
INVARIANTS
  ActsOnTheSelectedElement
