\* A report passed its gate; its assignment is withdrawn before it commits.
SPECIFICATION Spec
CONSTANTS
  MaxRounds = 2
  Requests = {q1}
PROPERTIES
  WithdrawnRoundTakesNoReport
CHECK_DEADLOCK FALSE
