\* A lapsed round is replaced before the sweep meets it.
SPECIFICATION Spec
CONSTANTS
  MaxRounds = 2
  Requests = {q1}
INVARIANTS
  OpenCaseHasNoLiveAssignment
CHECK_DEADLOCK FALSE
