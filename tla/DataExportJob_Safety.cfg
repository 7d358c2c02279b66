\* Two workers, so that a stalled one and the one that took its job over meet.
SPECIFICATION Spec
CONSTANTS
  Requests = {r1}
  Workers = {w1, w2}
  Nobody = Nobody
  Attempts = 2
  MaxStalls = 1
  MaxFailures = 1
INVARIANTS
  TypeOK
  RunningIsWorkedOn
  PendingIsDispatched
  CompletedIsDownloadable
  NoObjectLeftBehind
SYMMETRY Symmetry
\* An export that is over, its file deleted, really stops.
CHECK_DEADLOCK FALSE
