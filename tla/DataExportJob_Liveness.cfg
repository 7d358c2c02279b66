\* One worker and two requests, so that two retries at once meet.
SPECIFICATION FairSpec
CONSTANTS
  Requests = {r1, r2}
  Workers = {w1}
  Nobody = Nobody
  Attempts = 2
  MaxStalls = 1
  MaxFailures = 1
PROPERTIES
  ExpiredIsCleared
  ExportEnds
CHECK_DEADLOCK FALSE
