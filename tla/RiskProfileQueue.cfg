\* Two failures: a job is given up after its two attempts.  One job at a time: the
\* one worker would only run a second one after the first.
SPECIFICATION FairSpec
CONSTANTS
  Students = {s1, s2}
  Requests = {r1}
  Workers = {w1}
  Jobs = {j1}
  NoJob = NoJob
  Attempts = 2
  MaxVersion = 2
  MaxFailures = 2
INVARIANTS
  TypeOK
  RecordedChangeIsKept
  WorkHasDrain
PROPERTIES RecordedChangeIsReflected
