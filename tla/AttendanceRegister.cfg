\* Two pages and two students, two accepted submissions: a submission that was not
\* answered is repeated after another one has been accepted on top of it.
SPECIFICATION Spec
CONSTANTS
  Students = {s1, s2}
  Pages = {p1, p2}
  Marks = {ABSENT}
  Present = PRESENT
  MaxVersion = 2
INVARIANTS
  TypeOK
  SubmissionsRestOnLatest
  HistoryExplainsRegister
  SavedIsFollowedUp
SYMMETRY Symmetry
