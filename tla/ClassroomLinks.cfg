\* Two rows of each kind: a closed link beside the one that took its place.
SPECIFICATION Spec
CONSTANTS
  Assignments = {a1, a2}
  TeacherLinks = {t1, t2}
  NoLink = NoLink
  MaxToken = 1
INVARIANTS
  TypeOK
  LessonHasOneUsableLink
PROPERTIES
  OnlyTheEntitledAreLetIn
SYMMETRY Symmetry
