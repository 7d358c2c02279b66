SPECIFICATION Spec

CONSTANTS
  anan = anan
  busaba = busaba
  a1 = a1
  a2 = a2
  b1 = b1
  Persons = {anan, busaba}
  Enrollments = {a1, a2, b1}
  Schools = {"north", "south"}
  personOf <- PersonOf
  schoolOf <- SchoolOf
  termOf <- TermOf
  Checkins = {1, 2, 3}
  rosterOf <- RosterOf
  Openers = {1}
  NoCase = NoCase

PROPERTY
  CoveredStudentIsSkipped
