----------------------- MODULE MCAttendanceRegister -----------------------
(* Model-checking instance of AttendanceRegister; its .cfg gives the constants. *)
EXTENDS AttendanceRegister, TLC

Symmetry == Permutations(Students) \cup Permutations(Pages)
=============================================================================
