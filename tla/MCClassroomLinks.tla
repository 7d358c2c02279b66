-------------------------- MODULE MCClassroomLinks --------------------------
(* Model-checking instance of ClassroomLinks; its .cfg gives the constants. *)
EXTENDS ClassroomLinks, TLC

Symmetry == Permutations(Assignments) \cup Permutations(TeacherLinks)
=============================================================================
