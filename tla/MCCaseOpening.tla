--------------------------- MODULE MCCaseOpening ---------------------------
(* Two classmates, one of whom changes schools with the next term; a lesson *)
(* of their class, one that only the first takes, and one of the new class. *)
EXTENDS CaseOpening, TLC

CONSTANTS anan, busaba,  \* persons
          a1, a2, b1     \* their enrollments

PersonOf == (a1 :> anan) @@ (a2 :> anan) @@ (b1 :> busaba)
SchoolOf == (a1 :> "north") @@ (a2 :> "south") @@ (b1 :> "north")
TermOf == (a1 :> 1) @@ (a2 :> 2) @@ (b1 :> 1)
RosterOf == (1 :> {a1, b1}) @@ (2 :> {a1}) @@ (3 :> {a2})
=============================================================================
