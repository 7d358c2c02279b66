--------------------------- MODULE MCCaseFollowUp ---------------------------
(* Model-checking instance of CaseFollowUp; its .cfg files give the constants. *)
EXTENDS CaseFollowUp

=============================================================================
