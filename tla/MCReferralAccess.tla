-------------------------- MODULE MCReferralAccess --------------------------
(* Model-checking instance of ReferralAccess; its .cfg file gives the constants. *)
EXTENDS ReferralFollowUp, TLC

Symmetry == Permutations(Agents)

=============================================================================
