------------------------ MODULE MCRiskProfileQueue ------------------------
(* Model-checking instance of RiskProfileQueue; its .cfg gives the constants. *)
EXTENDS RiskProfileQueue
=============================================================================
