-------------------------- MODULE MCDataExportJob --------------------------
(* Model-checking instance of DataExportJob; its .cfg files give the constants. *)
EXTENDS DataExportJob, TLC

Symmetry == Permutations(Workers)

=============================================================================
