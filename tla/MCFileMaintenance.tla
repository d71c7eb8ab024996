-------------------------- MODULE MCFileMaintenance --------------------------
(* Values for the constants of FileMaintenance. *)
EXTENDS FileMaintenance, TLC

NoArchive == [f \in {} |-> <<>>]
=============================================================================
