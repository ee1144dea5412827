------------------------- MODULE MCModelingWorkflow -------------------------
(***************************************************************************)
(* Small instances of ModelingWorkflow.                                    *)
(***************************************************************************)
EXTENDS ModelingWorkflow

CONSTANTS k1, k2, a

=============================================================================
