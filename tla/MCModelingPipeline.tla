------------------------- MODULE MCModelingPipeline -------------------------
(***************************************************************************)
(* Small instances of ModelingPipeline.                                    *)
(***************************************************************************)
EXTENDS ModelingPipeline, TLC

CONSTANTS w1, w2, a, b

WorkerSymmetry == Permutations({w1, w2})
IDSymmetry == Permutations({a, b})
BothSymmetries == WorkerSymmetry \union IDSymmetry

=============================================================================
