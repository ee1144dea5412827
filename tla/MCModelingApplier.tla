-------------------------- MODULE MCModelingApplier -------------------------
(***************************************************************************)
(* Small instances of ModelingApplier.                                     *)
(***************************************************************************)
EXTENDS ModelingApplier, TLC

CONSTANTS w1, w2, gen1, gen2

ApplierSymmetry == Permutations({w1, w2})
IDSymmetry == Permutations({gen1, gen2})

=============================================================================
