-------------------------------- MODULE MCOracle --------------------------------
(***************************************************************************)
(* Small instances of Oracle: at most two children of a block, and rows    *)
(* read two at a time.                                                     *)
(***************************************************************************)
EXTENDS Oracle, TLC

LabelSymmetry == Permutations(Label)
=============================================================================
