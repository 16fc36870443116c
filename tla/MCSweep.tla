-------------------------------- MODULE MCSweep --------------------------------
(***************************************************************************)
(* Small instances of Sweep.  Chains may be exchanged: nothing names one.  *)
(***************************************************************************)
EXTENDS Sweep, TLC

ChainSymmetry == Permutations(Chain)
=============================================================================
