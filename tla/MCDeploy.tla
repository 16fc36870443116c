-------------------------------- MODULE MCDeploy --------------------------------
(***************************************************************************)
(* Small instances of DeployCeremony.  Runs may be exchanged: nothing names *)
(* one.                                                                     *)
(***************************************************************************)
EXTENDS DeployCeremony, TLC

RunSymmetry == Permutations(Run)
=============================================================================
