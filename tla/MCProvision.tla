------------------------------ MODULE MCProvision ------------------------------
(***************************************************************************)
(* Small instances of Provision: two commits, three runs of the script.    *)
(***************************************************************************)
EXTENDS Provision, TLC

CommitSymmetry == Permutations(Commit)
=============================================================================
