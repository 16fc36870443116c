----------------------------- MODULE MCBlockHistory -----------------------------
(***************************************************************************)
(* Small instances of BlockHistory: two hashes and two payers, a chain that *)
(* outgrows the last key, and deploy transactions that leave the tables     *)
(* empty or plant rows in them.                                             *)
(***************************************************************************)
EXTENDS BlockHistory

CONSTANTS h1, h2, t1, s1

Forged(hash) == [hash |-> hash, time |-> t1, by |-> s1]
Planted(height, hash) ==
    [attested |-> [EmptyTables.attested EXCEPT ![height] = Forged(hash)],
     latest   |-> [height |-> MaxHeight, hash |-> h1, time |-> t1]]

\* A deploy transaction that only installs the module, and two that plant a row,
\* with a hash that need not be a block's or with none, and a `latest` above every
\* height.
AnyDeploy == {EmptyTables, Planted(0, h2), Planted(1, NoHash)}
=============================================================================
