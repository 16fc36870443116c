-------------------------------- MODULE MCFeeder --------------------------------
(***************************************************************************)
(* Small instances of Feeder: one chain and one extra host with fairness,  *)
(* and the smallest sampling interval.                                     *)
(***************************************************************************)
EXTENDS Feeder
=============================================================================
