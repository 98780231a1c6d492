---------------------------- MODULE MCPathSelect ----------------------------
(* Model of PathSelect for TLC: the relays other than the guard of the     *)
(* store are interchangeable.                                              *)
EXTENDS PathSelect, TLC

MCSymmetry == Permutations(Nodes \ GuardStore)
=============================================================================
