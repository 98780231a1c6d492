---------------------------- MODULE MCExitSelect ----------------------------
(* Model of ExitSelect for TLC: relays, waiting streams and ports are     *)
(* interchangeable identities, so their permutations are symmetries.      *)
EXTENDS ExitSelect, TLC

MCSymmetry == Permutations(Nodes) \cup Permutations(Streams)
=============================================================================
