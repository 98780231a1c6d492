---------------------------- MODULE MCBuildTiming ---------------------------
(* Model of BuildTiming for TLC: circuit slots are interchangeable (a      *)
(* circuit's identity is its launch number), so their permutations are    *)
(* symmetries.                                                            *)
EXTENDS BuildTiming, TLC

MCSymmetry == Permutations(Circs)

(* A backward jump longer than a build and a short forward one. *)
MCJumpSizes == {-2, 1}
=============================================================================
