---------------------------- MODULE MCStreamFeed ----------------------------
(* Instances of StreamFeed for TLC. *)
EXTENDS StreamFeed, TLC

MCSymmetry == Permutations(Events)
=============================================================================
