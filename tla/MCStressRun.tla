---------------------------- MODULE MCStressRun ----------------------------
(* Small instances of StressRun: one or two pairs and the mix; a poll is    *)
(* five seconds, and the code's 60 polls to a stall are scaled down to 2 or *)
(* 3, so that driving still lasts longer than a standstill takes to notice. *)
EXTENDS StressRun, TLC

CONSTANTS pair, pair2, mix

TheSteps   == {pair, mix}
ThreeSteps == {pair, pair2, mix}
OnePair    == {pair}
\* Nothing tells one pair from another.
PairsAlike == Permutations({pair, pair2})
=============================================================================
