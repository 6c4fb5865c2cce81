---------------------------- MODULE MCRewardPool ----------------------------
(* Instances of the reward pool for TLC.                                   *)
EXTENDS RewardPool, TLC

Symmetry == Permutations(Nodes)
=============================================================================
