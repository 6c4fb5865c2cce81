------------------------ MODULE MCSupernodeRegistry ------------------------
(* A small instance of SupernodeRegistry: of two accounts one delegates    *)
(* and the other does not, so changing the account changes eligibility;    *)
(* two validators compete for one place, and the closer one alternates.    *)
EXTENDS SupernodeRegistry, TLC

CONSTANTS v1, v2, a1, a2

MCAccountStake == a1 :> 1 @@ a2 :> 0

MCDistance ==
  [h \in 1..MaxHeight |-> v1 :> h % 2 @@ v2 :> (h + 1) % 2]
=============================================================================
