------------------------------ MODULE MCHealOps ------------------------------
(* HealOps with nodes and tickets that TLC may permute.                    *)
EXTENDS HealOps, TLC

Symmetry == Permutations(Nodes) \cup Permutations(Tickets)
==============================================================================
