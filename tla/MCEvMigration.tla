---------------------------- MODULE MCEvMigration ----------------------------
(* Small instances of EvMigration: two operators and a delegator, and three *)
(* destinations, one of which has a vesting account already.                *)
EXTENDS EvMigration, TLC

CONSTANTS v1, v2, d, n1, n2, n3

LegacyAddrs   == {v1, v2, d}
NewAddrs      == {n1, n2, n3}
ValOperators  == {v1, v2}
Vesting       == {d, n3}
StartGrants   == {<<v1, d>>, <<d, v2>>, <<v2, v1>>}
StartStakes   == {<<v1, v1>>, <<v2, v2>>, <<d, v1>>}
NoEarlyStaker == {}
OneEarlyStaker == {n1}

(* n1 and n2 are interchangeable where neither is an early staker.          *)
Destinations == Permutations({n1, n2})
==============================================================================
