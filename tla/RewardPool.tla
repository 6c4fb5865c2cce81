----------------------------- MODULE RewardPool -----------------------------
(***************************************************************************)
(* The reward pool of x/supernode: fee shares flow into the module account *)
(* and the EndBlocker pays it out, every payment period, to the supernodes *)
(* that are Active or StorageFull and reported the bytes they store not    *)
(* too long ago.  A node is weighed by its bytes, capped in growth,        *)
(* smoothed over the periods and ramped up for new nodes.                  *)
(*                                                                         *)
(* Heights are kept relative: blocks since the last distribution and since *)
(* each report, as far as the code tells them apart.  Bytes are multiples  *)
(* of a unit and the floats computed from them are rounded down to it;     *)
(* decimals have Precision digits' worth of fractions, as LegacyDec has    *)
(* 10^18.  The payout history and the running totals are written only.     *)
(***************************************************************************)
EXTENDS Integers, FiniteSets, FiniteSetsExt, Functions

CONSTANTS
  Nodes,             \* supernodes, identified with their validators
  PaymentPeriod,     \* payment_period_blocks
  Freshness,         \* metrics_freshness_max_blocks
  GrowthCapPercent,  \* usage_growth_cap_bps_per_period, in percent
  SmoothingPeriods,  \* measurement_smoothing_periods
  RampUpPeriods,     \* new_sn_ramp_up_periods
  MinBytes,          \* min_cascade_bytes_for_payment
  Precision,         \* 10^18: the fractions of a decimal
  Bytes,             \* what nodes report
  Deposits,          \* amounts that flow into the pool
  MaxPool            \* bound: the coins there are

(* There are too few coins for the rounding of the shares to add up to one *)
(* coin: half a fraction per node.                                         *)
ASSUME RewardAssumption ==
  /\ PaymentPeriod \in Nat \ {0} /\ Freshness \in Nat \ {0}
  /\ GrowthCapPercent \in Nat /\ SmoothingPeriods \in Nat \ {0}
  /\ RampUpPeriods \in Nat /\ MinBytes \in Nat \ {0}
  /\ Bytes \subseteq Nat /\ Deposits \subseteq Nat /\ MaxPool \in Nat
  /\ Precision \in Nat \ {0} /\ IsFiniteSet(Nodes)
  /\ MaxPool * Cardinality(Nodes) < 2 * Precision

NoReport == [bytes |-> 0, age |-> Freshness + 1]
NoState  == [smoothed |-> 0, prevRaw |-> 0, periods |-> 0]

VARIABLES
  rewarded,   \* nodes whose state is Active or StorageFull
  metrics,    \* last report of each node: its bytes and its age in blocks
  dist,       \* SNDistState of each node
  pool,       \* balance of the module account
  since,      \* blocks since the last distribution
  halted      \* has an EndBlocker failed?

rewardVars == <<rewarded, metrics, dist, pool, since, halted>>

(* The first block distributes, whatever the period.                       *)
InitRewards ==
  /\ rewarded = {}
  /\ metrics = [n \in Nodes |-> NoReport]
  /\ dist = [n \in Nodes |-> NoState]
  /\ pool = 0 /\ since = PaymentPeriod - 1 /\ halted = FALSE

-----------------------------------------------------------------------------
(* The weight of a node.                                                   *)

applyGrowthCap(raw, prev) ==
  IF prev = 0 THEN raw
  ELSE Min({raw, (prev * (100 + GrowthCapPercent)) \div 100})

applyEMA(prev, new) ==
  IF prev = 0 THEN new
  ELSE (2 * new + (SmoothingPeriods - 1) * prev) \div (SmoothingPeriods + 1)

(* The ramp-up weight, times the number of ramp-up periods.                *)
computeRampUpWeight(periods) ==
  IF RampUpPeriods = 0 THEN 1
  ELSE IF periods >= RampUpPeriods THEN RampUpPeriods ELSE periods + 1

CappedBytes(n)   == applyGrowthCap(metrics[n].bytes, dist[n].prevRaw)
SmoothedBytes(n) == applyEMA(dist[n].smoothed, CappedBytes(n))
Weight(n)        == SmoothedBytes(n) * computeRampUpWeight(dist[n].periods)

isFresh(n) == metrics[n].age <= Freshness

Considered == {n \in rewarded : isFresh(n)}
Candidates == {n \in Considered : SmoothedBytes(n) >= MinBytes}

(* Mutant: nodes below the minimum count in the total.                     *)
WeightOfAll == SumFunctionOnSet([n \in Nodes |-> Weight(n)], Considered)

TotalWeight == SumFunctionOnSet([n \in Nodes |-> Weight(n)], Candidates)

(* LegacyDec.Quo rounds to the nearest fraction, a half to the even one.   *)
Quo(a, b) ==
  LET q == (a * Precision) \div b
      r == (a * Precision) % b
  IN  IF 2 * r > b \/ (2 * r = b /\ q % 2 = 1) THEN q + 1 ELSE q

(* Mutant: the payout is rounded to the nearest coin.                      *)
PayoutRounded(n) ==
  (2 * pool * Quo(Weight(n), TotalWeight) + Precision) \div (2 * Precision)

Payout(n) == (pool * Quo(Weight(n), TotalWeight)) \div Precision

-----------------------------------------------------------------------------
(* The EndBlocker.                                                         *)

(* The new SNDistState of every node that was considered.                  *)
UpdatedStates ==
  [n \in Nodes |-> IF n \in Considered
     THEN [smoothed |-> SmoothedBytes(n), prevRaw |-> metrics[n].bytes,
           periods |-> Min({dist[n].periods + 1, RampUpPeriods})]
     ELSE dist[n]]

(* The payouts of all the candidates.                                      *)
TotalPayout == SumFunctionOnSet([n \in Nodes |-> Payout(n)], Candidates)

(* An empty pool leaves the nodes' states alone; without a candidate the   *)
(* nodes below the minimum are still updated.  The sends fail once the     *)
(* pool is exhausted, and with them the block.                             *)
distributePool ==
  IF pool = 0
  THEN UNCHANGED <<dist, pool, halted>>
  ELSE IF TotalPayout > pool
  THEN halted' = TRUE /\ UNCHANGED <<dist, pool>>
  ELSE /\ dist' = UpdatedStates
       /\ pool' = pool - TotalPayout
       /\ UNCHANGED halted

Due == since + 1 >= PaymentPeriod

RewardEndBlocker ==
  /\ ~halted
  /\ IF Due THEN distributePool /\ since' = 0
     ELSE since' = since + 1 /\ UNCHANGED <<dist, pool, halted>>
  /\ metrics' = [n \in Nodes |-> IF metrics[n].age >= Freshness THEN NoReport
                                 ELSE [metrics[n] EXCEPT !.age = @ + 1]]
  /\ UNCHANGED rewarded

-----------------------------------------------------------------------------
(* What happens within a block.                                            *)

(* An epoch report stores the bytes of its node.                           *)
Report(n, b) ==
  /\ ~halted /\ metrics[n].age > 0
  /\ metrics' = [metrics EXCEPT ![n] = [bytes |-> b, age |-> 0]]
  /\ UNCHANGED <<rewarded, dist, pool, since, halted>>

(* A fee share arrives (action module).                                    *)
FeeShare(a) ==
  /\ ~halted /\ pool + a <= MaxPool
  /\ pool' = pool + a
  /\ UNCHANGED <<rewarded, metrics, dist, since, halted>>

(* A node becomes Active or StorageFull, or ceases to be either.           *)
StateChange(n) ==
  /\ ~halted
  /\ rewarded' = IF n \in rewarded THEN rewarded \ {n} ELSE rewarded \cup {n}
  /\ UNCHANGED <<metrics, dist, pool, since, halted>>

NextRewards ==
  \/ RewardEndBlocker
  \/ \E n \in Nodes : StateChange(n) \/ \E b \in Bytes : Report(n, b)
  \/ \E a \in Deposits : FeeShare(a)

SpecRewards == InitRewards /\ [][NextRewards]_rewardVars

-----------------------------------------------------------------------------
RewardTypeOK ==
  /\ rewarded \subseteq Nodes
  /\ metrics \in [Nodes -> [bytes : Nat, age : Nat]]
  /\ dist \in [Nodes -> [smoothed : Nat, prevRaw : Nat, periods : Nat]]
  /\ pool \in 0..MaxPool /\ since \in Nat /\ halted \in BOOLEAN

(* The payouts never ask for more than the pool holds, although every      *)
(* share is rounded to the nearest fraction: no send fails, so that the    *)
(* EndBlocker never stops the chain.                                       *)
NeverHalts == ~halted

(* A distribution with a candidate pays out all but dust: less than one    *)
(* coin for each candidate stays in the pool, and one for the shares'      *)
(* own rounding.                                                           *)
DustOnly ==
  [][RewardEndBlocker /\ Due /\ Candidates # {} => pool' <= Cardinality(Candidates)]_rewardVars
=============================================================================
