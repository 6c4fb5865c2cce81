--------------------------- MODULE MCStorageTruth ---------------------------
(* StorageTruth for TLC.  Hashes are named by their epoch, author and      *)
(* place; a rank is an arbitrary mix of its arguments.                     *)
EXTENDS StorageTruth, TLC

MCProofs == {[class |-> "HASH_MISMATCH", bucket |-> "RECENT", artifact |-> "INDEX"],
             [class |-> "PASS", bucket |-> "OLD", artifact |-> "SYMBOL"]}

MCAccounts == <<1, 2, 3>>

MCHashes == (0..MaxEpoch) \X Nodes \X (0..MaxResults)

MCRank == [k \in (0..MaxEpoch) \X Nodes \X (Nodes \cup {None}) |->
             IF k[3] = None THEN k[2] ELSE (k[1] * k[2] + k[3]) % 3]

MCParams == [divisor |-> 1, watch |-> 10, postpone |-> 12, strong |-> 30,
             ineligible |-> 20, duration |-> 1,
             nodeDecay |-> 300, reporterDecay |-> 900, ticketDecay |-> 500,
             passes |-> 1, strongPasses |-> 2,
             pattern |-> 2, classA |-> 2, classB |-> 2, oldClassA |-> 2,
             contradiction |-> 2, divergence |-> 2, minReports |-> 1, cleanEpoch |-> 1]

(* The probed supernode may be stopped and started once it is postponed.   *)
MCStoppable == {<<1, 1>>, <<2, 1>>}

MCAccounts4 == <<1, 2, 3, 4>>

(* Every epoch another supernode is assigned to the fourth.                *)
MCRankInTurn == [k \in (0..MaxEpoch) \X Nodes \X (Nodes \cup {None}) |->
                   IF k[3] = None THEN k[2] ELSE IF k[3] = 4 /\ k[2] = k[1] + 1 THEN 0 ELSE k[3]]

MCWindow3 == [MCParams EXCEPT !.contradiction = 3]
=============================================================================
