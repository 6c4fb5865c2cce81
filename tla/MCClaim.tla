------------------------------- MODULE MCClaim -------------------------------
(* Three old addresses: a file with two rows for one of them and a zero    *)
(* balance, and a file with one row each.                                  *)
EXTENDS Claim

CONSTANTS o1, o2, o3

MCCsvs == {<< <<o1, 1>>, <<o2, 2>>, <<o1, 3>>, <<o3, 0>> >>,
           << <<o1, 1>>, <<o2, 1>>, <<o3, 2>> >>}

MCGenesisParams == [enable |-> TRUE, end |-> 2, max |-> 2]
MCGovParams == {[enable |-> TRUE, end |-> 3, max |-> 1],
                [enable |-> FALSE, end |-> 1, max |-> 2]}
==============================================================================
