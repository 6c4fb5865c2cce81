-------------------------------- MODULE Claim --------------------------------
(***************************************************************************)
(* x/claim: holders of the old chain claim the balance a CSV file recorded *)
(* for them, at once or into a delayed vesting account, until a block past *)
(* the end of the claim period burns what is left.                         *)
(*                                                                         *)
(* Signatures are left out: a claim of an old address is one its holder    *)
(* signed for the destination.  Months have a fixed length.  Block times   *)
(* count ticks (nanoseconds), parameters and records count seconds.        *)
(***************************************************************************)
EXTENDS Integers, Sequences, FiniteSets, FiniteSetsExt, Functions

CONSTANTS
  OldAddrs,       \* addresses of the old chain
  Dests,          \* accounts of this chain that receive claims
  Module,         \* the claim module account, which may receive coins too
  Outside,        \* holders that may send coins to the module account
  Csvs,           \* contents of claims.csv: sequences of <<address, balance>>
  GenesisParams,
  GovParams,      \* parameters that governance proposals set
  OutsideCoins,   \* coins of Outside at genesis
  Chosen,         \* bound: tiers that delayed claims ask for
  Second,         \* ticks in a second
  Month,          \* seconds in a month
  MaxStep,        \* bound: ticks between two blocks
  MaxTime         \* bound: the last block time

None   == "none"
Tiers  == 1..5
Holders == Dests \cup {Module, Outside}

Params == [enable : BOOLEAN, end : Int, max : Nat]

(* Params.Validate, which MsgUpdateParams.ValidateBasic and the genesis    *)
(* validation call.                                                        *)
ValidParams(p) == p.max >= 1 /\ p.end >= 1

(* The file lists no negative balance: sdk.NewCoin panics on one.          *)
ASSUME ConstantsAssumption ==
  /\ \A p \in GovParams \cup {GenesisParams} : p \in Params /\ ValidParams(p)
  /\ IsFiniteSet(OldAddrs)
  /\ \A csv \in Csvs : csv \in Seq(OldAddrs \X Nat)
  /\ OutsideCoins \in Nat /\ MaxTime \in Nat
  /\ Chosen \subseteq Tiers
  /\ Second \in Nat \ {0} /\ Month \in Nat \ {0} /\ MaxStep \in Nat \ {0}
  /\ Module # Outside /\ Module \notin Dests /\ Outside \notin Dests

(* ClaimRecord; unknown where the store has no record.                     *)
Record   == [found : BOOLEAN, balance : Nat, claimed : BOOLEAN, time : Nat,
             dest : Dests \cup {Module, None}, tier : 0..5]
NoRecord == [found |-> FALSE, balance |-> 0, claimed |-> FALSE, time |-> 0,
             dest |-> None, tier |-> 0]

Account == [kind : {None, "base", "vesting"}, original : Nat, end : Nat]
Base    == [kind |-> "base", original |-> 0, end |-> 0]

VARIABLES
  params,       \* enable_claims, claim_end_time, max_claims_per_block
  records,      \* claim records by old address
  blockClaims,  \* transient counter of claims in this block
  accounts,     \* auth accounts of the destinations
  bank,         \* balances
  burned,       \* coins BurnCoins took out of the supply
  now           \* block time

vars == <<params, records, blockClaims, accounts, bank, burned, now>>

(* SetClaimRecord for every row of the file: a later row for the same      *)
(* address replaces an earlier one.                                        *)
LoadClaimRecords(csv) ==
  [o \in OldAddrs |->
     LET rows == {i \in DOMAIN csv : csv[i][1] = o}
     IN  IF rows = {} THEN NoRecord
         ELSE [NoRecord EXCEPT !.found = TRUE, !.balance = csv[Max(rows)][2]]]

(* The coins minted for the records: the total over all the rows.          *)
Minted(csv) == SumFunction([i \in DOMAIN csv |-> csv[i][2]])

(* InitGenesis.  A destination may hold an account before its first claim. *)
Init ==
  \E csv \in Csvs :
    /\ params = GenesisParams
    /\ records = LoadClaimRecords(csv)
    /\ blockClaims = 0
    /\ accounts \in [Dests -> {Base, [Base EXCEPT !.kind = None]}]
    /\ bank = [h \in Holders |-> CASE h = Module  -> Minted(csv)
                                   [] h = Outside -> OutsideCoins
                                   [] OTHER       -> 0]
    /\ burned = 0
    /\ now = 0
-----------------------------------------------------------------------------
Send(from, to, amount) ==
  /\ bank[from] >= amount
  /\ bank' = [[bank EXCEPT ![from] = @ - amount] EXCEPT ![to] = @ + amount]

(* CreateBaseAccount: whatever account exists is kept.                     *)
CreateBaseAccount(dest) ==
  accounts' = [d \in Dests |->
    IF d = dest /\ accounts[d].kind = None THEN Base ELSE accounts[d]]

(* Mutant: a second schedule replaces the first.                           *)
Reschedulable(dest) == dest \in Dests

(* Destinations CreateDelayedAccount accepts: no account yet or a plain    *)
(* base account, not a vesting or a module account.                        *)
Schedulable(dest) == dest \in Dests /\ accounts[dest].kind \in {None, "base"}

CreateDelayedAccount(dest, balance, tier) ==
  /\ Schedulable(dest)
  /\ accounts' = [accounts EXCEPT ![dest] =
       [kind |-> "vesting", original |-> balance,
        end |-> now \div Second + tier * 6 * Month]]

(* Mutant: a claimed record may be claimed again.                          *)
AnyRecord(old) == records[old].found

Claimable(old) == records[old].found /\ ~records[old].claimed

(* Mutant: the destination is not recorded.                                *)
ProcessedForNobody(r, dest, tier) ==
  [r EXCEPT !.claimed = TRUE, !.time = now \div Second, !.tier = tier]

Processed(r, dest, tier) ==
  [r EXCEPT !.claimed = TRUE, !.time = now \div Second, !.dest = dest, !.tier = tier]

(* processClaim.  A refused claim leaves nothing behind: the transaction,  *)
(* the block's counter included, is reverted.                              *)
ProcessClaim(old, dest, tier) ==
  /\ params.enable
  /\ now <= params.end * Second
  /\ blockClaims < params.max
  /\ Claimable(old)
  /\ blockClaims' = blockClaims + 1
  /\ Send(Module, dest, records[old].balance)
  /\ records' = [records EXCEPT ![old] = Processed(@, dest, tier)]
  /\ UNCHANGED <<params, burned, now>>

MsgClaim(old, dest) == ProcessClaim(old, dest, 0) /\ CreateBaseAccount(dest)

MsgDelayedClaim(old, dest, tier) ==
  ProcessClaim(old, dest, tier) /\ CreateDelayedAccount(dest, records[old].balance, tier)

(* A bank transfer: the module account is not a blocked address.           *)
Deposit(amount) ==
  /\ Send(Outside, Module, amount)
  /\ UNCHANGED <<params, records, blockClaims, accounts, burned, now>>

(* Mutant: claims are disabled without burning the rest.                   *)
EndBlockerNoBurn(p) ==
  /\ params' = IF now > p.end * Second + 1 THEN [p EXCEPT !.enable = FALSE] ELSE p
  /\ UNCHANGED <<bank, burned>>

(* EndBlocker, given the parameters the block leaves it.                   *)
EndBlocker(p) ==
  IF p.enable /\ now > p.end * Second + 1
  THEN /\ burned' = burned + bank[Module]
       /\ bank' = [bank EXCEPT ![Module] = 0]
       /\ params' = [p EXCEPT !.enable = FALSE]
  ELSE params' = p /\ UNCHANGED <<bank, burned>>

(* End of a block and begin of the next.  A proposal that passes executes  *)
(* in gov's end blocker, which runs before claim's; the transient counter  *)
(* goes with the block.                                                    *)
EndBlock(p, step) ==
  /\ EndBlocker(p)
  /\ blockClaims' = 0
  /\ now' = Min({now + step, MaxTime})
  /\ UNCHANGED <<records, accounts>>

NextBlock == \E step \in 1..MaxStep : EndBlock(params, step)
UpdateParams == \E step \in 1..MaxStep, p \in GovParams : EndBlock(p, step)

Next ==
  \/ \E old \in OldAddrs, dest \in Dests \cup {Module} : MsgClaim(old, dest)
  \/ \E old \in OldAddrs, dest \in Dests \cup {Module}, tier \in Chosen :
       MsgDelayedClaim(old, dest, tier)
  \/ Deposit(1)
  \/ NextBlock
  \/ UpdateParams

(* Blocks keep coming, and their times advance.                            *)
Spec == Init /\ [][Next]_vars /\ WF_vars(NextBlock)
-----------------------------------------------------------------------------
TypeOK ==
  /\ params \in Params
  /\ records \in [OldAddrs -> Record]
  /\ blockClaims \in Nat
  /\ accounts \in [Dests -> Account]
  /\ bank \in [Holders -> Nat]
  /\ burned \in Nat
  /\ now \in Nat

Balances(S) == SumFunctionOnSet([o \in OldAddrs |-> records[o].balance], S)
Unclaimed   == {o \in OldAddrs : ~records[o].claimed}
ClaimedTo(d) == {o \in OldAddrs : records[o].claimed /\ records[o].dest = d}

(* Until the period's end burns the rest, the module account covers every  *)
(* unclaimed record: no order of claims, to whatever account, duplicate    *)
(* rows or parameter changes leaves a holder without coins (processClaim). *)
(* After the burn, a period that is reopened pays no coin that is gone.    *)
Solvent == bank[Module] >= IF burned = 0 THEN Balances(Unclaimed) ELSE 0

(* Every destination received exactly the balances of the records marked   *)
(* as claimed to it: no record pays twice, none is marked without payment. *)
PaidOnce == \A d \in Dests : bank[d] = Balances(ClaimedTo(d))

(* What was claimed with a delay stays under the schedule of its tier,     *)
(* whichever claims to the same destination come later: an account is      *)
(* under one schedule, which locks exactly that claim's balance.           *)
DelayedLocked ==
  \A o \in OldAddrs : records[o].tier > 0 =>
    accounts[records[o].dest] =
      [kind |-> "vesting", original |-> records[o].balance,
       end |-> records[o].time + 6 * records[o].tier * Month]

(* Without a proposal that moves its end, the period ends: claims are      *)
(* disabled for good, and the coins of whoever did not claim are burned    *)
(* (EndBlocker, a tick later than the last claim processClaim accepts).    *)
PeriodEnds ==
  <>[](params.end = GenesisParams.end =>
         ~params.enable /\ burned >= Balances(Unclaimed))
==============================================================================
