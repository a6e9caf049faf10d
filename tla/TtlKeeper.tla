------------------------------ MODULE TtlKeeper -----------------------------
(***************************************************************************)
(* scripts/ttl-keeper.ts, a daily job that extends the life of every       *)
(* contract's instance entry, and on mainnet of the code entries that the  *)
(* deployment's manifest names, in one transaction, next to the instance   *)
(* keepalive of the liquidation keeper.  Time in days.                     *)
(***************************************************************************)
EXTENDS Integers, FiniteSets, Functions

CONSTANTS
  Instances, Codes,   \* ledger entries
  Kept,               \* instances of contracts with extend_instance_ttl
  Threshold,          \* THRESHOLD_LEDGERS: an entry with less left is extended
  ExtendTo,           \* EXTEND_TO_LEDGERS
  Ceiling             \* FEE_CEILING, in entry-days of rent

Entries == Instances \cup Codes
ASSUME TtlAssumption ==
  /\ Threshold \in Nat /\ ExtendTo \in Nat /\ Threshold <= ExtendTo
  /\ Kept \subseteq Instances

VARIABLES
  manifest, \* code entries of mainnet-deployment.json: none on another network or without the file
  left,     \* left[e]: days until e is archived, -1 when it is
  ran,      \* today's run has taken place
  missed    \* runs in a row that extended nothing though they should have, counted up to Threshold

ttlVars == <<manifest, left, ran, missed>>
(* deployed with at least the threshold ahead *)
TtlInit ==
  /\ manifest \in SUBSET Codes
  /\ left \in [Entries -> Threshold..ExtendTo] /\ ran = FALSE /\ missed = 0

TargetsInstances == Instances
Targets == Instances \cup manifest
(* found, and below the threshold *)
NeedsExtension == {e \in Targets : left[e] >= 0 /\ left[e] < Threshold}
(* rent for the days added *)
ResourceFee == SumFunctionOnSet([e \in Entries |-> ExtendTo - left[e]], NeedsExtension)
ExtendAll ==
  /\ ~ran /\ ran' = TRUE /\ ResourceFee <= Ceiling
  /\ left' = [e \in Entries |-> IF e \in NeedsExtension THEN ExtendTo ELSE left[e]] /\ missed' = 0
  /\ UNCHANGED manifest
Misses == ~ran /\ ran' = TRUE /\ missed' = (IF missed < Threshold THEN missed + 1 ELSE missed) /\ UNCHANGED <<manifest, left>>
(* more than the ceiling for all of them together: REFUSING to submit, today and whenever the fee is no less *)
Refuses == ResourceFee > Ceiling /\ Misses
(* the job does not run, its simulation fails, or its one transaction does not land *)
RunFails == Misses
(* extend_instance_ttl, sent by the liquidation keeper and not polled *)
BumpInstance(e) ==
  /\ left[e] >= 0 /\ left[e] < Threshold
  /\ left' = [left EXCEPT ![e] = ExtendTo] /\ UNCHANGED <<manifest, ran, missed>>
Day ==
  /\ ran /\ ran' = FALSE
  /\ left' = [e \in Entries |-> IF left[e] < 0 THEN left[e] ELSE left[e] - 1] /\ UNCHANGED <<manifest, missed>>

TtlNext == ExtendAll \/ Refuses \/ RunFails \/ (\E e \in Kept : BumpInstance(e)) \/ Day
----------------------------------------------------------------------------
(* An entry that the job looks after is archived only after as many runs in a row as the threshold has days  *)
(* have failed or been refused; whatever refused them, one run that goes through in time saves every entry.  *)
(* Code entries that no manifest names (any network but mainnet) are not looked after.                       *)
ArchivedOnlyAfterMisses ==
  [][\A e \in Instances \cup manifest : left[e] >= 0 /\ left'[e] < 0 => missed = Threshold]_ttlVars
=============================================================================
