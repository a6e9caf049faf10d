----------------------------- MODULE StateIndexer ---------------------------
(***************************************************************************)
(* scripts/state-indexer.ts copies a market's state from the contracts     *)
(* into its Market row, column by column, on a timer that does not wait    *)
(* for the previous tick.                                                  *)
(***************************************************************************)
EXTENDS Integers

CONSTANTS
  Ticks,       \* ticks that may be under way at once
  MaxChanges,  \* bound on changes of the contracts' state
  MaxSlips     \* bound on failed reads and writes and on lost rows

VARIABLES
  chain,      \* chain[c]: what the contracts hold, column by column
  row,        \* the Market row, Missing when there is none
  tick,       \* tick[t]: the next read of t and what it has read
  changes, slips

indexVars == <<chain, row, tick, changes, slips>>

Columns == {"funding", "price", "long", "short"}
Missing == <<>>
Unset == -1
NoTick == [pc |-> "idle", read |-> [c \in Columns |-> Unset]]
IndexInit ==
  /\ chain = [c \in Columns |-> 0] /\ row \in {Missing, chain}
  /\ tick = [t \in Ticks |-> NoTick] /\ changes = 0 /\ slips = 0

Slips == slips < MaxSlips /\ slips' = slips + 1
----------------------------------------------------------------------------
(* indexMarket: funding and price together, then one open interest after the other, then the row *)
Stage(pc) == IF pc = "first" THEN {"funding", "price"} ELSE {pc}
After == [first |-> "long", long |-> "short", short |-> "write"]
StartIndex(t) ==
  /\ tick[t].pc = "idle" /\ tick' = [tick EXCEPT ![t] = [NoTick EXCEPT !.pc = "first"]]
  /\ UNCHANGED <<chain, row, changes, slips>>
(* a read that fails gives null, and null is not written *)
ReadColumns(t) ==
  /\ tick[t].pc \in DOMAIN After
  /\ \E got \in SUBSET Stage(tick[t].pc) :
       /\ IF got = Stage(tick[t].pc) THEN UNCHANGED slips ELSE Slips
       /\ tick' = [tick EXCEPT ![t] = [pc |-> After[tick[t].pc],
                     read |-> [c \in Columns |-> IF c \in got THEN chain[c] ELSE tick[t].read[c]]]]
  /\ UNCHANGED <<chain, row, changes>>
(* INSERT ... ON CONFLICT DO UPDATE of the columns that were read; an exception leaves the row to the next tick *)
WrittenIfPresent(r, read) == IF r = Missing THEN r ELSE [c \in Columns |-> IF read[c] = Unset THEN r[c] ELSE read[c]]
Written(r, read) == [c \in Columns |-> IF read[c] # Unset THEN read[c] ELSE IF r = Missing THEN Unset ELSE r[c]]
WriteRow(t) ==
  /\ tick[t].pc = "write" /\ tick' = [tick EXCEPT ![t] = NoTick]
  /\ \/ row' = Written(row, tick[t].read) /\ UNCHANGED slips
     \/ UNCHANGED row /\ Slips
  /\ UNCHANGED <<chain, changes>>
TickStep(t) == StartIndex(t) \/ ReadColumns(t) \/ WriteRow(t)

----------------------------------------------------------------------------
(* the contracts: a fill moves both open interests in one transaction, a round the price and the funding *)
ChainChanges(cs) ==
  /\ changes < MaxChanges /\ changes' = changes + 1
  /\ chain' = [c \in Columns |-> IF c \in cs THEN chain[c] + 1 ELSE chain[c]]
  /\ UNCHANGED <<row, tick, slips>>
LoseRow == row # Missing /\ row' = Missing /\ Slips /\ UNCHANGED <<chain, tick, changes>>

IndexNext ==
  \/ \E t \in Ticks : TickStep(t)
  \/ \E cs \in {{"long", "short"}, {"price", "funding"}} : ChainChanges(cs)
  \/ LoseRow
----------------------------------------------------------------------------
(* When the contracts rest, the Market row comes to be what they hold, also when it was lost, although a slow *)
(* tick writes what it read long ago over what a later tick has written.                                      *)
RowConverges == <>[](row = chain)
=============================================================================
