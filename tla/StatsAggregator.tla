--------------------------- MODULE StatsAggregator --------------------------
(***************************************************************************)
(* scripts/stats-aggregator.ts counts the fills of every trader into       *)
(* TraderStat, period by period, and into AccountAnalytics, in passes that *)
(* may overlap: the state indexer starts one every sixth tick, and the     *)
(* script also runs on its own.                                            *)
(***************************************************************************)
EXTENDS Integers, Sequences, FiniteSets

CONSTANTS
  Passes,      \* aggregations that may be under way at once
  Traders,
  MaxTrades,   \* bound on trades
  MaxUndone    \* bound on fills rolled back and passes that throw

VARIABLES
  fills,      \* Fill rows: numbered, with the two traders, recent while inside the shorter period
  stat,       \* stat[p][u]: trade count of u over period p, 0 without a row
  pass,       \* pass[a]: the period of a and the counts of the traders still to be written, 0 for the others
  trades, undone

statVars == <<fills, stat, pass, trades, undone>>

(* DAY stands for the rolling periods, ALL also for AccountAnalytics, which is counted and written alike *)
Periods == <<"DAY", "ALL">>
NoPass == [period |-> 0, counts |-> [u \in Traders |-> 0]]
Todo(a) == {u \in Traders : pass[a].counts[u] > 0}
StatsInit ==
  /\ fills = {} /\ stat = [p \in 1..Len(Periods) |-> [u \in Traders |-> 0]]
  /\ pass = [a \in Passes |-> NoPass] /\ trades = 0 /\ undone = 0

Undoes == undone < MaxUndone /\ undone' = undone + 1
(* volumeStats: the address as maker or taker, once for each *)
Inside(p) == {f \in fills : Periods[p] = "DAY" => f.recent}
Count(p, u) == Cardinality({f \in Inside(p) : f.maker = u}) + Cardinality({f \in Inside(p) : f.taker = u})
(* the counts of a period are read together, the traders with none are not among them *)
Aggregate(a) ==
  LET p == 1 + (pass[a].period % Len(Periods)) IN
  /\ Todo(a) = {} /\ pass' = [pass EXCEPT ![a] = [period |-> p, counts |-> [u \in Traders |-> Count(p, u)]]]
  /\ UNCHANGED <<fills, stat, trades, undone>>
(* and written one after the other; a statement that throws ends the pass *)
UpsertStat(a) ==
  /\ Todo(a) # {}
  /\ \/ \E u \in Todo(a) :
          /\ stat' = [stat EXCEPT ![pass[a].period][u] = pass[a].counts[u]]
          /\ pass' = [pass EXCEPT ![a].counts[u] = 0] /\ UNCHANGED undone
     \/ pass' = [pass EXCEPT ![a] = NoPass] /\ Undoes /\ UNCHANGED stat
  /\ UNCHANGED <<fills, trades>>
PassStep(a) == Aggregate(a) \/ UpsertStat(a)

(* the matcher adds fills and deletes those it rolls back; time passes over them *)
Trade(u, v) ==
  /\ trades < MaxTrades /\ trades' = trades + 1
  /\ fills' = fills \cup {[id |-> trades, maker |-> u, taker |-> v, recent |-> TRUE]}
  /\ UNCHANGED <<stat, pass, undone>>
UndoFill == \E f \in fills : Undoes /\ fills' = fills \ {f} /\ UNCHANGED <<stat, pass, trades>>
AgeFill ==
  \E f \in fills : /\ f.recent /\ fills' = (fills \ {f}) \cup {[f EXCEPT !.recent = FALSE]}
                   /\ UNCHANGED <<stat, pass, trades, undone>>

StatsNext ==
  \/ \E a \in Passes : PassStep(a)
  \/ \E u, v \in Traders : u # v /\ Trade(u, v)
  \/ UndoFill \/ AgeFill
----------------------------------------------------------------------------
(* When trading rests, the counts of every trader with a fill in the period are right, although a slow pass   *)
(* writes old counts over new ones.  A trader whose last fill was undone or left the period keeps the old     *)
(* count: no pass touches its row.                                                                            *)
StatsConverge ==
  \A p \in 1..Len(Periods), u \in Traders : <>[](Count(p, u) > 0 => stat[p][u] = Count(p, u))
=============================================================================
