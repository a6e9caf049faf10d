------------------------------ MODULE Services ------------------------------
(***************************************************************************)
(* The services beside the matcher and the oracle keeper.  They share no   *)
(* state (each reads the contracts and the database on its own), so every  *)
(* behaviour follows one of them while the others rest.                    *)
(***************************************************************************)
EXTENDS LiquidationKeeper, TtlKeeper, StateIndexer, StatsAggregator, Monitor

VARIABLE service
vars == <<service, liqVars, ttlVars, indexVars, statVars, monitorVars>>

Init ==
  /\ service \in {"liquidation-keeper", "ttl-keeper", "state-indexer", "stats-aggregator", "monitor"}
  /\ LiqInit /\ TtlInit /\ IndexInit /\ StatsInit /\ MonitorInit
  /\ service # "ttl-keeper" => manifest = Codes /\ \A e \in Entries : left[e] = ExtendTo
  /\ service # "state-indexer" => row # Missing

OfLiquidator(A) == service = "liquidation-keeper" /\ A /\ UNCHANGED <<service, ttlVars, indexVars, statVars, monitorVars>>
OfTtlKeeper(A) == service = "ttl-keeper" /\ A /\ UNCHANGED <<service, liqVars, indexVars, statVars, monitorVars>>
OfIndexer(A) == service = "state-indexer" /\ A /\ UNCHANGED <<service, liqVars, ttlVars, statVars, monitorVars>>
OfAggregator(A) == service = "stats-aggregator" /\ A /\ UNCHANGED <<service, liqVars, ttlVars, indexVars, monitorVars>>
OfMonitor(A) == service = "monitor" /\ A /\ UNCHANGED <<service, liqVars, ttlVars, indexVars, statVars>>
Next ==
  \/ OfLiquidator(LiqNext) \/ OfTtlKeeper(TtlNext) \/ OfIndexer(IndexNext)
  \/ OfAggregator(StatsNext) \/ OfMonitor(MonitorNext)

(* The services run in supervised loops and on timers, the ledger takes what it can and hours pass. *)
Fairness ==
  /\ WF_vars(OfLiquidator(KeeperStep)) /\ WF_vars(OfLiquidator(\E p \in sent : LandLiquidation(p)))
  /\ \A t \in Ticks : WF_vars(OfIndexer(TickStep(t)))
  /\ \A a \in Passes : WF_vars(OfAggregator(PassStep(a)))
  /\ \A r \in Rounds : WF_vars(OfMonitor(RoundStep(r)))
  /\ \A c \in Checks : WF_vars(OfMonitor(Hour(c)))
Spec == Init /\ [][Next]_vars /\ Fairness
----------------------------------------------------------------------------
(* The read models come to agree with what they copy and count: RowConverges of the state indexer and *)
(* StatsConverge of the aggregator, each where its reasons are given.                                 *)
ReadModelsConverge == RowConverges /\ StatsConverge
=============================================================================
