----------------------------- MODULE MCExchange -----------------------------
(* Precision is 10: a size of 10 is one unit of the base asset and prices are  *)
(* around 200.0.  Sizes are no whole units, and the collateral is quoted below *)
(* one, so that products, averages and realised amounts are rounded.           *)
EXTENDS Exchange, TLC

CONSTANTS
  Prices,        \* what the feed of a market may quote
  Collateral     \* what the feeds of the assets may quote

MarketOf(initial, maintenance, maxOI, deviation, maker, taker) ==
  [initial |-> initial, maintenance |-> maintenance, maxOI |-> maxOI, deviation |-> deviation,
   makerFee |-> maker, takerFee |-> taker, coeff |-> 1000, maxRate |-> 600]

FillsMarket == [m \in Markets |-> MarketOf(2000, 1000, 40, 1000, 0, 1500)]
LiquidationMarket == [m \in Markets |-> MarketOf(2000, 1000, 40, 1000, 0, 1000)]

MCFeedPrices == [f \in Feeds |-> IF f \in Markets THEN Prices ELSE Collateral]
UserSymmetry == Permutations(Users)
NoHaircut == [a \in Assets |-> 0]
NoCap == [a \in Assets |-> 0]
SomeTokens == [a \in Assets |-> 1000]
=============================================================================
