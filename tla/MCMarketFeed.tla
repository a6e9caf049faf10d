---------------------------- MODULE MCMarketFeed ----------------------------
(* Two markets, a user who moves once, one fault anywhere. *)
EXTENDS MarketFeed
=============================================================================
