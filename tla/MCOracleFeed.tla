---------------------------- MODULE MCOracleFeed ----------------------------
(* The three sources of the contract, one of them faulty, and a market that   *)
(* moves by one or two per cent.  A faulty source may report a price that is  *)
(* within the deviation of the others and outside the market.                 *)
EXTENDS OracleFeed

MCPublisherOf ==
  [s \in Sources |-> CASE s = "RedStone" -> "p-redstone" [] s = "Pyth" -> "p-pyth"
                       [] OTHER -> "p-reflector"]
=============================================================================
