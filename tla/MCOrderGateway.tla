--------------------------- MODULE MCOrderGateway ---------------------------
(* Two users, three signed orders: one of alice's that expires early and is   *)
(* bigger than any fill, and two of bob's on the other side, one expiring     *)
(* later.  The clock runs past the reclaim horizon of every one of them.      *)
EXTENDS OrderGateway

Order(o, l, s, p, n, e, d) ==
  [owner |-> o, market |-> 1, isLong |-> l, size |-> s, limit |-> p,
   nonce |-> n, expiry |-> e, domain |-> d]

MCOrders == { Order("alice", TRUE,  2, 2, 1, 1, "testnet"),
              Order("bob",   FALSE, 2, 1, 1, 1, "testnet"),
              Order("bob",   FALSE, 2, 2, 2, 2, "mainnet") }
=============================================================================
