----------------------------- MODULE MCTerminal -----------------------------
(* Two orders, of which one reconciliation asks about one, their cancellations *)
(* and the deposit dialog on one account.                                      *)
EXTENDS Terminal

AllCallers == Orders \cup {Funds}
=============================================================================
