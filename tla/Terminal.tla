------------------------------ MODULE Terminal ------------------------------
(***************************************************************************)
(* The trader's page: placing orders (OrderEntry), closing positions       *)
(* (PositionsTable), cancelling (OpenOrdersTable), moving funds (the       *)
(* deposit dialog), and the reconciliation of the locally kept order list  *)
(* with the database and the gateway.  One account; an order has one unit  *)
(* of size.  The matcher and the settlement appear as the environment that *)
(* fills, settles and rolls back (Settlement has them in detail).          *)
(***************************************************************************)
EXTENDS WalletCalls, Sequences, SequencesExt

CONSTANTS
  Orders,       \* nonces
  CheckLimit,   \* pending orders that a reconcile() asks the gateway about: pending.slice(0, 20)
  Runs,         \* reconcile() calls that may overlap
  MaxCalls,     \* bound on calls made
  MaxFaults     \* bound on lost answers, failed reads and disconnects

Funds == 0        \* the caller that moves funds
ASSUME CallersAssumption == Orders \subseteq Nat \ {Funds} /\ Callers = Orders \cup {Funds}

VARIABLES
  stored,     \* stored[n]: the order's row: "absent", "open" or "filled"
  withdrawn,  \* withdrawn[n]: Order.cancelled
  flying,     \* flying[n]: a settlement of n is on its way
  filled, cancelled,   \* filled[n], cancelled[n]: the gateway's counter and flag
  local,      \* local[n]: status in the local list, "none" when not listed
  listed,     \* the local list, newest first
  ticket,     \* ticket[n]: progress of the submission
  cancelling, \* cancelling[n]: progress of makeCancel
  run,        \* run[r]: an unfinished reconcile()
  connected,
  told,       \* history: told[n]: the page said "Order cancelled"
  calls, faults

page == <<local, listed, ticket, cancelling, run, connected, told>>
world == <<stored, withdrawn, flying, filled, cancelled>>
bounds == <<calls, faults>>
vars == <<callVars, page, world, bounds>>

Rest == [pc |-> "idle", todo |-> <<>>, seen |-> {}]
Before == [stored |-> "absent", local |-> "none", ticket |-> "idle", list |-> <<>>, runs |-> Runs, calls |-> 1, faults |-> 0]
Resting == [stored |-> "open", local |-> "pending", ticket |-> "done", list |-> SetToSeq(Orders), runs |-> {Min(Runs)},
            calls |-> 0, faults |-> MaxFaults]
(* Either nothing is placed yet, reconciliations overlap and one call is spared, or the orders rest in the *)
(* book, reconciliations follow each other and all calls may be made.                                      *)
Init ==
  \E b \in {Before, Resting} :
    /\ CallsInit /\ connected = TRUE /\ listed = b.list
    /\ stored = [n \in Orders |-> b.stored] /\ local = [n \in Orders |-> b.local]
    /\ ticket = [n \in Orders |-> b.ticket] /\ calls = b.calls /\ faults = b.faults
    /\ withdrawn = [n \in Orders |-> FALSE] /\ flying = [n \in Orders |-> FALSE]
    /\ filled = [n \in Orders |-> FALSE] /\ cancelled = [n \in Orders |-> FALSE]
    /\ cancelling = [n \in Orders |-> "idle"] /\ run = [r \in Runs |-> IF r \in b.runs THEN Rest ELSE [Rest EXCEPT !.pc = "unused"]]
    /\ told = [n \in Orders |-> FALSE]

Fault == faults < MaxFaults /\ faults' = faults + 1 /\ UNCHANGED calls
Set(f, n, v) == [f EXCEPT ![n] = v]
----------------------------------------------------------------------------
(* Orders.  OrderEntry lists the order when the route has stored it. *)
PlaceEntry(n) ==
  /\ connected /\ ticket[n] = "idle" /\ ticket' = Set(ticket, n, "entry")
  /\ UNCHANGED <<callVars, world, bounds, local, listed, cancelling, run, connected, told>>
(* addOrder puts an order first in the list; that the list ends after 100 is left out *)
AddOrder(n) == local' = Set(local, n, "pending") /\ listed' = <<n>> \o SelectSeq(listed, LAMBDA o : o # n)
(* Closing a position lists its order before it is submitted. *)
PlaceClose(n) ==
  /\ connected /\ ticket[n] = "idle" /\ ticket' = Set(ticket, n, "close") /\ AddOrder(n)
  /\ UNCHANGED <<callVars, world, bounds, cancelling, run, connected, told>>
(* signed and stored; ON CONFLICT DO NOTHING *)
Store(n) ==
  /\ ticket[n] \in {"entry", "close"}
  /\ stored' = Set(stored, n, "open")
  /\ ticket' = Set(ticket, n, IF ticket[n] = "entry" THEN "add" ELSE "done")
  /\ UNCHANGED <<callVars, withdrawn, flying, filled, cancelled, bounds, local, listed, cancelling, run, connected, told>>
(* the wallet refuses, the request is refused, or the answer is lost: "Order rejected" *)
NotPlaced(n) ==
  /\ ticket[n] \in {"entry", "close", "add"}
  /\ IF ticket[n] = "add" THEN Fault ELSE UNCHANGED bounds
  /\ ticket' = Set(ticket, n, "done")
  /\ UNCHANGED <<callVars, world, local, listed, cancelling, run, connected, told>>
Placed(n) ==
  /\ ticket[n] = "add" /\ ticket' = Set(ticket, n, "done") /\ AddOrder(n)
  /\ UNCHANGED <<callVars, world, bounds, cancelling, run, connected, told>>

----------------------------------------------------------------------------
(* makeCancel: the gateway first, then the matcher, then the local list *)
CancelFirstBySignature(n) == "matcher"
CancelFirst(n) == "chain"
Cancel(n) ==
  /\ connected /\ local[n] = "pending" /\ cancelling[n] = "idle" /\ calls < MaxCalls
  /\ calls' = calls + 1 /\ UNCHANGED faults
  /\ cancelling' = Set(cancelling, n, CancelFirst(n))
  /\ Invoke(n)
  /\ UNCHANGED <<world, local, listed, ticket, run, connected, told>>
CancelCallDone(n) ==
  /\ cancelling[n] = "chain" /\ ~Busy(n)
  /\ cancelling' = Set(cancelling, n, IF call[n].stage = "ok" THEN "matcher" ELSE "idle")
  /\ UNCHANGED <<callVars, world, bounds, local, listed, ticket, run, connected, told>>
(* cancelOrderOnMatcher swallows every error *)
CancelOnMatcher(n) ==
  /\ cancelling[n] = "matcher" /\ cancelling' = Set(cancelling, n, "list")
  /\ \/ withdrawn' = Set(withdrawn, n, stored[n] # "absent") /\ UNCHANGED bounds
     \/ UNCHANGED withdrawn /\ Fault
  /\ UNCHANGED <<callVars, stored, flying, filled, cancelled, local, listed, ticket, run, connected, told>>
Cancelled(n) ==
  /\ cancelling[n] = "list" /\ cancelling' = Set(cancelling, n, "idle")
  /\ local' = Set(local, n, "cancelled") /\ told' = Set(told, n, TRUE)
  /\ UNCHANGED <<callVars, world, bounds, listed, ticket, run, connected>>

----------------------------------------------------------------------------
(* The deposit dialog: one call at a time, again whenever the user wants *)
MoveFunds ==
  /\ connected /\ calls < MaxCalls /\ calls' = calls + 1 /\ UNCHANGED faults
  /\ Invoke(Funds)
  /\ UNCHANGED <<world, page>>

----------------------------------------------------------------------------
(* reconcile().  Step 1 asks for the owner's rows; the app has no handler for GET /api/orders, so the answer *)
(* is never ok and changes nothing.  Step 2 asks the gateway about the newest orders pending then, one after  *)
(* the other: the answer is read before an await and applied after it.                                       *)
StartReconcile(r) ==
  /\ connected /\ run[r].pc = "idle"
  /\ run' = [run EXCEPT ![r].pc = "rows"]
  /\ UNCHANGED <<callVars, world, bounds, local, listed, ticket, cancelling, connected, told>>
Seen(n) == (IF filled[n] THEN {"filled"} ELSE {}) \cup (IF cancelled[n] THEN {"cancelled"} ELSE {})
ToCheck(todo) == IF todo = <<>> THEN Rest ELSE [pc |-> "chain", todo |-> todo, seen |-> Seen(Head(todo))]
NewestPending ==
  LET pending == SelectSeq(listed, LAMBDA n : local[n] = "pending")
  IN  SubSeq(pending, 1, IF CheckLimit < Len(pending) THEN CheckLimit ELSE Len(pending))
RowsRefused(r) ==
  /\ run[r].pc = "rows"
  /\ run' = [run EXCEPT ![r] = ToCheck(NewestPending)]
  /\ UNCHANGED <<callVars, world, bounds, local, listed, ticket, cancelling, connected, told>>
VerdictCancelOnly(seen, mine) == IF "cancelled" \in seen THEN "cancelled" ELSE mine
Verdict(seen, mine) ==
  CASE "cancelled" \in seen -> "cancelled"
    [] seen = {"filled"} -> "filled"
    [] OTHER -> mine
CheckChain(r) ==
  LET n == Head(run[r].todo) IN
  /\ run[r].pc = "chain"
  /\ \/ local' = Set(local, n, Verdict(run[r].seen, local[n])) /\ UNCHANGED bounds
     \/ UNCHANGED local /\ Fault          \* the read failed
  /\ run' = [run EXCEPT ![r] = ToCheck(Tail(run[r].todo))]
  /\ UNCHANGED <<callVars, world, listed, ticket, cancelling, connected, told>>

(* the cleanup of the effect: a run whose flag is set has no effect any more.  The page's own poll of the *)
(* wallet connects it again.                                                                              *)
Disconnect ==
  /\ connected /\ connected' = FALSE /\ Fault
  /\ run' = [r \in Runs |-> IF run[r].pc = "unused" THEN run[r] ELSE Rest]
  /\ UNCHANGED <<callVars, world, local, listed, ticket, cancelling, told>>
RefreshWallet ==
  /\ ~connected /\ connected' = TRUE
  /\ UNCHANGED <<callVars, world, bounds, local, listed, ticket, cancelling, run, told>>

----------------------------------------------------------------------------
(* The matcher, the ledger and time. *)
Fill(n) ==
  /\ stored[n] = "open" /\ ~withdrawn[n] /\ ~flying[n] /\ ~filled[n]
  /\ stored' = Set(stored, n, "filled") /\ flying' = Set(flying, n, TRUE)
  /\ UNCHANGED <<callVars, page, bounds, withdrawn, filled, cancelled>>
Settle(n) ==
  /\ flying[n] /\ flying' = Set(flying, n, FALSE)
  /\ filled' = IF cancelled[n] THEN filled ELSE Set(filled, n, TRUE)
  /\ UNCHANGED <<callVars, page, bounds, stored, withdrawn, cancelled>>
RollBack(n) ==
  /\ stored[n] = "filled" /\ ~filled[n] /\ (flying[n] => faults < MaxFaults)
  /\ IF flying[n] THEN Fault ELSE UNCHANGED bounds   \* while it can still land: the poll timed out
  /\ stored' = Set(stored, n, "open")
  /\ UNCHANGED <<callVars, page, withdrawn, flying, filled, cancelled>>
LandCall(c) ==
  /\ \/ (Lands(c, "failed") \/ LandsLate(c, "failed")) /\ UNCHANGED cancelled
     \/ (Lands(c, "ok") \/ LandsLate(c, "ok")) /\ cancelled' = IF c \in Orders THEN Set(cancelled, c, TRUE) ELSE cancelled
  /\ UNCHANGED <<page, bounds, stored, withdrawn, flying, filled>>
CallStep(c) ==
  /\ Send(c) \/ Reject(c) \/ Poll(c)
  /\ UNCHANGED <<page, world, bounds>>

Next ==
  \/ \E n \in Orders : PlaceEntry(n) \/ PlaceClose(n) \/ Store(n) \/ NotPlaced(n) \/ Placed(n) \/ Cancel(n) \/ CancelCallDone(n)
                         \/ CancelOnMatcher(n) \/ Cancelled(n) \/ Fill(n) \/ Settle(n) \/ RollBack(n)
  \/ MoveFunds \/ Disconnect \/ RefreshWallet
  \/ \E r \in Runs : StartReconcile(r) \/ RowsRefused(r) \/ CheckChain(r)
  \/ \E c \in Callers : LandCall(c) \/ CallStep(c)

(* The page's timers fire and its requests end; a cancellation under way goes on, the matcher resolves its fills. *)
Fairness ==
  /\ WF_vars(RefreshWallet)
  /\ \A r \in Runs : WF_vars(StartReconcile(r)) /\ WF_vars(RowsRefused(r)) /\ WF_vars(CheckChain(r))
  /\ \A n \in Orders : WF_vars(CancelCallDone(n)) /\ WF_vars(CancelOnMatcher(n)) /\ WF_vars(Cancelled(n))
  /\ \A n \in Orders : WF_vars(Placed(n)) /\ WF_vars(Settle(n))
Spec == Init /\ [][Next]_vars /\ Fairness
----------------------------------------------------------------------------
(* Once makeCancel has said that the order is cancelled, no settlement of it lands.                          *)
CancelMeansNoFill == [][\A n \in Orders : told[n] => filled'[n] = filled[n]]_vars

(* The listed orders come to agree with the ledger, whatever overlapped, was lost or failed: one settled or   *)
(* cancelled there leaves the open orders if it is among the newest CheckLimit pending ones, and one shown as *)
(* filled or cancelled is.  An older one stays listed as open for as long as CheckLimit newer ones are        *)
(* pending; orders that the page does not list, because the answer to their submission was lost, are not      *)
(* found again.                                                                                               *)
OrdersConverge ==
  \A n \in Orders : <>[](/\ n \in Range(NewestPending) => ~filled[n] /\ ~cancelled[n]
                         /\ local[n] = "filled" => filled[n]
                         /\ local[n] = "cancelled" => cancelled[n])
=============================================================================
