----------------------------- MODULE FillLedger -----------------------------
(***************************************************************************)
(* What the order gateway promises to somebody who signed an order, with   *)
(* nothing of how it keeps the promise: there are no nonces, no storage    *)
(* entries, no reclamation, no operator.  An order trades against an order *)
(* on the other side of the same market, never beyond its size, never      *)
(* after its expiry and never while its owner has it revoked.              *)
(***************************************************************************)
EXTENDS Integers

CONSTANT Orders   \* the signed orders: records with owner, market, isLong, size, expiry

VARIABLES
  clock,     \* ledger time
  traded,    \* traded[o]: how much of order o has ever been filled
  revoked    \* the orders their owners have withdrawn

ledgerVars == <<clock, traded, revoked>>

Tradable(o, n) ==
  /\ clock <= o.expiry
  /\ o \notin revoked
  /\ traded[o] + n <= o.size

Trade(m, t, n) ==
  /\ m.owner # t.owner
  /\ m.market = t.market
  /\ m.isLong # t.isLong
  /\ Tradable(m, n)
  /\ Tradable(t, n)
  /\ traded' = [traded EXCEPT ![m] = @ + n, ![t] = @ + n]
  /\ UNCHANGED <<clock, revoked>>

\* The owner withdraws orders of its own, or lets a withdrawal lapse by
\* cancelling again with an expiry that is earlier than the order's.
Withdraw(who) ==
  /\ revoked' \subseteq Orders
  /\ \A o \in Orders : o.owner # who => (o \in revoked' <=> o \in revoked)
  /\ UNCHANGED <<clock, traded>>

Advance == clock' = clock + 1 /\ UNCHANGED <<traded, revoked>>

LedgerInit ==
  /\ clock = 0
  /\ traded = [o \in Orders |-> 0]
  /\ revoked = {}

LedgerNext ==
  \/ \E m, t \in Orders : \E n \in 1 .. m.size : Trade(m, t, n)
  \/ \E o \in Orders : Withdraw(o.owner)
  \/ Advance

LedgerSpec == LedgerInit /\ [][LedgerNext]_ledgerVars
=============================================================================
