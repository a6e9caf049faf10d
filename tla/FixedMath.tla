------------------------------ MODULE FixedMath ------------------------------
(***************************************************************************)
(* The fixed-point arithmetic of protocol-core: i128 values scaled by      *)
(* PRECISION, with a division that truncates toward zero.  Precision is a  *)
(* constant here (10^18 in the code).  The code's checked operations abort *)
(* the transaction on an i128 overflow; the integers of the models stay    *)
(* far below it, so that an aborted call is not represented here.          *)
(***************************************************************************)
EXTENDS Integers

CONSTANT Precision   \* PRECISION

ASSUME PrecisionAssumption == Precision \in Nat \ {0}

BpsDenominator == 10000
SecsPerHour == 3600

Abs(n) == IF n < 0 THEN -n ELSE n
Least(a, b) == IF a < b THEN a ELSE b
Greatest(a, b) == IF a > b THEN a ELSE b

\* I256 division truncates toward zero; \div rounds down.
MulDiv(a, b, d) ==
  LET q == Abs(a * b) \div Abs(d)
  IN  IF (a * b >= 0) = (d > 0) THEN q ELSE -q

MulPrecision(a, b) == MulDiv(a, b, Precision)
DivPrecision(a, b) == MulDiv(a, Precision, b)
ApplyBps(amount, bps) == MulDiv(amount, bps, BpsDenominator)

\* A negative balance is debt: no haircut softens it.
AfterHaircut(value, bps) == IF value < 0 THEN value ELSE value - ApplyBps(value, bps)

Notional(size, price) == MulPrecision(size, price)

\* The value of closing size at price, for a position entered at entry.
PricePnl(long, size, entry, price) ==
  MulPrecision(size, IF long THEN price - entry ELSE entry - price)

\* What the position owes, or is owed, since it last settled funding.
FundingPnl(size, lastIndex, index) == -MulPrecision(size, index - lastIndex)

Clamp(n, bound) == Greatest(-bound, Least(bound, n))
=============================================================================
