\* One pair without settlement signatures: queued, signed, submitted, expired; and an order whose signature
\* does not verify.
SPECIFICATION FairSpec
CONSTANTS
  ask = ask
  bid = bid
  other = other
  bad = bad
  Orders = {ask, bid, bad}
  Size <- OneUnit
  Crossing <- PairAndPoison
  Signed = {bad}
  Poisoned = {bad}
  Cancellable = {}
  Matchers = {m1}
  Reconcilers = {r1}
  NoMatch = NoMatch
  MaxTxs = 2
  MaxQueued = 2
  MaxFaults = 1
INVARIANTS ConfirmedIsSettled QueuedIsUnsent
PROPERTIES QueuedIsResolved
CHECK_DEADLOCK FALSE
