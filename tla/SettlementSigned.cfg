\* Two instances of the matcher over signed orders.
SPECIFICATION Spec
CONSTANTS
  ask = ask
  bid = bid
  other = other
  bad = bad
  Orders = {ask, bid, other}
  Size <- MakerOfTwo
  Crossing <- TwoPairs
  Signed = {ask, bid, other}
  Poisoned = {}
  Cancellable = {bid}
  Matchers = {m1, m2}
  Reconcilers = {}
  NoMatch = NoMatch
  MaxTxs = 2
  MaxQueued = 0
  MaxFaults = 1
INVARIANTS TypeOK SettledIsCounted QuietBookAgrees
SYMMETRY InstanceSymmetry
CHECK_DEADLOCK FALSE
