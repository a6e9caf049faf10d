---------------------------- MODULE MCSettlement ----------------------------
(***************************************************************************)
(* Instances of Settlement for TLC.                                        *)
(***************************************************************************)
EXTENDS Settlement, TLC

CONSTANTS ask, bid, other, bad   \* two makers, one of them with a signature that does not verify, and two takers

OneUnit == [o \in Orders |-> 1]
MakerOfTwo == [o \in Orders |-> IF o = ask THEN 2 ELSE 1]
TwoPairs == {<<ask, bid>>, <<ask, other>>}
PairAndPoison == {<<ask, bid>>, <<bad, bid>>}

InstanceSymmetry == Permutations(Matchers)
=============================================================================
