---------------------------- MODULE KeeperProofs ----------------------------
(***************************************************************************)
(* The oracle keeper: what it remembers is on the ledger; a quorum's price *)
(* is one the market had; and a price that is needed is fresh: for every   *)
(* market, every set of sources, all delays and all faults.  For the first,*)
(* what a quorum computes is not needed: that its publication is newer is  *)
(* enough.  The ttl-keeper: what archives an entry that it looks after.     *)
(***************************************************************************)
EXTENDS OracleFeed, TtlKeeper, SumTheorems

USE FeedAssumption, NoneAssumption

\* As much of TypeOK as the arguments need; the price of a quorum is left open.
ShapeInv ==
  /\ now \in Nat
  /\ market \in [0..Window -> MarketPrices]
  /\ keeper \in [pc : {"idle", "polling"}, turn : Nat, sent : Nat,
                 last : Publication \cup {None}]
  /\ account \in Nat
  /\ txs \subseteq Tx
  /\ snapshot.publish \in Int

\* Whatever the ledger has included is no newer than what it stores.
LandedInv == \A t \in txs : t.state = "landed" => snapshot.publish >= t.publish

WrittenInv == ShapeInv /\ LandedInv /\ PublishedIsWritten

\* The snapshot is left alone or replaced by a newer publication.
Advances ==
  snapshot'.publish \in Int /\ snapshot'.publish >= snapshot.publish

LEMMA InitWritten == Init => WrittenInv
<1> SUFFICES ASSUME Init
             PROVE  WrittenInv
  OBVIOUS
<1>1. ShapeInv
  BY DEF Init, ShapeInv, NoPrice
<1>. QED
  BY <1>1 DEF Init, WrittenInv, LandedInv, PublishedIsWritten

\* The steps that leave the adapter alone.
LEMMA KeeperKeepsWritten ==
  ASSUME WrittenInv,
         \/ Publish \/ PassTurn \/ IdleTurn \/ SkipTurn \/ Confirm \/ GiveUp \/ Interrupt
         \/ \E t \in txs : Revert(t) \/ Drop(t) \/ Delay(t)
  PROVE  WrittenInv'
<1> USE DEF adapterVars, configuration
<1>0. ShapeInv /\ LandedInv /\ PublishedIsWritten /\ 0 \in 0..Window
  BY DEF WrittenInv
<1>1. CASE Publish
  <2> DEFINE t == [seq |-> account + 1, price |-> market[0], publish |-> now,
                   slow |-> FALSE, state |-> "pending"]
  <2>0. market[0] \in MarketPrices /\ market[0] \in Nat
    BY <1>0 DEF ShapeInv
  <2>1. t \in Tx
    BY <1>0, <2>0 DEF ShapeInv, Tx
  <2>2. ShapeInv'
    BY <1>0, <1>1, <2>1 DEF ShapeInv, Publish
  <2>3. LandedInv'
    BY <1>0, <1>1 DEF LandedInv, Publish
  <2>4. PublishedIsWritten'
    BY <1>0, <1>1 DEF ShapeInv, PublishedIsWritten, Publish
  <2>. QED
    BY <2>2, <2>3, <2>4 DEF WrittenInv
<1>2. CASE PassTurn \/ IdleTurn \/ SkipTurn
  <2>1. ShapeInv'
    BY <1>0, <1>2 DEF ShapeInv, PassTurn, IdleTurn, SkipTurn
  <2>2. LandedInv'
    BY <1>0, <1>2 DEF LandedInv, PassTurn, IdleTurn, SkipTurn
  <2>3. PublishedIsWritten'
    BY <1>0, <1>2 DEF ShapeInv, PublishedIsWritten, PassTurn, IdleTurn, SkipTurn
  <2>. QED
    BY <2>1, <2>2, <2>3 DEF WrittenInv
<1>3. CASE Confirm
  <2>1. PICK t \in txs :
          /\ t.state = "landed"
          /\ keeper' = [keeper EXCEPT !.pc = "idle", !.turn = now,
               !.last = [price |-> t.price, publish |-> t.publish, ts |-> now]]
    BY <1>3 DEF Confirm, Confirmed
  <2>2. t \in Tx /\ snapshot.publish >= t.publish
    BY <1>0, <2>1 DEF ShapeInv, LandedInv
  <2>3. [price |-> t.price, publish |-> t.publish, ts |-> now] \in Publication
    BY <1>0, <2>2 DEF ShapeInv, Tx, Publication
  <2>4. ShapeInv'
    BY <1>0, <1>3, <2>1, <2>3 DEF ShapeInv, Confirm, Backlog
  <2>5. LandedInv'
    BY <1>0, <1>3 DEF LandedInv, Confirm, Backlog
  <2>6. PublishedIsWritten'
    BY <1>0, <1>3, <2>1, <2>2 DEF ShapeInv, PublishedIsWritten, Confirm
  <2>. QED
    BY <2>4, <2>5, <2>6 DEF WrittenInv
<1>4. CASE GiveUp
  <2>1. ShapeInv'
    BY <1>0, <1>4 DEF ShapeInv, GiveUp, Backlog
  <2>2. LandedInv'
    BY <1>0, <1>4 DEF LandedInv, GiveUp, Backlog
  <2>3. PublishedIsWritten'
    BY <1>0, <1>4 DEF ShapeInv, PublishedIsWritten, GiveUp
  <2>. QED
    BY <2>1, <2>2, <2>3 DEF WrittenInv
<1>5. CASE Interrupt
  <2>1. ShapeInv'
    BY <1>0, <1>5 DEF ShapeInv, Interrupt, Backlog
  <2>2. LandedInv'
    BY <1>0, <1>5 DEF LandedInv, Interrupt, Backlog
  <2>3. PublishedIsWritten'
    BY <1>0, <1>5 DEF ShapeInv, PublishedIsWritten, Interrupt
  <2>. QED
    BY <2>1, <2>2, <2>3 DEF WrittenInv
<1>6. ASSUME NEW t \in txs, Revert(t) \/ Drop(t) \/ Delay(t)
      PROVE  WrittenInv'
  <2>1. t \in Tx
    BY <1>0 DEF ShapeInv
  <2>2. ShapeInv'
    BY <1>0, <1>6, <2>1, ZenonT(60) DEF ShapeInv, Revert, Drop, Delay, Include, Tx
  <2>3. LandedInv'
    BY <1>0, <1>6, <2>1 DEF LandedInv, Revert, Drop, Delay, Include, Tx
  <2>4. PublishedIsWritten'
    BY <1>0, <1>6 DEF PublishedIsWritten, Revert, Drop, Delay, Include
  <2>. QED
    BY <2>2, <2>3, <2>4 DEF WrittenInv
<1>. QED
  BY <1>1, <1>2, <1>3, <1>4, <1>5, <1>6

\* The steps that write the feed or leave the keeper alone.
LEMMA FeedKeepsWritten ==
  ASSUME WrittenInv,
         (\E t \in txs : Land(t)) \/ Configure \/ WriteQuorum \/ Swing \/ Clock
  PROVE  WrittenInv'
<1> USE DEF adapterVars, configuration
<1>0. ShapeInv /\ LandedInv /\ PublishedIsWritten
  BY DEF WrittenInv
<1>1. ASSUME NEW t \in txs, Land(t)
      PROVE  WrittenInv'
  <2>1. t \in Tx
    BY <1>0 DEF ShapeInv
  <2>2. Advances /\ snapshot'.publish = t.publish
    BY <1>0, <1>1, <2>1 DEF ShapeInv, Advances, Land, WritePrice, MayWrite, Newer, Stamped, Tx
  <2>3. ShapeInv'
    BY <1>0, <1>1, <2>1, <2>2 DEF ShapeInv, Advances, Land, WritePrice, Include, Tx
  <2>4. LandedInv'
    <3> SUFFICES ASSUME NEW u \in txs', u.state = "landed"
                 PROVE  snapshot'.publish >= u.publish
      BY DEF LandedInv
    <3>1. u \in txs \/ u = [t EXCEPT !.state = "landed"]
      BY <1>1 DEF Land, Include
    <3>2. CASE u \in txs
      <4>1. u.publish \in Nat /\ snapshot.publish >= u.publish
        BY <1>0, <3>2 DEF ShapeInv, LandedInv, Tx
      <4>. QED
        BY <1>0, <2>2, <4>1 DEF Advances, ShapeInv
    <3>3. CASE u = [t EXCEPT !.state = "landed"]
      <4>1. u.publish = t.publish /\ t.publish \in Nat
        BY <2>1, <3>3 DEF Tx
      <4>. QED
        BY <2>2, <4>1
    <3>. QED
      BY <3>1, <3>2, <3>3
  <2>5. PublishedIsWritten'
    <3>1. keeper' = keeper
      BY <1>1 DEF Land, Include
    <3>2. keeper.last # None => keeper.last.publish \in Nat
      BY <1>0 DEF ShapeInv, Publication
    <3>. QED
      BY <1>0, <2>2, <3>1, <3>2 DEF ShapeInv, PublishedIsWritten, Advances
  <2>. QED
    BY <2>3, <2>4, <2>5 DEF WrittenInv
<1>2. CASE WriteQuorum
  <2>1. PICK ages \in [Sources -> 0..Least(now, Window)], claims \in [Faulty -> Reports] :
          WriteQuorumPrice(Observed(ages, claims))
    BY <1>2 DEF WriteQuorum
  <2>2. PICK s \in Sources : /\ Newer(Observed(ages, claims)[s].publish)
                             /\ snapshot'.publish = Observed(ages, claims)[s].publish
    BY <2>1 DEF WriteQuorumPrice, Observed, Stamped
  <2>3. Observed(ages, claims)[s].publish \in Int
    BY <1>0 DEF Observed, Least, ShapeInv
  <2>4. Advances
    BY <1>0, <2>2, <2>3 DEF Advances, Newer, ShapeInv
  <2>5. now' = now /\ UNCHANGED <<market, keeper, account, txs>>
    BY <1>2, <2>1 DEF WriteQuorum, WriteQuorumPrice
  <2>6. ShapeInv'
    BY <1>0, <2>4, <2>5 DEF ShapeInv, Advances
  <2>7. LandedInv'
    BY <1>0, <2>4, <2>5 DEF ShapeInv, LandedInv, Advances, Tx
  <2>8. PublishedIsWritten'
    BY <1>0, <2>4, <2>5 DEF ShapeInv, PublishedIsWritten, Advances, Publication
  <2>. QED
    BY <2>6, <2>7, <2>8 DEF WrittenInv
<1>3. CASE Configure
  <2>1. UNCHANGED <<now, snapshot, market, keeper, account, txs>>
    BY <1>3 DEF Configure, SetFeed, SetQuorumFeed, SetSourcePublisher
  <2>. QED
    BY <1>0, <2>1 DEF WrittenInv, ShapeInv, LandedInv, PublishedIsWritten
<1>4. CASE Clock
  <2>1. UNCHANGED <<snapshot, keeper, account, txs>> /\ now' = now + 1
    BY <1>4 DEF Clock
  <2>2. market' \in [0..Window -> MarketPrices]
    BY <1>0, <1>4 DEF Clock, ShapeInv
  <2>. QED
    BY <1>0, <2>1, <2>2 DEF WrittenInv, ShapeInv, LandedInv, PublishedIsWritten
<1>5. CASE Swing
  BY <1>0, <1>5 DEF Swing, WrittenInv, ShapeInv, LandedInv, PublishedIsWritten
<1>. QED
  BY <1>1, <1>2, <1>3, <1>4, <1>5

LEMMA NextWritten == WrittenInv /\ [Next]_vars => WrittenInv'
<1> SUFFICES ASSUME WrittenInv, [Next]_vars
             PROVE  WrittenInv'
  OBVIOUS
<1>1. CASE Next
  BY <1>1, KeeperKeepsWritten, FeedKeepsWritten DEF Next
<1>2. CASE UNCHANGED vars
  BY <1>2 DEF vars, adapterVars, configuration, WrittenInv, ShapeInv, LandedInv, PublishedIsWritten
<1>. QED
  BY <1>1, <1>2

\* What the keeper remembers as published is stored, or something newer is:
\* for every interleaving of timeouts, late landings, quorum writes and changes
\* of configuration.
THEOREM KeeperNeverMisled == Spec => []PublishedIsWritten
<1>1. WrittenInv => PublishedIsWritten
  BY DEF WrittenInv
<1>. QED
  BY <1>1, InitWritten, NextWritten, PTL DEF Spec
-----------------------------------------------------------------------------
(* The median, and the types.                                              *)

\* The element of the largest value.
LEMMA LargestValue ==
  ASSUME NEW D, IsFiniteSet(D), D # {}, NEW f, \A d \in D : f[d] \in Nat
  PROVE  \E d \in D : \A e \in D : f[e] <= f[d]
<1> DEFINE Below(d) == {e \in D : f[e] <= f[d]}
           Above(d) == Cardinality(D) - Cardinality(Below(d))
<1>1. \A d \in D : /\ IsFiniteSet(Below(d)) /\ Cardinality(Below(d)) \in Nat
                   /\ Cardinality(D) \in Nat /\ Cardinality(Below(d)) <= Cardinality(D)
  <2> SUFFICES ASSUME NEW d \in D
               PROVE  /\ IsFiniteSet(Below(d)) /\ Cardinality(Below(d)) \in Nat
                      /\ Cardinality(D) \in Nat /\ Cardinality(Below(d)) <= Cardinality(D)
    OBVIOUS
  <2>1. Below(d) \in SUBSET D
    OBVIOUS
  <2>. QED
    BY <2>1, FS_Subset, FS_CardinalityType
<1>2. {Above(d) : d \in D} \subseteq Nat /\ {Above(d) : d \in D} # {}
  <2>. HIDE DEF Below
  <2>. QED
    BY <1>1
<1>3. PICK d \in D : \A e \in D : Above(d) <= Above(e)
  <2>. HIDE DEF Above
  <2>1. PICK x \in {Above(d) : d \in D} : \A y \in {Above(d) : d \in D} : x <= y
    BY <1>2, LeastNumber
  <2>. QED
    BY <2>1
<1>4. ASSUME NEW e \in D, f[e] > f[d]
      PROVE  FALSE
  <2>1. Below(d) \cup {e} \in SUBSET Below(e) /\ e \notin Below(d)
    BY <1>4
  <2>2. Cardinality(Below(d) \cup {e}) <= Cardinality(Below(e))
    BY <1>1, <2>1, FS_Subset
  <2>3. Cardinality(Below(d) \cup {e}) = Cardinality(Below(d)) + 1
    BY <1>1, <2>1, FS_AddElement
  <2>4. Above(d) <= Above(e)
    BY <1>3
  <2>. HIDE DEF Below
  <2>. QED
    BY <1>1, <2>2, <2>3, <2>4
<1>. QED
  BY <1>4

\* What the choice of Median relies on.
IsMedian(obs, p) ==
  /\ p \in {obs[s].price : s \in DOMAIN obs}
  /\ Cardinality({s \in DOMAIN obs : obs[s].price < p}) <= Cardinality(DOMAIN obs) \div 2
  /\ Cardinality({s \in DOMAIN obs : obs[s].price <= p}) > Cardinality(DOMAIN obs) \div 2

LEMMA MedianExists ==
  ASSUME NEW obs, IsFiniteSet(DOMAIN obs), DOMAIN obs # {},
         \A s \in DOMAIN obs : obs[s].price \in Nat
  PROVE  IsMedian(obs, Median(obs))
<1> DEFINE D == DOMAIN obs
           f == [s \in D |-> obs[s].price]
           UpTo(p) == {s \in D : f[s] <= p}
           Under(p) == {s \in D : f[s] < p}
           half == Cardinality(D) \div 2
           High == {p \in {f[s] : s \in D} : Cardinality(UpTo(p)) > half}
<1>1. IsFiniteSet(D) /\ D # {} /\ \A s \in D : f[s] \in Nat
  OBVIOUS
<1>2. Cardinality(D) \in Nat /\ half \in Nat /\ half < Cardinality(D)
  BY <1>1, FS_CardinalityType, FS_EmptySet
<1> HIDE DEF D, f, half
<1>3. \A p : UpTo(p) \in SUBSET D /\ Under(p) \in SUBSET D
  OBVIOUS
<1>4. \A p : /\ IsFiniteSet(UpTo(p)) /\ Cardinality(UpTo(p)) \in Nat
             /\ IsFiniteSet(Under(p)) /\ Cardinality(Under(p)) \in Nat
  <2>. HIDE DEF UpTo, Under
  <2>. QED
    BY <1>1, <1>3, FS_Subset, FS_CardinalityType
<1>5. High \subseteq Nat /\ High # {}
  <2>1. PICK d \in D : \A e \in D : f[e] <= f[d]
    BY <1>1, LargestValue
  <2>2. UpTo(f[d]) = D
    BY <2>1
  <2>3. f[d] \in High
    BY <1>2, <2>2
  <2>. QED
    BY <1>1, <2>3
<1>6. PICK p \in High : \A q \in High : p <= q
  <2>. HIDE DEF High
  <2>. QED
    BY <1>5, LeastNumber
<1>7. ASSUME Cardinality(Under(p)) > half
      PROVE  FALSE
  <2>1. Under(p) # {}
    <3> HIDE DEF Under
    <3>. QED
      BY <1>2, <1>7, FS_EmptySet
  <2>2. \A s \in Under(p) : f[s] \in Nat
    BY <1>1
  <2>3. PICK d \in Under(p) : \A e \in Under(p) : f[e] <= f[d]
    <3>. HIDE DEF Under
    <3>. QED
      BY <1>4, <2>1, <2>2, LargestValue
  <2>4. p \in Nat /\ d \in D /\ f[d] < p
    BY <1>5, <2>3
  <2>5. UpTo(f[d]) = Under(p)
    BY <1>1, <2>3, <2>4
  <2>6. f[d] \in High
    BY <1>7, <2>4, <2>5
  <2>. QED
    BY <1>1, <1>6, <2>4, <2>6
<1>8. Cardinality(Under(p)) <= half /\ Cardinality(UpTo(p)) > half
  BY <1>2, <1>4, <1>7, SMTT(30)
<1>9. IsMedian(obs, p)
  <2>1. p \in {obs[s].price : s \in DOMAIN obs}
    BY DEF D, f
  <2>2. /\ Under(p) = {s \in DOMAIN obs : obs[s].price < p}
        /\ UpTo(p) = {s \in DOMAIN obs : obs[s].price <= p}
    BY DEF D, f
  <2>. QED
    BY <1>8, <2>1, <2>2 DEF IsMedian, D, half
<1>. QED
  BY <1>9 DEF Median, IsMedian

\* The part of TypeOK that ShapeInv leaves out.
FieldsInv ==
  /\ feed \in FeedType
  /\ sourcePublisher \in [AnySource -> Publishers \cup {NoPublisher}]
  /\ snapshot \in Snapshot \cup {NoPrice}
  /\ activity \in Activity
  /\ configs \in Nat /\ faults \in Nat

LEMMA TypeParts == TypeOK <=> ShapeInv /\ FieldsInv
<1>1. snapshot \in Snapshot \cup {NoPrice} => snapshot.publish \in Int
  BY DEF Snapshot, NoPrice
<1>. QED
  BY <1>1 DEF TypeOK, ShapeInv, FieldsInv

\* What the sources report in a quorum.
LEMMA ObservedType ==
  ASSUME TypeOK,
         NEW ages \in [Sources -> 0..Least(now, Window)], NEW claims \in [Faulty -> Reports],
         NEW obs, obs = Observed(ages, claims)
  PROVE  /\ DOMAIN obs = Sources /\ DOMAIN obs # {}
         /\ \A s \in Sources :
              /\ ages[s] \in Nat /\ ages[s] <= Window
              /\ obs[s].price \in Nat
              /\ obs[s].publish = now - ages[s] /\ obs[s].publish \in Nat
              /\ s \notin Faulty => obs[s].price = market[ages[s]]
         /\ IsMedian(obs, Median(obs)) /\ Median(obs) \in Nat
<1>0. now \in Nat /\ market \in [0..Window -> MarketPrices] /\ MarketPrices \subseteq Nat
  BY DEF TypeOK
<1>1. DOMAIN obs = Sources /\ DOMAIN obs # {}
  BY DEF Observed
<1>2. ASSUME NEW s \in Sources
      PROVE  /\ ages[s] \in Nat /\ ages[s] <= Window
             /\ obs[s].price \in Nat
             /\ obs[s].publish = now - ages[s] /\ obs[s].publish \in Nat
             /\ s \notin Faulty => obs[s].price = market[ages[s]]
  <2>1. ages[s] \in Nat /\ ages[s] <= Window /\ ages[s] <= now /\ ages[s] \in 0..Window
    BY <1>0 DEF Least
  <2>2. market[ages[s]] \in Nat
    BY <1>0, <2>1
  <2>3. s \in Faulty => claims[s] \in Nat
    OBVIOUS
  <2>4. obs[s] = [publisher |-> PublisherOf[s], publish |-> now - ages[s],
                  price |-> IF s \in Faulty THEN claims[s] ELSE market[ages[s]]]
    BY DEF Observed
  <2>. QED
    BY <1>0, <2>1, <2>2, <2>3, <2>4
<1>3. IsMedian(obs, Median(obs))
  BY <1>1, <1>2, MedianExists
<1>. QED
  BY <1>1, <1>2, <1>3 DEF IsMedian

LEMMA FeedKeepsFields ==
  ASSUME TypeOK, (\E t \in txs : Land(t)) \/ Configure \/ WriteQuorum
  PROVE  FieldsInv'
<1> USE DEF AnySource
<1>1. CASE \E t \in txs : Land(t)
  <2>1. PICK t \in txs : Land(t)
    BY <1>1
  <2>2. t \in Tx /\ feed.source \in AnySource
    BY DEF TypeOK, FeedType
  <2>3. snapshot' = [price |-> t.price, source |-> feed.source, publish |-> t.publish, write |-> now]
    BY <2>1 DEF Land, WritePrice, Stamped
  <2>4. snapshot' \in Snapshot
    BY <2>2, <2>3 DEF Snapshot, Tx, TypeOK
  <2>. QED
    BY <2>1, <2>4 DEF TypeOK, FieldsInv, Land, Include, WritePrice, configuration
<1>2. CASE Configure
  <2>1. feed' \in FeedType
    <3>1. CASE \E source \in {KeeperSource, Quorum}, maxAge \in {0, SingleAge}, active \in BOOLEAN :
                 SetFeed(Keeper, source, maxAge, active)
      BY <3>1 DEF SetFeed, SingleFeed, FeedType
    <3>2. CASE \E active \in BOOLEAN : SetQuorumFeed(QuorumAge, Sources, 3, Deviation, active)
      BY <3>2 DEF SetQuorumFeed, FeedType
    <3>3. CASE \E s \in Sources : SetSourcePublisher(s, PublisherOf[s])
      BY <3>3 DEF SetSourcePublisher, TypeOK
    <3>. QED
      BY <1>2, <3>1, <3>2, <3>3 DEF Configure
  <2>2. sourcePublisher' \in [AnySource -> Publishers \cup {NoPublisher}]
    BY <1>2 DEF Configure, SetFeed, SetQuorumFeed, SetSourcePublisher, TypeOK
  <2>3. UNCHANGED <<snapshot, activity, faults>> /\ configs' \in Nat
    BY <1>2 DEF Configure, SetFeed, SetQuorumFeed, SetSourcePublisher, TypeOK
  <2>. QED
    BY <2>1, <2>2, <2>3 DEF TypeOK, FieldsInv
<1>3. CASE WriteQuorum
  <2>1. PICK ages \in [Sources -> 0..Least(now, Window)], claims \in [Faulty -> Reports] :
          WriteQuorumPrice(Observed(ages, claims))
    BY <1>3 DEF WriteQuorum
  <2> DEFINE obs == Observed(ages, claims)
  <2>2. /\ DOMAIN obs = Sources
        /\ \A s \in Sources : obs[s].publish \in Nat
        /\ Median(obs) \in Nat
    BY ObservedType
  <2> HIDE DEF obs
  <2>3. PICK s \in DOMAIN obs : snapshot' = Stamped(Median(obs), Quorum, obs[s].publish)
    BY <2>1 DEF WriteQuorumPrice, obs
  <2>4. snapshot' \in Snapshot
    BY <2>2, <2>3 DEF Stamped, Snapshot, TypeOK
  <2>5. UNCHANGED <<configuration, activity, configs, faults>>
    BY <1>3, <2>1 DEF WriteQuorum, WriteQuorumPrice
  <2>. QED
    BY <2>4, <2>5 DEF TypeOK, FieldsInv, configuration
<1>. QED
  BY <1>1, <1>2, <1>3

LEMMA CheckedType ==
  ASSUME TypeOK, NEW answer \in BOOLEAN
  PROVE  Checked(answer) \in Activity
<1>1. /\ now \in Nat
      /\ activity \in [needed : BOOLEAN, checked : Nat, active : Nat,
                       since : Nat, lull : Nat, back : Nat, swings : Nat]
  BY DEF TypeOK, Activity
<1>2. \A a \in Nat : [activity EXCEPT !.checked = now, !.active = a] \in Activity
  BY <1>1 DEF Activity
<1>. QED
  BY <1>1, <1>2 DEF Checked, Activity

LEMMA KeeperKeepsFields ==
  ASSUME TypeOK,
         \/ Publish \/ PassTurn \/ IdleTurn \/ SkipTurn \/ Confirm \/ GiveUp \/ Interrupt
         \/ (\E t \in txs : Revert(t) \/ Drop(t) \/ Delay(t)) \/ Swing \/ Clock
  PROVE  FieldsInv'
<1>1. FieldsInv /\ activity.needed \in BOOLEAN /\ activity \in Activity /\ now \in Nat
  BY TypeParts DEF TypeOK, Activity
<1>2. UNCHANGED <<configuration, snapshot>>
  BY DEF Publish, PassTurn, IdleTurn, SkipTurn, Confirm, GiveUp, Interrupt, Revert, Drop, Delay,
         Swing, Clock, adapterVars
<1>3. configs' \in Nat /\ faults' \in Nat
  <2>1. configs' = configs
    BY DEF Publish, PassTurn, IdleTurn, SkipTurn, Confirm, GiveUp, Interrupt, Revert, Drop, Delay,
           Include, Swing, Clock
  <2>2. faults' = faults \/ faults' = faults + 1
    BY DEF Publish, PassTurn, IdleTurn, SkipTurn, Confirm, GiveUp, Interrupt, Revert, Drop, Delay,
           Include, Swing, Clock
  <2>. QED
    BY <1>1, <2>1, <2>2 DEF FieldsInv
<1>4. activity' \in Activity
  <2>1. CASE Publish \/ PassTurn \/ IdleTurn \/ SkipTurn
    BY <1>1, <2>1, CheckedType DEF Publish, PassTurn, IdleTurn, SkipTurn
  <2>2. CASE Interrupt
    <3>1. [activity EXCEPT !.checked = 0, !.active = now] \in Activity
      BY <1>1 DEF Activity
    <3>. QED
      BY <1>1, <2>2, <3>1 DEF Interrupt
  <2>3. CASE Swing
    <3> DEFINE n == activity.swings + 1
               l == IF now >= activity.back + Noticed THEN now ELSE activity.lull
               s == IF now + CheckGap + Noticed <= activity.lull + Grace THEN activity.since ELSE now
    <3>1. n \in Nat /\ l \in Nat /\ s \in Nat
      BY <1>1 DEF Activity
    <3> HIDE DEF n, l, s
    <3>2. [activity EXCEPT !.needed = FALSE, !.swings = n, !.lull = l] \in Activity
      BY <1>1, <3>1 DEF Activity
    <3>3. [activity EXCEPT !.needed = TRUE, !.swings = n, !.back = now, !.since = s] \in Activity
      BY <1>1, <3>1 DEF Activity
    <3>4. \/ activity' = [activity EXCEPT !.needed = FALSE, !.swings = n, !.lull = l]
          \/ activity' = [activity EXCEPT !.needed = TRUE, !.swings = n, !.back = now, !.since = s]
      BY <2>3 DEF Swing, n, l, s
    <3>. QED
      BY <3>2, <3>3, <3>4
  <2>. QED
    BY <1>1, <2>1, <2>2, <2>3 DEF Confirm, GiveUp, Revert, Drop, Delay, Include, Clock
<1>. QED
  BY <1>1, <1>2, <1>3, <1>4 DEF FieldsInv, configuration

LEMMA NextType == WrittenInv /\ TypeOK /\ [Next]_vars => TypeOK'
<1> SUFFICES ASSUME WrittenInv, TypeOK, [Next]_vars
             PROVE  TypeOK'
  OBVIOUS
<1>1. ShapeInv'
  BY NextWritten DEF WrittenInv
<1>2. FieldsInv'
  <2>1. CASE Next
    BY <2>1, FeedKeepsFields, KeeperKeepsFields DEF Next
  <2>2. CASE UNCHANGED vars
    BY <2>2, TypeParts DEF vars, adapterVars, configuration, FieldsInv
  <2>. QED
    BY <2>1, <2>2
<1>3. (TypeOK <=> ShapeInv /\ FieldsInv)'
  BY TypeParts, PTL
<1>. QED
  BY <1>1, <1>2, <1>3

LEMMA InitType == Init => TypeOK
<1> SUFFICES ASSUME Init
             PROVE  TypeOK
  OBVIOUS
<1>1. feed \in FeedType
  BY DEF Init, FeedType, SingleFeed, AnySource
<1>2. sourcePublisher \in [AnySource -> Publishers \cup {NoPublisher}]
  BY DEF Init
<1>3. activity \in Activity
  BY DEF Init, Activity
<1>4. snapshot \in Snapshot \cup {NoPrice}
  BY DEF Init
<1>. QED
  BY <1>1, <1>2, <1>3, <1>4 DEF Init, TypeOK

\* Every reachable state is well typed; the stored price of a quorum is one of
\* the observed ones, because a median exists.
THEOREM TypeCorrect == Spec => []TypeOK
BY InitWritten, NextWritten, InitType, NextType, PTL DEF Spec

-----------------------------------------------------------------------------
(* The quorum is fair.                                                     *)

\* A set with more members than there are faulty sources has an honest one.
LEMMA HonestMember ==
  ASSUME NEW S \in SUBSET Sources, 2 * Cardinality(S) >= Cardinality(Sources)
  PROVE  \E s \in S : s \notin Faulty
<1>1. IsFiniteSet(Faulty) /\ Cardinality(Faulty) \in Nat
  BY MinorityAssumption, FS_Subset, FS_CardinalityType
<1>2. IsFiniteSet(S) /\ Cardinality(S) \in Nat /\ Cardinality(Sources) \in Nat
  BY FS_Subset, FS_CardinalityType
<1> SUFFICES ASSUME S \in SUBSET Faulty
             PROVE  FALSE
  OBVIOUS
<1>3. Cardinality(S) <= Cardinality(Faulty)
  BY <1>1, FS_Subset
<1>. QED
  BY <1>1, <1>2, <1>3, MinorityAssumption

\* The least and the largest of the market's last prices bound each of them.
LEMMA Bounds ==
  ASSUME TypeOK, NEW k \in 0..Window, NEW age \in 0..k
  PROVE  /\ Min({market[a] : a \in 0..k}) <= market[age]
         /\ market[age] <= Max({market[a] : a \in 0..k})
         /\ Min({market[a] : a \in 0..k}) \in Nat /\ Max({market[a] : a \in 0..k}) \in Nat
<1> DEFINE prices == {market[a] : a \in 0..k}
<1>1. /\ market \in [0..Window -> MarketPrices] /\ MarketPrices \subseteq Nat
      /\ 0..k \subseteq 0..Window /\ IsFiniteSet(0..k) /\ 0..k # {}
  <2>1. market \in [0..Window -> MarketPrices] /\ MarketPrices \subseteq Nat
    BY DEF TypeOK
  <2>2. k \in Int /\ 0 \in Int /\ 0..k \subseteq 0..Window /\ 0..k # {}
    OBVIOUS
  <2>3. IsFiniteSet(0..k)
    BY <2>2, FS_Interval
  <2>. QED
    BY <2>1, <2>2, <2>3
<1>2. \A a \in 0..k : market[a] \in Nat
  BY <1>1
<1>3. prices \subseteq Nat /\ prices # {} /\ market[age] \in prices
  BY <1>1, <1>2
<1>4. PICK d \in 0..k : \A e \in 0..k : market[e] <= market[d]
  BY <1>1, <1>2, LargestValue
<1>5. \E x \in prices : \A y \in prices : x >= y
  BY <1>1, <1>2, <1>4
<1>6. \E x \in prices : \A y \in prices : x <= y
  BY <1>3, LeastNumber
<1> HIDE DEF prices
<1>7. /\ Min(prices) <= market[age] /\ market[age] <= Max(prices)
      /\ Min(prices) \in Nat /\ Max(prices) \in Nat
  BY <1>3, <1>5, <1>6 DEF Min, Max
<1>. QED
  BY <1>7 DEF prices

LEMMA WriteIsFair ==
  ASSUME TypeOK, WriteQuorum
  PROVE  LET since == {market[age] : age \in 0..(now - snapshot'.publish)}
         IN  Min(since) <= snapshot'.price /\ snapshot'.price <= Max(since)
<1>1. PICK ages \in [Sources -> 0..Least(now, Window)], claims \in [Faulty -> Reports] :
        WriteQuorumPrice(Observed(ages, claims))
  BY DEF WriteQuorum
<1> DEFINE obs == Observed(ages, claims)
           p == Median(obs)
<1>2. /\ DOMAIN obs = Sources
      /\ \A s \in Sources :
           /\ ages[s] \in Nat /\ ages[s] <= Window
           /\ obs[s].price \in Nat
           /\ obs[s].publish = now - ages[s]
           /\ s \notin Faulty => obs[s].price = market[ages[s]]
      /\ IsMedian(obs, p) /\ p \in Nat
  BY ObservedType
<1>3. PICK oldest \in DOMAIN obs :
        /\ \A s \in DOMAIN obs : obs[oldest].publish <= obs[s].publish
        /\ snapshot' = Stamped(p, Quorum, obs[oldest].publish)
  BY <1>1 DEF WriteQuorumPrice
<1> HIDE DEF obs, p
<1>4. now \in Nat /\ \A a \in 0..Window : market[a] \in Nat
  BY DEF TypeOK
<1> DEFINE k == ages[oldest]
           since == {market[age] : age \in 0..k}
<1>5. now - snapshot'.publish = k /\ k \in 0..Window /\ snapshot'.price = p
  BY <1>2, <1>3, <1>4 DEF Stamped
<1>6. \A s \in Sources : ages[s] \in 0..k
  BY <1>2, <1>3, <1>4
<1>7. \A s \in Sources : s \notin Faulty =>
        /\ Min(since) <= obs[s].price /\ obs[s].price <= Max(since)
        /\ obs[s].price \in Nat
  BY <1>2, <1>5, <1>6, Bounds
<1> DEFINE Under == {s \in Sources : obs[s].price < p}
           UpTo == {s \in Sources : obs[s].price <= p}
           From == Sources \ Under
<1>8. /\ Cardinality(Under) <= Cardinality(Sources) \div 2
      /\ Cardinality(UpTo) > Cardinality(Sources) \div 2
  BY <1>2 DEF IsMedian
<1>9. /\ Cardinality(Sources) \in Nat /\ Cardinality(Under) \in Nat /\ Cardinality(UpTo) \in Nat
      /\ Cardinality(From) = Cardinality(Sources) - Cardinality(Under)
  <2>1. Under \in SUBSET Sources /\ UpTo \in SUBSET Sources /\ Sources \cap Under = Under
    OBVIOUS
  <2> HIDE DEF Under, UpTo
  <2>. QED
    BY <2>1, FS_Subset, FS_CardinalityType, FS_Difference
<1>10. PICK low \in UpTo : low \notin Faulty
  <2>1. UpTo \in SUBSET Sources /\ 2 * Cardinality(UpTo) >= Cardinality(Sources)
    BY <1>8, <1>9
  <2> HIDE DEF UpTo
  <2>. QED
    BY <2>1, HonestMember
<1>11. PICK high \in From : high \notin Faulty
  <2>1. From \in SUBSET Sources /\ 2 * Cardinality(From) >= Cardinality(Sources)
    BY <1>8, <1>9
  <2> HIDE DEF From
  <2>. QED
    BY <2>1, HonestMember
<1>12. Min(since) <= p /\ p <= Max(since)
  <2>1. Min(since) \in Nat /\ Max(since) \in Nat
    BY <1>2, <1>5, <1>6, Bounds
  <2>. QED
    BY <1>2, <1>7, <1>10, <1>11, <2>1
<1>. QED
  BY <1>5, <1>12

\* Whatever a quorum writes lies between prices the market had since the
\* oldest of its observations, for every number of sources of which fewer than
\* half are faulty, every deviation and all claims.
THEOREM QuorumNeverUnfair == Spec => QuorumIsFair
<1>1. TypeOK /\ [Next]_vars =>
        [snapshot' # snapshot /\ txs' = txs =>
           LET since == {market[age] : age \in 0..(now - snapshot'.publish)}
           IN  Min(since) <= snapshot'.price /\ snapshot'.price <= Max(since)]_vars
  <2> SUFFICES ASSUME TypeOK, Next, snapshot' # snapshot, txs' = txs
               PROVE  WriteQuorum
    BY WriteIsFair
  <2>1. \A t \in txs : ~Land(t)
    <3> SUFFICES ASSUME NEW t \in txs, Land(t)
                 PROVE  FALSE
      OBVIOUS
    <3>1. t.state = "pending" /\ txs' = (txs \ {t}) \cup {[t EXCEPT !.state = "landed"]}
      BY DEF Land, Include
    <3>2. t \in Tx
      BY DEF TypeOK
    <3>3. [t EXCEPT !.state = "landed"] # t
      BY <3>1, <3>2 DEF Tx
    <3>. QED
      BY <3>1, <3>3
  <2>2. ~(Publish \/ PassTurn \/ IdleTurn \/ SkipTurn \/ Confirm \/ GiveUp \/ Interrupt)
    BY DEF Publish, PassTurn, IdleTurn, SkipTurn, Confirm, GiveUp, Interrupt, adapterVars
  <2>3. \A t \in txs : ~(Revert(t) \/ Drop(t) \/ Delay(t))
    BY DEF Revert, Drop, Delay, adapterVars
  <2>4. ~(Configure \/ Swing \/ Clock)
    BY DEF Configure, SetFeed, SetQuorumFeed, SetSourcePublisher, Swing, Clock, adapterVars
  <2>. QED
    BY <2>1, <2>2, <2>3, <2>4 DEF Next
<1>. QED
  BY <1>1, TypeCorrect, PTL DEF Spec, QuorumIsFair

-----------------------------------------------------------------------------
(* A needed price is there.  While nothing fails and nothing is configured *)
(* the state is one of few: idle with no transaction, or polling for one   *)
(* that is pending or has just landed.                                     *)

Quiet == faults = 0 /\ configs = 0

\* lastPublished is the stored publication, and when it was confirmed.
Remembered ==
  IF snapshot = NoPrice THEN keeper.last = None
  ELSE /\ keeper.last # None
       /\ keeper.last.publish = snapshot.publish /\ keeper.last.ts = snapshot.write

StoredInv ==
  /\ feed = SingleFeed(Keeper, KeeperSource, SingleAge, TRUE)
  /\ snapshot # NoPrice =>
       /\ snapshot.price > 0 /\ snapshot.source = KeeperSource
       /\ snapshot.publish <= snapshot.write /\ snapshot.write <= snapshot.publish + Latency
       /\ snapshot.write <= now

Idle ==
  /\ keeper.pc = "idle" /\ txs = {}
  /\ keeper.turn <= now /\ now <= keeper.turn + TurnGap
  /\ snapshot.publish <= snapshot.write /\ snapshot.write <= keeper.turn
  /\ Remembered

PendingTx(t) ==
  /\ t.state = "pending" /\ ~t.slow /\ t.seq = account + 1 /\ t.price > 0
  /\ snapshot.publish < keeper.sent
  /\ Remembered

LandedTx(t) ==
  /\ t.state = "landed"
  /\ snapshot.publish = keeper.sent /\ snapshot.write = now

Polling ==
  /\ keeper.pc = "polling" /\ keeper.turn = keeper.sent
  /\ keeper.sent <= now /\ now <= keeper.sent + Latency
  /\ \E t \in txs : txs = {t} /\ t.publish = keeper.sent /\ (PendingTx(t) \/ LandedTx(t))

\* The last publication is not too old for the next one.
Covered ==
  snapshot # NoPrice =>
    IF keeper.pc = "idle" THEN keeper.turn < snapshot.write + Heartbeat
    ELSE \/ keeper.sent = snapshot.publish
         \/ keeper.sent < snapshot.write + Heartbeat + TurnGap

\* The keeper asks when its turn comes and the last answer is CheckGap old.
CheckedInv ==
  /\ activity.checked <= now /\ activity.active <= now
  /\ keeper.pc = "idle" =>
       /\ keeper.turn < activity.checked + CheckGap + Latency
       /\ \/ keeper.turn < activity.checked + CheckGap
          \/ snapshot # NoPrice /\ keeper.turn < snapshot.write + Heartbeat
  /\ keeper.pc = "polling" => keeper.sent < activity.checked + CheckGap

\* A lull begins no later than the keeper may last have seen the need.
LullInv ==
  /\ activity.lull <= now /\ activity.back <= now /\ activity.since <= activity.back
  /\ activity.lull <= activity.active + Noticed
  /\ activity.needed /\ activity.checked > activity.back => activity.active = activity.checked

\* In its grace until the next question.
Awake == activity.checked + CheckGap <= activity.active + Grace
\* It will be a short lull if it ends now.
Short == now + CheckGap + Noticed <= activity.lull + Grace
\* The last one was not.
Long == activity.since + CheckGap + Noticed > activity.lull + Grace

\* After a long lull: the keeper has not asked yet, or it has, and the
\* transaction of that turn is under way.
Unasked == activity.checked <= activity.since
Resumed ==
  /\ Awake
  /\ keeper.pc = "polling" /\ snapshot.publish < keeper.sent
  /\ keeper.sent < activity.since + CheckGap + TurnGap
Resuming ==
  /\ activity.needed /\ activity.since > 0 /\ activity.since = activity.back /\ Long
  /\ Unasked \/ Resumed

KeptInv ==
  activity.needed \/ Short => \/ Covered /\ (activity.needed => Awake)
                              \/ Resuming

QuietInv == StoredInv /\ (Idle \/ Polling) /\ CheckedInv /\ LullInv /\ KeptInv

FreshInv == now > 0 /\ (Quiet => QuietInv)

LEMMA Numbers ==
  ASSUME TypeOK
  PROVE  /\ now \in Nat /\ keeper.turn \in Nat /\ keeper.sent \in Nat
         /\ keeper.pc \in {"idle", "polling"}
         /\ activity.needed \in BOOLEAN /\ activity.checked \in Nat /\ activity.active \in Nat
         /\ activity.since \in Nat /\ activity.lull \in Nat /\ activity.back \in Nat
         /\ snapshot.publish \in Int /\ snapshot.write \in Int /\ snapshot.price \in Nat
  BY DEF TypeOK, Activity, Snapshot, NoPrice

\* Of what the arithmetic below needs to know.
LEMMA Durations ==
  /\ TurnGap \in Nat /\ Heartbeat \in Nat /\ CheckGap \in Nat /\ Grace \in Nat /\ Latency \in Nat
  /\ SingleAge \in Nat /\ PollLimit \in Nat /\ TxLife \in Nat
  /\ TurnGap > 0 /\ Heartbeat > 0 /\ CheckGap > 0 /\ CheckGap <= Grace
  /\ Latency < PollLimit /\ PollLimit <= TxLife
  /\ Heartbeat + TurnGap + 2 * Latency <= SingleAge + 1
  /\ Noticed = CheckGap + TurnGap + Latency
  BY TimingAssumption DEF Noticed

LEMMA PriceNow ==
  ASSUME TypeOK
  PROVE  market[0] \in Nat /\ market[0] > 0
<1>1. market[0] \in MarketPrices
  BY DEF TypeOK
<1>2. MarketPrices \subseteq Nat /\ 0 \notin MarketPrices
  BY FeedAssumption
<1>3. \A p \in MarketPrices : p \in Nat /\ p > 0
  BY <1>2
<1>. QED
  BY <1>1, <1>3

\* What isPublishingNeeded leaves behind.
LEMMA CheckedFields ==
  ASSUME TypeOK, activity' = Checked(activity.needed)
  PROVE  /\ activity'.needed = activity.needed /\ activity'.since = activity.since
         /\ activity'.lull = activity.lull /\ activity'.back = activity.back
         /\ \/ /\ now < activity.checked + CheckGap
               /\ activity'.checked = activity.checked /\ activity'.active = activity.active
            \/ /\ now >= activity.checked + CheckGap /\ activity'.checked = now
               /\ activity'.active = IF activity.needed THEN now ELSE activity.active
<1>1. activity \in Activity /\ now \in Nat /\ activity.checked \in Nat
  BY Numbers DEF TypeOK
<1>2. CASE now - activity.checked < CheckGap
  BY <1>1, <1>2 DEF Checked
<1>3. CASE ~(now - activity.checked < CheckGap)
  <2> DEFINE a == IF activity.needed THEN now ELSE activity.active
  <2>1. activity' = [activity EXCEPT !.checked = now, !.active = a]
    BY <1>3 DEF Checked
  <2> HIDE DEF a
  <2>2. /\ activity'.checked = now /\ activity'.active = a
        /\ activity'.needed = activity.needed /\ activity'.since = activity.since
        /\ activity'.lull = activity.lull /\ activity'.back = activity.back
    BY <1>1, <2>1 DEF Activity
  <2>. QED
    BY <1>1, <1>3, <2>2 DEF a
<1>. QED
  BY <1>2, <1>3

\* A turn leaves what was asked and what began when in order.
LEMMA TurnKeepsChecks ==
  ASSUME TypeOK, QuietInv, MayTurn, activity' = Checked(activity.needed),
         keeper'.turn = now, UNCHANGED <<now, snapshot>>,
         keeper'.pc = "polling" => keeper'.sent = now
  PROVE  CheckedInv' /\ LullInv'
<1>1. CheckedInv'
  BY Numbers, CheckedFields DEF QuietInv, CheckedInv
<1>2. LullInv'
  BY Numbers, CheckedFields DEF QuietInv, CheckedInv, LullInv, Noticed
<1>. QED
  BY <1>1, <1>2

\* An idle keeper may write what it publishes.
LEMMA MayPublish ==
  ASSUME TypeOK, QuietInv, MayTurn
  PROVE  Idle /\ snapshot.publish < now /\ MayWrite(Keeper, market[0], now)
<1>1. Idle
  BY DEF QuietInv, Polling, MayTurn
<1>2. snapshot.publish < now
  BY <1>1, Numbers DEF Idle, MayTurn
<1>3. market[0] \in Nat /\ market[0] > 0
  BY PriceNow
<1>4. feed.active /\ feed.publisher = Keeper /\ feed.maxAge = SingleAge
  BY DEF QuietInv, StoredInv, SingleFeed
<1>5. Valid(Stamped(market[0], feed.source, now), SingleAge)
  BY <1>3, Numbers DEF Valid, Stamped
<1>. QED
  BY <1>1, <1>2, <1>4, <1>5 DEF MayWrite, Newer

LEMMA PublishKeeps ==
  ASSUME TypeOK, QuietInv, Publish
  PROVE  QuietInv'
<1>1. Idle /\ snapshot.publish < now
  BY MayPublish DEF Publish
<1>2. /\ keeper'.pc = "polling" /\ keeper'.turn = now /\ keeper'.sent = now
      /\ keeper'.last = keeper.last
  BY DEF Publish, TypeOK
<1>3. UNCHANGED <<now, feed, snapshot, account>> /\ activity' = Checked(activity.needed) /\ MayTurn
  BY DEF Publish, adapterVars, configuration
<1>4. StoredInv'
  BY <1>3 DEF QuietInv, StoredInv
<1>5. Polling'
  <2>1. PICK t : /\ t = [seq |-> account + 1, price |-> market[0], publish |-> now,
                         slow |-> FALSE, state |-> "pending"]
                 /\ txs' = {t}
    BY <1>1 DEF Publish, Idle
  <2>2. /\ t.seq = account' + 1 /\ t.price > 0 /\ t.publish = keeper'.sent
        /\ ~t.slow /\ t.state = "pending"
    BY <1>2, <1>3, <2>1, PriceNow
  <2>3. Remembered'
    BY <1>1, <1>2, <1>3 DEF Idle, Remembered
  <2>4. snapshot'.publish < keeper'.sent
    BY <1>1, <1>2, <1>3
  <2>5. PendingTx(t)'
    BY <2>2, <2>3, <2>4 DEF PendingTx
  <2>6. keeper'.sent <= now' /\ now' <= keeper'.sent + Latency
    BY <1>2, <1>3, Numbers, Durations
  <2>. QED
    BY <1>2, <2>1, <2>2, <2>5, <2>6 DEF Polling
<1>6. CheckedInv' /\ LullInv'
  BY <1>2, <1>3, TurnKeepsChecks
<1>7. KeptInv'
  <2>1. Short' = Short
    BY <1>3, CheckedFields DEF Short
  <2>2. Covered => Covered'
    BY <1>1, <1>2, <1>3, Numbers DEF Covered, Idle
  <2>3. Long' = Long /\ activity'.needed = activity.needed /\ activity'.since = activity.since
        /\ activity'.back = activity.back
    BY <1>3, CheckedFields DEF Long
  <2>4. activity.needed => Awake' \/ (activity'.checked = activity.checked /\ activity'.active = activity.active)
    <3>1. activity.needed /\ activity'.checked = now /\ activity'.active = now => Awake'
      BY Numbers, Durations DEF Awake
    <3>. QED
      BY <1>3, <3>1, CheckedFields
  <2>5. activity.needed /\ Awake => Awake'
    BY <2>4 DEF Awake
  <2>6. ASSUME Resuming
        PROVE  Resuming' \/ (Covered' /\ Awake')
    <3>1. Unasked
      BY <1>1, <2>6 DEF Resuming, Resumed, Idle
    <3>2. CASE activity'.checked = activity.checked
      BY <2>3, <2>6, <3>1, <3>2 DEF Resuming, Unasked
    <3>3. CASE activity'.checked # activity.checked
      <4>1. Awake'
        BY <2>4, <2>6, <3>3 DEF Resuming
      <4>2. CASE keeper.turn < activity.checked + CheckGap
        <5>1. now < activity'.since + CheckGap + TurnGap
          BY <1>1, <2>3, <3>1, <4>2, Numbers DEF Unasked, Idle
        <5>2. Resumed'
          BY <1>1, <1>2, <1>3, <4>1, <5>1 DEF Resumed
        <5>. QED
          BY <2>3, <2>6, <5>2 DEF Resuming
      <4>3. CASE keeper.turn < snapshot.write + Heartbeat
        BY <1>1, <1>2, <1>3, <4>1, <4>3, Numbers DEF Covered, Idle
      <4>. QED
        BY <1>1, <4>2, <4>3 DEF QuietInv, CheckedInv, Idle
    <3>. QED
      BY <3>2, <3>3
  <2>. QED
    BY <2>1, <2>2, <2>3, <2>5, <2>6 DEF QuietInv, KeptInv
<1>. QED
  BY <1>4, <1>5, <1>6, <1>7 DEF QuietInv

\* The two turns without a transaction.
LEMMA PassKeeps ==
  ASSUME TypeOK, QuietInv, PassTurn \/ IdleTurn
  PROVE  QuietInv'
<1>1. MayTurn /\ UNCHANGED <<now, feed, snapshot, txs>> /\ activity' = Checked(activity.needed)
  BY DEF PassTurn, IdleTurn, adapterVars, configuration
<1>2. Idle /\ snapshot.publish < now /\ MayWrite(Keeper, market[0], now)
  BY <1>1, MayPublish
<1>3. keeper'.pc = "idle" /\ keeper'.turn = now /\ keeper'.last = keeper.last
  BY <1>2 DEF PassTurn, IdleTurn, TypeOK, Idle
<1>4. StoredInv'
  BY <1>1 DEF QuietInv, StoredInv
<1>5. Idle'
  BY <1>1, <1>2, <1>3, Numbers DEF Idle, Remembered
<1>6. CheckedInv' /\ LullInv'
  BY <1>1, <1>3, TurnKeepsChecks
<1>7. /\ Short' = Short /\ Long' = Long /\ activity'.needed = activity.needed
      /\ activity'.since = activity.since /\ activity'.back = activity.back
  BY <1>1, CheckedFields DEF Short, Long
<1>8. ASSUME Resuming
      PROVE  Unasked
  BY <1>2, <1>8 DEF Resuming, Resumed, Idle
<1>9. CASE PassTurn
  <2>1. Covered'
    <3>1. ~ShouldPublish(market[0])
      BY <1>2, <1>9 DEF PassTurn
    <3>2. keeper.last # None /\ ~(now - keeper.last.ts >= Heartbeat)
      BY <3>1 DEF ShouldPublish
    <3>3. keeper.last.ts = snapshot.write
      BY <1>2, <3>2 DEF Idle, Remembered
    <3>. QED
      BY <1>1, <1>3, <3>2, <3>3, Numbers DEF Covered
  <2>2. activity.needed => Awake' \/ (activity'.checked = activity.checked /\ activity'.active = activity.active)
    <3>1. activity.needed /\ activity'.checked = now /\ activity'.active = now => Awake'
      BY Numbers, Durations DEF Awake
    <3>. QED
      BY <1>1, <3>1, CheckedFields
  <2>3. activity.needed /\ Awake => Awake'
    BY <2>2 DEF Awake
  <2>4. ASSUME Resuming
        PROVE  Resuming' \/ Awake'
    BY <1>7, <1>8, <2>2, <2>4 DEF Resuming, Unasked
  <2>5. activity.needed \/ Short => (Covered /\ (activity.needed => Awake)) \/ Resuming
    BY DEF QuietInv, KeptInv
  <2>6. Resuming => activity.needed
    BY DEF Resuming
  <2>7. activity'.needed \/ Short' => (Covered' /\ (activity'.needed => Awake')) \/ Resuming'
    BY <1>7, <2>1, <2>3, <2>4, <2>5, <2>6
  <2>. QED
    BY <1>4, <1>5, <1>6, <2>7 DEF KeptInv, QuietInv
<1>10. CASE IdleTurn
  <2>1. now >= activity'.active + Grace
    <3>1. activity'.active \in Nat
      BY <1>1, CheckedFields, Numbers
    <3>. QED
      BY <1>10, <3>1, Numbers DEF IdleTurn, Suspended
  <2>2. ASSUME activity.needed
        PROVE  /\ activity'.checked = activity.checked
               /\ ~Awake
    <3>1. activity'.active # now
      BY <2>1, Numbers, Durations
    <3>2. /\ now < activity.checked + CheckGap
          /\ activity'.checked = activity.checked /\ activity'.active = activity.active
      BY <1>1, <2>2, <3>1, CheckedFields
    <3>. QED
      BY <2>1, <3>2, Numbers, Durations DEF Awake
  <2>3. ASSUME ~activity.needed, Short
        PROVE  FALSE
    <3>1. activity'.active = activity.active
      BY <1>1, <2>3, CheckedFields
    <3>2. activity.lull <= activity.active + Noticed
      BY DEF QuietInv, LullInv
    <3>. QED
      BY <2>1, <2>3, <3>1, <3>2, Numbers, Durations DEF Short
  <2>4. ASSUME Resuming
        PROVE  Resuming'
    BY <1>7, <1>8, <2>2, <2>4 DEF Resuming, Unasked
  <2>5. activity.needed \/ Short => (Covered /\ (activity.needed => Awake)) \/ Resuming
    BY DEF QuietInv, KeptInv
  <2>6. activity'.needed \/ Short' => Resuming'
    BY <1>7, <2>2, <2>3, <2>4, <2>5
  <2>. QED
    BY <1>4, <1>5, <1>6, <2>6 DEF KeptInv, QuietInv
<1>. QED
  BY <1>9, <1>10

LEMMA ConfirmKeeps ==
  ASSUME TypeOK, QuietInv, Confirm
  PROVE  QuietInv'
<1>1. UNCHANGED <<now, feed, snapshot, activity>> /\ keeper.pc = "polling"
  BY DEF Confirm, adapterVars, configuration
<1>2. Polling
  BY <1>1 DEF QuietInv, Idle
<1>3. PICK t \in txs :
        /\ Confirmed(t)
        /\ keeper' = [keeper EXCEPT !.pc = "idle", !.turn = now,
             !.last = [price |-> t.price, publish |-> t.publish, ts |-> now]]
  BY DEF Confirm
<1>4. txs = {t} /\ snapshot.publish = keeper.sent /\ snapshot.write = now /\ t.publish = keeper.sent
  BY <1>2, <1>3 DEF Polling, PendingTx, LandedTx, Confirmed
<1>5. txs' = {}
  BY <1>3, <1>4 DEF Confirm, Confirmed, Backlog
<1>6. t \in Tx /\ keeper.sent \in Nat
  BY DEF TypeOK
<1>7. /\ keeper'.pc = "idle" /\ keeper'.turn = now
      /\ keeper'.last = [price |-> t.price, publish |-> t.publish, ts |-> now]
  BY <1>3 DEF TypeOK
<1>8. snapshot # NoPrice
  BY <1>4, <1>6 DEF NoPrice
<1>9. StoredInv'
  BY <1>1 DEF QuietInv, StoredInv
<1>10. Idle'
  <2>1. keeper'.last \in Publication
    BY <1>6, <1>7, Numbers DEF Tx, Publication
  <2>2. Remembered'
    BY <1>1, <1>4, <1>7, <1>8, <2>1 DEF Remembered
  <2>3. snapshot.publish <= snapshot.write
    BY <1>8 DEF QuietInv, StoredInv
  <2>. QED
    BY <1>1, <1>4, <1>5, <1>7, <2>2, <2>3, Numbers, Durations DEF Idle
<1>11. CheckedInv'
  <2>1. keeper.sent < activity.checked + CheckGap /\ now <= keeper.sent + Latency
    BY <1>1, <1>2 DEF QuietInv, CheckedInv, Polling
  <2>2. activity.checked <= now /\ activity.active <= now
    BY DEF QuietInv, CheckedInv
  <2>. QED
    BY <1>1, <1>4, <1>7, <1>8, <2>1, <2>2, Numbers, Durations DEF CheckedInv
<1>12. LullInv'
  BY <1>1 DEF QuietInv, LullInv
<1>13. KeptInv'
  <2>1. Covered'
    BY <1>1, <1>4, <1>7, Numbers, Durations DEF Covered
  <2>2. Short' = Short /\ Awake' = Awake
    BY <1>1 DEF Short, Awake
  <2>3. Resuming => Resuming'
    BY <1>1, <1>4, Numbers DEF Resuming, Resumed, Unasked, Long
  <2>4. activity.needed \/ Short => (Covered /\ (activity.needed => Awake)) \/ Resuming
    BY DEF QuietInv, KeptInv
  <2>. QED
    BY <1>1, <2>1, <2>2, <2>3, <2>4 DEF KeptInv
<1>. QED
  BY <1>9, <1>10, <1>11, <1>12, <1>13 DEF QuietInv

\* Of the transaction the keeper polls for: it lands, and nothing else.
LEMMA LandKeeps ==
  ASSUME TypeOK, QuietInv, NEW t \in txs, Land(t)
  PROVE  QuietInv'
<1>1. /\ UNCHANGED <<now, feed, keeper, activity>>
      /\ t.state = "pending" /\ txs' = (txs \ {t}) \cup {[t EXCEPT !.state = "landed"]}
  BY DEF Land, Include, WritePrice, configuration
<1>2. /\ Polling /\ txs = {t} /\ t.publish = keeper.sent
      /\ PendingTx(t)
  BY <1>1 DEF QuietInv, Idle, Polling, LandedTx
<1>3. /\ snapshot'.publish = keeper.sent /\ snapshot'.write = now /\ snapshot'.price = t.price
      /\ snapshot'.source = KeeperSource /\ snapshot' # NoPrice
  <2>1. snapshot' = [price |-> t.price, source |-> feed.source, publish |-> t.publish, write |-> now]
    BY DEF Land, WritePrice, Stamped
  <2>2. feed.source = KeeperSource /\ keeper.sent \in Nat
    BY Numbers DEF QuietInv, StoredInv, SingleFeed
  <2>. QED
    BY <1>2, <2>1, <2>2 DEF NoPrice
<1>4. keeper.pc = "polling" /\ keeper.sent <= now /\ now <= keeper.sent + Latency
      /\ keeper.turn = keeper.sent
  BY <1>2 DEF Polling
<1>5. StoredInv'
  <2>1. t.price > 0 /\ feed = SingleFeed(Keeper, KeeperSource, SingleAge, TRUE)
    BY <1>2 DEF PendingTx, QuietInv, StoredInv
  <2>. QED
    BY <1>1, <1>3, <1>4, <2>1, Numbers DEF StoredInv
<1>6. Polling'
  <2>1. PICK u : u = [t EXCEPT !.state = "landed"] /\ txs' = {u}
    BY <1>1, <1>2
  <2>2. t \in Tx
    BY DEF TypeOK
  <2>3. u.state = "landed" /\ u.publish = keeper.sent
    BY <1>2, <2>1, <2>2 DEF Tx
  <2>4. LandedTx(u)'
    BY <1>1, <1>3, <2>3 DEF LandedTx
  <2>. QED
    BY <1>1, <1>4, <2>1, <2>3, <2>4 DEF Polling
<1>7. CheckedInv' /\ LullInv'
  BY <1>1, <1>4 DEF QuietInv, CheckedInv, LullInv
<1>8. KeptInv'
  <2>1. Covered'
    BY <1>1, <1>3, <1>4 DEF Covered
  <2>2. Short' = Short /\ Awake' = Awake
    BY <1>1 DEF Short, Awake
  <2>3. Resuming => Resuming' \/ Awake
    BY <1>1 DEF Resuming, Resumed, Unasked, Long
  <2>4. activity.needed \/ Short => (Covered /\ (activity.needed => Awake)) \/ Resuming
    BY DEF QuietInv, KeptInv
  <2>. QED
    BY <1>1, <2>1, <2>2, <2>3, <2>4 DEF KeptInv
<1>. QED
  BY <1>5, <1>6, <1>7, <1>8 DEF QuietInv

\* Nothing times out, is refused or is dropped, and no quorum writes.
LEMMA NothingFails ==
  ASSUME TypeOK, QuietInv
  PROVE  ~GiveUp /\ ~WriteQuorum /\ \A t \in txs : ~Revert(t) /\ ~Drop(t)
<1>1. feed.active /\ feed.publisher = Keeper /\ feed.maxAge = SingleAge /\ feed.source # Quorum
  BY SourceAssumption DEF QuietInv, StoredInv, SingleFeed
<1>2. ~WriteQuorum
  BY <1>1 DEF WriteQuorum, WriteQuorumPrice
<1>3. ASSUME GiveUp
      PROVE  FALSE
  <2>1. Polling
    BY <1>3 DEF GiveUp, QuietInv, Idle
  <2>2. PICK t \in txs : txs = {t} /\ t.publish = keeper.sent /\ (PendingTx(t) \/ LandedTx(t))
    BY <2>1 DEF Polling
  <2>3. ~ \E u \in txs : u.publish = keeper.sent /\ u.state = "failed"
    BY <2>2 DEF PendingTx, LandedTx
  <2>4. now < keeper.sent + PollLimit
    BY <2>1, Numbers, Durations DEF Polling
  <2>. QED
    BY <1>3, <2>3, <2>4, Numbers, Durations DEF GiveUp
<1>4. ASSUME NEW t \in txs, t.state = "pending"
      PROVE  ~Revert(t) /\ ~Drop(t)
  <2>1. /\ Polling /\ t.publish = keeper.sent /\ t.seq = account + 1 /\ t.price > 0
        /\ snapshot.publish < keeper.sent
    BY <1>4 DEF QuietInv, Idle, Polling, PendingTx, LandedTx
  <2>2. keeper.sent <= now /\ now <= keeper.sent + Latency /\ account \in Nat /\ t.price \in Nat
    BY <2>1 DEF Polling, TypeOK, Tx
  <2>3. ~Drop(t)
    BY <2>1, <2>2, Numbers, Durations DEF Drop
  <2>4. Valid(Stamped(t.price, feed.source, t.publish), SingleAge)
    BY <2>1, <2>2, Numbers, Durations DEF Valid, Stamped
  <2>5. MayWrite(Keeper, t.price, t.publish)
    BY <1>1, <2>1, <2>4 DEF MayWrite, Newer
  <2>. QED
    BY <2>3, <2>5 DEF Revert
<1>. QED
  BY <1>2, <1>3, <1>4 DEF Revert, Drop, Include

LEMMA ClockKeeps ==
  ASSUME TypeOK, QuietInv, Clock
  PROVE  QuietInv'
<1>1. UNCHANGED <<feed, snapshot, keeper, account, txs, activity>> /\ now' = now + 1
  BY DEF Clock, configuration
<1>2. StoredInv'
  BY <1>1, Numbers DEF QuietInv, StoredInv
<1>3. Idle' \/ Polling'
  <2>1. CASE Idle
    <3>1. now < keeper.turn + TurnGap
      BY <2>1 DEF Clock, Idle
    <3>2. Remembered'
      BY <1>1, <2>1 DEF Idle, Remembered
    <3>. QED
      BY <1>1, <2>1, <3>1, <3>2, Numbers, Durations DEF Idle
  <2>2. CASE Polling
    <3>1. PICK t \in txs : txs = {t} /\ t.publish = keeper.sent /\ (PendingTx(t) \/ LandedTx(t))
      BY <2>2 DEF Polling
    <3>2. ~Answered
      BY <2>2 DEF Clock, Polling
    <3>3. PendingTx(t)
      BY <3>1, <3>2 DEF Answered, LandedTx
    <3>4. now < keeper.sent + Latency
      BY <3>1, <3>3 DEF Clock, Backlog, PendingTx
    <3>5. PendingTx(t)'
      BY <1>1, <3>3 DEF PendingTx, Remembered
    <3>. QED
      BY <1>1, <2>2, <3>1, <3>4, <3>5, Numbers, Durations DEF Polling
  <2>. QED
    BY <2>1, <2>2 DEF QuietInv
<1>4. CheckedInv' /\ LullInv'
  BY <1>1, Numbers DEF QuietInv, CheckedInv, LullInv
<1>5. KeptInv'
  <2>1. Covered' = Covered /\ Awake' = Awake /\ Resuming' = Resuming
    BY <1>1 DEF Covered, Awake, Resuming, Resumed, Unasked, Long
  <2>2. Short' => Short
    BY <1>1, Numbers, Durations DEF Short
  <2>. QED
    BY <1>1, <2>1, <2>2 DEF QuietInv, KeptInv
<1>. QED
  BY <1>2, <1>3, <1>4, <1>5 DEF QuietInv

\* Of how old what is stored can be, and of a keeper that has not resumed.
LEMMA SwingFacts ==
  ASSUME TypeOK, QuietInv
  PROVE  /\ now < activity.checked + Noticed
         /\ Resuming => now < activity.back + Noticed
<1>1. now < activity.checked + Noticed
  <2>1. CASE Idle
    BY <2>1, Numbers, Durations DEF Idle, QuietInv, CheckedInv
  <2>2. CASE Polling
    BY <2>2, Numbers, Durations DEF Polling, QuietInv, CheckedInv
  <2>. QED
    BY <2>1, <2>2 DEF QuietInv
<1>2. ASSUME Resuming
      PROVE  now < activity.back + Noticed
  <2>1. CASE Unasked
    BY <1>1, <1>2, <2>1, Numbers, Durations DEF Resuming, Unasked
  <2>2. CASE Resumed
    <3>1. Polling
      BY <2>2 DEF QuietInv, Idle, Resumed
    <3>. QED
      BY <1>2, <2>2, <3>1, Numbers, Durations DEF Resuming, Resumed, Polling
  <2>. QED
    BY <1>2, <2>1, <2>2 DEF Resuming
<1>. QED
  BY <1>1, <1>2

LEMMA SwingKeeps ==
  ASSUME TypeOK, now > 0, QuietInv, Swing
  PROVE  QuietInv'
<1>1. UNCHANGED <<now, feed, snapshot, keeper, account, txs>>
  BY DEF Swing, adapterVars, configuration
<1>2. StoredInv' /\ (Idle' \/ Polling')
  BY <1>1 DEF QuietInv, StoredInv, Idle, Polling, PendingTx, LandedTx, Remembered
<1>3. Covered' = Covered
  BY <1>1 DEF Covered
<1>4. now < activity.checked + Noticed /\ (Resuming => now < activity.back + Noticed)
  BY SwingFacts
<1>5. CASE activity.needed
  <2> DEFINE l == IF now >= activity.back + Noticed THEN now ELSE activity.lull
  <2>1. activity' = [activity EXCEPT !.needed = FALSE, !.swings = activity.swings + 1, !.lull = l]
    BY <1>5 DEF Swing
  <2> HIDE DEF l
  <2>2. /\ ~activity'.needed /\ activity'.lull = l
        /\ activity'.checked = activity.checked /\ activity'.active = activity.active
        /\ activity'.since = activity.since /\ activity'.back = activity.back
    BY <2>1 DEF TypeOK, Activity
  <2>3. CheckedInv'
    BY <1>1, <2>2 DEF QuietInv, CheckedInv
  <2>4. l <= now /\ l <= activity.active + Noticed
    <3>1. CASE now >= activity.back + Noticed
      <4>1. activity.checked > activity.back
        BY <1>4, <3>1, Numbers, Durations
      <4>2. activity.active = activity.checked
        BY <1>5, <4>1 DEF QuietInv, LullInv
      <4>. QED
        BY <1>4, <3>1, <4>2, Numbers, Durations DEF l
    <3>2. CASE ~(now >= activity.back + Noticed)
      BY <3>2 DEF l, QuietInv, LullInv
    <3>. QED
      BY <3>1, <3>2
  <2>5. LullInv'
    BY <1>1, <2>2, <2>4 DEF QuietInv, LullInv
  <2>6. ASSUME Resuming, Short'
        PROVE  FALSE
    <3>1. l = activity.lull
      BY <1>4, <2>6, Numbers, Durations DEF l
    <3>2. activity.since <= now
      BY Numbers DEF QuietInv, LullInv
    <3>3. activity.since + CheckGap + Noticed > activity.lull + Grace
      BY <2>6 DEF Resuming, Long
    <3>4. now + CheckGap + Noticed <= activity.lull + Grace
      BY <1>1, <2>2, <2>6, <3>1 DEF Short
    <3>. QED
      BY <3>2, <3>3, <3>4, Numbers, Durations
  <2>7. KeptInv'
    BY <1>3, <1>5, <2>2, <2>6 DEF QuietInv, KeptInv
  <2>. QED
    BY <1>2, <2>3, <2>5, <2>7 DEF QuietInv
<1>6. CASE ~activity.needed
  <2> DEFINE s == IF Short THEN activity.since ELSE now
  <2>1. activity' = [activity EXCEPT !.needed = TRUE, !.swings = activity.swings + 1, !.back = now, !.since = s]
    BY <1>6 DEF Swing, Short
  <2> HIDE DEF s
  <2>2. /\ activity'.needed /\ activity'.lull = activity.lull
        /\ activity'.checked = activity.checked /\ activity'.active = activity.active
        /\ activity'.since = s /\ activity'.back = now
    BY <2>1 DEF TypeOK, Activity
  <2>3. CheckedInv'
    BY <1>1, <2>2 DEF QuietInv, CheckedInv
  <2>4. LullInv'
    <3>1. s <= now
      BY Numbers DEF s, QuietInv, LullInv
    <3>. QED
      BY <1>1, <2>2, <3>1, Numbers DEF QuietInv, CheckedInv, LullInv
  <2>5. CASE Short
    <3>1. Covered
      BY <1>6, <2>5 DEF QuietInv, KeptInv, Resuming
    <3>2. Awake'
      <4>1. activity.lull <= activity.active + Noticed /\ activity.checked <= now
        BY DEF QuietInv, LullInv, CheckedInv
      <4>. QED
        BY <2>2, <2>5, <4>1, Numbers, Durations DEF Short, Awake
    <3>. QED
      BY <1>2, <1>3, <2>3, <2>4, <3>1, <3>2 DEF QuietInv, KeptInv
  <2>6. CASE ~Short
    <3>1. s = now
      BY <2>6 DEF s
    <3>2. Long'
      BY <2>2, <2>6, <3>1, Numbers, Durations DEF Short, Long
    <3>3. Unasked'
      BY <2>2, <3>1 DEF Unasked, QuietInv, CheckedInv
    <3>4. Resuming'
      BY <2>2, <3>1, <3>2, <3>3 DEF Resuming
    <3>. QED
      BY <1>2, <2>3, <2>4, <3>4 DEF QuietInv, KeptInv
  <2>. QED
    BY <2>5, <2>6
<1>. QED
  BY <1>5, <1>6, Numbers

LEMMA InitFresh == Init => FreshInv
<1> SUFFICES ASSUME Init
             PROVE  now > 0 /\ QuietInv
  BY DEF FreshInv
<1>1. StoredInv
  BY DEF Init, StoredInv
<1>2. Idle
  BY Durations DEF Init, Idle, Remembered, NoPrice
<1>3. CheckedInv /\ LullInv
  BY Durations DEF Init, CheckedInv, LullInv
<1>4. KeptInv
  BY Durations DEF Init, KeptInv, Covered, Awake
<1>. QED
  BY <1>1, <1>2, <1>3, <1>4 DEF Init, QuietInv

LEMMA NextFresh == TypeOK /\ FreshInv /\ [Next]_vars => FreshInv'
<1> SUFFICES ASSUME TypeOK, FreshInv, [Next]_vars
             PROVE  FreshInv'
  OBVIOUS
<1>1. now' > 0
  <2>1. now' = now \/ now' = now + 1
    <3>1. CASE Publish \/ PassTurn \/ IdleTurn \/ SkipTurn \/ Confirm \/ GiveUp \/ Interrupt
      BY <3>1 DEF Publish, PassTurn, IdleTurn, SkipTurn, Confirm, GiveUp, Interrupt, adapterVars
    <3>2. CASE \E t \in txs : Land(t) \/ Revert(t) \/ Drop(t) \/ Delay(t)
      BY <3>2 DEF Land, WritePrice, Revert, Drop, Delay, adapterVars
    <3>3. CASE Configure
      BY <3>3 DEF Configure, SetFeed, SetQuorumFeed, SetSourcePublisher
    <3>4. CASE WriteQuorum \/ Swing \/ Clock \/ UNCHANGED vars
      BY <3>4 DEF WriteQuorum, WriteQuorumPrice, Swing, Clock, vars, adapterVars
    <3>. QED
      BY <3>1, <3>2, <3>3, <3>4 DEF Next
  <2>. QED
    BY <2>1, Numbers DEF FreshInv
<1> SUFFICES ASSUME Quiet'
             PROVE  QuietInv'
  BY <1>1 DEF FreshInv
<1>2. faults \in Nat /\ configs \in Nat
  BY DEF TypeOK
<1>3. ~(SkipTurn \/ Interrupt \/ Configure) /\ \A t \in txs : ~Delay(t)
  <2>1. faults' # faults + 1 /\ configs' # configs + 1
    BY <1>2 DEF Quiet
  <2>. QED
    BY <2>1 DEF SkipTurn, Interrupt, Configure, Delay
<1>4. CASE UNCHANGED vars
  BY <1>4 DEF vars, adapterVars, configuration, FreshInv, Quiet, QuietInv, StoredInv, Idle, Polling,
              PendingTx, LandedTx, Remembered, CheckedInv, LullInv, KeptInv, Covered, Short, Awake,
              Resuming, Resumed, Unasked, Long
<1>5. CASE Next
  <2>1. UNCHANGED <<faults, configs>>
    BY <1>3, <1>5 DEF Next, Publish, PassTurn, IdleTurn, Confirm, GiveUp, Land, Revert, Include,
                      Drop, WriteQuorum, Swing, Clock
  <2>2. QuietInv /\ now > 0
    BY <2>1 DEF FreshInv, Quiet
  <2>. QED
    BY <1>3, <1>5, <2>2, NothingFails, PublishKeeps, PassKeeps, ConfirmKeeps, LandKeeps, SwingKeeps,
       ClockKeeps DEF Next
<1>. QED
  BY <1>4, <1>5

LEMMA FreshEnough ==
  ASSUME TypeOK, FreshInv
  PROVE  FreshWhilePublishing
<1> SUFFICES ASSUME Quiet, snapshot # NoPrice, activity.needed,
                    activity.since > 0 => now >= activity.since + Resumption
             PROVE  Served
  BY DEF FreshWhilePublishing, Quiet
<1>1. QuietInv
  BY DEF FreshInv
<1>2. ~Resuming
  BY <1>1, SwingFacts, Numbers, Durations DEF Resumption, Resuming
<1>3. Covered
  BY <1>1, <1>2 DEF QuietInv, KeptInv
<1>4. now <= snapshot.publish + SingleAge
  <2>1. snapshot.write <= snapshot.publish + Latency
    BY <1>1 DEF QuietInv, StoredInv
  <2>2. CASE Idle
    BY <1>3, <2>1, <2>2, Numbers, Durations DEF Covered, Idle
  <2>3. CASE Polling
    BY <1>3, <2>1, <2>3, Numbers, Durations DEF Covered, Polling
  <2>. QED
    BY <1>1, <2>2, <2>3 DEF QuietInv
<1>5. /\ snapshot.price > 0 /\ snapshot.source = KeeperSource
      /\ snapshot.publish <= snapshot.write /\ snapshot.write <= now
      /\ feed.active /\ feed.source = KeeperSource /\ feed.maxAge = SingleAge
  BY <1>1 DEF QuietInv, StoredInv, SingleFeed
<1>. QED
  BY <1>4, <1>5, Numbers, Durations DEF Served, Valid

\* A price that is needed is there: for every market, heartbeat, latency, gap
\* between turns and grace that leave the keeper the time it needs, and however
\* often the need comes and goes.
THEOREM NeededPriceIsFresh == Spec => []FreshWhilePublishing
BY InitWritten, NextWritten, InitType, NextType, InitFresh, NextFresh, FreshEnough, PTL DEF Spec
-----------------------------------------------------------------------------
(* The ttl-keeper. *)
TtlTyped ==
  /\ manifest \subseteq Codes /\ left \in [Entries -> Int]
  /\ ran \in BOOLEAN /\ missed \in 0..Threshold

LookedAfter == Instances \cup manifest

\* A day without a good run takes a day from every entry, and a good run gives it back the threshold:
\* the deadline counts the missed runs, and today as one of them until its run has taken place.
InTime ==
  \A e \in LookedAfter : left[e] >= 0 =>
    /\ ran => left[e] >= Threshold - missed
    /\ ~ran => left[e] >= Threshold - missed - 1

TtlInv == TtlTyped /\ InTime

LEMMA TtlStarts == TtlInit => TtlInv
<1> SUFFICES ASSUME TtlInit
             PROVE  TtlInv
  OBVIOUS
<1>1. /\ ran = FALSE /\ missed = 0 /\ left \in [Entries -> Threshold..ExtendTo]
      /\ manifest \subseteq Codes
  BY DEF TtlInit
<1>2. left \in [Entries -> Int] /\ \A e \in Entries : Threshold <= left[e]
  BY <1>1, TtlAssumption
<1>3. TtlTyped
  <2>1. ran \in BOOLEAN
    BY <1>1
  <2>2. missed \in 0..Threshold
    BY <1>1, TtlAssumption
  <2>. QED
    BY <1>1, <1>2, <2>1, <2>2, Zenon DEF TtlTyped
<1>4. InTime
  BY <1>1, <1>2, TtlAssumption DEF InTime, LookedAfter, Entries
<1>. QED
  BY <1>3, <1>4 DEF TtlInv

LEMMA TtlStays ==
  ASSUME TtlInv, [TtlNext]_ttlVars
  PROVE  TtlInv'
<1>0. /\ Threshold \in Nat /\ ExtendTo \in Nat /\ Threshold <= ExtendTo /\ Kept \subseteq Entries
      /\ LookedAfter \subseteq Entries /\ Targets = LookedAfter
  BY TtlAssumption DEF LookedAfter, Entries, Targets, TtlInv, TtlTyped
<1>1. CASE ExtendAll
  <2>1. /\ left' = [e \in Entries |-> IF e \in NeedsExtension THEN ExtendTo ELSE left[e]]
        /\ missed' = 0 /\ ran' = TRUE /\ manifest' = manifest
    BY <1>1 DEF ExtendAll
  <2>2. left' \in [Entries -> Int]
    BY <1>0, <2>1 DEF TtlInv, TtlTyped
  <2>3. \A e \in LookedAfter : left'[e] >= 0 => left'[e] >= Threshold
    BY <1>0, <2>1 DEF NeedsExtension, TtlInv, TtlTyped
  <2>. QED
    BY <1>0, <2>1, <2>2, <2>3 DEF TtlInv, TtlTyped, InTime, LookedAfter
<1>2. CASE Refuses \/ RunFails
  <2>1. /\ ran = FALSE /\ ran' = TRUE /\ manifest' = manifest /\ left' = left
        /\ missed' = IF missed < Threshold THEN missed + 1 ELSE missed
    BY <1>2 DEF Refuses, RunFails, Misses, TtlInv, TtlTyped
  <2>2. missed \in 0..Threshold /\ missed' \in 0..Threshold /\ Threshold - missed' <= Threshold - missed
    BY <1>0, <2>1 DEF TtlInv, TtlTyped
  <2>3. \A e \in LookedAfter : left[e] \in Int /\ (left[e] >= 0 => left[e] >= Threshold - missed - 1)
    BY <1>0, <2>1 DEF TtlInv, TtlTyped, InTime
  <2>4. \A e \in LookedAfter : left[e] >= 0 => left[e] >= Threshold - missed'
    BY <1>0, <2>1, <2>2, <2>3
  <2>. QED
    BY <2>1, <2>2, <2>4 DEF TtlInv, TtlTyped, InTime, LookedAfter
<1>3. CASE \E e \in Kept : BumpInstance(e)
  BY <1>0, <1>3 DEF BumpInstance, TtlInv, TtlTyped, InTime, LookedAfter
<1>4. CASE Day
  <2>1. /\ ran = TRUE /\ ran' = FALSE /\ missed' = missed /\ manifest' = manifest
        /\ left' = [e \in Entries |-> IF left[e] < 0 THEN left[e] ELSE left[e] - 1]
    BY <1>4 DEF Day, TtlInv, TtlTyped
  <2>2. left' \in [Entries -> Int]
    BY <2>1 DEF TtlInv, TtlTyped
  <2>3. ASSUME NEW e \in LookedAfter, left'[e] >= 0
        PROVE  left'[e] >= Threshold - missed - 1
    <3>1. left[e] \in Int /\ left'[e] = IF left[e] < 0 THEN left[e] ELSE left[e] - 1
      BY <1>0, <2>1 DEF TtlInv, TtlTyped
    <3>2. left[e] >= 0 => left[e] >= Threshold - missed
      BY <2>1, <2>3 DEF TtlInv, InTime
    <3>3. missed \in Nat
      BY <1>0 DEF TtlInv, TtlTyped
    <3>. QED
      BY <1>0, <2>3, <3>1, <3>2, <3>3
  <2>. QED
    BY <2>1, <2>2, <2>3 DEF TtlInv, TtlTyped, InTime, LookedAfter
<1>5. CASE UNCHANGED ttlVars
  BY <1>5 DEF ttlVars, TtlInv, TtlTyped, InTime, LookedAfter
<1>. QED
  BY <1>1, <1>2, <1>3, <1>4, <1>5 DEF TtlNext

\* Only a day that passes takes the life of an entry, and by the deadline as many
\* runs have been missed as the threshold has days.
LEMMA TtlMisses ==
  ASSUME TtlInv, TtlNext, NEW e \in LookedAfter, left[e] >= 0, left'[e] < 0
  PROVE  missed = Threshold
<1>0. /\ Threshold \in Nat /\ ExtendTo \in Nat /\ Kept \subseteq Entries /\ e \in Entries /\ left[e] \in Int
      /\ missed \in 0..Threshold /\ left \in [Entries -> Int]
  BY TtlAssumption DEF LookedAfter, Entries, TtlInv, TtlTyped
<1>1. ~ExtendAll /\ ~(\E k \in Kept : BumpInstance(k)) /\ ~Refuses /\ ~RunFails
  BY <1>0 DEF ExtendAll, BumpInstance, Refuses, RunFails, Misses
<1>2. Day
  BY <1>1 DEF TtlNext
<1>3. ran /\ left'[e] = left[e] - 1
  BY <1>0, <1>2 DEF Day
<1>4. left[e] >= Threshold - missed
  BY <1>3 DEF TtlInv, InTime
<1>. QED
  BY <1>0, <1>3, <1>4

(* For any contracts, codes, manifest, threshold and extension, whatever the ceiling refuses and the    *)
(* network loses: no entry that scripts/ttl-keeper.ts looks after is archived before as many of its      *)
(* daily runs in a row were missed as the threshold has days.                                            *)
THEOREM ArchivalNeedsMisses == TtlInit /\ [][TtlNext]_ttlVars => ArchivedOnlyAfterMisses
<1>1. TtlInv /\ [TtlNext]_ttlVars => TtlInv'
  BY TtlStays
<1>2. TtlInv /\ [TtlNext]_ttlVars
        => [\A e \in Instances \cup manifest : left[e] >= 0 /\ left'[e] < 0 => missed = Threshold]_ttlVars
  BY TtlMisses DEF LookedAfter
<1>. QED
  BY <1>1, <1>2, TtlStarts, PTL DEF ArchivedOnlyAfterMisses
=============================================================================
