----------------------------- MODULE OracleFeed -----------------------------
(***************************************************************************)
(* The oracle keeper at work on a feed of the adapter, in real time.  The  *)
(* keeper's turns at this feed come at most TurnGap apart (its fetch       *)
(* interval and the turns of the other feeds).  In a turn it takes the     *)
(* market price, and if the price has moved or the heartbeat is due it     *)
(* sends a write_price and polls for the result.  A poll that ends without *)
(* an answer leaves a transaction that may still land, next to the one the *)
(* keeper sends at its next turn; both carry a sequence number of the      *)
(* keeper's account.  Turns are idle when nothing has needed a price for   *)
(* some time: no order, settlement, position or deposit.                   *)
(*                                                                         *)
(* Meanwhile the admin may move the feed to a quorum of sources and back.  *)
(* The sources in Faulty report what they like, the others report what the *)
(* market was at the time they name.                                       *)
(***************************************************************************)
EXTENDS OracleAdapter

CONSTANTS
  Keeper,         \* the keeper's publisher account
  PublisherOf,    \* [Sources -> Publishers]: who reports for a source
  Faulty,         \* sources that may report anything
  MarketPrices, Reports,
  Window,         \* how long ago a source may have observed the market
  SingleAge, QuorumAge,   \* max_age_secs of the two kinds of feed
  Deviation,      \* max_source_deviation_bps
  KeeperSource,   \* the source the keeper's feed is configured with
  TurnGap, Heartbeat,     \* between turns; between publications
  MoveBps,        \* PUBLISH_DEVIATION_BPS
  CheckGap, Grace,        \* ACTIVITY_CHECK_INTERVAL_MS, IDLE_GRACE_SECS
  Latency,        \* until a transaction is on the ledger when nothing is wrong
  PollLimit, TxLife,      \* how long the keeper polls; the time bound of its transactions
  None,           \* nothing published yet
  MaxTime, MaxQuiet,      \* bounds on the time, when something fails or is configured and else
  MaxConfigs, MaxFaults,  \* bounds on changes of the feed, on what goes wrong
  MaxSwings       \* bound on changes of the activity; none when the feed is changed

ASSUME FeedAssumption ==
  /\ IsFiniteSet(Sources)
  /\ PublisherOf \in [Sources -> Publishers]
  /\ KeeperSource \in Sources
  /\ Keeper \in Publishers /\ Keeper # Admin
  /\ MarketPrices \subseteq Reports \ {0} /\ Reports \subseteq Nat
  /\ Deviation \in Nat
  /\ Window \in Nat /\ SingleAge \in Nat \ {0} /\ QuorumAge \in Nat \ {0}
  /\ TurnGap \in Nat \ {0} /\ Heartbeat \in Nat \ {0} /\ MoveBps \in Nat
  /\ Latency \in Nat /\ PollLimit \in Nat /\ TxLife \in Nat
  /\ QuorumAge <= Window
  /\ Latency < PollLimit /\ PollLimit <= TxLife
  /\ CheckGap \in Nat \ {0} /\ Grace \in Nat \ {0}
  /\ MaxTime \in Nat /\ MaxQuiet \in Nat /\ MaxConfigs \in Nat /\ MaxFaults \in Nat /\ MaxSwings \in Nat

\* What a median is for.
ASSUME MinorityAssumption ==
  Faulty \subseteq Sources /\ 2 * Cardinality(Faulty) < Cardinality(Sources)

\* "Heartbeats MUST stay under the on-chain OracleGuard max_age_secs": by so much.
\* And the keeper asks at least once in a grace.
ASSUME TimingAssumption ==
  /\ Heartbeat + TurnGap + 2 * Latency <= SingleAge + 1
  /\ CheckGap <= Grace

Publication == [price : Nat, publish : Nat, ts : Nat]
ASSUME NoneAssumption == None \notin Publication

Activity == [needed : BOOLEAN, checked : Nat, active : Nat,
             since : Nat, lull : Nat, back : Nat, swings : Nat]

VARIABLES
  market,    \* by age: market[0] is the price now
  keeper,    \* pc; turn: when its last turn began or ended; sent: the publication
             \* it polls for; last: lastPublished, with its publish time
  account,   \* sequence number of the keeper's account
  txs,       \* the keeper's transactions the network knows
  activity,  \* needed: something needs a price; checked, active: the keeper's
             \* lastActivityCheck and lastActiveAt; history: since when a price is
             \* needed but for short lulls, when the last lull began and when it
             \* ended, the number of changes
  configs,   \* history: how often the admin changed the feed
  faults     \* history: what went wrong on the keeper's way

vars == <<adapterVars, market, keeper, account, txs, activity, configs, faults>>

Tx == [seq : Nat, price : Nat, publish : Nat, slow : BOOLEAN,
       state : {"pending", "landed", "failed"}]

TypeOK ==
  /\ now \in Nat
  /\ feed \in FeedType
  /\ sourcePublisher \in [AnySource -> Publishers \cup {NoPublisher}]
  /\ snapshot \in Snapshot \cup {NoPrice}
  /\ market \in [0..Window -> MarketPrices]
  /\ keeper \in [pc : {"idle", "polling"}, turn : Nat, sent : Nat,
                 last : Publication \cup {None}]
  /\ account \in Nat
  /\ txs \subseteq Tx
  /\ activity \in Activity
  /\ configs \in Nat /\ faults \in Nat

Init ==
  /\ now = 1
  /\ feed = SingleFeed(Keeper, KeeperSource, SingleAge, TRUE)
  /\ sourcePublisher = [s \in AnySource |->
       IF s = KeeperSource THEN Keeper
       ELSE IF s \in Sources THEN PublisherOf[s] ELSE NoPublisher]
  /\ snapshot = NoPrice
  /\ \E p \in MarketPrices : market = [age \in 0..Window |-> p]
  /\ keeper = [pc |-> "idle", turn |-> 0, sent |-> 0, last |-> None]
  /\ account = 0
  /\ txs = {}
  /\ activity = [needed |-> TRUE, checked |-> 0, active |-> now,
                  since |-> 0, lull |-> now, back |-> 0, swings |-> 0]
  /\ configs = 0
  /\ faults = 0
-----------------------------------------------------------------------------
(* The keeper                                                              *)

\* The move in basis points of the last published price, rounded down.
Moved(price) ==
  MulDiv(Abs(price - keeper.last.price), BpsDenominator, keeper.last.price) >= MoveBps

\* Mutant of ShouldPublish: the heartbeat is only looked at when the price moved.
ShouldPublishMoved(price) ==
  keeper.last # None =>
     /\ now - keeper.last.ts >= Heartbeat
     /\ Moved(price)

ShouldPublish(price) ==
  keeper.last # None =>
     \/ now - keeper.last.ts >= Heartbeat
     \/ Moved(price)

MayTurn == keeper.pc = "idle" /\ now > keeper.turn

\* isPublishingNeeded asks at most every CheckGap and remembers when the answer
\* was last yes; for so long as Grace after that it publishes.
Checked(answer) ==
  IF now - activity.checked < CheckGap THEN activity
  ELSE [activity EXCEPT !.checked = now, !.active = IF answer THEN now ELSE @]

Suspended(a) == now - a.active >= Grace

\* getAccount, simulateTransaction and sendTransaction of writePrice.
Publish ==
  /\ MayTurn
  /\ ShouldPublish(market[0])
  /\ MayWrite(Keeper, market[0], now)
  /\ activity' = Checked(activity.needed) /\ ~Suspended(activity')
  /\ keeper' = [keeper EXCEPT !.pc = "polling", !.turn = now, !.sent = now]
  /\ txs' = txs \cup {[seq |-> account + 1, price |-> market[0], publish |-> now,
                       slow |-> FALSE, state |-> "pending"]}
  /\ UNCHANGED <<adapterVars, market, account, configs, faults>>

\* Nothing to publish, or the simulation refuses.
PassTurn ==
  /\ MayTurn
  /\ ~(ShouldPublish(market[0]) /\ MayWrite(Keeper, market[0], now))
  /\ activity' = Checked(activity.needed) /\ ~Suspended(activity')
  /\ keeper' = [keeper EXCEPT !.turn = now]
  /\ UNCHANGED <<adapterVars, market, account, txs, configs, faults>>

\* Nothing needs a price.
IdleTurn ==
  /\ MayTurn
  /\ activity' = Checked(activity.needed) /\ Suspended(activity')
  /\ keeper' = [keeper EXCEPT !.turn = now]
  /\ UNCHANGED <<adapterVars, market, account, txs, configs, faults>>

\* Too few price sources or sources too far apart, USDC off its peg, a node
\* that does not answer; when the database or the vault does not answer the
\* question of activity, that counts as a yes.
SkipTurn ==
  /\ MayTurn
  /\ faults < MaxFaults
  /\ activity' \in {Checked(activity.needed), Checked(TRUE)}
  /\ keeper' = [keeper EXCEPT !.turn = now]
  /\ faults' = faults + 1
  /\ UNCHANGED <<adapterVars, market, account, txs, configs>>

Answered == \E t \in txs : t.publish = keeper.sent /\ t.state # "pending"

Backlog == {t \in txs : t.state = "pending"}

\* Mutant of Confirmed: whatever has an answer is taken for published.
AnyAnswer(t) == t.publish = keeper.sent /\ t.state # "pending"

Confirmed(t) == t.publish = keeper.sent /\ t.state = "landed"

Confirm ==
  /\ keeper.pc = "polling"
  /\ \E t \in txs :
       /\ Confirmed(t)
       /\ keeper' = [keeper EXCEPT !.pc = "idle", !.turn = now,
            !.last = [price |-> t.price, publish |-> t.publish, ts |-> now]]
  /\ txs' = Backlog
  /\ UNCHANGED <<adapterVars, market, account, activity, configs, faults>>

\* FAILED, or fifteen polls without an answer: lastPublished is not touched.
GiveUp ==
  /\ keeper.pc = "polling"
  /\ \/ \E t \in txs : t.publish = keeper.sent /\ t.state = "failed"
     \/ ~Answered /\ now >= keeper.sent + PollLimit
  /\ keeper' = [keeper EXCEPT !.pc = "idle", !.turn = now]
  /\ txs' = Backlog
  /\ UNCHANGED <<adapterVars, market, account, activity, configs, faults>>

\* sendTransaction or getTransaction throws (caught in publishMarket), or the
\* keeper is started again and has forgotten lastPublished.
Interrupt ==
  /\ faults < MaxFaults
  /\ \/ /\ keeper.pc = "polling"
        /\ keeper' = [keeper EXCEPT !.pc = "idle", !.turn = now]
        /\ UNCHANGED activity
     \/ /\ keeper' = [keeper EXCEPT !.pc = "idle", !.turn = now, !.last = None]
        /\ activity' = [activity EXCEPT !.checked = 0, !.active = now]
  /\ txs' = Backlog
  /\ faults' = faults + 1
  /\ UNCHANGED <<adapterVars, market, account, configs>>
-----------------------------------------------------------------------------
(* The network                                                             *)

Include(t, state) ==
  /\ t.state = "pending"
  /\ t.seq = account + 1
  /\ account' = t.seq
  /\ txs' = (txs \ {t}) \cup {[t EXCEPT !.state = state]}
  /\ UNCHANGED <<market, keeper, activity, configs, faults>>

Land(t) == Include(t, "landed") /\ WritePrice(Keeper, t.price, t.publish)

\* The contract refuses, and the sequence number is used up all the same.
Revert(t) ==
  /\ Include(t, "failed")
  /\ ~MayWrite(Keeper, t.price, t.publish)
  /\ UNCHANGED adapterVars

\* Its sequence number is taken, or its time bound has passed.
Drop(t) ==
  /\ t.state = "pending"
  /\ t.seq <= account \/ now >= t.publish + TxLife
  /\ txs' = txs \ {t}
  /\ UNCHANGED <<adapterVars, market, keeper, account, activity, configs, faults>>

\* The transaction takes longer than it should.
Delay(t) ==
  /\ t.state = "pending" /\ ~t.slow
  /\ faults < MaxFaults
  /\ txs' = (txs \ {t}) \cup {[t EXCEPT !.slow = TRUE]}
  /\ faults' = faults + 1
  /\ UNCHANGED <<adapterVars, market, keeper, account, activity, configs>>
-----------------------------------------------------------------------------
(* The admin, the sources, the clock                                       *)

Configure ==
  /\ configs < MaxConfigs /\ activity.swings = 0
  /\ configs' = configs + 1
  /\ \/ \E source \in {KeeperSource, Quorum}, maxAge \in {0, SingleAge}, active \in BOOLEAN :
          SetFeed(Keeper, source, maxAge, active)
     \/ \E active \in BOOLEAN : SetQuorumFeed(QuorumAge, Sources, 3, Deviation, active)
     \/ \E s \in Sources : SetSourcePublisher(s, PublisherOf[s])
  /\ UNCHANGED <<market, keeper, account, txs, activity, faults>>

\* Every source reports for a moment it chooses; the faulty ones report what
\* they like, the others what the market was then.
Observed(ages, claims) ==
  [s \in Sources |->
     [publisher |-> PublisherOf[s], publish |-> now - ages[s],
      price |-> IF s \in Faulty THEN claims[s] ELSE market[ages[s]]]]

WriteQuorum ==
  /\ \E ages \in [Sources -> 0..Least(now, Window)], claims \in [Faulty -> Reports] :
       WriteQuorumPrice(Observed(ages, claims))
  /\ UNCHANGED <<market, keeper, account, txs, activity, configs, faults>>

\* The last order is filled and the last deposit withdrawn, or the first one
\* comes.  A lull is short when the keeper must still be in its grace after it;
\* what the keeper may not have noticed in between does not end it.
Noticed == CheckGap + TurnGap + Latency
Swing ==
  /\ activity.swings < MaxSwings /\ configs = 0
  /\ activity' = IF activity.needed
       THEN [activity EXCEPT !.needed = FALSE, !.swings = @ + 1,
               !.lull = IF now >= activity.back + Noticed THEN now ELSE @]
       ELSE [activity EXCEPT !.needed = TRUE, !.swings = @ + 1, !.back = now,
               !.since = IF now + CheckGap + Noticed <= activity.lull + Grace THEN @ ELSE now]
  /\ UNCHANGED <<adapterVars, market, keeper, account, txs, configs, faults>>

\* Nothing that is due may be overtaken by the clock.
Clock ==
  /\ now < IF configs + faults = 0 THEN MaxQuiet ELSE MaxTime
  /\ keeper.pc = "idle" => now < keeper.turn + TurnGap
  /\ keeper.pc = "polling" => ~Answered /\ now < keeper.sent + PollLimit
  /\ \A t \in Backlog : /\ t.seq > account /\ now < t.publish + TxLife
                        /\ t.slow \/ now < t.publish + Latency
  /\ now' = now + 1
  /\ \E p \in MarketPrices :
       market' = [age \in 0..Window |-> IF age = 0 THEN p ELSE market[age - 1]]
  /\ UNCHANGED <<configuration, snapshot, keeper, account, txs, activity, configs, faults>>

Next ==
  \/ Publish \/ PassTurn \/ IdleTurn \/ SkipTurn \/ Confirm \/ GiveUp \/ Interrupt
  \/ \E t \in txs : Land(t) \/ Revert(t) \/ Drop(t) \/ Delay(t)
  \/ Configure \/ WriteQuorum \/ Swing \/ Clock

Spec == Init /\ [][Next]_vars
-----------------------------------------------------------------------------
(* Properties                                                              *)

\* What the keeper remembers as published was written: the stored publication
\* is that one or a newer one, whatever timed out, landed late, was dropped or
\* was refused in between ("Only updated on confirmed success").
PublishedIsWritten ==
  keeper.last # None => snapshot.publish >= keeper.last.publish

\* As long as nothing fails and the feed stays the keeper's, a price that is
\* needed is there: a first price is never followed by a moment without one,
\* because the heartbeat, counted from the end of the last publication, comes
\* early enough for the next price to be on the ledger before get_price refuses
\* the old one; a short lull changes nothing; and after a long one the keeper
\* has noticed and published within a check, a turn and a transaction.  What
\* needs a price for less than that does not make two lulls of one.
Resumption == Noticed + 1
FreshWhilePublishing ==
  (/\ faults = 0 /\ configs = 0 /\ snapshot # NoPrice
   /\ activity.needed
   /\ activity.since > 0 => now >= activity.since + Resumption) => Served

\* A quorum price lies between prices the market had since the oldest of its
\* observations, although one of the sources may report anything within the
\* allowed deviation.
QuorumIsFair ==
  [][snapshot' # snapshot /\ txs' = txs =>
       LET since == {market[age] : age \in 0..(now - snapshot'.publish)}
       IN  Min(since) <= snapshot'.price /\ snapshot'.price <= Max(since)]_vars
=============================================================================
