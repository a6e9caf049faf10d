---------------------------- MODULE OracleAdapter ----------------------------
(***************************************************************************)
(* One feed of the perp-oracle-adapter contract.  The admin configures it  *)
(* either for one publisher (set_feed) or for a quorum of sources          *)
(* (set_quorum_feed); each way has its own write call, and both store      *)
(* their result under the same key.  Feeds share nothing, so one is enough.*)
(* Confidence is left out: a report whose confidence is too wide is        *)
(* refused, and whoever may write need not.                                *)
(***************************************************************************)
EXTENDS FixedMath, FiniteSets, FiniteSetsExt

CONSTANTS
  Sources,      \* OracleSource without Quorum
  Quorum,       \* OracleSource::Quorum
  Publishers,
  Admin,        \* the contract's admin
  NoPublisher   \* a source without a publisher

ASSUME SourceAssumption == Quorum \notin Sources

AnySource == Sources \cup {Quorum}

\* The confidence bound of OracleGuard is left out.
FeedType ==
  [source : AnySource, publisher : Publishers \cup {Admin}, maxAge : Nat \ {0},
   active : BOOLEAN, required : SUBSET AnySource, minSources : Nat, deviation : 0..10000]

Snapshot == [price : Nat, source : AnySource, publish : Nat, write : Nat]
\* Nothing written yet: older than any publication, and never valid.
NoPrice == [price |-> 0, source |-> Quorum, publish |-> -1, write |-> -1]

VARIABLES
  now,              \* ledger time
  feed,             \* Config(asset)
  sourcePublisher,  \* SourcePublisher(asset, source)
  snapshot          \* Price(asset)

configuration == <<feed, sourcePublisher>>
adapterVars == <<now, configuration, snapshot>>

\* OracleSnapshot::validate
Valid(s, maxAge) ==
  /\ s.price > 0
  /\ s.publish <= now /\ s.write <= now
  /\ now - s.publish <= maxAge /\ now - s.write <= maxAge

\* validate_monotonic_publish_time
Newer(publish) == publish > snapshot.publish

Stamped(price, source, publish) ==
  [price |-> price, source |-> source, publish |-> publish, write |-> now]

SingleFeed(publisher, source, maxAge, active) ==
  [source |-> source, publisher |-> publisher, maxAge |-> maxAge, active |-> active,
   required |-> {source}, minSources |-> 1, deviation |-> 0]

\* Mutant of SetFeed: the guard is not validated.
SetFeedUnguarded(publisher, source, maxAge, active) ==
  /\ feed' = SingleFeed(publisher, source, maxAge, active)
  /\ sourcePublisher' = [sourcePublisher EXCEPT ![source] = publisher]
  /\ UNCHANGED <<now, snapshot>>

\* The source may be Quorum: set_feed does not look.
SetFeed(publisher, source, maxAge, active) ==
  /\ maxAge > 0
  /\ feed' = SingleFeed(publisher, source, maxAge, active)
  /\ sourcePublisher' = [sourcePublisher EXCEPT ![source] = publisher]
  /\ UNCHANGED <<now, snapshot>>

SetQuorumFeed(maxAge, required, minSources, deviation, active) ==
  /\ maxAge > 0
  /\ minSources >= 3 /\ minSources % 2 = 1 /\ minSources <= Cardinality(required)
  /\ deviation <= 10000
  /\ required \subseteq Sources
  /\ feed' = [source |-> Quorum, publisher |-> Admin, maxAge |-> maxAge, active |-> active,
              required |-> required, minSources |-> minSources, deviation |-> deviation]
  /\ UNCHANGED <<now, sourcePublisher, snapshot>>

SetSourcePublisher(source, publisher) ==
  /\ source # Quorum
  /\ sourcePublisher' = [sourcePublisher EXCEPT ![source] = publisher]
  /\ UNCHANGED <<now, feed, snapshot>>

MayWrite(publisher, price, publish) ==
  /\ feed.active
  /\ feed.publisher = publisher
  /\ Valid(Stamped(price, feed.source, publish), feed.maxAge)
  /\ Newer(publish)

WritePrice(publisher, price, publish) ==
  /\ MayWrite(publisher, price, publish)
  /\ snapshot' = Stamped(price, feed.source, publish)
  /\ UNCHANGED <<now, configuration>>

\* Mutant of Median: one place too far.
UpperMedian(obs) == Max({obs[s].price : s \in DOMAIN obs})

\* sort_prices, then the element at half the length, rounded down.
Median(obs) ==
  LET n == Cardinality(DOMAIN obs)
  IN  CHOOSE p \in {obs[s].price : s \in DOMAIN obs} :
        /\ Cardinality({s \in DOMAIN obs : obs[s].price < p}) <= n \div 2
        /\ Cardinality({s \in DOMAIN obs : obs[s].price <= p}) > n \div 2

\* Observations of distinct sources: a function from sources.  The quorum's
\* publication is as old as the oldest of them.
WriteQuorumPrice(obs) ==
  LET median == Median(obs)
  IN  /\ feed.active /\ feed.source = Quorum
      /\ Cardinality(DOMAIN obs) >= feed.minSources
      /\ DOMAIN obs \subseteq feed.required
      /\ \A s \in DOMAIN obs :
           /\ obs[s].publisher = sourcePublisher[s]
           /\ Valid(Stamped(obs[s].price, s, obs[s].publish), feed.maxAge)
           /\ Abs(obs[s].price - median) <= ApplyBps(median, feed.deviation)
      /\ \E oldest \in DOMAIN obs :
           /\ \A s \in DOMAIN obs : obs[oldest].publish <= obs[s].publish
           /\ Newer(obs[oldest].publish)
           /\ snapshot' = Stamped(median, Quorum, obs[oldest].publish)
      /\ UNCHANGED <<now, configuration>>

\* get_price returns the stored snapshot.  A caller with a guard of its own
\* (engine and vault for a market's price) replaces maxAge.
Served ==
  /\ feed.active
  /\ snapshot.source = feed.source
  /\ Valid(snapshot, feed.maxAge)
=============================================================================
