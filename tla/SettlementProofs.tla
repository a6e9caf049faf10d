-------------------------- MODULE SettlementProofs --------------------------
(***************************************************************************)
(* The settlement pipeline for every set of orders, matches and instances  *)
(* of the services, every number of transactions, and any number of        *)
(* crashes, failed statements and lost answers: what the programs' types   *)
(* are, what a job's status says of the ledger, and what the book counts   *)
(* beyond what the ledger has filled.                                      *)
(***************************************************************************)
EXTENDS Settlement, SumTheorems

USE SettlementAssumption

(***************************************************************************)
(* Types.  TypeOK is not inductive: a program that works on a match must   *)
(* be known to have one, and a matcher must not have seen more of an order *)
(* than there is.                                                          *)
(***************************************************************************)
BusyMatcher == {"maker", "taker", "execute", "poll", "undoRow", "undoMaker", "undoTaker"}

MatcherState ==
  [pc : {"idle", "matching"} \cup BusyMatcher, seen : [Orders -> Nat],
   match : Matches \cup {NoMatch}, tx : {NoTx} \cup TxIds]

BusyReconciler ==
  {"check", "claim", "send", "store", "await", "retag", "retagResent", "expireRow", "expireMaker",
   "expireTaker", "expireJob", "clearRow", "clearMaker", "clearTaker", "clearJob"}

ReconcilerState ==
  [pc : {"idle"} \cup BusyReconciler, match : Matches \cup {NoMatch}, row : JobRow]

BookTyped == /\ book \in [Orders -> [filled : Nat, cancelled : BOOLEAN]]
             /\ \A o \in Orders : book[o].filled <= Size[o]
FillsTyped == fills \subseteq Rows
JobsTyped == jobs \in [Matches -> JobRow]
ChainTyped == chain \in [filled : [Orders -> Nat], cancelled : SUBSET Orders]
TxsTyped == txs \in Seq(Transaction) /\ Len(txs) <= MaxTxs
MatcherTyped ==
  /\ matcher \in [Matchers -> MatcherState]
  /\ \A m \in Matchers :
       /\ matcher[m].pc \in BusyMatcher => matcher[m].match \in Matches
       /\ \A o \in Orders : matcher[m].seen[o] <= Size[o]
RouteTyped == route \in [Matches -> [pc : {"none", "claim", "send", "store"},
                                     auth : 0..MaxQueued, tx : {NoTx} \cup TxIds]]
ReconcilerTyped ==
  /\ reconciler \in [Reconcilers -> ReconcilerState]
  /\ \A r \in Reconcilers : reconciler[r].pc # "idle" => reconciler[r].match \in Matches
FaultsTyped == faults \in [stops : Nat, lost : Nat, overlap : BOOLEAN]

TypeInv ==
  /\ BookTyped /\ FillsTyped /\ JobsTyped
  /\ ChainTyped /\ TxsTyped
  /\ MatcherTyped /\ RouteTyped /\ ReconcilerTyped /\ FaultsTyped

LEMMA MatchType ==
  ASSUME NEW match \in Matches
  PROVE  /\ match.maker \in Orders /\ match.taker \in Orders
         /\ match.size \in Nat \ {0}
         /\ match.maker # match.taker
         /\ match.size <= Size[match.maker] /\ match.size <= Size[match.taker]
<1>1. PICK pair \in Crossing : \E n \in 1..Lesser(Size[pair[1]], Size[pair[2]]) :
        match = [maker |-> pair[1], taker |-> pair[2], size |-> n]
  BY DEF Matches
<1>2. pair[1] \in Orders /\ pair[2] \in Orders /\ pair[1] # pair[2]
  OBVIOUS
<1>. QED
  BY <1>1, <1>2 DEF Lesser

LEMMA PairMatches ==
  ASSUME NEW pair \in Crossing, NEW n \in Nat \ {0},
         n <= Size[pair[1]], n <= Size[pair[2]]
  PROVE  [maker |-> pair[1], taker |-> pair[2], size |-> n] \in Matches
<1>1. pair[1] \in Orders /\ pair[2] \in Orders
  OBVIOUS
<1>2. n \in 1..Lesser(Size[pair[1]], Size[pair[2]])
  BY <1>1, SMTT(30) DEF Lesser
<1>. QED
  BY <1>2 DEF Matches

LEMMA SeenLess ==
  ASSUME MatcherTyped, NEW m \in Matchers, NEW pair \in Crossing,
         LET seen == matcher[m].seen
         IN Lesser(seen[pair[1]], seen[pair[2]]) > 0
  PROVE  LET seen == matcher[m].seen
             size == Lesser(seen[pair[1]], seen[pair[2]])
             left == [seen EXCEPT ![pair[1]] = @ - size, ![pair[2]] = @ - size]
         IN /\ [maker |-> pair[1], taker |-> pair[2], size |-> size] \in Matches
            /\ left \in [Orders -> Nat]
            /\ \A o \in Orders : left[o] <= Size[o]
<1> DEFINE seen == matcher[m].seen
           size == Lesser(seen[pair[1]], seen[pair[2]])
           left == [seen EXCEPT ![pair[1]] = @ - size, ![pair[2]] = @ - size]
<1>1. pair[1] \in Orders /\ pair[2] \in Orders /\ pair[1] # pair[2]
  OBVIOUS
<1>2. seen \in [Orders -> Nat] /\ \A o \in Orders : seen[o] <= Size[o]
  BY DEF MatcherTyped, MatcherState
<1>. HIDE DEF seen
<1>3. /\ size \in Nat \ {0}
      /\ size <= seen[pair[1]] /\ size <= seen[pair[2]]
      /\ size <= Size[pair[1]] /\ size <= Size[pair[2]]
  BY <1>1, <1>2 DEF Lesser, seen
<1>. HIDE DEF size
<1>4. [maker |-> pair[1], taker |-> pair[2], size |-> size] \in Matches
  BY <1>3, PairMatches
<1>5. left = [o \in Orders |-> IF o \in {pair[1], pair[2]} THEN seen[o] - size ELSE seen[o]]
  BY <1>1, <1>2
<1>6. left \in [Orders -> Nat] /\ \A o \in Orders : left[o] <= Size[o]
  BY <1>1, <1>2, <1>3, <1>5
<1>. QED
  BY <1>4, <1>6 DEF size, seen

LEMMA MatcherTurn ==
  ASSUME MatcherTyped, NEW m \in Matchers, NEW s \in MatcherState,
         s.pc \in BusyMatcher => s.match \in Matches,
         \A o \in Orders : s.seen[o] <= Size[o],
         matcher' = [matcher EXCEPT ![m] = s]
  PROVE  MatcherTyped'
  BY DEF MatcherTyped
LEMMA JobTurn ==
  ASSUME JobsTyped, NEW match \in Matches, NEW row \in JobRow,
         jobs' = [jobs EXCEPT ![match] = row]
  PROVE  JobsTyped'
  BY DEF JobsTyped
LEMMA BookTurn ==
  ASSUME BookTyped, NEW o \in Orders, NEW n \in Nat, n <= Size[o],
         book' = [book EXCEPT ![o].filled = n]
  PROVE  BookTyped'
  BY DEF BookTyped

LEMMA RowQueued ==
  ASSUME NEW old \in JobRow, old.auth < MaxQueued, NEW status \in JobStates
  PROVE  [old EXCEPT !.status = status, !.auth = @ + 1, !.entries = {}] \in JobRow
<1> DEFINE named == [old EXCEPT !.status = status]
           asked == [named EXCEPT !.auth = @ + 1]
<1>1. named \in JobRow /\ named.auth < MaxQueued
  BY DEF JobRow
<1>. HIDE DEF named
<1>2. named.auth + 1 \in 0..MaxQueued
  BY <1>1 DEF JobRow
<1>3. asked \in JobRow
  BY <1>1, <1>2 DEF JobRow
<1>4. [asked EXCEPT !.entries = {}] \in JobRow
  <2> HIDE DEF asked
  <2>. QED
    BY <1>3 DEF JobRow
<1>. QED
  BY <1>4 DEF named

LEMMA StatusSet ==
  ASSUME JobsTyped, NEW match \in Matches, NEW status \in JobStates, SetStatus(match, status)
  PROVE  JobsTyped'
  BY DEF SetStatus, JobsTyped, JobRow

LEMMA HashSet ==
  ASSUME JobsTyped, NEW match \in Matches, NEW hash \in {NoTx} \cup TxIds,
         jobs' = [jobs EXCEPT ![match].hash = hash]
  PROVE  JobsTyped'
  BY DEF JobsTyped, JobRow

LEMMA SendTyped ==
  ASSUME TxsTyped, NEW match \in Matches, NEW auth \in 0..MaxQueued, Send(match, auth)
  PROVE  /\ TxsTyped'
         /\ LastTx \in TxIds
         /\ LastTx = Len(txs) + 1 /\ Len(txs') = Len(txs) + 1
         /\ txs'[LastTx] = [match |-> match, auth |-> auth, state |-> "pending"]
         /\ \A t \in 1..Len(txs) : txs'[t] = txs[t]
<1> DEFINE sent == [match |-> match, auth |-> auth, state |-> "pending"]
<1>1. sent \in Transaction
  BY DEF Transaction
<1>2. txs' = Append(txs, sent) /\ Len(txs) < MaxTxs /\ txs \in Seq(Transaction)
  BY DEF Send, TxsTyped
<1>. HIDE DEF sent
<1>3. /\ txs' \in Seq(Transaction) /\ Len(txs) \in Nat /\ Len(txs') = Len(txs) + 1
      /\ txs'[Len(txs) + 1] = sent
      /\ \A t \in 1..Len(txs) : txs'[t] = txs[t]
  BY <1>1, <1>2
<1>. QED
  BY <1>2, <1>3 DEF TxsTyped, LastTx, TxIds, sent

LEMMA StateSet ==
  ASSUME TxsTyped, NEW t \in 1..Len(txs), NEW state \in {"landed", "failed", "expired"},
         txs' = [txs EXCEPT ![t].state = state]
  PROVE  /\ TxsTyped' /\ Len(txs') = Len(txs)
         /\ txs'[t] = [txs[t] EXCEPT !.state = state]
         /\ \A u \in 1..Len(txs) : u # t => txs'[u] = txs[u]
<1>1. txs \in Seq(Transaction) /\ txs[t] \in Transaction
  BY DEF TxsTyped
<1> DEFINE settled == [txs[t] EXCEPT !.state = state]
<1>2. settled \in Transaction
  BY <1>1 DEF Transaction
<1>3. txs' = [txs EXCEPT ![t] = settled]
  OBVIOUS
<1>. HIDE DEF settled
<1>4. txs' \in Seq(Transaction) /\ Len(txs') = Len(txs)
  BY <1>1, <1>2, <1>3, SMTT(30)
<1>5. txs'[t] = settled /\ \A u \in 1..Len(txs) : u # t => txs'[u] = txs[u]
  BY <1>1, <1>3
<1>. QED
  BY <1>4, <1>5 DEF TxsTyped, settled

LEMMA InitTyped == Init => TypeInv
<1> SUFFICES ASSUME Init
             PROVE  TypeInv
  OBVIOUS
<1>1. BookTyped /\ FillsTyped /\ ChainTyped /\ TxsTyped /\ FaultsTyped
  BY DEF Init, BookTyped, FillsTyped, ChainTyped, TxsTyped, FaultsTyped
<1>2. NoJob \in JobRow
  BY DEF NoJob, JobRow, JobStates
<1>3. JobsTyped /\ RouteTyped
  BY <1>2 DEF Init, JobsTyped, RouteTyped, NoRequest
<1>4. MatcherTyped
  BY DEF Init, MatcherTyped, MatcherState, IdleMatcher, NothingSeen, BusyMatcher
<1>5. ReconcilerTyped
  BY <1>2 DEF Init, ReconcilerTyped, ReconcilerState, IdleReconciler
<1>. QED
  BY <1>1, <1>3, <1>4, <1>5 DEF TypeInv

LEMMA TypesSuffice == TypeInv => TypeOK
  BY DEF TypeInv, TypeOK, BookTyped, FillsTyped, JobsTyped, ChainTyped, TxsTyped, MatcherTyped,
         RouteTyped, ReconcilerTyped, FaultsTyped, MatcherState, ReconcilerState, BusyMatcher, BusyReconciler

LEMMA MatcherKeepsTypes ==
  ASSUME TypeInv, NEW m \in Matchers,
         MatcherStep(m) \/ LoseAnswer(m) \/ FailStatement(m) \/ CrashMatcher(m)
  PROVE  TypeInv'
<1>0. BookTyped /\ FillsTyped /\ JobsTyped /\ ChainTyped /\ TxsTyped /\ MatcherTyped /\ RouteTyped /\ ReconcilerTyped /\ FaultsTyped
  BY DEF TypeInv
<1>1. CASE LoadBook(m)
  <2>1. BookTyped' /\ FillsTyped' /\ JobsTyped' /\ ChainTyped' /\ TxsTyped' /\ RouteTyped' /\ ReconcilerTyped'
    BY <1>0, <1>1 DEF LoadBook, database, network, BookTyped, FillsTyped, JobsTyped, ChainTyped, TxsTyped, RouteTyped, ReconcilerTyped
  <2>2. MatcherTyped'
    <3> DEFINE left == [o \in Orders |-> IF Live(o) THEN Size[o] - book[o].filled ELSE 0]
    <3>1. \A o \in Orders : left[o] \in Nat /\ left[o] <= Size[o]
      BY <1>0 DEF BookTyped, Live
    <3>2. left \in [Orders -> Nat]
      BY <3>1
    <3>3. matcher' = [matcher EXCEPT ![m].pc = "matching", ![m].seen = left]
      BY <1>1 DEF LoadBook
    <3>. HIDE DEF left
    <3>. QED
      BY <1>0, <3>1, <3>2, <3>3, ZenonT(60) DEF MatcherTyped, MatcherState, BusyMatcher
  <2>3. FaultsTyped'
    BY <1>0, <1>1, MatchType DEF LoadBook, FaultsTyped
  <2>. QED
    BY <2>1, <2>2, <2>3 DEF TypeInv
<1>2. CASE EndTick(m)
  <2>1. BookTyped' /\ FillsTyped' /\ JobsTyped' /\ ChainTyped' /\ TxsTyped' /\ RouteTyped' /\ ReconcilerTyped' /\ FaultsTyped'
    BY <1>0, <1>2 DEF EndTick, database, network, BookTyped, FillsTyped, JobsTyped, ChainTyped, TxsTyped, RouteTyped, ReconcilerTyped, FaultsTyped
  <2>2. MatcherTyped'
    BY <1>0, <1>2, MatchType DEF EndTick, MatcherTyped, MatcherState, BusyMatcher, NoTx, TxIds, IdleMatcher, NothingSeen
  <2>. QED
    BY <2>1, <2>2 DEF TypeInv
<1>3. CASE InsertFill(m)
  <2>1. BookTyped' /\ JobsTyped' /\ ChainTyped' /\ TxsTyped' /\ RouteTyped' /\ ReconcilerTyped' /\ FaultsTyped'
    BY <1>0, <1>3, SMTT(30) DEF InsertFill, database, network, BookTyped, JobsTyped, ChainTyped, TxsTyped, RouteTyped, ReconcilerTyped, FaultsTyped
  <2>2. FillsTyped'
    BY <1>0, <1>3, MatchType DEF InsertFill, FillsTyped, Rows, PseudoRow, MatcherTyped, MatcherState, Lesser
  <2>3. MatcherTyped'
    <3>1. PICK pair \in Crossing : InsertFill(m)!(pair)
      BY <1>3, ZenonT(60) DEF InsertFill
    <3> DEFINE seen == matcher[m].seen
               size == Lesser(seen[pair[1]], seen[pair[2]])
               left == [seen EXCEPT ![pair[1]] = @ - size, ![pair[2]] = @ - size]
               match == [maker |-> pair[1], taker |-> pair[2], size |-> size]
    <3>2. match \in Matches /\ left \in [Orders -> Nat] /\ \A o \in Orders : left[o] <= Size[o]
      BY <1>0, <3>1, SeenLess
    <3>3. \E s \in {[matcher[m] EXCEPT !.seen = left],
                   [matcher[m] EXCEPT !.seen = left, !.pc = "maker", !.match = match]} :
             matcher' = [matcher EXCEPT ![m] = s]
      BY <1>0, <3>1, ZenonT(60) DEF MatcherTyped, MatcherState
    <3>. HIDE DEF seen, size, left, match
    <3>4. matcher[m] \in MatcherState
      BY <1>0 DEF MatcherTyped
    <3>5. [matcher[m] EXCEPT !.seen = left] \in MatcherState
      BY <3>2, <3>4 DEF MatcherState
    <3>6. [matcher[m] EXCEPT !.seen = left, !.pc = "maker", !.match = match] \in MatcherState
      BY <3>2, <3>4 DEF MatcherState, BusyMatcher
    <3>7. PICK s \in MatcherState :
            /\ matcher' = [matcher EXCEPT ![m] = s]
            /\ s.seen = left
            /\ s.pc \in BusyMatcher => s.match \in Matches
      BY <1>0, <3>2, <3>3, <3>4, <3>5, <3>6 DEF MatcherTyped, MatcherState
    <3>. QED
      BY <1>0, <3>2, <3>7, MatcherTurn, ZenonT(60)
  <2>. QED
    BY <2>1, <2>2, <2>3 DEF TypeInv
<1>4. CASE SkipMatch(m)
  <2>1. FillsTyped' /\ JobsTyped' /\ ChainTyped' /\ TxsTyped' /\ RouteTyped' /\ ReconcilerTyped' /\ FaultsTyped'
    BY <1>0, <1>4 DEF SkipMatch, database, network, FillsTyped, JobsTyped, ChainTyped, TxsTyped, RouteTyped, ReconcilerTyped, FaultsTyped
  <2>2. BookTyped'
    <3>1. PICK S \in SUBSET Orders :
             book' = [o \in Orders |-> IF o \in S THEN [book[o] EXCEPT !.cancelled = TRUE] ELSE book[o]]
      <4>1. PICK pair \in Crossing : SkipMatch(m)!(pair)
        BY <1>4 DEF SkipMatch
      <4>. WITNESS {pair[1], pair[2]} \cap Poisoned \in SUBSET Orders
      <4>. QED
        BY <4>1
    <3>2. \A o \in Orders :
             /\ [book[o] EXCEPT !.cancelled = TRUE] \in [filled : Nat, cancelled : BOOLEAN]
             /\ [book[o] EXCEPT !.cancelled = TRUE].filled = book[o].filled
      BY <1>0 DEF BookTyped
    <3>. QED
      BY <1>0, <3>1, <3>2 DEF BookTyped
  <2>3. MatcherTyped'
    <3>1. PICK pair \in Crossing : SkipMatch(m)!(pair)
      BY <1>4 DEF SkipMatch
    <3> DEFINE seen == matcher[m].seen
               size == Lesser(seen[pair[1]], seen[pair[2]])
               left == [seen EXCEPT ![pair[1]] = @ - size, ![pair[2]] = @ - size]
               match == [maker |-> pair[1], taker |-> pair[2], size |-> size]
    <3>2. match \in Matches /\ left \in [Orders -> Nat] /\ \A o \in Orders : left[o] <= Size[o]
      BY <1>0, <3>1, SeenLess
    <3>3. matcher' = [matcher EXCEPT ![m] = [matcher[m] EXCEPT !.seen = left]]
      BY <1>0, <3>1 DEF MatcherTyped, MatcherState
    <3>. HIDE DEF seen, size, left
    <3>4. matcher[m] \in MatcherState
      BY <1>0 DEF MatcherTyped
    <3>5. [matcher[m] EXCEPT !.seen = left] \in MatcherState
      BY <3>2, <3>4 DEF MatcherState
    <3>6. PICK s \in MatcherState :
            /\ matcher' = [matcher EXCEPT ![m] = s]
            /\ s.seen = left
            /\ s.pc \in BusyMatcher => s.match \in Matches
      BY <1>0, <3>3, <3>4, <3>5 DEF MatcherTyped, MatcherState
    <3>. QED
      BY <1>0, <3>2, <3>6, MatcherTurn
  <2>. QED
    BY <2>1, <2>2, <2>3 DEF TypeInv
<1>5. CASE CountMaker(m)
  <2>1. FillsTyped' /\ JobsTyped' /\ ChainTyped' /\ TxsTyped' /\ RouteTyped' /\ ReconcilerTyped' /\ FaultsTyped'
    BY <1>0, <1>5 DEF CountMaker, Count, database, network, FillsTyped, JobsTyped, ChainTyped, TxsTyped, RouteTyped, ReconcilerTyped, FaultsTyped
  <2>2. BookTyped'
    <3> DEFINE o == matcher[m].match.maker
               n == matcher[m].match.size
    <3>1. o \in Orders /\ n \in Nat
      BY <1>0, <1>5, MatchType DEF CountMaker, MatcherTyped, BusyMatcher
    <3>2. \/ book' = book
          \/ book[o].filled + n <= Size[o] /\ book' = [book EXCEPT ![o].filled = book[o].filled + n]
      BY <1>5 DEF CountMaker, Count, Fits, Counted
    <3>. HIDE DEF o, n
    <3>. QED
      BY <1>0, <3>1, <3>2, BookTurn DEF BookTyped
  <2>3. MatcherTyped'
    <3>1. \E pc \in {"taker", "matching"} : matcher' = [matcher EXCEPT ![m].pc = pc]
      BY <1>5 DEF CountMaker, Count
    <3>. QED
      BY <1>0, <3>1, <1>5 DEF CountMaker, MatcherTyped, MatcherState, BusyMatcher
  <2>. QED
    BY <2>1, <2>2, <2>3 DEF TypeInv
<1>6. CASE CountTaker(m)
  <2>1. FillsTyped' /\ JobsTyped' /\ ChainTyped' /\ TxsTyped' /\ RouteTyped' /\ ReconcilerTyped' /\ FaultsTyped'
    BY <1>0, <1>6 DEF CountTaker, Count, database, network, FillsTyped, JobsTyped, ChainTyped, TxsTyped, RouteTyped, ReconcilerTyped, FaultsTyped
  <2>2. BookTyped'
    <3> DEFINE o == matcher[m].match.taker
               n == matcher[m].match.size
    <3>1. o \in Orders /\ n \in Nat
      BY <1>0, <1>6, MatchType DEF CountTaker, MatcherTyped, BusyMatcher
    <3>2. \/ book' = book
          \/ book[o].filled + n <= Size[o] /\ book' = [book EXCEPT ![o].filled = book[o].filled + n]
      BY <1>6 DEF CountTaker, Count, Fits, Counted
    <3>. HIDE DEF o, n
    <3>. QED
      BY <1>0, <3>1, <3>2, BookTurn DEF BookTyped
  <2>3. MatcherTyped'
    <3>1. \E pc \in {"execute", "matching"} : matcher' = [matcher EXCEPT ![m].pc = pc]
      BY <1>6 DEF CountTaker, Count
    <3>. QED
      BY <1>0, <3>1, <1>6 DEF CountTaker, MatcherTyped, MatcherState, BusyMatcher
  <2>. QED
    BY <2>1, <2>2, <2>3 DEF TypeInv
<1>7. CASE RefuseSettlement(m)
  <2>1. BookTyped' /\ FillsTyped' /\ JobsTyped' /\ ChainTyped' /\ TxsTyped' /\ RouteTyped' /\ ReconcilerTyped' /\ FaultsTyped'
    BY <1>0, <1>7 DEF RefuseSettlement, database, network, BookTyped, FillsTyped, JobsTyped, ChainTyped, TxsTyped, RouteTyped, ReconcilerTyped, FaultsTyped
  <2>2. MatcherTyped'
    BY <1>0, <1>7, MatchType DEF RefuseSettlement, MatcherTyped, MatcherState, BusyMatcher, NoTx, TxIds
  <2>. QED
    BY <2>1, <2>2 DEF TypeInv
<1>8. CASE SubmitSigned(m)
  <2>1. BookTyped' /\ FillsTyped' /\ JobsTyped' /\ ChainTyped' /\ RouteTyped' /\ ReconcilerTyped' /\ FaultsTyped'
    BY <1>0, <1>8 DEF SubmitSigned, Send, LastTx, database, network, BookTyped, FillsTyped, JobsTyped, ChainTyped, RouteTyped, ReconcilerTyped, FaultsTyped
  <2>2. TxsTyped'
    BY <1>0, <1>8, MatchType DEF SubmitSigned, Send, LastTx, TxsTyped, Transaction, MatcherTyped, BusyMatcher
  <2>3. MatcherTyped'
    <3>1. txs' = Append(txs, [match |-> matcher[m].match, auth |-> 0, state |-> "pending"])
          /\ Len(txs) < MaxTxs
      BY <1>8 DEF SubmitSigned, Send
    <3>2. Len(txs') = Len(txs) + 1 /\ Len(txs) \in Nat
      BY <1>0, <3>1 DEF TxsTyped
    <3>3. Len(txs') \in TxIds
      BY <3>1, <3>2 DEF TxIds
    <3>4. matcher' = [matcher EXCEPT ![m].pc = "poll", ![m].tx = Len(txs')]
      BY <1>8 DEF SubmitSigned, LastTx
    <3> DEFINE s == [matcher[m] EXCEPT !.pc = "poll", !.tx = Len(txs')]
    <3>5. matcher[m] \in MatcherState /\ matcher' = [matcher EXCEPT ![m] = s]
      BY <1>0, <3>4 DEF MatcherTyped
    <3>6. /\ s \in MatcherState
          /\ s.match \in Matches /\ s.seen = matcher[m].seen
      BY <1>0, <1>8, <3>3, <3>5 DEF SubmitSigned, MatcherTyped, MatcherState, BusyMatcher
    <3>7. \A o \in Orders : s.seen[o] <= Size[o]
      BY <1>0, <3>6 DEF MatcherTyped
    <3>. HIDE DEF s
    <3>. QED
      BY <1>0, <3>5, <3>6, <3>7, MatcherTurn
  <2>. QED
    BY <2>1, <2>2, <2>3 DEF TypeInv
<1>9. CASE RecordSettled(m)
  <2>1. BookTyped' /\ FillsTyped' /\ ChainTyped' /\ TxsTyped' /\ RouteTyped' /\ ReconcilerTyped' /\ FaultsTyped'
    BY <1>0, <1>9 DEF RecordSettled, database, network, BookTyped, FillsTyped, ChainTyped, TxsTyped, RouteTyped, ReconcilerTyped, FaultsTyped
  <2>2. JobsTyped'
    <3>1. matcher[m].match \in Matches /\ matcher[m].tx \in {NoTx} \cup TxIds
      BY <1>0, <1>9 DEF RecordSettled, MatcherTyped, MatcherState, BusyMatcher
    <3>. QED
      BY <1>0, <1>9, <3>1 DEF RecordSettled, JobsTyped, JobRow, JobStates
  <2>3. MatcherTyped'
    BY <1>0, <1>9, MatchType, ZenonT(60) DEF RecordSettled, MatcherTyped, MatcherState, BusyMatcher, NoTx, TxIds
  <2>. QED
    BY <2>1, <2>2, <2>3 DEF TypeInv
<1>10. CASE SettlementFailed(m)
  <2>1. BookTyped' /\ FillsTyped' /\ JobsTyped' /\ ChainTyped' /\ TxsTyped' /\ RouteTyped' /\ ReconcilerTyped' /\ FaultsTyped'
    BY <1>0, <1>10 DEF SettlementFailed, database, network, BookTyped, FillsTyped, JobsTyped, ChainTyped, TxsTyped, RouteTyped, ReconcilerTyped, FaultsTyped
  <2>2. MatcherTyped'
    BY <1>0, <1>10, MatchType, ZenonT(60) DEF SettlementFailed, MatcherTyped, MatcherState, BusyMatcher, NoTx, TxIds
  <2>. QED
    BY <2>1, <2>2 DEF TypeInv
<1>11. CASE LoseAnswer(m)
  <2>1. BookTyped' /\ FillsTyped' /\ JobsTyped' /\ ChainTyped' /\ TxsTyped' /\ RouteTyped' /\ ReconcilerTyped'
    BY <1>0, <1>11 DEF LoseAnswer, database, network, BookTyped, FillsTyped, JobsTyped, ChainTyped, TxsTyped, RouteTyped, ReconcilerTyped
  <2>2. MatcherTyped'
    BY <1>0, <1>11, MatchType, ZenonT(60) DEF LoseAnswer, MatcherTyped, MatcherState, BusyMatcher, NoTx, TxIds
  <2>3. FaultsTyped'
    BY <1>0, <1>11, MatchType DEF LoseAnswer, FaultsTyped
  <2>. QED
    BY <2>1, <2>2, <2>3 DEF TypeInv
<1>12. CASE QueueForAuth(m)
  <2>1. BookTyped' /\ FillsTyped' /\ ChainTyped' /\ TxsTyped' /\ RouteTyped' /\ ReconcilerTyped' /\ FaultsTyped'
    BY <1>0, <1>12 DEF QueueForAuth, database, network, BookTyped, FillsTyped, ChainTyped, TxsTyped, RouteTyped, ReconcilerTyped, FaultsTyped
  <2>2. JobsTyped'
    <3> DEFINE match == matcher[m].match
               old == jobs[match]
               row == [old EXCEPT !.status = IF @ = "none" THEN "QUEUED" ELSE @,
                                  !.auth = @ + 1, !.entries = {}]
    <3>1. match \in Matches /\ old \in JobRow
      BY <1>0, <1>12 DEF QueueForAuth, MatcherTyped, BusyMatcher, JobsTyped
    <3>2. old.auth < MaxQueued
      BY <1>12 DEF QueueForAuth
    <3>3. row \in JobRow
      <4>1. (IF old.status = "none" THEN "QUEUED" ELSE old.status) \in JobStates
        BY <3>1 DEF JobRow, JobStates
      <4>. QED
        BY <3>1, <3>2, <4>1, RowQueued
    <3>4. jobs' = [jobs EXCEPT ![match] = row]
      BY <1>0, <3>1, <1>12 DEF QueueForAuth, JobsTyped
    <3>. HIDE DEF row, match
    <3>. QED
      BY <1>0, <3>1, <3>3, <3>4, JobTurn
  <2>3. MatcherTyped'
    BY <1>0, <1>12, MatchType DEF QueueForAuth, MatcherTyped, MatcherState, BusyMatcher, NoTx, TxIds
  <2>. QED
    BY <2>1, <2>2, <2>3 DEF TypeInv
<1>13. CASE UndoRow(m)
  <2>1. BookTyped' /\ JobsTyped' /\ ChainTyped' /\ TxsTyped' /\ RouteTyped' /\ ReconcilerTyped' /\ FaultsTyped'
    BY <1>0, <1>13 DEF UndoRow, database, network, BookTyped, JobsTyped, ChainTyped, TxsTyped, RouteTyped, ReconcilerTyped, FaultsTyped
  <2>2. FillsTyped'
    BY <1>0, <1>13, MatchType DEF UndoRow, FillsTyped, Rows, PseudoRow
  <2>3. MatcherTyped'
    BY <1>0, <1>13, MatchType DEF UndoRow, MatcherTyped, MatcherState, BusyMatcher, NoTx, TxIds
  <2>. QED
    BY <2>1, <2>2, <2>3 DEF TypeInv
<1>14. CASE UndoMaker(m)
  <2>1. FillsTyped' /\ JobsTyped' /\ ChainTyped' /\ TxsTyped' /\ RouteTyped' /\ ReconcilerTyped' /\ FaultsTyped'
    BY <1>0, <1>14 DEF UndoMaker, UndoCount, database, network, FillsTyped, JobsTyped, ChainTyped, TxsTyped, RouteTyped, ReconcilerTyped, FaultsTyped
  <2>2. BookTyped'
    BY <1>0, <1>14, MatchType, SMTT(30) DEF UndoMaker, UndoCount, BookTyped, Counted, Uncounted, Greater, Fits, MatcherTyped, BusyMatcher
  <2>3. MatcherTyped'
    BY <1>0, <1>14, MatchType DEF UndoMaker, UndoCount, MatcherTyped, MatcherState, BusyMatcher, NoTx, TxIds
  <2>. QED
    BY <2>1, <2>2, <2>3 DEF TypeInv
<1>15. CASE UndoTaker(m)
  <2>1. FillsTyped' /\ JobsTyped' /\ ChainTyped' /\ TxsTyped' /\ RouteTyped' /\ ReconcilerTyped' /\ FaultsTyped'
    BY <1>0, <1>15 DEF UndoTaker, UndoCount, database, network, FillsTyped, JobsTyped, ChainTyped, TxsTyped, RouteTyped, ReconcilerTyped, FaultsTyped
  <2>2. BookTyped'
    BY <1>0, <1>15, MatchType DEF UndoTaker, UndoCount, BookTyped, Counted, Uncounted, Greater, Fits, MatcherTyped, BusyMatcher
  <2>3. MatcherTyped'
    BY <1>0, <1>15, MatchType DEF UndoTaker, UndoCount, MatcherTyped, MatcherState, BusyMatcher, NoTx, TxIds
  <2>. QED
    BY <2>1, <2>2, <2>3 DEF TypeInv
<1>16. CASE FailStatement(m)
  <2>1. BookTyped' /\ FillsTyped' /\ JobsTyped' /\ ChainTyped' /\ TxsTyped' /\ RouteTyped' /\ ReconcilerTyped'
    BY <1>0, <1>16 DEF FailStatement, Stop, database, network, BookTyped, FillsTyped, JobsTyped, ChainTyped, TxsTyped, RouteTyped, ReconcilerTyped
  <2>2. MatcherTyped'
    BY <1>0, <1>16, MatchType, ZenonT(60) DEF FailStatement, Stop, MatcherTyped, MatcherState, BusyMatcher, NoTx, TxIds
  <2>3. FaultsTyped'
    BY <1>0, <1>16, MatchType DEF FailStatement, Stop, FaultsTyped
  <2>. QED
    BY <2>1, <2>2, <2>3 DEF TypeInv
<1>17. CASE CrashMatcher(m)
  <2>1. BookTyped' /\ FillsTyped' /\ JobsTyped' /\ ChainTyped' /\ TxsTyped' /\ RouteTyped' /\ ReconcilerTyped'
    BY <1>0, <1>17 DEF CrashMatcher, Stop, database, network, BookTyped, FillsTyped, JobsTyped, ChainTyped, TxsTyped, RouteTyped, ReconcilerTyped
  <2>2. MatcherTyped'
    BY <1>0, <1>17, MatchType DEF CrashMatcher, Stop, MatcherTyped, MatcherState, BusyMatcher, NoTx, TxIds, IdleMatcher, NothingSeen
  <2>3. FaultsTyped'
    BY <1>0, <1>17, MatchType DEF CrashMatcher, Stop, FaultsTyped
  <2>. QED
    BY <2>1, <2>2, <2>3 DEF TypeInv
<1>. QED
  BY <1>1, <1>2, <1>3, <1>4, <1>5, <1>6, <1>7, <1>8, <1>9, <1>10, <1>11, <1>12, <1>13, <1>14, <1>15, <1>16, <1>17 DEF MatcherStep

LEMMA RouteKeepsTypes ==
  ASSUME TypeInv, NEW match \in Matches,
         RouteStep(match) \/ CrashRoute(match) \/ (\E o \in Orders : SignSettlement(match, o))
  PROVE  TypeInv'
<1>0. /\ BookTyped /\ FillsTyped /\ JobsTyped /\ ChainTyped /\ TxsTyped
      /\ MatcherTyped /\ RouteTyped /\ ReconcilerTyped /\ FaultsTyped
  BY DEF TypeInv
<1>1. CASE \E o \in Orders : SignSettlement(match, o)
  <2>1. /\ BookTyped' /\ FillsTyped' /\ ChainTyped'
        /\ TxsTyped' /\ MatcherTyped' /\ ReconcilerTyped' /\ FaultsTyped'
    BY <1>0, <1>1 DEF SignSettlement, SignEntry, database, network, BookTyped, FillsTyped, ChainTyped, TxsTyped, MatcherTyped, ReconcilerTyped, FaultsTyped
  <2>2. JobsTyped'
    BY <1>0, <1>1, MatchType DEF SignSettlement, SignEntry, JobsTyped, JobRow, JobStates, NoTx, TxIds
  <2>3. RouteTyped'
    BY <1>0, <1>1, MatchType DEF SignSettlement, SignEntry, RouteTyped, NoRequest, NoTx, TxIds, JobsTyped, JobRow
  <2>. QED
    BY <2>1, <2>2, <2>3 DEF TypeInv
<1>2. CASE ClaimByRoute(match)
  <2>1. /\ BookTyped' /\ FillsTyped' /\ ChainTyped'
        /\ TxsTyped' /\ MatcherTyped' /\ ReconcilerTyped' /\ FaultsTyped'
    BY <1>0, <1>2 DEF ClaimByRoute, database, network, BookTyped, FillsTyped, ChainTyped, TxsTyped, MatcherTyped, ReconcilerTyped, FaultsTyped
  <2>2. JobsTyped'
    BY <1>0, <1>2, MatchType, StatusSet DEF ClaimByRoute, JobsTyped, JobRow, JobStates, NoTx, TxIds
  <2>3. RouteTyped'
    BY <1>0, <1>2, MatchType DEF ClaimByRoute, RouteTyped, NoRequest, NoTx, TxIds
  <2>. QED
    BY <2>1, <2>2, <2>3 DEF TypeInv
<1>3. CASE SendByRoute(match)
  <2>1. /\ BookTyped' /\ FillsTyped' /\ JobsTyped'
        /\ ChainTyped' /\ MatcherTyped' /\ ReconcilerTyped' /\ FaultsTyped'
    BY <1>0, <1>3 DEF SendByRoute, Send, LastTx, database, network, BookTyped, FillsTyped, JobsTyped, ChainTyped, MatcherTyped, ReconcilerTyped, FaultsTyped
  <2>2. TxsTyped'
    BY <1>0, <1>3, SendTyped DEF SendByRoute, RouteTyped
  <2>3. RouteTyped'
    <3>1. LastTx \in TxIds
      BY <1>0, <1>3, SendTyped DEF SendByRoute, RouteTyped
    <3>. QED
      BY <1>0, <1>3, <3>1 DEF SendByRoute, RouteTyped
  <2>. QED
    BY <2>1, <2>2, <2>3 DEF TypeInv
<1>4. CASE StoreHash(match)
  <2>1. /\ BookTyped' /\ FillsTyped' /\ ChainTyped'
        /\ TxsTyped' /\ MatcherTyped' /\ ReconcilerTyped' /\ FaultsTyped'
    BY <1>0, <1>4 DEF StoreHash, database, network, BookTyped, FillsTyped, ChainTyped, TxsTyped, MatcherTyped, ReconcilerTyped, FaultsTyped
  <2>2. JobsTyped'
    BY <1>0, <1>4, MatchType, HashSet DEF StoreHash, JobsTyped, JobRow, JobStates, NoTx, TxIds, RouteTyped
  <2>3. RouteTyped'
    BY <1>0, <1>4, MatchType DEF StoreHash, RouteTyped, NoRequest, NoTx, TxIds
  <2>. QED
    BY <2>1, <2>2, <2>3 DEF TypeInv
<1>5. CASE FailRoute(match)
  <2>1. /\ BookTyped' /\ FillsTyped' /\ ChainTyped'
        /\ TxsTyped' /\ MatcherTyped' /\ ReconcilerTyped' /\ FaultsTyped'
    BY <1>0, <1>5 DEF FailRoute, database, network, BookTyped, FillsTyped, ChainTyped, TxsTyped, MatcherTyped, ReconcilerTyped, FaultsTyped
  <2>2. JobsTyped'
    BY <1>0, <1>5, MatchType, StatusSet DEF FailRoute, JobsTyped, JobRow, JobStates, NoTx, TxIds
  <2>3. RouteTyped'
    BY <1>0, <1>5, MatchType DEF FailRoute, RouteTyped, NoRequest, NoTx, TxIds
  <2>. QED
    BY <2>1, <2>2, <2>3 DEF TypeInv
<1>6. CASE CrashRoute(match)
  <2>1. /\ BookTyped' /\ FillsTyped' /\ JobsTyped'
        /\ ChainTyped' /\ TxsTyped' /\ MatcherTyped' /\ ReconcilerTyped'
    BY <1>0, <1>6 DEF CrashRoute, Stop, database, network, BookTyped, FillsTyped, JobsTyped, ChainTyped, TxsTyped, MatcherTyped, ReconcilerTyped
  <2>2. RouteTyped'
    BY <1>0, <1>6, MatchType DEF CrashRoute, Stop, RouteTyped, NoRequest, NoTx, TxIds
  <2>3. FaultsTyped'
    BY <1>0, <1>6, MatchType DEF CrashRoute, Stop, FaultsTyped
  <2>. QED
    BY <2>1, <2>2, <2>3 DEF TypeInv
<1>. QED
  BY <1>1, <1>2, <1>3, <1>4, <1>5, <1>6 DEF RouteStep

LEMMA SelectKeepsTypes ==
  ASSUME TypeInv, NEW r \in Reconcilers, NEW match \in Matches,
         \/ SelectSubmitted(r, match) \/ SelectReady(r, match)
         \/ SelectStale(r, match) \/ SelectOld(r, match)
  PROVE  TypeInv'
<1>0. /\ BookTyped /\ FillsTyped /\ JobsTyped /\ ChainTyped /\ TxsTyped
      /\ MatcherTyped /\ RouteTyped /\ ReconcilerTyped /\ FaultsTyped
  BY DEF TypeInv
<1>1. CASE SelectSubmitted(r, match) \/ SelectReady(r, match) \/ SelectStale(r, match) \/ SelectOld(r, match)
  <2>1. /\ BookTyped' /\ FillsTyped' /\ JobsTyped' /\ ChainTyped'
        /\ TxsTyped' /\ MatcherTyped' /\ RouteTyped' /\ FaultsTyped'
    BY <1>0, <1>1 DEF SelectSubmitted, SelectReady, SelectStale, SelectOld, Select, database, network, BookTyped, FillsTyped, JobsTyped, ChainTyped, TxsTyped, MatcherTyped, RouteTyped, FaultsTyped
  <2>2. ReconcilerTyped'
    BY <1>0, <1>1, MatchType DEF SelectSubmitted, SelectReady, SelectStale, SelectOld, Select, ReconcilerTyped, ReconcilerState, BusyReconciler, JobRow, NoTx, TxIds, JobsTyped
  <2>. QED
    BY <2>1, <2>2 DEF TypeInv
<1>. QED
  BY <1>1

LEMMA ReconcilerKeepsTypes ==
  ASSUME TypeInv, NEW r \in Reconcilers,
         ReconcilerStep(r) \/ CrashReconciler(r)
  PROVE  TypeInv'
<1>0. /\ BookTyped /\ FillsTyped /\ JobsTyped /\ ChainTyped /\ TxsTyped
      /\ MatcherTyped /\ RouteTyped /\ ReconcilerTyped /\ FaultsTyped
  BY DEF TypeInv
<1>1. CASE CheckSubmitted(r)
  <2>1. /\ BookTyped' /\ FillsTyped' /\ ChainTyped'
        /\ TxsTyped' /\ MatcherTyped' /\ RouteTyped' /\ FaultsTyped'
    BY <1>0, <1>1 DEF CheckSubmitted, Goto, Done, database, network, BookTyped, FillsTyped, ChainTyped, TxsTyped, MatcherTyped, RouteTyped, FaultsTyped
  <2>2. JobsTyped'
    BY <1>0, <1>1, MatchType, StatusSet DEF CheckSubmitted, Goto, Done, JobsTyped, JobRow, JobStates, NoTx, TxIds, SetStatusFrom, ReconcilerTyped
  <2>3. ReconcilerTyped'
    BY <1>0, <1>1, MatchType DEF CheckSubmitted, Goto, Done, ReconcilerTyped, ReconcilerState, BusyReconciler, JobRow, NoTx, TxIds, IdleReconciler, NoJob, JobStates
  <2>. QED
    BY <2>1, <2>2, <2>3 DEF TypeInv
<1>2. CASE ClaimByReconciler(r)
  <2>1. /\ BookTyped' /\ FillsTyped' /\ ChainTyped'
        /\ TxsTyped' /\ MatcherTyped' /\ RouteTyped' /\ FaultsTyped'
    BY <1>0, <1>2 DEF ClaimByReconciler, Goto, Done, database, network, BookTyped, FillsTyped, ChainTyped, TxsTyped, MatcherTyped, RouteTyped, FaultsTyped
  <2>2. JobsTyped'
    BY <1>0, <1>2, MatchType, StatusSet DEF ClaimByReconciler, Goto, Done, JobsTyped, JobRow, JobStates, NoTx, TxIds, ReconcilerTyped
  <2>3. ReconcilerTyped'
    BY <1>0, <1>2, MatchType DEF ClaimByReconciler, Goto, Done, ReconcilerTyped, ReconcilerState, BusyReconciler, JobRow, NoTx, TxIds, IdleReconciler, NoJob, JobStates
  <2>. QED
    BY <2>1, <2>2, <2>3 DEF TypeInv
<1>3. CASE SendByReconciler(r)
  <2>1. /\ BookTyped' /\ FillsTyped' /\ JobsTyped'
        /\ ChainTyped' /\ MatcherTyped' /\ RouteTyped' /\ FaultsTyped'
    BY <1>0, <1>3 DEF SendByReconciler, Send, LastTx, database, network, BookTyped, FillsTyped, JobsTyped, ChainTyped, MatcherTyped, RouteTyped, FaultsTyped
  <2>2. TxsTyped'
    BY <1>0, <1>3, SendTyped DEF SendByReconciler, ReconcilerTyped, ReconcilerState, JobRow
  <2>3. ReconcilerTyped'
    <3>1. LastTx \in TxIds
      BY <1>0, <1>3, SendTyped DEF SendByReconciler, ReconcilerTyped, ReconcilerState, JobRow
    <3>. QED
      <4> DEFINE next == [reconciler[r] EXCEPT !.pc = "store", !.row.hash = LastTx]
      <4>1. reconciler' = [reconciler EXCEPT ![r] = next] /\ reconciler[r] \in ReconcilerState
        BY <1>0, <1>3 DEF SendByReconciler, ReconcilerTyped
      <4>2. [reconciler[r].row EXCEPT !.hash = LastTx] \in JobRow
        BY <3>1, <4>1 DEF ReconcilerState, JobRow
      <4>3. next \in ReconcilerState /\ next.match = reconciler[r].match
        BY <4>1, <4>2 DEF ReconcilerState, BusyReconciler
      <4>4. reconciler[r].match \in Matches
        BY <1>0, <1>3 DEF SendByReconciler, ReconcilerTyped
      <4>. HIDE DEF next
      <4>. QED
        BY <1>0, <4>1, <4>3, <4>4 DEF ReconcilerTyped
  <2>. QED
    BY <2>1, <2>2, <2>3 DEF TypeInv
<1>4. CASE StoreResent(r)
  <2>1. /\ BookTyped' /\ FillsTyped' /\ ChainTyped'
        /\ TxsTyped' /\ MatcherTyped' /\ RouteTyped' /\ FaultsTyped'
    BY <1>0, <1>4 DEF StoreResent, Goto, database, network, BookTyped, FillsTyped, ChainTyped, TxsTyped, MatcherTyped, RouteTyped, FaultsTyped
  <2>2. JobsTyped'
    BY <1>0, <1>4, MatchType, HashSet DEF StoreResent, Goto, JobsTyped, JobRow, JobStates, NoTx, TxIds, ReconcilerTyped, ReconcilerState
  <2>3. ReconcilerTyped'
    BY <1>0, <1>4, MatchType DEF StoreResent, Goto, ReconcilerTyped, ReconcilerState, BusyReconciler, JobRow, NoTx, TxIds
  <2>. QED
    BY <2>1, <2>2, <2>3 DEF TypeInv
<1>5. CASE AwaitResent(r)
  <2>1. /\ BookTyped' /\ FillsTyped' /\ ChainTyped'
        /\ TxsTyped' /\ MatcherTyped' /\ RouteTyped' /\ FaultsTyped'
    BY <1>0, <1>5 DEF AwaitResent, Goto, Done, database, network, BookTyped, FillsTyped, ChainTyped, TxsTyped, MatcherTyped, RouteTyped, FaultsTyped
  <2>2. JobsTyped'
    BY <1>0, <1>5, MatchType, StatusSet DEF AwaitResent, Goto, Done, JobsTyped, JobRow, JobStates, NoTx, TxIds, ReconcilerTyped
  <2>3. ReconcilerTyped'
    BY <1>0, <1>5, MatchType DEF AwaitResent, Goto, Done, ReconcilerTyped, ReconcilerState, BusyReconciler, JobRow, NoTx, TxIds, IdleReconciler, NoJob, JobStates
  <2>. QED
    BY <2>1, <2>2, <2>3 DEF TypeInv
<1>6. CASE FailResend(r)
  <2>1. /\ BookTyped' /\ FillsTyped' /\ ChainTyped'
        /\ TxsTyped' /\ MatcherTyped' /\ RouteTyped' /\ FaultsTyped'
    BY <1>0, <1>6 DEF FailResend, Done, database, network, BookTyped, FillsTyped, ChainTyped, TxsTyped, MatcherTyped, RouteTyped, FaultsTyped
  <2>2. JobsTyped'
    BY <1>0, <1>6, MatchType, StatusSet DEF FailResend, Done, JobsTyped, JobRow, JobStates, NoTx, TxIds, ReconcilerTyped
  <2>3. ReconcilerTyped'
    BY <1>0, <1>6, MatchType DEF FailResend, Done, ReconcilerTyped, ReconcilerState, BusyReconciler, JobRow, NoTx, TxIds, IdleReconciler, NoJob, JobStates
  <2>. QED
    BY <2>1, <2>2, <2>3 DEF TypeInv
<1>7. CASE RetagFill(r)
  <2>1. /\ BookTyped' /\ JobsTyped' /\ ChainTyped'
        /\ TxsTyped' /\ MatcherTyped' /\ RouteTyped' /\ FaultsTyped'
    BY <1>0, <1>7 DEF RetagFill, Done, database, network, BookTyped, JobsTyped, ChainTyped, TxsTyped, MatcherTyped, RouteTyped, FaultsTyped
  <2>2. FillsTyped'
    BY <1>0, <1>7, MatchType DEF RetagFill, Done, FillsTyped, Rows, PseudoRow, ReconcilerTyped, ReconcilerState, JobRow
  <2>3. ReconcilerTyped'
    BY <1>0, <1>7, MatchType DEF RetagFill, Done, ReconcilerTyped, ReconcilerState, BusyReconciler, JobRow, NoTx, TxIds, IdleReconciler, NoJob, JobStates
  <2>. QED
    BY <2>1, <2>2, <2>3 DEF TypeInv
<1>8. CASE ExpireRow(r) \/ ClearRow(r)
  <2>1. /\ BookTyped' /\ JobsTyped' /\ ChainTyped'
        /\ TxsTyped' /\ MatcherTyped' /\ RouteTyped' /\ FaultsTyped'
    BY <1>0, <1>8 DEF ExpireRow, ClearRow, Goto, database, network, BookTyped, JobsTyped, ChainTyped, TxsTyped, MatcherTyped, RouteTyped, FaultsTyped
  <2>2. FillsTyped'
    BY <1>0, <1>8, MatchType DEF ExpireRow, ClearRow, Goto, FillsTyped, Rows, PseudoRow
  <2>3. ReconcilerTyped'
    BY <1>0, <1>8, MatchType DEF ExpireRow, ClearRow, Goto, ReconcilerTyped, ReconcilerState, BusyReconciler, JobRow, NoTx, TxIds
  <2>. QED
    BY <2>1, <2>2, <2>3 DEF TypeInv
<1>9. CASE ExpireMaker(r) \/ ExpireTaker(r) \/ ClearMaker(r) \/ ClearTaker(r)
  <2>1. /\ FillsTyped' /\ JobsTyped' /\ ChainTyped'
        /\ TxsTyped' /\ MatcherTyped' /\ RouteTyped' /\ FaultsTyped'
    BY <1>0, <1>9 DEF ExpireMaker, ExpireTaker, ClearMaker, ClearTaker, ExpireCount, Goto, database, network, FillsTyped, JobsTyped, ChainTyped, TxsTyped, MatcherTyped, RouteTyped, FaultsTyped
  <2>2. BookTyped'
    BY <1>0, <1>9, MatchType, BookTurn, SMTT(30) DEF ExpireMaker, ExpireTaker, ClearMaker, ClearTaker, ExpireCount, Goto, BookTyped, Counted, Uncounted, Greater, Fits, ReconcilerTyped
  <2>3. ReconcilerTyped'
    BY <1>0, <1>9, MatchType, SMTT(30) DEF ExpireMaker, ExpireTaker, ClearMaker, ClearTaker, ExpireCount, Goto, ReconcilerTyped, ReconcilerState, BusyReconciler, JobRow, NoTx, TxIds
  <2>. QED
    BY <2>1, <2>2, <2>3 DEF TypeInv
<1>10. CASE ExpireJob(r)
  <2>1. /\ BookTyped' /\ FillsTyped' /\ ChainTyped'
        /\ TxsTyped' /\ MatcherTyped' /\ RouteTyped' /\ FaultsTyped'
    BY <1>0, <1>10 DEF ExpireJob, Done, database, network, BookTyped, FillsTyped, ChainTyped, TxsTyped, MatcherTyped, RouteTyped, FaultsTyped
  <2>2. JobsTyped'
    BY <1>0, <1>10, MatchType, StatusSet DEF ExpireJob, Done, JobsTyped, JobRow, JobStates, NoTx, TxIds, SetStatusFrom, ReconcilerTyped
  <2>3. ReconcilerTyped'
    BY <1>0, <1>10, MatchType DEF ExpireJob, Done, ReconcilerTyped, ReconcilerState, BusyReconciler, JobRow, NoTx, TxIds, IdleReconciler, NoJob, JobStates
  <2>. QED
    BY <2>1, <2>2, <2>3 DEF TypeInv
<1>11. CASE ClearJob(r)
  <2>1. /\ BookTyped' /\ FillsTyped' /\ ChainTyped'
        /\ TxsTyped' /\ MatcherTyped' /\ RouteTyped' /\ FaultsTyped'
    BY <1>0, <1>11 DEF ClearJob, Done, database, network, BookTyped, FillsTyped, ChainTyped, TxsTyped, MatcherTyped, RouteTyped, FaultsTyped
  <2>2. JobsTyped'
    BY <1>0, <1>11, MatchType, StatusSet DEF ClearJob, Done, JobsTyped, JobRow, JobStates, NoTx, TxIds, ReconcilerTyped
  <2>3. ReconcilerTyped'
    BY <1>0, <1>11, MatchType DEF ClearJob, Done, ReconcilerTyped, ReconcilerState, BusyReconciler, JobRow, NoTx, TxIds, IdleReconciler, NoJob, JobStates
  <2>. QED
    BY <2>1, <2>2, <2>3 DEF TypeInv
<1>12. CASE CrashReconciler(r)
  <2>1. /\ BookTyped' /\ FillsTyped' /\ JobsTyped'
        /\ ChainTyped' /\ TxsTyped' /\ MatcherTyped' /\ RouteTyped'
    BY <1>0, <1>12 DEF CrashReconciler, Stop, Done, database, network, BookTyped, FillsTyped, JobsTyped, ChainTyped, TxsTyped, MatcherTyped, RouteTyped
  <2>2. ReconcilerTyped'
    BY <1>0, <1>12, MatchType DEF CrashReconciler, Stop, Done, ReconcilerTyped, ReconcilerState, BusyReconciler, JobRow, NoTx, TxIds, IdleReconciler, NoJob, JobStates
  <2>3. FaultsTyped'
    BY <1>0, <1>12, MatchType DEF CrashReconciler, Stop, Done, FaultsTyped
  <2>. QED
    BY <2>1, <2>2, <2>3 DEF TypeInv
<1>. QED
  BY <1>1, <1>2, <1>3, <1>4, <1>5, <1>6, <1>7, <1>8, <1>9, <1>10, <1>11, <1>12 DEF ReconcilerStep

LEMMA CancelKeepsTypes ==
  ASSUME TypeInv, NEW o \in Cancellable,
         CancelInBook(o) \/ CancelOnChain(o)
  PROVE  TypeInv'
<1>0. /\ BookTyped /\ FillsTyped /\ JobsTyped /\ ChainTyped /\ TxsTyped
      /\ MatcherTyped /\ RouteTyped /\ ReconcilerTyped /\ FaultsTyped
  BY DEF TypeInv
<1>1. CASE CancelInBook(o)
  <2>1. /\ FillsTyped' /\ JobsTyped' /\ ChainTyped' /\ TxsTyped'
        /\ MatcherTyped' /\ RouteTyped' /\ ReconcilerTyped' /\ FaultsTyped'
    BY <1>0, <1>1 DEF CancelInBook, database, network, FillsTyped, JobsTyped, ChainTyped, TxsTyped, MatcherTyped, RouteTyped, ReconcilerTyped, FaultsTyped
  <2>2. BookTyped'
    BY <1>0, <1>1, MatchType DEF CancelInBook, BookTyped, Counted, Uncounted, Greater, Fits
  <2>. QED
    BY <2>1, <2>2 DEF TypeInv
<1>2. CASE CancelOnChain(o)
  <2>1. /\ BookTyped' /\ FillsTyped' /\ JobsTyped' /\ TxsTyped'
        /\ MatcherTyped' /\ RouteTyped' /\ ReconcilerTyped' /\ FaultsTyped'
    BY <1>0, <1>2 DEF CancelOnChain, database, network, BookTyped, FillsTyped, JobsTyped, TxsTyped, MatcherTyped, RouteTyped, ReconcilerTyped, FaultsTyped
  <2>2. ChainTyped'
    BY <1>0, <1>2, MatchType DEF CancelOnChain, ChainTyped
  <2>. QED
    BY <2>1, <2>2 DEF TypeInv
<1>. QED
  BY <1>1, <1>2

LEMMA LedgerKeepsTypes ==
  ASSUME TypeInv, NEW t \in 1..Len(txs),
         LedgerStep(t)
  PROVE  TypeInv'
<1>0. /\ BookTyped /\ FillsTyped /\ JobsTyped /\ ChainTyped /\ TxsTyped
      /\ MatcherTyped /\ RouteTyped /\ ReconcilerTyped /\ FaultsTyped
  BY DEF TypeInv
<1>1. CASE Land(t)
  <2>1. /\ BookTyped' /\ FillsTyped' /\ JobsTyped'
        /\ MatcherTyped' /\ RouteTyped' /\ ReconcilerTyped' /\ FaultsTyped'
    BY <1>0, <1>1 DEF Land, Accepts, database, network, BookTyped, FillsTyped, JobsTyped, MatcherTyped, RouteTyped, ReconcilerTyped, FaultsTyped
  <2>2. ChainTyped'
    <3>1. txs[t] \in Transaction
      BY <1>0 DEF TxsTyped
    <3>2. txs[t].match \in Matches
      BY <3>1 DEF Transaction
    <3> DEFINE filled == [o \in Orders |-> IF o \in Parties(txs[t].match)
                            THEN chain.filled[o] + txs[t].match.size ELSE chain.filled[o]]
    <3>3. filled \in [Orders -> Nat]
      BY <1>0, <3>2, MatchType DEF ChainTyped
    <3>4. chain' = [chain EXCEPT !.filled = filled]
      BY <1>1 DEF Land
    <3>. HIDE DEF filled
    <3>. QED
      BY <1>0, <3>3, <3>4 DEF ChainTyped
  <2>3. TxsTyped'
    BY <1>0, <1>1, StateSet DEF Land
  <2>. QED
    BY <2>1, <2>2, <2>3 DEF TypeInv
<1>2. CASE Revert(t) \/ Expire(t)
  <2>1. /\ BookTyped' /\ FillsTyped' /\ JobsTyped' /\ ChainTyped'
        /\ MatcherTyped' /\ RouteTyped' /\ ReconcilerTyped' /\ FaultsTyped'
    BY <1>0, <1>2 DEF Revert, Expire, database, network, BookTyped, FillsTyped, JobsTyped, ChainTyped, MatcherTyped, RouteTyped, ReconcilerTyped, FaultsTyped
  <2>2. TxsTyped'
    BY <1>0, <1>2, StateSet DEF Revert, Expire
  <2>. QED
    BY <2>1, <2>2 DEF TypeInv
<1>. QED
  BY <1>1, <1>2 DEF LedgerStep

LEMMA NextTyped == TypeInv /\ [Next]_vars => TypeInv'
<1> SUFFICES ASSUME TypeInv, [Next]_vars
             PROVE  TypeInv'
  OBVIOUS
<1>1. CASE Next
  BY <1>1, MatcherKeepsTypes, RouteKeepsTypes, SelectKeepsTypes, ReconcilerKeepsTypes,
     CancelKeepsTypes, LedgerKeepsTypes DEF Next
<1>2. CASE UNCHANGED vars
  BY <1>2 DEF vars, TypeInv, BookTyped, FillsTyped, JobsTyped, ChainTyped, TxsTyped, MatcherTyped,
              RouteTyped, ReconcilerTyped, FaultsTyped
<1>. QED
  BY <1>1, <1>2

LEMMA TypesAlways == Spec => []TypeInv
  BY InitTyped, NextTyped, PTL DEF Spec

\* Every row, transaction and program counter has its type in every reachable
\* state; in particular no statement ever counts more on an order than its size.
THEOREM TypeCorrect == Spec => []TypeOK
  BY TypesAlways, TypesSuffice, PTL

-----------------------------------------------------------------------------
(***************************************************************************)
(* Who may speak for a match.  A transaction number that a program keeps,  *)
(* or that a job records, is one of its own match; a job is left QUEUED    *)
(* before the first transaction of its match is sent and is never QUEUED   *)
(* again; and the matcher settles exactly the matches the route and the    *)
(* reconciler never touch.                                                 *)
(***************************************************************************)
Settles(t, match) == t \in 1..Len(txs) /\ txs[t].match = match
Sent(match) == \E t \in 1..Len(txs) : txs[t].match = match
Settled(match) == \E t \in 1..Len(txs) : Landed(t) /\ txs[t].match = match
Begun(match) == jobs[match].status \notin {"none", "QUEUED"}

MatcherLinked ==
  \A m \in Matchers : matcher[m].pc = "poll" =>
    Settles(matcher[m].tx, matcher[m].match) /\ BothSigned(matcher[m].match)

JobLinked ==
  \A match \in Matches :
    /\ jobs[match].hash # NoTx => Settles(jobs[match].hash, match)
    /\ BothSigned(match) => jobs[match].status \in {"none", "CONFIRMED"}
    /\ ~BothSigned(match) /\ Sent(match) => Begun(match)

RouteLinked ==
  \A match \in Matches :
    /\ BothSigned(match) => route[match].pc = "none"
    /\ route[match].pc \in {"send", "store"} => Begun(match)
    /\ route[match].pc = "store" => Settles(route[match].tx, match)

ReconcilerLinked ==
  \A r \in Reconcilers : LET match == reconciler[r].match
                             hash == reconciler[r].row.hash
                             pc == reconciler[r].pc
                         IN pc # "idle" =>
    /\ ~BothSigned(match)
    /\ hash # NoTx => Settles(hash, match)
    /\ pc \in {"check", "store", "await"} => hash # NoTx
    /\ pc \in {"check", "send", "store", "await", "retag", "retagResent"} => Begun(match)

LinkInv ==
  /\ TypeInv
  /\ MatcherLinked /\ JobLinked /\ RouteLinked /\ ReconcilerLinked
  /\ ConfirmedIsSettled

LEMMA InitLinked == Init => LinkInv
<1> SUFFICES ASSUME Init
             PROVE  LinkInv
  OBVIOUS
<1>1. MatcherLinked /\ ReconcilerLinked
  BY DEF Init, MatcherLinked, ReconcilerLinked, IdleMatcher, IdleReconciler
<1>2. JobLinked /\ RouteLinked /\ ConfirmedIsSettled
  BY DEF Init, JobLinked, RouteLinked, ConfirmedIsSettled, NoJob, NoRequest, Sent
<1>. QED
  BY <1>1, <1>2, InitTyped DEF LinkInv

(***************************************************************************)
(* What happens to the transactions and to the jobs in a step.             *)
(***************************************************************************)
\* Transactions are only added, and what has landed stays.
Grown ==
  /\ Len(txs) \in Nat /\ Len(txs') \in Nat /\ Len(txs) <= Len(txs')
  /\ \A t \in 1..Len(txs) : /\ txs'[t].match = txs[t].match
                            /\ Landed(t) => Landed(t)'

\* Nobody sends anything for a match but the matcher, for orders that are both
\* signed, or a program that holds the match of a job that was begun.
SentProperly ==
  \A match \in Matches : Sent(match)' => Sent(match) \/ BothSigned(match) \/ Begun(match)

LEMMA SendGrows ==
  ASSUME TxsTyped, NEW match \in Matches, NEW auth \in 0..MaxQueued, Send(match, auth)
  PROVE  /\ Grown
         /\ \A other \in Matches : Sent(other)' => Sent(other) \/ other = match
<1>1. /\ Len(txs') = Len(txs) + 1
      /\ txs'[Len(txs) + 1] = [match |-> match, auth |-> auth, state |-> "pending"]
      /\ \A t \in 1..Len(txs) : txs'[t] = txs[t]
  BY SendTyped
<1>2. Len(txs) \in Nat /\ txs'[Len(txs) + 1].match = match
  BY <1>1 DEF TxsTyped
<1>3. Grown
  BY <1>1, <1>2 DEF Grown, Landed
<1>4. ASSUME NEW other \in Matches, Sent(other)'
      PROVE  Sent(other) \/ other = match
  <2>1. PICK t \in 1..Len(txs') : txs'[t].match = other
    BY <1>4 DEF Sent
  <2>2. t \in 1..Len(txs) \/ t = Len(txs) + 1
    BY <1>1, <1>2
  <2>. QED
    BY <1>1, <1>2, <2>1, <2>2 DEF Sent
<1>. QED
  BY <1>3, <1>4

LEMMA StateGrows ==
  ASSUME TxsTyped, NEW t \in 1..Len(txs), NEW state \in {"landed", "failed", "expired"},
         txs' = [txs EXCEPT ![t].state = state], ~Landed(t)
  PROVE  Grown /\ \A match \in Matches : Sent(match)' => Sent(match)
<1>1. txs[t] \in Transaction /\ Len(txs) \in Nat
  BY DEF TxsTyped
<1>2. [txs[t] EXCEPT !.state = state].match = txs[t].match
  BY <1>1 DEF Transaction
<1>3. Len(txs') = Len(txs) /\ \A u \in 1..Len(txs) : txs'[u].match = txs[u].match
  BY <1>2, StateSet
<1>. QED
  BY <1>1, <1>3, StateSet DEF Grown, Landed, Sent

LEMMA SameGrows == ASSUME TypeInv, UNCHANGED txs
                   PROVE  Grown /\ \A match \in Matches : Sent(match)' => Sent(match)
  BY DEF TypeInv, TxsTyped, Grown, Landed, Sent


\* No job is queued twice, CONFIRMED is written for a settled match, and the
\* jobs of matches the matcher settles itself are left to the matcher.
JobMoves ==
  \A match \in Matches :
    /\ \/ jobs'[match].status = jobs[match].status
       \/ /\ jobs[match].status = "none" /\ jobs'[match].status = "QUEUED"
          /\ ~BothSigned(match)
       \/ jobs'[match].status = "CONFIRMED" /\ Settled(match)
       \/ jobs'[match].status \in {"SUBMITTED", "FAILED"} /\ ~BothSigned(match)
    /\ \/ jobs'[match].hash = jobs[match].hash
       \/ Settles(jobs'[match].hash, match)

\* Settles and Begun of the next state, for values of this one.
SettlesThen(t, match) == t \in 1..Len(txs') /\ txs'[t].match = match
BegunThen(match) == jobs'[match].status \notin {"none", "QUEUED"}

\* What ReconcilerLinked says of an instance in state s, in the next state.
LinkedThen(s) ==
  /\ ~BothSigned(s.match)
  /\ s.row.hash # NoTx => SettlesThen(s.row.hash, s.match)
  /\ s.pc \in {"check", "store", "await"} => s.row.hash # NoTx
  /\ s.pc \in {"check", "send", "store", "await", "retag", "retagResent"} => BegunThen(s.match)

BegunKept == \A match \in Matches : Begun(match) => BegunThen(match)

LEMMA SameMoves == ASSUME UNCHANGED jobs PROVE JobMoves
  BY DEF JobMoves

LEMMA StatusMoves ==
  ASSUME JobsTyped, NEW match \in Matches, NEW status, SetStatus(match, status),
         \/ status = "CONFIRMED" /\ Settled(match)
         \/ status \in {"SUBMITTED", "FAILED"} /\ ~BothSigned(match)
  PROVE  JobMoves
  BY DEF JobsTyped, JobRow, SetStatus, JobMoves

LEMMA HashMoves ==
  ASSUME JobsTyped, NEW match \in Matches, NEW hash, Settles(hash, match),
         jobs' = [jobs EXCEPT ![match].hash = hash]
  PROVE  JobMoves
  BY DEF JobsTyped, JobRow, JobMoves

LEMMA StillSettles ==
  ASSUME Grown, NEW t, NEW match, Settles(t, match)
  PROVE  SettlesThen(t, match)
  BY DEF Grown, Settles, SettlesThen

LEMMA StillSettled ==
  ASSUME Grown, NEW match, Settled(match)
  PROVE  Settled(match)'
  BY DEF Grown, Settled, Landed

LEMMA JobsFollow ==
  ASSUME LinkInv, Grown, SentProperly, JobMoves
  PROVE  JobLinked' /\ ConfirmedIsSettled' /\ BegunKept
<1>1. BegunKept
  BY DEF JobMoves, BegunKept, Begun, BegunThen
<1>2. ConfirmedIsSettled'
  <2> SUFFICES ASSUME NEW match \in Matches, jobs'[match].status = "CONFIRMED"
               PROVE  Settled(match)'
    BY DEF ConfirmedIsSettled, Settled
  <2>1. jobs[match].status = "CONFIRMED" \/ Settled(match)
    BY DEF JobMoves
  <2>2. Settled(match)
    BY <2>1 DEF LinkInv, ConfirmedIsSettled, Settled
  <2>. QED
    BY <2>2, StillSettled
<1>3. ASSUME NEW match \in Matches
      PROVE  /\ jobs'[match].hash # NoTx => SettlesThen(jobs'[match].hash, match)
             /\ BothSigned(match) => jobs'[match].status \in {"none", "CONFIRMED"}
             /\ ~BothSigned(match) /\ Sent(match)' => BegunThen(match)
  <2>1. jobs'[match].hash # NoTx => Settles(jobs'[match].hash, match)
    BY DEF LinkInv, JobLinked, JobMoves
  <2>2. BothSigned(match) => jobs'[match].status \in {"none", "CONFIRMED"}
    BY DEF LinkInv, JobLinked, JobMoves
  <2>3. ~BothSigned(match) /\ Sent(match)' => Begun(match)
    BY DEF LinkInv, JobLinked, SentProperly
  <2>4. jobs'[match].hash # NoTx => SettlesThen(jobs'[match].hash, match)
    BY <2>1, StillSettles
  <2>. QED
    BY <1>1, <2>2, <2>3, <2>4 DEF BegunKept
<1>4. JobLinked'
  BY <1>3 DEF JobLinked, BothSigned, SettlesThen, Settles, BegunThen, Begun
<1>. QED
  BY <1>1, <1>2, <1>4

\* Programs that do not move stay linked.
LEMMA OthersFollow ==
  ASSUME LinkInv, Grown, BegunKept
  PROVE  /\ UNCHANGED matcher => MatcherLinked'
         /\ UNCHANGED route => RouteLinked'
         /\ UNCHANGED reconciler => ReconcilerLinked'
<1>1. ASSUME UNCHANGED matcher PROVE MatcherLinked'
  <2>1. \A m \in Matchers : matcher[m].pc = "poll" =>
          SettlesThen(matcher[m].tx, matcher[m].match) /\ BothSigned(matcher[m].match)
    BY StillSettles DEF LinkInv, MatcherLinked
  <2>. QED
    BY <1>1, <2>1 DEF MatcherLinked, BothSigned, SettlesThen, Settles
<1>2. ASSUME UNCHANGED route PROVE RouteLinked'
  <2>1. \A match \in Matches :
          /\ BothSigned(match) => route[match].pc = "none"
          /\ route[match].pc \in {"send", "store"} => BegunThen(match)
          /\ route[match].pc = "store" => SettlesThen(route[match].tx, match)
    BY StillSettles DEF LinkInv, RouteLinked, BegunKept
  <2>. QED
    BY <1>2, <2>1 DEF RouteLinked, BothSigned, SettlesThen, Settles, BegunThen, Begun
<1>3. ASSUME UNCHANGED reconciler PROVE ReconcilerLinked'
  <2>1. ASSUME NEW r \in Reconcilers, reconciler[r].pc # "idle"
        PROVE  LinkedThen(reconciler[r])
    <3>1. reconciler[r].match \in Matches
      BY <2>1 DEF LinkInv, TypeInv, ReconcilerTyped
    <3>2. Begun(reconciler[r].match) => BegunThen(reconciler[r].match)
      BY <3>1 DEF BegunKept
    <3>. QED
      BY <2>1, <3>1, <3>2, StillSettles DEF LinkInv, ReconcilerLinked, LinkedThen
  <2>. QED
    BY <1>3, <2>1 DEF ReconcilerLinked, LinkedThen, BothSigned, SettlesThen, Settles, BegunThen, Begun
<1>. QED
  BY <1>1, <1>2, <1>3


LEMMA ReconcilerTurn ==
  ASSUME LinkInv, Grown, BegunKept, NEW r \in Reconcilers, NEW s,
         s.pc # "idle" => LinkedThen(s),
         reconciler' = [reconciler EXCEPT ![r] = s]
  PROVE  ReconcilerLinked'
<1>1. ASSUME NEW q \in Reconcilers, reconciler'[q].pc # "idle"
      PROVE  LinkedThen(reconciler'[q])
  <2>1. CASE q = r
    BY <1>1, <2>1 DEF LinkInv, TypeInv, ReconcilerTyped
  <2>2. CASE q # r
    <3>1. reconciler'[q] = reconciler[q]
      BY <2>2 DEF LinkInv, TypeInv, ReconcilerTyped
    <3>2. reconciler[q].match \in Matches
      BY <1>1, <3>1 DEF LinkInv, TypeInv, ReconcilerTyped
    <3>. QED
      BY <1>1, <3>1, <3>2, StillSettles DEF LinkInv, ReconcilerLinked, LinkedThen, BegunKept
  <2>. QED
    BY <2>1, <2>2
<1>. QED
  BY <1>1 DEF ReconcilerLinked, LinkedThen, BothSigned, SettlesThen, Settles, BegunThen, Begun

LEMMA MatcherTurns ==
  ASSUME LinkInv, Grown, NEW m \in Matchers,
         \A n \in Matchers : n # m => matcher'[n] = matcher[n],
         matcher'[m].pc = "poll" => /\ SettlesThen(matcher'[m].tx, matcher'[m].match)
                                    /\ BothSigned(matcher'[m].match)
  PROVE  MatcherLinked'
<1>1. ASSUME NEW n \in Matchers, matcher'[n].pc = "poll"
      PROVE  SettlesThen(matcher'[n].tx, matcher'[n].match) /\ BothSigned(matcher'[n].match)
  <2>1. CASE n = m
    BY <1>1, <2>1
  <2>2. CASE n # m
    BY <1>1, <2>2, StillSettles DEF LinkInv, MatcherLinked
  <2>. QED
    BY <2>1, <2>2
<1>. QED
  BY <1>1 DEF MatcherLinked, SettlesThen, Settles, BothSigned

\* The steps of a matcher that neither send anything nor write a job.
LocalMatcherStep(m) ==
  \/ LoadBook(m)         \/ EndTick(m)    \/ InsertFill(m) \/ SkipMatch(m)
  \/ CountMaker(m)       \/ CountTaker(m) \/ UndoRow(m)    \/ UndoMaker(m) \/ UndoTaker(m)
  \/ SettlementFailed(m) \/ LoseAnswer(m) \/ RefuseSettlement(m)
  \/ FailStatement(m)    \/ CrashMatcher(m)

LEMMA LocalStep ==
  ASSUME TypeInv, NEW m \in Matchers, LocalMatcherStep(m)
  PROVE  /\ UNCHANGED <<jobs, txs, route, reconciler>>
         /\ matcher'[m].pc # "poll"
         /\ \A n \in Matchers : n # m => matcher'[n] = matcher[n]
<1>0. matcher \in [Matchers -> MatcherState]
  BY DEF TypeInv, MatcherTyped
<1>1. CASE LoadBook(m) \/ EndTick(m) \/ RefuseSettlement(m) \/ SettlementFailed(m) \/ LoseAnswer(m)
  BY <1>0, <1>1, SMTT(30) DEF LoadBook, EndTick, RefuseSettlement, SettlementFailed, LoseAnswer, IdleMatcher,
                    database, network, MatcherState
<1>2. CASE InsertFill(m)
  BY <1>0, <1>2 DEF InsertFill, database, network, MatcherState
<1>3. CASE SkipMatch(m)
  BY <1>0, <1>3 DEF SkipMatch, database, network, MatcherState
<1>4. CASE CountMaker(m) \/ CountTaker(m)
  BY <1>0, <1>4 DEF CountMaker, CountTaker, Count, database, network, MatcherState
<1>5. CASE UndoRow(m) \/ UndoMaker(m) \/ UndoTaker(m)
  BY <1>0, <1>5 DEF UndoRow, UndoMaker, UndoTaker, UndoCount, database, network, MatcherState
<1>6. CASE FailStatement(m) \/ CrashMatcher(m)
  BY <1>0, <1>6 DEF FailStatement, CrashMatcher, IdleMatcher, database, network, MatcherState
<1>. QED
  BY <1>1, <1>2, <1>3, <1>4, <1>5, <1>6 DEF LocalMatcherStep

LEMMA MatcherKeepsLinks ==
  ASSUME LinkInv, NEW m \in Matchers,
         MatcherStep(m) \/ LoseAnswer(m) \/ FailStatement(m) \/ CrashMatcher(m)
  PROVE  JobLinked' /\ ConfirmedIsSettled' /\ MatcherLinked' /\ RouteLinked' /\ ReconcilerLinked'
<1>0. TypeInv /\ JobsTyped /\ TxsTyped /\ matcher \in [Matchers -> MatcherState]
  BY DEF LinkInv, TypeInv, MatcherTyped
<1>1. CASE LocalMatcherStep(m)
  <2>1. Grown /\ SentProperly /\ JobMoves
    BY <1>0, <1>1, LocalStep, SameGrows, SameMoves DEF SentProperly
  <2>2. MatcherLinked'
    BY <1>0, <1>1, <2>1, LocalStep, MatcherTurns
  <2>. QED
    BY <1>0, <1>1, <2>1, <2>2, LocalStep, JobsFollow, OthersFollow
<1>2. CASE SubmitSigned(m)
  <2> DEFINE match == matcher[m].match
  <2>1. match \in Matches /\ BothSigned(match) /\ Send(match, 0) /\ 0 \in 0..MaxQueued
    BY <1>0, <1>2 DEF SubmitSigned, TypeInv, MatcherTyped, BusyMatcher
  <2>2. Grown /\ \A other \in Matches : Sent(other)' => Sent(other) \/ other = match
    BY <1>0, <2>1, SendGrows
  <2>3. SentProperly /\ JobMoves /\ UNCHANGED <<route, reconciler>>
    BY <1>2, <2>1, <2>2, SameMoves DEF SubmitSigned, database, SentProperly
  <2>4. /\ \A n \in Matchers : n # m => matcher'[n] = matcher[n]
        /\ matcher'[m].tx = LastTx /\ matcher'[m].match = match
    BY <1>0, <1>2 DEF SubmitSigned, MatcherState
  <2>5. SettlesThen(LastTx, match)
    <3>1. /\ LastTx = Len(txs) + 1 /\ Len(txs') = Len(txs) + 1 /\ Len(txs) \in Nat
          /\ txs'[LastTx] = [match |-> match, auth |-> 0, state |-> "pending"]
      BY <1>0, <2>1, SendTyped DEF TxsTyped
    <3>. QED
      BY <3>1 DEF SettlesThen
  <2>6. MatcherLinked'
    BY <2>1, <2>2, <2>4, <2>5, MatcherTurns
  <2>. QED
    BY <2>2, <2>3, <2>6, JobsFollow, OthersFollow
<1>3. CASE RecordSettled(m)
  <2> DEFINE match == matcher[m].match
             hash == matcher[m].tx
  <2>1. match \in Matches /\ BothSigned(match) /\ Settles(hash, match)
    BY <1>0, <1>3 DEF RecordSettled, LinkInv, MatcherLinked, TypeInv, MatcherTyped, BusyMatcher
  <2>2. Settled(match)
    BY <1>3, <2>1 DEF RecordSettled, Outcome, Settled, Settles, Landed
  <2>3. UNCHANGED <<txs, route, reconciler>> /\ matcher'[m].pc # "poll"
        /\ \A n \in Matchers : n # m => matcher'[n] = matcher[n]
    BY <1>0, <1>3 DEF RecordSettled, network, MatcherState
  <2>4. JobMoves
    BY <1>0, <1>3, <2>1, <2>2 DEF RecordSettled, JobMoves, JobsTyped, JobRow
  <2>5. Grown /\ SentProperly
    BY <1>0, <2>3, SameGrows DEF SentProperly
  <2>. QED
    BY <2>3, <2>4, <2>5, MatcherTurns, JobsFollow, OthersFollow
<1>4. CASE QueueForAuth(m)
  <2> DEFINE match == matcher[m].match
  <2>1. match \in Matches /\ ~BothSigned(match)
    BY <1>0, <1>4 DEF QueueForAuth, TypeInv, MatcherTyped, BusyMatcher
  <2>2. UNCHANGED <<txs, route, reconciler>> /\ matcher'[m].pc # "poll"
        /\ \A n \in Matchers : n # m => matcher'[n] = matcher[n]
    BY <1>0, <1>4, SMTT(30) DEF QueueForAuth, network, MatcherState
  <2>3. JobMoves
    BY <1>0, <1>4, <2>1 DEF QueueForAuth, JobMoves, JobsTyped, JobRow
  <2>4. Grown /\ SentProperly
    BY <1>0, <2>2, SameGrows DEF SentProperly
  <2>. QED
    BY <2>2, <2>3, <2>4, MatcherTurns, JobsFollow, OthersFollow
<1>. QED
  BY <1>1, <1>2, <1>3, <1>4 DEF MatcherStep, LocalMatcherStep


LEMMA RouteTurns ==
  ASSUME LinkInv, Grown, BegunKept, NEW match \in Matches, ~BothSigned(match),
         \A other \in Matches : other # match => route'[other] = route[other],
         route'[match].pc \in {"send", "store"} => BegunThen(match),
         route'[match].pc = "store" => SettlesThen(route'[match].tx, match)
  PROVE  RouteLinked'
<1>1. ASSUME NEW other \in Matches
      PROVE  /\ BothSigned(other) => route'[other].pc = "none"
             /\ route'[other].pc \in {"send", "store"} => BegunThen(other)
             /\ route'[other].pc = "store" => SettlesThen(route'[other].tx, other)
  <2>1. CASE other = match
    BY <2>1
  <2>2. CASE other # match
    BY <2>2, StillSettles DEF LinkInv, RouteLinked, BegunKept
  <2>. QED
    BY <2>1, <2>2
<1>. QED
  BY <1>1 DEF RouteLinked, BothSigned, SettlesThen, Settles, BegunThen, Begun

\* A QUEUED job, and one the route or a reconciler holds, is none of the
\* matcher's own.
LEMMA QueuedNotSigned ==
  ASSUME LinkInv, NEW match \in Matches,
         jobs[match].status \notin {"none", "CONFIRMED"} \/ route[match].pc # "none"
  PROVE  ~BothSigned(match)
  BY DEF LinkInv, JobLinked, RouteLinked

LEMMA RouteKeepsLinks ==
  ASSUME LinkInv, NEW match \in Matches,
         RouteStep(match) \/ CrashRoute(match) \/ (\E o \in Orders : SignSettlement(match, o))
  PROVE  JobLinked' /\ ConfirmedIsSettled' /\ MatcherLinked' /\ RouteLinked' /\ ReconcilerLinked'
<1>0. /\ TypeInv /\ JobsTyped /\ TxsTyped /\ RouteTyped
      /\ jobs[match] \in JobRow
  BY DEF LinkInv, TypeInv, JobsTyped
<1>1. CASE \E o \in Orders : SignSettlement(match, o)
  <2>1. ~BothSigned(match)
    BY <1>1, QueuedNotSigned DEF SignSettlement, SignEntry
  <2>2. /\ UNCHANGED <<txs, matcher, reconciler>>
        /\ \A other \in Matches : other # match => route'[other] = route[other]
        /\ route'[match].pc = "claim" \/ route'[match] = route[match]
    BY <1>0, <1>1 DEF SignSettlement, SignEntry, network, RouteTyped
  <2>3. JobMoves
    BY <1>0, <1>1 DEF SignSettlement, SignEntry, JobMoves, JobsTyped, JobRow
  <2>4. Grown /\ SentProperly
    BY <1>0, <2>2, SameGrows DEF SentProperly
  <2>5. BegunKept /\ JobLinked' /\ ConfirmedIsSettled' /\ MatcherLinked' /\ ReconcilerLinked'
    BY <2>2, <2>3, <2>4, JobsFollow, OthersFollow
  <2>6. /\ route[match].pc \in {"send", "store"} => BegunThen(match)
        /\ route[match].pc = "store" => SettlesThen(route[match].tx, match)
    BY <2>4, <2>5, StillSettles DEF LinkInv, RouteLinked, BegunKept
  <2>. QED
    BY <2>1, <2>2, <2>4, <2>5, <2>6, RouteTurns
<1>2. CASE ClaimByRoute(match)
  <2>1. ~BothSigned(match)
    BY <1>2, QueuedNotSigned DEF ClaimByRoute
  <2>2. /\ UNCHANGED <<txs, matcher, reconciler>>
        /\ \A other \in Matches : other # match => route'[other] = route[other]
        /\ \/ route'[match].pc = "send" /\ BegunThen(match)
           \/ route'[match].pc = "none"
    BY <1>0, <1>2 DEF ClaimByRoute, network, RouteTyped, NoRequest, SetStatus, BegunThen, JobsTyped, JobRow
  <2>3. JobMoves
    BY <1>0, <1>2, <2>1, StatusMoves, SameMoves DEF ClaimByRoute
  <2>4. Grown /\ SentProperly
    BY <1>0, <2>2, SameGrows DEF SentProperly
  <2>5. BegunKept /\ JobLinked' /\ ConfirmedIsSettled' /\ MatcherLinked' /\ ReconcilerLinked'
    BY <2>2, <2>3, <2>4, JobsFollow, OthersFollow
  <2>. QED
    BY <2>1, <2>2, <2>4, <2>5, RouteTurns
<1>3. CASE SendByRoute(match)
  <2>1. ~BothSigned(match) /\ Begun(match)
    BY <1>3, QueuedNotSigned DEF SendByRoute, LinkInv, RouteLinked
  <2>2. Send(match, route[match].auth) /\ route[match].auth \in 0..MaxQueued
    BY <1>0, <1>3 DEF SendByRoute, RouteTyped
  <2>3. Grown /\ \A other \in Matches : Sent(other)' => Sent(other) \/ other = match
    BY <1>0, <2>2, SendGrows
  <2>4. SettlesThen(LastTx, match)
    <3>1. /\ LastTx = Len(txs) + 1 /\ Len(txs') = Len(txs) + 1 /\ Len(txs) \in Nat
          /\ txs'[LastTx] = [match |-> match, auth |-> route[match].auth, state |-> "pending"]
      BY <1>0, <2>2, SendTyped DEF TxsTyped
    <3>. QED
      BY <3>1 DEF SettlesThen
  <2>5. /\ SentProperly /\ JobMoves /\ UNCHANGED <<matcher, reconciler>>
        /\ \A other \in Matches : other # match => route'[other] = route[other]
        /\ route'[match].pc = "store" /\ route'[match].tx = LastTx
    BY <1>0, <1>3, <2>1, <2>3, SameMoves DEF SendByRoute, database, SentProperly, RouteTyped
  <2>6. BegunKept /\ JobLinked' /\ ConfirmedIsSettled' /\ MatcherLinked' /\ ReconcilerLinked'
    BY <2>3, <2>5, JobsFollow, OthersFollow
  <2>. QED
    BY <2>1, <2>3, <2>4, <2>5, <2>6, RouteTurns DEF BegunKept
<1>4. CASE StoreHash(match) \/ FailRoute(match) \/ CrashRoute(match)
  <2>1. ~BothSigned(match)
    BY <1>4, QueuedNotSigned DEF StoreHash, FailRoute, CrashRoute
  <2>2. /\ UNCHANGED <<txs, matcher, reconciler>>
        /\ \A other \in Matches : other # match => route'[other] = route[other]
        /\ route'[match].pc = "none"
    BY <1>0, <1>4 DEF StoreHash, FailRoute, CrashRoute, database, network, RouteTyped, NoRequest
  <2>3. CASE StoreHash(match)
    <3>1. Settles(route[match].tx, match)
      BY <2>3 DEF StoreHash, LinkInv, RouteLinked
    <3>2. JobMoves
      BY <1>0, <2>3, <3>1, HashMoves DEF StoreHash
    <3>. QED
      BY <1>0, <2>1, <2>2, <3>2, SameGrows, JobsFollow, OthersFollow, RouteTurns DEF SentProperly
  <2>4. CASE FailRoute(match) \/ CrashRoute(match)
    <3>1. JobMoves
      BY <1>0, <2>1, <2>4, StatusMoves, SameMoves DEF FailRoute, CrashRoute, database
    <3>. QED
      BY <1>0, <2>1, <2>2, <3>1, SameGrows, JobsFollow, OthersFollow, RouteTurns DEF SentProperly
  <2>. QED
    BY <1>4, <2>3, <2>4
<1>. QED
  BY <1>1, <1>2, <1>3, <1>4 DEF RouteStep

LEMMA SelectKeepsLinks ==
  ASSUME LinkInv, NEW r \in Reconcilers, NEW match \in Matches,
         \/ SelectSubmitted(r, match) \/ SelectReady(r, match)
         \/ SelectStale(r, match) \/ SelectOld(r, match)
  PROVE  JobLinked' /\ ConfirmedIsSettled' /\ MatcherLinked' /\ RouteLinked' /\ ReconcilerLinked'
<1> DEFINE chosen(pc) == [pc |-> pc, match |-> match, row |-> jobs[match]]
<1>0. TypeInv /\ JobsTyped
  BY DEF LinkInv, TypeInv
<1>1. UNCHANGED <<jobs, txs, matcher, route>>
  BY DEF SelectSubmitted, SelectReady, SelectStale, SelectOld, Select, database, network
<1>2. Grown /\ SentProperly /\ JobMoves
  BY <1>0, <1>1, SameGrows, SameMoves DEF SentProperly
<1>3. BegunKept /\ JobLinked' /\ ConfirmedIsSettled' /\ MatcherLinked' /\ RouteLinked'
  BY <1>1, <1>2, JobsFollow, OthersFollow
<1>4. ~BothSigned(match)
  BY QueuedNotSigned DEF SelectSubmitted, SelectReady, SelectStale, SelectOld
<1>5. jobs[match].hash # NoTx => SettlesThen(jobs[match].hash, match)
  BY <1>2, StillSettles DEF LinkInv, JobLinked
<1>6. PICK pc \in {"check", "claim", "expireRow", "clearRow"} :
        /\ reconciler' = [reconciler EXCEPT ![r] = chosen(pc)]
        /\ pc = "check" => jobs[match].status = "SUBMITTED" /\ jobs[match].hash # NoTx
  BY DEF SelectSubmitted, SelectReady, SelectStale, SelectOld, Select
<1>7. LinkedThen(chosen(pc))
  BY <1>3, <1>4, <1>5, <1>6 DEF LinkedThen, BegunKept, Begun
<1>. HIDE DEF chosen
<1>. QED
  BY <1>2, <1>3, <1>6, <1>7, ReconcilerTurn


LEMMA ReconcilerKeepsLinks ==
  ASSUME LinkInv, NEW r \in Reconcilers, ReconcilerStep(r) \/ CrashReconciler(r)
  PROVE  JobLinked' /\ ConfirmedIsSettled' /\ MatcherLinked' /\ RouteLinked' /\ ReconcilerLinked'
<1> DEFINE match == reconciler[r].match
           row == reconciler[r].row
           pc == reconciler[r].pc
           Next_(s) == reconciler' = [reconciler EXCEPT ![r] = s]
           At(p) == [reconciler[r] EXCEPT !.pc = p]
<1>0. /\ TypeInv /\ JobsTyped /\ TxsTyped
      /\ reconciler \in [Reconcilers -> ReconcilerState] /\ reconciler[r] \in ReconcilerState
  BY DEF LinkInv, TypeInv, ReconcilerTyped
<1>1. pc # "idle"
  BY DEF ReconcilerStep, CrashReconciler, CheckSubmitted, ClaimByReconciler, SendByReconciler,
         StoreResent, AwaitResent, FailResend, RetagFill, ExpireRow, ExpireMaker, ExpireTaker,
         ExpireJob, ClearRow, ClearMaker, ClearTaker, ClearJob
<1>2. /\ match \in Matches /\ ~BothSigned(match)
      /\ row.hash # NoTx => Settles(row.hash, match)
      /\ pc \in {"check", "store", "await"} => row.hash # NoTx
      /\ pc \in {"check", "send", "store", "await", "retag", "retagResent"} => Begun(match)
  BY <1>1 DEF LinkInv, ReconcilerLinked, TypeInv, ReconcilerTyped
<1>3. \A p \in BusyReconciler : At(p).pc = p /\ At(p).match = match /\ At(p).row = row
  BY <1>0 DEF ReconcilerState
\* A step that leaves the transactions and stays with the match, or ends.
<1>4. ASSUME UNCHANGED <<txs, matcher, route>>, JobMoves,
             \/ Next_(IdleReconciler)
             \/ \E p \in BusyReconciler :
                  /\ Next_(At(p))
                  /\ p \in {"check", "store", "await"} => row.hash # NoTx
                  /\ p \in {"check", "send", "store", "await", "retag", "retagResent"} =>
                       BegunThen(match) \/ Begun(match)
      PROVE  JobLinked' /\ ConfirmedIsSettled' /\ MatcherLinked' /\ RouteLinked' /\ ReconcilerLinked'
  <2>1. Grown /\ SentProperly
    BY <1>0, <1>4, SameGrows DEF SentProperly
  <2>2. BegunKept /\ JobLinked' /\ ConfirmedIsSettled' /\ MatcherLinked' /\ RouteLinked'
    BY <1>4, <2>1, JobsFollow, OthersFollow
  <2>3. CASE Next_(IdleReconciler)
    BY <2>1, <2>2, <2>3, ReconcilerTurn DEF IdleReconciler
  <2>4. ASSUME NEW p \in BusyReconciler, Next_(At(p)),
               p \in {"check", "store", "await"} => row.hash # NoTx,
               p \in {"check", "send", "store", "await", "retag", "retagResent"} =>
                 BegunThen(match) \/ Begun(match)
        PROVE  ReconcilerLinked'
    <3>1. LinkedThen(At(p))
      BY <1>2, <1>3, <2>1, <2>2, <2>4, StillSettles DEF LinkedThen, BegunKept
    <3>. QED
      BY <2>1, <2>2, <2>4, <3>1, ReconcilerTurn
  <2>. QED
    BY <1>4, <2>2, <2>3, <2>4
<1>5. CASE CheckSubmitted(r)
  <2>1. UNCHANGED <<txs, matcher, route>>
    BY <1>5 DEF CheckSubmitted, network
  <2>2. JobMoves
    <3>1. row.hash # NoTx /\ Settles(row.hash, match)
      BY <1>2, <1>5 DEF CheckSubmitted
    <3>2. Outcome(row.hash) = "SUCCESS" => Settled(match)
      BY <3>1 DEF Outcome, Settled, Settles, Landed
    <3>. QED
      BY <1>0, <1>2, <1>5, <3>2, StatusMoves, SameMoves DEF CheckSubmitted, SetStatusFrom
  <2>3. Next_(At("retag")) \/ Next_(At("claim")) \/ Next_(IdleReconciler)
    BY <1>0, <1>5 DEF CheckSubmitted, Goto, Done
  <2>. QED
    BY <1>2, <1>4, <1>5, <2>1, <2>2, <2>3 DEF CheckSubmitted, BusyReconciler
<1>6. CASE ClaimByReconciler(r)
  <2>1. UNCHANGED <<txs, matcher, route>>
    BY <1>6 DEF ClaimByReconciler, network
  <2>2. JobMoves
    BY <1>0, <1>2, <1>6, StatusMoves, SameMoves DEF ClaimByReconciler
  <2>3. (Next_(At("send")) /\ BegunThen(match)) \/ Next_(IdleReconciler)
    BY <1>0, <1>2, <1>6 DEF ClaimByReconciler, Goto, Done, SetStatus, BegunThen, JobsTyped, JobRow
  <2>. QED
    BY <1>4, <2>1, <2>2, <2>3 DEF BusyReconciler
<1>7. CASE SendByReconciler(r)
  <2>1. Send(match, row.auth) /\ row.auth \in 0..MaxQueued /\ Begun(match)
    BY <1>0, <1>2, <1>7 DEF SendByReconciler, ReconcilerState, JobRow
  <2>2. Grown /\ \A other \in Matches : Sent(other)' => Sent(other) \/ other = match
    BY <1>0, <1>2, <2>1, SendGrows
  <2>3. SettlesThen(LastTx, match)
    <3>1. /\ LastTx = Len(txs) + 1 /\ Len(txs') = Len(txs) + 1 /\ Len(txs) \in Nat
          /\ txs'[LastTx] = [match |-> match, auth |-> row.auth, state |-> "pending"]
      BY <1>0, <1>2, <2>1, SendTyped DEF TxsTyped
    <3>. QED
      BY <3>1 DEF SettlesThen
  <2>4. SentProperly /\ JobMoves /\ UNCHANGED <<matcher, route>>
    BY <1>7, <2>1, <2>2, SameMoves DEF SendByReconciler, database, SentProperly
  <2>5. BegunKept /\ JobLinked' /\ ConfirmedIsSettled' /\ MatcherLinked' /\ RouteLinked'
    BY <2>2, <2>4, JobsFollow, OthersFollow
  <2> DEFINE sent == [reconciler[r] EXCEPT !.pc = "store", !.row.hash = LastTx]
  <2>6. Next_(sent)
    BY <1>0, <1>7 DEF SendByReconciler
  <2>7. LastTx # NoTx
    BY <2>3 DEF SettlesThen, NoTx
  <2>8. sent.pc = "store" /\ sent.match = match /\ sent.row.hash = LastTx
    BY <1>0 DEF ReconcilerState, JobRow
  <2>9. LinkedThen(sent)
    BY <1>2, <2>1, <2>3, <2>5, <2>7, <2>8 DEF LinkedThen, BegunKept
  <2>. HIDE DEF sent
  <2>. QED
    BY <2>2, <2>5, <2>6, <2>9, ReconcilerTurn
<1>8. CASE StoreResent(r)
  <2>1. UNCHANGED <<txs, matcher, route>> /\ Next_(At("await")) /\ pc = "store"
    BY <1>0, <1>8 DEF StoreResent, Goto, network
  <2>2. JobMoves
    BY <1>0, <1>2, <1>8, <2>1, HashMoves DEF StoreResent
  <2>. QED
    BY <1>2, <1>4, <2>1, <2>2 DEF BusyReconciler
<1>9. CASE AwaitResent(r)
  <2>1. UNCHANGED <<txs, matcher, route>> /\ (Next_(At("retagResent")) \/ Next_(IdleReconciler)) /\ pc = "await"
    BY <1>0, <1>9 DEF AwaitResent, Goto, Done, network
  <2>2. JobMoves
    <3>1. Outcome(row.hash) = "SUCCESS" => Settled(match)
      BY <1>2, <2>1 DEF Outcome, Settled, Settles, Landed
    <3>. QED
      BY <1>0, <1>2, <1>9, <3>1, StatusMoves, SameMoves DEF AwaitResent
  <2>. QED
    BY <1>2, <1>4, <2>1, <2>2 DEF BusyReconciler
<1>10. CASE FailResend(r) \/ ExpireJob(r) \/ ClearJob(r) \/ CrashReconciler(r)
  <2>1. UNCHANGED <<txs, matcher, route>> /\ Next_(IdleReconciler)
    BY <1>10 DEF FailResend, ExpireJob, ClearJob, CrashReconciler, Done, network
  <2>2. JobMoves
    BY <1>0, <1>2, <1>10, StatusMoves, SameMoves
       DEF FailResend, ExpireJob, ClearJob, CrashReconciler, SetStatusFrom, database
  <2>. QED
    BY <1>4, <2>1, <2>2
<1>11. CASE RetagFill(r) \/ ExpireRow(r) \/ ClearRow(r) \/ ExpireMaker(r) \/ ExpireTaker(r)
            \/ ClearMaker(r) \/ ClearTaker(r)
  <2>1. UNCHANGED <<txs, matcher, route, jobs>>
    BY <1>11 DEF RetagFill, ExpireRow, ClearRow, ExpireMaker, ExpireTaker, ClearMaker, ClearTaker,
                 ExpireCount, network
  <2>2. \/ Next_(IdleReconciler)
        \/ \E p \in {"expireMaker", "expireTaker", "expireJob", "clearMaker", "clearTaker", "clearJob"} : Next_(At(p))
    BY <1>0, <1>11 DEF RetagFill, ExpireRow, ClearRow, ExpireMaker, ExpireTaker, ClearMaker,
                       ClearTaker, ExpireCount, Goto, Done
  <2>. QED
    BY <1>4, <2>1, <2>2, SameMoves DEF BusyReconciler
<1>. QED
  BY <1>5, <1>6, <1>7, <1>8, <1>9, <1>10, <1>11 DEF ReconcilerStep

LEMMA WorldKeepsLinks ==
  ASSUME LinkInv,
         \/ \E o \in Cancellable : CancelInBook(o) \/ CancelOnChain(o)
         \/ \E t \in 1..Len(txs) : LedgerStep(t)
         \/ UNCHANGED vars
  PROVE  JobLinked' /\ ConfirmedIsSettled' /\ MatcherLinked' /\ RouteLinked' /\ ReconcilerLinked'
<1>1. UNCHANGED <<jobs, matcher, route, reconciler>>
  BY DEF CancelInBook, CancelOnChain, LedgerStep, Land, Revert, Expire, database, vars
<1>2. Grown /\ SentProperly
  <2>0. TypeInv /\ TxsTyped
    BY DEF LinkInv, TypeInv
  <2>1. CASE UNCHANGED txs
    BY <2>0, <2>1, SameGrows DEF SentProperly
  <2>2. ASSUME NEW t \in 1..Len(txs), LedgerStep(t)
        PROVE  Grown /\ SentProperly
    <3>1. ~Landed(t) /\ \E state \in {"landed", "failed", "expired"} : txs' = [txs EXCEPT ![t].state = state]
      BY <2>2 DEF LedgerStep, Land, Revert, Expire, Landed
    <3>. QED
      BY <2>0, <3>1, StateGrows DEF SentProperly
  <2>. QED
    BY <2>1, <2>2 DEF CancelInBook, CancelOnChain, network, vars
<1>. QED
  BY <1>1, <1>2, SameMoves, JobsFollow, OthersFollow

LEMMA NextLinked == LinkInv /\ [Next]_vars => LinkInv'
<1> SUFFICES ASSUME LinkInv, [Next]_vars
             PROVE  LinkInv'
  OBVIOUS
<1>1. TypeInv'
  BY NextTyped DEF LinkInv
<1>2. JobLinked' /\ ConfirmedIsSettled' /\ MatcherLinked' /\ RouteLinked' /\ ReconcilerLinked'
  BY MatcherKeepsLinks, RouteKeepsLinks, SelectKeepsLinks, ReconcilerKeepsLinks, WorldKeepsLinks
     DEF Next
<1>. QED
  BY <1>1, <1>2 DEF LinkInv

LEMMA LinksAlways == Spec => []LinkInv
  BY InitLinked, NextLinked, PTL DEF Spec

\* A job is CONFIRMED only when a transaction that settles its match is on the
\* ledger: for any number of matchers, reconcilers, requests, crashes and lost
\* answers, whoever wrote the status and however late.
THEOREM ConfirmedSettled == Spec => []ConfirmedIsSettled
<1>1. LinkInv => ConfirmedIsSettled
  BY DEF LinkInv
<1>. QED
  BY <1>1, LinksAlways, PTL

\* While a job is QUEUED nothing of its match was ever sent, so the expiry that
\* undoes its fill undoes nothing that could still land.
THEOREM QueuedUnsent == Spec => []QueuedIsUnsent
<1>1. LinkInv => QueuedIsUnsent
  BY DEF LinkInv, JobLinked, QueuedIsUnsent, Sent, Begun
<1>. QED
  BY <1>1, LinksAlways, PTL

-----------------------------------------------------------------------------
(***************************************************************************)
(* The book and the gateway, for the orders the matcher settles itself.    *)
(* What the book counts as filled is on the gateway, on its way there, or  *)
(* counted by a matcher that will still submit it or undo it.  Owed is the *)
(* sum of the last two, and the gap is what the book counts beyond all     *)
(* three.  No step makes the gap negative, as long as no answer is lost;   *)
(* in a quiet run no step makes it positive either.                        *)
(***************************************************************************)
\* The settlement of s was refused, has failed, or is being undone.
HoldsBoth(s, ts) ==
  \/ s.pc \in {"execute", "undoRow", "undoMaker"}
  \/ s.pc = "poll" /\ ts[s.tx].state \in {"failed", "expired"}

\* A matcher in state s has counted its match on o, and no transaction for it
\* can land.
HasCounted(s, ts, o) ==
  \/ HoldsBoth(s, ts) /\ o \in Parties(s.match)
  \/ s.pc = "taker" /\ o = s.match.maker
  \/ s.pc = "undoTaker" /\ o = s.match.taker

Held(s, ts, o) == IF HasCounted(s, ts, o) THEN s.match.size ELSE 0
Pending(ts, t, o) ==
  IF t \in 1..Len(ts) /\ ts[t].state = "pending" /\ o \in Parties(ts[t].match)
    THEN ts[t].match.size ELSE 0

AtMatchers(ms, ts, o) == [m \in Matchers |-> Held(ms[m], ts, o)]
OnTheWay(ts, o) == [t \in TxIds |-> Pending(ts, t, o)]

Owed(ms, ts, o) == SumFunctionOnSet(AtMatchers(ms, ts, o), Matchers)
                   + SumFunctionOnSet(OnTheWay(ts, o), TxIds)
Gap(b, c, ms, ts, o) == b[o].filled - c.filled[o] - Owed(ms, ts, o)

\* Two matchers never wait for the same transaction.
PollsApart ==
  \A m, n \in Matchers : m # n /\ matcher[m].pc = "poll" /\ matcher[n].pc = "poll" =>
                           matcher[m].tx # matcher[n].tx

BookCovers == faults.lost = 0 => \A o \in SignedOnly : Gap(book, chain, matcher, txs, o) >= 0

Quiet == faults.stops + faults.lost = 0 /\ ~faults.overlap
AtMostOne == \A m, n \in Matchers : m # n => matcher[m].pc = "idle" \/ matcher[n].pc = "idle"

\* What a matcher in state s may still count on o in its tick.
Ahead(s, o) ==
  s.seen[o] + IF \/ s.pc = "maker" /\ o \in Parties(s.match)
                 \/ s.pc = "taker" /\ o = s.match.taker
                THEN s.match.size ELSE 0

AheadFits == \A m \in Matchers : matcher[m].pc # "idle" =>
               \A o \in Orders : book[o].filled + Ahead(matcher[m], o) <= Size[o]

\* The matcher that sent a transaction is still waiting for it.
PendingPolled ==
  \A t \in 1..Len(txs) : txs[t].state = "pending" /\ BothSigned(txs[t].match) =>
    \E m \in Matchers : matcher[m].pc = "poll" /\ matcher[m].tx = t

BookAgrees == \A o \in SignedOnly : Gap(book, chain, matcher, txs, o) = 0

QuietInv == Quiet => AtMostOne /\ AheadFits /\ PendingPolled /\ BookAgrees

BalanceInv == LinkInv /\ PollsApart /\ BookCovers /\ QuietInv

LEMMA SignedOnlyApart ==
  ASSUME NEW match \in Matches, ~BothSigned(match), NEW o \in SignedOnly
  PROVE  o \notin Parties(match)
<1>1. PICK pair \in Crossing : \E n \in 1..Lesser(Size[pair[1]], Size[pair[2]]) :
        match = [maker |-> pair[1], taker |-> pair[2], size |-> n]
  BY DEF Matches
<1>2. match.maker = pair[1] /\ match.taker = pair[2]
  BY <1>1
<1>. QED
  BY <1>2 DEF SignedOnly, Parties, BothSigned

LEMMA HeldType ==
  ASSUME NEW s, s.pc \in BusyMatcher => s.match \in Matches, NEW ts, NEW o
  PROVE  Held(s, ts, o) \in Nat
<1>1. HasCounted(s, ts, o) => s.pc \in BusyMatcher
  BY DEF HasCounted, HoldsBoth, BusyMatcher
<1>2. HasCounted(s, ts, o) => s.match.size \in Nat
  BY <1>1, MatchType
<1>. QED
  BY <1>2 DEF Held

LEMMA PendingType ==
  ASSUME NEW ts \in Seq(Transaction), NEW t, NEW o
  PROVE  Pending(ts, t, o) \in Nat
<1>1. ASSUME t \in 1..Len(ts)
      PROVE  ts[t].match.size \in Nat
  <2>1. ts[t] \in Transaction
    BY <1>1
  <2>2. ts[t].match \in Matches
    BY <2>1 DEF Transaction
  <2>. QED
    BY <2>2, MatchType
<1>. QED
  BY <1>1 DEF Pending

LEMMA TxIdsFinite == IsFiniteSet(TxIds)
  BY FS_Interval DEF TxIds

LEMMA OwedType ==
  ASSUME NEW ms, \A m \in Matchers : ms[m].pc \in BusyMatcher => ms[m].match \in Matches,
         NEW ts \in Seq(Transaction), NEW o
  PROVE  /\ Owed(ms, ts, o) \in Nat
         /\ \A m \in Matchers : Held(ms[m], ts, o) <= Owed(ms, ts, o)
<1> DEFINE f == AtMatchers(ms, ts, o)
           g == OnTheWay(ts, o)
           F == SumFunctionOnSet(f, Matchers)
           G == SumFunctionOnSet(g, TxIds)
<1>1. \A m \in Matchers : f[m] = Held(ms[m], ts, o) /\ f[m] \in Nat
  BY HeldType DEF AtMatchers
<1>2. \A t \in TxIds : g[t] \in Nat
  BY PendingType DEF OnTheWay
<1>. HIDE DEF f, g
<1>3. F \in Nat
  <2>1. \A m \in Matchers : f[m] \in Int /\ f[m] >= 0
    BY <1>1
  <2>2. F \in Int /\ F >= 0
    BY <2>1, SumType
  <2>. QED
    BY <2>2
<1>4. G \in Nat
  <2>1. \A t \in TxIds : g[t] \in Int /\ g[t] >= 0
    BY <1>2
  <2>2. G \in Int /\ G >= 0
    BY <2>1, SumType, TxIdsFinite
  <2>. QED
    BY <2>2
<1>5. ASSUME NEW m \in Matchers
      PROVE  f[m] <= F
  <2> DEFINE R == SumFunctionOnSet(f, Matchers \ {m})
  <2>1. \A n \in Matchers : f[n] \in Int /\ f[n] >= 0
    BY <1>1
  <2>2. F = f[m] + R
    BY <2>1, SumRemove, SMTT(30)
  <2>3. R \in Int /\ R >= 0
    <3>1. IsFiniteSet(Matchers \ {m}) /\ \A n \in Matchers \ {m} : f[n] \in Int /\ f[n] >= 0
      BY <2>1, FS_RemoveElement
    <3>. QED
      BY <3>1, SumType
  <2>. HIDE DEF F, R
  <2>. QED
    BY <1>3, <2>1, <2>2, <2>3
<1>6. Owed(ms, ts, o) = F + G
  BY DEF Owed, f, g
<1>. HIDE DEF F, G
<1>. QED
  BY <1>1, <1>3, <1>4, <1>5, <1>6

\* The sum over the matchers when one of them moves.
LEMMA MatchersMove ==
  ASSUME TypeInv, TypeInv', NEW o, NEW m \in Matchers,
         \A n \in Matchers \ {m} : Held(matcher'[n], txs', o) = Held(matcher[n], txs, o)
  PROVE  SumFunctionOnSet(AtMatchers(matcher', txs', o), Matchers)
           = SumFunctionOnSet(AtMatchers(matcher, txs, o), Matchers)
             + Held(matcher'[m], txs', o) - Held(matcher[m], txs, o)
<1>1. PICK f : f = AtMatchers(matcher, txs, o)
  OBVIOUS
<1>2. PICK g : g = AtMatchers(matcher', txs', o)
  OBVIOUS
<1>3. \A n \in Matchers : f[n] = Held(matcher[n], txs, o) /\ f[n] \in Int
  BY <1>1, HeldType DEF AtMatchers, TypeInv, MatcherTyped
<1>4. \A n \in Matchers : matcher'[n].pc \in BusyMatcher => matcher'[n].match \in Matches
  BY DEF TypeInv, MatcherTyped
<1>5. \A n \in Matchers : Held(matcher'[n], txs', o) \in Nat
  BY <1>4, HeldType
<1>6. \A n \in Matchers : g[n] = Held(matcher'[n], txs', o) /\ g[n] \in Int
  BY <1>2, <1>5 DEF AtMatchers
<1>7. \A n \in Matchers \ {m} : g[n] = f[n]
  BY <1>3, <1>6
<1>8. SumFunctionOnSet(g, Matchers) = SumFunctionOnSet(f, Matchers) + g[m] - f[m]
  BY <1>3, <1>6, <1>7, SumChange
<1>. QED
  BY <1>1, <1>2, <1>3, <1>6, <1>8

\* The sum over the transactions when one of them is sent or changes.
LEMMA WayMoves ==
  ASSUME TxsTyped, TxsTyped', NEW o, NEW t \in TxIds,
         \A u \in TxIds \ {t} : Pending(txs', u, o) = Pending(txs, u, o)
  PROVE  SumFunctionOnSet(OnTheWay(txs', o), TxIds)
           = SumFunctionOnSet(OnTheWay(txs, o), TxIds)
             + Pending(txs', t, o) - Pending(txs, t, o)
<1>1. PICK f : f = OnTheWay(txs, o)
  OBVIOUS
<1>2. PICK g : g = OnTheWay(txs', o)
  OBVIOUS
<1>3. txs \in Seq(Transaction) /\ txs' \in Seq(Transaction)
  BY DEF TxsTyped
<1>4. \A u \in TxIds : f[u] = Pending(txs, u, o) /\ f[u] \in Int
  BY <1>1, <1>3, PendingType DEF OnTheWay
<1>5. \A u \in TxIds : g[u] = Pending(txs', u, o) /\ g[u] \in Int
  BY <1>2, <1>3, PendingType DEF OnTheWay
<1>6. \A u \in TxIds \ {t} : g[u] = f[u]
  BY <1>4, <1>5
<1>7. SumFunctionOnSet(g, TxIds) = SumFunctionOnSet(f, TxIds) + g[t] - f[t]
  BY <1>4, <1>5, <1>6, TxIdsFinite, SumChange
<1>. QED
  BY <1>1, <1>2, <1>4, <1>5, <1>7

\* Sums that do not change.
LEMMA MatchersStay ==
  ASSUME NEW o, \A n \in Matchers : Held(matcher'[n], txs', o) = Held(matcher[n], txs, o)
  PROVE  AtMatchers(matcher', txs', o) = AtMatchers(matcher, txs, o)
  BY DEF AtMatchers

LEMMA WayStays ==
  ASSUME NEW o, \A u \in TxIds : Pending(txs', u, o) = Pending(txs, u, o)
  PROVE  OnTheWay(txs', o) = OnTheWay(txs, o)
  BY DEF OnTheWay

LEMMA SumsType ==
  ASSUME TypeInv, NEW o
  PROVE  /\ SumFunctionOnSet(AtMatchers(matcher, txs, o), Matchers) \in Int
         /\ SumFunctionOnSet(OnTheWay(txs, o), TxIds) \in Int
<1>1. PICK f : f = AtMatchers(matcher, txs, o)
  OBVIOUS
<1>2. PICK g : g = OnTheWay(txs, o)
  OBVIOUS
<1>3. \A n \in Matchers : f[n] \in Int
  BY <1>1, HeldType DEF AtMatchers, TypeInv, MatcherTyped
<1>4. \A u \in TxIds : g[u] \in Int
  BY <1>2, PendingType DEF OnTheWay, TypeInv, TxsTyped
<1>. QED
  BY <1>1, <1>2, <1>3, <1>4, SumType, TxIdsFinite

\* What is owed when one matcher moves and nothing is sent or included.
LEMMA OwedByOne ==
  ASSUME TypeInv, TypeInv', NEW o, NEW m \in Matchers, UNCHANGED txs,
         \A n \in Matchers : n # m => matcher'[n] = matcher[n]
  PROVE  Owed(matcher', txs', o)
           = Owed(matcher, txs, o) + Held(matcher'[m], txs, o) - Held(matcher[m], txs, o)
<1>1. \A n \in Matchers \ {m} : Held(matcher'[n], txs', o) = Held(matcher[n], txs, o)
  OBVIOUS
<1>2. SumFunctionOnSet(AtMatchers(matcher', txs', o), Matchers)
        = SumFunctionOnSet(AtMatchers(matcher, txs, o), Matchers)
          + Held(matcher'[m], txs', o) - Held(matcher[m], txs, o)
  BY <1>1, MatchersMove
<1>3. SumFunctionOnSet(OnTheWay(txs', o), TxIds) = SumFunctionOnSet(OnTheWay(txs, o), TxIds)
  OBVIOUS
<1>4. Held(matcher'[m], txs', o) = Held(matcher'[m], txs, o)
  OBVIOUS
<1>5. Held(matcher'[m], txs, o) \in Nat /\ Held(matcher[m], txs, o) \in Nat
  BY HeldType DEF TypeInv, MatcherTyped
<1>. QED
  BY <1>2, <1>3, <1>4, <1>5, SumsType DEF Owed

LEMMA OwedNow ==
  ASSUME TypeInv, NEW o
  PROVE  /\ Owed(matcher, txs, o) \in Nat
         /\ \A m \in Matchers : Held(matcher[m], txs, o) <= Owed(matcher, txs, o)
<1>1. /\ \A m \in Matchers : matcher[m].pc \in BusyMatcher => matcher[m].match \in Matches
      /\ txs \in Seq(Transaction)
  BY DEF TypeInv, MatcherTyped, TxsTyped
<1>. QED
  BY <1>1, OwedType

LEMMA OwedThen ==
  ASSUME TypeInv', NEW o
  PROVE  Owed(matcher', txs', o) \in Nat
<1>1. /\ \A m \in Matchers : matcher'[m].pc \in BusyMatcher => matcher'[m].match \in Matches
      /\ txs' \in Seq(Transaction)
  BY DEF TypeInv, MatcherTyped, TxsTyped
<1>. QED
  BY <1>1, OwedType

\* The numbers of a gap, before and after a step.
LEMMA GapNumbers ==
  ASSUME TypeInv, TypeInv', NEW o \in SignedOnly
  PROVE  /\ book[o].filled \in Nat /\ chain.filled[o] \in Nat /\ Owed(matcher, txs, o) \in Nat
         /\ book'[o].filled \in Nat /\ chain'.filled[o] \in Nat /\ Owed(matcher', txs', o) \in Nat
         /\ Gap(book, chain, matcher, txs, o) \in Int
         /\ Gap(book', chain', matcher', txs', o) \in Int
<1>1. Owed(matcher, txs, o) \in Nat /\ Owed(matcher', txs', o) \in Nat
  BY OwedNow, OwedThen
<1>2. /\ book[o].filled \in Nat /\ chain.filled[o] \in Nat
      /\ book'[o].filled \in Nat /\ chain'.filled[o] \in Nat
  BY DEF TypeInv, BookTyped, ChainTyped, SignedOnly
<1>. QED
  BY <1>1, <1>2 DEF Gap

-----------------------------------------------------------------------------
(***************************************************************************)
(* The steps of a matcher that leave the ledger alone: what is counted or  *)
(* uncounted in the book is what the matcher holds more or less.           *)
(***************************************************************************)
FaultsStay == /\ faults'.lost = 0 => faults.lost = 0
              /\ Quiet' => Quiet

Steady(m) ==
  /\ FaultsStay
  /\ faults'.lost = 0 => \A o \in SignedOnly :
       book'[o].filled - Held(matcher'[m], txs, o) >= book[o].filled - Held(matcher[m], txs, o)
  /\ Quiet' => \A o \in SignedOnly :
       book'[o].filled - Held(matcher'[m], txs, o) = book[o].filled - Held(matcher[m], txs, o)
  /\ Quiet' /\ matcher'[m].pc # "idle" =>
       \A o \in Orders : book'[o].filled + Ahead(matcher'[m], o) <= Size[o]
  /\ Quiet' => matcher[m].pc # "idle" \/ AllIdle
  /\ Quiet' /\ matcher[m].pc = "poll" => txs[matcher[m].tx].state # "pending"

LEMMA SameFaults == ASSUME UNCHANGED faults PROVE FaultsStay
  BY DEF FaultsStay, Quiet

LEMMA StopStays ==
  ASSUME FaultsTyped, Stop
  PROVE  FaultsStay /\ ~Quiet'
  BY DEF FaultsTyped, Stop, FaultsStay, Quiet

\* The numbers that a step is about.
LEMMA Figures ==
  ASSUME LinkInv, NEW m \in Matchers
  PROVE  /\ matcher \in [Matchers -> MatcherState] /\ matcher[m] \in MatcherState
         /\ matcher[m].seen \in [Orders -> Nat]
         /\ \A o \in Orders : matcher[m].seen[o] <= Size[o]
         /\ \A o \in Orders : book[o].filled \in Nat /\ book[o].filled <= Size[o] /\ Size[o] \in Nat
         /\ book \in [Orders -> [filled : Nat, cancelled : BOOLEAN]]
         /\ matcher[m].pc \in BusyMatcher => /\ matcher[m].match \in Matches
                                             /\ matcher[m].match.maker \in Orders
                                             /\ matcher[m].match.taker \in Orders
                                             /\ matcher[m].match.maker # matcher[m].match.taker
                                             /\ matcher[m].match.size \in Nat
         /\ SignedOnly \subseteq Orders
  BY MatchType DEF LinkInv, TypeInv, MatcherTyped, BookTyped, MatcherState, SignedOnly

LEMMA AheadNow ==
  ASSUME BalanceInv, Quiet, NEW m \in Matchers, matcher[m].pc # "idle", NEW o \in Orders
  PROVE  book[o].filled + Ahead(matcher[m], o) <= Size[o]
  BY DEF BalanceInv, QuietInv, AheadFits

LEMMA AheadType ==
  ASSUME TypeInv, NEW m \in Matchers, NEW o \in Orders
  PROVE  Ahead(matcher[m], o) \in Nat
<1>1. matcher[m].seen[o] \in Nat
  BY DEF TypeInv, MatcherTyped, MatcherState
<1>2. matcher[m].pc \in {"maker", "taker"} => matcher[m].match.size \in Nat
  BY MatchType DEF TypeInv, MatcherTyped, BusyMatcher
<1>. QED
  BY <1>1, <1>2 DEF Ahead

LEMMA HeldCovered ==
  ASSUME BalanceInv, faults.lost = 0, NEW m \in Matchers, NEW o \in SignedOnly
  PROVE  Held(matcher[m], txs, o) <= book[o].filled
<1>1. Gap(book, chain, matcher, txs, o) >= 0
  BY DEF BalanceInv, BookCovers
<1>2. Owed(matcher, txs, o) \in Nat /\ Held(matcher[m], txs, o) <= Owed(matcher, txs, o)
  BY OwedNow DEF BalanceInv, LinkInv
<1>3. chain.filled[o] \in Nat /\ book[o].filled \in Nat
  BY DEF BalanceInv, LinkInv, TypeInv, BookTyped, ChainTyped, SignedOnly
<1>4. Held(matcher[m], txs, o) \in Nat
  BY HeldType DEF BalanceInv, LinkInv, TypeInv, MatcherTyped
<1>. QED
  BY <1>1, <1>2, <1>3, <1>4 DEF Gap

LEMMA LoadSteady ==
  ASSUME BalanceInv, NEW m \in Matchers, LoadBook(m)
  PROVE  Steady(m)
<1>0. LinkInv
  BY DEF BalanceInv
<1> DEFINE left == [o \in Orders |-> IF Live(o) THEN Size[o] - book[o].filled ELSE 0]
<1>1. /\ matcher[m].pc = "idle" /\ matcher'[m].pc = "matching" /\ matcher'[m].seen = left
      /\ UNCHANGED <<book, txs>>
  BY <1>0, Figures DEF LoadBook, MatcherState, database, network
<1>2. \A o \in Orders : book[o].filled + left[o] <= Size[o]
  BY <1>0, Figures
<1>3. \A o : Held(matcher'[m], txs, o) = 0 /\ Held(matcher[m], txs, o) = 0 /\ Ahead(matcher'[m], o) = left[o] + 0
  BY <1>1 DEF Held, HasCounted, HoldsBoth, Ahead
<1>4. FaultsStay /\ (Quiet' => AllIdle)
  BY <1>0 DEF LoadBook, FaultsStay, Quiet, LinkInv, TypeInv, FaultsTyped
<1>5. \A o \in Orders : left[o] \in Nat
  BY <1>0, Figures DEF Live
<1>. HIDE DEF left
<1>. QED
  BY <1>0, <1>1, <1>2, <1>3, <1>4, <1>5, Figures DEF Steady

LEMMA EndSteady ==
  ASSUME BalanceInv, NEW m \in Matchers, EndTick(m)
  PROVE  Steady(m)
<1>0. LinkInv
  BY DEF BalanceInv
<1>1. /\ matcher[m].pc = "matching" /\ matcher'[m].pc = "idle"
      /\ UNCHANGED <<book, txs, faults>>
  BY <1>0, Figures DEF EndTick, IdleMatcher, database, network
<1>2. \A o : Held(matcher'[m], txs, o) = 0 /\ Held(matcher[m], txs, o) = 0
  BY <1>1 DEF Held, HasCounted, HoldsBoth
<1>. QED
  BY <1>0, <1>1, <1>2, SameFaults, Figures DEF Steady

LEMMA InsertSteady ==
  ASSUME BalanceInv, NEW m \in Matchers, InsertFill(m)
  PROVE  Steady(m)
<1>0. LinkInv
  BY DEF BalanceInv
<1>1. PICK pair \in Crossing : InsertFill(m)!(pair)
  BY ZenonT(60) DEF InsertFill
<1> DEFINE seen == matcher[m].seen
           size == Lesser(seen[pair[1]], seen[pair[2]])
           left == [seen EXCEPT ![pair[1]] = @ - size, ![pair[2]] = @ - size]
           match == [maker |-> pair[1], taker |-> pair[2], size |-> size]
<1>2. /\ matcher[m].pc = "matching" /\ matcher'[m].seen = left
      /\ \/ matcher'[m].pc = "matching"
         \/ matcher'[m].pc = "maker" /\ matcher'[m].match = match
      /\ UNCHANGED <<book, txs, faults>>
  BY <1>0, <1>1, Figures DEF MatcherState, network
<1>3. /\ pair[1] \in Orders /\ pair[2] \in Orders /\ pair[1] # pair[2]
      /\ seen \in [Orders -> Nat] /\ size \in Nat
  BY <1>0, Figures DEF Lesser
<1>4. ASSUME Quiet, NEW o \in Orders
      PROVE  book[o].filled + seen[o] <= Size[o]
  <2>1. book[o].filled + Ahead(matcher[m], o) <= Size[o]
    BY <1>2, <1>4, AheadNow
  <2>2. Ahead(matcher[m], o) = seen[o] + 0
    BY <1>2 DEF Ahead
  <2>. QED
    BY <1>3, <2>1, <2>2
<1>. HIDE DEF seen, size
<1>5. \A o \in Orders : left[o] = IF o \in {pair[1], pair[2]} THEN seen[o] - size ELSE seen[o]
  BY <1>3
<1>6. \A o : Parties(match) = {pair[1], pair[2]} /\ match.size = size
  BY DEF Parties
<1>7. ASSUME Quiet, NEW o \in Orders
      PROVE  book[o].filled + Ahead(matcher'[m], o) <= Size[o]
  <2>1. book[o].filled + seen[o] <= Size[o] /\ book[o].filled \in Nat /\ Size[o] \in Nat /\ seen[o] \in Nat
    BY <1>0, <1>3, <1>4, <1>7, Figures
  <2>2. CASE matcher'[m].pc = "matching"
    <3>1. Ahead(matcher'[m], o) = left[o] + 0
      BY <1>2, <2>2 DEF Ahead
    <3>. QED
      BY <1>3, <1>5, <2>1, <3>1
  <2>3. CASE matcher'[m].pc = "maker" /\ matcher'[m].match = match
    <3>1. Ahead(matcher'[m], o) = left[o] + IF o \in {pair[1], pair[2]} THEN size ELSE 0
      BY <1>2, <1>6, <2>3 DEF Ahead
    <3>. QED
      BY <1>3, <1>5, <2>1, <3>1
  <2>. QED
    BY <1>2, <2>2, <2>3
<1>8. \A o : Held(matcher'[m], txs, o) = 0 /\ Held(matcher[m], txs, o) = 0
  BY <1>2 DEF Held, HasCounted, HoldsBoth
<1>9. FaultsStay
  BY <1>2, SameFaults
<1>. QED
  BY <1>0, <1>2, <1>7, <1>8, <1>9, Figures DEF Steady, FaultsStay

LEMMA SkipSteady ==
  ASSUME BalanceInv, NEW m \in Matchers, SkipMatch(m)
  PROVE  Steady(m)
<1>0. LinkInv
  BY DEF BalanceInv
<1>1. PICK pair \in Crossing : SkipMatch(m)!(pair)
  BY Zenon DEF SkipMatch
<1> DEFINE seen == matcher[m].seen
           size == Lesser(seen[pair[1]], seen[pair[2]])
           left == [seen EXCEPT ![pair[1]] = @ - size, ![pair[2]] = @ - size]
<1>2. /\ matcher[m].pc = "matching" /\ matcher'[m].pc = "matching" /\ matcher'[m].seen = left
      /\ UNCHANGED <<txs, faults>>
  BY <1>0, <1>1, Figures DEF MatcherState, network
<1>3. /\ pair[1] \in Orders /\ pair[2] \in Orders /\ pair[1] # pair[2]
      /\ seen \in [Orders -> Nat] /\ size \in Nat
  BY <1>0, Figures DEF Lesser
<1>4. \A o \in Orders : book'[o].filled = book[o].filled
  BY <1>0, <1>1, Figures
<1>. HIDE DEF seen, size
<1>5. \A o \in Orders : left[o] \in Int /\ left[o] <= seen[o]
  BY <1>3
<1>6. ASSUME Quiet, NEW o \in Orders
      PROVE  book'[o].filled + Ahead(matcher'[m], o) <= Size[o]
  <2>1. book[o].filled + Ahead(matcher[m], o) <= Size[o]
    BY <1>2, <1>6, AheadNow
  <2>2. Ahead(matcher[m], o) = seen[o] + 0 /\ Ahead(matcher'[m], o) = left[o] + 0
    BY <1>2 DEF Ahead, seen
  <2>3. book[o].filled \in Nat /\ Size[o] \in Nat
    BY <1>0, Figures
  <2>. QED
    BY <1>3, <1>4, <1>5, <2>1, <2>2, <2>3
<1>7. \A o : Held(matcher'[m], txs, o) = 0 /\ Held(matcher[m], txs, o) = 0
  BY <1>2 DEF Held, HasCounted, HoldsBoth
<1>8. FaultsStay
  BY <1>2, SameFaults
<1>. QED
  BY <1>0, <1>2, <1>4, <1>6, <1>7, <1>8, Figures DEF Steady, FaultsStay

\* The statement that counts the match on one order.
LEMMA CountSteady ==
  ASSUME BalanceInv, NEW m \in Matchers, CountMaker(m) \/ CountTaker(m)
  PROVE  Steady(m)
<1> DEFINE s == matcher[m]
           n == s.match.size
           here == IF s.pc = "maker" THEN s.match.maker ELSE s.match.taker
<1>0. LinkInv
  BY DEF BalanceInv
<1>1. /\ s.pc \in {"maker", "taker"} /\ UNCHANGED <<txs, faults>>
      /\ matcher'[m].match = s.match /\ matcher'[m].seen = s.seen
      /\ \/ /\ book[here].filled + n <= Size[here]
            /\ book' = [book EXCEPT ![here].filled = @ + n]
            /\ matcher'[m].pc = IF s.pc = "maker" THEN "taker" ELSE "execute"
         \/ /\ ~(book[here].filled + n <= Size[here])
            /\ UNCHANGED book /\ matcher'[m].pc = "matching"
  <2>1. /\ s.pc \in {"maker", "taker"}
        /\ Count(m, here, IF s.pc = "maker" THEN "taker" ELSE "execute", "matching")
    BY Zenon DEF CountMaker, CountTaker
  <2>. HIDE DEF here
  <2>2. PICK next : next = IF s.pc = "maker" THEN "taker" ELSE "execute"
    OBVIOUS
  <2>3. Count(m, here, next, "matching")
    BY <2>1, <2>2
  <2>4. s \in MatcherState /\ matcher \in [Matchers -> MatcherState]
    BY <1>0, Figures
  <2>5. /\ UNCHANGED <<txs, faults>>
        /\ \/ /\ book[here].filled + n <= Size[here]
              /\ book' = [book EXCEPT ![here].filled = @ + n]
              /\ matcher' = [matcher EXCEPT ![m].pc = next]
           \/ /\ ~(book[here].filled + n <= Size[here])
              /\ UNCHANGED book /\ matcher' = [matcher EXCEPT ![m].pc = "matching"]
    BY <2>3, SMTT(30) DEF Count, Fits, Counted, network
  <2>. QED
    BY <2>1, <2>2, <2>4, <2>5 DEF MatcherState
<1>2. /\ s.match.maker \in Orders /\ s.match.taker \in Orders /\ s.match.maker # s.match.taker
      /\ n \in Nat /\ s.seen \in [Orders -> Nat]
      /\ \A o \in Orders : book[o].filled \in Nat /\ Size[o] \in Nat
      /\ book \in [Orders -> [filled : Nat, cancelled : BOOLEAN]]
  BY <1>0, <1>1, Figures, SMTT(30) DEF BusyMatcher
<1>3. \A o : /\ Held(s, txs, o) = IF s.pc = "taker" /\ o = s.match.maker THEN n ELSE 0
             /\ Ahead(s, o) = s.seen[o] + IF \/ s.pc = "maker" /\ o \in Parties(s.match)
                                             \/ s.pc = "taker" /\ o = s.match.taker
                                            THEN n ELSE 0
  BY <1>1, SMTT(30) DEF Held, HasCounted, HoldsBoth, Ahead
<1>4. FaultsStay
  BY <1>1, SameFaults
<1>5. ASSUME Quiet
      PROVE  book[here].filled + n <= Size[here]
  <2>1. here \in Orders /\ book[here].filled + Ahead(s, here) <= Size[here]
    BY <1>1, <1>2, <1>5, AheadNow, SMTT(30)
  <2>2. Ahead(s, here) = s.seen[here] + n
    BY <1>1, <1>3 DEF Parties
  <2>. QED
    BY <1>2, <2>1, <2>2, SMTT(30)
<1>6. CASE /\ book[here].filled + n <= Size[here]
           /\ book' = [book EXCEPT ![here].filled = @ + n]
           /\ matcher'[m].pc = IF s.pc = "maker" THEN "taker" ELSE "execute"
  <2>1. \A o : Held(matcher'[m], txs, o) =
                 IF (s.pc = "taker" /\ o = s.match.maker) \/ o = here THEN n ELSE 0
    BY <1>1, <1>2, <1>6, SMTT(30) DEF Held, HasCounted, HoldsBoth, Parties
  <2>2. \A o \in Orders : Ahead(matcher'[m], o) =
                 s.seen[o] + IF s.pc = "maker" /\ o = s.match.taker THEN n ELSE 0
    BY <1>1, <1>2, <1>6, SMTT(30) DEF Ahead
  <2>3. \A o \in Orders : book'[o].filled = book[o].filled + IF o = here THEN n ELSE 0
    BY <1>1, <1>2, <1>6, SMTT(30)
  <2>4. \A o \in Orders :
          book'[o].filled - Held(matcher'[m], txs, o) = book[o].filled - Held(s, txs, o)
    BY <1>1, <1>2, <1>3, <2>1, <2>3, SMTT(30)
  <2>5. ASSUME Quiet, NEW o \in Orders
        PROVE  book'[o].filled + Ahead(matcher'[m], o) <= Size[o]
    <3>1. book[o].filled + Ahead(s, o) <= Size[o]
      BY <1>1, <2>5, AheadNow
    <3>. QED
      BY <1>1, <1>2, <1>3, <2>2, <2>3, <3>1, SMTT(40) DEF Parties
  <2>6. \A o \in SignedOnly : book'[o].filled \in Int /\ Held(matcher'[m], txs, o) \in Int
    BY <1>0, <1>2, <2>1, <2>3, Figures
  <2>. HIDE DEF here, n
  <2>. QED
    BY <1>0, <1>1, <1>4, <2>4, <2>5, <2>6, Figures, SMTT(30) DEF Steady, FaultsStay
<1>7. CASE /\ ~(book[here].filled + n <= Size[here])
           /\ UNCHANGED book /\ matcher'[m].pc = "matching"
  <2>1. ~Quiet'
    BY <1>4, <1>5, <1>7, SMTT(30) DEF FaultsStay
  <2>2. \A o : Held(matcher'[m], txs, o) = 0 /\ Held(s, txs, o) \in Nat
    BY <1>1, <1>2, <1>3, <1>7 DEF Held, HasCounted, HoldsBoth
  <2>. QED
    BY <1>0, <1>2, <1>4, <1>7, <2>1, <2>2, Figures DEF Steady
<1>. HIDE DEF here, n
<1>. QED
  BY <1>1, <1>6, <1>7

\* Steps that only move the matcher on, with what it holds.
LEMMA OnlySteady ==
  ASSUME BalanceInv, NEW m \in Matchers,
         \/ RefuseSettlement(m) \/ SettlementFailed(m) \/ UndoRow(m)
         \/ RecordSettled(m) \/ QueueForAuth(m)
  PROVE  Steady(m)
<1> DEFINE s == matcher[m]
<1>0. LinkInv
  BY SMTT(30) DEF BalanceInv
<1>1. /\ UNCHANGED <<book, faults>>
      /\ s.pc \in {"execute", "poll", "undoRow"}
      /\ matcher'[m].match = s.match /\ matcher'[m].seen = s.seen
      /\ \/ /\ HoldsBoth(s, txs)
            /\ matcher'[m].pc \in {"undoRow", "undoMaker"}
         \/ /\ s.pc = "poll" /\ txs[s.tx].state = "landed"
            /\ matcher'[m].pc = "matching"
         \/ /\ s.pc = "execute" /\ ~BothSigned(s.match)
            /\ matcher'[m].pc = "matching"
      /\ s.pc = "poll" => txs[s.tx].state # "pending"
  <2>0. matcher \in [Matchers -> MatcherState]
    BY <1>0, Figures
  <2>1. CASE RefuseSettlement(m)
    BY <2>0, <2>1, SMTT(30) DEF RefuseSettlement, HoldsBoth, MatcherState, database
  <2>2. CASE SettlementFailed(m)
    BY <2>0, <2>2, SMTT(30) DEF SettlementFailed, HoldsBoth, MatcherState, database
  <2>3. CASE UndoRow(m)
    BY <2>0, <2>3, SMTT(30) DEF UndoRow, HoldsBoth, MatcherState
  <2>4. CASE RecordSettled(m)
    BY <2>0, <2>4, SMTT(30) DEF RecordSettled, HoldsBoth, MatcherState, Outcome
  <2>5. CASE QueueForAuth(m)
    BY <2>0, <2>5, SMTT(30) DEF QueueForAuth, HoldsBoth, MatcherState
  <2>. QED
    BY <2>1, <2>2, <2>3, <2>4, <2>5
<1>2. /\ s.match \in Matches /\ s.seen \in [Orders -> Nat] /\ s.match.size \in Nat
      /\ \A o \in Orders : book[o].filled \in Nat /\ Size[o] \in Nat
  BY <1>0, <1>1, Figures DEF BusyMatcher
<1>3. ASSUME NEW o \in SignedOnly
      PROVE  Held(matcher'[m], txs, o) = Held(s, txs, o)
  <2>1. ~BothSigned(s.match) => o \notin Parties(s.match)
    BY <1>2, SignedOnlyApart
  <2>. QED
    BY <1>1, <2>1 DEF Held, HasCounted, HoldsBoth
<1>4. \A o \in Orders : Ahead(matcher'[m], o) = Ahead(s, o)
  BY <1>1 DEF Ahead, HoldsBoth
<1>5. FaultsStay
  BY <1>1, SameFaults
<1>6. \A o \in SignedOnly : Held(s, txs, o) \in Int /\ book[o].filled \in Int
  BY <1>2, <1>0, Figures DEF Held
<1>. QED
  BY <1>0, <1>1, <1>3, <1>4, <1>5, <1>6, AheadNow DEF Steady, FaultsStay

\* The statement that uncounts the match on one order.
LEMMA UndoSteady ==
  ASSUME BalanceInv, NEW m \in Matchers, UndoMaker(m) \/ UndoTaker(m)
  PROVE  Steady(m)
<1> DEFINE s == matcher[m]
           n == s.match.size
           here == IF s.pc = "undoMaker" THEN s.match.maker ELSE s.match.taker
<1>0. LinkInv
  BY DEF BalanceInv
<1>1. /\ s.pc \in {"undoMaker", "undoTaker"} /\ UNCHANGED <<txs, faults>>
      /\ matcher'[m].match = s.match /\ matcher'[m].seen = s.seen
      /\ book' = [book EXCEPT ![here].filled = Greater(0, @ - n)]
      /\ matcher'[m].pc = IF s.pc = "undoMaker" THEN "undoTaker" ELSE "matching"
  <2>1. /\ s.pc \in {"undoMaker", "undoTaker"}
        /\ UndoCount(m, here, IF s.pc = "undoMaker" THEN "undoTaker" ELSE "matching")
    BY Zenon DEF UndoMaker, UndoTaker
  <2>. HIDE DEF here
  <2>2. PICK next : next = IF s.pc = "undoMaker" THEN "undoTaker" ELSE "matching"
    OBVIOUS
  <2>3. UndoCount(m, here, next)
    BY <2>1, <2>2
  <2>4. s \in MatcherState /\ matcher \in [Matchers -> MatcherState]
    BY <1>0, Figures
  <2>5. /\ UNCHANGED <<txs, faults>>
        /\ book' = [book EXCEPT ![here].filled = Greater(0, @ - n)]
        /\ matcher' = [matcher EXCEPT ![m].pc = next]
    BY <2>3 DEF UndoCount, Uncounted, network
  <2>. QED
    BY <2>1, <2>2, <2>4, <2>5 DEF MatcherState
<1>2. /\ s.match.maker \in Orders /\ s.match.taker \in Orders /\ s.match.maker # s.match.taker
      /\ n \in Nat /\ s.seen \in [Orders -> Nat]
      /\ \A o \in Orders : book[o].filled \in Nat /\ Size[o] \in Nat
      /\ book \in [Orders -> [filled : Nat, cancelled : BOOLEAN]]
  BY <1>0, <1>1, Figures DEF BusyMatcher
<1>3. \A o \in Orders :
        book'[o].filled = IF o = here THEN Greater(0, book[o].filled - n) ELSE book[o].filled
  BY <1>1, <1>2
<1>4. \A o : /\ Held(s, txs, o) =
                  IF \/ s.pc = "undoMaker" /\ o \in Parties(s.match)
                     \/ s.pc = "undoTaker" /\ o = s.match.taker
                    THEN n ELSE 0
             /\ Held(matcher'[m], txs, o) =
                  IF s.pc = "undoMaker" /\ o = s.match.taker THEN n ELSE 0
             /\ Ahead(s, o) = s.seen[o] + 0
             /\ Ahead(matcher'[m], o) = s.seen[o] + 0
  BY <1>1 DEF Held, HasCounted, HoldsBoth, Ahead
<1>5. FaultsStay
  BY <1>1, SameFaults
<1>6. ASSUME faults.lost = 0, NEW o \in SignedOnly
      PROVE  book'[o].filled - Held(matcher'[m], txs, o) = book[o].filled - Held(s, txs, o)
  <2>1. o \in Orders /\ Held(s, txs, o) <= book[o].filled
    BY <1>0, <1>6, HeldCovered, Figures
  <2>. HIDE DEF n
  <2>2. CASE o = here
    <3>1. Held(s, txs, o) = n /\ Held(matcher'[m], txs, o) = 0
      BY <1>1, <1>2, <1>4, <2>2 DEF Parties
    <3>2. book'[o].filled = book[o].filled - n
      BY <1>2, <1>3, <2>1, <2>2, <3>1 DEF Greater
    <3>. QED
      BY <1>2, <2>1, <3>1, <3>2
  <2>3. CASE o # here
    BY <1>1, <1>2, <1>3, <1>4, <2>1, <2>3 DEF Parties
  <2>. QED
    BY <2>2, <2>3
<1>7. ASSUME Quiet, NEW o \in Orders
      PROVE  book'[o].filled + Ahead(matcher'[m], o) <= Size[o]
  <2>1. book[o].filled + Ahead(s, o) <= Size[o]
    BY <1>1, <1>7, AheadNow
  <2>2. book'[o].filled \in Nat /\ book'[o].filled <= book[o].filled
    BY <1>2, <1>3 DEF Greater
  <2>. QED
    BY <1>2, <1>4, <2>1, <2>2
<1>8. Quiet => faults.lost = 0
  BY <1>0 DEF Quiet, LinkInv, TypeInv, FaultsTyped
<1>9. \A o \in SignedOnly : /\ book'[o].filled \in Int /\ Held(matcher'[m], txs, o) \in Int
                            /\ book[o].filled \in Int /\ Held(s, txs, o) \in Int
  BY <1>0, <1>2, <1>3, <1>4, Figures DEF Greater
<1>. HIDE DEF here, n
<1>. QED
  BY <1>0, <1>1, <1>5, <1>6, <1>7, <1>8, <1>9 DEF Steady, FaultsStay

\* What is dropped by a failure is not uncounted.
LEMMA DropSteady ==
  ASSUME BalanceInv, NEW m \in Matchers, FailStatement(m) \/ CrashMatcher(m) \/ LoseAnswer(m)
  PROVE  Steady(m)
<1>0. LinkInv /\ FaultsTyped /\ MatcherTyped
  BY DEF BalanceInv, LinkInv, TypeInv
<1>1. UNCHANGED <<book, txs>> \/ LoseAnswer(m)
  BY DEF FailStatement, CrashMatcher, database, network
<1>2. CASE LoseAnswer(m)
  <2>1. faults'.lost > 0 /\ faults'.stops \in Nat /\ faults'.lost \in Nat
    BY <1>0, <1>2 DEF LoseAnswer, FaultsTyped
  <2>. QED
    BY <2>1 DEF Steady, FaultsStay, Quiet
<1>3. CASE FailStatement(m) \/ CrashMatcher(m)
  <2>1. FaultsStay /\ ~Quiet'
    BY <1>0, <1>3, StopStays DEF FailStatement, CrashMatcher
  <2>2. UNCHANGED book /\ matcher'[m].pc \in {"idle", "matching"}
    <3>1. matcher \in [Matchers -> MatcherState]
      BY <1>0 DEF MatcherTyped
    <3>2. CASE FailStatement(m)
      BY <3>1, <3>2 DEF FailStatement, database, MatcherState
    <3>3. CASE CrashMatcher(m)
      BY <3>1, <3>3 DEF CrashMatcher, IdleMatcher, database
    <3>. QED
      BY <1>3, <3>2, <3>3
  <2>3. \A o : Held(matcher'[m], txs, o) = 0
    BY <2>2 DEF Held, HasCounted, HoldsBoth
  <2>4. \A o : Held(matcher[m], txs, o) \in Nat
    BY <1>0, HeldType DEF MatcherTyped
  <2>. QED
    BY <1>0, <2>1, <2>2, <2>3, <2>4, Figures DEF Steady
<1>. QED
  BY <1>2, <1>3

\* The steps of a matcher that send nothing.
OwnStep(m) == LocalMatcherStep(m) \/ RecordSettled(m) \/ QueueForAuth(m)

LEMMA OwnSteady ==
  ASSUME BalanceInv, NEW m \in Matchers, OwnStep(m)
  PROVE  /\ Steady(m)
         /\ UNCHANGED <<chain, txs>> /\ matcher'[m].pc # "poll"
         /\ \A n \in Matchers : n # m => matcher'[n] = matcher[n]
<1>0. LinkInv /\ TypeInv /\ matcher \in [Matchers -> MatcherState]
  BY DEF BalanceInv, LinkInv, TypeInv, MatcherTyped
<1>1. Steady(m)
  BY LoadSteady, EndSteady, InsertSteady, SkipSteady, CountSteady, OnlySteady, UndoSteady, DropSteady
     DEF OwnStep, LocalMatcherStep
<1>2. CASE LocalMatcherStep(m)
  <2>1. UNCHANGED chain
    <3>1. CASE InsertFill(m)
      BY <3>1 DEF InsertFill, network
    <3>2. CASE SkipMatch(m)
      BY <3>2 DEF SkipMatch, network
    <3>3. CASE \/ LoadBook(m) \/ EndTick(m) \/ CountMaker(m) \/ CountTaker(m) \/ UndoRow(m)
               \/ UndoMaker(m) \/ UndoTaker(m)
      BY <3>3 DEF LoadBook, EndTick, CountMaker, CountTaker, Count, UndoRow, UndoMaker, UndoTaker,
                  UndoCount, network
    <3>4. CASE \/ SettlementFailed(m) \/ LoseAnswer(m) \/ RefuseSettlement(m)
               \/ FailStatement(m) \/ CrashMatcher(m)
      BY <3>4 DEF SettlementFailed, LoseAnswer, RefuseSettlement, FailStatement, CrashMatcher, network
    <3>. QED
      BY <1>2, <3>1, <3>2, <3>3, <3>4 DEF LocalMatcherStep
  <2>. QED
    BY <1>0, <1>1, <1>2, <2>1, LocalStep
<1>3. CASE RecordSettled(m) \/ QueueForAuth(m)
  BY <1>0, <1>1, <1>3 DEF RecordSettled, QueueForAuth, network, MatcherState
<1>. QED
  BY <1>2, <1>3 DEF OwnStep

LEMMA OwnKeepsBalance ==
  ASSUME BalanceInv, TypeInv', NEW m \in Matchers, OwnStep(m)
  PROVE  PollsApart' /\ BookCovers' /\ QuietInv'
<1>0. /\ LinkInv /\ TypeInv
      /\ Steady(m) /\ UNCHANGED <<chain, txs>> /\ matcher'[m].pc # "poll"
      /\ \A n \in Matchers : n # m => matcher'[n] = matcher[n]
  BY OwnSteady DEF BalanceInv, LinkInv
<1>1. PollsApart'
  BY <1>0 DEF BalanceInv, PollsApart
<1>2. ASSUME NEW o \in SignedOnly
      PROVE  /\ faults'.lost = 0 => Gap(book', chain', matcher', txs', o) >= Gap(book, chain, matcher, txs, o)
             /\ Quiet' => Gap(book', chain', matcher', txs', o) = Gap(book, chain, matcher, txs, o)
  <2>1. Owed(matcher', txs', o) = Owed(matcher, txs, o) + Held(matcher'[m], txs, o) - Held(matcher[m], txs, o)
    BY <1>0, OwedByOne
  <2>2. /\ Owed(matcher, txs, o) \in Nat /\ chain.filled[o] \in Nat
        /\ book[o].filled \in Nat /\ book'[o].filled \in Nat
    BY <1>0, GapNumbers
  <2>3. Held(matcher[m], txs, o) \in Nat /\ Held(matcher'[m], txs, o) \in Nat
    BY <1>0, HeldType DEF TypeInv, MatcherTyped
  <2>. QED
    BY <1>0, <2>1, <2>2, <2>3 DEF Gap, Steady
<1>3. BookCovers'
  <2>1. ASSUME faults'.lost = 0, NEW o \in SignedOnly
        PROVE  Gap(book', chain', matcher', txs', o) >= 0
    <3>1. Gap(book, chain, matcher, txs, o) >= 0
      BY <1>0, <2>1 DEF BalanceInv, BookCovers, Steady, FaultsStay
    <3>2. Gap(book, chain, matcher, txs, o) \in Int /\ Gap(book', chain', matcher', txs', o) \in Int
      BY <1>0, GapNumbers
    <3>. QED
      BY <1>2, <2>1, <3>1, <3>2
  <2>. QED
    BY <2>1 DEF BookCovers
<1>4. ASSUME Quiet'
      PROVE  AtMostOne' /\ AheadFits' /\ PendingPolled' /\ BookAgrees'
  <2>0. Quiet /\ AtMostOne /\ AheadFits /\ PendingPolled /\ BookAgrees
    BY <1>0, <1>4 DEF Steady, FaultsStay, BalanceInv, QuietInv
  <2>1. \A n \in Matchers : n # m => matcher[n].pc = "idle" /\ matcher'[n].pc = "idle"
    BY <1>0, <1>4, <2>0 DEF Steady, AtMostOne, AllIdle
  <2>2. AtMostOne'
    BY <2>1 DEF AtMostOne
  <2>3. AheadFits'
    BY <1>0, <1>4, <2>1 DEF AheadFits, Steady
  <2>4. PendingPolled'
    <3>1. ASSUME NEW t \in 1..Len(txs), txs[t].state = "pending", BothSigned(txs[t].match)
          PROVE  \E n \in Matchers : matcher'[n].pc = "poll" /\ matcher'[n].tx = t
      <4>1. PICK n \in Matchers : matcher[n].pc = "poll" /\ matcher[n].tx = t
        BY <2>0, <3>1 DEF PendingPolled
      <4>2. n # m
        BY <1>0, <1>4, <3>1, <4>1 DEF Steady
      <4>. QED
        BY <1>0, <4>1, <4>2
    <3>. QED
      BY <1>0, <3>1 DEF PendingPolled, BothSigned
  <2>5. BookAgrees'
    BY <1>2, <1>4, <2>0 DEF BookAgrees
  <2>. QED
    BY <2>2, <2>3, <2>4, <2>5
<1>. QED
  BY <1>1, <1>3, <1>4 DEF QuietInv

-----------------------------------------------------------------------------
(***************************************************************************)
(* The steps of everybody else but the ledger: they leave these orders     *)
(* alone, and what they send is for other matches.                         *)
(***************************************************************************)
Aside ==
  /\ FaultsStay /\ UNCHANGED matcher
  /\ chain'.filled = chain.filled
  /\ \A o \in Orders : book'[o].filled <= book[o].filled
  /\ \A o \in SignedOnly : book'[o].filled = book[o].filled
  /\ Len(txs) <= Len(txs') /\ \A t \in 1..Len(txs) : txs'[t] = txs[t]
  /\ \A t \in 1..Len(txs') : t \notin 1..Len(txs) => ~BothSigned(txs'[t].match)

LEMMA AsideKeepsBalance ==
  ASSUME BalanceInv, TypeInv', Aside
  PROVE  PollsApart' /\ BookCovers' /\ QuietInv'
<1>0. LinkInv /\ TypeInv /\ Len(txs) \in Nat /\ Len(txs') \in Nat
  BY DEF BalanceInv, LinkInv, TypeInv, TxsTyped
<1>1. PollsApart'
  BY DEF Aside, BalanceInv, PollsApart
<1>2. ASSUME NEW o \in SignedOnly
      PROVE  Gap(book', chain', matcher', txs', o) = Gap(book, chain, matcher, txs, o)
  <2>1. ASSUME NEW n \in Matchers
        PROVE  Held(matcher'[n], txs', o) = Held(matcher[n], txs, o)
    <3>1. matcher[n].pc = "poll" => matcher[n].tx \in 1..Len(txs)
      BY <1>0 DEF LinkInv, MatcherLinked, Settles
    <3>. QED
      BY <3>1 DEF Aside, Held, HasCounted, HoldsBoth
  <2>2. ASSUME NEW t \in TxIds
        PROVE  Pending(txs', t, o) = Pending(txs, t, o)
    <3>1. CASE t \in 1..Len(txs)
      <4>1. t \in 1..Len(txs') /\ txs'[t] = txs[t]
        BY <1>0, <3>1 DEF Aside
      <4>. QED
        BY <3>1, <4>1 DEF Pending
    <3>2. CASE t \notin 1..Len(txs) /\ t \in 1..Len(txs')
      <4>1. ~BothSigned(txs'[t].match)
        BY <3>2 DEF Aside
      <4>2. txs'[t] \in Transaction
        BY <3>2 DEF TypeInv, TxsTyped
      <4>3. txs'[t].match \in Matches
        BY <4>2 DEF Transaction
      <4>4. o \notin Parties(txs'[t].match)
        BY <4>1, <4>3, SignedOnlyApart
      <4>. QED
        BY <3>2, <4>4 DEF Pending
    <3>3. CASE t \notin 1..Len(txs) /\ t \notin 1..Len(txs')
      BY <3>3 DEF Pending
    <3>. QED
      BY <3>1, <3>2, <3>3
  <2>3. Owed(matcher', txs', o) = Owed(matcher, txs, o)
    BY <2>1, <2>2, MatchersStay, WayStays DEF Owed
  <2>. QED
    BY <2>3 DEF Gap, Aside
<1>3. BookCovers'
  BY <1>2 DEF BookCovers, BalanceInv, Aside, FaultsStay
<1>4. ASSUME Quiet'
      PROVE  AtMostOne' /\ AheadFits' /\ PendingPolled' /\ BookAgrees'
  <2>0. Quiet /\ AtMostOne /\ AheadFits /\ PendingPolled /\ BookAgrees
    BY <1>4 DEF Aside, FaultsStay, BalanceInv, QuietInv
  <2>1. AtMostOne'
    BY <2>0 DEF AtMostOne, Aside
  <2>2. AheadFits'
    <3>1. ASSUME NEW m \in Matchers, matcher[m].pc # "idle", NEW o \in Orders
          PROVE  book'[o].filled + Ahead(matcher[m], o) <= Size[o]
      <4>1. book[o].filled + Ahead(matcher[m], o) <= Size[o]
        BY <2>0, <3>1 DEF AheadFits
      <4>2. book[o].filled \in Nat /\ book'[o].filled \in Nat /\ book'[o].filled <= book[o].filled
        BY <1>0 DEF TypeInv, BookTyped, Aside
      <4>3. Ahead(matcher[m], o) \in Nat
        BY <1>0, <3>1, AheadType
      <4>. QED
        BY <4>1, <4>2, <4>3
    <3>. QED
      BY <3>1 DEF AheadFits, Aside
  <2>3. PendingPolled'
    <3>1. ASSUME NEW t \in 1..Len(txs'), txs'[t].state = "pending", BothSigned(txs'[t].match)
          PROVE  \E n \in Matchers : matcher'[n].pc = "poll" /\ matcher'[n].tx = t
      <4>1. t \in 1..Len(txs) /\ txs'[t] = txs[t]
        BY <3>1 DEF Aside
      <4>2. \E n \in Matchers : matcher[n].pc = "poll" /\ matcher[n].tx = t
        BY <2>0, <3>1, <4>1 DEF PendingPolled
      <4>. QED
        BY <4>2 DEF Aside
    <3>. QED
      BY <3>1 DEF PendingPolled, BothSigned
  <2>4. BookAgrees'
    BY <1>2, <2>0 DEF BookAgrees
  <2>. QED
    BY <2>1, <2>2, <2>3, <2>4
<1>. QED
  BY <1>1, <1>3, <1>4 DEF QuietInv

\* What a send, or no send, does to the transactions.
LEMMA SendAside ==
  ASSUME TxsTyped, NEW match \in Matches, NEW auth \in 0..MaxQueued, Send(match, auth), ~BothSigned(match)
  PROVE  /\ Len(txs) <= Len(txs') /\ \A t \in 1..Len(txs) : txs'[t] = txs[t]
         /\ \A t \in 1..Len(txs') : t \notin 1..Len(txs) => ~BothSigned(txs'[t].match)
<1>1. /\ Len(txs') = Len(txs) + 1 /\ LastTx = Len(txs) + 1
      /\ txs'[LastTx] = [match |-> match, auth |-> auth, state |-> "pending"]
      /\ \A t \in 1..Len(txs) : txs'[t] = txs[t]
  BY SendTyped
<1>2. Len(txs) \in Nat /\ txs'[Len(txs) + 1].match = match
  BY <1>1 DEF TxsTyped
<1>3. ASSUME NEW t \in 1..Len(txs'), t \notin 1..Len(txs)
      PROVE  txs'[t].match = match
  <2>1. t = Len(txs) + 1
    BY <1>1, <1>2, <1>3
  <2>. QED
    BY <1>2, <2>1
<1>. QED
  BY <1>1, <1>2, <1>3

LEMMA QuietTxs ==
  ASSUME TypeInv, UNCHANGED txs
  PROVE  /\ Len(txs) <= Len(txs') /\ \A t \in 1..Len(txs) : txs'[t] = txs[t]
         /\ \A t \in 1..Len(txs') : t \notin 1..Len(txs) => ~BothSigned(txs'[t].match)
<1>1. Len(txs) \in Nat
  BY DEF TypeInv, TxsTyped
<1>. QED
  BY <1>1

LEMMA SameBook ==
  ASSUME TypeInv, UNCHANGED book
  PROVE  /\ \A o \in Orders : book'[o].filled <= book[o].filled
         /\ \A o \in SignedOnly : book'[o].filled = book[o].filled
  BY DEF TypeInv, BookTyped

LEMMA RouteAside ==
  ASSUME LinkInv, NEW match \in Matches,
         RouteStep(match) \/ CrashRoute(match) \/ \E o \in Orders : SignSettlement(match, o)
  PROVE  Aside
<1>0. TypeInv /\ FaultsTyped /\ TxsTyped /\ RouteTyped
  BY DEF LinkInv, TypeInv
<1>1. UNCHANGED <<book, chain, matcher>>
  BY DEF RouteStep, ClaimByRoute, SendByRoute, StoreHash, FailRoute, CrashRoute, SignSettlement,
         SignEntry, database, network
<1>2. FaultsStay
  <2>1. UNCHANGED faults \/ Stop
    BY DEF RouteStep, ClaimByRoute, SendByRoute, StoreHash, FailRoute, CrashRoute, SignSettlement, SignEntry
  <2>. QED
    BY <1>0, <2>1, SameFaults, StopStays
<1>3. UNCHANGED txs \/ SendByRoute(match)
  BY DEF RouteStep, ClaimByRoute, StoreHash, FailRoute, CrashRoute, SignSettlement, SignEntry, network
<1>4. CASE UNCHANGED txs
  BY <1>0, <1>1, <1>2, <1>4, QuietTxs, SameBook DEF Aside
<1>5. CASE SendByRoute(match)
  <2>1. Send(match, route[match].auth) /\ route[match].auth \in 0..MaxQueued /\ ~BothSigned(match)
    BY <1>0, <1>5 DEF SendByRoute, RouteTyped, LinkInv, RouteLinked
  <2>. QED
    BY <1>0, <1>1, <1>2, <2>1, SendAside, SameBook DEF Aside
<1>. QED
  BY <1>3, <1>4, <1>5

LEMMA SelectAside ==
  ASSUME LinkInv, NEW r \in Reconcilers, NEW match \in Matches,
         \/ SelectSubmitted(r, match) \/ SelectReady(r, match)
         \/ SelectStale(r, match) \/ SelectOld(r, match)
  PROVE  Aside
<1>0. TypeInv
  BY DEF LinkInv
<1>1. UNCHANGED <<book, chain, matcher, txs, faults>>
  BY DEF SelectSubmitted, SelectReady, SelectStale, SelectOld, Select, database, network
<1>. QED
  BY <1>0, <1>1, QuietTxs, SameBook, SameFaults DEF Aside

LEMMA ReconcilerAside ==
  ASSUME LinkInv, NEW r \in Reconcilers, ReconcilerStep(r) \/ CrashReconciler(r)
  PROVE  Aside
<1> DEFINE match == reconciler[r].match
<1>0. TypeInv /\ FaultsTyped /\ TxsTyped
  BY DEF LinkInv, TypeInv
<1>1. reconciler[r].pc # "idle"
  BY DEF ReconcilerStep, CrashReconciler, CheckSubmitted, ClaimByReconciler, SendByReconciler,
         StoreResent, AwaitResent, FailResend, RetagFill, ExpireRow, ExpireMaker, ExpireTaker,
         ExpireJob, ClearRow, ClearMaker, ClearTaker, ClearJob
<1>2. match \in Matches /\ ~BothSigned(match)
  BY <1>1 DEF LinkInv, ReconcilerLinked, TypeInv, ReconcilerTyped
<1>3. CASE ExpireMaker(r) \/ ExpireTaker(r) \/ ClearMaker(r) \/ ClearTaker(r)
  <2>1. PICK next : ExpireCount(r, match.maker, next) \/ ExpireCount(r, match.taker, next)
    BY <1>3 DEF ExpireMaker, ExpireTaker, ClearMaker, ClearTaker
  <2>2. PICK p \in Parties(match) : ExpireCount(r, p, next)
    BY <2>1 DEF Parties
  <2>3. p \in Orders /\ p \notin SignedOnly /\ match.size \in Nat
    BY <1>2, <2>2, MatchType, SignedOnlyApart DEF Parties
  <2>4. /\ book' = [book EXCEPT ![p].filled = Greater(0, @ - match.size)]
        /\ UNCHANGED <<chain, txs, matcher, faults>>
    BY <2>2 DEF ExpireCount, Uncounted, network
  <2>. HIDE DEF match
  <2>5. \A o \in Orders :
          book'[o].filled = IF o = p THEN Greater(0, book[o].filled - match.size) ELSE book[o].filled
    BY <1>0, <2>3, <2>4 DEF TypeInv, BookTyped
  <2>6. \A o \in Orders : book[o].filled \in Nat
    BY <1>0 DEF TypeInv, BookTyped
  <2>7. \A o \in Orders : book'[o].filled <= book[o].filled
    BY <2>3, <2>5, <2>6 DEF Greater
  <2>8. \A o \in SignedOnly : book'[o].filled = book[o].filled
    BY <2>3, <2>5 DEF SignedOnly
  <2>. QED
    BY <1>0, <2>4, <2>7, <2>8, QuietTxs, SameFaults DEF Aside
<1>4. CASE SendByReconciler(r)
  <2>1. /\ Send(match, reconciler[r].row.auth) /\ reconciler[r].row.auth \in 0..MaxQueued
        /\ UNCHANGED <<book, chain, matcher, faults>>
    BY <1>0, <1>4 DEF SendByReconciler, TypeInv, ReconcilerTyped, ReconcilerState, JobRow, database
  <2>. QED
    BY <1>0, <1>2, <2>1, SendAside, SameBook, SameFaults DEF Aside
<1>5. CASE \/ CheckSubmitted(r) \/ ClaimByReconciler(r) \/ StoreResent(r) \/ AwaitResent(r)
           \/ FailResend(r) \/ RetagFill(r) \/ ExpireRow(r) \/ ExpireJob(r) \/ ClearRow(r) \/ ClearJob(r)
           \/ CrashReconciler(r)
  <2>1. UNCHANGED <<book, chain, txs, matcher>> /\ (UNCHANGED faults \/ Stop)
    BY <1>5 DEF CheckSubmitted, ClaimByReconciler, StoreResent, AwaitResent, FailResend, RetagFill,
                ExpireRow, ExpireJob, ClearRow, ClearJob, CrashReconciler, database, network
  <2>2. FaultsStay
    BY <1>0, <2>1, SameFaults, StopStays
  <2>. QED
    BY <1>0, <2>1, <2>2, QuietTxs, SameBook DEF Aside
<1>. QED
  BY <1>3, <1>4, <1>5 DEF ReconcilerStep

LEMMA CancelAside ==
  ASSUME LinkInv,
         \/ \E o \in Cancellable : CancelInBook(o) \/ CancelOnChain(o)
         \/ UNCHANGED vars
  PROVE  Aside
<1>0. TypeInv
  BY DEF LinkInv, TypeInv
<1>1. CASE UNCHANGED vars
  BY <1>0, <1>1, QuietTxs, SameBook, SameFaults DEF vars, Aside
<1>2. ASSUME NEW o \in Cancellable, CancelInBook(o)
      PROVE  Aside
  <2>1. UNCHANGED <<chain, txs, matcher, faults>> /\ book' = [book EXCEPT ![o].cancelled = TRUE]
    BY <1>2 DEF CancelInBook, network
  <2>2. \A p \in Orders : book'[p].filled = book[p].filled /\ book[p].filled \in Nat
    BY <1>0, <2>1 DEF TypeInv, BookTyped
  <2>. QED
    BY <1>0, <2>1, <2>2, QuietTxs, SameFaults DEF Aside, SignedOnly
<1>3. ASSUME NEW o \in Cancellable, CancelOnChain(o)
      PROVE  Aside
  <2>1. UNCHANGED <<book, txs, matcher, faults>> /\ chain'.filled = chain.filled
    BY <1>0, <1>3 DEF CancelOnChain, database, TypeInv, ChainTyped
  <2>. QED
    BY <1>0, <2>1, QuietTxs, SameBook, SameFaults DEF Aside
<1>. QED
  BY <1>1, <1>2, <1>3

-----------------------------------------------------------------------------
(***************************************************************************)
(* What a matcher sends it no longer holds; what the ledger does not take  *)
(* it holds again.                                                         *)
(***************************************************************************)
LEMMA SubmitKeepsBalance ==
  ASSUME BalanceInv, TypeInv', NEW m \in Matchers, SubmitSigned(m)
  PROVE  PollsApart' /\ BookCovers' /\ QuietInv'
<1> DEFINE s == matcher[m]
           match == s.match
           n == match.size
           sent == [match |-> match, auth |-> 0, state |-> "pending"]
           new == Len(txs) + 1
<1>0. LinkInv /\ TypeInv /\ TxsTyped /\ TxsTyped' /\ matcher \in [Matchers -> MatcherState]
  BY DEF BalanceInv, LinkInv, TypeInv, MatcherTyped
<1>1. /\ s.pc = "execute" /\ BothSigned(match) /\ Send(match, 0) /\ match \in Matches
      /\ UNCHANGED <<book, chain, faults>>
      /\ matcher' = [matcher EXCEPT ![m].pc = "poll", ![m].tx = LastTx]
  BY <1>0 DEF SubmitSigned, TypeInv, MatcherTyped, BusyMatcher, database
<1>2. /\ Len(txs) \in Nat /\ Len(txs') = new /\ new \in TxIds
      /\ \A t \in 1..Len(txs) : txs'[t] = txs[t]
      /\ txs'[new] = sent
  <2>1. 0 \in 0..MaxQueued /\ Len(txs) \in Nat
    BY <1>0 DEF TxsTyped
  <2>. QED
    BY <1>0, <1>1, <2>1, SendTyped
<1>3. /\ matcher'[m].pc = "poll" /\ matcher'[m].tx = new /\ matcher'[m].match = match
      /\ matcher'[m].seen = s.seen
      /\ \A k \in Matchers : k # m => matcher'[k] = matcher[k]
  BY <1>0, <1>1, <1>2 DEF MatcherState, LastTx
<1>4. \A k \in Matchers : matcher[k].pc = "poll" => matcher[k].tx \in 1..Len(txs)
  BY <1>0 DEF LinkInv, MatcherLinked, Settles
<1>5. PollsApart'
  <2>1. new \notin 1..Len(txs)
    BY <1>2
  <2>. HIDE DEF new
  <2>. QED
    BY <1>3, <1>4, <2>1 DEF BalanceInv, PollsApart
<1>6. ASSUME NEW o \in SignedOnly
      PROVE  Gap(book', chain', matcher', txs', o) = Gap(book, chain, matcher, txs, o)
  <2> DEFINE h == IF o \in Parties(match) THEN n ELSE 0
  <2>1. \A k \in Matchers \ {m} : Held(matcher'[k], txs', o) = Held(matcher[k], txs, o)
    BY <1>2, <1>3, <1>4 DEF Held, HasCounted, HoldsBoth
  <2>2. Held(matcher'[m], txs', o) = 0
    BY <1>2, <1>3 DEF Held, HasCounted, HoldsBoth
  <2>3. Held(matcher[m], txs, o) = h
    BY <1>1 DEF Held, HasCounted, HoldsBoth
  <2>4. Pending(txs, new, o) = 0
    BY <1>2 DEF Pending
  <2>5. Pending(txs', new, o) = h
    BY <1>2 DEF Pending
  <2>6. \A t \in TxIds \ {new} : Pending(txs', t, o) = Pending(txs, t, o)
    <3>1. ASSUME NEW t \in TxIds, t # new
          PROVE  Pending(txs', t, o) = Pending(txs, t, o)
      <4>1. t \in 1..Len(txs') <=> t \in 1..Len(txs)
        BY <1>2, <3>1 DEF TxIds
      <4>. QED
        BY <1>2, <4>1 DEF Pending
    <3>. QED
      BY <3>1
  <2>7. h \in Int
    BY <1>1, MatchType
  <2>. HIDE DEF h, new
  <2>8. SumFunctionOnSet(AtMatchers(matcher', txs', o), Matchers)
          = SumFunctionOnSet(AtMatchers(matcher, txs, o), Matchers) + 0 - h
    BY <1>0, <2>1, <2>2, <2>3, MatchersMove
  <2>9. SumFunctionOnSet(OnTheWay(txs', o), TxIds) = SumFunctionOnSet(OnTheWay(txs, o), TxIds) + h - 0
    BY <1>0, <1>2, <2>4, <2>5, <2>6, WayMoves
  <2>10. Owed(matcher', txs', o) = Owed(matcher, txs, o)
    BY <1>0, <2>7, <2>8, <2>9, SumsType DEF Owed
  <2>. QED
    BY <1>1, <2>10 DEF Gap
<1>7. BookCovers'
  BY <1>1, <1>6 DEF BookCovers, BalanceInv
<1>8. ASSUME Quiet'
      PROVE  AtMostOne' /\ AheadFits' /\ PendingPolled' /\ BookAgrees'
  <2>0. Quiet /\ AtMostOne /\ AheadFits /\ PendingPolled /\ BookAgrees
    BY <1>1, <1>8 DEF Quiet, BalanceInv, QuietInv
  <2>1. AtMostOne'
    BY <1>1, <1>3, <2>0, ZenonT(60) DEF AtMostOne
  <2>2. AheadFits'
    <3>1. \A o : Ahead(matcher'[m], o) = Ahead(s, o)
      BY <1>1, <1>3 DEF Ahead
    <3>. QED
      BY <1>1, <1>3, <2>0, <3>1 DEF AheadFits
  <2>3. PendingPolled'
    <3>1. ASSUME NEW t \in 1..Len(txs'), txs'[t].state = "pending", BothSigned(txs'[t].match)
          PROVE  \E k \in Matchers : matcher'[k].pc = "poll" /\ matcher'[k].tx = t
      <4>1. CASE t = new
        BY <1>3, <4>1
      <4>2. CASE t # new
        <5>1. t \in 1..Len(txs) /\ txs'[t] = txs[t]
          BY <1>2, <4>2
        <5>2. PICK k \in Matchers : matcher[k].pc = "poll" /\ matcher[k].tx = t
          BY <2>0, <3>1, <5>1 DEF PendingPolled
        <5>3. k # m
          BY <1>1, <5>2
        <5>. QED
          BY <1>3, <5>2, <5>3
      <4>. QED
        BY <4>1, <4>2
    <3>. QED
      BY <3>1 DEF PendingPolled, BothSigned
  <2>4. BookAgrees'
    BY <1>6, <2>0 DEF BookAgrees
  <2>. QED
    BY <2>1, <2>2, <2>3, <2>4
<1>. QED
  BY <1>5, <1>7, <1>8 DEF QuietInv

\* What the end of a pending transaction does to one order's gap.
LEMMA LedgerGap ==
  ASSUME BalanceInv, TypeInv', NEW t \in 1..Len(txs), LedgerStep(t), NEW o \in SignedOnly
  PROVE  /\ Gap(book', chain', matcher', txs', o) >= Gap(book, chain, matcher, txs, o)
         /\ Quiet => Gap(book', chain', matcher', txs', o) = Gap(book, chain, matcher, txs, o)
<1> DEFINE match == txs[t].match
           h == IF o \in Parties(match) THEN match.size ELSE 0
           sumM == SumFunctionOnSet(AtMatchers(matcher, txs, o), Matchers)
           sumT == SumFunctionOnSet(OnTheWay(txs, o), TxIds)
<1>0. LinkInv /\ TypeInv /\ TxsTyped /\ TxsTyped' /\ Len(txs) \in Nat /\ Len(txs) <= MaxTxs
  BY DEF BalanceInv, LinkInv, TypeInv, TxsTyped
<1>1. txs[t].state = "pending" /\ UNCHANGED <<book, matcher, faults>>
  BY DEF LedgerStep, Land, Revert, Expire, database
<1>2. match \in Matches /\ h \in Nat /\ o \in Orders
  <2>1. txs[t] \in Transaction
    BY <1>0 DEF TxsTyped
  <2>2. match \in Matches
    BY <2>1 DEF Transaction
  <2>. QED
    BY <2>2, MatchType DEF SignedOnly
<1>3. PICK state \in {"landed", "failed", "expired"} :
        /\ txs' = [txs EXCEPT ![t].state = state]
        /\ chain'.filled[o] = chain.filled[o] + IF state = "landed" THEN h ELSE 0
  <2>0. chain \in [filled : [Orders -> Nat], cancelled : SUBSET Orders]
    BY <1>0 DEF TypeInv, ChainTyped
  <2>1. CASE Land(t)
    <3>1. txs' = [txs EXCEPT ![t].state = "landed"]
      BY <2>1 DEF Land
    <3>2. chain'.filled[o] = IF o \in Parties(match) THEN chain.filled[o] + match.size ELSE chain.filled[o]
      BY <1>2, <2>0, <2>1 DEF Land
    <3>3. chain'.filled[o] = chain.filled[o] + h
      BY <1>2, <2>0, <3>2
    <3>. HIDE DEF h
    <3>. QED
      BY <3>1, <3>3
  <2>2. CASE Revert(t) \/ Expire(t)
    <3>1. UNCHANGED chain /\ \E state \in {"failed", "expired"} : txs' = [txs EXCEPT ![t].state = state]
      BY <2>2 DEF Revert, Expire
    <3>2. chain.filled[o] = chain.filled[o] + 0
      BY <1>2, <2>0
    <3>. HIDE DEF h
    <3>. QED
      BY <3>1, <3>2
  <2>. QED
    BY <2>1, <2>2 DEF LedgerStep
<1>4. /\ Len(txs') = Len(txs)
      /\ txs'[t].state = state /\ txs'[t].match = match
      /\ \A u \in 1..Len(txs) : u # t => txs'[u] = txs[u]
  <2>1. txs[t] \in Transaction
    BY <1>0 DEF TxsTyped
  <2>2. [txs[t] EXCEPT !.state = state].state = state /\ [txs[t] EXCEPT !.state = state].match = match
    BY <2>1 DEF Transaction
  <2>. QED
    BY <1>0, <1>3, <2>2, StateSet
<1>5. t \in TxIds /\ Pending(txs, t, o) = h /\ Pending(txs', t, o) = 0
  BY <1>0, <1>1, <1>4 DEF Pending, TxIds
<1>6. \A u \in TxIds \ {t} : Pending(txs', u, o) = Pending(txs, u, o)
  BY <1>4 DEF Pending
<1>7. SumFunctionOnSet(OnTheWay(txs', o), TxIds) = sumT + 0 - h
  BY <1>0, <1>5, <1>6, WayMoves
<1>8. \A k \in Matchers : matcher[k].pc = "poll" => /\ matcher[k].tx \in 1..Len(txs)
                                                    /\ txs[matcher[k].tx].match = matcher[k].match
  BY <1>0 DEF LinkInv, MatcherLinked, Settles
<1>9. \A k \in Matchers : ~(matcher[k].pc = "poll" /\ matcher[k].tx = t) =>
                            Held(matcher'[k], txs', o) = Held(matcher[k], txs, o)
  BY <1>1, <1>4, <1>8 DEF Held, HasCounted, HoldsBoth
<1>10. ASSUME NEW k \in Matchers, matcher[k].pc = "poll", matcher[k].tx = t
       PROVE  /\ Held(matcher[k], txs, o) = 0
              /\ Held(matcher'[k], txs', o) = IF state = "landed" THEN 0 ELSE h
  BY <1>1, <1>3, <1>4, <1>8, <1>10 DEF Held, HasCounted, HoldsBoth
<1>. HIDE DEF h, match
<1>11. CASE \E k \in Matchers : matcher[k].pc = "poll" /\ matcher[k].tx = t
  <2>1. PICK k \in Matchers : matcher[k].pc = "poll" /\ matcher[k].tx = t
    BY <1>11
  <2>2. \A j \in Matchers \ {k} : Held(matcher'[j], txs', o) = Held(matcher[j], txs, o)
    BY <1>9, <2>1 DEF BalanceInv, PollsApart
  <2>3. SumFunctionOnSet(AtMatchers(matcher', txs', o), Matchers)
          = sumM + (IF state = "landed" THEN 0 ELSE h) - 0
    BY <1>0, <1>10, <2>1, <2>2, MatchersMove
  <2>4. Owed(matcher', txs', o) = Owed(matcher, txs, o) - IF state = "landed" THEN h ELSE 0
    BY <1>0, <1>2, <1>7, <2>3, SumsType DEF Owed
  <2>5. Gap(book', chain', matcher', txs', o) = Gap(book, chain, matcher, txs, o)
    BY <1>0, <1>1, <1>2, <1>3, <2>4, GapNumbers, SMTT(30) DEF Gap
  <2>. QED
    BY <1>0, <2>5, GapNumbers
<1>12. CASE ~\E k \in Matchers : matcher[k].pc = "poll" /\ matcher[k].tx = t
  <2>1. SumFunctionOnSet(AtMatchers(matcher', txs', o), Matchers) = sumM
    BY <1>9, <1>12, MatchersStay
  <2>2. Owed(matcher', txs', o) = Owed(matcher, txs, o) - h
    BY <1>0, <1>2, <1>7, <2>1, SumsType DEF Owed
  <2>3. Gap(book', chain', matcher', txs', o)
          = Gap(book, chain, matcher, txs, o) + h - IF state = "landed" THEN h ELSE 0
    <3>1. PICK d \in Nat : d = IF state = "landed" THEN h ELSE 0
      BY <1>2
    <3>2. chain'.filled[o] = chain.filled[o] + d
      BY <1>3, <3>1
    <3>3. Gap(book, chain, matcher, txs, o) = book[o].filled - chain.filled[o] - Owed(matcher, txs, o)
      BY DEF Gap
    <3>4. Gap(book', chain', matcher', txs', o) = book[o].filled - (chain.filled[o] + d) - (Owed(matcher, txs, o) - h)
      BY <1>1, <2>2, <3>2 DEF Gap
    <3>5. Gap(book', chain', matcher', txs', o) = Gap(book, chain, matcher, txs, o) + h - d
      <4>1. /\ book[o].filled \in Nat /\ chain.filled[o] \in Nat /\ Owed(matcher, txs, o) \in Nat
            /\ h \in Nat /\ d \in Nat
        BY <1>0, <1>2, <3>1, GapNumbers
      <4>2. \A b, c, w, x, y \in Nat : b - (c + y) - (w - x) = (b - c - w) + x - y
        OBVIOUS
      <4>. QED
        BY <3>3, <3>4, <4>1, <4>2
    <3>. QED
      BY <3>1, <3>5
  <2>4. Quiet => h = 0
    <3>1. Quiet => ~BothSigned(match)
      BY <1>1, <1>12 DEF BalanceInv, QuietInv, PendingPolled, match
    <3>. QED
      BY <1>2, <3>1, SignedOnlyApart DEF h
  <2>. QED
    BY <1>0, <1>2, <2>3, <2>4, GapNumbers
<1>. QED
  BY <1>11, <1>12

LEMMA LedgerKeepsBalance ==
  ASSUME BalanceInv, TypeInv', NEW t \in 1..Len(txs), LedgerStep(t)
  PROVE  PollsApart' /\ BookCovers' /\ QuietInv'
<1>0. LinkInv /\ TypeInv /\ TxsTyped
  BY DEF BalanceInv, LinkInv, TypeInv
<1>1. UNCHANGED <<book, matcher, faults>>
  BY DEF LedgerStep, Land, Revert, Expire, database
<1>2. PollsApart' /\ (AtMostOne => AtMostOne') /\ (AheadFits => AheadFits')
  BY <1>1 DEF BalanceInv, PollsApart, AtMostOne, AheadFits, Ahead, Parties
<1>3. BookCovers'
  <2>1. ASSUME faults'.lost = 0, NEW o \in SignedOnly
        PROVE  Gap(book', chain', matcher', txs', o) >= 0
    <3>1. Gap(book, chain, matcher, txs, o) >= 0
      BY <1>1, <2>1 DEF BalanceInv, BookCovers
    <3>. QED
      BY <1>0, <3>1, LedgerGap, GapNumbers
  <2>. QED
    BY <2>1 DEF BookCovers
<1>4. PendingPolled => PendingPolled'
  <2>1. PICK state \in {"landed", "failed", "expired"} : txs' = [txs EXCEPT ![t].state = state]
    BY DEF LedgerStep, Land, Revert, Expire
  <2>2. /\ Len(txs') = Len(txs) /\ txs'[t].state # "pending"
        /\ \A u \in 1..Len(txs) : u # t => txs'[u] = txs[u]
    <3>1. txs[t] \in Transaction
      BY <1>0 DEF TxsTyped
    <3>2. [txs[t] EXCEPT !.state = state].state = state
      BY <3>1 DEF Transaction
    <3>. QED
      BY <1>0, <2>1, <3>2, StateSet
  <2>. QED
    BY <1>1, <2>2 DEF PendingPolled, BothSigned
<1>5. ASSUME Quiet'
      PROVE  BookAgrees'
  <2>1. Quiet /\ BookAgrees
    BY <1>1, <1>5 DEF Quiet, BalanceInv, QuietInv
  <2>. QED
    BY <2>1, LedgerGap DEF BookAgrees
<1>6. Quiet' => Quiet
  BY <1>1 DEF Quiet
<1>. QED
  BY <1>2, <1>3, <1>4, <1>5, <1>6 DEF QuietInv, BalanceInv

LEMMA InitBalance == Init => BalanceInv
<1> SUFFICES ASSUME Init
             PROVE  BalanceInv
  OBVIOUS
<1>0. LinkInv /\ TypeInv
  BY InitLinked DEF LinkInv
<1>1. /\ \A m \in Matchers : matcher[m].pc = "idle"
      /\ Len(txs) = 0 /\ \A o \in Orders : book[o].filled = 0 /\ chain.filled[o] = 0
  BY DEF Init, IdleMatcher
<1>2. PollsApart /\ AtMostOne /\ AheadFits /\ PendingPolled
  BY <1>1 DEF PollsApart, AtMostOne, AheadFits, PendingPolled
<1>3. ASSUME NEW o \in SignedOnly
      PROVE  Gap(book, chain, matcher, txs, o) = 0
  <2>1. PICK f : f = AtMatchers(matcher, txs, o)
    OBVIOUS
  <2>2. PICK g : g = OnTheWay(txs, o)
    OBVIOUS
  <2>3. \A m \in Matchers : f[m] = 0
    BY <1>1, <2>1 DEF AtMatchers, Held, HasCounted, HoldsBoth
  <2>4. \A t \in TxIds : g[t] = 0
    BY <1>1, <2>2 DEF OnTheWay, Pending
  <2>5. Owed(matcher, txs, o) = 0
    BY <2>1, <2>2, <2>3, <2>4, SumZero, TxIdsFinite DEF Owed
  <2>. QED
    BY <1>1, <2>5 DEF Gap, SignedOnly
<1>4. BookCovers /\ BookAgrees
  BY <1>3 DEF BookCovers, BookAgrees
<1>. QED
  BY <1>0, <1>2, <1>4 DEF BalanceInv, QuietInv

LEMMA NextBalance == BalanceInv /\ [Next]_vars => BalanceInv'
<1> SUFFICES ASSUME BalanceInv, [Next]_vars
             PROVE  BalanceInv'
  OBVIOUS
<1>0. LinkInv
  BY DEF BalanceInv
<1>1. LinkInv' /\ TypeInv'
  BY <1>0, NextLinked DEF LinkInv
<1>2. ASSUME NEW m \in Matchers, MatcherStep(m) \/ LoseAnswer(m) \/ FailStatement(m) \/ CrashMatcher(m)
      PROVE  PollsApart' /\ BookCovers' /\ QuietInv'
  <2>1. OwnStep(m) \/ SubmitSigned(m)
    BY <1>2 DEF MatcherStep, OwnStep, LocalMatcherStep
  <2>. QED
    BY <1>1, <2>1, OwnKeepsBalance, SubmitKeepsBalance
<1>3. ASSUME Aside
      PROVE  PollsApart' /\ BookCovers' /\ QuietInv'
  BY <1>1, <1>3, AsideKeepsBalance
<1>4. ASSUME NEW match \in Matches, RouteStep(match) \/ CrashRoute(match) \/ \E o \in Orders : SignSettlement(match, o)
      PROVE  Aside
  BY <1>0, <1>4, RouteAside
<1>5. ASSUME NEW r \in Reconcilers, NEW match \in Matches,
             \/ SelectSubmitted(r, match) \/ SelectReady(r, match)
             \/ SelectStale(r, match) \/ SelectOld(r, match)
      PROVE  Aside
  BY <1>0, <1>5, SelectAside
<1>6. ASSUME NEW r \in Reconcilers, ReconcilerStep(r) \/ CrashReconciler(r)
      PROVE  Aside
  BY <1>0, <1>6, ReconcilerAside
<1>7. ASSUME NEW t \in 1..Len(txs), LedgerStep(t)
      PROVE  PollsApart' /\ BookCovers' /\ QuietInv'
  BY <1>1, <1>7, LedgerKeepsBalance
<1>8. ASSUME NEW o \in Cancellable, CancelInBook(o) \/ CancelOnChain(o)
      PROVE  Aside
  BY <1>0, <1>8, CancelAside
<1>9. ASSUME UNCHANGED vars
      PROVE  PollsApart' /\ BookCovers' /\ QuietInv'
  <2>1. Aside
    BY <1>0, <1>9, CancelAside
  <2>. QED
    BY <1>3, <2>1
<1>10. ASSUME Next
       PROVE  PollsApart' /\ BookCovers' /\ QuietInv'
  <2>1. CASE \E m \in Matchers : MatcherStep(m) \/ LoseAnswer(m) \/ FailStatement(m) \/ CrashMatcher(m)
    BY <1>2, <2>1
  <2>2. CASE \/ \E match \in Matches : RouteStep(match) \/ CrashRoute(match)
             \/ \E match \in Matches, o \in Orders : SignSettlement(match, o)
    <3>1. Aside
      BY <1>4, <2>2
    <3>. QED
      BY <1>3, <3>1
  <2>3. CASE \/ \E r \in Reconcilers, match \in Matches :
                  \/ SelectSubmitted(r, match) \/ SelectReady(r, match)
                  \/ SelectStale(r, match)     \/ SelectOld(r, match)
             \/ \E r \in Reconcilers : ReconcilerStep(r) \/ CrashReconciler(r)
    <3>1. Aside
      BY <1>5, <1>6, <2>3
    <3>. QED
      BY <1>3, <3>1
  <2>4. CASE \E o \in Cancellable : CancelInBook(o) \/ CancelOnChain(o)
    <3>1. Aside
      BY <1>8, <2>4
    <3>. QED
      BY <1>3, <3>1
  <2>5. CASE \E t \in 1..Len(txs) : LedgerStep(t)
    BY <1>7, <2>5
  <2>. QED
    BY <1>10, <2>1, <2>2, <2>3, <2>4, <2>5 DEF Next
<1>11. PollsApart' /\ BookCovers' /\ QuietInv'
  BY <1>9, <1>10
<1>. QED
  BY <1>1, <1>11 DEF BalanceInv

LEMMA BalanceAlways == Spec => []BalanceInv
  BY InitBalance, NextBalance, PTL DEF Spec

\* Unless an answer was lost, the gateway has never filled more of an order
\* that the matcher settles than the book counts: for any number of matcher
\* instances that persist, submit and roll back at once, and any crashes.
THEOREM BookNeverBehind == Spec => []SettledIsCounted
<1>1. BalanceInv => SettledIsCounted
  <2> SUFFICES ASSUME BalanceInv, faults.lost = 0, NEW o \in SignedOnly
               PROVE  chain.filled[o] <= book[o].filled
    BY DEF SettledIsCounted
  <2>1. TypeInv /\ Gap(book, chain, matcher, txs, o) >= 0
    BY DEF BalanceInv, LinkInv, BookCovers
  <2>2. Owed(matcher, txs, o) \in Nat
    BY <2>1, OwedNow
  <2>3. chain.filled[o] \in Nat /\ book[o].filled \in Nat
    BY <2>1 DEF TypeInv, ChainTyped, BookTyped, SignedOnly
  <2>. QED
    BY <2>1, <2>2, <2>3 DEF Gap
<1>. QED
  BY <1>1, BalanceAlways, PTL

\* Without failures and with one instance at work at a time, the book and the
\* gateway agree exactly between two ticks: every fill a tick counted was
\* settled or undone.
THEOREM QuietBookExact == Spec => []QuietBookAgrees
<1>1. BalanceInv => QuietBookAgrees
  <2> SUFFICES ASSUME BalanceInv, Quiet, AllIdle, NEW o \in SignedOnly
               PROVE  chain.filled[o] = book[o].filled
    BY DEF QuietBookAgrees, Quiet
  <2>0. TypeInv /\ PendingPolled /\ Gap(book, chain, matcher, txs, o) = 0
    BY DEF BalanceInv, LinkInv, QuietInv, BookAgrees
  <2>1. PICK f : f = AtMatchers(matcher, txs, o)
    OBVIOUS
  <2>2. PICK g : g = OnTheWay(txs, o)
    OBVIOUS
  <2>3. \A m \in Matchers : f[m] = 0
    BY <2>1 DEF AllIdle, AtMatchers, Held, HasCounted, HoldsBoth
  <2>4. \A t \in TxIds : g[t] = 0
    <3>1. ASSUME NEW t \in TxIds
          PROVE  Pending(txs, t, o) = 0
      <4>1. CASE t \in 1..Len(txs) /\ txs[t].state = "pending"
        <5>1. ~BothSigned(txs[t].match)
          BY <2>0, <4>1 DEF PendingPolled, AllIdle
        <5>2. txs[t] \in Transaction
          BY <2>0, <4>1 DEF TypeInv, TxsTyped
        <5>3. txs[t].match \in Matches
          BY <5>2 DEF Transaction
        <5>. QED
          BY <5>1, <5>3, SignedOnlyApart DEF Pending
      <4>2. CASE ~(t \in 1..Len(txs) /\ txs[t].state = "pending")
        BY <4>2 DEF Pending
      <4>. QED
        BY <4>1, <4>2
    <3>. QED
      BY <2>2, <3>1 DEF OnTheWay
  <2>5. Owed(matcher, txs, o) = 0
    BY <2>1, <2>2, <2>3, <2>4, SumZero, TxIdsFinite DEF Owed
  <2>6. chain.filled[o] \in Nat /\ book[o].filled \in Nat
    BY <2>0 DEF TypeInv, ChainTyped, BookTyped, SignedOnly
  <2>. QED
    BY <2>0, <2>5, <2>6 DEF Gap
<1>. QED
  BY <1>1, BalanceAlways, PTL

=============================================================================
