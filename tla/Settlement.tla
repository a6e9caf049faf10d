----------------------------- MODULE Settlement -----------------------------
(***************************************************************************)
(* How an off-chain match becomes an on-chain fill.  Four programs share   *)
(* three database tables and the ledger: the matcher service, the route    *)
(* through which a trader signs a settlement, the settlement reconciler,   *)
(* and the clients that place and cancel orders.  A database statement is  *)
(* one step (no program opens a transaction), a call to the ledger is one  *)
(* step, and everything in between may be interleaved or cut short.        *)
(*                                                                         *)
(* A match whose two orders carry settlement signatures is submitted by    *)
(* the matcher itself; any other is queued as a TxJob until both traders   *)
(* have signed its Soroban authorisation entries.                          *)
(*                                                                         *)
(* Prices, fees, signatures and elapsed time are abstracted: any pair of   *)
(* Crossing may match, a timeout may fire at any moment, and a row that a  *)
(* program selects by age may be selected at once.                         *)
(***************************************************************************)
EXTENDS Integers, Sequences, FiniteSets

CONSTANTS
  Orders,
  Size,          \* Order.size, the same number the trader signed
  Crossing,      \* pairs <<maker, taker>> matchAll would pair
  Signed,        \* orders with a stored settlement signature
  Poisoned,      \* signed orders whose stored signature does not verify
  Cancellable,   \* orders whose owner may cancel
  Matchers,      \* instances of the matcher service
  Reconcilers,   \* instances of the settlement reconciler
  NoMatch,       \* a program that is not working on any match
  MaxTxs,        \* bound on the transactions ever sent
  MaxQueued,     \* bound on how often one job is queued
  MaxFaults      \* bound on crashes, failed statements and lost answers

ASSUME SettlementAssumption ==
  /\ Size \in [Orders -> Nat \ {0}]
  /\ Crossing \subseteq Orders \X Orders
  /\ \A pair \in Crossing : pair[1] # pair[2]
  /\ Signed \subseteq Orders /\ Poisoned \subseteq Signed
  /\ Cancellable \subseteq Orders
  /\ IsFiniteSet(Matchers)
  /\ MaxTxs \in Nat
  /\ MaxQueued \in Nat
  /\ MaxFaults \in Nat

Lesser(a, b) == IF a < b THEN a ELSE b
Greater(a, b) == IF a > b THEN a ELSE b

\* pseudoTxHash is a function of the two orders and the fill size, so a match
\* and its pseudo-hash are one thing here: the key of its Fill row and its job.
\* (It is a hash of 31 bits: that two matches have one hash is left out.)
Matches == UNION {{[maker |-> pair[1], taker |-> pair[2], size |-> n] :
                     n \in 1..Lesser(Size[pair[1]], Size[pair[2]])} :
                  pair \in Crossing}
BothSigned(match) == {match.maker, match.taker} \subseteq Signed
Parties(match) == {match.maker, match.taker}

NoTx == 0
TxIds == 1..MaxTxs

JobStates == {"none", "QUEUED", "SUBMITTED", "CONFIRMED", "FAILED"}
NoJob == [status |-> "none", auth |-> 0, entries |-> {}, hash |-> NoTx]

VARIABLES
  book,        \* Order rows: how much is filled, whether cancelled
  fills,       \* Fill rows: the match and its hash, NoTx for the pseudo-hash
  jobs,        \* TxJob rows: status, which authorisation entries were asked
               \* for (auth), who has signed them, submittedHash
  chain,       \* the gateway: filled sizes, cancelled orders
  txs,         \* transactions sent to the network
  matcher,     \* where each matcher instance is
  route,       \* where the sign request that holds a job's entries is
  reconciler,  \* where each reconciler instance is
  faults       \* history: crashes and failed statements, lost answers, and
               \* whether two matcher instances were ever at work at once

vars == <<book, fills, jobs, chain, txs, matcher, route, reconciler, faults>>
database == <<book, fills, jobs>>
network == <<chain, txs>>

Rows == [match : Matches, hash : {NoTx} \cup TxIds]
JobRow == [status : JobStates, auth : 0..MaxQueued, entries : SUBSET Orders,
           hash : {NoTx} \cup TxIds]
Transaction == [match : Matches, auth : 0..MaxQueued,
                state : {"pending", "landed", "failed", "expired"}]

TypeOK ==
  /\ book \in [Orders -> [filled : Nat, cancelled : BOOLEAN]]
  /\ \A o \in Orders : book[o].filled <= Size[o]
  /\ fills \subseteq Rows
  /\ jobs \in [Matches -> JobRow]
  /\ chain \in [filled : [Orders -> Nat], cancelled : SUBSET Orders]
  /\ txs \in Seq(Transaction)
  /\ matcher \in [Matchers ->
       [pc : {"idle", "matching", "maker", "taker", "execute", "poll",
              "undoRow", "undoMaker", "undoTaker"},
        seen : [Orders -> Nat], match : Matches \cup {NoMatch},
        tx : {NoTx} \cup TxIds]]
  /\ route \in [Matches -> [pc : {"none", "claim", "send", "store"},
                            auth : 0..MaxQueued, tx : {NoTx} \cup TxIds]]
  /\ reconciler \in [Reconcilers ->
       [pc : {"idle", "check", "claim", "send", "store", "await", "retag",
              "retagResent", "expireRow", "expireMaker", "expireTaker",
              "expireJob", "clearRow", "clearMaker", "clearTaker", "clearJob"},
        match : Matches \cup {NoMatch}, row : JobRow]]
  /\ faults \in [stops : Nat, lost : Nat, overlap : BOOLEAN]

NothingSeen == [o \in Orders |-> 0]
IdleMatcher == [pc |-> "idle", seen |-> NothingSeen, match |-> NoMatch, tx |-> NoTx]
NoRequest == [pc |-> "none", auth |-> 0, tx |-> NoTx]
IdleReconciler == [pc |-> "idle", match |-> NoMatch, row |-> NoJob]

Init ==
  /\ book = [o \in Orders |-> [filled |-> 0, cancelled |-> FALSE]]
  /\ fills = {}
  /\ jobs = [match \in Matches |-> NoJob]
  /\ chain = [filled |-> [o \in Orders |-> 0], cancelled |-> {}]
  /\ txs = <<>>
  /\ matcher = [m \in Matchers |-> IdleMatcher]
  /\ route = [match \in Matches |-> NoRequest]
  /\ reconciler = [r \in Reconcilers |-> IdleReconciler]
  /\ faults = [stops |-> 0, lost |-> 0, overlap |-> FALSE]

-----------------------------------------------------------------------------
(* Statements and ledger calls that several programs share.                *)

PseudoRow(match) == [match |-> match, hash |-> NoTx]

\* Mutant of Fits: the WHERE guard compares what was filled before.
FitsBefore(o, n) == book[o].filled <= Size[o]

\* UPDATE "Order" SET filledSize = filledSize + n WHERE filledSize + n <= size
Fits(o, n) == book[o].filled + n <= Size[o]
Counted(o, n) == [book EXCEPT ![o].filled = @ + n]

\* UPDATE "Order" SET filledSize = GREATEST(0, filledSize - n)
Uncounted(o, n) == [book EXCEPT ![o].filled = Greater(0, @ - n)]

SetStatus(match, status) == jobs' = [jobs EXCEPT ![match].status = status]

Accepts(match) ==
  /\ Parties(match) \cap chain.cancelled = {}
  /\ \A o \in Parties(match) : chain.filled[o] + match.size <= Size[o]

\* The network accepts a transaction for inclusion.
Send(match, auth) ==
  /\ Len(txs) < MaxTxs
  /\ txs' = Append(txs, [match |-> match, auth |-> auth, state |-> "pending"])
LastTx == Len(txs')

\* Mutant of Outcome: whatever did not fail is taken for settled.
OutcomeByDefault(t) == IF txs[t].state = "failed" THEN "FAILED" ELSE "SUCCESS"

\* getTransaction: only an included transaction is found.
Outcome(t) == CASE txs[t].state = "landed" -> "SUCCESS"
                [] txs[t].state = "failed" -> "FAILED"
                [] OTHER -> "NOT_FOUND"

\* A crash, or a statement or call that fails.
Stop == /\ faults.stops + faults.lost < MaxFaults
        /\ faults' = [faults EXCEPT !.stops = @ + 1]

-----------------------------------------------------------------------------
(* The matcher service.                                                    *)

Live(o) == ~book[o].cancelled /\ book[o].filled < Size[o]

AllIdle == \A m \in Matchers : matcher[m].pc = "idle"

\* tick reads the book once; seen is what is left to match of it.
LoadBook(m) ==
  /\ matcher[m].pc = "idle"
  /\ matcher' = [matcher EXCEPT ![m].pc = "matching",
       ![m].seen = [o \in Orders |->
                      IF Live(o) THEN Size[o] - book[o].filled ELSE 0]]
  /\ faults' = [faults EXCEPT !.overlap = @ \/ ~AllIdle]
  /\ UNCHANGED <<database, network, route, reconciler>>

EndTick(m) ==
  /\ matcher[m].pc = "matching"
  /\ matcher' = [matcher EXCEPT ![m] = IdleMatcher]
  /\ UNCHANGED <<database, network, route, reconciler, faults>>

\* The next match of the tick: matchAll takes as much as both orders have
\* left, and persistFill inserts the row unless the pseudo-hash is taken.
InsertFill(m) ==
  \E pair \in Crossing :
    LET seen == matcher[m].seen
        size == Lesser(seen[pair[1]], seen[pair[2]])
        match == [maker |-> pair[1], taker |-> pair[2], size |-> size]
        taken == PseudoRow(match) \in fills
    IN /\ matcher[m].pc = "matching"
       /\ size > 0
       /\ Parties(match) \cap Poisoned = {}
       /\ matcher' = [matcher EXCEPT
            ![m].seen = [seen EXCEPT ![pair[1]] = @ - size, ![pair[2]] = @ - size],
            ![m].pc = IF taken THEN @ ELSE "maker",
            ![m].match = IF taken THEN @ ELSE match]
       /\ fills' = fills \cup {PseudoRow(match)}
       /\ UNCHANGED <<book, jobs, network, route, reconciler, faults>>

\* A match outside the oracle's band is skipped.  One with an order whose
\* signature does not verify is too, and that order is cancelled.
SkipMatch(m) ==
  \E pair \in Crossing :
    LET seen == matcher[m].seen
        size == Lesser(seen[pair[1]], seen[pair[2]])
    IN /\ matcher[m].pc = "matching"
       /\ size > 0
       /\ matcher' = [matcher EXCEPT ![m].seen = [seen EXCEPT ![pair[1]] = @ - size, ![pair[2]] = @ - size]]
       /\ book' = [o \in Orders |-> IF o \in {pair[1], pair[2]} \cap Poisoned
                                    THEN [book[o] EXCEPT !.cancelled = TRUE] ELSE book[o]]
       /\ UNCHANGED <<fills, jobs, network, route, reconciler, faults>>

\* persistFill counts the fill on one order.  When it no longer fits,
\* persistFill returns false and what it has already written stays.
Count(m, o, next, otherwise) ==
  /\ IF Fits(o, matcher[m].match.size)
       THEN /\ book' = Counted(o, matcher[m].match.size)
            /\ matcher' = [matcher EXCEPT ![m].pc = next]
       ELSE /\ matcher' = [matcher EXCEPT ![m].pc = otherwise]
            /\ UNCHANGED book
  /\ UNCHANGED <<fills, jobs, network, route, reconciler, faults>>

\* Mutant of CountTaker: a taker that no longer fits is rolled back as if it
\* had been counted.
CountTakerUndoingAll(m) ==
  /\ matcher[m].pc = "taker"
  /\ Count(m, matcher[m].match.taker, "execute", "undoRow")

CountMaker(m) == /\ matcher[m].pc = "maker"
                 /\ Count(m, matcher[m].match.maker, "taker", "matching")
CountTaker(m) == /\ matcher[m].pc = "taker"
                 /\ Count(m, matcher[m].match.taker, "execute", "matching")

\* No transaction is sent: the simulation, the node or the upsert refuses.
RefuseSettlement(m) ==
  /\ matcher[m].pc = "execute"
  /\ matcher' = [matcher EXCEPT ![m].pc = "undoRow"]
  /\ UNCHANGED <<database, network, route, reconciler, faults>>

SubmitSigned(m) ==
  /\ matcher[m].pc = "execute"
  /\ BothSigned(matcher[m].match)
  /\ Accepts(matcher[m].match)            \* simulateTransaction
  /\ Send(matcher[m].match, 0)
  /\ matcher' = [matcher EXCEPT ![m].pc = "poll", ![m].tx = LastTx]
  /\ UNCHANGED <<database, chain, route, reconciler, faults>>

\* SUCCESS: the job is recorded and the next match is taken up.
RecordSettled(m) ==
  /\ matcher[m].pc = "poll"
  /\ Outcome(matcher[m].tx) = "SUCCESS"
  /\ jobs' = [jobs EXCEPT ![matcher[m].match].status = "CONFIRMED",
                          ![matcher[m].match].hash = matcher[m].tx]
  /\ matcher' = [matcher EXCEPT ![m].pc = "matching", ![m].tx = NoTx]
  /\ UNCHANGED <<book, fills, network, route, reconciler, faults>>

\* FAILED, or polling ended after the transaction had expired.
SettlementFailed(m) ==
  /\ matcher[m].pc = "poll"
  /\ txs[matcher[m].tx].state \in {"failed", "expired"}
  /\ matcher' = [matcher EXCEPT ![m].pc = "undoRow", ![m].tx = NoTx]
  /\ UNCHANGED <<database, network, route, reconciler, faults>>

\* Polling throws or ends while the transaction can still land or has landed,
\* or the upsert of the job throws: each is taken for a failed settlement.
LoseAnswer(m) ==
  /\ matcher[m].pc = "poll"
  /\ txs[matcher[m].tx].state \in {"pending", "landed"}
  /\ faults.stops + faults.lost < MaxFaults
  /\ faults' = [faults EXCEPT !.lost = @ + 1]
  /\ matcher' = [matcher EXCEPT ![m].pc = "undoRow", ![m].tx = NoTx]
  /\ UNCHANGED <<database, network, route, reconciler>>

\* Mutant of QueueForAuth: the upsert also sets the status, so that a match
\* that was rolled back can be settled again.
QueueForAuthReopening(m) ==
  LET match == matcher[m].match
  IN /\ matcher[m].pc = "execute"
     /\ ~BothSigned(match)
     /\ Accepts(match)
     /\ jobs[match].auth < MaxQueued
     /\ jobs' = [jobs EXCEPT ![match].status = "QUEUED",
                             ![match].auth = @ + 1, ![match].entries = {}]
     /\ matcher' = [matcher EXCEPT ![m].pc = "matching"]
     /\ UNCHANGED <<book, fills, network, route, reconciler, faults>>

\* A new job is QUEUED; an old one with this key keeps its status and its
\* submittedHash and only gets the new payload, which nobody has signed.
QueueForAuth(m) ==
  LET match == matcher[m].match
  IN /\ matcher[m].pc = "execute"
     /\ ~BothSigned(match)
     /\ Accepts(match)                    \* simulateTransaction
     /\ jobs[match].auth < MaxQueued
     /\ jobs' = [jobs EXCEPT
          ![match].status = IF @ = "none" THEN "QUEUED" ELSE @,
          ![match].auth = @ + 1,
          ![match].entries = {}]
     /\ matcher' = [matcher EXCEPT ![m].pc = "matching"]
     /\ UNCHANGED <<book, fills, network, route, reconciler, faults>>

\* rollbackFill
UndoRow(m) ==
  /\ matcher[m].pc = "undoRow"
  /\ fills' = fills \ {PseudoRow(matcher[m].match)}
  /\ matcher' = [matcher EXCEPT ![m].pc = "undoMaker"]
  /\ UNCHANGED <<book, jobs, network, route, reconciler, faults>>

UndoCount(m, o, next) ==
  /\ book' = Uncounted(o, matcher[m].match.size)
  /\ matcher' = [matcher EXCEPT ![m].pc = next]
  /\ UNCHANGED <<fills, jobs, network, route, reconciler, faults>>

\* Mutant of UndoMaker: the rollback stops after the maker's order.
UndoMakerOnly(m) == /\ matcher[m].pc = "undoMaker"
                    /\ UndoCount(m, matcher[m].match.maker, "matching")

UndoMaker(m) == /\ matcher[m].pc = "undoMaker"
                /\ UndoCount(m, matcher[m].match.maker, "undoTaker")
UndoTaker(m) == /\ matcher[m].pc = "undoTaker"
                /\ UndoCount(m, matcher[m].match.taker, "matching")

\* A failed statement ends persistFill or rollbackFill where it is; a crash
\* ends the tick.  The last statement of persistFill, which updates the market's
\* price and volume, changes nothing here, but when it fails the fill is counted
\* and neither settled nor rolled back.
FailStatement(m) ==
  /\ matcher[m].pc \in {"maker", "taker", "execute", "undoRow", "undoMaker", "undoTaker"}
  /\ Stop
  /\ matcher' = [matcher EXCEPT ![m].pc = "matching"]
  /\ UNCHANGED <<database, network, route, reconciler>>

CrashMatcher(m) ==
  /\ matcher[m].pc # "idle"
  /\ Stop
  /\ matcher' = [matcher EXCEPT ![m] = IdleMatcher]
  /\ UNCHANGED <<database, network, route, reconciler>>

MatcherStep(m) ==
  \/ LoadBook(m)        \/ InsertFill(m)      \/ CountMaker(m)
  \/ CountTaker(m)      \/ SubmitSigned(m)    \/ RecordSettled(m)
  \/ SettlementFailed(m) \/ QueueForAuth(m)   \/ RefuseSettlement(m)
  \/ UndoRow(m)         \/ UndoMaker(m)       \/ UndoTaker(m)
  \/ SkipMatch(m)       \/ EndTick(m)

-----------------------------------------------------------------------------
(* POST /api/settlements/[id]/sign.  Only a request that finds both entries*)
(* merged goes on, with its copy of the payload.  Of two such requests only*)
(* one wins the claim and the other does nothing; the one kept here is the *)
(* one that will win.                                                      *)

SignEntry(match, o) ==
  /\ o \in Parties(match)
  /\ jobs[match].status = "QUEUED"
  /\ jobs' = [jobs EXCEPT ![match].entries = @ \cup {o}]
  /\ \/ /\ jobs'[match].entries = Parties(match)
        /\ route' = [route EXCEPT ![match] = [pc |-> "claim", auth |-> jobs[match].auth, tx |-> NoTx]]
     \/ /\ jobs'[match].entries # Parties(match) \/ route[match].pc = "claim"
        /\ UNCHANGED route
  /\ UNCHANGED <<book, fills, network, matcher, reconciler, faults>>

\* GET /api/settlements lists a job for a party that has not signed, and for
\* both when both have: the request that held the entries must have failed.
\* The trader's page polls the list and posts the entry the wallet signed, or
\* the stored one.  A post from an older list merges what is already there.
Offered(match, o) ==
  /\ o \in Parties(match)
  /\ jobs[match].status = "QUEUED"
  /\ o \notin jobs[match].entries \/ jobs[match].entries = Parties(match)

SignSettlement(match, o) == Offered(match, o) /\ SignEntry(match, o)

ClaimByRoute(match) ==
  /\ route[match].pc = "claim"
  /\ IF jobs[match].status = "QUEUED"
       THEN /\ SetStatus(match, "SUBMITTED")
            /\ route' = [route EXCEPT ![match].pc = "send"]
       ELSE /\ route' = [route EXCEPT ![match] = NoRequest]
            /\ UNCHANGED jobs
  /\ UNCHANGED <<book, fills, network, matcher, reconciler, faults>>

SendByRoute(match) ==
  /\ route[match].pc = "send"
  /\ Send(match, route[match].auth)
  /\ route' = [route EXCEPT ![match].pc = "store", ![match].tx = LastTx]
  /\ UNCHANGED <<database, chain, matcher, reconciler, faults>>

StoreHash(match) ==
  /\ route[match].pc = "store"
  /\ jobs' = [jobs EXCEPT ![match].hash = route[match].tx]
  /\ route' = [route EXCEPT ![match] = NoRequest]
  /\ UNCHANGED <<book, fills, network, matcher, reconciler, faults>>

\* The catch block: whatever failed, and whoever else has the job by now.
FailRoute(match) ==
  /\ route[match].pc \in {"send", "store"}
  /\ SetStatus(match, "FAILED")
  /\ route' = [route EXCEPT ![match] = NoRequest]
  /\ UNCHANGED <<book, fills, network, matcher, reconciler, faults>>

\* The instance that serves the request dies, or finds no operator key.
CrashRoute(match) ==
  /\ route[match].pc # "none"
  /\ Stop
  /\ route' = [route EXCEPT ![match] = NoRequest]
  /\ UNCHANGED <<database, network, matcher, reconciler>>

RouteStep(match) == \/ ClaimByRoute(match) \/ SendByRoute(match)
                    \/ StoreHash(match)    \/ FailRoute(match)

-----------------------------------------------------------------------------
(* The settlement reconciler.  It works from rows it selected earlier.     *)

\* r turns to the row of match as it is now.
Select(r, match, pc) ==
  /\ reconciler[r].pc = "idle"
  /\ reconciler' = [reconciler EXCEPT ![r] =
                      [pc |-> pc, match |-> match, row |-> jobs[match]]]
  /\ UNCHANGED <<database, network, matcher, route, faults>>

AllEntries(match, row) == row.entries = Parties(match)

SelectSubmitted(r, match) ==
  /\ jobs[match].status = "SUBMITTED"
  /\ jobs[match].hash # NoTx              \* reconcileSubmitted returns otherwise
  /\ Select(r, match, "check")

SelectReady(r, match) ==
  /\ jobs[match].status = "QUEUED"
  /\ AllEntries(match, jobs[match])
  /\ Select(r, match, "claim")

SelectStale(r, match) ==
  /\ jobs[match].status = "QUEUED"
  /\ ~AllEntries(match, jobs[match])
  /\ Select(r, match, "expireRow")

Goto(r, pc) == reconciler' = [reconciler EXCEPT ![r].pc = pc]
Done(r) == reconciler' = [reconciler EXCEPT ![r] = IdleReconciler]

\* UPDATE "TxJob" SET status = ... WHERE status = from
SetStatusFrom(match, from, status) ==
  IF jobs[match].status = from THEN SetStatus(match, status) ELSE UNCHANGED jobs

CheckSubmitted(r) ==
  LET match == reconciler[r].match
      outcome == Outcome(reconciler[r].row.hash)
  IN /\ reconciler[r].pc = "check"
     /\ \/ /\ outcome = "SUCCESS"
           /\ SetStatusFrom(match, "SUBMITTED", "CONFIRMED")
           /\ Goto(r, "retag")
        \/ /\ outcome = "FAILED"
           /\ SetStatusFrom(match, "SUBMITTED", "FAILED")
           /\ Done(r)
        \/ /\ outcome = "NOT_FOUND"
           /\ IF AllEntries(match, reconciler[r].row) THEN Goto(r, "claim") ELSE Done(r)
           /\ UNCHANGED jobs
     /\ UNCHANGED <<book, fills, network, matcher, route, faults>>

\* Mutant of Claimable: a job whose request died before its claim is left out.
ClaimableSubmitted(job) == job.status = "SUBMITTED" /\ job.hash = NoTx

\* WHERE status IN ('QUEUED','SUBMITTED') AND (status = 'QUEUED' OR hash IS NULL)
Claimable(job) == \/ job.status = "QUEUED"
                  \/ job.status = "SUBMITTED" /\ job.hash = NoTx

ClaimByReconciler(r) ==
  LET match == reconciler[r].match
  IN /\ reconciler[r].pc = "claim"
     /\ IF Claimable(jobs[match])
          THEN SetStatus(match, "SUBMITTED") /\ Goto(r, "send")
          ELSE Done(r) /\ UNCHANGED jobs
     /\ UNCHANGED <<book, fills, network, matcher, route, faults>>

\* From here on row.hash is the transaction this reconciler sent.
SendByReconciler(r) ==
  /\ reconciler[r].pc = "send"
  /\ Send(reconciler[r].match, reconciler[r].row.auth)
  /\ reconciler' = [reconciler EXCEPT ![r].pc = "store", ![r].row.hash = LastTx]
  /\ UNCHANGED <<database, chain, matcher, route, faults>>

StoreResent(r) ==
  /\ reconciler[r].pc = "store"
  /\ jobs' = [jobs EXCEPT ![reconciler[r].match].hash = reconciler[r].row.hash]
  /\ Goto(r, "await")
  /\ UNCHANGED <<book, fills, network, matcher, route, faults>>

\* The brief poll after a resubmission writes without looking at the status.
AwaitResent(r) ==
  LET outcome == Outcome(reconciler[r].row.hash)
  IN /\ reconciler[r].pc = "await"
     /\ \/ /\ outcome = "SUCCESS"
           /\ SetStatus(reconciler[r].match, "CONFIRMED")
           /\ Goto(r, "retagResent")
        \/ /\ outcome = "FAILED"
           /\ SetStatus(reconciler[r].match, "FAILED")
           /\ Done(r)
        \/ /\ outcome = "NOT_FOUND"       \* ten polls are over
           /\ Done(r)
           /\ UNCHANGED jobs
     /\ UNCHANGED <<book, fills, network, matcher, route, faults>>

FailResend(r) ==
  /\ reconciler[r].pc \in {"send", "store", "await", "retagResent"}
  /\ SetStatus(reconciler[r].match, "FAILED")
  /\ Done(r)
  /\ UNCHANGED <<book, fills, network, matcher, route, faults>>

\* The Fill row gets the hash of the transaction that settled it.
RetagFill(r) ==
  LET match == reconciler[r].match
  IN /\ reconciler[r].pc \in {"retag", "retagResent"}
     /\ fills' = IF PseudoRow(match) \in fills
                   THEN (fills \ {PseudoRow(match)})
                          \cup {[match |-> match, hash |-> reconciler[r].row.hash]}
                   ELSE fills
     /\ Done(r)
     /\ UNCHANGED <<book, jobs, network, matcher, route, faults>>

\* expireStaleQueued: the fill is undone first, the job is failed last.
ExpireRow(r) ==
  /\ reconciler[r].pc = "expireRow"
  /\ fills' = fills \ {PseudoRow(reconciler[r].match)}
  /\ Goto(r, "expireMaker")
  /\ UNCHANGED <<book, jobs, network, matcher, route, faults>>

ExpireCount(r, o, next) ==
  /\ book' = Uncounted(o, reconciler[r].match.size)
  /\ Goto(r, next)
  /\ UNCHANGED <<fills, jobs, network, matcher, route, faults>>

ExpireMaker(r) == /\ reconciler[r].pc = "expireMaker"
                  /\ ExpireCount(r, reconciler[r].match.maker, "expireTaker")
ExpireTaker(r) == /\ reconciler[r].pc = "expireTaker"
                  /\ ExpireCount(r, reconciler[r].match.taker, "expireJob")

ExpireJob(r) ==
  /\ reconciler[r].pc = "expireJob"
  /\ SetStatusFrom(reconciler[r].match, "QUEUED", "FAILED")
  /\ Done(r)
  /\ UNCHANGED <<book, fills, network, matcher, route, faults>>

\* The script clear-stale-jobs, run by hand next to the services (as one more
\* instance here): it also takes jobs that both have signed, and fails the job
\* whatever its status is by then.
SelectOld(r, match) ==
  /\ jobs[match].status = "QUEUED"
  /\ Select(r, match, "clearRow")

ClearRow(r) ==
  /\ reconciler[r].pc = "clearRow"
  /\ fills' = fills \ {PseudoRow(reconciler[r].match)}
  /\ Goto(r, "clearMaker")
  /\ UNCHANGED <<book, jobs, network, matcher, route, faults>>

ClearMaker(r) == /\ reconciler[r].pc = "clearMaker"
                 /\ ExpireCount(r, reconciler[r].match.maker, "clearTaker")
ClearTaker(r) == /\ reconciler[r].pc = "clearTaker"
                 /\ ExpireCount(r, reconciler[r].match.taker, "clearJob")

ClearJob(r) ==
  /\ reconciler[r].pc = "clearJob"
  /\ SetStatus(reconciler[r].match, "FAILED")
  /\ Done(r)
  /\ UNCHANGED <<book, fills, network, matcher, route, faults>>

\* A crash, or an error outside resubmitJob, which ends the tick.
CrashReconciler(r) ==
  /\ reconciler[r].pc # "idle"
  /\ Stop
  /\ Done(r)
  /\ UNCHANGED <<database, network, matcher, route>>

ReconcilerStep(r) ==
  \/ CheckSubmitted(r) \/ ClaimByReconciler(r) \/ SendByReconciler(r)
  \/ StoreResent(r)    \/ AwaitResent(r)       \/ FailResend(r)
  \/ RetagFill(r)      \/ ExpireRow(r)         \/ ExpireMaker(r)
  \/ ExpireTaker(r)    \/ ExpireJob(r)         \/ ClearRow(r)
  \/ ClearMaker(r)     \/ ClearTaker(r)        \/ ClearJob(r)

-----------------------------------------------------------------------------
(* Clients and the ledger.                                                 *)

CancelInBook(o) ==
  /\ ~book[o].cancelled
  /\ book' = [book EXCEPT ![o].cancelled = TRUE]
  /\ UNCHANGED <<fills, jobs, network, matcher, route, reconciler, faults>>

CancelOnChain(o) ==
  /\ o \notin chain.cancelled
  /\ chain' = [chain EXCEPT !.cancelled = @ \cup {o}]
  /\ UNCHANGED <<database, txs, matcher, route, reconciler, faults>>

\* A Soroban authorisation entry can be spent once.
Spent(t) ==
  /\ txs[t].auth > 0
  /\ \E u \in 1..Len(txs) : /\ txs[u].match = txs[t].match
                            /\ txs[u].auth = txs[t].auth
                            /\ txs[u].state = "landed"

Land(t) ==
  /\ txs[t].state = "pending"
  /\ Accepts(txs[t].match)
  /\ ~Spent(t)
  /\ txs' = [txs EXCEPT ![t].state = "landed"]
  /\ chain' = [chain EXCEPT !.filled = [o \in Orders |->
       IF o \in Parties(txs[t].match) THEN @[o] + txs[t].match.size ELSE @[o]]]
  /\ UNCHANGED <<database, matcher, route, reconciler, faults>>

\* The contract call reverts (margin, price band, expiry, spent entries).
Revert(t) ==
  /\ txs[t].state = "pending"
  /\ txs' = [txs EXCEPT ![t].state = "failed"]
  /\ UNCHANGED <<database, chain, matcher, route, reconciler, faults>>

\* No ledger included the transaction before its time bound.
Expire(t) ==
  /\ txs[t].state = "pending"
  /\ txs' = [txs EXCEPT ![t].state = "expired"]
  /\ UNCHANGED <<database, chain, matcher, route, reconciler, faults>>

LedgerStep(t) == Land(t) \/ Revert(t) \/ Expire(t)

Next ==
  \/ \E m \in Matchers : MatcherStep(m) \/ LoseAnswer(m) \/ FailStatement(m)
                         \/ CrashMatcher(m)
  \/ \E match \in Matches : RouteStep(match) \/ CrashRoute(match)
  \/ \E match \in Matches, o \in Orders : SignSettlement(match, o)
  \/ \E r \in Reconcilers, match \in Matches :
       \/ SelectSubmitted(r, match) \/ SelectReady(r, match)
       \/ SelectStale(r, match)     \/ SelectOld(r, match)
  \/ \E r \in Reconcilers : ReconcilerStep(r) \/ CrashReconciler(r)
  \/ \E o \in Cancellable : CancelInBook(o) \/ CancelOnChain(o)
  \/ \E t \in 1..Len(txs) : LedgerStep(t)

Spec == Init /\ [][Next]_vars

\* The loops of the services run for ever, every request is served or dies,
\* every transaction is included or expires, and a reconciler tick selects
\* every row that qualifies.  Clients need not sign, cancel or come back.
Fairness ==
  /\ \A m \in Matchers : WF_vars(MatcherStep(m))
  /\ \A match \in Matches : WF_vars(RouteStep(match))
  /\ \A r \in Reconcilers :
       /\ WF_vars(ReconcilerStep(r))
       /\ \A match \in Matches : /\ SF_vars(SelectSubmitted(r, match))
                                 /\ SF_vars(SelectReady(r, match))
                                 /\ SF_vars(SelectStale(r, match))
  /\ \A t \in TxIds : WF_vars(t <= Len(txs) /\ LedgerStep(t))

FairSpec == Spec /\ Fairness

-----------------------------------------------------------------------------
(* What the pipeline promises.                                             *)

Landed(t) == txs[t].state = "landed"

\* A job is CONFIRMED only when a transaction that settles its match is on the
\* ledger, whoever wrote the status and however late: matcher, reconciler
\* poll, or reconciler resubmission.
ConfirmedIsSettled ==
  \A match \in Matches :
     jobs[match].status = "CONFIRMED" =>
       \E t \in 1..Len(txs) : Landed(t) /\ txs[t].match = match

\* Orders the matcher settles by itself, whatever they are matched with.
SignedOnly == {o \in Signed : \A pair \in Crossing :
                 o \in {pair[1], pair[2]} => {pair[1], pair[2]} \subseteq Signed}

\* Unless an answer was lost, the book never shows an order as having more
\* left than the gateway will still fill, at any step of any instance and
\* after any crash: persistFill counts before it settles, rollbackFill uncounts
\* only what it counted and only once the settlement cannot land.
SettledIsCounted ==
  faults.lost = 0 =>
    \A o \in SignedOnly : chain.filled[o] <= book[o].filled

\* Without crashes, failed statements and lost answers, and with one instance
\* of the matcher at work at a time, the book agrees with the gateway exactly
\* between two ticks: what a tick wrote is settled or undone, also when a
\* cancellation on the ledger beats the settlement.
QuietBookAgrees ==
  (faults.stops + faults.lost = 0 /\ ~faults.overlap /\ AllIdle) =>
    \A o \in SignedOnly : chain.filled[o] = book[o].filled

\* While a job is QUEUED no transaction of its match has ever been sent, so
\* expiring it undoes a fill that cannot have been submitted before: queueing
\* the match again must not reopen a job that was submitted.
QueuedIsUnsent ==
  \A match \in Matches :
     jobs[match].status = "QUEUED" => \A t \in 1..Len(txs) : txs[t].match # match

\* A queued settlement does not stay queued: traders sign it and a request or
\* the reconciler submits it, or the reconciler expires it, even when the
\* request that collected the last entry died.
QueuedIsResolved ==
  \A match \in Matches :
     jobs[match].status = "QUEUED" ~> jobs[match].status # "QUEUED"
=============================================================================
