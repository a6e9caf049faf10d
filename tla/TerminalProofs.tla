--------------------------- MODULE TerminalProofs ---------------------------
(***************************************************************************)
(* What the trader's page tells of a call holds on the ledger, for any     *)
(* number of orders, overlapping calls and reconciliations, and faults.    *)
(***************************************************************************)
EXTENDS Terminal, TLAPS

USE CallersAssumption

CallState == [stage : Stages, seq : Nat]

CallsTyped ==
  /\ sequence \in Nat
  /\ call \in [Callers -> CallState]
  /\ landed \in [Callers -> {"no", "ok", "failed"}]
  /\ given \in [Callers -> SUBSET Nat]
  /\ moved \in [Callers -> 0..1]

\* What a caller has built, on its last call or before, carries a sequence number
\* that is the next one or used; once something of it has taken effect since it
\* last built, every number it holds is used.
Numbered ==
  \A c \in Callers :
    /\ call[c].seq <= sequence + 1 /\ \A s \in given[c] : s <= sequence + 1
    /\ moved[c] = 1 => call[c].seq <= sequence /\ \A s \in given[c] : s <= sequence

CallInv == CallsTyped /\ Numbered

LEMMA EndedState ==
  ASSUME NEW stage \in Stages
  PROVE  Ended(stage) \in CallState /\ Ended(stage).seq = 0 /\ Ended(stage).stage = stage
  BY DEF Ended, CallState

LEMMA InitCalls == Init => CallInv
<1> SUFFICES ASSUME CallsInit
             PROVE  CallInv
  BY DEF Init
<1> DEFINE idle == Ended("idle")
<1>1. idle \in CallState /\ idle.seq = 0
  BY EndedState DEF Stages
<1>2. /\ sequence = 0 /\ call = [c \in Callers |-> idle] /\ landed \in [Callers -> {"no", "ok", "failed"}]
      /\ given = [c \in Callers |-> {}] /\ moved = [c \in Callers |-> 0]
  BY DEF CallsInit
<1>. HIDE DEF idle
<1>. QED
  BY <1>1, <1>2 DEF CallInv, CallsTyped, Numbered

\* A step of c's call that lands nothing: it goes on with the number it has, or ends.
LEMMA CallTurn ==
  ASSUME CallInv, NEW c \in Callers, UNCHANGED <<sequence, landed, given, moved>>,
         NEW s \in CallState, call' = [call EXCEPT ![c] = s], s.seq = 0 \/ s.seq = call[c].seq
  PROVE  CallInv'
  BY DEF CallInv, CallsTyped, Numbered, CallState

LEMMA InvokeKeepsCalls ==
  ASSUME CallInv, NEW c \in Callers, Invoke(c)
  PROVE  CallInv'
<1> DEFINE built == [stage |-> "built", seq |-> sequence + 1]
           failed == Ended("error")
<1>1. /\ sequence' = sequence /\ landed' \in [Callers -> {"no", "ok", "failed"}]
      /\ given' = [given EXCEPT ![c] = @ \cup IF GivenUp(c) THEN {call[c].seq} ELSE {}]
      /\ call[c].seq \in Nat /\ call[c].seq <= sequence + 1 /\ sequence \in Nat
  BY DEF Invoke, CallInv, CallsTyped, Numbered, CallState
<1>2. /\ given' \in [Callers -> SUBSET Nat]
      /\ \A d \in Callers : \A s \in given'[d] : s \in given[d] \/ (d = c /\ s = call[c].seq)
  BY <1>1 DEF CallInv, CallsTyped
<1>3. built \in CallState /\ built.seq = sequence + 1
  BY <1>1 DEF CallState, Stages
<1>4. failed \in CallState /\ failed.seq = 0
  BY EndedState DEF Stages
<1>5. \/ call' = [call EXCEPT ![c] = built] /\ moved' = [moved EXCEPT ![c] = 0]
      \/ call' = [call EXCEPT ![c] = failed] /\ moved' = moved
  BY DEF Invoke, NextSequence
<1>. HIDE DEF built, failed
<1>6. CASE call' = [call EXCEPT ![c] = built] /\ moved' = [moved EXCEPT ![c] = 0]
  BY <1>1, <1>2, <1>3, <1>6 DEF CallInv, CallsTyped, Numbered
<1>7. CASE call' = [call EXCEPT ![c] = failed] /\ moved' = moved
  BY <1>1, <1>2, <1>4, <1>7 DEF CallInv, CallsTyped, Numbered
<1>. QED
  BY <1>5, <1>6, <1>7

LEMMA CallStepKeepsCalls ==
  ASSUME CallInv, NEW c \in Callers, Send(c) \/ Reject(c) \/ Poll(c)
  PROVE  CallInv'
<1>1. UNCHANGED <<sequence, landed, given, moved>> /\ call[c] \in CallState /\ landed[c] \in {"no", "ok", "failed"}
  BY DEF Send, Reject, Poll, CallInv, CallsTyped
<1>2. ASSUME NEW stage \in {"error", "ok", "failed"}, call' = [call EXCEPT ![c] = Ended(stage)]
      PROVE  CallInv'
  <2> DEFINE s == Ended(stage)
  <2>1. s \in CallState /\ s.seq = 0 /\ call' = [call EXCEPT ![c] = s]
    BY <1>2, EndedState DEF Stages
  <2>. HIDE DEF s
  <2>. QED
    BY <1>1, <2>1, CallTurn
<1>3. ASSUME NEW stage \in Stages, call' = [call EXCEPT ![c].stage = stage]
      PROVE  CallInv'
  <2> DEFINE s == [call[c] EXCEPT !.stage = stage]
  <2>1. s \in CallState /\ s.seq = call[c].seq /\ call' = [call EXCEPT ![c] = s]
    BY <1>1, <1>3 DEF CallState
  <2>. HIDE DEF s
  <2>. QED
    BY <1>1, <2>1, CallTurn
<1>4. CASE Send(c)
  BY <1>2, <1>3, <1>4 DEF Send, Stages
<1>5. CASE Reject(c)
  BY <1>2, <1>5 DEF Reject
<1>6. CASE Poll(c)
  BY <1>1, <1>2, <1>3, <1>6 DEF Poll, Stages
<1>. QED
  BY <1>4, <1>5, <1>6

\* A landing uses the next sequence number up, so nothing that was built before
\* it can land any more.
LEMMA LandingKeepsCalls ==
  ASSUME CallInv, NEW c \in Callers, NEW result \in {"ok", "failed"},
         Lands(c, result) \/ LandsLate(c, result)
  PROVE  CallInv'
<1>1. /\ sequence' = sequence + 1 /\ UNCHANGED <<call, given>>
      /\ sequence \in Nat /\ landed' \in [Callers -> {"no", "ok", "failed"}]
      /\ moved' = IF result = "ok" THEN [moved EXCEPT ![c] = @ + 1] ELSE moved
  BY DEF Lands, LandsLate, TakesEffect, CallInv, CallsTyped
<1>2. \A d \in Callers : call[d].seq <= sequence' /\ \A s \in given[d] : s <= sequence'
  BY <1>1 DEF CallInv, Numbered
<1>3. moved[c] = 0
  <2>1. moved[c] \in 0..1 /\ call[c].seq \in Nat /\ given[c] \subseteq Nat
    BY DEF CallInv, CallsTyped, CallState
  <2>2. call[c].seq = sequence + 1 \/ sequence + 1 \in given[c]
    BY DEF Lands, LandsLate, CanLand
  <2>3. moved[c] = 1 => call[c].seq <= sequence /\ \A s \in given[c] : s <= sequence
    BY DEF CallInv, Numbered
  <2>. QED
    BY <1>1, <2>1, <2>2, <2>3
<1>4. moved' \in [Callers -> 0..1]
  BY <1>1, <1>3 DEF CallInv, CallsTyped
<1>5. /\ call' \in [Callers -> CallState] /\ given' \in [Callers -> SUBSET Nat] /\ sequence' \in Nat
      /\ \A d \in Callers : call'[d].seq \in Nat /\ given'[d] \subseteq Nat
  BY <1>1 DEF CallInv, CallsTyped, CallState
<1>6. Numbered'
  BY <1>1, <1>2, <1>5 DEF Numbered
<1>. QED
  BY <1>1, <1>4, <1>5, <1>6 DEF CallInv, CallsTyped

LEMMA NextCalls == CallInv /\ [Next]_vars => CallInv'
<1> SUFFICES ASSUME CallInv, [Next]_vars
             PROVE  CallInv'
  OBVIOUS
<1>1. CASE UNCHANGED callVars
  BY <1>1 DEF callVars, CallInv, CallsTyped, Numbered
<1>2. ASSUME NEW n \in Orders, Cancel(n)
      PROVE  CallInv'
  BY <1>2, InvokeKeepsCalls DEF Cancel
<1>3. CASE MoveFunds
  BY <1>3, InvokeKeepsCalls DEF MoveFunds
<1>4. ASSUME NEW c \in Callers, LandCall(c) \/ CallStep(c)
      PROVE  CallInv'
  BY <1>4, LandingKeepsCalls, CallStepKeepsCalls DEF LandCall, CallStep
<1>5. ASSUME NEW n \in Orders,
             \/ PlaceEntry(n) \/ PlaceClose(n) \/ Store(n) \/ NotPlaced(n) \/ Placed(n)
             \/ CancelCallDone(n) \/ CancelOnMatcher(n) \/ Cancelled(n)
             \/ Fill(n) \/ Settle(n) \/ RollBack(n)
      PROVE  UNCHANGED callVars
  BY <1>5 DEF PlaceEntry, PlaceClose, Store, NotPlaced, Placed, CancelCallDone, CancelOnMatcher,
              Cancelled, Fill, Settle, RollBack
<1>6. ASSUME NEW r \in Runs, StartReconcile(r) \/ RowsRefused(r) \/ CheckChain(r)
      PROVE  UNCHANGED callVars
  BY <1>6 DEF StartReconcile, RowsRefused, CheckChain
<1>7. Disconnect \/ RefreshWallet \/ UNCHANGED vars => UNCHANGED callVars
  BY DEF Disconnect, RefreshWallet, vars
<1>. QED
  BY <1>1, <1>2, <1>3, <1>4, <1>5, <1>6, <1>7 DEF Next

\* A retry never doubles what was still on its way: while a call is the caller's
\* last, at most one of all the transactions it has made takes effect, for any
\* number of callers, orders and calls given up.
THEOREM RetriesDoNotDouble == Spec => []RetryNeverDoubles
<1>1. CallInv => RetryNeverDoubles
  BY DEF CallInv, CallsTyped, RetryNeverDoubles
<1>. QED
  BY <1>1, InitCalls, NextCalls, PTL DEF Spec

-----------------------------------------------------------------------------
(***************************************************************************)
(* The page says "Order cancelled" only once the gateway has the flag, and *)
(* the flag stays, whatever the matcher has been told.                     *)
(***************************************************************************)
Steps == {"idle", "chain", "matcher", "list"}

\* The page, or the answer of a call, says that n is cancelled.
Claimed(n) == \/ landed[n] = "ok" \/ call[n].stage = "ok"
              \/ cancelling[n] \in {"matcher", "list"} \/ told[n]

CancelInv ==
  /\ cancelled \in [Orders -> BOOLEAN] /\ told \in [Orders -> BOOLEAN]
  /\ cancelling \in [Orders -> Steps] /\ filled \in [Orders -> BOOLEAN]
  /\ \A n \in Orders : Claimed(n) => cancelled[n]

LEMMA InitCancel == Init => CancelInv
  BY DEF Init, CallsInit, CancelInv, Steps, Ended, Claimed

\* The flags that only the ledger sets are kept, and nobody else is surer.
LEMMA CancelStays ==
  ASSUME CancelInv, cancelled' = cancelled,
         told' \in [Orders -> BOOLEAN], cancelling' \in [Orders -> Steps], filled' \in [Orders -> BOOLEAN],
         \A n \in Orders : Claimed(n)' => Claimed(n)
  PROVE  CancelInv'
  BY DEF CancelInv, Claimed

LEMMA CancelSteps ==
  ASSUME CallsTyped, CancelInv, NEW n \in Orders,
         CancelCallDone(n) \/ CancelOnMatcher(n) \/ Cancelled(n)
  PROVE  CancelInv'
<1>1. CASE CancelCallDone(n)
  BY <1>1, CancelStays DEF CancelCallDone, callVars, world, Set, CancelInv, Steps, Claimed
<1>2. CASE CancelOnMatcher(n)
  BY <1>2, CancelStays DEF CancelOnMatcher, callVars, Set, CancelInv, Steps, Claimed
<1>3. CASE Cancelled(n)
  <2>1. told' \in [Orders -> BOOLEAN] /\ cancelling' \in [Orders -> Steps]
    BY <1>3 DEF Cancelled, Set, CancelInv, Steps
  <2>2. UNCHANGED <<landed, call, cancelled, filled>> /\ cancelling[n] = "list"
    BY <1>3 DEF Cancelled, callVars, world
  <2>3. \A o \in Orders : o # n => told'[o] = told[o] /\ cancelling'[o] = cancelling[o]
    BY <1>3 DEF Cancelled, Set, CancelInv
  <2>. QED
    BY <2>1, <2>2, <2>3, CancelStays DEF CancelInv, Claimed
<1>. QED
  BY <1>1, <1>2, <1>3

LEMMA CallsKeepCancel ==
  ASSUME CallsTyped, CancelInv, NEW c \in Callers,
         Invoke(c) \/ Send(c) \/ Reject(c) \/ Poll(c),
         UNCHANGED <<cancelled, told, filled>>, cancelling' \in [Orders -> Steps],
         \A n \in Orders : cancelling'[n] \in {"matcher", "list"} => cancelling[n] \in {"matcher", "list"}
  PROVE  CancelInv'
<1>1. \A n \in Orders : n \in Callers
  OBVIOUS
<1>2. \A n \in Orders : landed'[n] = "ok" => landed[n] = "ok"
  BY DEF CallsTyped, Invoke, Send, Reject, Poll
<1>3. \A d \in Callers : call'[d].stage = "ok" => call[d].stage = "ok" \/ landed[d] = "ok"
  <2>1. call \in [Callers -> CallState] /\ call[c] \in CallState
    BY DEF CallsTyped
  <2>2. CASE Invoke(c)
    BY <2>1, <2>2 DEF Invoke, Ended
  <2>3. CASE Send(c)
    BY <2>1, <2>3 DEF Send, Ended, CallState
  <2>4. CASE Reject(c)
    BY <2>1, <2>4 DEF Reject, Ended, CallState
  <2>5. CASE Poll(c)
    BY <2>1, <2>5 DEF Poll, Ended, CallState
  <2>. QED
    BY <2>2, <2>3, <2>4, <2>5
<1>. QED
  BY <1>1, <1>2, <1>3, CancelStays DEF CancelInv, Claimed

LEMMA LandKeepsCancel ==
  ASSUME CallsTyped, CancelInv, NEW c \in Callers, LandCall(c)
  PROVE  CancelInv'
<1>1. UNCHANGED <<call, cancelling, told, filled>>
  BY DEF LandCall, Lands, LandsLate, page
<1>2. CASE (Lands(c, "failed") \/ LandsLate(c, "failed")) /\ UNCHANGED cancelled
  BY <1>1, <1>2, CancelStays DEF Lands, LandsLate, CancelInv, CallsTyped, Claimed
<1>3. CASE (Lands(c, "ok") \/ LandsLate(c, "ok")) /\ cancelled' = IF c \in Orders THEN Set(cancelled, c, TRUE) ELSE cancelled
  <2>1. /\ cancelled' \in [Orders -> BOOLEAN]
        /\ \A n \in Orders : cancelled'[n] = IF n = c THEN TRUE ELSE cancelled[n]
    BY <1>3 DEF Set, CancelInv
  <2>2. \A n \in Orders : n # c => landed'[n] = landed[n]
    BY <1>3 DEF Lands, LandsLate, CallsTyped
  <2>. QED
    BY <1>1, <2>1, <2>2 DEF CancelInv, Claimed
<1>. QED
  BY <1>2, <1>3 DEF LandCall

LEMMA NextCancel == CallInv /\ CancelInv /\ [Next]_vars => CancelInv'
<1> SUFFICES ASSUME CallInv, CancelInv, [Next]_vars
             PROVE  CancelInv'
  OBVIOUS
<1>0. CallsTyped
  BY DEF CallInv
<1>1. ASSUME UNCHANGED <<call, landed, cancelled, cancelling, told>>, filled' \in [Orders -> BOOLEAN]
      PROVE  CancelInv'
  BY <1>1 DEF CancelInv, Claimed
<1>2. ASSUME NEW n \in Orders, Cancel(n)
      PROVE  CancelInv'
  <2>1. cancelling' = [cancelling EXCEPT ![n] = "chain"]
    BY <1>2 DEF Cancel, Set, CancelFirst
  <2>. QED
    BY <1>0, <1>2, <2>1, CallsKeepCancel DEF Cancel, world, CancelInv, Steps
<1>3. CASE MoveFunds
  BY <1>0, <1>3, CallsKeepCancel DEF MoveFunds, world, page, CancelInv
<1>4. ASSUME NEW c \in Callers, LandCall(c) \/ CallStep(c)
      PROVE  CancelInv'
  BY <1>0, <1>4, LandKeepsCancel, CallsKeepCancel DEF CallStep, world, page, CancelInv
<1>6. ASSUME NEW n \in Orders, PlaceEntry(n) \/ PlaceClose(n) \/ Store(n) \/ NotPlaced(n) \/ Placed(n)
                               \/ Fill(n) \/ RollBack(n)
      PROVE  CancelInv'
  BY <1>1, <1>6 DEF PlaceEntry, PlaceClose, Store, NotPlaced, Placed, Fill, RollBack, callVars, world,
                    page, CancelInv
<1>7. ASSUME NEW n \in Orders, Settle(n)
      PROVE  CancelInv'
  BY <1>1, <1>7 DEF Settle, Set, callVars, page, CancelInv
<1>8. ASSUME NEW n \in Orders, CancelCallDone(n) \/ CancelOnMatcher(n) \/ Cancelled(n)
      PROVE  CancelInv'
  BY <1>0, <1>8, CancelSteps
<1>9. ASSUME NEW r \in Runs, StartReconcile(r) \/ RowsRefused(r) \/ CheckChain(r)
      PROVE  CancelInv'
  BY <1>1, <1>9 DEF StartReconcile, RowsRefused, CheckChain, callVars, world, CancelInv
<1>10. Disconnect \/ RefreshWallet \/ UNCHANGED vars => CancelInv'
  BY <1>1 DEF Disconnect, RefreshWallet, vars, callVars, world, page, CancelInv
<1>. QED
  BY <1>2, <1>3, <1>4, <1>6, <1>7, <1>8, <1>9, <1>10 DEF Next

\* Only a settlement changes what the gateway has filled, and it leaves a
\* cancelled order alone.
LEMMA NextFills == CancelInv /\ [Next]_vars => [\A n \in Orders : told[n] => filled'[n] = filled[n]]_vars
<1> SUFFICES ASSUME CancelInv, Next, NEW n \in Orders, told[n]
             PROVE  filled'[n] = filled[n]
  OBVIOUS
<1>1. cancelled[n]
  BY DEF CancelInv, Claimed
<1>2. ASSUME NEW o \in Orders, Settle(o)
      PROVE  filled'[n] = filled[n]
  BY <1>1, <1>2 DEF Settle, Set, CancelInv
<1>3. ASSUME NEW o \in Orders,
             \/ PlaceEntry(o) \/ PlaceClose(o) \/ Store(o) \/ NotPlaced(o) \/ Placed(o) \/ Cancel(o)
             \/ CancelCallDone(o) \/ CancelOnMatcher(o) \/ Cancelled(o) \/ Fill(o) \/ RollBack(o)
      PROVE  filled' = filled
  BY <1>3 DEF PlaceEntry, PlaceClose, Store, NotPlaced, Placed, Cancel, CancelCallDone, CancelOnMatcher,
              Cancelled, Fill, RollBack, world
<1>4. ASSUME NEW r \in Runs, StartReconcile(r) \/ RowsRefused(r) \/ CheckChain(r)
      PROVE  filled' = filled
  BY <1>4 DEF StartReconcile, RowsRefused, CheckChain, world
<1>5. ASSUME NEW c \in Callers, LandCall(c) \/ CallStep(c)
      PROVE  filled' = filled
  BY <1>5 DEF LandCall, CallStep, world
<1>6. MoveFunds \/ Disconnect \/ RefreshWallet => filled' = filled
  BY DEF MoveFunds, Disconnect, RefreshWallet, world
<1>. QED
  BY <1>2, <1>3, <1>4, <1>5, <1>6 DEF Next

\* After "Order cancelled" no settlement of the order lands, for any number of
\* calls on the account and however late the matcher hears of it.
THEOREM CancelledNeverFills == Spec => CancelMeansNoFill
<1>1. Spec => []CallInv
  BY InitCalls, NextCalls, PTL DEF Spec
<1>2. Spec => [](CallInv /\ CancelInv)
  BY <1>1, InitCancel, NextCancel, PTL DEF Spec
<1>. QED
  BY <1>2, NextFills, PTL DEF Spec, CancelMeansNoFill

=============================================================================
