------------------------- MODULE OrderGatewayProofs -------------------------
(***************************************************************************)
(* The gateway's promises, proved for every set of signed orders, every    *)
(* grace period and every bound on the clock.  The invariants the model    *)
(* checker sees are not inductive: whether an entry may be deleted depends *)
(* on the expiry stored in it, so the induction needs to know that a       *)
(* stored expiry is the expiry of every order of that nonce.               *)
(***************************************************************************)
EXTENDS OrderGateway, TLAPS

\* Until an order is beyond reclamation its counter is complete, and the expiry
\* stored with a counter is the order's own.
CounterInv ==
  \A o \in Orders :
     \/ now > o.expiry + Grace
     \/ /\ traded[o] <= filled[KeyOf(o)].amount
        /\ filled[KeyOf(o)].amount > 0 => filled[KeyOf(o)].expiry = o.expiry

\* A tombstone is the last cancellation, or was reclaimed after its grace period.
TombstoneInv ==
  \A k \in Keys :
     \/ cancelled[k] = lastCancel[k]
     \/ cancelled[k] = NotCancelled /\ now > lastCancel[k] + Grace

IInv == TypeOK /\ CounterInv /\ TombstoneInv /\ NoOverfill

USE ConstantsAssumption, NonceAssumption

\* The key of a signed order is a storage key of the contract.
LEMMA KeyOfType ==
  ASSUME NEW o \in Orders
  PROVE  /\ KeyOf(o) \in Keys
         /\ o.owner \in Owners /\ o.nonce \in Nonces
         /\ o.size \in Nat /\ o.limit \in Nat /\ o.expiry \in Nat /\ o.market \in Nat
         /\ o.isLong \in BOOLEAN
BY DEF KeyOf, Keys, OrderType

\* A filled order gains exactly the fill: two add_filled calls on different owners
\* touch different entries.
LEMMA AddFilledTwice ==
  ASSUME TypeOK, NEW m \in Orders, NEW t \in Orders, m.owner # t.owner,
         NEW n \in Nat, NEW k \in Keys
  PROVE  /\ AddFilled(AddFilled(filled, m, n), t, n) \in [Keys -> FilledEntry]
         /\ AddFilled(AddFilled(filled, m, n), t, n)[k] =
              IF k = KeyOf(m) THEN [amount |-> filled[k].amount + n, expiry |-> m.expiry]
              ELSE IF k = KeyOf(t) THEN [amount |-> filled[k].amount + n, expiry |-> t.expiry]
              ELSE filled[k]
<1>1. KeyOf(m) \in Keys /\ KeyOf(t) \in Keys /\ KeyOf(m) # KeyOf(t)
  BY KeyOfType DEF KeyOf
<1>2. m.expiry \in Nat /\ t.expiry \in Nat
  BY KeyOfType
<1>3. filled \in [Keys -> FilledEntry] /\ \A j \in Keys : filled[j].amount \in Nat
  BY DEF TypeOK, FilledEntry
<1>4. AddFilled(filled, m, n) =
        [filled EXCEPT ![KeyOf(m)] = [amount |-> filled[KeyOf(m)].amount + n,
                                      expiry |-> m.expiry]]
  BY <1>1, <1>3 DEF AddFilled
<1>5. AddFilled(filled, m, n) \in [Keys -> FilledEntry]
  BY <1>1, <1>2, <1>3, <1>4 DEF FilledEntry
<1>6. AddFilled(filled, m, n)[KeyOf(t)] = filled[KeyOf(t)]
  BY <1>1, <1>3, <1>4
<1>7. AddFilled(AddFilled(filled, m, n), t, n) =
        [AddFilled(filled, m, n) EXCEPT
           ![KeyOf(t)] = [amount |-> filled[KeyOf(t)].amount + n, expiry |-> t.expiry]]
  BY <1>1, <1>5, <1>6 DEF AddFilled
<1>8. AddFilled(AddFilled(filled, m, n), t, n) \in [Keys -> FilledEntry]
  BY <1>1, <1>2, <1>3, <1>5, <1>7 DEF FilledEntry
<1>. QED
  BY <1>1, <1>3, <1>4, <1>5, <1>7, <1>8, ZenonT(60)
-----------------------------------------------------------------------------
LEMMA InitIInv == Init => IInv
<1> SUFFICES ASSUME Init
             PROVE  IInv
  OBVIOUS
<1>1. TypeOK
  BY DEF Init, TypeOK, FilledEntry, NoEntry
<1>2. CounterInv
  BY KeyOfType DEF Init, CounterInv, NoEntry
<1>3. TombstoneInv
  BY DEF Init, TombstoneInv
<1>4. NoOverfill
  BY KeyOfType DEF Init, NoOverfill
<1>. QED
  BY <1>1, <1>2, <1>3, <1>4 DEF IInv

\* A fill the gateway accepts preserves the invariant.
LEMMA FillStep ==
  ASSUME IInv, NEW m \in Orders, NEW t \in Orders, NEW n \in FillSizes, NEW p \in Prices,
         ExecuteFill(m, t, n, p)
  PROVE  IInv'
<1>1. n \in Nat /\ m.owner # t.owner /\ m # t
  BY DEF ExecuteFill, ValidateFill
<1>2. TypeOK
  BY DEF IInv
<1>3. \A o \in {m, t} : now <= o.expiry /\ filled[KeyOf(o)].amount + n <= o.size
  BY DEF ExecuteFill, ValidateFill, ValidateOrder
<1>4. /\ filled' \in [Keys -> FilledEntry]
      /\ \A k \in Keys : filled'[k] =
           IF k = KeyOf(m) THEN [amount |-> filled[k].amount + n, expiry |-> m.expiry]
           ELSE IF k = KeyOf(t) THEN [amount |-> filled[k].amount + n, expiry |-> t.expiry]
           ELSE filled[k]
  <2>1. filled' = AddFilled(AddFilled(filled, m, n), t, n)
    BY DEF ExecuteFill
  <2>2. KeyOf(m) \in Keys
    BY KeyOfType
  <2>3. filled' \in [Keys -> FilledEntry]
    BY <1>1, <1>2, <2>1, <2>2, AddFilledTwice
  <2>4. ASSUME NEW k \in Keys
        PROVE  filled'[k] =
                 IF k = KeyOf(m) THEN [amount |-> filled[k].amount + n, expiry |-> m.expiry]
                 ELSE IF k = KeyOf(t) THEN [amount |-> filled[k].amount + n, expiry |-> t.expiry]
                 ELSE filled[k]
    BY <1>1, <1>2, <2>1, AddFilledTwice
  <2>. QED
    BY <2>3, <2>4
<1>5. /\ traded' \in [Orders -> Nat]
      /\ \A o \in Orders : traded'[o] = IF o \in {m, t} THEN traded[o] + n ELSE traded[o]
  BY <1>1, <1>2 DEF ExecuteFill, TypeOK
<1>6. UNCHANGED <<now, cancelled, config, lastCancel>>
  BY DEF ExecuteFill
<1>7. \A k \in Keys : filled[k].amount \in Nat /\ filled[k].expiry \in Nat
  BY <1>2 DEF TypeOK, FilledEntry
<1>8. TypeOK'
  BY <1>2, <1>4, <1>5, <1>6 DEF TypeOK, config
<1>9. CounterInv'
  <2> SUFFICES ASSUME NEW o \in Orders, ~(now > o.expiry + Grace)
               PROVE  /\ traded'[o] <= filled'[KeyOf(o)].amount
                      /\ filled'[KeyOf(o)].amount > 0 => filled'[KeyOf(o)].expiry = o.expiry
    BY <1>6 DEF CounterInv
  <2>1. /\ traded[o] <= filled[KeyOf(o)].amount
        /\ filled[KeyOf(o)].amount > 0 => filled[KeyOf(o)].expiry = o.expiry
    BY DEF IInv, CounterInv
  <2>2. KeyOf(o) \in Keys /\ o.expiry \in Nat /\ traded[o] \in Nat
    BY <1>2, KeyOfType DEF TypeOK
  <2>3. \A x \in {m, t} : KeyOf(o) = KeyOf(x) => o.expiry = x.expiry
    BY DEF KeyOf
  <2>4. o \in {m, t} => KeyOf(o) \in {KeyOf(m), KeyOf(t)}
    OBVIOUS
  <2>5. CASE KeyOf(o) = KeyOf(m)
    BY <1>1, <1>4, <1>5, <1>7, <2>1, <2>2, <2>3, <2>5
  <2>6. CASE KeyOf(o) # KeyOf(m) /\ KeyOf(o) = KeyOf(t)
    BY <1>1, <1>4, <1>5, <1>7, <2>1, <2>2, <2>3, <2>6
  <2>7. CASE KeyOf(o) # KeyOf(m) /\ KeyOf(o) # KeyOf(t)
    BY <1>1, <1>4, <1>5, <1>7, <2>1, <2>2, <2>4, <2>7
  <2>. QED
    BY <2>5, <2>6, <2>7
<1>10. TombstoneInv'
  BY <1>6 DEF IInv, TombstoneInv
<1>11. NoOverfill'
  <2> SUFFICES ASSUME NEW o \in Orders
               PROVE  traded'[o] <= o.size
    BY DEF NoOverfill
  <2>1. traded[o] <= o.size
    BY DEF IInv, NoOverfill
  <2>2. CASE o \in {m, t}
    <3>1. now <= o.expiry /\ o.expiry \in Nat /\ now \in Nat
      BY <1>2, <1>3, <2>2, KeyOfType DEF TypeOK
    <3>2. traded[o] <= filled[KeyOf(o)].amount
      BY <3>1 DEF IInv, CounterInv
    <3>3. /\ filled[KeyOf(o)].amount \in Nat /\ traded[o] \in Nat /\ o.size \in Nat
          /\ filled[KeyOf(o)].amount + n <= o.size
      BY <1>2, <1>3, <1>7, <2>2, KeyOfType DEF TypeOK
    <3>. QED
      BY <1>1, <1>5, <2>2, <3>2, <3>3
  <2>3. CASE o \notin {m, t}
    BY <1>5, <2>1, <2>3
  <2>. QED
    BY <2>2, <2>3
<1>. QED
  BY <1>8, <1>9, <1>10, <1>11 DEF IInv

LEMMA CancelStep ==
  ASSUME IInv, NEW owner \in Owners, NEW nonce \in Nonces, NEW e \in CancelExpiries,
         CancelOrder(owner, nonce, e)
  PROVE  IInv'
<1>1. <<owner, nonce>> \in Keys /\ e \in Nat
  BY DEF Keys
<1>2. TypeOK'
  BY <1>1 DEF IInv, TypeOK, CancelOrder, config
<1>3. TombstoneInv'
  BY <1>1 DEF IInv, TypeOK, TombstoneInv, CancelOrder
<1>4. CounterInv' /\ NoOverfill'
  BY DEF IInv, CounterInv, NoOverfill, CancelOrder
<1>. QED
  BY <1>2, <1>3, <1>4 DEF IInv

\* Reclaiming deletes a counter only when no order of its nonce can fill any more.
LEMMA ReclaimStep ==
  ASSUME IInv, NEW owner \in Owners, NEW nonces \in SUBSET Nonces,
         ReclaimOrderState(owner, nonces)
  PROVE  IInv'
<1>1. TypeOK /\ CounterInv /\ TombstoneInv /\ NoOverfill
  BY DEF IInv
<1>2. /\ filled' \in [Keys -> FilledEntry]
      /\ cancelled' \in [Keys -> Nat \cup {NotCancelled}]
  BY <1>1 DEF TypeOK, ReclaimOrderState, FilledEntry, NoEntry
<1>3. TypeOK'
  BY <1>1, <1>2 DEF TypeOK, ReclaimOrderState, config, history
<1>4. CounterInv'
  <2> SUFFICES ASSUME NEW o \in Orders, ~(now > o.expiry + Grace)
               PROVE  /\ traded[o] <= filled'[KeyOf(o)].amount
                      /\ filled'[KeyOf(o)].amount > 0 => filled'[KeyOf(o)].expiry = o.expiry
    BY DEF CounterInv, ReclaimOrderState, history
  <2>1. /\ traded[o] <= filled[KeyOf(o)].amount
        /\ filled[KeyOf(o)].amount > 0 => filled[KeyOf(o)].expiry = o.expiry
    BY <1>1 DEF CounterInv
  <2>2. /\ KeyOf(o) \in Keys /\ o.expiry \in Nat /\ traded[o] \in Nat /\ now \in Nat
        /\ filled[KeyOf(o)] \in FilledEntry
    BY <1>1, KeyOfType DEF TypeOK
  <2>3. \/ filled'[KeyOf(o)] = filled[KeyOf(o)]
        \/ filled'[KeyOf(o)] = NoEntry /\ now > filled[KeyOf(o)].expiry + Grace
    BY <2>2 DEF ReclaimOrderState, Reclaimable
  <2>4. CASE filled[KeyOf(o)].amount > 0
    BY <2>1, <2>2, <2>3, <2>4 DEF FilledEntry
  <2>5. CASE ~(filled[KeyOf(o)].amount > 0)
    BY <2>1, <2>2, <2>3, <2>5 DEF FilledEntry, NoEntry
  <2>. QED
    BY <2>4, <2>5
<1>5. TombstoneInv'
  BY <1>1 DEF TypeOK, TombstoneInv, ReclaimOrderState, Reclaimable, NotCancelled, history
<1>6. NoOverfill'
  BY <1>1 DEF NoOverfill, ReclaimOrderState, history
<1>. QED
  BY <1>3, <1>4, <1>5, <1>6 DEF IInv

\* The administrator's calls, the clock and stuttering leave the accounting alone.
LEMMA OtherStep ==
  ASSUME IInv,
         \/ \E op \in Operators : SetOperator(op)
         \/ \E d \in Domains : SetDomain(d)
         \/ EmergencyPause
         \/ Unpause
         \/ Tick
         \/ UNCHANGED vars
  PROVE  IInv'
<1>1. UNCHANGED <<filled, cancelled, traded, lastCancel>>
  BY DEF SetOperator, SetDomain, EmergencyPause, Unpause, Tick, vars, storage, history
<1>2. now' \in Nat /\ now' >= now /\ now \in Nat
  BY DEF IInv, TypeOK, SetOperator, SetDomain, EmergencyPause, Unpause, Tick, vars
<1>3. /\ paused' \in BOOLEAN
      /\ operator' \in Operators \cup {None}
      /\ domain' \in Domains \cup {None}
  BY DEF IInv, TypeOK, SetOperator, SetDomain, EmergencyPause, Unpause, Tick, vars, config
<1>4. TypeOK'
  BY <1>1, <1>2, <1>3 DEF IInv, TypeOK
<1>5. CounterInv'
  <2> SUFFICES ASSUME NEW o \in Orders, ~(now' > o.expiry + Grace)
               PROVE  ~(now > o.expiry + Grace)
    BY <1>1 DEF IInv, CounterInv
  <2>. QED
    BY <1>2, KeyOfType
<1>6. TombstoneInv'
  <2> SUFFICES ASSUME NEW k \in Keys, now > lastCancel[k] + Grace
               PROVE  now' > lastCancel[k] + Grace
    BY <1>1 DEF IInv, TombstoneInv
  <2>. QED
    BY <1>2 DEF IInv, TypeOK, NotCancelled
<1>7. NoOverfill'
  BY <1>1 DEF IInv, NoOverfill
<1>. QED
  BY <1>4, <1>5, <1>6, <1>7 DEF IInv

LEMMA NextIInv == IInv /\ [Next]_vars => IInv'
<1> SUFFICES ASSUME IInv, [Next]_vars
             PROVE  IInv'
  OBVIOUS
<1>1. ASSUME NEW m \in Orders, NEW t \in Orders, NEW n \in FillSizes, NEW p \in Prices,
             SettleFill(m, t, n, p) \/ SettleFillSigned(m, t, n, p)
      PROVE  IInv'
  BY <1>1, FillStep DEF SettleFill, SettleFillSigned
<1>2. ASSUME NEW owner \in Owners, NEW nonce \in Nonces, NEW e \in CancelExpiries,
             CancelOrder(owner, nonce, e)
      PROVE  IInv'
  BY <1>2, CancelStep
<1>3. ASSUME NEW owner \in Owners, NEW nonces \in SUBSET Nonces,
             ReclaimOrderState(owner, nonces)
      PROVE  IInv'
  BY <1>3, ReclaimStep
<1>. QED
  BY <1>1, <1>2, <1>3, OtherStep DEF Next

\* The inductive invariant holds in every reachable state.
THEOREM Invariance == Spec => []IInv
BY InitIInv, NextIInv, PTL DEF Spec

\* The storage of the gateway keeps its shape.
THEOREM TypeCorrect == Spec => []TypeOK
<1>1. IInv => TypeOK
  BY DEF IInv
<1>. QED
  BY <1>1, Invariance, PTL

\* No order is ever filled beyond its signed size, whatever is reclaimed when.
THEOREM NeverOverfilled == Spec => []NoOverfill
<1>1. IInv => NoOverfill
  BY DEF IInv
<1>. QED
  BY <1>1, Invariance, PTL

\* While an order can fill, its counter is complete and its tombstone stands.
THEOREM Protected == Spec => []LiveOrdersProtected
<1>1. IInv => LiveOrdersProtected
  <2> SUFFICES ASSUME IInv, NEW o \in Orders, now <= o.expiry
               PROVE  /\ traded[o] <= filled[KeyOf(o)].amount
                      /\ Revoked(o) => cancelled[KeyOf(o)] # NotCancelled
    BY DEF LiveOrdersProtected
  <2>1. now \in Nat /\ o.expiry \in Nat /\ KeyOf(o) \in Keys
    BY KeyOfType DEF IInv, TypeOK
  <2>2. lastCancel[KeyOf(o)] \in Nat \cup {NotCancelled}
    BY <2>1 DEF IInv, TypeOK
  <2>3. traded[o] <= filled[KeyOf(o)].amount
    BY <2>1 DEF IInv, CounterInv
  <2>4. Revoked(o) => cancelled[KeyOf(o)] # NotCancelled
    BY <2>1, <2>2 DEF IInv, TombstoneInv, Revoked, NotCancelled
  <2>. QED
    BY <2>3, <2>4
<1>. QED
  BY <1>1, Invariance, PTL

\* What a fill needs of the order's cancellation: none that covers its life.
LEMMA FilledNotRevoked ==
  ASSUME IInv, NEW o \in Orders, now <= o.expiry, cancelled[KeyOf(o)] = NotCancelled
  PROVE  ~Revoked(o)
<1>1. now \in Nat /\ o.expiry \in Nat /\ KeyOf(o) \in Keys
  BY KeyOfType DEF IInv, TypeOK
<1>2. lastCancel[KeyOf(o)] \in Nat \cup {NotCancelled}
  BY <1>1 DEF IInv, TypeOK
<1>. QED
  BY <1>1, <1>2 DEF IInv, TombstoneInv, Revoked, NotCancelled

\* A cancellation that names the order's expiry is final.
THEOREM CancelIsFinal == Spec => CancelSticks
<1>1. IInv /\ [Next]_vars => [\A o \in Orders : traded'[o] # traded[o] => ~Revoked(o)]_vars
  <2> SUFFICES ASSUME IInv, Next, NEW o \in Orders, traded'[o] # traded[o]
               PROVE  ~Revoked(o)
    OBVIOUS
  <2>1. PICK m \in Orders, t \in Orders, n \in FillSizes, p \in Prices :
          ExecuteFill(m, t, n, p)
    BY DEF Next, SettleFill, SettleFillSigned, CancelOrder, ReclaimOrderState, SetOperator,
           SetDomain, EmergencyPause, Unpause, Tick, history
  <2>2. o \in {m, t}
    BY <2>1 DEF ExecuteFill, IInv, TypeOK
  <2>3. now <= o.expiry /\ cancelled[KeyOf(o)] = NotCancelled
    BY <2>1, <2>2 DEF ExecuteFill, ValidateFill, ValidateOrder
  <2>. QED
    BY <2>3, FilledNotRevoked
<1>. QED
  BY <1>1, Invariance, PTL DEF Spec, CancelSticks
-----------------------------------------------------------------------------
(* The gateway implements the fill ledger. *)

RevokedOrders == {o \in Orders : Revoked(o)}

LEMMA LedgerStep == IInv /\ [Next]_vars => [Ledger!LedgerNext]_(Ledger!ledgerVars)
<1> SUFFICES ASSUME IInv, [Next]_vars
             PROVE  Ledger!LedgerNext \/ UNCHANGED Ledger!ledgerVars
  OBVIOUS
<1> USE DEF Ledger!ledgerVars
<1>1. ASSUME NEW m \in Orders, NEW t \in Orders, NEW n \in FillSizes, NEW p \in Prices,
             ExecuteFill(m, t, n, p)
      PROVE  Ledger!LedgerNext
  <2>1. \A o \in {m, t} : /\ now <= o.expiry
                          /\ cancelled[KeyOf(o)] = NotCancelled
                          /\ filled[KeyOf(o)].amount + n <= o.size
    BY <1>1 DEF ExecuteFill, ValidateFill, ValidateOrder
  <2>2. \A o \in {m, t} : /\ now \in Nat /\ o.expiry \in Nat /\ o.size \in Nat
                          /\ traded[o] \in Nat /\ filled[KeyOf(o)].amount \in Nat
    BY KeyOfType DEF IInv, TypeOK, FilledEntry
  <2>3. n \in Nat /\ n > 0
    BY <1>1 DEF ExecuteFill, ValidateFill
  <2>4. \A o \in {m, t} : traded[o] <= filled[KeyOf(o)].amount
    BY <2>1, <2>2 DEF IInv, CounterInv
  <2>5. \A o \in {m, t} : ~Revoked(o)
    BY <2>1, FilledNotRevoked
  <2>6. \A o \in {m, t} : Ledger!Tradable(o, n)
    BY <2>1, <2>2, <2>3, <2>4, <2>5 DEF Ledger!Tradable
  <2>7. UNCHANGED <<now, {o \in Orders : Revoked(o)}>>
    BY <1>1 DEF ExecuteFill, Revoked
  <2>8. Ledger!Trade(m, t, n)
    BY <1>1, <2>6, <2>7 DEF ExecuteFill, ValidateFill, Ledger!Trade
  <2>9. n \in 1 .. m.size
    BY <2>1, <2>2, <2>3
  <2>. QED
    BY <2>8, <2>9 DEF Ledger!LedgerNext
<1>2. ASSUME NEW owner \in Owners, NEW nonce \in Nonces, NEW e \in CancelExpiries,
             CancelOrder(owner, nonce, e)
      PROVE  Ledger!LedgerNext \/ UNCHANGED Ledger!ledgerVars
  <2>1. \A o \in Orders : o.owner # owner => (Revoked(o)' <=> Revoked(o))
    BY <1>2, KeyOfType DEF CancelOrder, Revoked, KeyOf, Keys, IInv, TypeOK
  <2>2. UNCHANGED <<now, traded>>
    BY <1>2 DEF CancelOrder
  <2>3. CASE \E o \in Orders : o.owner = owner
    <3>1. Ledger!Withdraw(owner)
      BY <2>1, <2>2 DEF Ledger!Withdraw
    <3>. QED
      BY <2>3, <3>1 DEF Ledger!LedgerNext
  <2>4. CASE ~ \E o \in Orders : o.owner = owner
    <3>1. \A o \in Orders : Revoked(o)' <=> Revoked(o)
      BY <2>1, <2>4
    <3>2. {o \in Orders : Revoked(o)}' = {o \in Orders : Revoked(o)}
      BY <3>1
    <3>. QED
      BY <2>2, <3>2
  <2>. QED
    BY <2>3, <2>4
<1>3. CASE Tick
  BY <1>3 DEF Tick, history, Revoked, Ledger!Advance, Ledger!LedgerNext
<1>4. CASE UNCHANGED <<now, history>>
  BY <1>4 DEF history, Revoked
<1>5. \/ \E m, t \in Orders, n \in FillSizes, p \in Prices : ExecuteFill(m, t, n, p)
      \/ \E owner \in Owners, nonce \in Nonces, e \in CancelExpiries :
           CancelOrder(owner, nonce, e)
      \/ Tick
      \/ UNCHANGED <<now, history>>
  BY DEF Next, vars, SettleFill, SettleFillSigned, ReclaimOrderState, SetOperator,
         SetDomain, EmergencyPause, Unpause
<1>. QED
  BY <1>1, <1>2, <1>3, <1>4, <1>5

\* Every behaviour of the gateway is a behaviour of the ledger a signer was promised.
THEOREM GatewayImplementsLedger == Spec => ImplementsLedger
<1>1. Init => Ledger!LedgerInit
  BY KeyOfType DEF Init, Ledger!LedgerInit, Revoked, NotCancelled
<1>. QED
  BY <1>1, LedgerStep, Invariance, PTL DEF Spec, ImplementsLedger, Ledger!LedgerSpec
=============================================================================
