---------------------------- MODULE OrderGateway ----------------------------
(***************************************************************************)
(* The perp-order-gateway contract: the only door through which a matched  *)
(* fill reaches the engine.  Every call is one ledger transaction, so every*)
(* call is one action; a call that returns an error or traps changes       *)
(* nothing and is therefore a stuttering step.  What the engine does with  *)
(* an accepted fill is in the module Exchange; here the engine may refuse  *)
(* any fill (the transaction reverts), so a fill that passes the gateway's *)
(* own checks may happen and need not.                                     *)
(*                                                                         *)
(* The contract stores fills and cancellations per (owner, nonce), carries *)
(* an expiry with each entry, and lets anybody delete an entry once its    *)
(* expiry and a grace period have passed.  The hazard is that a deleted    *)
(* entry was the only protection of an order that can still fill.          *)
(***************************************************************************)
EXTENDS Integers, FiniteSets

CONSTANTS
  Orders,          \* the orders users have signed (records, see OrderType)
  Owners,          \* the users
  Nonces,
  Operators,       \* accounts the admin may make the matcher's operator
  Domains,         \* network passphrases the admin may bind signatures to
  None,            \* an unset Operator or Domain
  Prices,          \* fill prices the operator may submit
  FillSizes,       \* fill sizes the operator may submit (0 included: the guard is the code's)
  CancelExpiries,  \* expiries an owner may hand to cancel_order
  Grace,           \* RECLAIM_GRACE_SECS
  MaxTime          \* bound on the ledger clock

OrderType ==
  [owner : Owners, market : Nat, isLong : BOOLEAN, size : Nat, limit : Nat,
   nonce : Nonces, expiry : Nat, domain : Domains]

ASSUME ConstantsAssumption ==
  /\ Orders \subseteq OrderType
  /\ Prices \subseteq Nat
  /\ FillSizes \subseteq Nat
  /\ CancelExpiries \subseteq Nat
  /\ Grace \in Nat
  /\ MaxTime \in Nat
  /\ None \notin Operators \cup Domains

\* One order per nonce, up to its expiry: the order API keys an order by
\* owner:nonce and ignores a second one with the same key.
ASSUME NonceAssumption ==
  \A o1, o2 \in Orders :
     o1.owner = o2.owner /\ o1.nonce = o2.nonce => o1.expiry = o2.expiry

Keys == Owners \X Nonces
KeyOf(o) == <<o.owner, o.nonce>>

FilledEntry == [amount : Nat, expiry : Nat]
NoEntry == [amount |-> 0, expiry |-> 0]  \* no Filled entry: the getter reads amount 0
NotCancelled == -1                       \* no Cancelled entry

VARIABLES
  now,         \* ledger timestamp
  filled,      \* DataKey::Filled(owner, nonce)
  cancelled,   \* DataKey::Cancelled(owner, nonce): the expiry given by the owner
  paused, operator, domain,
  traded,      \* history: traded[o] is all that order o has ever been filled
  lastCancel   \* history: the expiry of the owner's last cancel_order, never pruned

storage == <<filled, cancelled>>
config == <<paused, operator, domain>>
history == <<traded, lastCancel>>
vars == <<now, storage, config, history>>

Init ==
  /\ now = 0
  /\ filled = [k \in Keys |-> NoEntry]
  /\ cancelled = [k \in Keys |-> NotCancelled]
  /\ paused = FALSE
  /\ operator = None
  /\ domain = None
  /\ traded = [o \in Orders |-> 0]
  /\ lastCancel = [k \in Keys |-> NotCancelled]
-----------------------------------------------------------------------------
(* Validation of a fill *)

PriceWithinLimit(o, price) ==
  IF o.isLong THEN price <= o.limit ELSE price >= o.limit

\* Mutant: the tombstone is not looked at.
ValidateOrderIgnoringCancel(o, size, price) ==
  /\ o.size > 0 /\ o.limit > 0
  /\ now <= o.expiry
  /\ filled[KeyOf(o)].amount + size <= o.size
  /\ PriceWithinLimit(o, price)

\* Mutant: the fill alone is compared with the size, not what was filled before.
ValidateOrderIgnoringFilled(o, size, price) ==
  /\ o.size > 0 /\ o.limit > 0
  /\ now <= o.expiry
  /\ cancelled[KeyOf(o)] = NotCancelled
  /\ size <= o.size
  /\ PriceWithinLimit(o, price)

\* Mutant: no expiry check.
ValidateOrderAfterExpiry(o, size, price) ==
  /\ o.size > 0 /\ o.limit > 0
  /\ cancelled[KeyOf(o)] = NotCancelled
  /\ filled[KeyOf(o)].amount + size <= o.size
  /\ PriceWithinLimit(o, price)

ValidateOrder(o, size, price) ==
  /\ o.size > 0 /\ o.limit > 0
  /\ now <= o.expiry
  /\ cancelled[KeyOf(o)] = NotCancelled
  /\ filled[KeyOf(o)].amount + size <= o.size
  /\ PriceWithinLimit(o, price)

ValidateFill(m, t, size, price) ==
  /\ size > 0 /\ price > 0
  /\ m.owner # t.owner
  /\ m.market # 0 /\ m.market = t.market
  /\ m.isLong # t.isLong
  /\ ValidateOrder(m, size, price)
  /\ ValidateOrder(t, size, price)

\* Mutant: the counter counts down, as if it held what is left.
AddFilledRemaining(f, o, size) ==
  [f EXCEPT ![KeyOf(o)] = [amount |-> @.amount - size, expiry |-> o.expiry]]

\* The entry takes the expiry of the order that is being filled.
AddFilled(f, o, size) ==
  [f EXCEPT ![KeyOf(o)] = [amount |-> @.amount + size, expiry |-> o.expiry]]
-----------------------------------------------------------------------------
(* Operations *)

ExecuteFill(m, t, size, price) ==
  /\ ValidateFill(m, t, size, price)
  /\ filled' = AddFilled(AddFilled(filled, m, size), t, size)
  /\ traded' = [traded EXCEPT ![m] = @ + size, ![t] = @ + size]
  /\ UNCHANGED <<now, cancelled, config, lastCancel>>

\* settle_fill: both owners authorise the transaction itself.
SettleFill(m, t, size, price) ==
  /\ ~paused
  /\ operator # None
  /\ ExecuteFill(m, t, size, price)

\* settle_fill_signed: the orders' own signatures, checked in the contract's domain.
SettleFillSigned(m, t, size, price) ==
  /\ ~paused
  /\ operator # None
  /\ domain # None /\ m.domain = domain /\ t.domain = domain
  /\ ExecuteFill(m, t, size, price)

CancelOrder(owner, nonce, expiry) ==
  /\ cancelled' = [cancelled EXCEPT ![<<owner, nonce>>] = expiry]
  /\ lastCancel' = [lastCancel EXCEPT ![<<owner, nonce>>] = expiry]
  /\ UNCHANGED <<now, filled, config, traded>>

\* Mutant: the grace period is counted from the epoch, not from the order's expiry.
ReclaimableAfterGraceOnly(expiry) == now > Grace

Reclaimable(expiry) == now > expiry + Grace

\* Anybody may call it, for any nonces of any owner.
ReclaimOrderState(owner, nonces) ==
  /\ filled' = [k \in Keys |->
       IF k[1] = owner /\ k[2] \in nonces /\ Reclaimable(filled[k].expiry)
       THEN NoEntry ELSE filled[k]]
  /\ cancelled' = [k \in Keys |->
       IF /\ k[1] = owner /\ k[2] \in nonces
          /\ cancelled[k] # NotCancelled /\ Reclaimable(cancelled[k])
       THEN NotCancelled ELSE cancelled[k]]
  /\ UNCHANGED <<now, config, history>>

SetOperator(op) ==
  operator' = op /\ UNCHANGED <<now, storage, paused, domain, history>>

SetDomain(d) ==
  domain' = d /\ UNCHANGED <<now, storage, paused, operator, history>>

EmergencyPause ==
  paused' = TRUE /\ UNCHANGED <<now, storage, operator, domain, history>>

Unpause ==
  paused' = FALSE /\ UNCHANGED <<now, storage, operator, domain, history>>

Tick ==
  /\ now < MaxTime
  /\ now' = now + 1
  /\ UNCHANGED <<storage, config, history>>

Next ==
  \/ \E m, t \in Orders, size \in FillSizes, price \in Prices :
        \/ SettleFill(m, t, size, price)
        \/ SettleFillSigned(m, t, size, price)
  \/ \E owner \in Owners, nonce \in Nonces, e \in CancelExpiries :
        CancelOrder(owner, nonce, e)
  \/ \E owner \in Owners, nonces \in SUBSET Nonces : ReclaimOrderState(owner, nonces)
  \/ \E op \in Operators : SetOperator(op)
  \/ \E d \in Domains : SetDomain(d)
  \/ EmergencyPause
  \/ Unpause
  \/ Tick

Spec == Init /\ [][Next]_vars
-----------------------------------------------------------------------------
(* Properties *)

\* The state has the shape the contract's storage keys give it.
TypeOK ==
  /\ now \in Nat
  /\ filled \in [Keys -> FilledEntry]
  /\ cancelled \in [Keys -> Nat \cup {NotCancelled}]
  /\ paused \in BOOLEAN
  /\ operator \in Operators \cup {None}
  /\ domain \in Domains \cup {None}
  /\ traded \in [Orders -> Nat]
  /\ lastCancel \in [Keys -> Nat \cup {NotCancelled}]

\* The last cancellation of the order's nonce covers the order's whole life.
Revoked(o) == lastCancel[KeyOf(o)] >= o.expiry

\* However fills, cancellations and reclamations interleave, an order is never
\* filled beyond the size its owner signed: validate_order and add_filled keep
\* the promise although reclaim_order_state deletes the counter.
NoOverfill == \A o \in Orders : traded[o] <= o.size

\* While an order can still fill, the stored counter accounts for everything it
\* has ever been filled, and an unpruned tombstone stands for its cancellation:
\* reclaim_order_state never removes an entry that still protects an order.
LiveOrdersProtected ==
  \A o \in Orders : now <= o.expiry =>
    /\ traded[o] <= filled[KeyOf(o)].amount
    /\ Revoked(o) => cancelled[KeyOf(o)] # NotCancelled

\* No step fills an order whose owner's last cancel_order named the order's real
\* expiry, even when anybody may have reclaimed the tombstone since.
CancelSticks ==
  [][\A o \in Orders : traded'[o] # traded[o] => ~Revoked(o)]_vars

\* The gateway implements the fill ledger: nonces, entries and their reclamation
\* are invisible to the owners of the orders.
Ledger == INSTANCE FillLedger
            WITH clock <- now, revoked <- {o \in Orders : Revoked(o)}
ImplementsLedger == Ledger!LedgerSpec
=============================================================================
