------------------------------ MODULE Exchange ------------------------------
(***************************************************************************)
(* Clearing: the engine, the vault, the insurance fund and the liquidation *)
(* contract, and the part of the order gateway that turns a fill into      *)
(* engine calls.  A fill is one transaction of up to eight nested calls    *)
(* (settle the maker's side, charge the maker, settle the taker's side,    *)
(* charge the taker); any error reverts all of it.  The calls are          *)
(* operators from a book to the set of books they may leave: the empty set *)
(* is the error.  Which fills the gateway lets through is in the module    *)
(* OrderGateway; here any two users may be matched.                        *)
(***************************************************************************)
EXTENDS FixedMath, FiniteSets, FiniteSetsExt

CONSTANTS
  Users, Liquidators, Funders,
  FeeRecipient, InsuranceAccount,  \* vault accounts of the fee recipient and of the insurance contract
  Markets, Assets, Settlement,     \* collateral assets; the engine's settlement asset
  Market,           \* [Markets -> MarketType]: engine, fee and funding configuration
  Haircut,          \* [Assets -> bps]
  DepositCap,       \* per asset, 0 for none
  MaxRewardBps,     \* the liquidation contract's
  MaxPositions,     \* MAX_POSITIONS_PER_USER
  FeedPrices,       \* what each oracle feed may quote
  FillSizes, FillPrices, Deposits, Withdrawals,
  StartTokens,      \* tokens a user or funder starts with, per asset
  TickSecs,         \* seconds between two oracle rounds
  MaxTime, MaxId    \* bounds: ledger time, position ids

MarketType ==
  [initial : Nat, maintenance : Nat, maxOI : Nat, deviation : Nat,
   makerFee : Nat, takerFee : Nat, coeff : Nat, maxRate : Nat]

Accounts == Users \cup {FeeRecipient, InsuranceAccount}
Feeds == Markets \cup Assets

ASSUME ExchangeAssumption ==
  /\ Market \in [Markets -> MarketType]
  /\ Settlement \in Assets /\ Haircut \in [Assets -> Nat]
  /\ {FeeRecipient, InsuranceAccount} \cap Users = {}
  /\ IsFiniteSet(Users) /\ IsFiniteSet(Markets) /\ IsFiniteSet(Assets)
  /\ FillSizes \subseteq Nat \ {0} /\ FillPrices \subseteq Nat
  /\ Deposits \subseteq Nat /\ Withdrawals \subseteq Nat
  /\ FeedPrices \in [Feeds -> SUBSET Nat] /\ StartTokens \in [Assets -> Nat]
  /\ MaxRewardBps \in Nat /\ TickSecs \in Nat

Quotes == {q \in [Feeds -> UNION {FeedPrices[f] : f \in Feeds}] :
             \A f \in Feeds : q[f] \in FeedPrices[f]}

VARIABLES
  positions,      \* engine: the positions of each user
  oi,             \* engine: OpenInterest, LongOpenInterest, ShortOpenInterest
  nextId,         \* engine: NextPositionId
  funding,        \* engine: FundingState
  synced,         \* vault: its copy of the positions
  vaultFunding,   \* vault: its copy of the funding indexes
  bal,            \* vault: Balance(account, asset), may be negative
  userAssets,     \* vault: UserAssets, the assets an account has deposited
  deposited,      \* vault: TotalDeposited
  paused,         \* vault: Paused
  reserves,       \* the vault's tokens
  fund, badDebt,  \* insurance: Balance and BadDebt of the settlement asset
  wallet,         \* tokens of everybody else
  price, now      \* the oracle's prices; ledger time

book == [positions |-> positions, synced |-> synced, bal |-> bal, oi |-> oi,
         nextId |-> nextId]
bookVars == <<positions, synced, bal, oi, nextId>>
fundingVars == <<funding, vaultFunding>>
custody == <<userAssets, deposited, reserves, wallet>>
insurance == <<fund, badDebt>>
vars == <<bookVars, fundingVars, custody, insurance, paused, price, now>>

BecomesBook(b) ==
  /\ positions' = b.positions /\ synced' = b.synced /\ bal' = b.bal
  /\ oi' = b.oi /\ nextId' = b.nextId

Init ==
  /\ positions = [u \in Users |-> {}] /\ synced = positions
  /\ oi = [m \in Markets |-> [total |-> 0, long |-> 0, short |-> 0]]
  /\ nextId = 1
  /\ funding = [m \in Markets |-> [long |-> 0, short |-> 0, last |-> 0]]
  /\ vaultFunding = [m \in Markets |-> [long |-> 0, short |-> 0]]
  /\ bal = [u \in Accounts |-> [a \in Assets |-> 0]]
  /\ userAssets = [u \in Users |-> {}]
  /\ deposited = [a \in Assets |-> 0]
  /\ paused = FALSE
  /\ reserves = [a \in Assets |-> 0]
  /\ fund = 0 /\ badDebt = 0
  /\ wallet = [u \in Users \cup Funders \cup Liquidators |->
                 [a \in Assets |-> IF u \in Users \cup Funders THEN StartTokens[a] ELSE 0]]
  /\ price \in Quotes
  /\ now = 0
-----------------------------------------------------------------------------
(* Account health, as the vault and the risk engine compute it *)

\* account_snapshot_all_assets once the user has deposited anything, and
\* account_snapshot_for_asset before.
CountedAssets(u, asset) == IF userAssets[u] = {} THEN {asset} ELSE userAssets[u]

CollateralValue(b, u, asset) ==
  SumFunction([a \in CountedAssets(u, asset) |->
                 AfterHaircut(MulPrecision(b.bal[u][a], price[a]), Haircut[a])])

UnrealizedPnl(p) ==
  LET index == IF p.long THEN vaultFunding[p.market].long ELSE vaultFunding[p.market].short
  IN  PricePnl(p.long, p.size, p.entry, price[p.market]) + FundingPnl(p.size, p.index, index)

EquityIn(b, u, asset) ==
  CollateralValue(b, u, asset) + SumFunction([p \in b.synced[u] |-> UnrealizedPnl(p)])

Equity(b, u) == EquityIn(b, u, Settlement)

InitialMargin(b, u) ==
  SumFunction([p \in b.synced[u] |->
                 ApplyBps(Notional(p.size, price[p.market]), Market[p.market].initial)])

MaintenanceMargin(b, u) ==
  SumFunction([p \in b.synced[u] |->
                 ApplyBps(Notional(p.size, price[p.market]), Market[p.market].maintenance)])

AboveInitialMargin(b, u) == Equity(b, u) >= InitialMargin(b, u)

Liquidatable(b, u) ==
  MaintenanceMargin(b, u) > 0 /\ Equity(b, u) < MaintenanceMargin(b, u)
-----------------------------------------------------------------------------
(* Vault and engine calls, from a book to the books they may leave *)

ApplyPnl(b, account, pnl) ==
  {c \in {[b EXCEPT !.bal[account][Settlement] = @ + pnl]} : ~paused}

SyncPositions(b, u) == [b EXCEPT !.synced[u] = b.positions[u]]

SyncAndRequireInitialMargin(b, u) ==
  {c \in {SyncPositions(b, u)} : AboveInitialMargin(c, u)}

\* validate_execution_price
InBand(m, px) ==
  Abs(px - price[m]) <= ApplyBps(price[m], Market[m].deviation)

FundingIndex(m, long) == IF long THEN funding[m].long ELSE funding[m].short

\* Mutant: the position's index is moved and the accrued amount is not paid.
SettleFundingSkipped(b, u, p) == {b}

\* settle_position_funding: the vault is only called for a non-zero amount.
SettleFunding(b, u, p) ==
  LET pnl == FundingPnl(p.size, p.index, FundingIndex(p.market, p.long))
  IN  IF pnl = 0 THEN {b} ELSE ApplyPnl(b, u, pnl)

\* Mutant: the sides are confused when a position shrinks.
AddInterestSwapped(i, long, size) ==
  [total |-> i.total + size,
   long |-> IF long = (size > 0) THEN i.long + size ELSE i.long,
   short |-> IF long = (size > 0) THEN i.short ELSE i.short + size]

\* Mutant: a close updates the total and forgets the side.
AddInterestForgetfulClose(i, long, size) ==
  [total |-> i.total + size,
   long |-> IF long /\ size > 0 THEN i.long + size ELSE i.long,
   short |-> IF ~long /\ size > 0 THEN i.short + size ELSE i.short]

AddInterest(i, long, size) ==
  [total |-> i.total + size,
   long |-> IF long THEN i.long + size ELSE i.long,
   short |-> IF long THEN i.short ELSE i.short + size]

OpenPosition(b, u, m, size, long, px) ==
  LET new == [id |-> b.nextId, market |-> m, long |-> long, size |-> size,
              entry |-> px, index |-> FundingIndex(m, long)]
  IN  {c \in SyncAndRequireInitialMargin(
               [b EXCEPT !.positions[u] = @ \cup {new},
                         !.oi[m] = AddInterest(@, long, size),
                         !.nextId = @ + 1], u) :
         /\ InBand(m, px)
         /\ b.oi[m].total + size <= Market[m].maxOI
         /\ Cardinality(b.positions[u]) < MaxPositions
         /\ b.nextId <= MaxId}

IncreasePosition(b, u, p, size, px) ==
  LET cost == MulPrecision(p.size, p.entry) + MulPrecision(size, px)
      grown == [p EXCEPT !.size = @ + size,
                         !.entry = DivPrecision(cost, p.size + size),
                         !.index = FundingIndex(p.market, p.long)]
  IN  UNION {{c \in SyncAndRequireInitialMargin(
                      [s EXCEPT !.positions[u] = (@ \ {p}) \cup {grown},
                                !.oi[p.market] = AddInterest(@, p.long, size)], u) :
                /\ InBand(p.market, px)
                /\ b.oi[p.market].total + size <= Market[p.market].maxOI} :
             s \in SettleFunding(b, u, p)}

\* reduce_position_internal up to the vault's copy of the positions: a full
\* close removes the position.
ReducedBooks(b, u, p, size, px) ==
  LET rest == [p EXCEPT !.size = @ - size, !.index = FundingIndex(p.market, p.long)]
  IN  UNION {{SyncPositions(c, u) :
                c \in ApplyPnl([s EXCEPT
                        !.positions[u] = (@ \ {p}) \cup (IF size = p.size THEN {} ELSE {rest}),
                        !.oi[p.market] = AddInterest(@, p.long, -size)],
                      u, PricePnl(p.long, size, p.entry, px))} :
             s \in {t \in SettleFunding(b, u, p) : size <= p.size /\ InBand(p.market, px)}}

ReducePosition(b, u, p, size, px) ==
  {c \in ReducedBooks(b, u, p, size, px) : AboveInitialMargin(c, u)}

\* Mutant: a same-side position is not looked for.
SettleUserSideAlwaysOpening(b, u, m, long, reduceOnly, size, px) ==
  LET opposite == {p \in b.positions[u] : p.market = m /\ p.long # long}
  IN  IF opposite # {}
      THEN UNION {ReducePosition(b, u, p, Least(p.size, size), px) : p \in opposite}
      ELSE IF reduceOnly THEN {} ELSE OpenPosition(b, u, m, size, long, px)

\* Mutant: what exceeds the opposite position is dropped instead of opened.
SettleUserSideNoResidual(b, u, m, long, reduceOnly, size, px) ==
  LET here == {p \in b.positions[u] : p.market = m}
      opposite == {p \in here : p.long # long}
  IN  IF opposite # {}
      THEN UNION {ReducePosition(b, u, p, Least(p.size, size), px) : p \in opposite}
      ELSE IF reduceOnly THEN {}
      ELSE IF here # {} THEN UNION {IncreasePosition(b, u, p, size, px) : p \in here}
      ELSE OpenPosition(b, u, m, size, long, px)

\* The gateway: close against an opposite position first, open the residual;
\* otherwise grow the position on this side, or open one.
SettleUserSide(b, u, m, long, reduceOnly, size, px) ==
  LET here == {p \in b.positions[u] : p.market = m}
      opposite == {p \in here : p.long # long}
  IN  IF opposite # {}
      THEN UNION {LET close == Least(p.size, size)
                  IN  UNION {IF close = size THEN {c}
                             ELSE IF reduceOnly THEN {}
                             ELSE OpenPosition(c, u, m, size - close, long, px) :
                             c \in ReducePosition(b, u, p, close, px)} :
                  p \in opposite}
      ELSE IF reduceOnly THEN {}
      ELSE IF here # {} THEN UNION {IncreasePosition(b, u, p, size, px) : p \in here}
      ELSE OpenPosition(b, u, m, size, long, px)

\* Mutant: the margin is not checked again after the fee.
ChargeTradeFeeUnchecked(b, u, size, px, bps) ==
  LET fee == ApplyBps(Notional(size, px), bps)
  IN  IF bps = 0 THEN {b}
      ELSE UNION {ApplyPnl(c, FeeRecipient, fee) : c \in ApplyPnl(b, u, -fee)}

\* Mutant: nobody is credited with the fee.
ChargeTradeFeeBurnt(b, u, size, px, bps) ==
  IF bps = 0 THEN {b}
  ELSE {c \in ApplyPnl(b, u, -ApplyBps(Notional(size, px), bps)) : AboveInitialMargin(c, u)}

ChargeTradeFee(b, u, size, px, bps) ==
  LET fee == ApplyBps(Notional(size, px), bps)
  IN  IF bps = 0 THEN {b}
      ELSE UNION {ApplyPnl(c, FeeRecipient, fee) :
                  c \in {d \in ApplyPnl(b, u, -fee) : AboveInitialMargin(d, u)}}
-----------------------------------------------------------------------------
(* Transactions *)

SettleFill(maker, taker, m, makerLong, makerReduces, takerReduces, size, px) ==
  /\ maker # taker
  /\ \E s1 \in SettleUserSide(book, maker, m, makerLong, makerReduces, size, px) :
     \E s2 \in ChargeTradeFee(s1, maker, size, px, Market[m].makerFee) :
     \E s3 \in SettleUserSide(s2, taker, m, ~makerLong, takerReduces, size, px) :
     \E s4 \in ChargeTradeFee(s3, taker, size, px, Market[m].takerFee) :
        BecomesBook(s4)
  /\ UNCHANGED <<fundingVars, custody, insurance, paused, price, now>>

Deposit(u, a, n) ==
  /\ ~paused
  /\ n > 0 /\ wallet[u][a] >= n
  /\ DepositCap[a] > 0 => deposited[a] + n <= DepositCap[a]
  /\ wallet' = [wallet EXCEPT ![u][a] = @ - n]
  /\ reserves' = [reserves EXCEPT ![a] = @ + n]
  /\ deposited' = [deposited EXCEPT ![a] = @ + n]
  /\ bal' = [bal EXCEPT ![u][a] = @ + n]
  /\ userAssets' = [userAssets EXCEPT ![u] = @ \cup {a}]
  /\ UNCHANGED <<positions, synced, oi, nextId, fundingVars, insurance, paused, price, now>>

\* validate_withdrawal: the amount is taken off the equity at its full value.
MayWithdraw(u, a, n) ==
  EquityIn(book, u, a) - MulPrecision(n, price[a]) >= InitialMargin(book, u)

Withdraw(u, a, n) ==
  /\ ~paused
  /\ n > 0 /\ bal[u][a] >= n
  /\ MayWithdraw(u, a, n)
  /\ reserves[a] >= n
  /\ bal' = [bal EXCEPT ![u][a] = @ - n]
  /\ deposited' = [deposited EXCEPT ![a] = Greatest(0, @ - n)]
  /\ reserves' = [reserves EXCEPT ![a] = @ - n]
  /\ wallet' = [wallet EXCEPT ![u][a] = @ + n]
  /\ UNCHANGED <<positions, synced, oi, nextId, fundingVars, userAssets, insurance,
                 paused, price, now>>

InsuranceDeposit(f, n) ==
  /\ n > 0 /\ wallet[f][Settlement] >= n
  /\ wallet' = [wallet EXCEPT ![f][Settlement] = @ - n]
  /\ fund' = fund + n
  /\ UNCHANGED <<bookVars, fundingVars, userAssets, deposited, reserves, badDebt, paused,
                 price, now>>

\* update_from_imbalance: how far the long index moves, against the heavier side.
IndexDelta(m) ==
  LET i == oi[m]
      imbalance == IF i.long + i.short = 0 THEN 0
                   ELSE DivPrecision(i.long - i.short, i.long + i.short)
      rate == Clamp(MulPrecision(imbalance, Market[m].coeff), Market[m].maxRate)
  IN  MulDiv(rate, now - funding[m].last, SecsPerHour)

\* Mutant: the difference between the sides is nobody's.
FundingSurplusLost(m) == 0

\* What one side pays and the other does not receive goes to the insurance
\* contract's account in the vault.
FundingSurplus(m) == MulDiv(IndexDelta(m), oi[m].long - oi[m].short, Precision)

UpdateFunding(m) ==
  LET delta == IndexDelta(m)
  IN  /\ now > funding[m].last
      /\ funding' = [funding EXCEPT ![m] =
                       [long |-> @.long + delta, short |-> @.short - delta, last |-> now]]
      /\ vaultFunding' = [vaultFunding EXCEPT ![m] =
                            [long |-> funding[m].long + delta, short |-> funding[m].short - delta]]
      /\ IF FundingSurplus(m) = 0 THEN BecomesBook(book)
         ELSE \E b \in ApplyPnl(book, InsuranceAccount, FundingSurplus(m)) : BecomesBook(b)
      /\ UNCHANGED <<custody, insurance, paused, price, now>>

\* liquidate: the health of the account must have improved.  While equity is
\* positive that is a higher margin ratio (infinite without positions).
Improved(before, after, u) ==
  IF Equity(before, u) > 0 /\ Equity(after, u) > 0
  THEN MaintenanceMargin(after, u) # 0 =>
         DivPrecision(Equity(after, u), MaintenanceMargin(after, u))
            > DivPrecision(Equity(before, u), MaintenanceMargin(before, u))
  ELSE MaintenanceMargin(after, u) < MaintenanceMargin(before, u)

\* absorb_bad_debt: what the insurance fund pays of a negative balance.
Coverage(b, u, available) ==
  IF Equity(b, u) >= 0 \/ b.bal[u][Settlement] >= 0 THEN 0
  ELSE Least(available, -b.bal[u][Settlement])

\* Mutant: bad debt is recorded only when the insurance fund had nothing to give.
UncoveredWhenEmpty(b, u, available) ==
  IF Equity(b, u) >= 0 \/ b.bal[u][Settlement] >= 0 \/ available > 0 THEN 0
  ELSE -b.bal[u][Settlement]

\* absorb_bad_debt: the rest of it, recorded as bad debt.
Uncovered(b, u, available) ==
  IF Equity(b, u) >= 0 \/ b.bal[u][Settlement] >= 0 THEN 0
  ELSE -b.bal[u][Settlement] - Coverage(b, u, available)

LiquidationReward(size, px) == ApplyBps(Notional(size, px), MaxRewardBps)

\* pay_liquidator fails on a fund smaller than the reward.
CanPayLiquidator(reward) == fund >= reward

Liquidate(liquidator, u, p, size, px) ==
  LET reward == LiquidationReward(size, px)
      available == fund - reward
  IN  /\ liquidator # u
      /\ Liquidatable(book, u)
      /\ CanPayLiquidator(reward)
      /\ \E b \in ReducedBooks(book, u, p, size, px) :
           LET covered == Coverage(b, u, available)
           IN  /\ Improved(book, b, u)
               /\ BecomesBook([b EXCEPT !.bal[u][Settlement] = @ + covered])
               /\ fund' = available - covered
               /\ badDebt' = badDebt + Uncovered(b, u, available)
               /\ reserves' = [reserves EXCEPT ![Settlement] = @ + covered]
      /\ wallet' = [wallet EXCEPT ![liquidator][Settlement] = @ + reward]
      /\ UNCHANGED <<fundingVars, userAssets, deposited, paused, price, now>>

EmergencyPause ==
  /\ paused' = TRUE
  /\ UNCHANGED <<bookVars, fundingVars, custody, insurance, price, now>>

Unpause ==
  /\ paused' = FALSE
  /\ UNCHANGED <<bookVars, fundingVars, custody, insurance, price, now>>

\* The oracle keeper writes a new round.
OracleRound ==
  /\ now + TickSecs <= MaxTime
  /\ now' = now + TickSecs
  /\ price' \in Quotes
  /\ UNCHANGED <<bookVars, fundingVars, custody, insurance, paused>>

Next ==
  \/ \E maker, taker \in Users, m \in Markets, makerLong \in BOOLEAN,
         makerReduces, takerReduces \in BOOLEAN, size \in FillSizes, px \in FillPrices :
        SettleFill(maker, taker, m, makerLong, makerReduces, takerReduces, size, px)
  \/ \E u \in Users, a \in Assets, n \in Deposits : Deposit(u, a, n)
  \/ \E u \in Users, a \in Assets, n \in Withdrawals : Withdraw(u, a, n)
  \/ \E f \in Funders, n \in Deposits : InsuranceDeposit(f, n)
  \/ \E m \in Markets : UpdateFunding(m)
  \/ \E l \in Liquidators, u \in Users, size \in FillSizes, px \in FillPrices :
        \E p \in positions[u] : Liquidate(l, u, p, size, px)
  \/ EmergencyPause
  \/ Unpause
  \/ OracleRound

Spec == Init /\ [][Next]_vars
-----------------------------------------------------------------------------
(* Properties *)

Position ==
  [id : Nat \ {0}, market : Markets, long : BOOLEAN, size : Nat \ {0}, entry : Int, index : Int]

\* The state has the shape of the contracts' storage.
TypeOK ==
  /\ \A u \in Users : positions[u] \subseteq Position /\ synced[u] \subseteq Position
  /\ oi \in [Markets -> [total : Nat, long : Nat, short : Nat]]
  /\ nextId \in Nat \ {0}
  /\ funding \in [Markets -> [long : Int, short : Int, last : Nat]]
  /\ vaultFunding \in [Markets -> [long : Int, short : Int]]
  /\ bal \in [Accounts -> [Assets -> Int]]
  /\ userAssets \in [Users -> SUBSET Assets]
  /\ deposited \in [Assets -> Nat]
  /\ reserves \in [Assets -> Nat]
  /\ fund \in Nat /\ badDebt \in Nat
  /\ wallet \in [Users \cup Funders \cup Liquidators -> [Assets -> Nat]]
  /\ price \in [Feeds -> Nat]
  /\ paused \in BOOLEAN /\ now \in Nat

\* Size held on one side of a market, counted from the positions.
HeldBy(held, m, long) ==
  SumFunction([p \in held |-> IF p.market = m /\ p.long = long THEN p.size ELSE 0])
HeldIn(ps, m, long) == SumFunction([u \in Users |-> HeldBy(ps[u], m, long)])
Held(m, long) == HeldIn(positions, m, long)

\* The engine's three open-interest counters are the sizes of the positions, and
\* the vault values exactly the positions the engine has, with its indexes:
\* whatever sequence of opens, flips, partial closes and liquidations was taken.
BooksAgree ==
  /\ \A m \in Markets :
       /\ oi[m] = [total |-> Held(m, TRUE) + Held(m, FALSE),
                   long |-> Held(m, TRUE), short |-> Held(m, FALSE)]
       /\ vaultFunding[m] = [long |-> funding[m].long, short |-> funding[m].short]
  /\ synced = positions

\* The gateway's settle_user_side looks for one opposite and one same-side
\* position per market; there is never more than one position of a user in a
\* market, and no two positions share an id.
OnePositionPerMarket ==
  /\ \A u \in Users : \A p, q \in positions[u] : p.market = q.market => p = q
  /\ \A u, v \in Users : \A p \in positions[u], q \in positions[v] :
       p.id < nextId /\ (p.id = q.id => u = v)

\* Every fill adds as much to one side as to the other, so before any liquidation
\* the two sides are equal and funding never accrues.
SidesMatch ==
  \A m \in Markets : oi[m].long = oi[m].short /\ funding[m].long = 0 /\ funding[m].short = 0

\* A transaction that changes an account's positions leaves it at or above its
\* initial margin, whichever of the nested calls came last, and one that takes
\* collateral out does so to the one unit that valuing the withdrawal by itself
\* may round.  Only the liquidation of an account below its maintenance margin
\* takes it lower.
MarginAfterTrade ==
  [][\A u \in Users :
       \/ Liquidators # {} /\ Liquidatable(book, u)
       \/ /\ positions'[u] # positions[u] => AboveInitialMargin(book, u)'
          /\ (\E a \in Assets : bal'[u][a] < bal[u][a]) =>
               Equity(book, u)' + 1 >= InitialMargin(book, u)']_vars

\* What closing the position at the oracle's price would be worth before any
\* rounding, in 1/Precision of a unit of the settlement asset.
ExactPnl(p) ==
  LET index == IF p.long THEN vaultFunding[p.market].long ELSE vaultFunding[p.market].short
      move == price[p.market] - p.entry
  IN  p.size * (IF p.long THEN move ELSE -move) - p.size * (index - p.index)

OpenPnl(u) == SumFunction([p \in positions[u] |-> ExactPnl(p)])

\* What the vault owes of an asset beyond the tokens it holds.
Owed(a) == SumFunction([u \in Accounts |-> bal[u][a]]) - reserves[a]

\* What it would owe of the settlement asset if every position were closed at the
\* oracle's price.
Gap == Precision * Owed(Settlement) + SumFunction([u \in Users |-> OpenPnl(u)])

\* Rounding: the average entry price of a grown position loses less than one unit
\* of price and two of cost, each amount paid less than one unit.
Dust(u) == 3 * Precision + SumFunction([p \in positions[u] \cup positions'[u] |-> p.size])

Skew(m) == oi[m].long - oi[m].short
Band(m) == ApplyBps(price[m], Market[m].deviation)

\* No transaction creates or destroys value: not a fill, a fee, a funding update
\* (what one side pays and the other does not receive goes to the insurance
\* account, in whole units), a deposit, a withdrawal or the cover of a deficit,
\* and a new price neither while every market has two equal sides.  A liquidation
\* closes one side only and may move the gap by its distance from the oracle's
\* price.  Of the other collateral the vault owes what it holds.
ValueConserved ==
  [][/\ (price' = price \/ \A m \in Markets : Skew(m) = 0) =>
          Abs(Gap' - Gap) <=
            SumFunction([m \in Markets |-> Abs(Skew(m)' - Skew(m)) * Band(m)])
            + SumFunction([u \in Users |-> IF positions'[u] # positions[u] THEN Dust(u) ELSE 0])
            + (IF funding' # funding THEN Precision ELSE 0)
     /\ \A a \in Assets \ {Settlement} : Owed(a)' = Owed(a)]_vars

Net(u, m) ==
  SumFunction([p \in positions[u] |->
                 IF p.market # m THEN 0 ELSE IF p.long THEN p.size ELSE -p.size])

\* The fees on a trade that moves the user's net position, and the worst price
\* of the oracle band.
TradeCost(u, m) ==
  LET size == Abs(Net(u, m)' - Net(u, m))
  IN  size * Band(m)
      + Precision * ApplyBps(Notional(size, price[m] + Band(m)),
                             Greatest(Market[m].makerFee, Market[m].takerFee))

\* The settlement asset an account would have after closing everything at the
\* oracle's price.
Worth(u) == Precision * bal[u][Settlement] + OpenPnl(u)

\* Trading, flipping or being liquidated costs an account its fee and at most the
\* distance of the fill from the oracle's price: accrued funding and unrealised
\* PnL turn into balance without loss, once.
EquityKept ==
  [][price' = price => \A u \in Users : positions'[u] # positions[u] =>
       /\ Worth(u)' >= Worth(u) - Dust(u) - SumFunction([m \in Markets |-> TradeCost(u, m)])
       /\ \A a \in Assets \ {Settlement} : bal'[u][a] = bal[u][a]]_vars

\* A debt that the feed never quotes at nothing: the vault's values are truncated,
\* and one that is worth less than a unit is not seen in the equity.
Visible(debt) == \A q \in FeedPrices[Settlement] : MulPrecision(debt, q) > 0

\* What an account owes that has nothing left to liquidate.
FlatDebt(u) ==
  IF positions[u] = {} /\ userAssets[u] \subseteq {Settlement} /\ Visible(-bal[u][Settlement])
  THEN Greatest(0, -bal[u][Settlement]) ELSE 0

\* The debt of accounts that have nothing left to liquidate is on record: the
\* insurance fund covered it or its bad debt shows it.  (Of an account that has
\* deposited another asset the vault may not see it: NegativeBalancesCounted.)
FlatDebtRecorded == SumFunction([u \in Users |-> FlatDebt(u)]) <= badDebt

\* account_snapshot_all_assets: "Negative balances MUST be included: they represent
\* underwater accounts that need the negative equity to trigger bad-debt coverage."
NegativeBalancesCounted ==
  \A u \in Users, a \in Assets : bal[u][a] < 0 => a \in CountedAssets(u, Settlement)
=============================================================================
