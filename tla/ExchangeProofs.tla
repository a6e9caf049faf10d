--------------------------- MODULE ExchangeProofs ---------------------------
(***************************************************************************)
(* The clearing books for any number of users, markets and assets, any     *)
(* prices and any configuration: a book is followed through the nested     *)
(* calls of a transaction, each of which leaves the books sound.           *)
(***************************************************************************)
EXTENDS Exchange, SumTheorems

USE ExchangeAssumption, PrecisionAssumption

Sides == [total : Int, long : Int, short : Int]

BookShape ==
  [positions : [Users -> SUBSET Position], synced : [Users -> SUBSET Position],
   bal : [Accounts -> [Assets -> Int]], oi : [Markets -> Sides], nextId : Nat \ {0}]

\* The positions of a user: one in a market, under ids that have been given out.
Separate(held, next) ==
  /\ IsFiniteSet(held)
  /\ \A p, q \in held : p.market = q.market => p = q
  /\ \A p \in held : p.id < next

\* No two users have a position under the same id.
Distinct(b) ==
  \A u, v \in Users : \A p \in b.positions[u], q \in b.positions[v] : p.id = q.id => u = v

\* The engine's counters are the sizes of its positions.
Counted(b) ==
  \A m \in Markets : b.oi[m] = [total |-> HeldIn(b.positions, m, TRUE) + HeldIn(b.positions, m, FALSE),
                                long |-> HeldIn(b.positions, m, TRUE), short |-> HeldIn(b.positions, m, FALSE)]

Sound(b) ==
  /\ b \in BookShape
  /\ \A u \in Users : Separate(b.positions[u], b.nextId)
  /\ Distinct(b) /\ Counted(b)
  /\ b.synced = b.positions

\* What the calls read beside the book.
Quoted ==
  /\ funding \in [Markets -> [long : Int, short : Int, last : Nat]]
  /\ price \in [Feeds -> Nat]
-----------------------------------------------------------------------------
(* Arithmetic. *)

LEMMA MulDivType ==
  ASSUME NEW a \in Int, NEW b \in Int, NEW d \in Int \ {0}
  PROVE  MulDiv(a, b, d) \in Int
<1>1. a * b \in Int
  OBVIOUS
<1>. DEFINE n == a * b
<1>2. Abs(n) \in Nat /\ Abs(d) \in Nat \ {0}
  BY <1>1 DEF Abs
<1>3. Abs(n) \div Abs(d) \in Int
  BY <1>2
<1>. QED
  BY <1>3 DEF MulDiv

\* A product of natural numbers is divided to a natural number.
LEMMA MulDivNat ==
  ASSUME NEW a \in Nat, NEW b \in Nat, NEW d \in Nat \ {0}
  PROVE  MulDiv(a, b, d) \in Nat
<1>1. a * b \in Nat
  OBVIOUS
<1>. DEFINE n == a * b
<1>2. Abs(n) = n /\ Abs(d) = d /\ n >= 0 /\ d > 0
  BY <1>1 DEF Abs
<1>3. n \div d \in Nat
  BY <1>1
<1>. QED
  BY <1>2, <1>3 DEF MulDiv

\* Nothing, times anything, is nothing.
LEMMA MulDivZero ==
  ASSUME NEW b \in Int, NEW d \in Int \ {0}
  PROVE  MulDiv(0, b, d) = 0
<1>1. 0 * b = 0 /\ Abs(0) = 0 /\ Abs(d) \in Nat \ {0}
  BY DEF Abs
<1>2. 0 \div Abs(d) = 0
  BY <1>1
<1>. QED
  BY <1>1, <1>2 DEF MulDiv

LEMMA FixedTypes ==
  /\ \A a, b \in Int : MulPrecision(a, b) \in Int /\ ApplyBps(a, b) \in Int
  /\ \A a \in Int, b \in Int \ {0} : DivPrecision(a, b) \in Int
  /\ \A a, b \in Nat : Notional(a, b) \in Nat /\ ApplyBps(a, b) \in Nat
<1>1. Precision \in Nat /\ Precision \in Int \ {0} /\ Precision \in Nat \ {0}
  OBVIOUS
<1>2. BpsDenominator \in Int \ {0} /\ BpsDenominator \in Nat \ {0}
  BY DEF BpsDenominator
<1>3. \A a, b \in Int : MulPrecision(a, b) \in Int /\ ApplyBps(a, b) \in Int
  BY <1>1, <1>2, MulDivType DEF MulPrecision, ApplyBps
<1>4. \A a \in Int, b \in Int \ {0} : DivPrecision(a, b) \in Int
  BY <1>1, MulDivType DEF DivPrecision
<1>5. \A a, b \in Nat : Notional(a, b) \in Nat /\ ApplyBps(a, b) \in Nat
  BY <1>1, <1>2, MulDivNat DEF Notional, MulPrecision, ApplyBps
<1>. QED
  BY <1>3, <1>4, <1>5

LEMMA PnlTypes ==
  /\ \A long \in BOOLEAN, size, entry, px \in Int : PricePnl(long, size, entry, px) \in Int
  /\ \A size, last, index \in Int : FundingPnl(size, last, index) \in Int
<1>1. \A long \in BOOLEAN, size, entry, px \in Int : PricePnl(long, size, entry, px) \in Int
  <2>1. ASSUME NEW size \in Int, NEW d \in Int
        PROVE  MulPrecision(size, d) \in Int
    BY FixedTypes
  <2>2. \A entry, px \in Int : px - entry \in Int /\ entry - px \in Int
    OBVIOUS
  <2>. QED
    BY <2>1, <2>2 DEF PricePnl
<1>2. ASSUME NEW size \in Int, NEW last \in Int, NEW index \in Int
      PROVE  FundingPnl(size, last, index) \in Int
  <2>1. MulPrecision(size, index - last) \in Int
    BY FixedTypes
  <2>. QED
    BY <2>1 DEF FundingPnl
<1>. QED
  BY <1>1, <1>2
-----------------------------------------------------------------------------
(* The size a user holds on a side of a market. *)
Weight(m, long) == [p \in Position |-> IF p.market = m /\ p.long = long THEN p.size ELSE 0]

LEMMA WeightType ==
  ASSUME NEW m, NEW long
  PROVE  \A p \in Position : Weight(m, long)[p] \in Nat
  BY DEF Weight, Position

LEMMA HeldByWeight ==
  ASSUME NEW held \in SUBSET Position, IsFiniteSet(held), NEW m, NEW long
  PROVE  /\ HeldBy(held, m, long) = SumFunctionOnSet(Weight(m, long), held)
         /\ HeldBy(held, m, long) \in Nat
<1>. DEFINE f == [p \in held |-> IF p.market = m /\ p.long = long THEN p.size ELSE 0]
<1>1. \A p \in held : f[p] = Weight(m, long)[p]
  BY DEF Weight
<1>2. HeldBy(held, m, long) = SumFunctionOnSet(f, held)
  BY Zenon DEF HeldBy, SumFunction
<1>. HIDE DEF f
<1>3. HeldBy(held, m, long) = SumFunctionOnSet(Weight(m, long), held)
  BY <1>1, <1>2, SumSame
<1>4. SumFunctionOnSet(Weight(m, long), held) \in Nat
  <2>1. \A p \in held : Weight(m, long)[p] \in Int /\ Weight(m, long)[p] >= 0
    BY WeightType
  <2>. QED
    BY <2>1, SumType
<1>. QED
  BY <1>3, <1>4

\* A position is taken out of, or put among, those a user holds.
LEMMA HeldByLess ==
  ASSUME NEW held \in SUBSET Position, IsFiniteSet(held), NEW p \in held, NEW m, NEW long
  PROVE  /\ IsFiniteSet(held \ {p})
         /\ HeldBy(held \ {p}, m, long) = HeldBy(held, m, long) - Weight(m, long)[p]
<1>1. IsFiniteSet(held \ {p})
  BY FS_RemoveElement
<1>2. SumFunctionOnSet(Weight(m, long), held)
        = Weight(m, long)[p] + SumFunctionOnSet(Weight(m, long), held \ {p})
  <2>1. \A q \in held : Weight(m, long)[q] \in Int
    BY WeightType
  <2>. QED
    BY <2>1, SumRemove
<1>3. /\ HeldBy(held, m, long) = SumFunctionOnSet(Weight(m, long), held)
      /\ HeldBy(held \ {p}, m, long) = SumFunctionOnSet(Weight(m, long), held \ {p})
      /\ HeldBy(held \ {p}, m, long) \in Nat
  BY <1>1, HeldByWeight
<1>4. Weight(m, long)[p] \in Nat
  BY WeightType
<1>. QED
  BY <1>1, <1>2, <1>3, <1>4

LEMMA HeldByMore ==
  ASSUME NEW held \in SUBSET Position, IsFiniteSet(held), NEW p \in Position, p \notin held, NEW m, NEW long
  PROVE  /\ IsFiniteSet(held \cup {p})
         /\ HeldBy(held \cup {p}, m, long) = HeldBy(held, m, long) + Weight(m, long)[p]
<1>1. IsFiniteSet(held \cup {p}) /\ held \cup {p} \in SUBSET Position
  BY FS_AddElement
<1>2. SumFunctionOnSet(Weight(m, long), held \cup {p})
        = Weight(m, long)[p] + SumFunctionOnSet(Weight(m, long), held)
  <2>1. \A q \in held \cup {p} : Weight(m, long)[q] \in Int
    BY <1>1, WeightType
  <2>. QED
    BY <2>1, SumAdd
<1>3. /\ HeldBy(held, m, long) = SumFunctionOnSet(Weight(m, long), held)
      /\ HeldBy(held \cup {p}, m, long) = SumFunctionOnSet(Weight(m, long), held \cup {p})
      /\ HeldBy(held, m, long) \in Nat
  BY <1>1, HeldByWeight
<1>4. Weight(m, long)[p] \in Nat
  BY WeightType
<1>. QED
  BY <1>1, <1>2, <1>3, <1>4

\* One user's positions become others.
LEMMA HeldInMoves ==
  ASSUME NEW ps \in [Users -> SUBSET Position], \A v \in Users : IsFiniteSet(ps[v]),
         NEW u \in Users, NEW held \in SUBSET Position, IsFiniteSet(held), NEW m, NEW long
  PROVE  /\ HeldIn(ps, m, long) \in Nat
         /\ HeldIn([ps EXCEPT ![u] = held], m, long)
              = HeldIn(ps, m, long) + HeldBy(held, m, long) - HeldBy(ps[u], m, long)
<1>. DEFINE qs == [ps EXCEPT ![u] = held]
<1>. DEFINE f == [v \in Users |-> HeldBy(ps[v], m, long)]
            g == [v \in Users |-> HeldBy(qs[v], m, long)]
<1>1. /\ HeldIn(ps, m, long) = SumFunctionOnSet(f, Users)
      /\ HeldIn(qs, m, long) = SumFunctionOnSet(g, Users)
  BY Zenon DEF HeldIn, SumFunction
<1>2. \A v \in Users : f[v] = HeldBy(ps[v], m, long) /\ f[v] \in Nat
  BY HeldByWeight
<1>3. \A v \in Users \ {u} : g[v] = f[v]
  OBVIOUS
<1>4. g[u] = HeldBy(held, m, long) /\ HeldBy(held, m, long) \in Nat
  BY HeldByWeight
<1>. HIDE DEF f, g
<1>5. \A v \in Users : f[v] \in Int /\ g[v] \in Int /\ f[v] >= 0
  BY <1>2, <1>3, <1>4
<1>6. SumFunctionOnSet(g, Users) = SumFunctionOnSet(f, Users) + g[u] - f[u]
  BY <1>3, <1>5, SumChange
<1>7. SumFunctionOnSet(f, Users) \in Int /\ SumFunctionOnSet(f, Users) >= 0
  BY <1>5, SumType
<1>. QED
  BY <1>1, <1>2, <1>4, <1>6, <1>7
-----------------------------------------------------------------------------
(* The steps of a call: a payment, a change of positions, the copy for the vault. *)

\* Everything but the balances.
SameTrades(b, c) ==
  c.positions = b.positions /\ c.synced = b.synced /\ c.oi = b.oi /\ c.nextId = b.nextId

LEMMA SoundSame ==
  ASSUME NEW b, Sound(b), NEW c \in BookShape, SameTrades(b, c)
  PROVE  Sound(c)
<1>1. \A m \in Markets, long \in BOOLEAN : HeldIn(c.positions, m, long) = HeldIn(b.positions, m, long)
  BY DEF HeldIn, SameTrades
<1>2. Counted(c)
  BY <1>1 DEF Counted, Sound, SameTrades
<1>. QED
  BY <1>2 DEF Sound, SameTrades, Distinct

\* All payments are in the settlement asset.
InSettlement(b, c) == \A v \in Accounts, a \in Assets \ {Settlement} : c.bal[v][a] = b.bal[v][a]

\* A call that only pays or charges one account.
Charged(b, c, account) ==
  /\ c \in BookShape /\ SameTrades(b, c)
  /\ \A v \in Accounts \ {account} : c.bal[v] = b.bal[v]
  /\ InSettlement(b, c)

Credited(b, account, n) == [b EXCEPT !.bal[account][Settlement] = @ + n]

LEMMA CreditKeeps ==
  ASSUME NEW b \in BookShape, NEW account \in Accounts, NEW n \in Int
  PROVE  Charged(b, Credited(b, account, n), account)
<1>. DEFINE row == [b.bal[account] EXCEPT ![Settlement] = @ + n]
            bals == [b.bal EXCEPT ![account] = row]
            c == Credited(b, account, n)
<1>1. b.bal \in [Accounts -> [Assets -> Int]]
  BY DEF BookShape
<1>2. row \in [Assets -> Int]
  BY <1>1
<1>3. c = [b EXCEPT !.bal = bals]
  BY DEF Credited, BookShape
<1>. HIDE DEF row
<1>4. bals \in [Accounts -> [Assets -> Int]] /\ \A v \in Accounts \ {account} : bals[v] = b.bal[v]
  BY <1>1, <1>2
<1>5. \A v \in Accounts, a \in Assets \ {Settlement} : bals[v][a] = b.bal[v][a]
  BY <1>1 DEF row
<1>. HIDE DEF bals, c
<1>6. Charged(b, c, account)
  BY <1>3, <1>4, <1>5 DEF BookShape, SameTrades, Charged, InSettlement
<1>. QED
  BY <1>6 DEF c

LEMMA Paid ==
  ASSUME NEW b \in BookShape, NEW account \in Accounts, NEW pnl \in Int, NEW c \in ApplyPnl(b, account, pnl)
  PROVE  Charged(b, c, account)
<1>1. c = Credited(b, account, pnl)
  BY DEF ApplyPnl, Credited
<1>. QED
  BY <1>1, CreditKeeps

LEMMA FundingPaid ==
  ASSUME NEW b \in BookShape, Quoted, NEW u \in Users, NEW p \in Position, NEW c \in SettleFunding(b, u, p)
  PROVE  Charged(b, c, u)
<1>. DEFINE pnl == FundingPnl(p.size, p.index, FundingIndex(p.market, p.long))
<1>1. p.size \in Int /\ p.index \in Int /\ FundingIndex(p.market, p.long) \in Int
  BY DEF Position, FundingIndex, Quoted
<1>2. pnl \in Int
  BY <1>1, PnlTypes
<1>3. c = b \/ c \in ApplyPnl(b, u, pnl)
  BY DEF SettleFunding
<1>. HIDE DEF pnl
<1>4. u \in Accounts
  BY DEF Accounts
<1>. QED
  BY <1>2, <1>3, <1>4, Paid DEF SameTrades, Charged, InSettlement

\* What a user may come to hold: one position more or less on a side of a
\* market, ids kept or new, and a size that differs by delta on that side only.
Reshaped(b, u, held, next, m, long, delta) ==
  /\ held \in SUBSET Position /\ Separate(held, next)
  /\ \A p \in held : p.id >= b.nextId \/ \E q \in b.positions[u] : q.id = p.id
  /\ \A n \in Markets, side \in BOOLEAN :
       HeldBy(held, n, side) = HeldBy(b.positions[u], n, side)
                                 + IF n = m /\ side = long THEN delta ELSE 0

\* How a call writes it: with the vault's copy, a side of the market, and no
\* account paid or charged but the user's.
Rewritten(b, c, u, held, m, row) ==
  /\ c \in BookShape /\ c.nextId >= b.nextId
  /\ c.positions = [b.positions EXCEPT ![u] = held] /\ c.synced = c.positions
  /\ c.oi = [b.oi EXCEPT ![m] = row]
  /\ \A v \in Accounts \ {u} : c.bal[v] = b.bal[v]
  /\ InSettlement(b, c)

\* Then the books stay sound.
LEMMA BookMoves ==
  ASSUME NEW b, Sound(b), NEW c, NEW u \in Users, NEW m \in Markets, NEW long \in BOOLEAN,
         NEW delta \in Int, NEW held, Reshaped(b, u, held, c.nextId, m, long, delta),
         Rewritten(b, c, u, held, m, AddInterest(b.oi[m], long, delta))
  PROVE  Sound(c)
<1>a. /\ c \in BookShape /\ held \in SUBSET Position /\ Separate(held, c.nextId) /\ c.nextId >= b.nextId
      /\ c.synced = c.positions
  BY DEF Reshaped, Rewritten
<1>b. \A p \in held : p.id >= b.nextId \/ \E q \in b.positions[u] : q.id = p.id
  BY DEF Reshaped
<1>c. \A n \in Markets, side \in BOOLEAN :
        HeldBy(held, n, side) = HeldBy(b.positions[u], n, side) + IF n = m /\ side = long THEN delta ELSE 0
  BY DEF Reshaped
<1>0. /\ b \in BookShape /\ \A v \in Users : Separate(b.positions[v], b.nextId)
      /\ b.positions \in [Users -> SUBSET Position]
      /\ b.nextId \in Nat /\ c.nextId \in Nat
  BY <1>a DEF Sound, BookShape
<1>1. \A v \in Users : IsFiniteSet(b.positions[v])
  BY <1>0 DEF Separate
<1>2. c.positions = [b.positions EXCEPT ![u] = held]
  BY DEF Rewritten
<1>d. \A v \in Users : c.positions[v] = IF v = u THEN held ELSE b.positions[v]
  BY <1>0, <1>2
<1>e. \A n \in Markets : c.oi[n] = IF n = m THEN AddInterest(b.oi[m], long, delta) ELSE b.oi[n]
  BY <1>0 DEF BookShape, Rewritten
<1>. USE <1>a
<1>3. \A v \in Users : Separate(c.positions[v], c.nextId)
  <2>1. ASSUME NEW v \in Users, v # u
        PROVE  Separate(b.positions[v], c.nextId)
    <3>1. \A p \in b.positions[v] : p.id \in Nat /\ p.id < b.nextId
      BY <1>0 DEF Separate, Position
    <3>2. \A p \in b.positions[v] : p.id < c.nextId
      BY <1>0, <3>1
    <3>. QED
      BY <1>0, <3>2 DEF Separate
  <2>. QED
    BY <1>d, <2>1
<1>4. Distinct(c)
  <2>1. ASSUME NEW v \in Users, v # u, NEW p \in held, NEW q \in b.positions[v]
        PROVE  p.id # q.id
    <3>1. q.id < b.nextId /\ q.id \in Nat /\ p.id \in Nat
      BY <1>0 DEF Separate, Position
    <3>2. CASE p.id >= b.nextId
      BY <1>0, <3>1, <3>2
    <3>3. CASE \E r \in b.positions[u] : r.id = p.id
      BY <2>1, <3>3 DEF Sound, Distinct
    <3>. QED
      BY <1>b, <3>2, <3>3
  <2>. QED
    BY <1>d, <2>1 DEF Distinct, Sound
<1>5. \A n \in Markets, side \in BOOLEAN :
        /\ HeldIn(b.positions, n, side) \in Nat
        /\ HeldIn(c.positions, n, side) = HeldIn(b.positions, n, side) + IF n = m /\ side = long THEN delta ELSE 0
  <2>1. ASSUME NEW n \in Markets, NEW side \in BOOLEAN
        PROVE  /\ HeldIn(b.positions, n, side) \in Nat
               /\ HeldIn(c.positions, n, side) = HeldIn(b.positions, n, side) + IF n = m /\ side = long THEN delta ELSE 0
    <3>1. IsFiniteSet(held)
      BY DEF Separate
    <3>2. /\ HeldIn(b.positions, n, side) \in Nat
          /\ HeldIn(c.positions, n, side) = HeldIn(b.positions, n, side) + HeldBy(held, n, side) - HeldBy(b.positions[u], n, side)
      BY <1>0, <1>1, <1>2, <3>1, HeldInMoves
    <3>3. HeldBy(b.positions[u], n, side) \in Nat
      BY <1>0, <1>1, HeldByWeight
    <3>. QED
      BY <1>c, <3>2, <3>3
  <2>. QED
    BY <2>1
<1>6. Counted(c)
  <2>1. ASSUME NEW n \in Markets
        PROVE  c.oi[n] = [total |-> HeldIn(c.positions, n, TRUE) + HeldIn(c.positions, n, FALSE),
                          long |-> HeldIn(c.positions, n, TRUE), short |-> HeldIn(c.positions, n, FALSE)]
    <3>1. b.oi[n] = [total |-> HeldIn(b.positions, n, TRUE) + HeldIn(b.positions, n, FALSE),
                     long |-> HeldIn(b.positions, n, TRUE), short |-> HeldIn(b.positions, n, FALSE)]
      BY DEF Sound, Counted
    <3>2. b.oi \in [Markets -> Sides]
      BY <1>0 DEF BookShape
    <3>3. CASE n # m
      <4>1. c.oi[n] = b.oi[n]
        BY <1>e, <3>3
      <4>2. \A side \in BOOLEAN : HeldIn(c.positions, n, side) = HeldIn(b.positions, n, side)
        BY <1>5, <3>3
      <4>. QED
        BY <3>1, <4>1, <4>2
    <3>4. CASE n = m
      <4>1. c.oi[n] = AddInterest(b.oi[n], long, delta)
        BY <1>e, <3>4
      <4>2. /\ HeldIn(b.positions, n, TRUE) \in Nat /\ HeldIn(b.positions, n, FALSE) \in Nat
            /\ HeldIn(c.positions, n, TRUE) = HeldIn(b.positions, n, TRUE) + IF long THEN delta ELSE 0
            /\ HeldIn(c.positions, n, FALSE) = HeldIn(b.positions, n, FALSE) + IF long THEN 0 ELSE delta
        BY <1>5, <3>4
      <4>. QED
        <5>1. /\ b.oi[n].total = HeldIn(b.positions, n, TRUE) + HeldIn(b.positions, n, FALSE)
              /\ b.oi[n].long = HeldIn(b.positions, n, TRUE) /\ b.oi[n].short = HeldIn(b.positions, n, FALSE)
          BY <3>1
        <5>. DEFINE lb == HeldIn(b.positions, n, TRUE)
                    sb == HeldIn(b.positions, n, FALSE)
                    lc == HeldIn(c.positions, n, TRUE)
                    sc == HeldIn(c.positions, n, FALSE)
                    i == b.oi[n]
        <5>3. /\ i.total = lb + sb /\ i.long = lb /\ i.short = sb
              /\ lb \in Nat /\ sb \in Nat
              /\ lc = lb + IF long THEN delta ELSE 0
              /\ sc = sb + IF long THEN 0 ELSE delta
          BY <4>2, <5>1
        <5>2. /\ i.total + delta = lc + sc
              /\ (IF long THEN i.long + delta ELSE i.long) = lc
              /\ (IF long THEN i.short ELSE i.short + delta) = sc
          <6>. HIDE DEF lb, sb, lc, sc, i
          <6>1. CASE long
            BY <5>3, <6>1
          <6>2. CASE ~long
            BY <5>3, <6>2
          <6>. QED
            BY <6>1, <6>2
        <5>. QED
          BY <4>1, <5>2, Zenon DEF AddInterest
    <3>. QED
      BY <3>3, <3>4
  <2>. QED
    BY <2>1 DEF Counted
<1>. QED
  BY <1>3, <1>4, <1>6 DEF Sound
-----------------------------------------------------------------------------
(* What a call does for a user: the books stay sound, nobody else's positions  *)
(* or balances change, and one market's sides grow apart by the size it moves. *)
Apart(b, m) == b.oi[m].long - b.oi[m].short

Moved(b, c, u, m, net) ==
  /\ Sound(c)
  /\ \A v \in Users \ {u} : c.positions[v] = b.positions[v]
  /\ \A v \in Accounts \ {u} : c.bal[v] = b.bal[v]
  /\ InSettlement(b, c)
  /\ \A n \in Markets : Apart(c, n) = Apart(b, n) + IF n = m THEN net ELSE 0

Signed(long, size) == IF long THEN size ELSE -size

LEMMA InterestType ==
  ASSUME NEW i \in Sides, NEW long \in BOOLEAN, NEW delta \in Int
  PROVE  /\ AddInterest(i, long, delta) \in Sides
         /\ AddInterest(i, long, delta).long - AddInterest(i, long, delta).short
              = i.long - i.short + Signed(long, delta)
  BY DEF AddInterest, Sides, Signed

LEMMA CallMoves ==
  ASSUME NEW b, Sound(b), NEW c, NEW u \in Users, NEW m \in Markets, NEW long \in BOOLEAN,
         NEW delta \in Int, NEW held, Reshaped(b, u, held, c.nextId, m, long, delta),
         Rewritten(b, c, u, held, m, AddInterest(b.oi[m], long, delta))
  PROVE  Moved(b, c, u, m, Signed(long, delta))
<1>. DEFINE row == AddInterest(b.oi[m], long, delta)
<1>1. b \in BookShape /\ b.positions \in [Users -> SUBSET Position] /\ b.oi \in [Markets -> Sides]
  BY DEF Sound, BookShape
<1>2. b.oi[m] \in Sides
  BY <1>1
<1>3. row.long - row.short = b.oi[m].long - b.oi[m].short + Signed(long, delta)
  BY <1>2, InterestType
<1>4. /\ c.positions = [b.positions EXCEPT ![u] = held] /\ c.oi = [b.oi EXCEPT ![m] = row]
      /\ (\A v \in Accounts \ {u} : c.bal[v] = b.bal[v]) /\ InSettlement(b, c)
  BY Zenon DEF Rewritten
<1>5. Sound(c)
  BY BookMoves, SMTT(30)
<1>. HIDE DEF row
<1>6. \A v \in Users \ {u} : c.positions[v] = b.positions[v]
  BY <1>1, <1>4
<1>7. \A n \in Markets : Apart(c, n) = Apart(b, n) + IF n = m THEN Signed(long, delta) ELSE 0
  <2>1. \A n \in Markets : b.oi[n].long \in Int /\ b.oi[n].short \in Int
    BY <1>1 DEF Sides
  <2>2. \A n \in Markets : c.oi[n] = IF n = m THEN row ELSE b.oi[n]
    BY <1>1, <1>4
  <2>. QED
    BY <1>3, <2>1, <2>2 DEF Apart
<1>. QED
  BY <1>4, <1>5, <1>6, <1>7 DEF Moved
-----------------------------------------------------------------------------
(* The records the calls write. *)
Stored(s, u, held, m, row, next) ==
  [s EXCEPT !.positions[u] = held, !.oi[m] = row, !.nextId = next]

LEMMA StoredFields ==
  ASSUME NEW s \in BookShape, NEW u \in Users, NEW m \in Markets, NEW held \in SUBSET Position,
         NEW row \in Sides, NEW next \in Nat \ {0}
  PROVE  /\ Stored(s, u, held, m, row, next) \in BookShape
         /\ Stored(s, u, held, m, row, next).positions = [s.positions EXCEPT ![u] = held]
         /\ Stored(s, u, held, m, row, next).oi = [s.oi EXCEPT ![m] = row]
         /\ Stored(s, u, held, m, row, next).nextId = next
         /\ Stored(s, u, held, m, row, next).bal = s.bal
         /\ Stored(s, u, held, m, row, next).synced = s.synced
<1>. DEFINE b1 == [s EXCEPT !.positions = [s.positions EXCEPT ![u] = held]]
            b2 == [b1 EXCEPT !.oi = [b1.oi EXCEPT ![m] = row]]
            b3 == [b2 EXCEPT !.nextId = next]
<1>1. Stored(s, u, held, m, row, next) = b3
  BY DEF Stored, BookShape
<1>3. /\ b1 \in BookShape /\ b1.positions = [s.positions EXCEPT ![u] = held]
      /\ b1.bal = s.bal /\ b1.oi = s.oi /\ b1.nextId = s.nextId /\ b1.synced = s.synced
  BY DEF BookShape
<1>. HIDE DEF b1
<1>4. /\ b2 \in BookShape /\ b2.positions = b1.positions /\ b2.oi = [b1.oi EXCEPT ![m] = row]
      /\ b2.bal = b1.bal /\ b2.nextId = b1.nextId /\ b2.synced = b1.synced
  BY <1>3 DEF BookShape
<1>. HIDE DEF b2
<1>5. /\ b3 \in BookShape /\ b3.positions = b2.positions /\ b3.oi = b2.oi
      /\ b3.bal = b2.bal /\ b3.nextId = next /\ b3.synced = b2.synced
  BY <1>4 DEF BookShape
<1>. HIDE DEF b3
<1>. QED
  BY <1>1, <1>3, <1>4, <1>5

LEMMA StoredBalances ==
  ASSUME NEW s \in BookShape, NEW u, NEW m, NEW held, NEW row, NEW next
  PROVE  Stored(s, u, held, m, row, next).bal = s.bal
  BY DEF Stored, BookShape

\* A call that gives out no id leaves the counter.
Uncounted(s, u, held, m, row) == [s EXCEPT !.positions[u] = held, !.oi[m] = row]

LEMMA StoredUncounted ==
  ASSUME NEW s \in BookShape, NEW u \in Users, NEW m \in Markets, NEW held, NEW row
  PROVE  Uncounted(s, u, held, m, row) = Stored(s, u, held, m, row, s.nextId)
  BY DEF Stored, Uncounted, BookShape

LEMMA CopiedFields ==
  ASSUME NEW s \in BookShape, NEW u \in Users
  PROVE  /\ SyncPositions(s, u) \in BookShape
         /\ SyncPositions(s, u).synced = [s.synced EXCEPT ![u] = s.positions[u]]
         /\ SyncPositions(s, u).positions = s.positions /\ SyncPositions(s, u).oi = s.oi
         /\ SyncPositions(s, u).nextId = s.nextId /\ SyncPositions(s, u).bal = s.bal
<1>. DEFINE copy == [s.synced EXCEPT ![u] = s.positions[u]]
<1>1. SyncPositions(s, u) = [s EXCEPT !.synced = copy]
  BY DEF SyncPositions, BookShape
<1>2. copy \in [Users -> SUBSET Position]
  BY DEF BookShape
<1>. HIDE DEF copy
<1>3. /\ SyncPositions(s, u) \in BookShape /\ SyncPositions(s, u).synced = copy
      /\ SyncPositions(s, u).positions = s.positions /\ SyncPositions(s, u).oi = s.oi
      /\ SyncPositions(s, u).nextId = s.nextId /\ SyncPositions(s, u).bal = s.bal
  BY <1>1, <1>2 DEF BookShape
<1>. QED
  BY <1>3 DEF copy

\* A call as a whole: accrued funding is paid, the position is written, its PnL
\* is paid, and the vault takes the copy.
LEMMA Rewrites ==
  ASSUME NEW b, Sound(b), NEW u \in Users, NEW m \in Markets, NEW held \in SUBSET Position,
         NEW row \in Sides, NEW next \in Nat \ {0}, next >= b.nextId,
         NEW s, Charged(b, s, u), NEW t, Charged(Stored(s, u, held, m, row, next), t, u)
  PROVE  /\ Rewritten(b, SyncPositions(t, u), u, held, m, row)
         /\ SyncPositions(t, u).nextId = next
<1>. DEFINE w == Stored(s, u, held, m, row, next)
            c == SyncPositions(t, u)
<1>1. s \in BookShape /\ t \in BookShape /\ b \in BookShape /\ b.synced = b.positions
  BY DEF Charged, Sound
<1>2. /\ w.positions = [s.positions EXCEPT ![u] = held] /\ w.oi = [s.oi EXCEPT ![m] = row]
      /\ w.nextId = next /\ w.bal = s.bal /\ w.synced = s.synced
  BY <1>1, StoredFields
<1>3. /\ c \in BookShape /\ c.synced = [t.synced EXCEPT ![u] = t.positions[u]]
      /\ c.positions = t.positions /\ c.oi = t.oi /\ c.nextId = t.nextId /\ c.bal = t.bal
  BY <1>1, CopiedFields
<1>4. /\ t.positions = w.positions /\ t.synced = w.synced /\ t.oi = w.oi /\ t.nextId = w.nextId
      /\ \A v \in Accounts \ {u} : t.bal[v] = w.bal[v]
  BY DEF Charged, SameTrades
<1>5. /\ s.positions = b.positions /\ s.synced = b.synced /\ s.oi = b.oi /\ s.nextId = b.nextId
      /\ \A v \in Accounts \ {u} : s.bal[v] = b.bal[v]
  BY DEF Charged, SameTrades
<1>. HIDE DEF w, c
<1>6. t.positions[u] = held
  BY <1>1, <1>2, <1>4 DEF BookShape
<1>7. InSettlement(b, c)
  BY <1>2, <1>3 DEF Charged, InSettlement, w
<1>8. Rewritten(b, c, u, held, m, row) /\ c.nextId = next
  BY <1>1, <1>2, <1>3, <1>4, <1>5, <1>6, <1>7 DEF Rewritten
<1>. QED
  BY <1>8 DEF c
-----------------------------------------------------------------------------
(* The engine's calls, one by one. *)

LEMMA Opened ==
  ASSUME NEW b, Sound(b), NEW u \in Users, NEW m \in Markets, NEW long \in BOOLEAN,
         \A p \in b.positions[u] : p.market # m,
         NEW new \in Position, new.id = b.nextId, new.market = m, new.long = long
  PROVE  Reshaped(b, u, b.positions[u] \cup {new}, b.nextId + 1, m, long, new.size)
<1>. DEFINE old == b.positions[u]
            held == old \cup {new}
<1>1. old \in SUBSET Position /\ Separate(old, b.nextId) /\ b.nextId \in Nat
  BY DEF Sound, BookShape
<1>2. IsFiniteSet(old) /\ new \notin old
  BY <1>1 DEF Separate
<1>3. \A p \in old : p.id \in Nat /\ p.id < b.nextId
  BY <1>1 DEF Separate, Position
<1>4. Separate(held, b.nextId + 1)
  <2>1. IsFiniteSet(held)
    BY <1>2, FS_AddElement
  <2>2. \A p \in held : p.id < b.nextId + 1
    BY <1>1, <1>3
  <2>3. \A p, q \in held : p.market = q.market => p = q
    BY <1>1 DEF Separate
  <2>. QED
    BY <2>1, <2>2, <2>3 DEF Separate
<1>5. \A p \in held : p.id >= b.nextId \/ \E q \in old : q.id = p.id
  BY <1>1
<1>6. ASSUME NEW n \in Markets, NEW side \in BOOLEAN
      PROVE  HeldBy(held, n, side) = HeldBy(old, n, side) + IF n = m /\ side = long THEN new.size ELSE 0
  <2>1. HeldBy(held, n, side) = HeldBy(old, n, side) + Weight(n, side)[new]
    <3>1. old \in SUBSET Position /\ IsFiniteSet(old) /\ new \notin old
      BY <1>1, <1>2
    <3>. HIDE DEF old
    <3>. QED
      BY <3>1, HeldByMore
  <2>2. Weight(n, side)[new] = IF n = m /\ side = long THEN new.size ELSE 0
    BY DEF Weight
  <2>. QED
    BY <2>1, <2>2
<1>7. held \in SUBSET Position
  BY <1>1
<1>. QED
  BY <1>4, <1>5, <1>6, <1>7 DEF Reshaped

LEMMA Closed ==
  ASSUME NEW b, Sound(b), NEW u \in Users, NEW p \in b.positions[u]
  PROVE  Reshaped(b, u, b.positions[u] \ {p}, b.nextId, p.market, p.long, -p.size)
<1>. DEFINE old == b.positions[u]
            held == old \ {p}
<1>1. old \in SUBSET Position /\ Separate(old, b.nextId) /\ b.nextId \in Nat
  BY DEF Sound, BookShape
<1>2. IsFiniteSet(old) /\ IsFiniteSet(held)
  BY <1>1, FS_RemoveElement DEF Separate
<1>3. Separate(held, b.nextId)
  BY <1>1, <1>2 DEF Separate
<1>4. ASSUME NEW n \in Markets, NEW side \in BOOLEAN
      PROVE  HeldBy(held, n, side) = HeldBy(old, n, side) + IF n = p.market /\ side = p.long THEN -p.size ELSE 0
  <2>1. HeldBy(held, n, side) = HeldBy(old, n, side) - Weight(n, side)[p]
    BY <1>1, <1>2, HeldByLess
  <2>2. Weight(n, side)[p] = IF n = p.market /\ side = p.long THEN p.size ELSE 0
    BY <1>1 DEF Weight
  <2>3. HeldBy(old, n, side) \in Nat /\ p.size \in Nat
    BY <1>1, <1>2, HeldByWeight DEF Position
  <2>. QED
    BY <2>1, <2>2, <2>3
<1>. QED
  BY <1>1, <1>3, <1>4 DEF Reshaped

LEMMA Resized ==
  ASSUME NEW b, Sound(b), NEW u \in Users, NEW p \in b.positions[u], NEW q \in Position,
         q.id = p.id, q.market = p.market, q.long = p.long
  PROVE  Reshaped(b, u, (b.positions[u] \ {p}) \cup {q}, b.nextId, p.market, p.long, q.size - p.size)
<1>. DEFINE old == b.positions[u]
            rest == old \ {p}
            held == rest \cup {q}
<1>1. old \in SUBSET Position /\ Separate(old, b.nextId) /\ b.nextId \in Nat
  BY DEF Sound, BookShape
<1>2. IsFiniteSet(old) /\ IsFiniteSet(rest) /\ IsFiniteSet(held)
  BY <1>1, FS_RemoveElement, FS_AddElement DEF Separate
<1>3. q \notin rest
  BY <1>1 DEF Separate
<1>4. Separate(held, b.nextId)
  <2>1. \A r \in held : r.id < b.nextId
    BY <1>1 DEF Separate
  <2>2. \A r, t \in held : r.market = t.market => r = t
    BY <1>1 DEF Separate
  <2>. QED
    BY <1>2, <2>1, <2>2 DEF Separate
<1>5. ASSUME NEW n \in Markets, NEW side \in BOOLEAN
      PROVE  HeldBy(held, n, side)
               = HeldBy(old, n, side) + IF n = p.market /\ side = p.long THEN q.size - p.size ELSE 0
  <2>1. HeldBy(rest, n, side) = HeldBy(old, n, side) - Weight(n, side)[p]
    BY <1>1, <1>2, HeldByLess
  <2>2. HeldBy(held, n, side) = HeldBy(rest, n, side) + Weight(n, side)[q]
    BY <1>1, <1>2, <1>3, HeldByMore, SMTT(30)
  <2>3. /\ Weight(n, side)[p] = IF n = p.market /\ side = p.long THEN p.size ELSE 0
        /\ Weight(n, side)[q] = IF n = p.market /\ side = p.long THEN q.size ELSE 0
    BY <1>1 DEF Weight
  <2>4. HeldBy(old, n, side) \in Nat /\ p.size \in Nat /\ q.size \in Nat
    BY <1>1, <1>2, HeldByWeight DEF Position
  <2>. QED
    BY <2>1, <2>2, <2>3, <2>4
<1>6. \A r \in held : r.id >= b.nextId \/ \E t \in old : t.id = r.id
  OBVIOUS
<1>7. held \in SUBSET Position
  BY <1>1
<1>. QED
  BY <1>4, <1>5, <1>6, <1>7 DEF Reshaped

\* The amounts that are paid.
LEMMA CreditAmount ==
  ASSUME NEW b \in BookShape, NEW account \in Accounts, NEW n \in Int
  PROVE  Credited(b, account, n).bal[account][Settlement] = b.bal[account][Settlement] + n
<1>. DEFINE row == [b.bal[account] EXCEPT ![Settlement] = @ + n]
            bals == [b.bal EXCEPT ![account] = row]
<1>1. b.bal \in [Accounts -> [Assets -> Int]]
  BY DEF BookShape
<1>2. row[Settlement] = b.bal[account][Settlement] + n
  BY <1>1
<1>3. Credited(b, account, n) = [b EXCEPT !.bal = bals]
  BY DEF Credited, BookShape
<1>. HIDE DEF row
<1>4. bals[account] = row
  BY <1>1
<1>. HIDE DEF bals
<1>5. Credited(b, account, n).bal = bals
  BY <1>3 DEF BookShape
<1>. QED
  BY <1>2, <1>4, <1>5

LEMMA PaidAmount ==
  ASSUME NEW b \in BookShape, NEW account \in Accounts, NEW pnl \in Int, NEW c \in ApplyPnl(b, account, pnl)
  PROVE  c.bal[account][Settlement] = b.bal[account][Settlement] + pnl
<1>1. c = Credited(b, account, pnl)
  BY DEF ApplyPnl, Credited
<1>. QED
  BY <1>1, CreditAmount

\* The funding a position has accrued.
Accrued(p) == FundingPnl(p.size, p.index, FundingIndex(p.market, p.long))

LEMMA AccruedPaid ==
  ASSUME NEW b \in BookShape, Quoted, NEW u \in Users, NEW p \in Position, NEW c \in SettleFunding(b, u, p)
  PROVE  Accrued(p) \in Int /\ c.bal[u][Settlement] = b.bal[u][Settlement] + Accrued(p)
<1>. DEFINE pnl == FundingPnl(p.size, p.index, FundingIndex(p.market, p.long))
<1>1. p.size \in Int /\ p.index \in Int /\ FundingIndex(p.market, p.long) \in Int
  BY DEF Position, FundingIndex, Quoted
<1>2. pnl \in Int
  BY <1>1, PnlTypes
<1>3. (pnl = 0 /\ c = b) \/ c \in ApplyPnl(b, u, pnl)
  BY DEF SettleFunding
<1>. HIDE DEF pnl
<1>4. u \in Accounts /\ b.bal[u][Settlement] \in Int
  BY DEF Accounts, BookShape
<1>5. c.bal[u][Settlement] = b.bal[u][Settlement] + pnl
  BY <1>2, <1>3, <1>4, PaidAmount
<1>. QED
  BY <1>2, <1>5 DEF pnl, Accrued

\* The positions the calls write, and what they leave a user with.
Fresh(b, m, long, size, px) ==
  [id |-> b.nextId, market |-> m, long |-> long, size |-> size, entry |-> px, index |-> FundingIndex(m, long)]
Grown(p, size, px) ==
  [p EXCEPT !.size = @ + size,
            !.entry = DivPrecision(MulPrecision(p.size, p.entry) + MulPrecision(size, px), p.size + size),
            !.index = FundingIndex(p.market, p.long)]
Rest(p, size) == [p EXCEPT !.size = @ - size, !.index = FundingIndex(p.market, p.long)]

OpenedTo(b, u, m, long, size, px) == b.positions[u] \cup {Fresh(b, m, long, size, px)}
GrownTo(b, u, p, size, px) == (b.positions[u] \ {p}) \cup {Grown(p, size, px)}
ReducedTo(b, u, p, size) == (b.positions[u] \ {p}) \cup (IF size = p.size THEN {} ELSE {Rest(p, size)})

Left(b, c, u, held, paid) ==
  c.positions[u] = held /\ c.bal[u][Settlement] = b.bal[u][Settlement] + paid

LEMMA OpenMoves ==
  ASSUME NEW b, Sound(b), Quoted, NEW u \in Users, NEW m \in Markets, NEW long \in BOOLEAN,
         NEW size \in Nat \ {0}, NEW px \in Nat, \A p \in b.positions[u] : p.market # m,
         NEW c \in OpenPosition(b, u, m, size, long, px)
  PROVE  /\ Moved(b, c, u, m, Signed(long, size)) /\ AboveInitialMargin(c, u)
         /\ InBand(m, px) /\ Left(b, c, u, OpenedTo(b, u, m, long, size, px), 0)
<1>. DEFINE new == [id |-> b.nextId, market |-> m, long |-> long, size |-> size,
                    entry |-> px, index |-> FundingIndex(m, long)]
            held == b.positions[u] \cup {new}
            row == AddInterest(b.oi[m], long, size)
            next == b.nextId + 1
            t == Stored(b, u, held, m, row, next)
<1>1. c = SyncPositions(t, u) /\ AboveInitialMargin(c, u)
  BY DEF OpenPosition, SyncAndRequireInitialMargin, Stored
<1>2. b \in BookShape /\ b.nextId \in Nat \ {0} /\ b.oi[m] \in Sides /\ b.positions[u] \in SUBSET Position
  BY DEF Sound, BookShape
<1>3. FundingIndex(m, long) \in Int
  BY DEF FundingIndex, Quoted
<1>4. new \in Position /\ new.id = b.nextId /\ new.market = m /\ new.long = long /\ new.size = size
  BY <1>2, <1>3 DEF Position
<1>. HIDE DEF new
<1>5. Reshaped(b, u, held, next, m, long, size)
  <2>1. Reshaped(b, u, held, next, m, long, new.size)
    BY <1>4, Opened, SMTT(30)
  <2>. QED
    BY <1>4, <2>1
<1>6. held \in SUBSET Position /\ row \in Sides /\ next \in Nat \ {0} /\ next >= b.nextId
  <2>1. size \in Int
    OBVIOUS
  <2>2. row \in Sides
    BY <1>2, <2>1, InterestType
  <2>. QED
    BY <1>2, <1>4, <2>2
<1>. HIDE DEF held, row, next
<1>7. Charged(b, b, u)
  BY <1>2 DEF Charged, SameTrades, InSettlement
<1>8. Charged(t, t, u)
  <2>1. t \in BookShape
    BY <1>2, <1>6, StoredFields
  <2>. QED
    BY <2>1 DEF Charged, SameTrades, InSettlement
<1>9. Rewritten(b, c, u, held, m, row) /\ c.nextId = next
  BY <1>1, <1>6, <1>7, <1>8, Rewrites
<1>10. Moved(b, c, u, m, Signed(long, size))
  <2>1. Reshaped(b, u, held, c.nextId, m, long, size) /\ size \in Int
    BY <1>5, <1>9
  <2>. QED
    BY <1>9, <2>1, CallMoves DEF row
<1>11. InBand(m, px)
  BY DEF OpenPosition
<1>12. c.positions[u] = held
  <2>1. b.positions \in [Users -> SUBSET Position]
    BY <1>2 DEF BookShape
  <2>. QED
    BY <1>9, <2>1 DEF Rewritten
<1>13. c.bal[u][Settlement] = b.bal[u][Settlement] + 0
  <2>1. c.bal = b.bal
    <3>1. t \in BookShape /\ t.bal = b.bal
      <4>1. t \in BookShape
        BY <1>2, <1>6, StoredFields
      <4>2. t.bal = b.bal
        BY <1>2, StoredBalances
      <4>. QED
        BY <4>1, <4>2
    <3>. HIDE DEF t
    <3>. QED
      BY <1>1, <3>1, CopiedFields
  <2>2. b.bal[u][Settlement] \in Int
    BY <1>2 DEF BookShape, Accounts
  <2>. QED
    BY <2>1, <2>2
<1>14. held = OpenedTo(b, u, m, long, size, px)
  BY Zenon DEF held, new, OpenedTo, Fresh
<1>15. Left(b, c, u, OpenedTo(b, u, m, long, size, px), 0)
  BY <1>12, <1>13, <1>14, Zenon DEF Left
<1>. QED
  BY <1>1, <1>10, <1>11, <1>15

LEMMA IncreaseMoves ==
  ASSUME NEW b, Sound(b), Quoted, NEW u \in Users, NEW p \in b.positions[u],
         NEW size \in Nat \ {0}, NEW px \in Nat, NEW c \in IncreasePosition(b, u, p, size, px)
  PROVE  /\ Moved(b, c, u, p.market, Signed(p.long, size)) /\ AboveInitialMargin(c, u)
         /\ InBand(p.market, px) /\ Left(b, c, u, GrownTo(b, u, p, size, px), Accrued(p))
<1>. DEFINE cost == MulPrecision(p.size, p.entry) + MulPrecision(size, px)
            entry == DivPrecision(cost, p.size + size)
            grown == [p EXCEPT !.size = @ + size, !.entry = entry,
                               !.index = FundingIndex(p.market, p.long)]
<1>1. PICK s \in SettleFunding(b, u, p) :
        /\ c = SyncPositions([s EXCEPT !.positions[u] = (s.positions[u] \ {p}) \cup {grown},
                                       !.oi[p.market] = AddInterest(s.oi[p.market], p.long, size)], u)
        /\ AboveInitialMargin(c, u) /\ InBand(p.market, px)
  BY DEF IncreasePosition, SyncAndRequireInitialMargin
<1>2. b \in BookShape /\ b.nextId \in Nat \ {0} /\ b.positions[u] \in SUBSET Position
  BY DEF Sound, BookShape
<1>3. p \in Position /\ p.market \in Markets /\ p.long \in BOOLEAN /\ p.size \in Nat \ {0} /\ p.entry \in Int
  BY <1>2 DEF Position
<1>4. cost \in Int
  <2>1. p.size \in Int /\ p.entry \in Int /\ size \in Int /\ px \in Int
    BY <1>3
  <2>2. MulPrecision(p.size, p.entry) \in Int /\ MulPrecision(size, px) \in Int
    BY <2>1, FixedTypes
  <2>. QED
    BY <2>2
<1>. HIDE DEF cost
<1>5. entry \in Int
  <2>1. p.size + size \in Int \ {0}
    BY <1>3
  <2>. QED
    BY <1>4, <2>1, FixedTypes
<1>6. FundingIndex(p.market, p.long) \in Int
  BY <1>3 DEF FundingIndex, Quoted
<1>. HIDE DEF entry
<1>7. /\ grown \in Position /\ grown.id = p.id /\ grown.market = p.market /\ grown.long = p.long
      /\ grown.size = p.size + size
  <2>1. grown = [id |-> p.id, market |-> p.market, long |-> p.long, size |-> p.size + size,
                 entry |-> entry, index |-> FundingIndex(p.market, p.long)]
    <3>. DEFINE index == FundingIndex(p.market, p.long)
                sum == p.size + size
                p1 == [p EXCEPT !.size = sum]
                p2 == [p1 EXCEPT !.entry = entry]
                p3 == [p2 EXCEPT !.index = index]
    <3>. HIDE DEF index, sum
    <3>1. p = [id |-> p.id, market |-> p.market, long |-> p.long, size |-> p.size,
               entry |-> p.entry, index |-> p.index]
      BY <1>3 DEF Position
    <3>2. p1 = [id |-> p.id, market |-> p.market, long |-> p.long, size |-> sum,
                entry |-> p.entry, index |-> p.index]
      BY <3>1
    <3>. HIDE DEF p1
    <3>3. p2 = [id |-> p.id, market |-> p.market, long |-> p.long, size |-> sum,
                entry |-> entry, index |-> p.index]
      BY <3>2
    <3>. HIDE DEF p2
    <3>4. p3 = [id |-> p.id, market |-> p.market, long |-> p.long, size |-> sum,
                entry |-> entry, index |-> index]
      BY <3>3
    <3>5. grown = p3
      BY Zenon DEF p1, p2, p3, index, sum
    <3>. HIDE DEF p3
    <3>. QED
      BY <3>4, <3>5, Zenon DEF index, sum
  <2>. HIDE DEF grown
  <2>2. p.id \in Nat \ {0} /\ p.size + size \in Nat \ {0}
    BY <1>3 DEF Position
  <2>. QED
    BY <1>3, <1>5, <1>6, <2>1, <2>2 DEF Position
<1>. HIDE DEF grown
<1>. DEFINE held == (b.positions[u] \ {p}) \cup {grown}
            row == AddInterest(b.oi[p.market], p.long, size)
            t == Stored(s, u, held, p.market, row, b.nextId)
<1>8. Charged(b, s, u)
  BY <1>2, <1>3, FundingPaid
<1>9. held \in SUBSET Position /\ row \in Sides
  <2>1. b.oi[p.market] \in Sides
    BY <1>2, <1>3 DEF BookShape
  <2>2. size \in Int
    OBVIOUS
  <2>3. row \in Sides
    BY <1>3, <2>1, <2>2, InterestType
  <2>. QED
    BY <1>2, <1>7, <2>3
<1>10. Reshaped(b, u, held, b.nextId, p.market, p.long, size)
  <2>1. Reshaped(b, u, held, b.nextId, p.market, p.long, grown.size - p.size)
    BY <1>7, Resized
  <2>2. grown.size - p.size = size
    BY <1>3, <1>7
  <2>. QED
    BY <2>1, <2>2
<1>11. c = SyncPositions(t, u)
  <2>1. s \in BookShape /\ s.positions = b.positions /\ s.oi = b.oi /\ s.nextId = b.nextId
    BY <1>8 DEF Charged, SameTrades
  <2>2. c = SyncPositions(Uncounted(s, u, held, p.market, row), u)
    BY <1>1, <2>1, Zenon DEF Uncounted
  <2>. HIDE DEF held, row
  <2>3. Uncounted(s, u, held, p.market, row) = Stored(s, u, held, p.market, row, s.nextId)
    BY <1>3, <2>1, StoredUncounted
  <2>. QED
    BY <2>1, <2>2, <2>3, Zenon
<1>. HIDE DEF held, row
<1>12. Charged(t, t, u)
  <2>1. t \in BookShape
    <3>1. s \in BookShape
      BY <1>8 DEF Charged
    <3>. QED
      BY <1>2, <1>3, <1>9, <3>1, StoredFields
  <2>. QED
    BY <2>1 DEF Charged, SameTrades, InSettlement
<1>. HIDE DEF t
<1>13. Rewritten(b, c, u, held, p.market, row) /\ c.nextId = b.nextId
  <2>1. b.nextId >= b.nextId
    BY <1>2
  <2>. QED
    BY <1>2, <1>3, <1>8, <1>9, <1>11, <1>12, <2>1, Rewrites DEF t
<1>14. Moved(b, c, u, p.market, Signed(p.long, size))
  <2>1. Reshaped(b, u, held, c.nextId, p.market, p.long, size)
    BY <1>10, <1>13
  <2>2. size \in Int
    OBVIOUS
  <2>. QED
    BY <1>3, <1>13, <2>1, <2>2, CallMoves DEF row
<1>15. c.positions[u] = held
  <2>1. b.positions \in [Users -> SUBSET Position]
    BY <1>2 DEF BookShape
  <2>. QED
    BY <1>13, <2>1 DEF Rewritten
<1>16. c.bal[u][Settlement] = b.bal[u][Settlement] + Accrued(p)
  <2>1. s.bal[u][Settlement] = b.bal[u][Settlement] + Accrued(p)
    BY <1>2, <1>3, AccruedPaid
  <2>2. c.bal = s.bal
    <3>1. t \in BookShape /\ t.bal = s.bal
      <4>1. s \in BookShape
        BY <1>8 DEF Charged
      <4>2. t \in BookShape
        BY <1>12 DEF Charged
      <4>3. t.bal = s.bal
        BY <4>1, StoredBalances DEF t
      <4>. QED
        BY <4>2, <4>3
    <3>. QED
      BY <1>11, <3>1, CopiedFields
  <2>. QED
    BY <2>1, <2>2
<1>17. held = GrownTo(b, u, p, size, px)
  BY Zenon DEF held, grown, entry, cost, GrownTo, Grown
<1>18. Left(b, c, u, GrownTo(b, u, p, size, px), Accrued(p))
  BY <1>15, <1>16, <1>17, Zenon DEF Left
<1>. QED
  BY <1>1, <1>14, <1>18, SMTT(30)

\* A close, of some or of all of a position, with its funding and its PnL.
LEMMA ReduceMoves ==
  ASSUME NEW b, Sound(b), Quoted, NEW u \in Users, NEW p \in b.positions[u],
         NEW size \in Nat \ {0}, NEW px \in Nat, NEW c \in ReducedBooks(b, u, p, size, px)
  PROVE  /\ size <= p.size
         /\ Moved(b, c, u, p.market, Signed(p.long, -size))
         /\ size = p.size => c.positions[u] = b.positions[u] \ {p}
         /\ InBand(p.market, px)
         /\ Left(b, c, u, ReducedTo(b, u, p, size), Accrued(p) + PricePnl(p.long, size, p.entry, px))
<1>. DEFINE index == FundingIndex(p.market, p.long)
            rest == [p EXCEPT !.size = @ - size, !.index = index]
            pnl == PricePnl(p.long, size, p.entry, px)
            minus == -size
<1>1. PICK s \in SettleFunding(b, u, p) :
        /\ size <= p.size /\ InBand(p.market, px)
        /\ \E t \in ApplyPnl([s EXCEPT
             !.positions[u] = (s.positions[u] \ {p}) \cup (IF size = p.size THEN {} ELSE {rest}),
             !.oi[p.market] = AddInterest(s.oi[p.market], p.long, minus)], u, pnl) :
             c = SyncPositions(t, u)
  <2>. DEFINE Written(s) == [s EXCEPT
                !.positions[u] = (s.positions[u] \ {p}) \cup (IF size = p.size THEN {} ELSE {rest}),
                !.oi[p.market] = AddInterest(s.oi[p.market], p.long, minus)]
  <2>1. c \in UNION {{SyncPositions(t, u) : t \in ApplyPnl(Written(s), u, pnl)} :
                     s \in {t \in SettleFunding(b, u, p) : size <= p.size /\ InBand(p.market, px)}}
    BY Zenon DEF ReducedBooks
  <2>. HIDE DEF Written
  <2>2. \E s \in SettleFunding(b, u, p) :
          size <= p.size /\ InBand(p.market, px) /\ \E t \in ApplyPnl(Written(s), u, pnl) : c = SyncPositions(t, u)
    BY <2>1
  <2>. QED
    BY <2>2, Zenon DEF Written
<1>2. b \in BookShape /\ b.nextId \in Nat \ {0} /\ b.positions[u] \in SUBSET Position
  BY DEF Sound, BookShape
<1>3. /\ p \in Position /\ p.market \in Markets /\ p.long \in BOOLEAN /\ p.size \in Nat \ {0}
      /\ p.entry \in Int /\ size <= p.size /\ minus \in Int
  BY <1>1, <1>2 DEF Position
<1>4. pnl \in Int
  <2>1. size \in Int /\ px \in Int
    OBVIOUS
  <2>. QED
    BY <1>3, <2>1, PnlTypes
<1>5. index \in Int
  BY <1>3 DEF FundingIndex, Quoted
<1>. HIDE DEF pnl, index
<1>6. /\ rest.id = p.id /\ rest.market = p.market /\ rest.long = p.long /\ rest.size = p.size - size
      /\ size # p.size => rest \in Position
  <2>. DEFINE less == p.size - size
              p1 == [p EXCEPT !.size = less]
              p2 == [p1 EXCEPT !.index = index]
  <2>1. less \in Nat /\ (size # p.size => less \in Nat \ {0})
    BY <1>3
  <2>. HIDE DEF less
  <2>2. p = [id |-> p.id, market |-> p.market, long |-> p.long, size |-> p.size,
             entry |-> p.entry, index |-> p.index]
    BY <1>3 DEF Position
  <2>3. p1 = [id |-> p.id, market |-> p.market, long |-> p.long, size |-> less,
              entry |-> p.entry, index |-> p.index]
    BY <2>2
  <2>. HIDE DEF p1
  <2>4. p2 = [id |-> p.id, market |-> p.market, long |-> p.long, size |-> less,
              entry |-> p.entry, index |-> index]
    BY <2>3
  <2>5. rest = p2
    BY Zenon DEF p1, p2, less
  <2>. HIDE DEF p2, rest
  <2>6. p.id \in Nat \ {0}
    BY <1>3 DEF Position
  <2>7. rest = [id |-> p.id, market |-> p.market, long |-> p.long, size |-> less,
                entry |-> p.entry, index |-> index]
    BY <2>4, <2>5
  <2>8. rest.size = p.size - size
    BY <2>7 DEF less
  <2>. QED
    BY <1>3, <1>5, <2>1, <2>6, <2>7, <2>8 DEF Position
<1>. HIDE DEF rest
<1>. DEFINE held == (b.positions[u] \ {p}) \cup (IF size = p.size THEN {} ELSE {rest})
            row == AddInterest(b.oi[p.market], p.long, minus)
            w == Stored(s, u, held, p.market, row, b.nextId)
<1>7. Charged(b, s, u)
  BY <1>2, <1>3, FundingPaid
<1>8. Reshaped(b, u, held, b.nextId, p.market, p.long, minus)
  <2>1. CASE size = p.size
    <3>1. held = b.positions[u] \ {p}
      BY <2>1
    <3>2. Reshaped(b, u, b.positions[u] \ {p}, b.nextId, p.market, p.long, -p.size)
      BY Closed
    <3>. QED
      BY <2>1, <3>1, <3>2
  <2>2. CASE size # p.size
    <3>1. held = (b.positions[u] \ {p}) \cup {rest}
      BY <2>2
    <3>2. Reshaped(b, u, (b.positions[u] \ {p}) \cup {rest}, b.nextId, p.market, p.long, rest.size - p.size)
      BY <1>6, <2>2, Resized
    <3>3. rest.size - p.size = minus
      BY <1>3, <1>6
    <3>. QED
      BY <3>1, <3>2, <3>3
  <2>. QED
    BY <2>1, <2>2
<1>. HIDE DEF minus
<1>9. held \in SUBSET Position /\ row \in Sides
  <2>1. b.oi[p.market] \in Sides
    BY <1>2, <1>3 DEF BookShape
  <2>2. row \in Sides
    BY <1>3, <2>1, InterestType
  <2>. QED
    BY <1>8, <2>2 DEF Reshaped
<1>10. s \in BookShape /\ s.positions = b.positions /\ s.oi = b.oi /\ s.nextId = b.nextId
  BY <1>7 DEF Charged, SameTrades
<1>11. w \in BookShape
  BY <1>2, <1>3, <1>9, <1>10, StoredFields
<1>12. PICK t \in ApplyPnl(w, u, pnl) : c = SyncPositions(t, u)
  <2>1. \E t \in ApplyPnl(Uncounted(s, u, held, p.market, row), u, pnl) : c = SyncPositions(t, u)
    BY <1>1, <1>10, Zenon DEF Uncounted
  <2>. HIDE DEF held, row
  <2>2. Uncounted(s, u, held, p.market, row) = Stored(s, u, held, p.market, row, s.nextId)
    BY <1>3, <1>10, StoredUncounted
  <2>. QED
    BY <1>10, <2>1, <2>2
<1>. HIDE DEF held, row
<1>13. Charged(w, t, u)
  <2>1. u \in Accounts
    BY DEF Accounts
  <2>. HIDE DEF w
  <2>. QED
    BY <1>4, <1>11, <1>12, <2>1, Paid
<1>14. Rewritten(b, c, u, held, p.market, row) /\ c.nextId = b.nextId
  <2>1. b.nextId >= b.nextId /\ c = SyncPositions(t, u)
    BY <1>2, <1>12
  <2>. HIDE DEF w
  <2>. QED
    BY <1>2, <1>3, <1>7, <1>9, <1>13, <2>1, Rewrites DEF w
<1>15. Moved(b, c, u, p.market, Signed(p.long, minus))
  <2>1. Reshaped(b, u, held, c.nextId, p.market, p.long, minus)
    BY <1>8, <1>14
  <2>. QED
    BY <1>3, <1>14, <2>1, CallMoves DEF row
<1>16. c.positions[u] = held
  <2>1. b.positions \in [Users -> SUBSET Position]
    BY <1>2 DEF BookShape
  <2>. QED
    BY <1>14, <2>1 DEF Rewritten
<1>17. c.bal[u][Settlement] = b.bal[u][Settlement] + (Accrued(p) + pnl)
  <2>1. s.bal[u][Settlement] = b.bal[u][Settlement] + Accrued(p) /\ Accrued(p) \in Int
    BY <1>2, <1>3, AccruedPaid
  <2>2. w.bal = s.bal
    BY <1>10, StoredBalances
  <2>3. u \in Accounts /\ b.bal[u][Settlement] \in Int
    BY <1>2 DEF BookShape, Accounts
  <2>. HIDE DEF w
  <2>4. t.bal[u][Settlement] = w.bal[u][Settlement] + pnl
    BY <1>4, <1>11, <1>12, <2>3, PaidAmount
  <2>5. c.bal = t.bal
    <3>1. t \in BookShape
      BY <1>13 DEF Charged
    <3>. QED
      BY <1>12, <3>1, CopiedFields
  <2>. QED
    BY <1>4, <2>1, <2>2, <2>3, <2>4, <2>5
<1>18. held = ReducedTo(b, u, p, size)
  BY Zenon DEF held, rest, index, ReducedTo, Rest
<1>19. Left(b, c, u, ReducedTo(b, u, p, size), Accrued(p) + PricePnl(p.long, size, p.entry, px))
  BY <1>16, <1>17, <1>18, Zenon DEF Left, pnl
<1>20. /\ size <= p.size /\ Moved(b, c, u, p.market, Signed(p.long, -size))
       /\ size = p.size => c.positions[u] = b.positions[u] \ {p}
  BY <1>3, <1>15, <1>16 DEF held, minus
<1>. QED
  BY <1>1, <1>19, <1>20
-----------------------------------------------------------------------------
(* One user's side of a fill, and the fee on it. *)

LEMMA MovedTwice ==
  ASSUME NEW b, Sound(b), NEW u \in Users, NEW m \in Markets, NEW x \in Int, NEW y \in Int,
         NEW c, Moved(b, c, u, m, x), NEW d, Moved(c, d, u, m, y)
  PROVE  Moved(b, d, u, m, x + y)
<1>1. \A n \in Markets : Apart(b, n) \in Int
  <2>1. b.oi \in [Markets -> Sides]
    BY DEF Sound, BookShape
  <2>. QED
    BY <2>1 DEF Apart, Sides
<1>2. \A n \in Markets : /\ Apart(c, n) = Apart(b, n) + IF n = m THEN x ELSE 0
                         /\ Apart(d, n) = Apart(c, n) + IF n = m THEN y ELSE 0
  BY DEF Moved
<1>3. \A n \in Markets : Apart(d, n) = Apart(b, n) + IF n = m THEN x + y ELSE 0
  BY <1>1, <1>2
<1>4. InSettlement(b, d)
  BY DEF Moved, InSettlement
<1>. QED
  BY <1>3, <1>4 DEF Moved

LEMMA SideMoves ==
  ASSUME NEW b, Sound(b), Quoted, NEW u \in Users, NEW m \in Markets, NEW long \in BOOLEAN,
         NEW reduceOnly \in BOOLEAN, NEW size \in Nat \ {0}, NEW px \in Nat,
         NEW c \in SettleUserSide(b, u, m, long, reduceOnly, size, px)
  PROVE  Moved(b, c, u, m, Signed(long, size)) /\ AboveInitialMargin(c, u)
<1>. DEFINE here == {p \in b.positions[u] : p.market = m}
            opposite == {p \in here : p.long # long}
<1>1. \A p \in b.positions[u] : p \in Position
  BY DEF Sound, BookShape
<1>2. CASE opposite # {}
  <2>1. PICK p \in opposite :
          c \in UNION {IF Least(p.size, size) = size THEN {d}
                       ELSE IF reduceOnly THEN {}
                       ELSE OpenPosition(d, u, m, size - Least(p.size, size), long, px) :
                       d \in ReducePosition(b, u, p, Least(p.size, size), px)}
    BY <1>2, ZenonT(40) DEF SettleUserSide
  <2>. DEFINE close == Least(p.size, size)
              residual == size - close
  <2>2. PICK d \in ReducePosition(b, u, p, close, px) :
          c \in IF close = size THEN {d} ELSE IF reduceOnly THEN {}
                ELSE OpenPosition(d, u, m, residual, long, px)
    BY <2>1, Zenon
  <2>3. p \in b.positions[u] /\ p.market = m /\ p.long # long /\ p.long \in BOOLEAN /\ p.size \in Nat \ {0}
    BY <1>1 DEF Position
  <2>4. close \in Nat \ {0} /\ close <= size /\ (close = size \/ close = p.size)
    BY <2>3 DEF Least
  <2>5. d \in ReducedBooks(b, u, p, close, px) /\ AboveInitialMargin(d, u)
    BY <2>2 DEF ReducePosition
  <2>. HIDE DEF close
  <2>6. /\ Moved(b, d, u, p.market, Signed(p.long, -close))
        /\ close = p.size => d.positions[u] = b.positions[u] \ {p}
    BY <2>3, <2>4, <2>5, ReduceMoves
  <2>7. Signed(p.long, -close) = Signed(long, close)
    BY <2>3, <2>4 DEF Signed
  <2>8. Moved(b, d, u, m, Signed(long, close))
    BY <2>3, <2>6, <2>7
  <2>9. CASE close = size
    <3>1. c = d
      BY <2>2, <2>9
    <3>. QED
      BY <2>5, <2>8, <2>9, <3>1
  <2>10. CASE close # size
    <3>1. c \in OpenPosition(d, u, m, residual, long, px)
      BY <2>2, <2>10
    <3>2. residual \in Nat \ {0} /\ Signed(long, close) \in Int /\ Signed(long, residual) \in Int
          /\ Signed(long, close) + Signed(long, residual) = Signed(long, size)
      BY <2>4, <2>10 DEF Signed
    <3>3. \A q \in d.positions[u] : q.market # m
      BY <2>3, <2>4, <2>6, <2>10 DEF Sound, Separate
    <3>4. Sound(d)
      BY <2>8 DEF Moved
    <3>. HIDE DEF residual
    <3>5. Moved(d, c, u, m, Signed(long, residual)) /\ AboveInitialMargin(c, u)
      BY <3>1, <3>2, <3>3, <3>4, OpenMoves
    <3>6. Moved(b, c, u, m, Signed(long, close) + Signed(long, residual))
      BY <2>8, <3>2, <3>5, MovedTwice
    <3>. QED
      BY <3>2, <3>5, <3>6
  <2>. QED
    BY <2>9, <2>10
<1>3. CASE opposite = {} /\ here # {}
  <2>1. PICK p \in here : c \in IncreasePosition(b, u, p, size, px)
    BY <1>3 DEF SettleUserSide
  <2>2. p \in b.positions[u] /\ p.market = m /\ p.long = long
    BY <1>3
  <2>3. Moved(b, c, u, p.market, Signed(p.long, size)) /\ AboveInitialMargin(c, u)
    BY <2>1, <2>2, IncreaseMoves
  <2>. QED
    BY <2>2, <2>3
<1>4. CASE here = {}
  <2>1. c \in OpenPosition(b, u, m, size, long, px)
    BY <1>4 DEF SettleUserSide
  <2>2. \A p \in b.positions[u] : p.market # m
    BY <1>4
  <2>. QED
    BY <2>1, <2>2, OpenMoves
<1>. QED
  BY <1>2, <1>3, <1>4

\* Whether an account is above its margin depends on the book through its own
\* balances and the vault's copy of its positions.
Healthy(row, held, u) ==
  SumFunction([a \in CountedAssets(u, Settlement) |->
                 AfterHaircut(MulPrecision(row[a], price[a]), Haircut[a])])
    + SumFunction([p \in held |-> UnrealizedPnl(p)])
  >= SumFunction([p \in held |->
                    ApplyBps(Notional(p.size, price[p.market]), Market[p.market].initial)])

LEMMA HealthIsOwn ==
  ASSUME NEW b, NEW u
  PROVE  AboveInitialMargin(b, u) <=> Healthy(b.bal[u], b.synced[u], u)
  BY Zenon DEF AboveInitialMargin, Equity, EquityIn, CollateralValue, InitialMargin, Healthy

LEMMA HealthKept ==
  ASSUME NEW b, NEW c, NEW u, c.bal[u] = b.bal[u], c.synced[u] = b.synced[u], AboveInitialMargin(b, u)
  PROVE  AboveInitialMargin(c, u)
  BY HealthIsOwn

LEMMA FeeKeeps ==
  ASSUME NEW b, Sound(b), NEW u \in Users, NEW size \in Nat, NEW px \in Nat, NEW bps \in Nat,
         AboveInitialMargin(b, u), NEW c \in ChargeTradeFee(b, u, size, px, bps)
  PROVE  /\ Sound(c) /\ SameTrades(b, c) /\ AboveInitialMargin(c, u)
         /\ \A v \in Users \ {u} : c.bal[v] = b.bal[v]
         /\ InSettlement(b, c)
<1>. DEFINE fee == ApplyBps(Notional(size, px), bps)
            minus == -fee
<1>1. CASE bps = 0
  BY <1>1 DEF ChargeTradeFee, SameTrades, InSettlement
<1>2. CASE bps # 0
  <2>1. PICK d \in ApplyPnl(b, u, minus) : c \in ApplyPnl(d, FeeRecipient, fee) /\ AboveInitialMargin(d, u)
    BY <1>2 DEF ChargeTradeFee
  <2>2. fee \in Int /\ minus \in Int
    <3>1. Notional(size, px) \in Nat
      BY FixedTypes
    <3>2. fee \in Nat
      BY <3>1, FixedTypes
    <3>. QED
      BY <3>2
  <2>. HIDE DEF fee, minus
  <2>3. u \in Accounts /\ FeeRecipient \in Accounts /\ FeeRecipient \notin Users
    BY DEF Accounts
  <2>4. Charged(b, d, u)
    BY <2>1, <2>2, <2>3, Paid DEF Sound
  <2>5. Charged(d, c, FeeRecipient)
    BY <2>1, <2>2, <2>3, <2>4, Paid DEF Charged
  <2>6. SameTrades(b, c) /\ c \in BookShape /\ c.bal[u] = d.bal[u] /\ c.synced[u] = d.synced[u]
    BY <2>3, <2>4, <2>5 DEF Charged, SameTrades
  <2>7. AboveInitialMargin(c, u)
    BY <2>1, <2>6, HealthKept
  <2>8. Sound(c)
    BY <2>6, SoundSame
  <2>9. \A v \in Users \ {u} : c.bal[v] = b.bal[v]
    BY <2>3, <2>4, <2>5 DEF Charged, Accounts
  <2>10. InSettlement(b, c)
    BY <2>4, <2>5 DEF Charged, InSettlement
  <2>. QED
    BY <2>6, <2>7, <2>8, <2>9, <2>10
<1>. QED
  BY <1>1, <1>2

\* The book the four calls of a fill may leave.
FillCalls(maker, taker, m, makerLong, makerReduces, takerReduces, size, px, c) ==
  \E s1 \in SettleUserSide(book, maker, m, makerLong, makerReduces, size, px) :
  \E s2 \in ChargeTradeFee(s1, maker, size, px, Market[m].makerFee) :
  \E s3 \in SettleUserSide(s2, taker, m, ~makerLong, takerReduces, size, px) :
    c \in ChargeTradeFee(s3, taker, size, px, Market[m].takerFee)

\* A fill leaves both accounts above their margin, both sides of every market as
\* far apart as they were, and everybody else alone.
Filled(b, c, maker, taker) ==
  /\ Sound(c)
  /\ AboveInitialMargin(c, maker) /\ AboveInitialMargin(c, taker)
  /\ \A v \in Users \ {maker, taker} : c.positions[v] = b.positions[v] /\ c.bal[v] = b.bal[v]
  /\ InSettlement(b, c)
  /\ \A n \in Markets : Apart(c, n) = Apart(b, n)

LEMMA FillMoves ==
  ASSUME Sound(book), Quoted, NEW maker \in Users, NEW taker \in Users, maker # taker,
         NEW m \in Markets, NEW makerLong \in BOOLEAN, NEW makerReduces \in BOOLEAN, NEW takerReduces \in BOOLEAN,
         NEW size \in FillSizes, NEW px \in FillPrices,
         NEW c, FillCalls(maker, taker, m, makerLong, makerReduces, takerReduces, size, px, c)
  PROVE  Filled(book, c, maker, taker)
<1>. DEFINE takerLong == ~makerLong
<1>1. PICK s1 \in SettleUserSide(book, maker, m, makerLong, makerReduces, size, px) :
        \E s2 \in ChargeTradeFee(s1, maker, size, px, Market[m].makerFee) :
        \E s3 \in SettleUserSide(s2, taker, m, takerLong, takerReduces, size, px) :
          c \in ChargeTradeFee(s3, taker, size, px, Market[m].takerFee)
  BY DEF FillCalls
<1>2. PICK s2 \in ChargeTradeFee(s1, maker, size, px, Market[m].makerFee) :
        \E s3 \in SettleUserSide(s2, taker, m, takerLong, takerReduces, size, px) :
          c \in ChargeTradeFee(s3, taker, size, px, Market[m].takerFee)
  BY <1>1
<1>3. PICK s3 \in SettleUserSide(s2, taker, m, takerLong, takerReduces, size, px) :
        c \in ChargeTradeFee(s3, taker, size, px, Market[m].takerFee)
  BY <1>2
<1>4. /\ size \in Nat \ {0} /\ size \in Nat /\ px \in Nat /\ takerLong \in BOOLEAN
      /\ Market[m].makerFee \in Nat /\ Market[m].takerFee \in Nat
  BY DEF MarketType
<1>5. Signed(makerLong, size) \in Int /\ Signed(takerLong, size) = -Signed(makerLong, size)
  BY <1>4 DEF Signed
<1>. HIDE DEF takerLong
<1>6. Moved(book, s1, maker, m, Signed(makerLong, size)) /\ AboveInitialMargin(s1, maker)
  BY <1>4, SideMoves
<1>7. /\ Sound(s2) /\ SameTrades(s1, s2) /\ AboveInitialMargin(s2, maker)
      /\ (\A v \in Users \ {maker} : s2.bal[v] = s1.bal[v]) /\ InSettlement(s1, s2)
  <2>1. Sound(s1)
    BY <1>6 DEF Moved
  <2>. QED
    BY <1>4, <1>6, <2>1, FeeKeeps
<1>8. Moved(s2, s3, taker, m, Signed(takerLong, size)) /\ AboveInitialMargin(s3, taker)
  BY <1>4, <1>7, SideMoves
<1>9. /\ Sound(c) /\ SameTrades(s3, c) /\ AboveInitialMargin(c, taker)
      /\ (\A v \in Users \ {taker} : c.bal[v] = s3.bal[v]) /\ InSettlement(s3, c)
  <2>1. Sound(s3)
    BY <1>8 DEF Moved
  <2>. QED
    BY <1>3, <1>4, <1>8, <2>1, FeeKeeps
<1>10. \A v \in Users : v \in Accounts
  BY DEF Accounts
<1>11. /\ s3.bal[maker] = s2.bal[maker] /\ c.bal[maker] = s3.bal[maker]
       /\ s3.positions[maker] = s2.positions[maker]
       /\ c.synced = c.positions /\ s2.synced = s2.positions /\ c.positions = s3.positions
  BY <1>7, <1>8, <1>9, <1>10 DEF Moved, Sound, SameTrades
<1>12. AboveInitialMargin(c, maker)
  BY <1>7, <1>11, HealthKept
<1>13. \A v \in Users \ {maker, taker} : c.positions[v] = book.positions[v] /\ c.bal[v] = book.bal[v]
  BY <1>6, <1>7, <1>8, <1>9, <1>10 DEF Moved, SameTrades
<1>14. \A n \in Markets : Apart(c, n) = Apart(book, n)
  <2>1. \A n \in Markets : Apart(book, n) \in Int
    <3>1. book.oi \in [Markets -> Sides]
      BY DEF Sound, BookShape
    <3>. QED
      BY <3>1 DEF Apart, Sides
  <2>2. \A n \in Markets :
          /\ Apart(s1, n) = Apart(book, n) + IF n = m THEN Signed(makerLong, size) ELSE 0
          /\ Apart(s2, n) = Apart(s1, n)
          /\ Apart(s3, n) = Apart(s2, n) + IF n = m THEN Signed(takerLong, size) ELSE 0
          /\ Apart(c, n) = Apart(s3, n)
    BY <1>6, <1>7, <1>8, <1>9 DEF Moved, SameTrades, Apart
  <2>. QED
    BY <1>5, <2>1, <2>2
<1>15. InSettlement(book, c)
  BY <1>6, <1>7, <1>8, <1>9 DEF Moved, InSettlement
<1>. QED
  BY <1>9, <1>12, <1>13, <1>14, <1>15 DEF Filled
-----------------------------------------------------------------------------
(* The inductive invariant of the clearing. *)

BooksSound == Sound(book)

\* The vault has the engine's indexes.
IndexesAgree ==
  /\ funding \in [Markets -> [long : Int, short : Int, last : Nat]]
  /\ vaultFunding \in [Markets -> [long : Int, short : Int]]
  /\ \A m \in Markets : vaultFunding[m] = [long |-> funding[m].long, short |-> funding[m].short]

CustodyTyped ==
  /\ userAssets \in [Users -> SUBSET Assets]
  /\ deposited \in [Assets -> Nat] /\ reserves \in [Assets -> Nat]
  /\ wallet \in [Users \cup Funders \cup Liquidators -> [Assets -> Nat]]
  /\ fund \in Nat /\ badDebt \in Nat

OracleTyped == price \in [Feeds -> Nat] /\ now \in Nat /\ paused \in BOOLEAN

ClearingInv == BooksSound /\ IndexesAgree /\ CustodyTyped /\ OracleTyped

LEMMA ReadsTyped ==
  ASSUME ClearingInv
  PROVE  Quoted
  BY DEF ClearingInv, IndexesAgree, OracleTyped, Quoted

LEMMA SameBook ==
  ASSUME BooksSound, UNCHANGED bookVars
  PROVE  BooksSound'
<1>1. book' = book
  BY DEF book, bookVars
<1>. QED
  BY <1>1 DEF BooksSound

LEMMA NewBook ==
  ASSUME NEW c, c \in BookShape, BecomesBook(c)
  PROVE  book' = c
  BY DEF book, BecomesBook, BookShape

\* Balances are all that changes.
LEMMA NewBalances ==
  ASSUME BooksSound, bal' \in [Accounts -> [Assets -> Int]], UNCHANGED <<positions, synced, oi, nextId>>
  PROVE  BooksSound'
<1>1. book \in BookShape /\ book' \in BookShape
  BY DEF BooksSound, Sound, BookShape, book
<1>2. SameTrades(book, book')
  BY DEF SameTrades, book
<1>. DEFINE c == book'
<1>3. c \in BookShape /\ SameTrades(book, c) /\ Sound(book)
  BY <1>1, <1>2 DEF BooksSound
<1>. HIDE DEF c
<1>4. Sound(c)
  BY <1>3, SoundSame
<1>. QED
  BY <1>4 DEF c, BooksSound

LEMMA InitBook ==
  ASSUME Init
  PROVE  BooksSound
<1>1. book.positions = [u \in Users |-> {}] /\ book.synced = book.positions /\ book.nextId = 1
      /\ book.bal = [u \in Accounts |-> [a \in Assets |-> 0]]
      /\ book.oi = [m \in Markets |-> [total |-> 0, long |-> 0, short |-> 0]]
  BY DEF Init, book
<1>2. book \in BookShape
  BY DEF Init, book, BookShape, Sides
<1>3. \A u \in Users : Separate(book.positions[u], book.nextId)
  BY <1>1, FS_EmptySet DEF Separate
<1>4. \A m \in Markets, long \in BOOLEAN : HeldIn(book.positions, m, long) = 0
  <2>1. ASSUME NEW m \in Markets, NEW long \in BOOLEAN
        PROVE  HeldIn(book.positions, m, long) = 0
    <3>. DEFINE f == [u \in Users |-> HeldBy(book.positions[u], m, long)]
    <3>1. HeldIn(book.positions, m, long) = SumFunctionOnSet(f, Users)
      BY Zenon DEF HeldIn, SumFunction
    <3>2. HeldBy({}, m, long) = 0
      <4>1. HeldBy({}, m, long) = SumFunctionOnSet(Weight(m, long), {})
        BY FS_EmptySet, HeldByWeight
      <4>. QED
        BY <4>1, SumEmpty
    <3>3. \A u \in Users : f[u] = 0
      BY <1>1, <3>2
    <3>. HIDE DEF f
    <3>. QED
      BY <3>1, <3>3, SumZero
  <2>. QED
    BY <2>1
<1>5. Counted(book)
  <2>. DEFINE h(m, long) == HeldIn(book.positions, m, long)
  <2>1. \A m \in Markets : h(m, TRUE) = 0 /\ h(m, FALSE) = 0
    BY <1>4
  <2>. HIDE DEF h
  <2>2. \A m \in Markets :
          book.oi[m] = [total |-> h(m, TRUE) + h(m, FALSE), long |-> h(m, TRUE), short |-> h(m, FALSE)]
    <3>1. 0 + 0 = 0
      OBVIOUS
    <3>2. \A m \in Markets : book.oi[m] = [total |-> 0, long |-> 0, short |-> 0]
      BY <1>1
    <3>. QED
      BY <2>1, <3>1, <3>2, Zenon
  <2>. QED
    BY <2>2 DEF Counted, h
<1>6. Distinct(book)
  BY <1>1 DEF Distinct
<1>. QED
  BY <1>1, <1>2, <1>3, <1>5, <1>6 DEF BooksSound, Sound

LEMMA InitClearing ==
  ASSUME Init
  PROVE  ClearingInv
<1>1. BooksSound
  BY InitBook
<1>2. IndexesAgree
  BY DEF Init, IndexesAgree
<1>3. CustodyTyped
  BY DEF Init, CustodyTyped
<1>4. OracleTyped
  BY DEF Init, OracleTyped, Quotes
<1>. QED
  BY <1>1, <1>2, <1>3, <1>4 DEF ClearingInv
-----------------------------------------------------------------------------
(* The transactions keep it. *)

LEMMA FillStep ==
  ASSUME ClearingInv, NEW maker \in Users, NEW taker \in Users, NEW m \in Markets,
         NEW makerLong \in BOOLEAN, NEW makerReduces \in BOOLEAN, NEW takerReduces \in BOOLEAN,
         NEW size \in FillSizes, NEW px \in FillPrices,
         SettleFill(maker, taker, m, makerLong, makerReduces, takerReduces, size, px)
  PROVE  /\ maker # taker
         /\ \E c : Filled(book, c, maker, taker) /\ BecomesBook(c)
         /\ UNCHANGED <<fundingVars, custody, insurance, paused, price, now>>
<1>1. PICK c : /\ FillCalls(maker, taker, m, makerLong, makerReduces, takerReduces, size, px, c)
               /\ BecomesBook(c)
  BY Zenon DEF SettleFill, FillCalls
<1>2. maker # taker /\ UNCHANGED <<fundingVars, custody, insurance, paused, price, now>>
  BY DEF SettleFill
<1>3. Quoted /\ Sound(book)
  BY ReadsTyped DEF ClearingInv, BooksSound
<1>4. Filled(book, c, maker, taker)
  BY <1>1, <1>2, <1>3, FillMoves
<1>. QED
  BY <1>1, <1>2, <1>4

LEMMA FillKeeps ==
  ASSUME ClearingInv, NEW maker \in Users, NEW taker \in Users, NEW m \in Markets,
         NEW makerLong \in BOOLEAN, NEW makerReduces \in BOOLEAN, NEW takerReduces \in BOOLEAN,
         NEW size \in FillSizes, NEW px \in FillPrices,
         SettleFill(maker, taker, m, makerLong, makerReduces, takerReduces, size, px)
  PROVE  ClearingInv'
<1>1. PICK c : Filled(book, c, maker, taker) /\ BecomesBook(c)
  BY FillStep
<1>2. UNCHANGED <<fundingVars, custody, insurance, paused, price, now>>
  BY FillStep
<1>3. BooksSound'
  <2>1. Sound(c) /\ c \in BookShape
    BY <1>1 DEF Filled, Sound
  <2>2. book' = c
    BY <1>1, <2>1, NewBook
  <2>. QED
    BY <2>1, <2>2 DEF BooksSound
<1>4. IndexesAgree' /\ CustodyTyped' /\ OracleTyped'
  BY <1>2 DEF ClearingInv, IndexesAgree, CustodyTyped, OracleTyped, fundingVars, custody, insurance
<1>. QED
  BY <1>3, <1>4 DEF ClearingInv

LEMMA DepositKeeps ==
  ASSUME ClearingInv, NEW u \in Users, NEW a \in Assets, NEW n \in Deposits, Deposit(u, a, n)
  PROVE  ClearingInv'
<1>0. n \in Nat /\ u \in Users \cup Funders \cup Liquidators /\ u \in Accounts
  BY DEF Accounts
<1>1. bal \in [Accounts -> [Assets -> Int]]
  BY DEF ClearingInv, BooksSound, Sound, BookShape, book
<1>2. BooksSound'
  <2>. DEFINE row == [bal[u] EXCEPT ![a] = @ + n]
  <2>1. row \in [Assets -> Int]
    BY <1>0, <1>1
  <2>2. bal' = [bal EXCEPT ![u] = row]
    BY DEF Deposit
  <2>. HIDE DEF row
  <2>3. bal' \in [Accounts -> [Assets -> Int]]
    BY <1>1, <2>1, <2>2
  <2>. QED
    BY <2>3, NewBalances DEF Deposit, ClearingInv
<1>3. CustodyTyped'
  <2>1. wallet' \in [Users \cup Funders \cup Liquidators -> [Assets -> Nat]]
    <3>. DEFINE row == [wallet[u] EXCEPT ![a] = @ - n]
    <3>1. wallet[u] \in [Assets -> Nat] /\ wallet[u][a] >= n
      BY <1>0 DEF Deposit, ClearingInv, CustodyTyped
    <3>2. row \in [Assets -> Nat]
      BY <1>0, <3>1
    <3>3. wallet' = [wallet EXCEPT ![u] = row]
      BY DEF Deposit
    <3>. HIDE DEF row
    <3>. QED
      BY <1>0, <3>2, <3>3 DEF ClearingInv, CustodyTyped
  <2>2. reserves' \in [Assets -> Nat] /\ deposited' \in [Assets -> Nat]
    BY <1>0 DEF Deposit, ClearingInv, CustodyTyped
  <2>3. userAssets' \in [Users -> SUBSET Assets]
    BY DEF Deposit, ClearingInv, CustodyTyped
  <2>. QED
    BY <2>1, <2>2, <2>3 DEF Deposit, insurance, ClearingInv, CustodyTyped
<1>4. IndexesAgree' /\ OracleTyped'
  BY DEF Deposit, ClearingInv, IndexesAgree, OracleTyped, fundingVars
<1>. QED
  BY <1>2, <1>3, <1>4 DEF ClearingInv

LEMMA WithdrawKeeps ==
  ASSUME ClearingInv, NEW u \in Users, NEW a \in Assets, NEW n \in Withdrawals, Withdraw(u, a, n)
  PROVE  ClearingInv'
<1>0. n \in Nat /\ u \in Users \cup Funders \cup Liquidators /\ u \in Accounts
  BY DEF Accounts
<1>1. bal \in [Accounts -> [Assets -> Int]]
  BY DEF ClearingInv, BooksSound, Sound, BookShape, book
<1>2. BooksSound'
  <2>. DEFINE row == [bal[u] EXCEPT ![a] = @ - n]
  <2>1. row \in [Assets -> Int]
    BY <1>0, <1>1
  <2>2. bal' = [bal EXCEPT ![u] = row]
    BY DEF Withdraw
  <2>. HIDE DEF row
  <2>3. bal' \in [Accounts -> [Assets -> Int]]
    BY <1>1, <2>1, <2>2
  <2>. QED
    BY <2>3, NewBalances DEF Withdraw, ClearingInv
<1>3. CustodyTyped'
  <2>1. wallet' \in [Users \cup Funders \cup Liquidators -> [Assets -> Nat]]
    <3>. DEFINE row == [wallet[u] EXCEPT ![a] = @ + n]
    <3>1. wallet[u] \in [Assets -> Nat]
      BY <1>0 DEF ClearingInv, CustodyTyped
    <3>2. row \in [Assets -> Nat]
      BY <1>0, <3>1
    <3>3. wallet' = [wallet EXCEPT ![u] = row]
      BY DEF Withdraw
    <3>. HIDE DEF row
    <3>. QED
      BY <1>0, <3>2, <3>3 DEF ClearingInv, CustodyTyped
  <2>2. reserves' \in [Assets -> Nat]
    BY <1>0 DEF Withdraw, ClearingInv, CustodyTyped
  <2>3. deposited' \in [Assets -> Nat]
    BY <1>0 DEF Withdraw, ClearingInv, CustodyTyped, Greatest
  <2>. QED
    BY <2>1, <2>2, <2>3 DEF Withdraw, insurance, ClearingInv, CustodyTyped
<1>4. IndexesAgree' /\ OracleTyped'
  BY DEF Withdraw, ClearingInv, IndexesAgree, OracleTyped, fundingVars
<1>. QED
  BY <1>2, <1>3, <1>4 DEF ClearingInv

LEMMA InsuranceDepositKeeps ==
  ASSUME ClearingInv, NEW f \in Funders, NEW n \in Deposits, InsuranceDeposit(f, n)
  PROVE  ClearingInv'
<1>0. n \in Nat /\ f \in Users \cup Funders \cup Liquidators
  OBVIOUS
<1>1. BooksSound'
  BY SameBook DEF InsuranceDeposit, ClearingInv
<1>2. CustodyTyped'
  <2>1. wallet' \in [Users \cup Funders \cup Liquidators -> [Assets -> Nat]]
    <3>. DEFINE row == [wallet[f] EXCEPT ![Settlement] = @ - n]
    <3>1. wallet[f] \in [Assets -> Nat] /\ wallet[f][Settlement] >= n
      BY <1>0 DEF InsuranceDeposit, ClearingInv, CustodyTyped
    <3>2. row \in [Assets -> Nat]
      BY <1>0, <3>1
    <3>3. wallet' = [wallet EXCEPT ![f] = row]
      BY DEF InsuranceDeposit
    <3>. HIDE DEF row
    <3>. QED
      BY <1>0, <3>2, <3>3 DEF ClearingInv, CustodyTyped
  <2>. QED
    BY <1>0, <2>1 DEF InsuranceDeposit, ClearingInv, CustodyTyped
<1>3. IndexesAgree' /\ OracleTyped'
  BY DEF InsuranceDeposit, ClearingInv, IndexesAgree, OracleTyped, fundingVars
<1>. QED
  BY <1>1, <1>2, <1>3 DEF ClearingInv

LEMMA IndexDeltaType ==
  ASSUME ClearingInv, NEW m \in Markets
  PROVE  /\ IndexDelta(m) \in Int /\ FundingSurplus(m) \in Int
         /\ Apart(book, m) = 0 => IndexDelta(m) = 0 /\ FundingSurplus(m) = 0
<1>. DEFINE i == oi[m]
            skew == i.long - i.short
            sides == i.long + i.short
            imbalance == IF sides = 0 THEN 0 ELSE DivPrecision(skew, sides)
            raw == MulPrecision(imbalance, Market[m].coeff)
            rate == Clamp(raw, Market[m].maxRate)
            elapsed == now - funding[m].last
<1>1. skew \in Int /\ sides \in Int /\ Apart(book, m) = skew
  <2>1. oi \in [Markets -> Sides]
    BY DEF ClearingInv, BooksSound, Sound, BookShape, book
  <2>. QED
    BY <2>1 DEF Sides, Apart, book
<1>2. IndexDelta(m) = MulDiv(rate, elapsed, SecsPerHour) /\ FundingSurplus(m) = MulDiv(IndexDelta(m), skew, Precision)
  BY DEF IndexDelta, FundingSurplus
<1>3. elapsed \in Int /\ Market[m].coeff \in Int /\ Market[m].maxRate \in Nat
  BY DEF ClearingInv, IndexesAgree, OracleTyped, MarketType
<1>. HIDE DEF i, skew, sides, elapsed
<1>4. imbalance \in Int /\ (skew = 0 => imbalance = 0)
  <2>1. sides # 0 => DivPrecision(skew, sides) \in Int
    BY <1>1, FixedTypes
  <2>2. sides # 0 /\ skew = 0 => DivPrecision(skew, sides) = 0
    BY <1>1, MulDivZero DEF DivPrecision
  <2>. QED
    BY <2>1, <2>2
<1>. HIDE DEF imbalance
<1>5. raw \in Int /\ (skew = 0 => raw = 0)
  <2>1. raw \in Int
    BY <1>3, <1>4, FixedTypes
  <2>2. imbalance = 0 => raw = 0
    BY <1>3, MulDivZero DEF MulPrecision
  <2>. QED
    BY <1>4, <2>1, <2>2
<1>. HIDE DEF raw
<1>6. rate \in Int /\ (skew = 0 => rate = 0)
  BY <1>3, <1>5 DEF Clamp, Greatest, Least
<1>. HIDE DEF rate
<1>7. IndexDelta(m) \in Int /\ (skew = 0 => IndexDelta(m) = 0)
  <2>1. SecsPerHour \in Int \ {0}
    BY DEF SecsPerHour
  <2>2. rate = 0 => MulDiv(rate, elapsed, SecsPerHour) = 0
    BY <1>3, <2>1, MulDivZero
  <2>3. MulDiv(rate, elapsed, SecsPerHour) \in Int
    BY <1>3, <1>6, <2>1, MulDivType
  <2>. QED
    BY <1>2, <1>6, <2>2, <2>3
<1>8. FundingSurplus(m) \in Int /\ (skew = 0 => FundingSurplus(m) = 0)
  <2>1. MulDiv(IndexDelta(m), skew, Precision) \in Int
    BY <1>1, <1>7, MulDivType
  <2>2. IndexDelta(m) = 0 => MulDiv(IndexDelta(m), skew, Precision) = 0
    BY <1>1, MulDivZero
  <2>. QED
    BY <1>2, <1>7, <2>1, <2>2
<1>. QED
  BY <1>1, <1>7, <1>8

LEMMA FundingKeeps ==
  ASSUME ClearingInv, NEW m \in Markets, UpdateFunding(m)
  PROVE  ClearingInv'
<1>1. IndexDelta(m) \in Int /\ FundingSurplus(m) \in Int
  BY IndexDeltaType
<1>2. Sound(book) /\ book \in BookShape
  BY DEF ClearingInv, BooksSound, Sound
<1>3. BooksSound'
  <2>1. PICK c : BecomesBook(c) /\ (c = book \/ c \in ApplyPnl(book, InsuranceAccount, FundingSurplus(m)))
    BY DEF UpdateFunding
  <2>2. InsuranceAccount \in Accounts
    BY DEF Accounts
  <2>3. c \in BookShape /\ SameTrades(book, c)
    BY <1>1, <1>2, <2>1, <2>2, Paid DEF Charged, SameTrades
  <2>4. Sound(c)
    BY <1>2, <2>3, SoundSame
  <2>5. book' = c
    BY <2>1, <2>3, NewBook
  <2>. QED
    BY <2>4, <2>5 DEF BooksSound
<1>4. IndexesAgree'
  <2>. DEFINE delta == IndexDelta(m)
              old == funding[m]
  <2>1. /\ old \in [long : Int, short : Int, last : Nat] /\ now \in Nat
        /\ funding' = [funding EXCEPT ![m] = [long |-> old.long + delta, short |-> old.short - delta, last |-> now]]
        /\ vaultFunding' = [vaultFunding EXCEPT ![m] = [long |-> old.long + delta, short |-> old.short - delta]]
    BY DEF UpdateFunding, ClearingInv, IndexesAgree, OracleTyped
  <2>2. delta \in Int
    BY <1>1
  <2>. HIDE DEF delta, old
  <2>. QED
    BY <2>1, <2>2 DEF ClearingInv, IndexesAgree
<1>5. CustodyTyped' /\ OracleTyped'
  BY DEF UpdateFunding, ClearingInv, CustodyTyped, OracleTyped, custody, insurance
<1>. QED
  BY <1>3, <1>4, <1>5 DEF ClearingInv

\* The deficit of a liquidated account is split between the fund and bad debt.
LEMMA CoverageTypes ==
  ASSUME NEW b \in BookShape, NEW u \in Users, NEW available \in Nat
  PROVE  /\ Coverage(b, u, available) \in Nat /\ Coverage(b, u, available) <= available
         /\ Uncovered(b, u, available) \in Nat
<1>1. b.bal[u][Settlement] \in Int
  BY DEF BookShape, Accounts
<1>2. CASE Equity(b, u) >= 0 \/ b.bal[u][Settlement] >= 0
  BY <1>2 DEF Coverage, Uncovered
<1>3. CASE ~(Equity(b, u) >= 0 \/ b.bal[u][Settlement] >= 0)
  <2>. DEFINE debt == -b.bal[u][Settlement]
  <2>1. /\ Coverage(b, u, available) = Least(available, debt)
        /\ Uncovered(b, u, available) = debt - Coverage(b, u, available)
    BY <1>3, Zenon DEF Coverage, Uncovered
  <2>2. debt \in Nat
    BY <1>1, <1>3
  <2>. HIDE DEF debt
  <2>. QED
    BY <2>1, <2>2 DEF Least
<1>. QED
  BY <1>2, <1>3

LEMMA LiquidateStep ==
  ASSUME ClearingInv, NEW l \in Liquidators, NEW u \in Users, NEW size \in FillSizes, NEW px \in FillPrices,
         NEW p \in positions[u], Liquidate(l, u, p, size, px)
  PROVE  /\ LiquidationReward(size, px) \in Nat
         /\ \E available \in Nat : \E b :
              /\ b \in ReducedBooks(book, u, p, size, px)
              /\ Moved(book, b, u, p.market, Signed(p.long, -size))
              /\ BecomesBook(Credited(b, u, Coverage(b, u, available)))
              /\ fund' = available - Coverage(b, u, available)
              /\ badDebt' = badDebt + Uncovered(b, u, available)
              /\ reserves' = [reserves EXCEPT ![Settlement] = @ + Coverage(b, u, available)]
<1>. DEFINE available == fund - LiquidationReward(size, px)
<1>1. size \in Nat \ {0} /\ size \in Nat /\ px \in Nat /\ Sound(book) /\ Quoted /\ p \in book.positions[u]
  BY ReadsTyped DEF ClearingInv, BooksSound, book
<1>2. LiquidationReward(size, px) \in Nat
  <2>1. Notional(size, px) \in Nat
    BY <1>1, FixedTypes
  <2>. QED
    BY <2>1, FixedTypes DEF LiquidationReward
<1>3. available \in Nat
  BY <1>2 DEF Liquidate, CanPayLiquidator, ClearingInv, CustodyTyped
<1>4. PICK b \in ReducedBooks(book, u, p, size, px) :
        /\ BecomesBook([b EXCEPT !.bal[u][Settlement] = @ + Coverage(b, u, available)])
        /\ fund' = available - Coverage(b, u, available)
        /\ badDebt' = badDebt + Uncovered(b, u, available)
        /\ reserves' = [reserves EXCEPT ![Settlement] = @ + Coverage(b, u, available)]
  BY Zenon DEF Liquidate
<1>5. BecomesBook(Credited(b, u, Coverage(b, u, available)))
  BY <1>4, Zenon DEF Credited
<1>6. Moved(book, b, u, p.market, Signed(p.long, -size))
  BY <1>1, ReduceMoves
<1>. HIDE DEF available
<1>. QED
  BY <1>2, <1>3, <1>4, <1>5, <1>6

LEMMA LiquidateKeeps ==
  ASSUME ClearingInv, NEW l \in Liquidators, NEW u \in Users, NEW size \in FillSizes, NEW px \in FillPrices,
         NEW p \in positions[u], Liquidate(l, u, p, size, px)
  PROVE  ClearingInv'
<1>. DEFINE reward == LiquidationReward(size, px)
<1>1. reward \in Nat
  BY LiquidateStep
<1>2. PICK available \in Nat : \E b :
        /\ b \in ReducedBooks(book, u, p, size, px)
        /\ Moved(book, b, u, p.market, Signed(p.long, -size))
        /\ BecomesBook(Credited(b, u, Coverage(b, u, available)))
        /\ fund' = available - Coverage(b, u, available)
        /\ badDebt' = badDebt + Uncovered(b, u, available)
        /\ reserves' = [reserves EXCEPT ![Settlement] = @ + Coverage(b, u, available)]
  BY LiquidateStep, SMTT(30)
<1>3. PICK b :
        /\ Moved(book, b, u, p.market, Signed(p.long, -size))
        /\ BecomesBook(Credited(b, u, Coverage(b, u, available)))
        /\ fund' = available - Coverage(b, u, available)
        /\ badDebt' = badDebt + Uncovered(b, u, available)
        /\ reserves' = [reserves EXCEPT ![Settlement] = @ + Coverage(b, u, available)]
  BY <1>2
<1>. DEFINE covered == Coverage(b, u, available)
            c == Credited(b, u, covered)
<1>4. Sound(b) /\ b \in BookShape
  BY <1>3 DEF Moved, Sound
<1>5. covered \in Nat /\ covered <= available /\ Uncovered(b, u, available) \in Nat
  BY <1>2, <1>4, CoverageTypes
<1>6. BecomesBook(c)
  BY <1>3
<1>. HIDE DEF covered, reward
<1>7. BooksSound'
  <2>1. u \in Accounts /\ covered \in Int
    BY <1>5 DEF Accounts
  <2>2. Charged(b, c, u)
    BY <1>4, <2>1, CreditKeeps
  <2>. HIDE DEF c
  <2>3. c \in BookShape /\ Sound(c)
    BY <1>4, <2>2, SoundSame DEF Charged
  <2>4. book' = c
    BY <1>6, <2>3, NewBook
  <2>. QED
    BY <2>3, <2>4 DEF BooksSound
<1>. HIDE DEF c
<1>8. CustodyTyped'
  <2>1. fund' \in Nat /\ badDebt' \in Nat
    BY <1>2, <1>3, <1>5 DEF covered, ClearingInv, CustodyTyped
  <2>2. reserves' = [reserves EXCEPT ![Settlement] = @ + covered]
    BY <1>3 DEF covered
  <2>3. reserves' \in [Assets -> Nat]
    BY <1>5, <2>2 DEF ClearingInv, CustodyTyped
  <2>4. wallet' \in [Users \cup Funders \cup Liquidators -> [Assets -> Nat]]
    <3>. DEFINE row == [wallet[l] EXCEPT ![Settlement] = @ + reward]
    <3>1. row \in [Assets -> Nat]
      BY <1>1 DEF ClearingInv, CustodyTyped
    <3>2. wallet' = [wallet EXCEPT ![l] = row]
      BY DEF Liquidate, reward
    <3>. HIDE DEF row
    <3>. QED
      BY <3>1, <3>2 DEF ClearingInv, CustodyTyped
  <2>. QED
    BY <2>1, <2>3, <2>4 DEF Liquidate, ClearingInv, CustodyTyped
<1>9. IndexesAgree' /\ OracleTyped'
  BY DEF Liquidate, ClearingInv, IndexesAgree, OracleTyped, fundingVars
<1>. QED
  BY <1>7, <1>8, <1>9 DEF ClearingInv

LEMMA NextKeeps ==
  ASSUME ClearingInv, [Next]_vars
  PROVE  ClearingInv'
<1>1. ASSUME NEW maker \in Users, NEW taker \in Users, NEW m \in Markets, NEW makerLong \in BOOLEAN,
             NEW makerReduces \in BOOLEAN, NEW takerReduces \in BOOLEAN, NEW size \in FillSizes, NEW px \in FillPrices,
             SettleFill(maker, taker, m, makerLong, makerReduces, takerReduces, size, px)
      PROVE  ClearingInv'
  BY <1>1, FillKeeps
<1>2. ASSUME NEW u \in Users, NEW a \in Assets, NEW n \in Deposits, Deposit(u, a, n)
      PROVE  ClearingInv'
  BY <1>2, DepositKeeps
<1>3. ASSUME NEW u \in Users, NEW a \in Assets, NEW n \in Withdrawals, Withdraw(u, a, n)
      PROVE  ClearingInv'
  BY <1>3, WithdrawKeeps
<1>4. ASSUME NEW f \in Funders, NEW n \in Deposits, InsuranceDeposit(f, n)
      PROVE  ClearingInv'
  BY <1>4, InsuranceDepositKeeps
<1>5. ASSUME NEW m \in Markets, UpdateFunding(m)
      PROVE  ClearingInv'
  BY <1>5, FundingKeeps
<1>6. ASSUME NEW l \in Liquidators, NEW u \in Users, NEW size \in FillSizes, NEW px \in FillPrices,
             NEW p \in positions[u], Liquidate(l, u, p, size, px)
      PROVE  ClearingInv'
  BY <1>6, LiquidateKeeps
<1>7. CASE EmergencyPause \/ Unpause
  <2>1. BooksSound'
    BY <1>7, SameBook DEF EmergencyPause, Unpause, ClearingInv
  <2>2. IndexesAgree' /\ CustodyTyped' /\ OracleTyped'
    BY <1>7 DEF EmergencyPause, Unpause, ClearingInv, IndexesAgree, CustodyTyped, OracleTyped,
                fundingVars, custody, insurance
  <2>. QED
    BY <2>1, <2>2 DEF ClearingInv
<1>8. CASE OracleRound
  <2>1. BooksSound'
    BY <1>8, SameBook DEF OracleRound, ClearingInv
  <2>2. IndexesAgree' /\ CustodyTyped'
    BY <1>8 DEF OracleRound, ClearingInv, IndexesAgree, CustodyTyped, fundingVars, custody, insurance
  <2>3. OracleTyped'
    BY <1>8 DEF OracleRound, Quotes, ClearingInv, OracleTyped
  <2>. QED
    BY <2>1, <2>2, <2>3 DEF ClearingInv
<1>9. CASE UNCHANGED vars
  <2>1. BooksSound'
    BY <1>9, SameBook DEF vars, ClearingInv
  <2>2. IndexesAgree' /\ CustodyTyped' /\ OracleTyped'
    BY <1>9 DEF vars, ClearingInv, IndexesAgree, CustodyTyped, OracleTyped, fundingVars, custody, insurance
  <2>. QED
    BY <2>1, <2>2 DEF ClearingInv
<1>. QED
  BY <1>1, <1>2, <1>3, <1>4, <1>5, <1>6, <1>7, <1>8, <1>9 DEF Next

LEMMA ClearingInvariant == Spec => []ClearingInv
<1>1. Init => ClearingInv
  BY InitClearing
<1>2. ClearingInv /\ [Next]_vars => ClearingInv'
  BY NextKeeps
<1>. QED
  BY <1>1, <1>2, PTL DEF Spec
-----------------------------------------------------------------------------
(* What it gives. *)

LEMMA HeldTypes ==
  ASSUME ClearingInv
  PROVE  \A m \in Markets, long \in BOOLEAN : HeldIn(book.positions, m, long) \in Nat
<1>1. book.positions \in [Users -> SUBSET Position] /\ \A u \in Users : IsFiniteSet(book.positions[u])
  BY DEF ClearingInv, BooksSound, Sound, BookShape, Separate
<1>2. ASSUME NEW m \in Markets, NEW long \in BOOLEAN
      PROVE  HeldIn(book.positions, m, long) \in Nat
  <2>. DEFINE f == [v \in Users |-> HeldBy(book.positions[v], m, long)]
  <2>1. HeldIn(book.positions, m, long) = SumFunctionOnSet(f, Users)
    BY Zenon DEF HeldIn, SumFunction
  <2>2. \A v \in Users : f[v] \in Int /\ f[v] >= 0
    BY <1>1, HeldByWeight
  <2>. HIDE DEF f
  <2>. QED
    BY <2>1, <2>2, SumType
<1>. QED
  BY <1>2

\* The contracts' storage keeps its shape: sizes and open interest stay natural
\* numbers, whatever a partial close, a flip or a liquidation takes off them.
THEOREM TypeCorrect == Spec => []TypeOK
<1>1. ClearingInv => TypeOK
  <2> SUFFICES ASSUME ClearingInv
               PROVE  TypeOK
    OBVIOUS
  <2>1. /\ positions \in [Users -> SUBSET Position] /\ synced \in [Users -> SUBSET Position]
        /\ nextId \in Nat \ {0} /\ bal \in [Accounts -> [Assets -> Int]] /\ oi \in [Markets -> Sides]
    BY DEF ClearingInv, BooksSound, Sound, BookShape, book
  <2>2. oi \in [Markets -> [total : Nat, long : Nat, short : Nat]]
    <3>. DEFINE longs(m) == HeldIn(book.positions, m, TRUE)
                shorts(m) == HeldIn(book.positions, m, FALSE)
    <3>1. \A m \in Markets : longs(m) \in Nat /\ shorts(m) \in Nat
      BY HeldTypes
    <3>2. \A m \in Markets : oi[m] = [total |-> longs(m) + shorts(m), long |-> longs(m), short |-> shorts(m)]
      BY Zenon DEF ClearingInv, BooksSound, Sound, Counted, book
    <3>. HIDE DEF longs, shorts
    <3>3. \A m \in Markets : longs(m) + shorts(m) \in Nat
      BY <3>1
    <3>. QED
      BY <2>1, <3>1, <3>2, <3>3
  <2>3. /\ funding \in [Markets -> [long : Int, short : Int, last : Nat]]
        /\ vaultFunding \in [Markets -> [long : Int, short : Int]]
    BY DEF ClearingInv, IndexesAgree
  <2>. QED
    BY <2>1, <2>2, <2>3 DEF TypeOK, ClearingInv, CustodyTyped, OracleTyped
<1>. QED
  BY <1>1, ClearingInvariant, PTL

\* settle_user_side finds at most one position of a user in a market, and no two
\* positions ever have the same id.
THEOREM OnePosition == Spec => []OnePositionPerMarket
<1>1. ClearingInv => OnePositionPerMarket
  <2> SUFFICES ASSUME ClearingInv
               PROVE  OnePositionPerMarket
    OBVIOUS
  <2>1. (\A u \in Users : Separate(positions[u], nextId)) /\ Distinct(book)
    BY DEF ClearingInv, BooksSound, Sound, book
  <2>2. \A u \in Users : /\ \A p, q \in positions[u] : p.market = q.market => p = q
                         /\ \A p \in positions[u] : p.id < nextId
    BY <2>1 DEF Separate
  <2>3. \A u, v \in Users : \A p \in positions[u], q \in positions[v] : p.id = q.id => u = v
    BY <2>1 DEF Distinct, book
  <2>. QED
    BY <2>2, <2>3 DEF OnePositionPerMarket
<1>. QED
  BY <1>1, ClearingInvariant, PTL

\* The engine's open interest is the size of its positions, and the vault has its
\* positions and its funding indexes, after any sequence of transactions.
THEOREM BooksStayEqual == Spec => []BooksAgree
<1>1. ClearingInv => BooksAgree
  <2> SUFFICES ASSUME ClearingInv
               PROVE  BooksAgree
    OBVIOUS
  <2>1. \A m \in Markets : oi[m] = [total |-> Held(m, TRUE) + Held(m, FALSE),
                                    long |-> Held(m, TRUE), short |-> Held(m, FALSE)]
    <3>1. book.positions = positions /\ book.oi = oi
      BY DEF book
    <3>2. Counted(book)
      BY DEF ClearingInv, BooksSound, Sound
    <3>. QED
      BY <3>1, <3>2, Zenon DEF Counted, Held
  <2>2. synced = positions
    BY DEF ClearingInv, BooksSound, Sound, book
  <2>3. \A m \in Markets : vaultFunding[m] = [long |-> funding[m].long, short |-> funding[m].short]
    BY DEF ClearingInv, IndexesAgree
  <2>. QED
    BY <2>1, <2>2, <2>3, Zenon DEF BooksAgree
<1>. QED
  BY <1>1, ClearingInvariant, PTL

\* The two sides of every market are equal and no funding has accrued.
SidesEven ==
  \A m \in Markets : Apart(book, m) = 0 /\ funding[m].long = 0 /\ funding[m].short = 0

LEMMA EvenKept ==
  ASSUME ClearingInv, ClearingInv', SidesEven, Liquidators = {}, [Next]_vars
  PROVE  SidesEven'
<1>1. ASSUME NEW maker \in Users, NEW taker \in Users, NEW m \in Markets, NEW makerLong \in BOOLEAN,
             NEW makerReduces \in BOOLEAN, NEW takerReduces \in BOOLEAN, NEW size \in FillSizes, NEW px \in FillPrices,
             SettleFill(maker, taker, m, makerLong, makerReduces, takerReduces, size, px)
      PROVE  SidesEven'
  <2>1. PICK c : Filled(book, c, maker, taker) /\ BecomesBook(c)
    BY <1>1, FillStep
  <2>2. book' = c
    BY <2>1, NewBook DEF Filled, Sound
  <2>3. UNCHANGED funding
    BY <1>1, FillStep DEF fundingVars
  <2>4. \A n \in Markets : Apart(book, n)' = Apart(c, n)
    BY <2>2 DEF Apart
  <2>. QED
    BY <2>1, <2>3, <2>4 DEF SidesEven, Filled
<1>2. ASSUME UNCHANGED <<oi, funding>>
      PROVE  SidesEven'
  <2>1. \A n \in Markets : Apart(book, n)' = Apart(book, n)
    BY <1>2 DEF Apart, book
  <2>. QED
    BY <1>2, <2>1 DEF SidesEven
<1>3. ASSUME NEW m \in Markets, UpdateFunding(m)
      PROVE  SidesEven'
  <2>1. IndexDelta(m) = 0 /\ FundingSurplus(m) = 0
    BY IndexDeltaType DEF SidesEven
  <2>2. oi' = oi
    BY <1>3, <2>1 DEF UpdateFunding, BecomesBook, book
  <2>3. /\ funding \in [Markets -> [long : Int, short : Int, last : Nat]]
        /\ funding' = [funding EXCEPT ![m] = [long |-> funding[m].long + IndexDelta(m),
                                              short |-> funding[m].short - IndexDelta(m), last |-> now]]
    BY <1>3 DEF UpdateFunding, ClearingInv, IndexesAgree
  <2>4. \A n \in Markets : funding'[n].long = 0 /\ funding'[n].short = 0
    BY <2>1, <2>3 DEF SidesEven
  <2>5. \A n \in Markets : Apart(book, n)' = Apart(book, n)
    BY <2>2 DEF Apart, book
  <2>. QED
    BY <2>4, <2>5 DEF SidesEven
<1>4. ASSUME NEW u \in Users, NEW a \in Assets, NEW n \in Deposits, Deposit(u, a, n)
      PROVE  SidesEven'
  BY <1>2, <1>4 DEF Deposit, fundingVars
<1>5. ASSUME NEW u \in Users, NEW a \in Assets, NEW n \in Withdrawals, Withdraw(u, a, n)
      PROVE  SidesEven'
  BY <1>2, <1>5 DEF Withdraw, fundingVars
<1>6. ASSUME NEW f \in Funders, NEW n \in Deposits, InsuranceDeposit(f, n)
      PROVE  SidesEven'
  BY <1>2, <1>6 DEF InsuranceDeposit, bookVars, fundingVars
<1>7. ASSUME NEW l \in Liquidators, NEW u \in Users, NEW size \in FillSizes, NEW px \in FillPrices,
             NEW p \in positions[u], Liquidate(l, u, p, size, px)
      PROVE  SidesEven'
  BY <1>7
<1>8. CASE EmergencyPause \/ Unpause \/ OracleRound \/ UNCHANGED vars
  BY <1>2, <1>8 DEF EmergencyPause, Unpause, OracleRound, vars, bookVars, fundingVars
<1>9. CASE \E l \in Liquidators, u \in Users, size \in FillSizes, px \in FillPrices :
              \E p \in positions[u] : Liquidate(l, u, p, size, px)
  BY <1>7, <1>9
<1>10. CASE \/ \E u \in Users, a \in Assets, n \in Deposits : Deposit(u, a, n)
            \/ \E u \in Users, a \in Assets, n \in Withdrawals : Withdraw(u, a, n)
            \/ \E f \in Funders, n \in Deposits : InsuranceDeposit(f, n)
            \/ \E m \in Markets : UpdateFunding(m)
  BY <1>3, <1>4, <1>5, <1>6, <1>10
<1>11. CASE \E maker, taker \in Users, m \in Markets, makerLong \in BOOLEAN,
               makerReduces, takerReduces \in BOOLEAN, size \in FillSizes, px \in FillPrices :
               SettleFill(maker, taker, m, makerLong, makerReduces, takerReduces, size, px)
  BY <1>1, <1>11
<1>. QED
  BY <1>8, <1>9, <1>10, <1>11 DEF Next

\* Every fill gives as much to one side as to the other, through flips and partial
\* closes and whatever each user held: as long as nobody liquidates, the sides are
\* equal and no funding is ever owed.
THEOREM SidesStayEqual ==
  ASSUME Liquidators = {}
  PROVE  Spec => []SidesMatch
<1>1. Init => SidesEven
  <2> SUFFICES ASSUME Init
               PROVE  SidesEven
    OBVIOUS
  <2>1. \A m \in Markets : oi[m].long = 0 /\ oi[m].short = 0 /\ funding[m].long = 0 /\ funding[m].short = 0
    BY DEF Init
  <2>. QED
    BY <2>1 DEF SidesEven, Apart, book
<1>2. ClearingInv /\ ClearingInv' /\ SidesEven /\ [Next]_vars => SidesEven'
  BY EvenKept
<1>3. ClearingInv /\ SidesEven => SidesMatch
  <2> SUFFICES ASSUME ClearingInv, SidesEven
               PROVE  SidesMatch
    OBVIOUS
  <2>1. oi \in [Markets -> Sides]
    BY DEF ClearingInv, BooksSound, Sound, BookShape, book
  <2>2. \A m \in Markets : oi[m].long \in Int /\ oi[m].short \in Int /\ oi[m].long - oi[m].short = 0
    BY <2>1 DEF Sides, SidesEven, Apart, book
  <2>3. \A m \in Markets : oi[m].long = oi[m].short
    BY <2>2
  <2>. QED
    BY <2>3 DEF SidesMatch, SidesEven
<1>. QED
  BY <1>1, <1>2, <1>3, ClearingInvariant, PTL DEF Spec
-----------------------------------------------------------------------------
(* Margin after a trade. *)

\* Whichever of the four nested calls of a fill came last, it leaves the maker and
\* the taker at or above their initial margin; no other account is touched.
FillsAboveMargin ==
  [][\A maker, taker \in Users, m \in Markets, makerLong, makerReduces, takerReduces \in BOOLEAN,
        size \in FillSizes, px \in FillPrices :
       SettleFill(maker, taker, m, makerLong, makerReduces, takerReduces, size, px) =>
         /\ AboveInitialMargin(book, maker)' /\ AboveInitialMargin(book, taker)'
         /\ \A u \in Users \ {maker, taker} : positions'[u] = positions[u] /\ bal'[u] = bal[u]]_vars

\* The health of an account is read from prices, indexes and assets a fill leaves alone.
LEMMA HealthUnmoved ==
  ASSUME NEW row, NEW held, NEW u, UNCHANGED <<price, vaultFunding, userAssets>>
  PROVE  Healthy(row, held, u)' = Healthy(row, held, u)
  BY Zenon DEF Healthy, CountedAssets, UnrealizedPnl

LEMMA HealthMoves ==
  ASSUME NEW c \in BookShape, BecomesBook(c), NEW u, AboveInitialMargin(c, u),
         UNCHANGED <<price, vaultFunding, userAssets>>
  PROVE  AboveInitialMargin(book, u)'
<1>1. Healthy(c.bal[u], c.synced[u], u)'
  <2>1. Healthy(c.bal[u], c.synced[u], u)
    BY HealthIsOwn
  <2>. QED
    BY <2>1, HealthUnmoved
<1>2. book' = c
  BY NewBook
<1>3. AboveInitialMargin(book, u)' <=> Healthy(c.bal[u], c.synced[u], u)'
  BY <1>2, Zenon DEF AboveInitialMargin, Equity, EquityIn, CollateralValue, InitialMargin, Healthy
<1>. QED
  BY <1>1, <1>3

THEOREM MarginAfterFill == Spec => FillsAboveMargin
<1>1. ASSUME ClearingInv, NEW maker \in Users, NEW taker \in Users, NEW m \in Markets, NEW makerLong \in BOOLEAN,
             NEW makerReduces \in BOOLEAN, NEW takerReduces \in BOOLEAN, NEW size \in FillSizes, NEW px \in FillPrices,
             SettleFill(maker, taker, m, makerLong, makerReduces, takerReduces, size, px)
      PROVE  /\ AboveInitialMargin(book, maker)' /\ AboveInitialMargin(book, taker)'
             /\ \A u \in Users \ {maker, taker} : positions'[u] = positions[u] /\ bal'[u] = bal[u]
  <2>1. PICK c : Filled(book, c, maker, taker) /\ BecomesBook(c)
    BY <1>1, FillStep
  <2>2. UNCHANGED <<price, vaultFunding, userAssets>>
    BY <1>1, FillStep DEF fundingVars, custody
  <2>3. c \in BookShape /\ AboveInitialMargin(c, maker) /\ AboveInitialMargin(c, taker)
    BY <2>1 DEF Filled, Sound
  <2>4. AboveInitialMargin(book, maker)' /\ AboveInitialMargin(book, taker)'
    BY <2>1, <2>2, <2>3, HealthMoves
  <2>5. \A u \in Users \ {maker, taker} : positions'[u] = positions[u] /\ bal'[u] = bal[u]
    BY <2>1 DEF Filled, BecomesBook, book
  <2>. QED
    BY <2>4, <2>5
<1>2. ClearingInv =>
        \A maker, taker \in Users, m \in Markets, makerLong, makerReduces, takerReduces \in BOOLEAN,
           size \in FillSizes, px \in FillPrices :
          SettleFill(maker, taker, m, makerLong, makerReduces, takerReduces, size, px) =>
            /\ AboveInitialMargin(book, maker)' /\ AboveInitialMargin(book, taker)'
            /\ \A u \in Users \ {maker, taker} : positions'[u] = positions[u] /\ bal'[u] = bal[u]
  BY <1>1
<1>. QED
  BY <1>2, ClearingInvariant, PTL DEF Spec, FillsAboveMargin
-----------------------------------------------------------------------------
(* Quotients. *)

LEMMA MulDivFloor ==
  ASSUME NEW a \in Nat, NEW b \in Nat, NEW d \in Nat \ {0}
  PROVE  MulDiv(a, b, d) = (a * b) \div d
<1>. DEFINE n == a * b
<1>1. n \in Nat
  OBVIOUS
<1>2. Abs(n) = n /\ Abs(d) = d /\ n >= 0 /\ d > 0
  BY <1>1 DEF Abs
<1>. QED
  BY <1>2, Zenon DEF MulDiv

\* The quotient is the number of times the divisor fits.
LEMMA Floor ==
  ASSUME NEW n \in Nat, NEW d \in Nat \ {0}
  PROVE  n \div d \in Nat /\ d * (n \div d) <= n /\ n < d * (n \div d) + d
<1>1. n \div d \in Nat
  OBVIOUS
<1>2. \A q \in Int : q = n \div d => d * q <= n
  OBVIOUS
<1>3. \A q \in Int : q = n \div d => n < d * q + d
  OBVIOUS
<1>. QED
  BY <1>1, <1>2, <1>3

\* Fewer whole divisors fit into less.
LEMMA Fits ==
  ASSUME NEW p \in Int, NEW q \in Int, NEW d \in Nat \ {0}, d * p < d * q + d
  PROVE  p <= q
<1> SUFFICES ASSUME p >= q + 1
             PROVE  FALSE
  OBVIOUS
<1>. DEFINE k == p - q - 1
<1>1. k \in Nat
  OBVIOUS
<1>2. d * k >= 0 /\ d * k \in Int
  BY <1>1
<1>3. d * p = d * k + d * q + d
  <2>1. p = k + q + 1
    OBVIOUS
  <2>. HIDE DEF k
  <2>. QED
    BY <1>1, <2>1
<1>4. d * q \in Int
  OBVIOUS
<1>. HIDE DEF k
<1>. QED
  BY <1>2, <1>3, <1>4

LEMMA FloorGrows ==
  ASSUME NEW m \in Nat, NEW n \in Nat, m <= n, NEW d \in Nat \ {0}
  PROVE  m \div d <= n \div d
<1>. DEFINE p == m \div d
            q == n \div d
<1>1. p \in Nat /\ d * p <= m
  BY Floor
<1>2. q \in Nat /\ n < d * q + d
  BY Floor
<1>. HIDE DEF p, q
<1>3. d * p \in Int /\ d * q \in Int
  BY <1>1, <1>2
<1>4. d * p < d * q + d
  BY <1>1, <1>2, <1>3
<1>5. p <= q
  BY <1>1, <1>2, <1>4, Fits
<1>. QED
  BY <1>5 DEF p, q

\* Two roundings lose at most one unit against one.
LEMMA FloorSplits ==
  ASSUME NEW m \in Nat, NEW n \in Nat, NEW d \in Nat \ {0}
  PROVE  (m + n) \div d <= m \div d + n \div d + 1
<1>. DEFINE p == m \div d
            q == n \div d
            r == (m + n) \div d
<1>1. p \in Nat /\ m < d * p + d
  BY Floor
<1>2. q \in Nat /\ n < d * q + d
  BY Floor
<1>3. r \in Nat /\ d * r <= m + n
  <2>1. m + n \in Nat
    OBVIOUS
  <2>. QED
    BY <2>1, Floor
<1>. HIDE DEF p, q, r
<1>4. d * p \in Int /\ d * q \in Int /\ d * r \in Int
  BY <1>1, <1>2, <1>3
<1>5. d * (p + q + 1) = d * p + d * q + d
  BY <1>1, <1>2
<1>6. d * r < d * (p + q + 1) + d
  BY <1>1, <1>2, <1>3, <1>4, <1>5
<1>7. r <= p + q + 1
  BY <1>1, <1>2, <1>3, <1>6, Fits
<1>. QED
  BY <1>7 DEF p, q, r

-----------------------------------------------------------------------------
(* Debts of accounts that hold nothing. *)

Quoting == price \in Quotes

LEMMA QuotingKept ==
  ASSUME Quoting, [Next]_vars
  PROVE  Quoting'
<1>1. price' = price \/ price' \in Quotes
  <2>1. CASE OracleRound
    BY <2>1 DEF OracleRound
  <2>2. CASE EmergencyPause \/ Unpause \/ UNCHANGED vars
    BY <2>2 DEF EmergencyPause, Unpause, vars
  <2>3. CASE \E maker, taker \in Users, m \in Markets, makerLong \in BOOLEAN,
                makerReduces, takerReduces \in BOOLEAN, size \in FillSizes, px \in FillPrices :
                SettleFill(maker, taker, m, makerLong, makerReduces, takerReduces, size, px)
    BY <2>3 DEF SettleFill
  <2>4. CASE \/ \E u \in Users, a \in Assets, n \in Deposits : Deposit(u, a, n)
             \/ \E u \in Users, a \in Assets, n \in Withdrawals : Withdraw(u, a, n)
             \/ \E f \in Funders, n \in Deposits : InsuranceDeposit(f, n)
             \/ \E m \in Markets : UpdateFunding(m)
    BY <2>4 DEF Deposit, Withdraw, InsuranceDeposit, UpdateFunding
  <2>5. CASE \E l \in Liquidators, u \in Users, size \in FillSizes, px \in FillPrices :
                \E p \in positions[u] : Liquidate(l, u, p, size, px)
    BY <2>5 DEF Liquidate
  <2>. QED
    BY <2>1, <2>2, <2>3, <2>4, <2>5 DEF Next
<1>. QED
  BY <1>1 DEF Quoting

\* What the accounts without positions owe.
Debt(held, own, row) ==
  IF held = {} /\ own \subseteq {Settlement} /\ Visible(-row[Settlement])
  THEN Greatest(0, -row[Settlement]) ELSE 0
Debts(held, own, rows) == [u \in Users |-> Debt(held[u], own[u], rows[u])]
DebtWith(held, own, rows) == SumFunctionOnSet(Debts(held, own, rows), Users)

DebtInv == DebtWith(positions, userAssets, bal) <= badDebt

\* What the feed gives the debt a value for is a negative value of the balance.
LEMMA DebtHasValue ==
  ASSUME NEW n \in Int, NEW x \in Nat, n < 0, MulPrecision(-n, x) > 0
  PROVE  MulPrecision(n, x) < 0
<1>. DEFINE k == -n
            y == k * x
<1>1. k \in Nat \ {0} /\ n * x = -y /\ y \in Nat
  OBVIOUS
<1>. HIDE DEF k
<1>2. Abs(y) = y /\ Abs(Precision) = Precision /\ y >= 0 /\ Precision > 0
  BY <1>1 DEF Abs
<1>3. MulPrecision(k, x) = y \div Precision
  BY <1>2, Zenon DEF MulPrecision, MulDiv
<1>4. y \div Precision > 0
  BY <1>3 DEF k
<1>. HIDE DEF y
<1>5. y # 0
  <2>1. 0 \div Precision = 0
    OBVIOUS
  <2>. QED
    BY <1>4, <2>1
<1>6. Abs(n * x) = y /\ ~(n * x >= 0)
  BY <1>1, <1>5 DEF Abs
<1>7. MulPrecision(n, x) = -(y \div Precision)
  BY <1>2, <1>6, Zenon DEF MulPrecision, MulDiv
<1>8. y \div Precision \in Int
  BY <1>1
<1>. QED
  BY <1>4, <1>7, <1>8

\* A larger debt is seen where a smaller one is.
LEMMA VisibleGrows ==
  ASSUME NEW d \in Int, NEW e \in Int, 0 < d, d <= e, Visible(d)
  PROVE  Visible(e)
<1> SUFFICES ASSUME NEW q \in FeedPrices[Settlement]
             PROVE  MulPrecision(e, q) > 0
  BY DEF Visible
<1>. DEFINE k == e - d
            m == d * q
            n == e * q
<1>1. q \in Nat /\ d \in Nat /\ e \in Nat
  BY DEF Feeds
<1>2. MulPrecision(d, q) = m \div Precision /\ MulPrecision(e, q) = n \div Precision
  BY <1>1, MulDivFloor DEF MulPrecision
<1>3. m \in Nat /\ n \in Nat /\ m <= n
  <2>1. k \in Nat /\ e = d + k
    OBVIOUS
  <2>. HIDE DEF k
  <2>2. d * q \in Nat /\ k * q \in Nat /\ e * q = d * q + k * q
    BY <1>1, <2>1
  <2>. QED
    BY <2>2
<1>4. m \div Precision > 0
  BY <1>2 DEF Visible
<1>. HIDE DEF m, n
<1>5. m \div Precision <= n \div Precision
  BY <1>3, FloorGrows
<1>6. m \div Precision \in Int /\ n \div Precision \in Int
  BY <1>3
<1>. QED
  BY <1>2, <1>4, <1>5, <1>6

\* An account whose debt does not grow, whatever it comes to hold, owes no more.
LEMMA DebtShrinks ==
  ASSUME NEW held, NEW own, NEW own2, own \subseteq own2, NEW row \in [Assets -> Int], NEW row2 \in [Assets -> Int],
         row2[Settlement] >= 0 \/ row2[Settlement] >= row[Settlement]
  PROVE  Debt(held, own2, row2) <= Debt(held, own, row)
<1>1. row[Settlement] \in Int /\ row2[Settlement] \in Int
  OBVIOUS
<1>2. CASE ~(held = {} /\ own2 \subseteq {Settlement} /\ Visible(-row2[Settlement])) \/ row2[Settlement] >= 0
  BY <1>1, <1>2 DEF Debt, Greatest
<1>3. CASE held = {} /\ own2 \subseteq {Settlement} /\ Visible(-row2[Settlement]) /\ row2[Settlement] < 0
  <2>1. Visible(-row[Settlement])
    BY <1>1, <1>3, VisibleGrows
  <2>2. own \subseteq {Settlement}
    BY <1>3
  <2>. QED
    BY <1>1, <1>3, <2>1, <2>2 DEF Debt, Greatest
<1>. QED
  BY <1>1, <1>2, <1>3

\* With nothing but the settlement asset, an account without positions that is above its margin
\* owes nothing that the feed gives a value for.
LEMMA FlatIsSolvent ==
  ASSUME Quoting, NEW b \in BookShape, NEW u \in Users, userAssets[u] \subseteq {Settlement},
         b.synced[u] = {}, b.bal[u][Settlement] < 0, Visible(-b.bal[u][Settlement])
  PROVE  Equity(b, u) \in Int /\ Equity(b, u) < 0 /\ ~AboveInitialMargin(b, u)
<1>1. CountedAssets(u, Settlement) = {Settlement}
  BY DEF CountedAssets
<1>2. /\ b.bal[u][Settlement] \in Int /\ price[Settlement] \in Nat /\ price[Settlement] \in FeedPrices[Settlement]
      /\ Haircut[Settlement] \in Nat /\ price[Settlement] \in Int
  BY DEF BookShape, Accounts, Quoting, Quotes, Feeds
<1>3. InitialMargin(b, u) = 0
  <2>. DEFINE f == [p \in b.synced[u] |-> ApplyBps(Notional(p.size, price[p.market]), Market[p.market].initial)]
  <2>1. InitialMargin(b, u) = SumFunctionOnSet(f, b.synced[u])
    BY Zenon DEF InitialMargin, SumFunction
  <2>. HIDE DEF f
  <2>. QED
    BY <2>1, SumEmpty
<1>4. Equity(b, u) = CollateralValue(b, u, Settlement) + 0
  <2>. DEFINE f == [p \in b.synced[u] |-> UnrealizedPnl(p)]
  <2>1. Equity(b, u) = CollateralValue(b, u, Settlement) + SumFunctionOnSet(f, b.synced[u])
    BY Zenon DEF Equity, EquityIn, SumFunction
  <2>. HIDE DEF f
  <2>. QED
    BY <2>1, SumEmpty
<1>. DEFINE value == MulPrecision(b.bal[u][Settlement], price[Settlement])
            worth == AfterHaircut(value, Haircut[Settlement])
<1>5. value \in Int /\ worth \in Int
  <2>1. value \in Int
    BY <1>2, FixedTypes
  <2>. HIDE DEF value
  <2>2. ApplyBps(value, Haircut[Settlement]) \in Int
    BY <1>2, <2>1, FixedTypes
  <2>. QED
    BY <2>1, <2>2 DEF AfterHaircut
<1>6. CollateralValue(b, u, Settlement) = worth
  <2>. DEFINE f == [a \in CountedAssets(u, Settlement) |->
                      AfterHaircut(MulPrecision(b.bal[u][a], price[a]), Haircut[a])]
  <2>1. CollateralValue(b, u, Settlement) = SumFunctionOnSet(f, CountedAssets(u, Settlement))
    BY Zenon DEF CollateralValue, SumFunction
  <2>2. f[Settlement] = worth
    BY <1>1
  <2>. HIDE DEF f, worth
  <2>. QED
    BY <1>1, <1>5, <2>1, <2>2, SumSingle
<1>7. worth < 0
  <2>1. value < 0
    <3>1. MulPrecision(-b.bal[u][Settlement], price[Settlement]) > 0
      BY <1>2 DEF Visible
    <3>. QED
      BY <1>2, <3>1, DebtHasValue
  <2>. HIDE DEF value
  <2>. QED
    BY <2>1 DEF AfterHaircut
<1>. HIDE DEF worth
<1>. QED
  BY <1>3, <1>4, <1>5, <1>6, <1>7 DEF AboveInitialMargin

LEMMA DebtTypes ==
  ASSUME NEW rows \in [Accounts -> [Assets -> Int]], NEW held, NEW own
  PROVE  /\ \A u \in Users : Debts(held, own, rows)[u] \in Nat
         /\ DebtWith(held, own, rows) \in Nat
<1>1. \A u \in Users : rows[u][Settlement] \in Int
  BY DEF Accounts
<1>2. \A u \in Users : Debts(held, own, rows)[u] \in Nat
  BY <1>1 DEF Debts, Debt, Greatest
<1>3. \A u \in Users : Debts(held, own, rows)[u] \in Int /\ Debts(held, own, rows)[u] >= 0
  BY <1>2
<1>. QED
  BY <1>2, <1>3, SumType DEF DebtWith

\* Nobody comes to owe more.
LEMMA DebtLess ==
  ASSUME NEW rows \in [Accounts -> [Assets -> Int]], NEW rows2 \in [Accounts -> [Assets -> Int]],
         NEW held, NEW own, NEW held2, NEW own2,
         \A u \in Users : Debt(held2[u], own2[u], rows2[u]) <= Debt(held[u], own[u], rows[u])
  PROVE  DebtWith(held2, own2, rows2) <= DebtWith(held, own, rows)
<1>0. \A u \in Users : Debts(held2, own2, rows2)[u] \in Nat /\ Debts(held, own, rows)[u] \in Nat
  BY DebtTypes
<1>1. \A u \in Users : /\ Debts(held2, own2, rows2)[u] \in Int /\ Debts(held, own, rows)[u] \in Int
                       /\ Debts(held2, own2, rows2)[u] <= Debts(held, own, rows)[u]
  BY <1>0 DEF Debts
<1>. QED
  BY <1>1, SumLess DEF DebtWith

\* One account comes to owe n, and owed nothing.
LEMMA DebtGrows ==
  ASSUME NEW rows \in [Accounts -> [Assets -> Int]], NEW rows2 \in [Accounts -> [Assets -> Int]],
         NEW held, NEW own, NEW held2, NEW own2, NEW u \in Users, NEW n \in Nat,
         Debt(held[u], own[u], rows[u]) = 0, Debt(held2[u], own2[u], rows2[u]) <= n,
         \A v \in Users \ {u} : held2[v] = held[v] /\ own2[v] = own[v] /\ rows2[v] = rows[v]
  PROVE  DebtWith(held2, own2, rows2) <= DebtWith(held, own, rows) + n
<1>1. \A v \in Users : Debts(held2, own2, rows2)[v] \in Int /\ Debts(held, own, rows)[v] \in Int
  BY DebtTypes
<1>2. \A v \in Users \ {u} : Debts(held2, own2, rows2)[v] = Debts(held, own, rows)[v]
  BY DEF Debts
<1>3. Debts(held2, own2, rows2)[u] <= n /\ Debts(held, own, rows)[u] = 0
  BY DEF Debts
<1>4. DebtWith(held2, own2, rows2) = DebtWith(held, own, rows) + Debts(held2, own2, rows2)[u] - Debts(held, own, rows)[u]
  BY <1>1, <1>2, SumChange DEF DebtWith
<1>. QED
  BY <1>1, <1>3, <1>4, DebtTypes

LEMMA FillOwesNothing ==
  ASSUME ClearingInv, Quoting, DebtInv, NEW maker \in Users, NEW taker \in Users, NEW m \in Markets,
         NEW makerLong \in BOOLEAN, NEW makerReduces \in BOOLEAN, NEW takerReduces \in BOOLEAN,
         NEW size \in FillSizes, NEW px \in FillPrices,
         SettleFill(maker, taker, m, makerLong, makerReduces, takerReduces, size, px)
  PROVE  DebtInv'
<1>1. PICK c : Filled(book, c, maker, taker) /\ BecomesBook(c)
  BY FillStep
<1>2. badDebt' = badDebt /\ badDebt \in Nat
  BY FillStep DEF insurance, ClearingInv, CustodyTyped
<1>3. /\ bal \in [Accounts -> [Assets -> Int]] /\ c.bal \in [Accounts -> [Assets -> Int]] /\ c \in BookShape
      /\ c.synced = c.positions /\ userAssets \in [Users -> SUBSET Assets]
  BY <1>1 DEF Filled, Sound, BookShape, ClearingInv, BooksSound, CustodyTyped, book
<1>4. ASSUME NEW u \in Users
      PROVE  Debt(c.positions[u], userAssets[u], c.bal[u]) <= Debt(positions[u], userAssets[u], bal[u])
  <2>1. Debts(positions, userAssets, bal)[u] \in Nat /\ Debts(c.positions, userAssets, c.bal)[u] \in Nat
    BY <1>3, DebtTypes
  <2>2. Debt(positions[u], userAssets[u], bal[u]) \in Nat /\ Debt(c.positions[u], userAssets[u], c.bal[u]) \in Nat
    BY <2>1 DEF Debts
  <2>3. CASE u \notin {maker, taker}
    BY <1>1, <2>2, <2>3 DEF Filled, book
  <2>4. CASE u \in {maker, taker}
    <3>1. AboveInitialMargin(c, u)
      BY <1>1, <2>4 DEF Filled
    <3>2. c.bal[u][Settlement] \in Int
      BY <1>3 DEF Accounts
    <3>3. c.positions[u] = {} /\ userAssets[u] \subseteq {Settlement} /\ Visible(-c.bal[u][Settlement])
          => c.bal[u][Settlement] >= 0
      BY <1>3, <3>1, <3>2, FlatIsSolvent
    <3>4. Debt(c.positions[u], userAssets[u], c.bal[u]) = 0
      BY <3>2, <3>3 DEF Debt, Greatest
    <3>. QED
      BY <2>2, <3>4
  <2>. QED
    BY <2>3, <2>4
<1>5. DebtWith(c.positions, userAssets, c.bal) <= DebtWith(positions, userAssets, bal)
  BY <1>3, <1>4, DebtLess
<1>6. positions' = c.positions /\ bal' = c.bal /\ userAssets' = userAssets
  BY <1>1, FillStep DEF BecomesBook, custody
<1>7. DebtWith(positions, userAssets, bal) \in Int /\ DebtWith(c.positions, userAssets, c.bal) \in Int
  <2>1. DebtWith(positions, userAssets, bal) \in Nat
    BY <1>3, DebtTypes
  <2>2. DebtWith(c.positions, userAssets, c.bal) \in Nat
    BY <1>3, DebtTypes
  <2>. QED
    BY <2>1, <2>2
<1>. QED
  BY <1>2, <1>5, <1>6, <1>7 DEF DebtInv

\* A balance that changes while nobody's positions do.
LEMMA BalanceOwesNoMore ==
  ASSUME ClearingInv, ClearingInv', DebtInv, UNCHANGED <<positions, badDebt>>,
         \A u \in Users : userAssets[u] \subseteq userAssets'[u],
         \A u \in Users : bal'[u][Settlement] >= 0 \/ bal'[u][Settlement] >= bal[u][Settlement]
  PROVE  DebtInv'
<1>. DEFINE rows == bal'
            own == userAssets'
<1>1. bal \in [Accounts -> [Assets -> Int]] /\ rows \in [Accounts -> [Assets -> Int]] /\ badDebt \in Nat
  BY DEF ClearingInv, BooksSound, Sound, BookShape, CustodyTyped, book
<1>2. /\ \A u \in Users : rows[u][Settlement] >= 0 \/ rows[u][Settlement] >= bal[u][Settlement]
      /\ \A u \in Users : userAssets[u] \subseteq own[u]
  OBVIOUS
<1>. HIDE DEF rows, own
<1>3. \A u \in Users : bal[u] \in [Assets -> Int] /\ rows[u] \in [Assets -> Int]
  BY <1>1 DEF Accounts
<1>4. \A u \in Users : Debt(positions[u], own[u], rows[u]) <= Debt(positions[u], userAssets[u], bal[u])
  BY <1>2, <1>3, DebtShrinks
<1>5. DebtWith(positions, own, rows) <= DebtWith(positions, userAssets, bal)
  BY <1>1, <1>4, DebtLess
<1>6. DebtWith(positions, userAssets, bal) \in Int /\ DebtWith(positions, own, rows) \in Int
  BY <1>1, DebtTypes
<1>7. DebtWith(positions, own, rows) <= badDebt
  BY <1>1, <1>5, <1>6 DEF DebtInv
<1>. QED
  BY <1>7 DEF DebtInv, rows, own

LEMMA LiquidationOwesOnRecord ==
  ASSUME ClearingInv, Quoting, DebtInv, NEW l \in Liquidators, NEW u \in Users,
         NEW size \in FillSizes, NEW px \in FillPrices, NEW p \in positions[u], Liquidate(l, u, p, size, px)
  PROVE  DebtInv'
<1>1. PICK available \in Nat : \E b :
        /\ Moved(book, b, u, p.market, Signed(p.long, -size))
        /\ BecomesBook(Credited(b, u, Coverage(b, u, available)))
        /\ badDebt' = badDebt + Uncovered(b, u, available)
  BY LiquidateStep
<1>2. PICK b :
        /\ Moved(book, b, u, p.market, Signed(p.long, -size))
        /\ BecomesBook(Credited(b, u, Coverage(b, u, available)))
        /\ badDebt' = badDebt + Uncovered(b, u, available)
  BY <1>1
<1>. DEFINE covered == Coverage(b, u, available)
            rest == Uncovered(b, u, available)
            c == Credited(b, u, covered)
<1>3. /\ b \in BookShape /\ b.synced = b.positions /\ u \in Accounts
      /\ \A v \in Users \ {u} : b.positions[v] = positions[v] /\ b.bal[v] = bal[v]
  BY <1>2 DEF Moved, Sound, Accounts, book
<1>4. covered \in Nat /\ rest \in Nat
  BY <1>3, CoverageTypes
<1>5. /\ c \in BookShape /\ c.positions = b.positions /\ c.bal[u][Settlement] = b.bal[u][Settlement] + covered
      /\ \A v \in Users \ {u} : c.bal[v] = b.bal[v]
  <2>. HIDE DEF covered
  <2>1. Charged(b, c, u)
    BY <1>3, <1>4, CreditKeeps
  <2>2. c.bal[u][Settlement] = b.bal[u][Settlement] + covered
    BY <1>3 DEF Credited, BookShape
  <2>. QED
    BY <2>1, <2>2 DEF Charged, SameTrades, Accounts
<1>6. /\ bal \in [Accounts -> [Assets -> Int]] /\ c.bal \in [Accounts -> [Assets -> Int]]
      /\ userAssets \in [Users -> SUBSET Assets] /\ badDebt \in Nat
  BY <1>5 DEF BookShape, ClearingInv, BooksSound, Sound, CustodyTyped, book
<1>7. positions' = c.positions /\ bal' = c.bal /\ badDebt' = badDebt + rest /\ userAssets' = userAssets
  BY <1>2 DEF BecomesBook, Liquidate
<1>8. Debt(positions[u], userAssets[u], bal[u]) = 0
  BY DEF Debt
<1>9. Debt(c.positions[u], userAssets[u], c.bal[u]) <= rest
  <2>0. b.bal[u][Settlement] \in Int
    BY <1>3 DEF BookShape
  <2>1. CASE ~(b.positions[u] = {} /\ userAssets[u] \subseteq {Settlement} /\ Visible(-c.bal[u][Settlement]))
    BY <1>4, <1>5, <2>1 DEF Debt
  <2>2. CASE ~(c.bal[u][Settlement] < 0)
    <3>1. Debt(c.positions[u], userAssets[u], c.bal[u]) = 0
      BY <1>4, <1>5, <2>0, <2>2 DEF Debt, Greatest
    <3>. QED
      BY <1>4, <3>1
  <2>3. CASE /\ b.positions[u] = {} /\ userAssets[u] \subseteq {Settlement}
             /\ Visible(-c.bal[u][Settlement]) /\ c.bal[u][Settlement] < 0
    <3>. HIDE DEF covered, c
    <3>1. b.bal[u][Settlement] < 0 /\ Visible(-b.bal[u][Settlement])
      <4>1. /\ c.bal[u][Settlement] \in Int /\ b.bal[u][Settlement] < 0
            /\ 0 < -c.bal[u][Settlement] /\ -c.bal[u][Settlement] <= -b.bal[u][Settlement]
        BY <1>4, <1>5, <2>0, <2>3
      <4>. QED
        BY <2>0, <2>3, <4>1, VisibleGrows
    <3>2. Equity(b, u) \in Int /\ Equity(b, u) < 0
      <4>1. b.synced[u] = {}
        BY <1>3, <2>3
      <4>. QED
        BY <1>3, <2>3, <3>1, <4>1, FlatIsSolvent
    <3>3. rest = -b.bal[u][Settlement] - covered
      BY <2>0, <3>1, <3>2 DEF Uncovered, covered
    <3>. HIDE DEF rest
    <3>. QED
      BY <1>4, <1>5, <2>0, <2>3, <3>3 DEF Debt, Greatest
  <2>. QED
    BY <2>1, <2>2, <2>3
<1>. HIDE DEF covered, c, rest
<1>10. DebtWith(c.positions, userAssets, c.bal) <= DebtWith(positions, userAssets, bal) + rest
  <2>1. \A v \in Users \ {u} : c.positions[v] = positions[v] /\ c.bal[v] = bal[v]
    BY <1>3, <1>5
  <2>2. bal \in [Accounts -> [Assets -> Int]] /\ c.bal \in [Accounts -> [Assets -> Int]] /\ rest \in Nat
    BY <1>4, <1>6
  <2>. QED
    BY <1>8, <1>9, <2>1, <2>2, DebtGrows
<1>11. DebtWith(positions, userAssets, bal) \in Nat
  BY <1>6, DebtTypes
<1>12. DebtWith(c.positions, userAssets, c.bal) \in Nat
  BY <1>6, DebtTypes
<1>. QED
  BY <1>4, <1>6, <1>7, <1>10, <1>11, <1>12 DEF DebtInv

LEMMA DebtKept ==
  ASSUME ClearingInv, ClearingInv', Quoting, DebtInv, [Next]_vars
  PROVE  DebtInv'
<1>0. /\ bal \in [Accounts -> [Assets -> Int]] /\ \A u \in Users : u \in Accounts
      /\ userAssets \in [Users -> SUBSET Assets]
  BY DEF ClearingInv, BooksSound, Sound, BookShape, CustodyTyped, book, Accounts
<1>1. CASE \E maker, taker \in Users, m \in Markets, makerLong \in BOOLEAN,
              makerReduces, takerReduces \in BOOLEAN, size \in FillSizes, px \in FillPrices :
              SettleFill(maker, taker, m, makerLong, makerReduces, takerReduces, size, px)
  BY <1>1, FillOwesNothing
<1>2. CASE \E l \in Liquidators, u \in Users, size \in FillSizes, px \in FillPrices :
              \E p \in positions[u] : Liquidate(l, u, p, size, px)
  BY <1>2, LiquidationOwesOnRecord
<1>3. ASSUME NEW u \in Users, NEW a \in Assets, NEW n \in Deposits, Deposit(u, a, n)
      PROVE  DebtInv'
  <2>1. /\ bal' = [bal EXCEPT ![u][a] = @ + n] /\ n \in Nat
        /\ userAssets' = [userAssets EXCEPT ![u] = @ \cup {a}]
    BY <1>3 DEF Deposit
  <2>2. ASSUME NEW v \in Users
        PROVE  bal'[v][Settlement] >= bal[v][Settlement] /\ userAssets[v] \subseteq userAssets'[v]
    <3>1. bal[v][Settlement] \in Int
      BY <1>0
    <3>2. bal'[v][Settlement] = bal[v][Settlement] \/ bal'[v][Settlement] = bal[v][Settlement] + n
      BY <1>0, <2>1
    <3>. QED
      BY <1>0, <2>1, <3>1, <3>2
  <2>. QED
    BY <1>3, <2>2, BalanceOwesNoMore DEF Deposit, insurance
<1>4. ASSUME NEW u \in Users, NEW a \in Assets, NEW n \in Withdrawals, Withdraw(u, a, n)
      PROVE  DebtInv'
  <2>1. /\ bal' = [bal EXCEPT ![u][a] = @ - n] /\ n \in Nat /\ bal[u][a] >= n /\ userAssets' = userAssets
    BY <1>4 DEF Withdraw
  <2>2. ASSUME NEW v \in Users
        PROVE  bal'[v][Settlement] >= 0 \/ bal'[v][Settlement] >= bal[v][Settlement]
    <3>1. bal[v][Settlement] \in Int
      BY <1>0
    <3>2. \/ bal'[v][Settlement] = bal[v][Settlement]
          \/ v = u /\ a = Settlement /\ bal'[v][Settlement] = bal[v][Settlement] - n
      BY <1>0, <2>1
    <3>. QED
      BY <2>1, <3>1, <3>2
  <2>. QED
    BY <1>4, <2>1, <2>2, BalanceOwesNoMore DEF Withdraw, insurance
<1>5. ASSUME NEW m \in Markets, UpdateFunding(m)
      PROVE  DebtInv'
  <2>1. PICK c : BecomesBook(c) /\ (c = book \/ c \in ApplyPnl(book, InsuranceAccount, FundingSurplus(m)))
    BY <1>5 DEF UpdateFunding
  <2>2. InsuranceAccount \in Accounts /\ InsuranceAccount \notin Users /\ FundingSurplus(m) \in Int /\ book \in BookShape
    BY IndexDeltaType DEF Accounts, ClearingInv, BooksSound, Sound
  <2>3. c = book \/ Charged(book, c, InsuranceAccount)
    BY <2>1, <2>2, Paid
  <2>4. positions' = positions /\ \A v \in Users : bal'[v] = bal[v]
    BY <1>0, <2>1, <2>2, <2>3 DEF BecomesBook, Charged, SameTrades, book
  <2>5. \A v \in Users : bal'[v][Settlement] >= bal[v][Settlement]
    BY <1>0, <2>4
  <2>. QED
    BY <1>5, <2>4, <2>5, BalanceOwesNoMore DEF UpdateFunding, insurance, custody
<1>6. CASE \/ EmergencyPause \/ Unpause \/ OracleRound \/ UNCHANGED vars
           \/ \E f \in Funders, n \in Deposits : InsuranceDeposit(f, n)
  <2>1. UNCHANGED <<positions, bal, badDebt, userAssets>>
    BY <1>6 DEF EmergencyPause, Unpause, OracleRound, vars, bookVars, insurance, custody, InsuranceDeposit
  <2>2. \A v \in Users : bal'[v][Settlement] >= bal[v][Settlement]
    BY <1>0, <2>1
  <2>. QED
    BY <2>1, <2>2, BalanceOwesNoMore
<1>. QED
  BY <1>1, <1>2, <1>3, <1>4, <1>5, <1>6 DEF Next

\* What accounts without positions owe is covered by the insurance fund or recorded as bad debt, whatever
\* the quotes: absorb_bad_debt misses no deficit that a liquidation leaves and the vault sees, fills leave
\* none, and withdrawals take no more than there is.
THEOREM FlatDebtOnRecord == Spec => []FlatDebtRecorded
<1>1. Init => Quoting /\ DebtInv
  <2> SUFFICES ASSUME Init
               PROVE  Quoting /\ DebtInv
    OBVIOUS
  <2>1. Quoting /\ badDebt = 0
    BY DEF Init, Quoting
  <2>2. \A u \in Users : Debts(positions, userAssets, bal)[u] = 0
    <3>1. \A u \in Users : bal[u][Settlement] = 0
      BY DEF Init, Accounts
    <3>. QED
      BY <3>1 DEF Debts, Debt, Greatest
  <2>3. DebtWith(positions, userAssets, bal) = 0
    BY <2>2, SumZero DEF DebtWith
  <2>. QED
    BY <2>1, <2>3 DEF DebtInv
<1>2. ClearingInv /\ ClearingInv' /\ Quoting /\ DebtInv /\ [Next]_vars => Quoting' /\ DebtInv'
  BY QuotingKept, DebtKept
<1>3. DebtInv => FlatDebtRecorded
  <2>1. DebtWith(positions, userAssets, bal)
          = SumFunction([u \in Users |-> FlatDebt(u)])
    BY Zenon DEF DebtWith, Debts, Debt, FlatDebt, SumFunction
  <2>. QED
    BY <2>1 DEF DebtInv, FlatDebtRecorded
<1>. QED
  BY <1>1, <1>2, <1>3, ClearingInvariant, PTL DEF Spec
-----------------------------------------------------------------------------
(* Margin after a withdrawal. *)

\* The value that taking n from b takes, against the value of n.
LEMMA ValueTaken ==
  ASSUME NEW b \in Nat, NEW n \in Nat, n <= b, NEW x \in Nat
  PROVE  /\ MulPrecision(b, x) \in Nat /\ MulPrecision(b - n, x) \in Nat /\ MulPrecision(n, x) \in Nat
         /\ MulPrecision(b - n, x) <= MulPrecision(b, x)
         /\ MulPrecision(b, x) <= MulPrecision(b - n, x) + MulPrecision(n, x) + 1
<1>. DEFINE c == b - n
<1>0. c \in Nat /\ b = c + n
  OBVIOUS
<1>. HIDE DEF c
<1>. DEFINE kept == c * x
            gone == n * x
<1>1. kept \in Nat /\ gone \in Nat /\ b * x = kept + gone
  BY <1>0
<1>2. MulPrecision(b, x) = (b * x) \div Precision /\ MulPrecision(n, x) = gone \div Precision
  BY MulDivFloor DEF MulPrecision
<1>3. MulPrecision(c, x) = kept \div Precision
  BY <1>0, MulDivFloor DEF MulPrecision
<1>. HIDE DEF kept, gone
<1>4. kept <= kept + gone /\ kept + gone \in Nat
  BY <1>1
<1>5. kept \div Precision <= (kept + gone) \div Precision
  BY <1>1, <1>4, FloorGrows
<1>6. (kept + gone) \div Precision <= kept \div Precision + gone \div Precision + 1
  BY <1>1, FloorSplits
<1>7. kept \div Precision \in Nat /\ gone \div Precision \in Nat /\ (kept + gone) \div Precision \in Nat
  BY <1>1, <1>4, Floor
<1>. QED
  BY <1>0, <1>1, <1>2, <1>3, <1>5, <1>6, <1>7 DEF c

\* A haircut takes no more from less.
LEMMA HaircutShrinks ==
  ASSUME NEW v \in Nat, NEW w \in Nat, w <= v, NEW h \in Nat
  PROVE  /\ AfterHaircut(v, h) \in Int /\ AfterHaircut(w, h) \in Int
         /\ AfterHaircut(v, h) - AfterHaircut(w, h) <= v - w
<1>0. BpsDenominator \in Nat \ {0}
  BY DEF BpsDenominator
<1>1. AfterHaircut(v, h) = v - (v * h) \div BpsDenominator
  <2>1. ~(v < 0)
    OBVIOUS
  <2>. QED
    BY <1>0, <2>1, MulDivFloor DEF AfterHaircut, ApplyBps
<1>2. AfterHaircut(w, h) = w - (w * h) \div BpsDenominator
  <2>1. ~(w < 0)
    OBVIOUS
  <2>. QED
    BY <1>0, <2>1, MulDivFloor DEF AfterHaircut, ApplyBps
<1>. DEFINE m == w * h
            n == v * h
            k == v - w
<1>3. m \in Nat /\ n \in Nat /\ m <= n
  <2>1. k \in Nat /\ v = w + k
    OBVIOUS
  <2>. HIDE DEF k
  <2>2. k * h \in Nat /\ w * h \in Nat /\ v * h = w * h + k * h
    BY <2>1
  <2>. QED
    BY <2>2
<1>. HIDE DEF m, n
<1>4. m \div BpsDenominator <= n \div BpsDenominator
  BY <1>0, <1>3, FloorGrows
<1>5. m \div BpsDenominator \in Nat /\ n \div BpsDenominator \in Nat
  BY <1>0, <1>3, Floor
<1>. DEFINE p == m \div BpsDenominator
            q == n \div BpsDenominator
<1>6. p \in Nat /\ q \in Nat /\ p <= q
  BY <1>4, <1>5
<1>7. AfterHaircut(v, h) = v - q /\ AfterHaircut(w, h) = w - p
  BY <1>1, <1>2 DEF m, n
<1>. HIDE DEF p, q
<1>. QED
  BY <1>6, <1>7

\* What a row of balances is worth as collateral.
AssetWorth(row, a) == AfterHaircut(MulPrecision(row[a], price[a]), Haircut[a])
Worths(row, S) == [a \in S |-> AssetWorth(row, a)]

LEMMA WorthType ==
  ASSUME OracleTyped, NEW S \in SUBSET Assets, IsFiniteSet(S), NEW row \in [Assets -> Int]
  PROVE  /\ \A a \in S : Worths(row, S)[a] \in Int
         /\ SumFunctionOnSet(Worths(row, S), S) \in Int
<1>1. ASSUME NEW a \in S
      PROVE  AssetWorth(row, a) \in Int
  <2>. DEFINE v == MulPrecision(row[a], price[a])
  <2>1. row[a] \in Int /\ price[a] \in Int /\ Haircut[a] \in Int
    BY DEF OracleTyped, Feeds
  <2>2. v \in Int
    BY <2>1, FixedTypes
  <2>. HIDE DEF v
  <2>3. ApplyBps(v, Haircut[a]) \in Int
    BY <2>1, <2>2, FixedTypes
  <2>4. AfterHaircut(v, Haircut[a]) \in Int
    BY <2>2, <2>3 DEF AfterHaircut
  <2>. QED
    BY <2>4 DEF AssetWorth, v
<1>2. \A a \in S : Worths(row, S)[a] \in Int
  BY <1>1 DEF Worths
<1>. QED
  BY <1>2, SumType

\* A withdrawal takes no more worth than the value it is checked against, and one unit.
LEMMA WorthTaken ==
  ASSUME OracleTyped, NEW S \in SUBSET Assets, IsFiniteSet(S), NEW row \in [Assets -> Int],
         NEW a \in Assets, NEW n \in Nat, n <= row[a],
         NEW left \in [Assets -> Int], left = [row EXCEPT ![a] = @ - n]
  PROVE  SumFunctionOnSet(Worths(left, S), S) + 1
           >= SumFunctionOnSet(Worths(row, S), S) - MulPrecision(n, price[a])
<1>. DEFINE f == Worths(row, S)
            g == Worths(left, S)
            b == row[a]
            v == MulPrecision(b, price[a])
            w == MulPrecision(b - n, price[a])
            taken == MulPrecision(n, price[a])
<1>1. b \in Nat /\ price[a] \in Nat /\ Haircut[a] \in Nat /\ n <= b
  BY DEF OracleTyped, Feeds
<1>2. v \in Nat /\ w \in Nat /\ taken \in Nat /\ w <= v /\ v <= w + taken + 1
  BY <1>1, ValueTaken
<1>3. SumFunctionOnSet(f, S) \in Int /\ SumFunctionOnSet(g, S) \in Int
      /\ \A x \in S : f[x] \in Int /\ g[x] \in Int
  BY WorthType
<1>4. \A x \in S \ {a} : g[x] = f[x]
  BY DEF Worths, AssetWorth
<1>5. CASE a \notin S
  <2>1. SumFunctionOnSet(g, S) = SumFunctionOnSet(f, S)
    <3>1. \A x \in S : g[x] = f[x]
      BY <1>4, <1>5
    <3>. HIDE DEF f, g
    <3>. QED
      BY <3>1, SumSame
  <2>. HIDE DEF f, g, v, w, taken
  <2>2. SumFunctionOnSet(g, S) + 1 >= SumFunctionOnSet(f, S) - taken
    BY <1>2, <1>3, <2>1
  <2>. QED
    BY <2>2 DEF f, g, taken
<1>6. CASE a \in S
  <2>1. f[a] = AfterHaircut(v, Haircut[a]) /\ g[a] = AfterHaircut(w, Haircut[a])
    BY <1>6 DEF Worths, AssetWorth
  <2>. HIDE DEF f, g
  <2>2. SumFunctionOnSet(g, S) = SumFunctionOnSet(f, S) + g[a] - f[a]
    BY <1>3, <1>4, <1>6, SumChange
  <2>. HIDE DEF v, w, taken
  <2>3. f[a] \in Int /\ g[a] \in Int /\ f[a] - g[a] <= v - w
    BY <1>1, <1>2, <2>1, HaircutShrinks
  <2>4. SumFunctionOnSet(g, S) + 1 >= SumFunctionOnSet(f, S) - taken
    BY <1>2, <1>3, <2>2, <2>3
  <2>. QED
    BY <2>4 DEF f, g, taken
<1>. QED
  BY <1>5, <1>6

\* The settlement asset apart, an account has a balance only in assets it once deposited.
Holdings ==
  \A u \in Users : /\ IsFiniteSet(userAssets[u])
                   /\ \A a \in Assets \ {Settlement} : bal[u][a] # 0 => a \in userAssets[u]

LEMMA HoldingsKept ==
  ASSUME ClearingInv, Holdings, [Next]_vars
  PROVE  Holdings'
<1>0. bal \in [Accounts -> [Assets -> Int]] /\ userAssets \in [Users -> SUBSET Assets]
      /\ \A v \in Users : v \in Accounts
  BY DEF ClearingInv, BooksSound, Sound, BookShape, book, Accounts, CustodyTyped
<1>1. ASSUME NEW c, InSettlement(book, c), bal' = c.bal, UNCHANGED userAssets
      PROVE  Holdings'
  BY <1>0, <1>1 DEF InSettlement, Holdings, book
<1>2. CASE \E maker, taker \in Users, m \in Markets, makerLong \in BOOLEAN,
              makerReduces, takerReduces \in BOOLEAN, size \in FillSizes, px \in FillPrices :
              SettleFill(maker, taker, m, makerLong, makerReduces, takerReduces, size, px)
  <2>1. (\E c, maker, taker : Filled(book, c, maker, taker) /\ BecomesBook(c)) /\ UNCHANGED userAssets
    BY <1>2, FillStep DEF custody
  <2>2. PICK c, maker, taker : Filled(book, c, maker, taker) /\ BecomesBook(c)
    BY <2>1
  <2>. QED
    BY <1>1, <2>1, <2>2 DEF Filled, BecomesBook
<1>3. CASE \E l \in Liquidators, u \in Users, size \in FillSizes, px \in FillPrices :
              \E p \in positions[u] : Liquidate(l, u, p, size, px)
  <2>1. PICK l \in Liquidators, u \in Users, size \in FillSizes, px \in FillPrices :
              \E p \in positions[u] : Liquidate(l, u, p, size, px)
    BY <1>3
  <2>2. PICK p \in positions[u] : Liquidate(l, u, p, size, px)
    BY <2>1
  <2>3. PICK available \in Nat : \E b :
          /\ Moved(book, b, u, p.market, Signed(p.long, -size))
          /\ BecomesBook(Credited(b, u, Coverage(b, u, available)))
    BY <2>2, LiquidateStep
  <2>4. PICK b :
          /\ Moved(book, b, u, p.market, Signed(p.long, -size))
          /\ BecomesBook(Credited(b, u, Coverage(b, u, available)))
    BY <2>3
  <2>. DEFINE c == Credited(b, u, Coverage(b, u, available))
  <2>5. b \in BookShape /\ u \in Accounts /\ Coverage(b, u, available) \in Int
    BY <2>4, CoverageTypes DEF Moved, Sound, Accounts
  <2>6. Charged(b, c, u)
    BY <2>5, CreditKeeps
  <2>7. InSettlement(book, c)
    BY <2>4, <2>6 DEF Moved, Charged, InSettlement
  <2>8. bal' = c.bal /\ UNCHANGED userAssets
    BY <2>4, <2>2 DEF BecomesBook, Liquidate
  <2>. HIDE DEF c
  <2>. QED
    BY <1>1, <2>7, <2>8
<1>4. ASSUME NEW u \in Users, NEW a \in Assets, NEW n \in Deposits, Deposit(u, a, n)
      PROVE  Holdings'
  <2>1. userAssets' = [userAssets EXCEPT ![u] = @ \cup {a}]
    BY <1>4 DEF Deposit
  <2>2. \A v \in Users : userAssets'[v] = userAssets[v] \/ userAssets'[v] = userAssets[v] \cup {a}
    BY <1>0, <2>1
  <2>3. ASSUME NEW v \in Users
        PROVE  IsFiniteSet(userAssets'[v])
    <3>1. IsFiniteSet(userAssets[v]) /\ IsFiniteSet(userAssets[v] \cup {a})
      BY FS_AddElement DEF Holdings
    <3>. QED
      BY <2>2, <3>1
  <2>4. ASSUME NEW v \in Users, NEW x \in Assets \ {Settlement}, bal'[v][x] # 0
        PROVE  x \in userAssets'[v]
    <3>1. bal' = [bal EXCEPT ![u][a] = @ + n]
      BY <1>4 DEF Deposit
    <3>2. CASE v = u /\ x = a
      BY <1>0, <2>1, <3>2
    <3>3. CASE ~(v = u /\ x = a)
      <4>1. bal'[v][x] = bal[v][x]
        BY <1>0, <3>1, <3>3
      <4>. QED
        BY <2>2, <2>4, <4>1 DEF Holdings
    <3>. QED
      BY <3>2, <3>3
  <2>. QED
    BY <2>3, <2>4 DEF Holdings
<1>5. ASSUME NEW u \in Users, NEW a \in Assets, NEW n \in Withdrawals, Withdraw(u, a, n)
      PROVE  Holdings'
  <2>1. bal' = [bal EXCEPT ![u][a] = @ - n] /\ UNCHANGED userAssets /\ n > 0 /\ bal[u][a] >= n /\ n \in Nat
    BY <1>5 DEF Withdraw
  <2>2. \A v \in Users, x \in Assets : bal'[v][x] # 0 => bal[v][x] # 0
    <3>1. bal[u][a] \in Int /\ bal[u][a] # 0
      BY <1>0, <2>1
    <3>2. \A v \in Users, x \in Assets : bal'[v][x] = bal[v][x] \/ (v = u /\ x = a)
      BY <1>0, <2>1
    <3>. QED
      BY <3>1, <3>2
  <2>. QED
    BY <2>1, <2>2 DEF Holdings
<1>6. ASSUME NEW m \in Markets, UpdateFunding(m)
      PROVE  Holdings'
  <2>1. PICK c : BecomesBook(c) /\ (c = book \/ c \in ApplyPnl(book, InsuranceAccount, FundingSurplus(m)))
    BY <1>6 DEF UpdateFunding
  <2>2. InsuranceAccount \in Accounts /\ FundingSurplus(m) \in Int /\ book \in BookShape
    BY IndexDeltaType DEF Accounts, ClearingInv, BooksSound, Sound
  <2>3. InSettlement(book, c)
    BY <2>1, <2>2, Paid DEF Charged, InSettlement
  <2>. QED
    BY <1>1, <1>6, <2>1, <2>3 DEF BecomesBook, UpdateFunding, custody
<1>7. CASE \/ EmergencyPause \/ Unpause \/ OracleRound \/ UNCHANGED vars
           \/ \E f \in Funders, n \in Deposits : InsuranceDeposit(f, n)
  <2>1. UNCHANGED <<bal, userAssets>>
    BY <1>7 DEF EmergencyPause, Unpause, OracleRound, vars, bookVars, custody, InsuranceDeposit
  <2>. QED
    BY <2>1 DEF Holdings
<1>. QED
  BY <1>2, <1>3, <1>4, <1>5, <1>6, <1>7 DEF Next

\* The unrealised PnL and the initial margin of what an account holds.
HeldPnl(held) == SumFunction([p \in held |-> UnrealizedPnl(p)])
HeldMargin(held) ==
  SumFunction([p \in held |-> ApplyBps(Notional(p.size, price[p.market]), Market[p.market].initial)])

LEMMA HeldTyped ==
  ASSUME IndexesAgree, OracleTyped, NEW held \in SUBSET Position, IsFiniteSet(held)
  PROVE  HeldPnl(held) \in Int /\ HeldMargin(held) \in Int
<1>1. ASSUME NEW p \in held
      PROVE  UnrealizedPnl(p) \in Int
  <2>. DEFINE index == IF p.long THEN vaultFunding[p.market].long ELSE vaultFunding[p.market].short
  <2>1. /\ p.long \in BOOLEAN /\ p.size \in Int /\ p.entry \in Int /\ p.index \in Int /\ p.market \in Markets
        /\ price[p.market] \in Int
    BY DEF Position, OracleTyped, Feeds
  <2>2. index \in Int
    BY <2>1 DEF IndexesAgree
  <2>3. PricePnl(p.long, p.size, p.entry, price[p.market]) \in Int
    BY <2>1, PnlTypes
  <2>4. UnrealizedPnl(p) = PricePnl(p.long, p.size, p.entry, price[p.market]) + FundingPnl(p.size, p.index, index)
    BY Zenon DEF UnrealizedPnl
  <2>. HIDE DEF index
  <2>5. FundingPnl(p.size, p.index, index) \in Int
    BY <2>1, <2>2, PnlTypes
  <2>. QED
    BY <2>3, <2>4, <2>5
<1>2. HeldPnl(held) \in Int
  <2>. DEFINE f == [p \in held |-> UnrealizedPnl(p)]
  <2>1. HeldPnl(held) = SumFunctionOnSet(f, held)
    BY Zenon DEF HeldPnl, SumFunction
  <2>2. \A p \in held : f[p] \in Int
    BY <1>1
  <2>. HIDE DEF f
  <2>. QED
    BY <2>1, <2>2, SumType
<1>3. ASSUME NEW p \in held
      PROVE  ApplyBps(Notional(p.size, price[p.market]), Market[p.market].initial) \in Int
  <2>1. /\ p.size \in Nat /\ p.market \in Markets
        /\ price[p.market] \in Nat /\ Market[p.market].initial \in Nat
    BY DEF Position, OracleTyped, Feeds, MarketType
  <2>2. Notional(p.size, price[p.market]) \in Nat
    BY <2>1, FixedTypes
  <2>3. ApplyBps(Notional(p.size, price[p.market]), Market[p.market].initial) \in Nat
    BY <2>1, <2>2, FixedTypes
  <2>. QED
    BY <2>3
<1>4. HeldMargin(held) \in Int
  <2>. DEFINE f == [p \in held |-> ApplyBps(Notional(p.size, price[p.market]), Market[p.market].initial)]
  <2>1. HeldMargin(held) = SumFunctionOnSet(f, held)
    BY Zenon DEF HeldMargin, SumFunction
  <2>2. \A p \in held : f[p] \in Int
    BY <1>3
  <2>. HIDE DEF f
  <2>. QED
    BY <2>1, <2>2, SumType
<1>. QED
  BY <1>2, <1>4

\* Equity and margin of an account, by their parts.
LEMMA EquityParts ==
  ASSUME NEW u, NEW a
  PROVE  /\ EquityIn(book, u, a) = SumFunctionOnSet(Worths(bal[u], CountedAssets(u, a)), CountedAssets(u, a))
                                   + HeldPnl(synced[u])
         /\ InitialMargin(book, u) = HeldMargin(synced[u])
<1>1. book.bal = bal /\ book.synced = synced
  BY DEF book
<1>2. InitialMargin(book, u) = HeldMargin(synced[u])
  BY <1>1, Zenon DEF InitialMargin, HeldMargin
<1>3. CollateralValue(book, u, a)
        = SumFunctionOnSet(Worths(bal[u], CountedAssets(u, a)), CountedAssets(u, a))
  BY <1>1, Zenon DEF CollateralValue, Worths, AssetWorth, SumFunction
<1>4. EquityIn(book, u, a) = CollateralValue(book, u, a) + HeldPnl(synced[u])
  BY <1>1, Zenon DEF EquityIn, HeldPnl
<1>. QED
  BY <1>2, <1>3, <1>4

\* What an account has and needs are numbers.
HealthTyped == \A u \in Users : Equity(book, u) \in Int /\ InitialMargin(book, u) \in Int

LEMMA CountedFinite ==
  ASSUME CustodyTyped, Holdings, NEW u \in Users, NEW a \in Assets
  PROVE  CountedAssets(u, a) \in SUBSET Assets /\ IsFiniteSet(CountedAssets(u, a))
<1>1. IsFiniteSet({a}) /\ IsFiniteSet(userAssets[u]) /\ userAssets[u] \in SUBSET Assets
  BY FS_Singleton DEF Holdings, CustodyTyped
<1>. QED
  BY <1>1 DEF CountedAssets

LEMMA HealthIsTyped ==
  ASSUME ClearingInv, Holdings
  PROVE  HealthTyped
<1> SUFFICES ASSUME NEW u \in Users
             PROVE  Equity(book, u) \in Int /\ InitialMargin(book, u) \in Int
  BY DEF HealthTyped
<1>. DEFINE S == CountedAssets(u, Settlement)
<1>1. S \in SUBSET Assets /\ IsFiniteSet(S)
  BY CountedFinite DEF ClearingInv
<1>2. bal[u] \in [Assets -> Int] /\ synced[u] \in SUBSET Position /\ IsFiniteSet(synced[u])
  BY DEF ClearingInv, BooksSound, Sound, Separate, BookShape, book, Accounts
<1>3. SumFunctionOnSet(Worths(bal[u], S), S) \in Int
  BY <1>1, <1>2, WorthType DEF ClearingInv
<1>4. HeldPnl(synced[u]) \in Int /\ HeldMargin(synced[u]) \in Int
  BY <1>2, HeldTyped DEF ClearingInv
<1>5. /\ Equity(book, u) = SumFunctionOnSet(Worths(bal[u], S), S) + HeldPnl(synced[u])
      /\ InitialMargin(book, u) = HeldMargin(synced[u])
  BY EquityParts DEF Equity
<1>. HIDE DEF S
<1>. QED
  BY <1>3, <1>4, <1>5

\* A withdrawal moves the balances of an account and nothing else of its equity.
LEMMA EquityAfter ==
  ASSUME NEW u, UNCHANGED <<price, vaultFunding, userAssets, synced>>
  PROVE  LET S == CountedAssets(u, Settlement)
         IN  /\ Equity(book, u)' = SumFunctionOnSet(Worths(bal'[u], S), S) + HeldPnl(synced[u])
             /\ InitialMargin(book, u)' = HeldMargin(synced[u])
<1>. DEFINE S == CountedAssets(u, Settlement)
<1>1. book'.bal = bal' /\ book'.synced = synced
  BY DEF book
<1>2. InitialMargin(book, u)' = HeldMargin(synced[u])
  BY <1>1, Zenon DEF InitialMargin, HeldMargin
<1>3. HeldPnl(synced[u])' = HeldPnl(synced[u])
  BY Zenon DEF HeldPnl, UnrealizedPnl
<1>4. S' = S
  BY DEF CountedAssets
<1>5. CollateralValue(book, u, Settlement)' = SumFunctionOnSet(Worths(bal'[u], S), S)
  BY <1>1, <1>4, Zenon DEF CollateralValue, Worths, AssetWorth, SumFunction
<1>6. Equity(book, u)' = CollateralValue(book, u, Settlement)' + HeldPnl(synced[u])'
  BY <1>1, Zenon DEF Equity, EquityIn, HeldPnl
<1>. QED
  BY <1>2, <1>3, <1>5, <1>6

\* validate_withdrawal takes the amount off the equity at its rounded value; the
\* balance it leaves is valued again, and may round to one unit less.
LEMMA WithdrawalKeepsMargin ==
  ASSUME ClearingInv, Holdings, NEW u \in Users, NEW a \in Assets, NEW n \in Withdrawals, Withdraw(u, a, n)
  PROVE  Equity(book, u)' + 1 >= InitialMargin(book, u)'
<1>. DEFINE S == CountedAssets(u, Settlement)
            row == bal[u]
            left == [row EXCEPT ![a] = @ - n]
            pnl == HeldPnl(synced[u])
            margin == HeldMargin(synced[u])
            taken == MulPrecision(n, price[a])
<1>1. /\ bal \in [Accounts -> [Assets -> Int]] /\ u \in Accounts /\ n \in Nat /\ row \in [Assets -> Int]
      /\ synced[u] \in SUBSET Position /\ IsFiniteSet(synced[u])
  BY DEF ClearingInv, BooksSound, Sound, Separate, BookShape, book, Accounts
<1>2. /\ n > 0 /\ row[a] >= n /\ bal' = [bal EXCEPT ![u][a] = @ - n]
      /\ EquityIn(book, u, a) - taken >= InitialMargin(book, u)
      /\ UNCHANGED <<price, vaultFunding, userAssets, synced>>
  BY DEF Withdraw, MayWithdraw, fundingVars
<1>3. CountedAssets(u, a) = S
  <2>1. row[a] # 0
    BY <1>1, <1>2
  <2>2. a = Settlement \/ a \in userAssets[u]
    BY <2>1 DEF Holdings
  <2>. QED
    BY <2>2 DEF CountedAssets
<1>4. EquityIn(book, u, a) = SumFunctionOnSet(Worths(row, S), S) + pnl /\ InitialMargin(book, u) = margin
  BY <1>3, EquityParts
<1>5. Equity(book, u)' = SumFunctionOnSet(Worths(bal'[u], S), S) + pnl /\ InitialMargin(book, u)' = margin
  BY <1>2, EquityAfter
<1>6. bal'[u] = left /\ left \in [Assets -> Int]
  BY <1>1, <1>2
<1>7. pnl \in Int /\ margin \in Int
  BY <1>1, HeldTyped DEF ClearingInv
<1>8. S \in SUBSET Assets /\ IsFiniteSet(S)
  BY CountedFinite DEF ClearingInv
<1>9. SumFunctionOnSet(Worths(row, S), S) \in Int /\ SumFunctionOnSet(Worths(left, S), S) \in Int
  <2>. HIDE DEF S, left
  <2>. QED
    BY <1>1, <1>6, <1>8, WorthType DEF ClearingInv
<1>10. taken \in Int
  BY <1>1, FixedTypes DEF ClearingInv, OracleTyped, Feeds
<1>11. SumFunctionOnSet(Worths(left, S), S) + 1 >= SumFunctionOnSet(Worths(row, S), S) - taken
  <2>1. OracleTyped
    BY DEF ClearingInv
  <2>2. n <= row[a]
    BY <1>1, <1>2
  <2>. HIDE DEF S
  <2>. QED
    BY <1>1, <1>6, <1>8, <2>1, <2>2, WorthTaken
<1>. HIDE DEF S, row, left, pnl, margin, taken
<1>. QED
  BY <1>2, <1>4, <1>5, <1>6, <1>7, <1>9, <1>10, <1>11

\* What a step takes from an account: positions, or collateral.
TakesFrom(u) == positions'[u] # positions[u] \/ \E a \in Assets : bal'[u][a] < bal[u][a]

\* Only three calls do, each on an account of its own.
LEMMA WhoTakes ==
  ASSUME ClearingInv, [Next]_vars, NEW u \in Users, TakesFrom(u)
  PROVE  \/ AboveInitialMargin(book, u)'
         \/ \E a \in Assets, n \in Withdrawals : Withdraw(u, a, n)
         \/ Liquidators # {} /\ Liquidatable(book, u)
<1>0. /\ bal \in [Accounts -> [Assets -> Int]] /\ positions \in [Users -> SUBSET Position]
      /\ \A v \in Users : v \in Accounts
  BY DEF ClearingInv, BooksSound, Sound, BookShape, book, Accounts
<1>1. ~(positions'[u] = positions[u] /\ bal'[u] = bal[u])
  <2>1. \A a \in Assets : ~(bal[u][a] < bal[u][a])
    BY <1>0
  <2>. QED
    BY <2>1 DEF TakesFrom
<1>2. ASSUME NEW maker \in Users, NEW taker \in Users, NEW m \in Markets, NEW makerLong \in BOOLEAN,
             NEW makerReduces \in BOOLEAN, NEW takerReduces \in BOOLEAN, NEW size \in FillSizes, NEW px \in FillPrices,
             SettleFill(maker, taker, m, makerLong, makerReduces, takerReduces, size, px)
      PROVE  AboveInitialMargin(book, u)'
  <2>1. PICK c : Filled(book, c, maker, taker) /\ BecomesBook(c)
    BY <1>2, FillStep
  <2>2. UNCHANGED <<price, vaultFunding, userAssets>>
    BY <1>2, FillStep DEF fundingVars, custody
  <2>3. u \in {maker, taker}
    BY <1>1, <2>1 DEF Filled, BecomesBook, book
  <2>4. c \in BookShape /\ AboveInitialMargin(c, u)
    BY <2>1, <2>3 DEF Filled, Sound
  <2>. QED
    BY <2>1, <2>2, <2>4, HealthMoves
<1>3. ASSUME NEW l \in Liquidators, NEW v \in Users, NEW size \in FillSizes, NEW px \in FillPrices,
             NEW p \in positions[v], Liquidate(l, v, p, size, px)
      PROVE  Liquidatable(book, u)
  <2>1. PICK available \in Nat : \E b :
          /\ Moved(book, b, v, p.market, Signed(p.long, -size))
          /\ BecomesBook(Credited(b, v, Coverage(b, v, available)))
    BY <1>3, LiquidateStep
  <2>2. PICK b :
          /\ Moved(book, b, v, p.market, Signed(p.long, -size))
          /\ BecomesBook(Credited(b, v, Coverage(b, v, available)))
    BY <2>1
  <2>. DEFINE c == Credited(b, v, Coverage(b, v, available))
  <2>3. b \in BookShape /\ v \in Accounts /\ Coverage(b, v, available) \in Int
    BY <2>2, CoverageTypes DEF Moved, Sound, Accounts
  <2>4. Charged(b, c, v)
    BY <2>3, CreditKeeps
  <2>5. positions' = c.positions /\ bal' = c.bal
    BY <2>2 DEF BecomesBook
  <2>. HIDE DEF c
  <2>6. \A w \in Users \ {v} : positions'[w] = positions[w] /\ bal'[w] = bal[w]
    BY <1>0, <2>2, <2>4, <2>5 DEF Moved, Charged, SameTrades, book
  <2>7. u = v
    BY <1>1, <2>6
  <2>. QED
    BY <1>3, <2>7 DEF Liquidate
<1>4. ASSUME NEW v \in Users, NEW a \in Assets, NEW n \in Deposits, Deposit(v, a, n)
      PROVE  FALSE
  <2>1. /\ positions' = positions /\ n \in Nat /\ bal' = [bal EXCEPT ![v][a] = @ + n]
    BY <1>4 DEF Deposit
  <2>2. \A x \in Assets : ~(bal'[u][x] < bal[u][x])
    <3>1. ASSUME NEW x \in Assets
          PROVE  bal[u][x] \in Int /\ (bal'[u][x] = bal[u][x] \/ bal'[u][x] = bal[u][x] + n)
      BY <1>0, <2>1
    <3>. QED
      BY <2>1, <3>1
  <2>. QED
    BY <2>1, <2>2 DEF TakesFrom
<1>5. ASSUME NEW v \in Users, NEW a \in Assets, NEW n \in Withdrawals, Withdraw(v, a, n)
      PROVE  v = u
  <2>1. positions' = positions /\ bal' = [bal EXCEPT ![v][a] = @ - n]
    BY <1>5 DEF Withdraw
  <2>2. v # u => bal'[u] = bal[u]
    BY <1>0, <2>1
  <2>. QED
    BY <1>1, <2>1, <2>2
<1>6. ASSUME NEW m \in Markets, UpdateFunding(m)
      PROVE  FALSE
  <2>1. PICK c : BecomesBook(c) /\ (c = book \/ c \in ApplyPnl(book, InsuranceAccount, FundingSurplus(m)))
    BY <1>6 DEF UpdateFunding
  <2>2. InsuranceAccount \in Accounts /\ InsuranceAccount # u /\ FundingSurplus(m) \in Int /\ book \in BookShape
    BY IndexDeltaType DEF Accounts, ClearingInv, BooksSound, Sound
  <2>3. c = book \/ Charged(book, c, InsuranceAccount)
    BY <2>1, <2>2, Paid
  <2>4. positions' = positions /\ bal'[u] = bal[u]
    BY <1>0, <2>1, <2>2, <2>3 DEF BecomesBook, Charged, SameTrades, book
  <2>. QED
    BY <1>1, <2>4
<1>7. CASE \/ EmergencyPause \/ Unpause \/ OracleRound \/ UNCHANGED vars
           \/ \E f \in Funders, n \in Deposits : InsuranceDeposit(f, n)
  <2>1. UNCHANGED <<positions, bal>>
    BY <1>7 DEF EmergencyPause, Unpause, OracleRound, vars, bookVars, InsuranceDeposit
  <2>. QED
    BY <1>1, <2>1
<1>8. CASE \E maker, taker \in Users, m \in Markets, makerLong \in BOOLEAN,
              makerReduces, takerReduces \in BOOLEAN, size \in FillSizes, px \in FillPrices :
              SettleFill(maker, taker, m, makerLong, makerReduces, takerReduces, size, px)
  BY <1>2, <1>8
<1>9. CASE \E l \in Liquidators, v \in Users, size \in FillSizes, px \in FillPrices :
              \E p \in positions[v] : Liquidate(l, v, p, size, px)
  <2>1. Liquidators # {}
    BY <1>9
  <2>2. Liquidatable(book, u)
    BY <1>3, <1>9
  <2>. QED
    BY <2>1, <2>2
<1>10. CASE \E v \in Users, a \in Assets, n \in Withdrawals : Withdraw(v, a, n)
  BY <1>5, <1>10
<1>. QED
  BY <1>4, <1>6, <1>7, <1>8, <1>9, <1>10 DEF Next

HoldingInv == ClearingInv /\ Holdings /\ Quoting

LEMMA HoldingInvariant == Spec => []HoldingInv
<1>1. Init => Holdings /\ Quoting
  <2> SUFFICES ASSUME Init
               PROVE  Holdings /\ Quoting
    OBVIOUS
  <2>1. Quoting
    BY DEF Init, Quoting
  <2>2. \A u \in Users : userAssets[u] = {} /\ \A a \in Assets : bal[u][a] = 0
    BY DEF Init, Accounts
  <2>. QED
    BY <2>1, <2>2, FS_EmptySet DEF Holdings
<1>2. ClearingInv /\ Holdings /\ Quoting /\ [Next]_vars => Holdings' /\ Quoting'
  BY HoldingsKept, QuotingKept
<1>. QED
  BY <1>1, <1>2, ClearingInvariant, PTL DEF Spec, HoldingInv

\* Whatever sequence of calls an account has seen, with any collateral, haircuts and prices: a fill
\* leaves it at its initial margin, a withdrawal to one unit of rounding, and nothing but the
\* liquidation of an account below its maintenance margin takes it lower.
THEOREM MarginHolds == Spec => MarginAfterTrade
<1>1. HoldingInv => HealthTyped
  BY HealthIsTyped DEF HoldingInv
<1>2. ASSUME HoldingInv, HealthTyped', [Next]_vars, NEW u \in Users, TakesFrom(u)
      PROVE  \/ Liquidators # {} /\ Liquidatable(book, u)
             \/ /\ positions'[u] # positions[u] => AboveInitialMargin(book, u)'
                /\ Equity(book, u)' + 1 >= InitialMargin(book, u)'
  <2>1. Equity(book, u)' \in Int /\ InitialMargin(book, u)' \in Int
    BY <1>2 DEF HealthTyped
  <2>2. CASE AboveInitialMargin(book, u)'
    <3>1. Equity(book, u)' >= InitialMargin(book, u)'
      BY <2>2, Zenon DEF AboveInitialMargin
    <3>2. Equity(book, u)' + 1 >= InitialMargin(book, u)'
      BY <2>1, <3>1
    <3>. QED
      BY <2>2, <3>2
  <2>3. ASSUME NEW a \in Assets, NEW n \in Withdrawals, Withdraw(u, a, n)
        PROVE  Equity(book, u)' + 1 >= InitialMargin(book, u)' /\ positions' = positions
    <3>1. Equity(book, u)' + 1 >= InitialMargin(book, u)'
      BY <1>2, <2>3, WithdrawalKeepsMargin DEF HoldingInv
    <3>. QED
      BY <2>3, <3>1 DEF Withdraw
  <2>. QED
    BY <1>2, <2>2, <2>3, WhoTakes DEF HoldingInv
<1>3. HoldingInv /\ HealthTyped' /\ [Next]_vars =>
        \A u \in Users :
          \/ Liquidators # {} /\ Liquidatable(book, u)
          \/ /\ positions'[u] # positions[u] => AboveInitialMargin(book, u)'
             /\ (\E a \in Assets : bal'[u][a] < bal[u][a]) =>
                  Equity(book, u)' + 1 >= InitialMargin(book, u)'
  BY <1>2 DEF TakesFrom
<1>. QED
  BY <1>1, <1>3, HoldingInvariant, PTL DEF Spec, MarginAfterTrade
-----------------------------------------------------------------------------
(* Value before any rounding, in 1/Precision of a unit. *)

\* What is paid of an exact amount loses less than one unit.
Truncation(paid, exact) == paid \in Int /\ exact \in Int /\ Abs(Precision * paid - exact) < Precision

LEMMA Truncates ==
  ASSUME NEW a \in Int, NEW b \in Int
  PROVE  Truncation(MulPrecision(a, b), a * b)
<1>. DEFINE n == a * b
            k == Abs(n)
            q == k \div Precision
<1>1. n \in Int /\ k \in Nat /\ (n >= 0 => k = n) /\ (n < 0 => k = -n)
  BY DEF Abs
<1>2. MulPrecision(a, b) = IF (n >= 0) = (Precision > 0) THEN q ELSE -q
  BY DEF MulPrecision, MulDiv, Abs
<1>. HIDE DEF n, k
<1>3. q \in Nat /\ Precision * q <= k /\ k < Precision * q + Precision
  BY <1>1, Floor
<1>. HIDE DEF q
<1>. DEFINE pq == Precision * q
            r == MulPrecision(a, b)
<1>4. pq \in Nat /\ Precision * (-q) = -pq
  BY <1>3
<1>5. CASE n >= 0
  <2>1. r = q
    BY <1>2, <1>5
  <2>2. Precision * r = pq
    BY <2>1
  <2>. HIDE DEF r, pq
  <2>3. r \in Int
    BY <1>3, <2>1
  <2>4. Abs(Precision * r - n) < Precision
    BY <1>1, <1>3, <1>4, <1>5, <2>2 DEF Abs, pq
  <2>. QED
    BY <1>1, <2>3, <2>4 DEF Truncation, r, n
<1>6. CASE n < 0
  <2>1. r = -q
    <3>1. (n >= 0) = FALSE /\ (Precision > 0) = TRUE
      BY <1>1, <1>6
    <3>2. ~((n >= 0) = (Precision > 0))
      BY <3>1
    <3>. QED
      BY <1>2, <3>2, Zenon
  <2>2. Precision * r = -pq
    BY <1>4, <2>1
  <2>. HIDE DEF r, pq
  <2>3. r \in Int
    BY <1>3, <2>1
  <2>4. Abs(Precision * r - n) < Precision
    BY <1>1, <1>3, <1>4, <1>6, <2>2 DEF Abs, pq
  <2>. QED
    BY <1>1, <2>3, <2>4 DEF Truncation, r, n
<1>. QED
  BY <1>1, <1>5, <1>6

LEMMA SignedType ==
  /\ \A long \in BOOLEAN, x \in Int : Signed(long, x) \in Int /\ Signed(long, -x) = -Signed(long, x)
  /\ \A long \in BOOLEAN, x, y \in Int : Signed(long, x + y) = Signed(long, x) + Signed(long, y)
  /\ \A long \in BOOLEAN, x \in Int : Signed(~long, x) = -Signed(long, x)
  BY DEF Signed

\* The price part and the funding part of what is paid.
LEMMA PricePaid ==
  ASSUME NEW long \in BOOLEAN, NEW size \in Int, NEW entry \in Int, NEW px \in Int
  PROVE  Truncation(PricePnl(long, size, entry, px), Signed(long, size * px - size * entry))
<1>0. px - entry \in Int /\ entry - px \in Int
  OBVIOUS
<1>1. /\ Truncation(MulPrecision(size, px - entry), size * (px - entry))
      /\ Truncation(MulPrecision(size, entry - px), size * (entry - px))
  BY <1>0, Truncates
<1>2. size * (px - entry) = size * px - size * entry /\ size * (entry - px) = -(size * px - size * entry)
  OBVIOUS
<1>3. CASE long
  BY <1>1, <1>2, <1>3, Zenon DEF PricePnl, Signed
<1>4. CASE ~long
  BY <1>1, <1>2, <1>4, Zenon DEF PricePnl, Signed
<1>. QED
  BY <1>3, <1>4

LEMMA FundingMet ==
  ASSUME NEW size \in Int, NEW last \in Int, NEW index \in Int
  PROVE  Truncation(FundingPnl(size, last, index), size * last - size * index)
<1>. DEFINE n == MulPrecision(size, index - last)
            sl == size * last
            si == size * index
<1>1. Truncation(n, size * (index - last))
  BY Truncates
<1>2. size * (index - last) = si - sl /\ sl \in Int /\ si \in Int
  OBVIOUS
<1>3. FundingPnl(size, last, index) = -n
  BY Zenon DEF FundingPnl
<1>. HIDE DEF n, sl, si
<1>4. n \in Int /\ Abs(Precision * n - (si - sl)) < Precision
  BY <1>1, <1>2 DEF Truncation
<1>. DEFINE pn == Precision * n
<1>5. Precision * (-n) = -pn /\ pn \in Int
  BY <1>4
<1>6. Abs(pn - (si - sl)) < Precision
  BY <1>4
<1>. HIDE DEF pn
<1>7. Abs(-pn - (sl - si)) < Precision
  BY <1>2, <1>5, <1>6 DEF Abs
<1>8. Truncation(-n, sl - si)
  BY <1>2, <1>4, <1>5, <1>7 DEF Truncation
<1>. QED
  BY <1>3, <1>8 DEF sl, si

\* The exact PnL of a position at prices q and funding indexes v.
IndexAt(v, m, long) == IF long THEN v[m].long ELSE v[m].short
PnlAt(p, q, v) ==
  p.size * (IF p.long THEN q[p.market] - p.entry ELSE -(q[p.market] - p.entry))
    - p.size * (IndexAt(v, p.market, p.long) - p.index)

\* A position entered at a price.
Priced == {p \in Position : p.entry \in Nat}

\* Prices and indexes.
Reading(q, v) == /\ \A m \in Markets : q[m] \in Nat
                 /\ \A m \in Markets : v[m].long \in Int /\ v[m].short \in Int

LEMMA IndexType ==
  ASSUME NEW q, NEW v, Reading(q, v), NEW m \in Markets, NEW long \in BOOLEAN
  PROVE  IndexAt(v, m, long) \in Int
  BY DEF Reading, IndexAt

LEMMA PricedType ==
  ASSUME NEW p \in Priced
  PROVE  /\ p \in Position /\ p.market \in Markets /\ p.long \in BOOLEAN
         /\ p.entry \in Nat /\ p.index \in Int /\ p.size \in Nat \ {0}
  BY DEF Priced, Position

LEMMA PricedPnl ==
  ASSUME NEW p \in Priced, NEW q, NEW v, Reading(q, v)
  PROVE  /\ PnlAt(p, q, v) = Signed(p.long, p.size * q[p.market] - p.size * p.entry)
                               + (p.size * p.index - p.size * IndexAt(v, p.market, p.long))
         /\ PnlAt(p, q, v) \in Int
<1>. DEFINE k == p.size
            index == IndexAt(v, p.market, p.long)
            px == q[p.market]
            entry == p.entry
            last == p.index
            long == p.long
            kx == k * px
            ke == k * entry
            ki == k * index
            kl == k * last
<1>1. k \in Nat /\ long \in BOOLEAN /\ entry \in Int /\ last \in Int /\ p.market \in Markets
  BY PricedType
<1>2. px \in Int /\ index \in Int
  BY <1>1, IndexType DEF Reading
<1>3. PnlAt(p, q, v) = k * (IF long THEN px - entry ELSE -(px - entry)) - k * (index - last)
  BY Zenon DEF PnlAt
<1>. HIDE DEF k, index, px, entry, last, long
<1>4. /\ k * (px - entry) = kx - ke /\ k * (-(px - entry)) = -(kx - ke) /\ k * (index - last) = ki - kl
      /\ kx \in Int /\ ke \in Int /\ ki \in Int /\ kl \in Int
  BY <1>1, <1>2
<1>5. k * (IF long THEN px - entry ELSE -(px - entry)) = Signed(long, kx - ke)
  <2>1. CASE long
    BY <1>4, <2>1, Zenon DEF Signed
  <2>2. CASE ~long
    BY <1>4, <2>2, Zenon DEF Signed
  <2>. QED
    BY <2>1, <2>2
<1>6. PnlAt(p, q, v) = Signed(long, kx - ke) - (ki - kl)
  BY <1>3, <1>4, <1>5, Zenon
<1>. HIDE DEF kx, ke, ki, kl
<1>7. Signed(long, kx - ke) \in Int
  BY <1>1, <1>4 DEF Signed
<1>8. PnlAt(p, q, v) = Signed(long, kx - ke) + (kl - ki) /\ PnlAt(p, q, v) \in Int
  <2>. DEFINE e == Signed(long, kx - ke)
  <2>1. e \in Int /\ PnlAt(p, q, v) = e - (ki - kl)
    BY <1>6, <1>7
  <2>. HIDE DEF e
  <2>2. PnlAt(p, q, v) = e + (kl - ki) /\ PnlAt(p, q, v) \in Int
    BY <1>4, <2>1
  <2>. QED
    BY <2>2 DEF e
<1>. QED
  BY <1>8 DEF kx, ke, ki, kl, k, index, px, entry, last, long
\* The PnL of what an account holds, a position more or less.
HeldAt(held, q, v) == SumFunctionOnSet([p \in Position |-> PnlAt(p, q, v)], held)

LEMMA HeldPieces ==
  ASSUME NEW held \in SUBSET Priced, IsFiniteSet(held), NEW q, NEW v, Reading(q, v)
  PROVE  /\ HeldAt(held, q, v) \in Int
         /\ \A p \in held : HeldAt(held \ {p}, q, v) = HeldAt(held, q, v) - PnlAt(p, q, v)
         /\ \A p \in Priced \ held : HeldAt(held \cup {p}, q, v) = HeldAt(held, q, v) + PnlAt(p, q, v)
<1>. DEFINE f == [p \in Position |-> PnlAt(p, q, v)]
<1>1. \A p \in Priced : f[p] = PnlAt(p, q, v) /\ f[p] \in Int
  BY PricedPnl DEF Priced
<1>2. \A s : HeldAt(s, q, v) = SumFunctionOnSet(f, s)
  BY Zenon DEF HeldAt
<1>. HIDE DEF f
<1>3. HeldAt(held, q, v) \in Int
  BY <1>1, <1>2, SumType
<1>4. ASSUME NEW p \in held
      PROVE  HeldAt(held \ {p}, q, v) = HeldAt(held, q, v) - PnlAt(p, q, v)
  <2>1. SumFunctionOnSet(f, held) = f[p] + SumFunctionOnSet(f, held \ {p})
    BY <1>1, SumRemove
  <2>2. SumFunctionOnSet(f, held \ {p}) \in Int
    <3>1. IsFiniteSet(held \ {p})
      BY FS_RemoveElement
    <3>. QED
      BY <1>1, <3>1, SumType
  <2>. QED
    BY <1>1, <1>2, <2>1, <2>2
<1>5. ASSUME NEW p \in Priced \ held
      PROVE  HeldAt(held \cup {p}, q, v) = HeldAt(held, q, v) + PnlAt(p, q, v)
  <2>1. SumFunctionOnSet(f, held \cup {p}) = f[p] + SumFunctionOnSet(f, held)
    BY <1>1, SumAdd
  <2>. QED
    BY <1>1, <1>2, <1>3, <2>1
<1>. QED
  BY <1>3, <1>4, <1>5
-----------------------------------------------------------------------------
(* What a call does to the value of an account, at the oracle's prices. *)

LEMMA VaultReads ==
  ASSUME IndexesAgree, OracleTyped
  PROVE  /\ Reading(price, vaultFunding) /\ Quoted
         /\ \A m \in Markets, long \in BOOLEAN : /\ IndexAt(vaultFunding, m, long) = FundingIndex(m, long)
                                                 /\ FundingIndex(m, long) \in Int
<1>1. \A m \in Markets : price[m] \in Nat
  BY DEF OracleTyped, Feeds
<1>2. \A m \in Markets : /\ vaultFunding[m].long \in Int /\ vaultFunding[m].short \in Int
                         /\ vaultFunding[m].long = funding[m].long /\ vaultFunding[m].short = funding[m].short
  BY DEF IndexesAgree
<1>. QED
  BY <1>1, <1>2 DEF Reading, Quoted, IndexesAgree, OracleTyped, IndexAt, FundingIndex

\* The PnL that a trade of a size at a price makes, at the oracle's price.
Edge(m, long, size, px) == Signed(long, size * price[m] - size * px)

\* Equal up to a rounding.
Within(x, y, n) == x \in Int /\ y \in Int /\ Abs(x - y) <= n

LEMMA OpenValue ==
  ASSUME IndexesAgree, OracleTyped, NEW b, Sound(b), NEW u \in Users, b.positions[u] \subseteq Priced,
         NEW m \in Markets, NEW long \in BOOLEAN, NEW size \in Nat \ {0}, NEW px \in Nat,
         \A p \in b.positions[u] : p.market # m
  PROVE  /\ OpenedTo(b, u, m, long, size, px) \subseteq Priced
         /\ HeldAt(OpenedTo(b, u, m, long, size, px), price, vaultFunding)
              = HeldAt(b.positions[u], price, vaultFunding) + Edge(m, long, size, px)
         /\ Edge(m, long, size, px) \in Int
<1>. DEFINE new == Fresh(b, m, long, size, px)
            index == FundingIndex(m, long)
<1>1. Reading(price, vaultFunding) /\ IndexAt(vaultFunding, m, long) = index /\ index \in Int
  BY VaultReads
<1>2. b.nextId \in Nat \ {0} /\ IsFiniteSet(b.positions[u])
  BY DEF Sound, BookShape, Separate
<1>3. new = [id |-> b.nextId, market |-> m, long |-> long, size |-> size, entry |-> px, index |-> index]
  BY DEF Fresh
<1>. HIDE DEF new, index
<1>4. /\ new \in Position /\ new.market = m /\ new.long = long /\ new.size = size
      /\ new.entry = px /\ new.index = index
  BY <1>1, <1>2, <1>3 DEF Position
<1>5. new \in Priced \ b.positions[u]
  BY <1>4 DEF Priced
<1>6. PnlAt(new, price, vaultFunding) = Edge(m, long, size, px) /\ Edge(m, long, size, px) \in Int
  <2>. DEFINE e == Signed(long, size * price[m] - size * px)
  <2>1. PnlAt(new, price, vaultFunding) = e + (size * index - size * index)
    <3>1. PnlAt(new, price, vaultFunding)
            = Signed(new.long, new.size * price[new.market] - new.size * new.entry)
                + (new.size * new.index - new.size * IndexAt(vaultFunding, new.market, new.long))
      BY <1>1, <1>5, PricedPnl
    <3>. QED
      BY <1>1, <1>4, <3>1, Zenon
  <2>2. size * index - size * index = 0 /\ size * price[m] - size * px \in Int
    BY <1>1 DEF Reading
  <2>3. e \in Int
    BY <2>2, SignedType
  <2>4. PnlAt(new, price, vaultFunding) = e + 0
    BY <2>1, <2>2, Zenon
  <2>. HIDE DEF e
  <2>5. PnlAt(new, price, vaultFunding) = e
    BY <2>3, <2>4
  <2>. QED
    BY <2>3, <2>5, Zenon DEF e, Edge
<1>7. HeldAt(b.positions[u] \cup {new}, price, vaultFunding)
        = HeldAt(b.positions[u], price, vaultFunding) + PnlAt(new, price, vaultFunding)
  BY <1>1, <1>2, <1>5, HeldPieces
<1>8. OpenedTo(b, u, m, long, size, px) = b.positions[u] \cup {new}
  BY Zenon DEF OpenedTo, new
<1>. QED
  BY <1>5, <1>6, <1>7, <1>8

LEMMA RestFields ==
  ASSUME NEW p \in Position, NEW size \in Nat \ {0}, size < p.size, FundingIndex(p.market, p.long) \in Int
  PROVE  /\ Rest(p, size) \in Position /\ Rest(p, size).market = p.market /\ Rest(p, size).long = p.long
         /\ Rest(p, size).size = p.size - size /\ Rest(p, size).entry = p.entry
         /\ Rest(p, size).index = FundingIndex(p.market, p.long)
<1>. DEFINE index == FundingIndex(p.market, p.long)
            less == p.size - size
            p1 == [p EXCEPT !.size = less]
            p2 == [p1 EXCEPT !.index = index]
<1>1. less \in Nat \ {0}
  BY DEF Position
<1>. HIDE DEF less, index
<1>2. p = [id |-> p.id, market |-> p.market, long |-> p.long, size |-> p.size, entry |-> p.entry, index |-> p.index]
  BY DEF Position
<1>3. p1 = [id |-> p.id, market |-> p.market, long |-> p.long, size |-> less, entry |-> p.entry, index |-> p.index]
  BY <1>2
<1>. HIDE DEF p1
<1>4. p2 = [id |-> p.id, market |-> p.market, long |-> p.long, size |-> less, entry |-> p.entry, index |-> index]
  BY <1>3
<1>5. Rest(p, size) = p2
  BY Zenon DEF Rest, p1, p2, less, index
<1>. HIDE DEF p2
<1>6. p2 \in Position
  BY <1>1, <1>4 DEF Position, index
<1>7. /\ p2.market = p.market /\ p2.long = p.long /\ p2.size = less /\ p2.entry = p.entry /\ p2.index = index
  BY <1>4
<1>. QED
  BY <1>5, <1>6, <1>7 DEF less, index

LEMMA GrownFields ==
  ASSUME NEW p \in Position, NEW size \in Nat \ {0}, NEW px, FundingIndex(p.market, p.long) \in Int,
         NEW entry \in Int,
         entry = DivPrecision(MulPrecision(p.size, p.entry) + MulPrecision(size, px), p.size + size)
  PROVE  /\ Grown(p, size, px) \in Position /\ Grown(p, size, px).market = p.market
         /\ Grown(p, size, px).long = p.long /\ Grown(p, size, px).size = p.size + size
         /\ Grown(p, size, px).entry = entry /\ Grown(p, size, px).index = FundingIndex(p.market, p.long)
<1>. DEFINE index == FundingIndex(p.market, p.long)
            sum == p.size + size
            p1 == [p EXCEPT !.size = sum]
            p2 == [p1 EXCEPT !.entry = entry]
            p3 == [p2 EXCEPT !.index = index]
<1>1. sum \in Nat \ {0}
  BY DEF Position
<1>. HIDE DEF sum, index
<1>2. p = [id |-> p.id, market |-> p.market, long |-> p.long, size |-> p.size, entry |-> p.entry, index |-> p.index]
  BY DEF Position
<1>3. p1 = [id |-> p.id, market |-> p.market, long |-> p.long, size |-> sum, entry |-> p.entry, index |-> p.index]
  BY <1>2
<1>. HIDE DEF p1
<1>4. p2 = [id |-> p.id, market |-> p.market, long |-> p.long, size |-> sum, entry |-> entry, index |-> p.index]
  BY <1>3
<1>. HIDE DEF p2
<1>5. p3 = [id |-> p.id, market |-> p.market, long |-> p.long, size |-> sum, entry |-> entry, index |-> index]
  BY <1>4
<1>6. Grown(p, size, px) = p3
  BY Zenon DEF Grown, p1, p2, p3, sum, index
<1>. HIDE DEF p3
<1>7. p3 \in Position
  BY <1>1, <1>5 DEF Position, index
<1>8. /\ p3.market = p.market /\ p3.long = p.long /\ p3.size = sum /\ p3.entry = entry /\ p3.index = index
  BY <1>5
<1>. QED
  BY <1>6, <1>7, <1>8 DEF sum, index

\* What is paid when a position is closed, before rounding: the funding of all of
\* it and the price of what is closed.
PaidOn(p, size, px) ==
  (p.size * p.index - p.size * FundingIndex(p.market, p.long))
    + Signed(p.long, size * px - size * p.entry)

LEMMA PaidNearly ==
  ASSUME NEW p \in Priced, FundingIndex(p.market, p.long) \in Int, NEW size \in Nat, NEW px \in Nat
  PROVE  /\ Within(Precision * (Accrued(p) + PricePnl(p.long, size, p.entry, px)), PaidOn(p, size, px),
                   2 * Precision)
         /\ Accrued(p) + PricePnl(p.long, size, p.entry, px) \in Int
<1>. DEFINE a == Accrued(p)
            c == PricePnl(p.long, size, p.entry, px)
            x == p.size * p.index - p.size * FundingIndex(p.market, p.long)
            y == Signed(p.long, size * px - size * p.entry)
<1>1. p.long \in BOOLEAN /\ p.entry \in Int /\ p.index \in Int /\ p.size \in Int
  BY PricedType
<1>2. Truncation(a, x)
  BY <1>1, FundingMet DEF Accrued
<1>3. Truncation(c, y)
  BY <1>1, PricePaid
<1>4. PaidOn(p, size, px) = x + y
  BY Zenon DEF PaidOn
<1>. HIDE DEF a, c, x, y
<1>. DEFINE pa == Precision * a
            pc == Precision * c
<1>5. /\ a \in Int /\ c \in Int /\ x \in Int /\ y \in Int /\ Precision * (a + c) = pa + pc
      /\ pa \in Int /\ pc \in Int /\ Abs(pa - x) < Precision /\ Abs(pc - y) < Precision
  BY <1>2, <1>3 DEF Truncation
<1>. HIDE DEF pa, pc
<1>6. Within(pa + pc, x + y, 2 * Precision)
  BY <1>5 DEF Within, Abs
<1>. QED
  BY <1>4, <1>5, <1>6 DEF a, c

\* A close realises, against the oracle's price, what is closed.
LEMMA ReduceValue ==
  ASSUME IndexesAgree, OracleTyped, NEW b, Sound(b), NEW u \in Users, b.positions[u] \subseteq Priced,
         NEW p \in b.positions[u], NEW size \in Nat \ {0}, size <= p.size, NEW px \in Nat
  PROVE  /\ ReducedTo(b, u, p, size) \subseteq Priced
         /\ HeldAt(ReducedTo(b, u, p, size), price, vaultFunding) \in Int
         /\ HeldAt(ReducedTo(b, u, p, size), price, vaultFunding) + PaidOn(p, size, px)
              = HeldAt(b.positions[u], price, vaultFunding) + Edge(p.market, ~p.long, size, px)
<1>. DEFINE H(held) == HeldAt(held, price, vaultFunding)
            index == FundingIndex(p.market, p.long)
            long == p.long
            entry == p.entry
            last == p.index
            x == price[p.market]
            k == p.size
            j == size
            rest == Rest(p, size)
<1>1. /\ p \in Priced /\ p \in Position /\ p.market \in Markets /\ long \in BOOLEAN /\ entry \in Nat /\ last \in Int
      /\ k \in Nat \ {0} /\ j \in Nat \ {0}
  BY PricedType
<1>3. /\ Reading(price, vaultFunding) /\ IndexAt(vaultFunding, p.market, long) = index /\ index \in Int /\ x \in Nat
  BY <1>1, VaultReads DEF Reading
<1>4. IsFiniteSet(b.positions[u]) /\ \A r \in b.positions[u] : r.market = p.market => r = p
  BY DEF Sound, Separate
<1>. HIDE DEF H, index, long, entry, last, x, k, j
<1>. DEFINE kx == k * x
            ke == k * entry
            kl == k * last
            ki == k * index
            jx == j * x
            je == j * entry
            jp == j * px
<1>5. PnlAt(p, price, vaultFunding) = Signed(long, kx - ke) + (kl - ki)
  <2>1. PnlAt(p, price, vaultFunding)
          = Signed(p.long, p.size * price[p.market] - p.size * p.entry)
              + (p.size * p.index - p.size * IndexAt(vaultFunding, p.market, p.long))
    BY <1>1, <1>3, PricedPnl
  <2>. QED
    BY <1>3, <2>1, Zenon DEF long, entry, last, x, k
<1>6. PaidOn(p, size, px) = (kl - ki) + Signed(long, jp - je)
  BY Zenon DEF PaidOn, index, long, entry, last, k, j
<1>7. Edge(p.market, ~p.long, size, px) = Signed(~long, jx - jp)
  BY Zenon DEF Edge, long, x, j
<1>8. /\ H(b.positions[u] \ {p}) = H(b.positions[u]) - PnlAt(p, price, vaultFunding)
      /\ H(b.positions[u]) \in Int /\ IsFiniteSet(b.positions[u] \ {p})
  BY <1>3, <1>4, HeldPieces, FS_RemoveElement DEF H
<1>9. kx \in Int /\ ke \in Int /\ kl \in Int /\ ki \in Int /\ jx \in Int /\ je \in Int /\ jp \in Int
  BY <1>1, <1>3
<1>10. CASE size = p.size
  <2>1. jx = kx /\ je = ke
    BY <1>10 DEF j, k
  <2>. HIDE DEF kx, ke, kl, ki, jx, je, jp
  <2>2. /\ H(b.positions[u] \ {p}) + ((kl - ki) + Signed(long, jp - je)) = H(b.positions[u]) + Signed(~long, jx - jp)
        /\ H(b.positions[u] \ {p}) \in Int
    BY <1>1, <1>5, <1>8, <1>9, <2>1 DEF Signed
  <2>3. ReducedTo(b, u, p, size) = b.positions[u] \ {p}
    BY <1>10 DEF ReducedTo
  <2>. QED
    BY <1>6, <1>7, <2>2, <2>3, Zenon DEF H
<1>11. CASE size # p.size
  <2>. DEFINE n == k - j
  <2>1. /\ rest \in Position /\ rest.market = p.market /\ rest.long = long /\ rest.size = n
        /\ rest.entry = entry /\ rest.index = index
    <3>1. size < p.size
      BY <1>1, <1>11 DEF k, j
    <3>2. p.size - size = n
      BY Zenon DEF k, j
    <3>. HIDE DEF n
    <3>. QED
      BY <1>1, <1>3, <3>1, <3>2, RestFields DEF long, entry, index
  <2>2. n \in Nat \ {0}
    BY <1>1, <1>11 DEF k, j
  <2>. HIDE DEF n
  <2>3. rest \in Priced
    BY <1>1, <2>1, <2>2 DEF Priced
  <2>4. rest \notin b.positions[u] \ {p}
    BY <1>4, <2>1
  <2>5. H((b.positions[u] \ {p}) \cup {rest}) = H(b.positions[u] \ {p}) + PnlAt(rest, price, vaultFunding)
    <3>1. b.positions[u] \ {p} \in SUBSET Priced
      OBVIOUS
    <3>. QED
      BY <1>3, <1>8, <2>3, <2>4, <3>1, HeldPieces DEF H
  <2>6. PnlAt(rest, price, vaultFunding) = Signed(long, n * x - n * entry)
    <3>1. PnlAt(rest, price, vaultFunding)
            = Signed(rest.long, rest.size * price[rest.market] - rest.size * rest.entry)
                + (rest.size * rest.index - rest.size * IndexAt(vaultFunding, rest.market, rest.long))
      BY <1>3, <2>3, PricedPnl
    <3>2. PnlAt(rest, price, vaultFunding) = Signed(long, n * x - n * entry) + (n * index - n * index)
      BY <1>3, <2>1, <3>1, Zenon DEF x
    <3>3. n * index - n * index = 0 /\ n * x - n * entry \in Int
      BY <1>1, <1>3, <2>2
    <3>. DEFINE e == Signed(long, n * x - n * entry)
    <3>4. e \in Int
      BY <1>1, <3>3, SignedType
    <3>5. PnlAt(rest, price, vaultFunding) = e + 0
      BY <3>2, <3>3, Zenon
    <3>. HIDE DEF e
    <3>. QED
      BY <3>4, <3>5 DEF e
  <2>7. n * x = kx - jx /\ n * entry = ke - je
    BY <1>1, <1>3 DEF n
  <2>. HIDE DEF kx, ke, kl, ki, jx, je, jp
  <2>8. PnlAt(rest, price, vaultFunding) = Signed(long, (kx - jx) - (ke - je))
    BY <2>6, <2>7, Zenon
  <2>9. /\ H((b.positions[u] \ {p}) \cup {rest}) + ((kl - ki) + Signed(long, jp - je))
             = H(b.positions[u]) + Signed(~long, jx - jp)
        /\ H((b.positions[u] \ {p}) \cup {rest}) \in Int
    BY <1>1, <1>5, <1>8, <1>9, <2>5, <2>8 DEF Signed
  <2>10. ReducedTo(b, u, p, size) = (b.positions[u] \ {p}) \cup {rest}
    BY <1>11 DEF ReducedTo
  <2>11. ReducedTo(b, u, p, size) \subseteq Priced
    BY <2>3, <2>10
  <2>. QED
    BY <1>6, <1>7, <2>9, <2>10, <2>11, Zenon DEF H
<1>. QED
  BY <1>10, <1>11

\* The average entry price: within a unit of price of what was paid for the
\* position, which is a sum of two products.
LEMMA AverageEntry ==
  ASSUME NEW k \in Nat, NEW old \in Nat, NEW j \in Nat \ {0}, NEW px \in Nat,
         NEW cost, cost = MulPrecision(k, old) + MulPrecision(j, px)
  PROVE  /\ DivPrecision(cost, k + j) \in Nat
         /\ Within((k + j) * DivPrecision(cost, k + j), k * old + j * px, 2 * Precision + (k + j))
<1>. DEFINE a == MulPrecision(k, old)
            c == MulPrecision(j, px)
            x == k * old
            y == j * px
            n == k + j
            top == cost * Precision
            e == top \div n
<1>1. Truncation(a, x) /\ Truncation(c, y)
  BY Truncates
<1>2. n \in Nat \ {0} /\ x \in Nat /\ y \in Nat
  OBVIOUS
<1>3. a \in Nat /\ c \in Nat
  <2>1. a = (k * old) \div Precision /\ c = (j * px) \div Precision
    BY MulDivFloor DEF MulPrecision
  <2>2. (k * old) \div Precision \in Nat /\ (j * px) \div Precision \in Nat
    <3>. HIDE DEF a, c
    <3>1. \A z \in Nat : z \div Precision \in Nat
      BY Floor
    <3>. QED
      BY <1>2, <3>1
  <2>. QED
    BY <2>1, <2>2
<1>. HIDE DEF a, c, x, y, n
<1>. DEFINE pa == Precision * a
            pc == Precision * c
<1>4. /\ Abs(pa - x) < Precision /\ Abs(pc - y) < Precision /\ pa \in Int /\ pc \in Int
      /\ cost \in Nat /\ top = pa + pc /\ top \in Nat
  <2>1. Abs(pa - x) < Precision /\ Abs(pc - y) < Precision /\ pa \in Int /\ pc \in Int
    BY <1>1, <1>3 DEF Truncation
  <2>2. cost = a + c
    BY Zenon DEF a, c
  <2>3. cost \in Nat /\ top = pa + pc /\ top \in Nat
    BY <1>3, <2>2
  <2>. QED
    BY <2>1, <2>3
<1>. HIDE DEF pa, pc
<1>5. DivPrecision(cost, n) = e
  BY <1>2, <1>4, MulDivFloor DEF DivPrecision
<1>. HIDE DEF top
<1>6. e \in Nat /\ n * e <= top /\ top < n * e + n
  BY <1>2, <1>4, Floor
<1>. HIDE DEF e
<1>. DEFINE ne == n * e
<1>7. ne \in Nat /\ ne <= top /\ top < ne + n
  BY <1>2, <1>6
<1>. HIDE DEF ne
<1>8. Within(ne, x + y, 2 * Precision + n)
  BY <1>2, <1>4, <1>7 DEF Within, Abs
<1>. QED
  BY <1>5, <1>6, <1>8 DEF ne, n, x, y

LEMMA GrowValue ==
  ASSUME IndexesAgree, OracleTyped, NEW b, Sound(b), NEW u \in Users, b.positions[u] \subseteq Priced,
         NEW p \in b.positions[u], NEW size \in Nat \ {0}, NEW px \in Nat
  PROVE  /\ GrownTo(b, u, p, size, px) \subseteq Priced
         /\ Grown(p, size, px) \in GrownTo(b, u, p, size, px) \ b.positions[u]
         /\ Within(HeldAt(GrownTo(b, u, p, size, px), price, vaultFunding) + Precision * Accrued(p),
                   HeldAt(b.positions[u], price, vaultFunding) + Edge(p.market, p.long, size, px),
                   3 * Precision + Grown(p, size, px).size)
<1>. DEFINE H(held) == HeldAt(held, price, vaultFunding)
            index == FundingIndex(p.market, p.long)
            long == p.long
            old == p.entry
            last == p.index
            x == price[p.market]
            k == p.size
            cost == MulPrecision(k, old) + MulPrecision(size, px)
            n == k + size
            entry == DivPrecision(cost, n)
            grown == Grown(p, size, px)
            paid == Accrued(p)
<1>1. /\ p \in Priced /\ p \in Position /\ p.market \in Markets /\ long \in BOOLEAN /\ old \in Nat /\ last \in Int
      /\ k \in Nat \ {0}
  BY PricedType
<1>2. /\ Reading(price, vaultFunding) /\ IndexAt(vaultFunding, p.market, long) = index /\ index \in Int /\ x \in Nat
  BY <1>1, VaultReads DEF Reading
<1>3. IsFiniteSet(b.positions[u]) /\ \A r \in b.positions[u] : r.market = p.market => r = p
  BY DEF Sound, Separate
<1>4. Truncation(paid, k * last - k * index)
  <2>. DEFINE to == FundingIndex(p.market, p.long)
  <2>1. p.size \in Int /\ p.index \in Int /\ to \in Int
    BY <1>1, <1>2
  <2>. HIDE DEF to
  <2>2. Truncation(FundingPnl(p.size, p.index, to), p.size * p.index - p.size * to)
    BY <2>1, FundingMet
  <2>. QED
    BY <2>2, Zenon DEF Accrued, to
<1>5. entry = DivPrecision(MulPrecision(p.size, p.entry) + MulPrecision(size, px), p.size + size)
  OBVIOUS
<1>. HIDE DEF H, index, long, old, last, x, k, paid
<1>6. entry \in Nat /\ Within(n * entry, k * old + size * px, 2 * Precision + n)
  <2>1. k \in Nat
    BY <1>1
  <2>. HIDE DEF cost
  <2>2. cost = MulPrecision(k, old) + MulPrecision(size, px)
    BY Zenon DEF cost
  <2>. QED
    BY <1>1, <2>1, <2>2, AverageEntry
<1>7. n \in Nat \ {0} /\ n # k
  BY <1>1
<1>. HIDE DEF entry
<1>8. /\ grown \in Position /\ grown.market = p.market /\ grown.long = long /\ grown.size = n
      /\ grown.entry = entry /\ grown.index = index
  <2>1. entry \in Int
    BY <1>6
  <2>2. FundingIndex(p.market, p.long) \in Int
    BY <1>2 DEF index
  <2>. QED
    BY <1>1, <1>5, <2>1, <2>2, GrownFields DEF long, index, k
<1>. HIDE DEF n
<1>9. grown \in Priced /\ grown \notin b.positions[u] /\ grown # p
  <2>1. grown \in Priced
    BY <1>6, <1>8 DEF Priced
  <2>2. grown # p
    BY <1>7, <1>8 DEF k
  <2>. QED
    BY <1>3, <1>8, <2>1, <2>2
<1>. DEFINE kx == k * x
            ko == k * old
            kl == k * last
            ki == k * index
            jx == size * x
            jp == size * px
            ne == n * entry
            nx == n * x
<1>10. PnlAt(p, price, vaultFunding) = Signed(long, kx - ko) + (kl - ki)
  <2>1. PnlAt(p, price, vaultFunding)
          = Signed(p.long, p.size * price[p.market] - p.size * p.entry)
              + (p.size * p.index - p.size * IndexAt(vaultFunding, p.market, p.long))
    BY <1>1, <1>2, PricedPnl
  <2>. QED
    BY <1>2, <2>1, Zenon DEF long, old, last, x, k
<1>11. PnlAt(grown, price, vaultFunding) = Signed(long, nx - ne)
  <2>1. PnlAt(grown, price, vaultFunding)
          = Signed(grown.long, grown.size * price[grown.market] - grown.size * grown.entry)
              + (grown.size * grown.index - grown.size * IndexAt(vaultFunding, grown.market, grown.long))
    BY <1>2, <1>9, PricedPnl
  <2>2. PnlAt(grown, price, vaultFunding) = Signed(long, nx - ne) + (n * index - n * index)
    BY <1>2, <1>8, <2>1, Zenon DEF x
  <2>3. n * index - n * index = 0 /\ nx - ne \in Int
    BY <1>2, <1>6, <1>7
  <2>. DEFINE e == Signed(long, nx - ne)
  <2>4. e \in Int
    BY <1>1, <2>3, SignedType
  <2>5. PnlAt(grown, price, vaultFunding) = e + 0
    BY <2>2, <2>3, Zenon
  <2>. HIDE DEF e
  <2>. QED
    BY <2>4, <2>5 DEF e
<1>12. /\ H(b.positions[u] \ {p}) = H(b.positions[u]) - PnlAt(p, price, vaultFunding)
       /\ H(b.positions[u]) \in Int /\ IsFiniteSet(b.positions[u] \ {p})
  BY <1>2, <1>3, HeldPieces, FS_RemoveElement DEF H
<1>13. H((b.positions[u] \ {p}) \cup {grown}) = H(b.positions[u] \ {p}) + PnlAt(grown, price, vaultFunding)
  <2>1. b.positions[u] \ {p} \in SUBSET Priced /\ grown \notin b.positions[u] \ {p}
    BY <1>9
  <2>. HIDE DEF grown
  <2>. QED
    BY <1>2, <1>9, <1>12, <2>1, HeldPieces, SMTT(30) DEF H
<1>14. /\ kx \in Int /\ ko \in Int /\ kl \in Int /\ ki \in Int /\ jx \in Int /\ jp \in Int /\ ne \in Int
       /\ nx = kx + jx
  BY <1>1, <1>2, <1>6, <1>7 DEF n
<1>15. Within(ne, ko + jp, 2 * Precision + n)
  BY <1>6
<1>. DEFINE pp == Precision * paid
<1>16. pp \in Int /\ Abs(pp - (kl - ki)) < Precision
  BY <1>4 DEF Truncation
<1>17. Within(H((b.positions[u] \ {p}) \cup {grown}) + pp, H(b.positions[u]) + Signed(long, jx - jp), 3 * Precision + n)
  <2>. DEFINE h == H(b.positions[u])
              s == Signed(long, kx - ko)
              t == Signed(long, nx - ne)
              z == Signed(long, jx - jp)
  <2>1. H((b.positions[u] \ {p}) \cup {grown}) = (h - (s + (kl - ki))) + t
    BY <1>10, <1>11, <1>12, <1>13, Zenon
  <2>2. h \in Int
    BY <1>12
  <2>. HIDE DEF kx, ko, kl, ki, jx, jp, ne, nx, pp
  <2>3. s \in Int /\ t \in Int /\ z \in Int /\ Within(t, s + z, 2 * Precision + n)
    <3>1. n \in Int
      BY <1>7
    <3>. QED
      BY <1>1, <1>14, <1>15, <3>1 DEF Signed, Within, Abs
  <2>. HIDE DEF h, s, t, z
  <2>4. Within(((h - (s + (kl - ki))) + t) + pp, h + z, 3 * Precision + n)
    BY <1>7, <1>14, <1>16, <2>2, <2>3 DEF Within, Abs
  <2>. QED
    BY <2>1, <2>4, Zenon DEF h, z
<1>18. GrownTo(b, u, p, size, px) = (b.positions[u] \ {p}) \cup {grown}
  BY Zenon DEF GrownTo
<1>19. GrownTo(b, u, p, size, px) \subseteq Priced /\ grown \in GrownTo(b, u, p, size, px) \ b.positions[u]
  BY <1>9, <1>18
<1>20. Edge(p.market, p.long, size, px) = Signed(long, jx - jp)
  BY Zenon DEF Edge, long, x
<1>. HIDE DEF grown
<1>21. Within(H(GrownTo(b, u, p, size, px)) + Precision * Accrued(p),
              H(b.positions[u]) + Edge(p.market, p.long, size, px), 3 * Precision + grown.size)
  BY <1>8, <1>17, <1>18, <1>20, Zenon DEF paid
<1>. QED
  BY <1>19, <1>21, Zenon DEF H, grown

\* What an account has, its positions valued at the oracle's prices.
Value(b, u) == Precision * b.bal[u][Settlement] + HeldAt(b.positions[u], price, vaultFunding)

LEMMA ValueType ==
  ASSUME IndexesAgree, OracleTyped, NEW b, Sound(b), NEW u \in Users, b.positions[u] \subseteq Priced
  PROVE  b.bal[u][Settlement] \in Int /\ HeldAt(b.positions[u], price, vaultFunding) \in Int /\ Value(b, u) \in Int
<1>1. b.bal[u][Settlement] \in Int /\ IsFiniteSet(b.positions[u])
  BY DEF Sound, BookShape, Separate, Accounts
<1>2. Reading(price, vaultFunding)
  BY VaultReads
<1>3. HeldAt(b.positions[u], price, vaultFunding) \in Int
  BY <1>1, <1>2, HeldPieces
<1>. QED
  BY <1>1, <1>3 DEF Value

LEMMA EdgeType ==
  ASSUME OracleTyped, NEW m \in Markets, NEW long \in BOOLEAN, NEW size \in Nat, NEW px \in Nat
  PROVE  Edge(m, long, size, px) \in Int
<1>. DEFINE x == price[m]
            e == size * x - size * px
<1>1. x \in Nat
  BY DEF OracleTyped, Feeds
<1>2. e \in Int
  BY <1>1
<1>3. Edge(m, long, size, px) = Signed(long, e)
  BY Zenon DEF Edge
<1>. HIDE DEF e
<1>. QED
  BY <1>2, <1>3 DEF Signed

LEMMA EdgeSplits ==
  ASSUME OracleTyped, NEW m \in Markets, NEW long \in BOOLEAN, NEW px \in Nat,
         NEW size \in Nat, NEW close \in Nat, NEW rest \in Nat, size = close + rest
  PROVE  Edge(m, long, size, px) = Edge(m, long, close, px) + Edge(m, long, rest, px)
<1>. DEFINE x == price[m]
<1>1. x \in Nat
  BY DEF OracleTyped, Feeds
<1>. HIDE DEF x
<1>. DEFINE kx == size * x
            kp == size * px
            jx == close * x
            jp == close * px
            lx == rest * x
            lp == rest * px
<1>2. kx = jx + lx /\ kp = jp + lp /\ jx \in Int /\ jp \in Int /\ lx \in Int /\ lp \in Int
  BY <1>1
<1>3. /\ Edge(m, long, size, px) = Signed(long, kx - kp) /\ Edge(m, long, close, px) = Signed(long, jx - jp)
      /\ Edge(m, long, rest, px) = Signed(long, lx - lp)
  BY Zenon DEF Edge, x
<1>. HIDE DEF kx, kp, jx, jp, lx, lp
<1>. QED
  BY <1>2, <1>3 DEF Signed

\* One call.
LEMMA LeftValue ==
  ASSUME IndexesAgree, OracleTyped, NEW b, Sound(b), NEW u \in Users, b.positions[u] \subseteq Priced,
         NEW c, Sound(c), NEW held, c.positions[u] = held, held \subseteq Priced,
         NEW paid \in Int, c.bal[u][Settlement] = b.bal[u][Settlement] + paid, NEW gain \in Int, NEW n \in Nat,
         Within(HeldAt(held, price, vaultFunding) + Precision * paid,
                HeldAt(b.positions[u], price, vaultFunding) + gain, n)
  PROVE  Within(Value(c, u), Value(b, u) + gain, n)
<1>. DEFINE h == HeldAt(c.positions[u], price, vaultFunding)
            g == HeldAt(b.positions[u], price, vaultFunding)
            k == b.bal[u][Settlement]
            pk == Precision * k
            pp == Precision * paid
<1>1. c.positions[u] \subseteq Priced
  OBVIOUS
<1>2. h \in Int /\ g \in Int /\ k \in Int
  BY <1>1, ValueType
<1>3. Value(c, u) = Precision * (k + paid) + h /\ Value(b, u) = pk + g
  BY Zenon DEF Value
<1>4. Within(h + pp, g + gain, n)
  BY Zenon
<1>. HIDE DEF h, g, k
<1>5. Precision * (k + paid) = pk + pp /\ pk \in Int /\ pp \in Int
  BY <1>2
<1>. HIDE DEF pk, pp
<1>6. Within((pk + pp) + h, (pk + g) + gain, n)
  BY <1>2, <1>4, <1>5 DEF Within, Abs
<1>. QED
  BY <1>3, <1>5, <1>6, Zenon

\* What rounding may cost a trade that changes what an account holds.
Rounding(n, before, after) ==
  /\ before # after
  /\ n <= 3 * Precision \/ \E p \in after : n <= 3 * Precision + p.size

\* A trade of an account in a market: up to rounding, its value moves by the PnL
\* of the size at the oracle's price.
Traded(b, c, u, m, long, size, px) ==
  /\ c.positions[u] \subseteq Priced
  /\ InBand(m, px)
  /\ \E n \in Nat : /\ Rounding(n, b.positions[u], c.positions[u])
                    /\ Within(Value(c, u), Value(b, u) + Edge(m, long, size, px), n)

LEMMA OpenTrades ==
  ASSUME IndexesAgree, OracleTyped, NEW b, Sound(b), NEW u \in Users, b.positions[u] \subseteq Priced,
         NEW m \in Markets, NEW long \in BOOLEAN, NEW size \in Nat \ {0}, NEW px \in Nat,
         \A p \in b.positions[u] : p.market # m, NEW c \in OpenPosition(b, u, m, size, long, px)
  PROVE  /\ c.positions[u] \subseteq Priced /\ InBand(m, px)
         /\ \E p \in c.positions[u] \ b.positions[u] : p.market = m
         /\ Within(Value(c, u), Value(b, u) + Edge(m, long, size, px), 0)
         /\ Traded(b, c, u, m, long, size, px)
<1>. DEFINE held == OpenedTo(b, u, m, long, size, px)
            gain == Edge(m, long, size, px)
            new == Fresh(b, m, long, size, px)
<1>1. Quoted
  BY VaultReads
<1>2. InBand(m, px) /\ Left(b, c, u, held, 0) /\ Moved(b, c, u, m, Signed(long, size))
  BY <1>1, OpenMoves
<1>3. Sound(c) /\ c.positions[u] = held /\ c.bal[u][Settlement] = b.bal[u][Settlement] + 0
  BY <1>2 DEF Moved, Left
<1>4. /\ held \subseteq Priced /\ gain \in Int
      /\ HeldAt(held, price, vaultFunding) = HeldAt(b.positions[u], price, vaultFunding) + gain
  BY OpenValue
<1>5. new \in held \ b.positions[u] /\ new.market = m
  <2>1. new \in held
    BY DEF OpenedTo
  <2>2. new.market = m
    BY DEF Fresh
  <2>. QED
    BY <2>1, <2>2
<1>6. Within(HeldAt(held, price, vaultFunding) + Precision * 0, HeldAt(b.positions[u], price, vaultFunding) + gain, 0)
  <2>1. HeldAt(b.positions[u], price, vaultFunding) \in Int
    BY ValueType
  <2>. HIDE DEF held, gain
  <2>. QED
    BY <1>4, <2>1 DEF Within, Abs
<1>. HIDE DEF held, gain, new
<1>7. Within(Value(c, u), Value(b, u) + gain, 0)
  <2>1. 0 \in Int /\ 0 \in Nat
    OBVIOUS
  <2>. QED
    BY <1>3, <1>4, <1>6, <2>1, LeftValue
<1>8. Rounding(0, b.positions[u], c.positions[u])
  <2>1. 0 <= 3 * Precision
    OBVIOUS
  <2>. QED
    BY <1>3, <1>5, <2>1, Zenon DEF Rounding
<1>9. c.positions[u] \subseteq Priced /\ 0 \in Nat
  BY <1>3, <1>4
<1>10. Traded(b, c, u, m, long, size, px)
  BY <1>2, <1>7, <1>8, <1>9, Zenon DEF Traded, gain
<1>. QED
  BY <1>2, <1>3, <1>5, <1>7, <1>9, <1>10, Zenon DEF gain

LEMMA IncreaseTrades ==
  ASSUME IndexesAgree, OracleTyped, NEW b, Sound(b), NEW u \in Users, b.positions[u] \subseteq Priced,
         NEW p \in b.positions[u], NEW size \in Nat \ {0}, NEW px \in Nat,
         NEW c \in IncreasePosition(b, u, p, size, px)
  PROVE  Traded(b, c, u, p.market, p.long, size, px)
<1>. DEFINE held == GrownTo(b, u, p, size, px)
            gain == Edge(p.market, p.long, size, px)
            grown == Grown(p, size, px)
            n == 3 * Precision + grown.size
            paid == Accrued(p)
<1>1. Quoted /\ p \in Position /\ p.market \in Markets /\ p.long \in BOOLEAN
  BY VaultReads, PricedType
<1>2. InBand(p.market, px) /\ Left(b, c, u, held, paid) /\ Moved(b, c, u, p.market, Signed(p.long, size))
  BY <1>1, IncreaseMoves
<1>3. Sound(c) /\ c.positions[u] = held /\ c.bal[u][Settlement] = b.bal[u][Settlement] + paid
  BY <1>2 DEF Moved, Left
<1>4. /\ held \subseteq Priced /\ grown \in held \ b.positions[u]
      /\ Within(HeldAt(held, price, vaultFunding) + Precision * paid,
                HeldAt(b.positions[u], price, vaultFunding) + gain, n)
  BY GrowValue
<1>5. gain \in Int
  BY <1>1, EdgeType
<1>6. paid \in Int
  <2>1. p.size \in Int /\ p.index \in Int /\ FundingIndex(p.market, p.long) \in Int
    BY <1>1, VaultReads DEF Position
  <2>. QED
    BY <2>1, PnlTypes DEF Accrued
<1>7. grown.size \in Nat
  BY <1>4, PricedType
<1>. HIDE DEF held, gain, grown, paid
<1>8. n \in Nat
  BY <1>7
<1>9. Rounding(n, b.positions[u], c.positions[u])
  <2>1. n <= 3 * Precision + grown.size
    BY <1>7
  <2>. HIDE DEF n
  <2>. QED
    BY <1>3, <1>4, <2>1, Zenon DEF Rounding
<1>. HIDE DEF n
<1>10. Within(Value(c, u), Value(b, u) + gain, n)
  BY <1>3, <1>4, <1>5, <1>6, <1>8, LeftValue
<1>11. c.positions[u] \subseteq Priced
  BY <1>3, <1>4
<1>. QED
  BY <1>2, <1>8, <1>9, <1>10, <1>11, Zenon DEF Traded, gain

LEMMA ReduceTrades ==
  ASSUME IndexesAgree, OracleTyped, NEW b, Sound(b), NEW u \in Users, b.positions[u] \subseteq Priced,
         NEW p \in b.positions[u], NEW size \in Nat \ {0}, NEW px \in Nat,
         NEW c \in ReducedBooks(b, u, p, size, px)
  PROVE  /\ c.positions[u] \subseteq Priced /\ InBand(p.market, px) /\ p \notin c.positions[u]
         /\ Within(Value(c, u), Value(b, u) + Edge(p.market, ~p.long, size, px), 2 * Precision)
         /\ Traded(b, c, u, p.market, ~p.long, size, px)
<1>. DEFINE held == ReducedTo(b, u, p, size)
            paid == Accrued(p) + PricePnl(p.long, size, p.entry, px)
            other == ~p.long
            gain == Edge(p.market, other, size, px)
            exact == PaidOn(p, size, px)
            n == 2 * Precision
<1>1. /\ Quoted /\ p \in Position /\ p.market \in Markets /\ p.long \in BOOLEAN /\ other \in BOOLEAN
      /\ p.entry \in Nat /\ p.index \in Int /\ p \in Priced
  BY VaultReads, PricedType
<1>2. size <= p.size /\ InBand(p.market, px) /\ Left(b, c, u, held, paid) /\ Moved(b, c, u, p.market, Signed(p.long, -size))
  BY <1>1, ReduceMoves
<1>3. Sound(c) /\ c.positions[u] = held /\ c.bal[u][Settlement] = b.bal[u][Settlement] + paid
  BY <1>2 DEF Moved, Left
<1>4. /\ held \subseteq Priced /\ HeldAt(held, price, vaultFunding) \in Int
      /\ HeldAt(held, price, vaultFunding) + exact = HeldAt(b.positions[u], price, vaultFunding) + gain
  BY <1>2, ReduceValue
<1>5. gain \in Int
  <2>. HIDE DEF other
  <2>. QED
    BY <1>1, EdgeType
<1>6. FundingIndex(p.market, p.long) \in Int
  BY <1>1, VaultReads
<1>7. Within(Precision * paid, exact, n) /\ paid \in Int
  BY <1>1, <1>6, PaidNearly
<1>8. p \notin held
  <2>1. CASE size = p.size
    BY <2>1 DEF ReducedTo
  <2>2. CASE size # p.size
    <3>1. Rest(p, size).size = p.size - size
      <4>1. size < p.size
        BY <1>1, <1>2, <2>2 DEF Position
      <4>. QED
        BY <1>1, <1>6, <4>1, RestFields
    <3>2. Rest(p, size).size # p.size
      <4>1. p.size \in Nat
        BY <1>1 DEF Position
      <4>. QED
        BY <3>1, <4>1
    <3>. QED
      BY <2>2, <3>2 DEF ReducedTo
  <2>. QED
    BY <2>1, <2>2
<1>. HIDE DEF held, gain, paid, exact
<1>9. Within(HeldAt(held, price, vaultFunding) + Precision * paid,
             HeldAt(b.positions[u], price, vaultFunding) + gain, n)
  <2>. DEFINE pp == Precision * paid
              h == HeldAt(held, price, vaultFunding)
              g == HeldAt(b.positions[u], price, vaultFunding)
  <2>1. g \in Int /\ h \in Int /\ h + exact = g + gain /\ Within(pp, exact, n)
    BY <1>4, <1>7, ValueType
  <2>. HIDE DEF pp, h, g
  <2>2. Within(h + pp, g + gain, n)
    BY <1>5, <2>1 DEF Within, Abs
  <2>. QED
    BY <2>2 DEF pp, h, g
<1>10. n \in Nat /\ n <= 3 * Precision
  OBVIOUS
<1>. HIDE DEF n
<1>11. Within(Value(c, u), Value(b, u) + gain, n)
  BY <1>3, <1>4, <1>5, <1>7, <1>9, <1>10, LeftValue
<1>12. Rounding(n, b.positions[u], c.positions[u])
  BY <1>3, <1>8, <1>10, Zenon DEF Rounding
<1>13. c.positions[u] \subseteq Priced /\ p \notin c.positions[u]
  BY <1>3, <1>4, <1>8
<1>14. Traded(b, c, u, p.market, other, size, px)
  BY <1>2, <1>10, <1>11, <1>12, <1>13, Zenon DEF Traded, gain
<1>. QED
  BY <1>2, <1>11, <1>13, <1>14, Zenon DEF gain, n

LEMMA SideTrades ==
  ASSUME IndexesAgree, OracleTyped, NEW b, Sound(b), NEW u \in Users, b.positions[u] \subseteq Priced,
         NEW m \in Markets, NEW long \in BOOLEAN, NEW reduceOnly \in BOOLEAN,
         NEW size \in Nat \ {0}, NEW px \in Nat,
         NEW c \in SettleUserSide(b, u, m, long, reduceOnly, size, px)
  PROVE  Traded(b, c, u, m, long, size, px)
<1>. DEFINE here == {p \in b.positions[u] : p.market = m}
            opposite == {p \in here : p.long # long}
<1>1. Quoted
  BY VaultReads
<1>2. CASE opposite # {}
  <2>1. PICK p \in opposite :
          c \in UNION {IF Least(p.size, size) = size THEN {d}
                       ELSE IF reduceOnly THEN {}
                       ELSE OpenPosition(d, u, m, size - Least(p.size, size), long, px) :
                       d \in ReducePosition(b, u, p, Least(p.size, size), px)}
    BY <1>2, ZenonT(60) DEF SettleUserSide
  <2>. DEFINE close == Least(p.size, size)
              residual == size - close
  <2>2. PICK d \in ReducePosition(b, u, p, close, px) :
          c \in IF close = size THEN {d} ELSE IF reduceOnly THEN {}
                ELSE OpenPosition(d, u, m, residual, long, px)
    BY <2>1, Zenon
  <2>3. p \in b.positions[u] /\ p.market = m /\ p.long # long /\ p.long \in BOOLEAN /\ p.size \in Nat \ {0}
    <3>1. p \in b.positions[u] /\ p.market = m /\ p.long # long /\ p \in Priced
      OBVIOUS
    <3>2. p.long \in BOOLEAN /\ p.size \in Nat \ {0}
      BY <3>1, PricedType
    <3>. QED
      BY <3>1, <3>2
  <2>4. close \in Nat \ {0} /\ close <= size /\ (close = size \/ close = p.size)
    BY <2>3 DEF Least
  <2>5. d \in ReducedBooks(b, u, p, close, px)
    BY <2>2 DEF ReducePosition
  <2>. HIDE DEF close
  <2>6. /\ Moved(b, d, u, p.market, Signed(p.long, -close))
        /\ close = p.size => d.positions[u] = b.positions[u] \ {p}
    BY <1>1, <2>3, <2>4, <2>5, ReduceMoves
  <2>7. /\ d.positions[u] \subseteq Priced
        /\ Within(Value(d, u), Value(b, u) + Edge(p.market, ~p.long, close, px), 2 * Precision)
        /\ Traded(b, d, u, p.market, ~p.long, close, px)
    BY <2>3, <2>4, <2>5, ReduceTrades
  <2>8. (~p.long) = long
    BY <2>3
  <2>9. /\ Traded(b, d, u, m, long, close, px)
        /\ Within(Value(d, u), Value(b, u) + Edge(m, long, close, px), 2 * Precision)
    BY <2>3, <2>7, <2>8, Zenon
  <2>10. CASE close = size
    <3>1. c = d
      BY <2>2, <2>10
    <3>. QED
      BY <2>9, <2>10, <3>1
  <2>11. CASE close # size
    <3>1. c \in OpenPosition(d, u, m, residual, long, px)
      BY <2>2, <2>11
    <3>2. residual \in Nat \ {0}
      BY <2>4, <2>11
    <3>3. Sound(d) /\ \A q \in d.positions[u] : q.market # m
      BY <2>3, <2>4, <2>6, <2>11 DEF Moved, Sound, Separate
    <3>4. /\ Edge(m, long, close, px) \in Int /\ Edge(m, long, size, px) \in Int
          /\ Edge(m, long, size, px) = Edge(m, long, close, px) + Edge(m, long, residual, px)
      <4>1. close \in Nat /\ residual \in Nat /\ size \in Nat /\ size = close + residual
        BY <2>4, <3>2
      <4>. HIDE DEF residual
      <4>2. Edge(m, long, size, px) = Edge(m, long, close, px) + Edge(m, long, residual, px)
        BY <4>1, EdgeSplits
      <4>3. Edge(m, long, close, px) \in Int /\ Edge(m, long, size, px) \in Int
        BY <4>1, EdgeType
      <4>. QED
        BY <4>2, <4>3
    <3>5. Edge(m, long, residual, px) \in Int
      <4>. HIDE DEF residual
      <4>. QED
        BY <3>2, EdgeType
    <3>. HIDE DEF residual
    <3>6. /\ c.positions[u] \subseteq Priced /\ InBand(m, px)
          /\ \E q \in c.positions[u] \ d.positions[u] : q.market = m
          /\ Within(Value(c, u), Value(d, u) + Edge(m, long, residual, px), 0)
      BY <2>7, <3>1, <3>2, <3>3, OpenTrades
    <3>7. Value(b, u) \in Int
      BY ValueType
    <3>8. Within(Value(c, u), Value(b, u) + Edge(m, long, size, px), 2 * Precision)
      BY <2>9, <3>4, <3>5, <3>6, <3>7 DEF Within, Abs
    <3>9. Rounding(2 * Precision, b.positions[u], c.positions[u])
      <4>1. PICK q \in c.positions[u] \ d.positions[u] : q.market = m
        BY <3>6
      <4>2. b.positions[u] # c.positions[u]
        <5>1. SUFFICES ASSUME b.positions[u] = c.positions[u] PROVE FALSE
          OBVIOUS
        <5>2. q = p
          BY <2>3, <4>1, <5>1 DEF Sound, Separate
        <5>3. c.positions[u] = (d.positions[u] \cup {Fresh(d, m, long, residual, px)})
          <6>1. Left(d, c, u, OpenedTo(d, u, m, long, residual, px), 0)
            BY <1>1, <3>1, <3>2, <3>3, OpenMoves
          <6>. QED
            BY <6>1 DEF Left, OpenedTo
        <5>4. p = Fresh(d, m, long, residual, px)
          BY <4>1, <5>2, <5>3
        <5>. QED
          BY <2>3, <5>4 DEF Fresh
      <4>3. 2 * Precision <= 3 * Precision
        OBVIOUS
      <4>. QED
        BY <4>2, <4>3, Zenon DEF Rounding
    <3>10. 2 * Precision \in Nat
      OBVIOUS
    <3>. QED
      BY <3>6, <3>8, <3>9, <3>10, Zenon DEF Traded
  <2>. QED
    BY <2>10, <2>11
<1>3. CASE opposite = {} /\ here # {}
  <2>1. PICK p \in here : c \in IncreasePosition(b, u, p, size, px)
    BY <1>3 DEF SettleUserSide
  <2>2. p \in b.positions[u] /\ p.market = m /\ p.long = long
    BY <1>3
  <2>3. Traded(b, c, u, p.market, p.long, size, px)
    BY <2>1, <2>2, IncreaseTrades
  <2>. QED
    BY <2>2, <2>3
<1>4. CASE here = {}
  <2>1. c \in OpenPosition(b, u, m, size, long, px)
    BY <1>4 DEF SettleUserSide
  <2>2. \A p \in b.positions[u] : p.market # m
    BY <1>4
  <2>. QED
    BY <2>1, <2>2, OpenTrades
<1>. QED
  BY <1>2, <1>3, <1>4
-----------------------------------------------------------------------------
(* All balances in an asset, and all positions together. *)
Column(bals, a) == SumFunctionOnSet([u \in Accounts |-> bals[u][a]], Accounts)
PnlSum(ps, q, v) == SumFunctionOnSet([u \in Users |-> HeldAt(ps[u], q, v)], Users)

AllPriced(ps) == \A u \in Users : ps[u] \subseteq Priced /\ IsFiniteSet(ps[u])

LEMMA AccountsFinite == IsFiniteSet(Accounts)
<1>1. IsFiniteSet(Users \cup {FeeRecipient})
  BY FS_AddElement
<1>2. IsFiniteSet((Users \cup {FeeRecipient}) \cup {InsuranceAccount})
  BY <1>1, FS_AddElement
<1>3. Accounts = (Users \cup {FeeRecipient}) \cup {InsuranceAccount}
  BY DEF Accounts
<1>. QED
  BY <1>2, <1>3

\* An amount is added to one account's balance in an asset.
BalanceAdded(bals, bals2, u, a, n) ==
  /\ bals \in [Accounts -> [Assets -> Int]] /\ bals2 \in [Accounts -> [Assets -> Int]]
  /\ bals2[u][a] = bals[u][a] + n
  /\ \A w \in Accounts \ {u} : bals2[w] = bals[w]

LEMMA ColumnType ==
  ASSUME NEW bals \in [Accounts -> [Assets -> Int]], NEW a \in Assets
  PROVE  Column(bals, a) \in Int
<1>. DEFINE f == [u \in Accounts |-> bals[u][a]]
<1>1. \A u \in Accounts : f[u] \in Int
  OBVIOUS
<1>2. Column(bals, a) = SumFunctionOnSet(f, Accounts)
  BY Zenon DEF Column
<1>. HIDE DEF f
<1>. QED
  BY <1>1, <1>2, AccountsFinite, SumType

LEMMA ColumnMoves ==
  ASSUME NEW bals, NEW bals2, NEW u \in Accounts, NEW a \in Assets, NEW n \in Int,
         BalanceAdded(bals, bals2, u, a, n)
  PROVE  Column(bals, a) \in Int /\ Column(bals2, a) = Column(bals, a) + n
<1>. DEFINE f == [w \in Accounts |-> bals[w][a]]
            g == [w \in Accounts |-> bals2[w][a]]
<1>1. \A w \in Accounts : f[w] \in Int /\ g[w] \in Int
  BY DEF BalanceAdded
<1>2. g[u] = f[u] + n
  BY DEF BalanceAdded
<1>3. \A w \in Accounts \ {u} : g[w] = f[w]
  BY DEF BalanceAdded
<1>4. Column(bals, a) = SumFunctionOnSet(f, Accounts) /\ Column(bals2, a) = SumFunctionOnSet(g, Accounts)
  BY Zenon DEF Column
<1>. HIDE DEF f, g
<1>5. SumFunctionOnSet(f, Accounts) \in Int
  BY <1>1, AccountsFinite, SumType
<1>6. SumFunctionOnSet(g, Accounts) = SumFunctionOnSet(f, Accounts) + g[u] - f[u]
  BY <1>1, <1>3, AccountsFinite, SumChange
<1>. QED
  BY <1>1, <1>2, <1>4, <1>5, <1>6

\* Balances that agree in an asset have the same sum.
LEMMA ColumnSame ==
  ASSUME NEW bals, NEW bals2, NEW a, \A w \in Accounts : bals2[w][a] = bals[w][a]
  PROVE  Column(bals2, a) = Column(bals, a)
<1>1. [w \in Accounts |-> bals2[w][a]] = [w \in Accounts |-> bals[w][a]]
  OBVIOUS
<1>. QED
  BY <1>1, Zenon DEF Column

LEMMA PnlMoves ==
  ASSUME NEW ps, NEW ps2, AllPriced(ps), AllPriced(ps2), NEW q, NEW v, Reading(q, v), NEW u \in Users,
         \A w \in Users \ {u} : ps2[w] = ps[w]
  PROVE  /\ PnlSum(ps, q, v) \in Int
         /\ PnlSum(ps2, q, v) = PnlSum(ps, q, v) + HeldAt(ps2[u], q, v) - HeldAt(ps[u], q, v)
<1>. DEFINE f == [w \in Users |-> HeldAt(ps[w], q, v)]
            g == [w \in Users |-> HeldAt(ps2[w], q, v)]
<1>1. \A w \in Users : f[w] \in Int /\ g[w] \in Int
  <2>1. \A w \in Users : HeldAt(ps[w], q, v) \in Int /\ HeldAt(ps2[w], q, v) \in Int
    BY HeldPieces DEF AllPriced
  <2>. QED
    BY <2>1
<1>2. g[u] = HeldAt(ps2[u], q, v) /\ f[u] = HeldAt(ps[u], q, v)
  OBVIOUS
<1>3. \A w \in Users \ {u} : g[w] = f[w]
  OBVIOUS
<1>4. PnlSum(ps, q, v) = SumFunctionOnSet(f, Users) /\ PnlSum(ps2, q, v) = SumFunctionOnSet(g, Users)
  BY Zenon DEF PnlSum
<1>. HIDE DEF f, g
<1>5. SumFunctionOnSet(f, Users) \in Int
  BY <1>1, SumType
<1>6. SumFunctionOnSet(g, Users) = SumFunctionOnSet(f, Users) + g[u] - f[u]
  BY <1>1, <1>3, SumChange
<1>. QED
  BY <1>2, <1>4, <1>5, <1>6

Total(b) == Precision * Column(b.bal, Settlement) + PnlSum(b.positions, price, vaultFunding)

LEMMA TotalType ==
  ASSUME IndexesAgree, OracleTyped, NEW b, Sound(b), AllPriced(b.positions)
  PROVE  /\ Column(b.bal, Settlement) \in Int /\ PnlSum(b.positions, price, vaultFunding) \in Int
         /\ Total(b) \in Int
<1>1. b.bal \in [Accounts -> [Assets -> Int]]
  BY DEF Sound, BookShape
<1>2. Column(b.bal, Settlement) \in Int
  BY <1>1, ColumnType
<1>3. PnlSum(b.positions, price, vaultFunding) \in Int
  <2>. DEFINE f == [w \in Users |-> HeldAt(b.positions[w], price, vaultFunding)]
  <2>1. \A w \in Users : f[w] \in Int
    <3>1. \A w \in Users : HeldAt(b.positions[w], price, vaultFunding) \in Int
      BY VaultReads, HeldPieces DEF AllPriced
    <3>. QED
      BY <3>1
  <2>. HIDE DEF f
  <2>2. SumFunctionOnSet(f, Users) \in Int
    BY <2>1, SumType
  <2>. QED
    BY <2>2, Zenon DEF f, PnlSum
<1>. QED
  BY <1>2, <1>3 DEF Total

LEMMA TotalMoves ==
  ASSUME IndexesAgree, OracleTyped, NEW b, Sound(b), AllPriced(b.positions), NEW c, NEW u \in Users, NEW m, NEW net,
         Moved(b, c, u, m, net), c.positions[u] \subseteq Priced
  PROVE  /\ AllPriced(c.positions) /\ Total(b) \in Int
         /\ Total(c) = Total(b) + Value(c, u) - Value(b, u)
<1>1. /\ b.bal \in [Accounts -> [Assets -> Int]] /\ c.bal \in [Accounts -> [Assets -> Int]] /\ u \in Accounts
      /\ Sound(c)
  BY DEF Moved, Sound, BookShape, Accounts
<1>2. AllPriced(c.positions)
  <2>1. \A w \in Users : IsFiniteSet(c.positions[w])
    BY <1>1 DEF Sound, Separate
  <2>2. \A w \in Users \ {u} : c.positions[w] = b.positions[w]
    BY DEF Moved
  <2>. QED
    BY <2>1, <2>2 DEF AllPriced
<1>3. Reading(price, vaultFunding)
  BY VaultReads
<1>. DEFINE n == c.bal[u][Settlement] - b.bal[u][Settlement]
<1>4. n \in Int /\ c.bal[u][Settlement] = b.bal[u][Settlement] + n
  BY <1>1
<1>. HIDE DEF n
<1>5. Column(b.bal, Settlement) \in Int /\ Column(c.bal, Settlement) = Column(b.bal, Settlement) + n
  <2>1. BalanceAdded(b.bal, c.bal, u, Settlement, n)
    BY <1>1, <1>4 DEF Moved, BalanceAdded
  <2>. QED
    BY <1>1, <1>4, <2>1, ColumnMoves
<1>6. /\ PnlSum(b.positions, price, vaultFunding) \in Int
      /\ PnlSum(c.positions, price, vaultFunding)
           = PnlSum(b.positions, price, vaultFunding)
               + HeldAt(c.positions[u], price, vaultFunding) - HeldAt(b.positions[u], price, vaultFunding)
  <2>1. \A w \in Users \ {u} : c.positions[w] = b.positions[w]
    BY DEF Moved
  <2>. QED
    BY <1>2, <1>3, <2>1, PnlMoves
<1>7. /\ HeldAt(c.positions[u], price, vaultFunding) \in Int /\ HeldAt(b.positions[u], price, vaultFunding) \in Int
      /\ b.bal[u][Settlement] \in Int
  BY <1>1, ValueType DEF AllPriced
<1>8. Total(c) = Total(b) + Value(c, u) - Value(b, u) /\ Total(b) \in Int
  <2>. DEFINE s == Column(b.bal, Settlement)
              k == b.bal[u][Settlement]
              ps == Precision * s
              pk == Precision * k
              pn == Precision * n
              x == PnlSum(b.positions, price, vaultFunding)
              y == PnlSum(c.positions, price, vaultFunding)
              h == HeldAt(b.positions[u], price, vaultFunding)
              g == HeldAt(c.positions[u], price, vaultFunding)
  <2>1. /\ Total(b) = ps + x /\ Total(c) = Precision * (s + n) + y
        /\ Value(b, u) = pk + h /\ Value(c, u) = Precision * (k + n) + g
    BY <1>4, <1>5, Zenon DEF Total, Value
  <2>2. s \in Int /\ k \in Int /\ x \in Int /\ y = x + g - h /\ g \in Int /\ h \in Int
    BY <1>5, <1>6, <1>7
  <2>. HIDE DEF s, k, x, y, h, g
  <2>3. Precision * (s + n) = ps + pn /\ Precision * (k + n) = pk + pn /\ ps \in Int /\ pn \in Int /\ pk \in Int
    BY <1>4, <2>2
  <2>. HIDE DEF ps, pn, pk
  <2>. QED
    BY <2>1, <2>2, <2>3
<1>. QED
  BY <1>2, <1>8

\* A fee goes from the trader to the fee recipient.
LEMMA FeeMoves ==
  ASSUME IndexesAgree, OracleTyped, NEW b, Sound(b), AllPriced(b.positions), NEW u \in Users,
         NEW size \in Nat, NEW px \in Nat, NEW bps \in Nat, NEW c \in ChargeTradeFee(b, u, size, px, bps)
  PROVE  /\ Total(c) = Total(b)
         /\ ApplyBps(Notional(size, px), bps) \in Nat
         /\ Value(c, u) >= Value(b, u) - Precision * ApplyBps(Notional(size, px), bps)
<1>. DEFINE fee == ApplyBps(Notional(size, px), bps)
            minus == -fee
<1>0. fee \in Nat /\ fee \in Int /\ minus \in Int
  <2>1. Notional(size, px) \in Nat
    BY FixedTypes
  <2>2. fee \in Nat
    BY <2>1, FixedTypes
  <2>. QED
    BY <2>2
<1>1. CASE bps = 0
  <2>1. c = b
    BY <1>1 DEF ChargeTradeFee
  <2>2. Value(b, u) \in Int
    BY ValueType DEF AllPriced
  <2>. HIDE DEF fee
  <2>3. Value(b, u) >= Value(b, u) - Precision * fee
    <3>1. Precision * fee \in Nat
      BY <1>0
    <3>. QED
      BY <2>2, <3>1
  <2>. QED
    BY <1>0, <2>1, <2>3 DEF fee
<1>2. CASE bps # 0
  <2>1. PICK d \in ApplyPnl(b, u, minus) : c \in ApplyPnl(d, FeeRecipient, fee)
    BY <1>2 DEF ChargeTradeFee
  <2>. HIDE DEF fee
  <2>2. minus = -fee
    OBVIOUS
  <2>. HIDE DEF minus
  <2>3. u \in Accounts /\ FeeRecipient \in Accounts /\ FeeRecipient \notin Users
    BY DEF Accounts
  <2>4. b \in BookShape
    BY DEF Sound
  <2>5. Charged(b, d, u) /\ d.bal[u][Settlement] = b.bal[u][Settlement] + minus
    BY <1>0, <2>1, <2>3, <2>4, Paid, PaidAmount
  <2>6. d \in BookShape
    BY <2>5 DEF Charged
  <2>7. Charged(d, c, FeeRecipient) /\ c.bal[FeeRecipient][Settlement] = d.bal[FeeRecipient][Settlement] + fee
    BY <1>0, <2>1, <2>3, <2>6, Paid, PaidAmount
  <2>8. /\ b.bal \in [Accounts -> [Assets -> Int]] /\ d.bal \in [Accounts -> [Assets -> Int]]
        /\ c.bal \in [Accounts -> [Assets -> Int]]
    BY <2>4, <2>6, <2>7 DEF Charged, BookShape
  <2>9. Column(b.bal, Settlement) \in Int /\ Column(d.bal, Settlement) = Column(b.bal, Settlement) + minus
    <3>1. BalanceAdded(b.bal, d.bal, u, Settlement, minus)
      BY <2>3, <2>5, <2>8 DEF Charged, BalanceAdded
    <3>. QED
      BY <1>0, <2>3, <3>1, ColumnMoves
  <2>10. Column(c.bal, Settlement) = Column(d.bal, Settlement) + fee
    <3>1. BalanceAdded(d.bal, c.bal, FeeRecipient, Settlement, fee)
      BY <2>3, <2>7, <2>8 DEF Charged, BalanceAdded
    <3>. QED
      BY <1>0, <2>3, <3>1, ColumnMoves
  <2>11. c.positions = b.positions
    BY <2>5, <2>7 DEF Charged, SameTrades
  <2>12. Column(c.bal, Settlement) = Column(b.bal, Settlement)
    BY <1>0, <2>2, <2>9, <2>10
  <2>13. Total(c) = Total(b)
    BY <2>11, <2>12, Zenon DEF Total
  <2>14. c.bal[u] = d.bal[u]
    BY <2>3, <2>7 DEF Charged
  <2>15. Value(c, u) = Value(b, u) - Precision * fee /\ Value(b, u) \in Int
    <3>. DEFINE k == b.bal[u][Settlement]
                h == HeldAt(b.positions[u], price, vaultFunding)
                pk == Precision * k
                pf == Precision * fee
    <3>1. k \in Int /\ h \in Int /\ Value(b, u) \in Int
      BY ValueType DEF AllPriced
    <3>2. c.bal[u][Settlement] = k - fee
      BY <1>0, <2>2, <2>5, <2>14, <3>1
    <3>3. Value(b, u) = pk + h /\ Value(c, u) = Precision * (k - fee) + h
      BY <2>11, <3>2, Zenon DEF Value
    <3>. HIDE DEF k, h
    <3>4. Precision * (k - fee) = pk - pf /\ pk \in Int /\ pf \in Int
      BY <1>0, <3>1
    <3>5. Value(c, u) = Value(b, u) - pf
      <4>. HIDE DEF pk, pf
      <4>. QED
        BY <3>1, <3>3, <3>4
    <3>. QED
      BY <3>1, <3>5
  <2>16. Value(c, u) >= Value(b, u) - Precision * fee
    <3>1. Precision * fee \in Int
      BY <1>0
    <3>. QED
      BY <2>15, <3>1
  <2>. QED
    BY <1>0, <2>13, <2>16 DEF fee
<1>. QED
  BY <1>1, <1>2
-----------------------------------------------------------------------------
(* What an account holds net of the other side. *)
NetOf(held, m) ==
  SumFunction([p \in held |->
                 IF p.market # m THEN 0 ELSE IF p.long THEN p.size ELSE -p.size])

LEMMA NetHeld ==
  ASSUME NEW held \in SUBSET Position, IsFiniteSet(held), NEW m
  PROVE  /\ NetOf(held, m) = HeldBy(held, m, TRUE) - HeldBy(held, m, FALSE)
         /\ NetOf(held, m) \in Int
<1>. DEFINE f == [p \in held |-> IF p.market # m THEN 0 ELSE IF p.long THEN p.size ELSE -p.size]
            g == Weight(m, TRUE)
            h == Weight(m, FALSE)
<1>1. NetOf(held, m) = SumFunctionOnSet(f, held)
  BY Zenon DEF NetOf, SumFunction
<1>2. \A p \in held : g[p] \in Int /\ h[p] \in Int
  <2>1. \A p \in held : g[p] \in Nat /\ h[p] \in Nat
    BY WeightType
  <2>. HIDE DEF g, h
  <2>. QED
    BY <2>1
<1>3. ASSUME NEW p \in held
      PROVE  f[p] = g[p] + (-1) * h[p]
  <2>1. p \in Position /\ p.long \in BOOLEAN /\ p.size \in Int
    BY DEF Position
  <2>2. CASE p.market # m
    <3>1. f[p] = 0 /\ g[p] = 0 /\ h[p] = 0
      BY <2>1, <2>2 DEF Weight
    <3>. HIDE DEF f, g, h
    <3>. QED
      BY <3>1
  <2>3. CASE p.market = m /\ p.long = TRUE
    <3>1. f[p] = p.size /\ g[p] = p.size /\ h[p] = 0
      BY <2>1, <2>3 DEF Weight
    <3>. HIDE DEF f, g, h
    <3>. QED
      BY <2>1, <3>1
  <2>4. CASE p.market = m /\ p.long = FALSE
    <3>1. f[p] = -p.size /\ g[p] = 0 /\ h[p] = p.size
      BY <2>1, <2>4 DEF Weight
    <3>. HIDE DEF f, g, h
    <3>. QED
      BY <2>1, <3>1
  <2>. QED
    BY <2>1, <2>2, <2>3, <2>4
<1>. HIDE DEF f, g, h
<1>4. SumFunctionOnSet(f, held) = SumFunctionOnSet(g, held) + (-1) * SumFunctionOnSet(h, held)
  <2>1. -1 \in Int
    OBVIOUS
  <2>. QED
    BY <1>2, <1>3, <2>1, SumShift
<1>5. /\ HeldBy(held, m, TRUE) = SumFunctionOnSet(g, held) /\ HeldBy(held, m, FALSE) = SumFunctionOnSet(h, held)
      /\ HeldBy(held, m, TRUE) \in Nat /\ HeldBy(held, m, FALSE) \in Nat
  BY HeldByWeight DEF g, h
<1>. DEFINE x == HeldBy(held, m, TRUE)
            y == HeldBy(held, m, FALSE)
            z == NetOf(held, m)
<1>6. x \in Nat /\ y \in Nat /\ z = x + (-1) * y
  BY <1>1, <1>4, <1>5
<1>7. z = x - y /\ z \in Int
  <2>. HIDE DEF x, y, z
  <2>. QED
    BY <1>6
<1>. QED
  BY <1>7

\* Between two sound books that differ in one account's positions, its net moves like the sides of the market.
LEMMA NetMoves ==
  ASSUME NEW b, Sound(b), NEW u \in Users, NEW m, NEW net \in Int, NEW c, Moved(b, c, u, m, net), NEW n \in Markets
  PROVE  /\ NetOf(b.positions[u], n) \in Int /\ NetOf(c.positions[u], n) \in Int
         /\ NetOf(c.positions[u], n) = NetOf(b.positions[u], n) + IF n = m THEN net ELSE 0
<1>. DEFINE old == b.positions[u]
            new == c.positions[u]
<1>1. /\ Sound(c) /\ b.positions \in [Users -> SUBSET Position] /\ c.positions \in [Users -> SUBSET Position]
      /\ \A v \in Users : IsFiniteSet(b.positions[v]) /\ IsFiniteSet(c.positions[v])
  BY DEF Moved, Sound, BookShape, Separate
<1>2. c.positions = [b.positions EXCEPT ![u] = new]
  BY <1>1 DEF Moved
<1>3. old \in SUBSET Position /\ IsFiniteSet(old) /\ new \in SUBSET Position /\ IsFiniteSet(new)
  BY <1>1
<1>4. ASSUME NEW long \in BOOLEAN
      PROVE  /\ HeldIn(b.positions, n, long) \in Nat /\ HeldBy(old, n, long) \in Nat /\ HeldBy(new, n, long) \in Nat
             /\ HeldIn(c.positions, n, long)
                  = HeldIn(b.positions, n, long) + HeldBy(new, n, long) - HeldBy(old, n, long)
  <2>1. HeldBy(old, n, long) \in Nat /\ HeldBy(new, n, long) \in Nat
    BY <1>3, HeldByWeight
  <2>2. /\ HeldIn(b.positions, n, long) \in Nat
        /\ HeldIn(c.positions, n, long) = HeldIn(b.positions, n, long) + HeldBy(new, n, long) - HeldBy(b.positions[u], n, long)
    <3>. HIDE DEF new
    <3>. QED
      BY <1>1, <1>2, <1>3, HeldInMoves
  <2>. QED
    BY <2>1, <2>2
<1>5. /\ Apart(b, n) = HeldIn(b.positions, n, TRUE) - HeldIn(b.positions, n, FALSE)
      /\ Apart(c, n) = HeldIn(c.positions, n, TRUE) - HeldIn(c.positions, n, FALSE)
  <2>1. ASSUME NEW d, Sound(d)
        PROVE  Apart(d, n) = HeldIn(d.positions, n, TRUE) - HeldIn(d.positions, n, FALSE)
    <3>. DEFINE x == HeldIn(d.positions, n, TRUE)
                y == HeldIn(d.positions, n, FALSE)
    <3>1. d.oi[n] = [total |-> x + y, long |-> x, short |-> y]
      BY <2>1 DEF Sound, Counted
    <3>. HIDE DEF x, y
    <3>2. d.oi[n].long = x /\ d.oi[n].short = y
      BY <3>1
    <3>. QED
      BY <3>2, Zenon DEF Apart, x, y
  <2>. QED
    BY <1>1, <2>1
<1>6. Apart(c, n) = Apart(b, n) + IF n = m THEN net ELSE 0
  BY DEF Moved
<1>7. /\ NetOf(old, n) = HeldBy(old, n, TRUE) - HeldBy(old, n, FALSE) /\ NetOf(old, n) \in Int
      /\ NetOf(new, n) = HeldBy(new, n, TRUE) - HeldBy(new, n, FALSE) /\ NetOf(new, n) \in Int
  BY <1>3, NetHeld
<1>8. TRUE \in BOOLEAN /\ FALSE \in BOOLEAN
  OBVIOUS
<1>. DEFINE d == IF n = m THEN net ELSE 0
            w == NetOf(old, n)
            z == NetOf(new, n)
            inT == HeldIn(b.positions, n, TRUE)
            inF == HeldIn(b.positions, n, FALSE)
            inT2 == HeldIn(c.positions, n, TRUE)
            inF2 == HeldIn(c.positions, n, FALSE)
            byT == HeldBy(old, n, TRUE)
            byF == HeldBy(old, n, FALSE)
            byT2 == HeldBy(new, n, TRUE)
            byF2 == HeldBy(new, n, FALSE)
<1>9. /\ inT \in Nat /\ byT \in Nat /\ byT2 \in Nat /\ inT2 = inT + byT2 - byT
      /\ inF \in Nat /\ byF \in Nat /\ byF2 \in Nat /\ inF2 = inF + byF2 - byF
  BY <1>4, <1>8, Zenon
<1>10. /\ w = byT - byF /\ z = byT2 - byF2 /\ w \in Int /\ z \in Int
       /\ inT2 - inF2 = (inT - inF) + d
  BY <1>5, <1>6, <1>7, Zenon
<1>11. d \in Int
  OBVIOUS
<1>12. z = w + d
  <2>. HIDE DEF d, w, z, inT, inF, inT2, inF2, byT, byF, byT2, byF2
  <2>. QED
    BY <1>9, <1>10, <1>11
<1>. QED
  BY <1>10, <1>12, Zenon
-----------------------------------------------------------------------------
(* A user's side of a fill with its fee, and the fill. *)
Halved(b, c, u, m, long, size, px, bps) ==
  /\ Sound(c) /\ AllPriced(c.positions)
  /\ \A v \in Users \ {u} : c.positions[v] = b.positions[v] /\ c.bal[v] = b.bal[v]
  /\ InBand(m, px)
  /\ \A n \in Markets : NetOf(c.positions[u], n) = NetOf(b.positions[u], n) + IF n = m THEN Signed(long, size) ELSE 0
  /\ \E e \in Nat :
       /\ Rounding(e, b.positions[u], c.positions[u])
       /\ Within(Total(c), Total(b) + Edge(m, long, size, px), e)
       /\ Value(c, u) >= Value(b, u) + Edge(m, long, size, px) - e - Precision * ApplyBps(Notional(size, px), bps)

LEMMA HalfFill ==
  ASSUME IndexesAgree, OracleTyped, NEW b, Sound(b), AllPriced(b.positions), NEW u \in Users,
         NEW m \in Markets, NEW long \in BOOLEAN, NEW reduceOnly \in BOOLEAN,
         NEW size \in Nat \ {0}, NEW px \in Nat, NEW bps \in Nat,
         NEW s \in SettleUserSide(b, u, m, long, reduceOnly, size, px),
         NEW c \in ChargeTradeFee(s, u, size, px, bps)
  PROVE  Halved(b, c, u, m, long, size, px, bps)
<1>. DEFINE edge == Edge(m, long, size, px)
            fee == ApplyBps(Notional(size, px), bps)
            cost == Precision * fee
<1>1. b.positions[u] \subseteq Priced /\ Quoted
  BY VaultReads DEF AllPriced
<1>2. Traded(b, s, u, m, long, size, px)
  BY <1>1, SideTrades
<1>3. Moved(b, s, u, m, Signed(long, size)) /\ AboveInitialMargin(s, u)
  BY <1>1, SideMoves
<1>4. Sound(s) /\ s.positions[u] \subseteq Priced
  BY <1>2, <1>3 DEF Moved, Traded
<1>5. /\ AllPriced(s.positions) /\ Total(b) \in Int
      /\ Total(s) = Total(b) + Value(s, u) - Value(b, u)
  BY <1>3, <1>4, TotalMoves
<1>6. size \in Nat
  OBVIOUS
<1>7. /\ Total(c) = Total(s) /\ fee \in Nat
      /\ Value(c, u) >= Value(s, u) - cost
  BY <1>4, <1>5, <1>6, FeeMoves
<1>8. /\ Sound(c) /\ SameTrades(s, c)
      /\ \A v \in Users \ {u} : c.bal[v] = s.bal[v]
  BY <1>3, <1>4, <1>6, FeeKeeps
<1>9. c.positions = s.positions
  BY <1>8 DEF SameTrades
<1>10. PICK e \in Nat : /\ Rounding(e, b.positions[u], s.positions[u])
                        /\ Within(Value(s, u), Value(b, u) + edge, e)
  BY <1>2 DEF Traded
<1>11. Value(s, u) \in Int /\ Value(b, u) \in Int
  BY <1>1, <1>4, ValueType
<1>12. Value(c, u) \in Int
  <2>1. c.positions[u] \subseteq Priced
    BY <1>4, <1>9
  <2>. QED
    BY <1>8, <2>1, ValueType
<1>13. edge \in Int /\ cost \in Int
  <2>1. Edge(m, long, size, px) \in Int
    BY <1>6, EdgeType
  <2>2. cost \in Int
    BY <1>7
  <2>. QED
    BY <2>1, <2>2
<1>14. /\ AllPriced(c.positions) /\ InBand(m, px)
       /\ Rounding(e, b.positions[u], c.positions[u])
  BY <1>2, <1>5, <1>9, <1>10 DEF Traded
<1>15. \A v \in Users \ {u} : c.positions[v] = b.positions[v] /\ c.bal[v] = b.bal[v]
  BY <1>3, <1>8, <1>9 DEF Moved, Accounts
<1>. HIDE DEF edge, fee, cost
<1>16. Within(Total(c), Total(b) + edge, e)
  BY <1>5, <1>7, <1>10, <1>11, <1>13 DEF Within, Abs
<1>17. \A n \in Markets : NetOf(c.positions[u], n) = NetOf(b.positions[u], n) + IF n = m THEN Signed(long, size) ELSE 0
  <2>1. size \in Int
    BY <1>6
  <2>2. Signed(long, size) \in Int
    BY <2>1, SignedType
  <2>. DEFINE net == Signed(long, size)
  <2>3. net \in Int /\ Moved(b, s, u, m, net)
    BY <1>3, <2>2
  <2>. HIDE DEF net
  <2>4. \A n \in Markets : NetOf(s.positions[u], n) = NetOf(b.positions[u], n) + IF n = m THEN net ELSE 0
    BY <2>3, NetMoves
  <2>. QED
    BY <1>9, <2>4 DEF net
<1>18. Value(c, u) >= Value(b, u) + edge - e - cost
  BY <1>7, <1>10, <1>11, <1>12, <1>13 DEF Within, Abs
<1>. QED
  BY <1>8, <1>10, <1>14, <1>15, <1>16, <1>17, <1>18, Zenon DEF edge, fee, cost, Halved

\* What the two sides of a fill gain and lose against the oracle's price cancels.
LEMMA EdgesCancel ==
  ASSUME OracleTyped, NEW m \in Markets, NEW long \in BOOLEAN, NEW size \in Nat, NEW px \in Nat
  PROVE  /\ Edge(m, long, size, px) \in Int /\ Edge(m, ~long, size, px) \in Int
         /\ Edge(m, long, size, px) + Edge(m, ~long, size, px) = 0
<1>1. price[m] \in Nat
  BY DEF OracleTyped, Feeds
<1>. DEFINE x == size * price[m] - size * px
<1>2. x \in Int
  BY <1>1
<1>3. Edge(m, long, size, px) = Signed(long, x) /\ Edge(m, ~long, size, px) = Signed(~long, x)
  BY DEF Edge
<1>. HIDE DEF x
<1>. QED
  BY <1>2, <1>3, SignedType, SMTT(30)

Rounded(b, c, maker, taker) ==
  \E x, y \in Nat : /\ Rounding(x, b.positions[maker], c.positions[maker])
                    /\ Rounding(y, b.positions[taker], c.positions[taker])
                    /\ Within(Total(c), Total(b), x + y)

\* A fill leaves the accounts and the fee recipient with what they had, but for
\* the rounding of what the two accounts are paid and of their average entry prices.
LEMMA FillTotal ==
  ASSUME IndexesAgree, OracleTyped, NEW b, Sound(b), AllPriced(b.positions), NEW maker \in Users, NEW taker \in Users,
         maker # taker, NEW m \in Markets, NEW long \in BOOLEAN, NEW size \in Nat \ {0}, NEW px \in Nat,
         NEW s, NEW c, NEW makerBps, NEW takerBps, NEW other, other = ~long,
         Halved(b, s, maker, m, long, size, px, makerBps), Halved(s, c, taker, m, other, size, px, takerBps)
  PROVE  Rounded(b, c, maker, taker)
<1>1. PICK x \in Nat : /\ Rounding(x, b.positions[maker], s.positions[maker])
                       /\ Within(Total(s), Total(b) + Edge(m, long, size, px), x)
  BY DEF Halved
<1>2. PICK y \in Nat : /\ Rounding(y, s.positions[taker], c.positions[taker])
                       /\ Within(Total(c), Total(s) + Edge(m, other, size, px), y)
  BY DEF Halved
<1>3. s.positions[taker] = b.positions[taker] /\ c.positions[maker] = s.positions[maker]
  BY DEF Halved
<1>5. Total(b) \in Int
  BY TotalType
<1>6. Within(Total(c), Total(b), x + y)
  <2>1. size \in Nat
    OBVIOUS
  <2>2. /\ Edge(m, long, size, px) \in Int /\ Edge(m, ~long, size, px) \in Int
        /\ Edge(m, long, size, px) + Edge(m, ~long, size, px) = 0
    BY <2>1, EdgesCancel
  <2>. DEFINE g == Edge(m, long, size, px)
              h == Edge(m, other, size, px)
  <2>3. g \in Int /\ h \in Int /\ g + h = 0 /\ Within(Total(s), Total(b) + g, x) /\ Within(Total(c), Total(s) + h, y)
    <3>1. h = Edge(m, ~long, size, px)
      BY Zenon
    <3>. QED
      BY <1>1, <1>2, <2>2, <3>1
  <2>. HIDE DEF g, h
  <2>. QED
    BY <1>5, <2>3 DEF Within, Abs
<1>. QED
  BY <1>1, <1>2, <1>3, <1>6 DEF Rounded

LEMMA FillBooks ==
  ASSUME ClearingInv, AllPriced(positions), NEW maker \in Users, NEW taker \in Users, NEW m \in Markets,
         NEW makerLong \in BOOLEAN, NEW makerReduces \in BOOLEAN, NEW takerReduces \in BOOLEAN,
         NEW size \in FillSizes, NEW px \in FillPrices,
         SettleFill(maker, taker, m, makerLong, makerReduces, takerReduces, size, px)
  PROVE  /\ maker # taker
         /\ \E s, c : /\ Halved(book, s, maker, m, makerLong, size, px, Market[m].makerFee)
                      /\ Halved(s, c, taker, m, ~makerLong, size, px, Market[m].takerFee)
                      /\ Filled(book, c, maker, taker)
                      /\ BecomesBook(c)
         /\ UNCHANGED <<fundingVars, custody, insurance, paused, price, now>>
<1>1. PICK s1 \in SettleUserSide(book, maker, m, makerLong, makerReduces, size, px) :
        \E s2 \in ChargeTradeFee(s1, maker, size, px, Market[m].makerFee) :
        \E s3 \in SettleUserSide(s2, taker, m, ~makerLong, takerReduces, size, px) :
        \E s4 \in ChargeTradeFee(s3, taker, size, px, Market[m].takerFee) :
           BecomesBook(s4)
  BY DEF SettleFill
<1>2. PICK s2 \in ChargeTradeFee(s1, maker, size, px, Market[m].makerFee) :
        \E s3 \in SettleUserSide(s2, taker, m, ~makerLong, takerReduces, size, px) :
        \E s4 \in ChargeTradeFee(s3, taker, size, px, Market[m].takerFee) :
           BecomesBook(s4)
  BY <1>1
<1>3. PICK s3 \in SettleUserSide(s2, taker, m, ~makerLong, takerReduces, size, px) :
        \E s4 \in ChargeTradeFee(s3, taker, size, px, Market[m].takerFee) :
           BecomesBook(s4)
  BY <1>2
<1>4. PICK s4 \in ChargeTradeFee(s3, taker, size, px, Market[m].takerFee) : BecomesBook(s4)
  BY <1>3
<1>5. /\ maker # taker
      /\ UNCHANGED <<fundingVars, custody, insurance, paused, price, now>>
  BY DEF SettleFill
<1>6. /\ size \in Nat \ {0} /\ px \in Nat
      /\ Market[m].makerFee \in Nat /\ Market[m].takerFee \in Nat
      /\ IndexesAgree /\ OracleTyped /\ Sound(book) /\ AllPriced(book.positions)
  <2>1. Market[m] \in MarketType
    OBVIOUS
  <2>2. Market[m].makerFee \in Nat /\ Market[m].takerFee \in Nat
    BY <2>1 DEF MarketType
  <2>3. book.positions = positions
    BY DEF book
  <2>5. size \in Nat \ {0} /\ px \in Nat
    OBVIOUS
  <2>. QED
    BY <2>2, <2>3, <2>5 DEF ClearingInv, BooksSound
<1>. DEFINE makerBps == Market[m].makerFee
            takerBps == Market[m].takerFee
<1>7. /\ makerBps \in Nat /\ takerBps \in Nat
      /\ s2 \in ChargeTradeFee(s1, maker, size, px, makerBps) /\ s4 \in ChargeTradeFee(s3, taker, size, px, takerBps)
  BY <1>2, <1>4, <1>6
<1>. HIDE DEF makerBps, takerBps
<1>8. Halved(book, s2, maker, m, makerLong, size, px, makerBps)
  BY <1>1, <1>6, <1>7, HalfFill
<1>9. Sound(s2) /\ AllPriced(s2.positions)
  BY <1>8 DEF Halved
<1>10. Halved(s2, s4, taker, m, ~makerLong, size, px, takerBps)
  <2>. DEFINE long == ~makerLong
  <2>1. long \in BOOLEAN /\ s3 \in SettleUserSide(s2, taker, m, long, takerReduces, size, px)
    BY <1>3
  <2>. HIDE DEF long
  <2>2. Halved(s2, s4, taker, m, long, size, px, takerBps)
    BY <1>6, <1>7, <1>9, <2>1, HalfFill
  <2>. QED
    BY <2>2 DEF long
<1>11. Filled(book, s4, maker, taker)
  <2>1. FillCalls(maker, taker, m, makerLong, makerReduces, takerReduces, size, px, s4)
    BY <1>1, <1>2, <1>3, <1>4, Zenon DEF FillCalls
  <2>2. Quoted
    BY ReadsTyped
  <2>. QED
    BY <1>5, <1>6, <2>1, <2>2, FillMoves
<1>. QED
  BY <1>4, <1>5, <1>8, <1>10, <1>11 DEF makerBps, takerBps
-----------------------------------------------------------------------------
(* What the vault owes beyond its tokens, and what a step may move it by. *)

OwedAt(bals, ps, q, v, held) == Precision * (Column(bals, Settlement) - held) + PnlSum(ps, q, v)

GapSplits == Gap = OwedAt(bal, positions, price, vaultFunding, reserves[Settlement])

LEMMA BookTypes ==
  ASSUME BooksSound
  PROVE  /\ bal \in [Accounts -> [Assets -> Int]] /\ positions \in [Users -> SUBSET Position]
         /\ synced = positions /\ oi \in [Markets -> Sides]
         /\ \A u \in Users : IsFiniteSet(positions[u])
  BY DEF BooksSound, Sound, Separate, BookShape, book

LEMMA BookTypesNext ==
  ASSUME BooksSound'
  PROVE  /\ bal' \in [Accounts -> [Assets -> Int]] /\ positions' \in [Users -> SUBSET Position]
         /\ synced' = positions' /\ oi' \in [Markets -> Sides]
         /\ \A u \in Users : IsFiniteSet(positions'[u])
  BY DEF BooksSound, Sound, Separate, BookShape, book

\* The open PnL of an account is that of its positions.
LEMMA HeldIsSum ==
  ASSUME NEW ps \in SUBSET Position, IsFiniteSet(ps)
  PROVE  SumFunction([p \in ps |-> ExactPnl(p)]) = HeldAt(ps, price, vaultFunding)
<1>. DEFINE f == [p \in ps |-> ExactPnl(p)]
            g == [p \in Position |-> PnlAt(p, price, vaultFunding)]
<1>1. \A p \in ps : f[p] = g[p]
  <2>1. \A p \in ps : f[p] = ExactPnl(p) /\ g[p] = PnlAt(p, price, vaultFunding)
    OBVIOUS
  <2>2. ASSUME NEW p \in ps
        PROVE  ExactPnl(p) = PnlAt(p, price, vaultFunding)
    BY Zenon DEF ExactPnl, PnlAt, IndexAt
  <2>. HIDE DEF f, g
  <2>. QED
    BY <2>1, <2>2
<1>2. SumFunction(f) = SumFunctionOnSet(f, ps) /\ HeldAt(ps, price, vaultFunding) = SumFunctionOnSet(g, ps)
  BY Zenon DEF SumFunction, HeldAt
<1>. HIDE DEF f, g
<1>3. SumFunctionOnSet(f, ps) = SumFunctionOnSet(g, ps)
  BY <1>1, SumSame
<1>. QED
  BY <1>2, <1>3 DEF f

LEMMA OpenIsHeld ==
  ASSUME BooksSound, NEW u \in Users
  PROVE  OpenPnl(u) = HeldAt(positions[u], price, vaultFunding)
<1>1. positions[u] \in SUBSET Position /\ IsFiniteSet(positions[u])
  BY BookTypes
<1>. QED
  BY <1>1, HeldIsSum DEF OpenPnl

LEMMA GapParts ==
  ASSUME BooksSound
  PROVE  GapSplits
<1>. DEFINE pnls == [u \in Users |-> OpenPnl(u)]
            helds == [u \in Users |-> HeldAt(positions[u], price, vaultFunding)]
            owed == [u \in Accounts |-> bal[u][Settlement]]
<1>1. SumFunction(pnls) = PnlSum(positions, price, vaultFunding)
  <2>1. \A u \in Users : pnls[u] = helds[u]
    BY OpenIsHeld
  <2>2. SumFunction(pnls) = SumFunctionOnSet(pnls, Users)
        /\ PnlSum(positions, price, vaultFunding) = SumFunctionOnSet(helds, Users)
    BY Zenon DEF SumFunction, PnlSum
  <2>. HIDE DEF pnls, helds
  <2>3. SumFunctionOnSet(pnls, Users) = SumFunctionOnSet(helds, Users)
    BY <2>1, SumSame
  <2>. QED
    BY <2>2, <2>3
<1>2. SumFunction(owed) = Column(bal, Settlement)
  BY Zenon DEF SumFunction, Column
<1>3. Gap = Precision * (SumFunction(owed) - reserves[Settlement]) + SumFunction(pnls)
  BY Zenon DEF Gap, Owed
<1>. HIDE DEF pnls, owed
<1>. QED
  BY <1>1, <1>2, <1>3, Zenon DEF GapSplits, OwedAt

\* The same after a step.
LEMMA GapPartsBoxed == Spec => []GapSplits
<1>1. ClearingInv => GapSplits
  BY GapParts DEF ClearingInv
<1>. QED
  BY <1>1, ClearingInvariant, PTL

LEMMA OwedParts ==
  ASSUME NEW a
  PROVE  /\ Owed(a) = Column(bal, a) - reserves[a]
         /\ Owed(a)' = Column(bal', a) - reserves'[a]
  BY Zenon DEF Owed, Column, SumFunction

DustOf(held) == 3 * Precision + SumFunction([p \in held |-> p.size])

LEMMA DustCovers ==
  ASSUME NEW held \in SUBSET Position, IsFiniteSet(held)
  PROVE  /\ DustOf(held) \in Nat /\ DustOf(held) >= 3 * Precision
         /\ \A p \in held : p.size \in Nat /\ 3 * Precision + p.size <= DustOf(held)
<1>. DEFINE f == [p \in held |-> p.size]
            s == SumFunctionOnSet(f, held)
<1>1. DustOf(held) = 3 * Precision + s
  BY Zenon DEF DustOf, SumFunction
<1>2. \A p \in held : f[p] \in Nat /\ f[p] = p.size
  BY DEF Position
<1>. HIDE DEF f
<1>3. s \in Nat /\ \A p \in held : s >= f[p]
  <2>1. \A p \in held : f[p] \in Int /\ f[p] >= 0
    BY <1>2
  <2>2. s \in Int /\ s >= 0
    BY <2>1, SumType
  <2>3. \A p \in held : s >= f[p]
    BY <1>2, SumOfTwo
  <2>. QED
    BY <2>2, <2>3
<1>. HIDE DEF s
<1>. QED
  BY <1>1, <1>2, <1>3

Bands == SumFunction([m \in Markets |-> Abs(Skew(m)' - Skew(m)) * Band(m)])
Dusts == SumFunction([u \in Users |-> IF positions'[u] # positions[u] THEN Dust(u) ELSE 0])

LEMMA AbsType == \A x \in Int : Abs(x) \in Nat /\ Abs(x) >= x /\ Abs(x) >= -x /\ (x >= 0 => Abs(x) = x) /\ (x <= 0 => Abs(x) = -x)
  BY DEF Abs

LEMMA BandType ==
  ASSUME OracleTyped, NEW m \in Markets
  PROVE  Band(m) \in Nat
<1>1. Market[m] \in MarketType
  OBVIOUS
<1>2. price[m] \in Nat /\ Market[m].deviation \in Nat
  BY <1>1 DEF OracleTyped, Feeds, MarketType
<1>3. ApplyBps(price[m], Market[m].deviation) \in Nat
  BY <1>2, FixedTypes
<1>. QED
  BY <1>3 DEF Band

LEMMA SkewType ==
  ASSUME BooksSound, NEW m \in Markets
  PROVE  Skew(m) \in Int /\ Skew(m) = Apart(book, m)
<1>1. oi[m] \in Sides
  BY BookTypes
<1>2. oi[m].long \in Int /\ oi[m].short \in Int /\ book.oi = oi
  BY <1>1 DEF Sides, book
<1>. QED
  BY <1>2 DEF Skew, Apart

LEMMA SkewTypeNext ==
  ASSUME BooksSound', NEW m \in Markets
  PROVE  Skew(m)' \in Int /\ Skew(m)' = oi'[m].long - oi'[m].short
<1>1. oi'[m] \in Sides
  BY BookTypesNext
<1>2. oi'[m].long \in Int /\ oi'[m].short \in Int
  BY <1>1 DEF Sides
<1>. QED
  BY <1>2 DEF Skew

LEMMA BandsCover ==
  ASSUME ClearingInv, BooksSound'
  PROVE  /\ Bands \in Nat
         /\ \A m \in Markets : /\ Abs(Skew(m)' - Skew(m)) * Band(m) \in Nat
                              /\ Bands >= Abs(Skew(m)' - Skew(m)) * Band(m)
<1>. DEFINE f == [m \in Markets |-> Abs(Skew(m)' - Skew(m)) * Band(m)]
<1>1. ASSUME NEW m \in Markets
      PROVE  Abs(Skew(m)' - Skew(m)) * Band(m) \in Nat
  <2>. DEFINE x == Abs(Skew(m)' - Skew(m))
              y == Band(m)
  <2>1. Skew(m) \in Int /\ Skew(m)' \in Int
    BY SkewType, SkewTypeNext DEF ClearingInv
  <2>2. x \in Nat
    BY <2>1, AbsType
  <2>3. y \in Nat
    BY BandType DEF ClearingInv
  <2>. HIDE DEF x, y
  <2>4. x * y \in Nat
    BY <2>2, <2>3
  <2>. QED
    BY <2>4 DEF x, y
<1>2. \A m \in Markets : f[m] \in Nat /\ f[m] = Abs(Skew(m)' - Skew(m)) * Band(m)
  BY <1>1
<1>3. Bands = SumFunctionOnSet(f, Markets)
  BY Zenon DEF Bands, SumFunction
<1>. HIDE DEF f
<1>4. SumFunctionOnSet(f, Markets) \in Nat /\ \A m \in Markets : SumFunctionOnSet(f, Markets) >= f[m]
  <2>1. \A m \in Markets : f[m] \in Int /\ f[m] >= 0
    BY <1>2
  <2>2. SumFunctionOnSet(f, Markets) \in Int /\ SumFunctionOnSet(f, Markets) >= 0
    BY <2>1, SumType
  <2>3. \A m \in Markets : SumFunctionOnSet(f, Markets) >= f[m]
    BY <1>2, SumOfTwo
  <2>. QED
    BY <2>2, <2>3
<1>. QED
  BY <1>1, <1>2, <1>3, <1>4

LEMMA DustsCover ==
  ASSUME ClearingInv, BooksSound'
  PROVE  /\ Dusts \in Nat
         /\ \A u \in Users :
              /\ positions[u] \cup positions'[u] \in SUBSET Position /\ IsFiniteSet(positions[u] \cup positions'[u])
              /\ Dust(u) = DustOf(positions[u] \cup positions'[u]) /\ Dust(u) \in Nat
              /\ positions'[u] # positions[u] => Dusts >= Dust(u)
              /\ \A w \in Users \ {u} : positions'[u] # positions[u] /\ positions'[w] # positions[w] =>
                                          Dusts >= Dust(u) + Dust(w)
<1>. DEFINE f == [u \in Users |-> IF positions'[u] # positions[u] THEN Dust(u) ELSE 0]
<1>1. ASSUME NEW u \in Users
      PROVE  /\ positions[u] \cup positions'[u] \in SUBSET Position /\ IsFiniteSet(positions[u] \cup positions'[u])
             /\ Dust(u) = DustOf(positions[u] \cup positions'[u]) /\ Dust(u) \in Nat
  <2>1. /\ positions[u] \in SUBSET Position /\ positions'[u] \in SUBSET Position
        /\ IsFiniteSet(positions[u]) /\ IsFiniteSet(positions'[u])
    BY BookTypes, BookTypesNext DEF ClearingInv
  <2>2. positions[u] \cup positions'[u] \in SUBSET Position /\ IsFiniteSet(positions[u] \cup positions'[u])
    BY <2>1, FS_Union
  <2>3. Dust(u) = DustOf(positions[u] \cup positions'[u])
    BY Zenon DEF Dust, DustOf
  <2>4. DustOf(positions[u] \cup positions'[u]) \in Nat
    BY <2>2, DustCovers
  <2>. QED
    BY <2>2, <2>3, <2>4
<1>2. \A u \in Users : f[u] \in Nat /\ (positions'[u] # positions[u] => f[u] = Dust(u))
  BY <1>1
<1>3. Dusts = SumFunctionOnSet(f, Users)
  BY Zenon DEF Dusts, SumFunction
<1>. HIDE DEF f
<1>4. /\ SumFunctionOnSet(f, Users) \in Nat
      /\ \A u \in Users : /\ SumFunctionOnSet(f, Users) >= f[u]
                         /\ \A w \in Users \ {u} : SumFunctionOnSet(f, Users) >= f[u] + f[w]
  <2>1. \A u \in Users : f[u] \in Int /\ f[u] >= 0
    BY <1>2
  <2>2. SumFunctionOnSet(f, Users) \in Int /\ SumFunctionOnSet(f, Users) >= 0
    BY <2>1, SumType
  <2>3. ASSUME NEW u \in Users
        PROVE  /\ SumFunctionOnSet(f, Users) >= f[u]
               /\ \A w \in Users \ {u} : SumFunctionOnSet(f, Users) >= f[u] + f[w]
    <3>1. \A w \in Users : f[w] \in Nat
      BY <1>2
    <3>. QED
      BY <3>1, SumOfTwo
  <2>. QED
    BY <2>2, <2>3
<1>. QED
  BY <1>1, <1>2, <1>3, <1>4

LEMMA RoundingCovered ==
  ASSUME ClearingInv, BooksSound', NEW u \in Users, NEW n \in Nat, Rounding(n, positions[u], positions'[u])
  PROVE  positions'[u] # positions[u] /\ n <= Dust(u)
<1>. DEFINE held == positions[u] \cup positions'[u]
<1>1. held \in SUBSET Position /\ IsFiniteSet(held) /\ Dust(u) = DustOf(held)
  BY DustsCover
<1>2. positions'[u] # positions[u] /\ (n <= 3 * Precision \/ \E p \in held : n <= 3 * Precision + p.size)
  BY DEF Rounding
<1>. HIDE DEF held
<1>3. CASE n <= 3 * Precision
  <2>1. DustOf(held) \in Nat /\ DustOf(held) >= 3 * Precision
    BY <1>1, DustCovers
  <2>. QED
    BY <1>1, <1>2, <1>3, <2>1
<1>4. ASSUME NEW p \in held, n <= 3 * Precision + p.size
      PROVE  n <= Dust(u)
  <2>1. DustOf(held) \in Nat /\ p.size \in Nat /\ 3 * Precision + p.size <= DustOf(held)
    BY <1>1, DustCovers
  <2>. QED
    BY <1>1, <1>4, <2>1
<1>. QED
  BY <1>2, <1>3, <1>4

LEMMA TwoRoundings ==
  ASSUME ClearingInv, BooksSound', NEW u \in Users, NEW w \in Users, u # w, NEW x \in Nat, NEW y \in Nat,
         Rounding(x, positions[u], positions'[u]), Rounding(y, positions[w], positions'[w])
  PROVE  x + y <= Dusts
<1>1. /\ positions'[u] # positions[u] /\ x <= Dust(u)
      /\ positions'[w] # positions[w] /\ y <= Dust(w)
  BY RoundingCovered
<1>2. Dusts \in Nat /\ Dust(u) \in Nat /\ Dust(w) \in Nat /\ Dusts >= Dust(u) + Dust(w)
  BY <1>1, DustsCover
<1>. QED
  BY <1>1, <1>2

LEMMA OneRounding ==
  ASSUME ClearingInv, BooksSound', NEW u \in Users, NEW n \in Nat, Rounding(n, positions[u], positions'[u])
  PROVE  n <= Dusts
<1>1. positions'[u] # positions[u] /\ n <= Dust(u)
  BY RoundingCovered
<1>2. Dusts \in Nat /\ Dust(u) \in Nat /\ Dusts >= Dust(u)
  BY <1>1, DustsCover
<1>. QED
  BY <1>1, <1>2
-----------------------------------------------------------------------------
(* A price or an index moves. *)

\* What is held in a market net of the other side.
NetAt(m) == [p \in Position |-> IF p.market # m THEN 0 ELSE Signed(p.long, p.size)]
NetIn(held, m) == SumFunctionOnSet(NetAt(m), held)
NetSum(ps, m) == SumFunctionOnSet([u \in Users |-> NetIn(ps[u], m)], Users)

LEMMA NetAtType ==
  ASSUME NEW p \in Priced, NEW m
  PROVE  /\ NetAt(m)[p] \in Int
         /\ p.market # m => NetAt(m)[p] = 0
         /\ p.market = m => NetAt(m)[p] = Signed(p.long, p.size)
<1>1. p \in Position /\ p.long \in BOOLEAN /\ p.size \in Nat
  BY PricedType
<1>2. p.size \in Int
  BY <1>1
<1>3. Signed(p.long, p.size) \in Int
  BY <1>1, <1>2, SignedType
<1>. QED
  BY <1>1, <1>3 DEF NetAt

LEMMA NetSumTypes ==
  /\ \A held \in SUBSET Priced : \A m : IsFiniteSet(held) => NetIn(held, m) \in Int
  /\ \A ps, m : AllPriced(ps) => NetSum(ps, m) \in Int
<1>1. ASSUME NEW held \in SUBSET Priced, NEW m, IsFiniteSet(held)
      PROVE  NetIn(held, m) \in Int
  <2>1. \A p \in held : NetAt(m)[p] \in Int
    BY NetAtType
  <2>. QED
    BY <1>1, <2>1, SumType DEF NetIn
<1>2. ASSUME NEW ps, NEW m, AllPriced(ps)
      PROVE  NetSum(ps, m) \in Int
  <2>. DEFINE f == [u \in Users |-> NetIn(ps[u], m)]
  <2>1. \A u \in Users : f[u] \in Int
    <3>1. \A u \in Users : NetIn(ps[u], m) \in Int
      BY <1>1, <1>2 DEF AllPriced
    <3>. QED
      BY <3>1
  <2>2. NetSum(ps, m) = SumFunctionOnSet(f, Users)
    BY Zenon DEF NetSum
  <2>. HIDE DEF f
  <2>. QED
    BY <2>1, <2>2, SumType
<1>. QED
  BY <1>1, <1>2

LEMMA NetSumSides ==
  ASSUME NEW ps \in [Users -> SUBSET Position], AllPriced(ps), NEW m
  PROVE  NetSum(ps, m) = HeldIn(ps, m, TRUE) - HeldIn(ps, m, FALSE)
<1>1. ASSUME NEW held \in SUBSET Position, IsFiniteSet(held)
      PROVE  NetIn(held, m) = HeldBy(held, m, TRUE) - HeldBy(held, m, FALSE)
  <2>. DEFINE f == NetAt(m)
              g == [p \in held |-> IF p.market # m THEN 0 ELSE IF p.long THEN p.size ELSE -p.size]
  <2>1. \A p \in held : f[p] = g[p]
    <3>1. \A p \in held : p \in Position
      OBVIOUS
    <3>. QED
      BY <3>1, Zenon DEF NetAt, Signed
  <2>2. NetIn(held, m) = SumFunctionOnSet(f, held) /\ NetOf(held, m) = SumFunctionOnSet(g, held)
    BY Zenon DEF NetIn, NetOf, SumFunction
  <2>. HIDE DEF f, g
  <2>3. SumFunctionOnSet(f, held) = SumFunctionOnSet(g, held)
    BY <1>1, <2>1, SumSame
  <2>. QED
    BY <1>1, <2>2, <2>3, NetHeld
<1>. DEFINE f == [u \in Users |-> NetIn(ps[u], m)]
            g == [u \in Users |-> HeldBy(ps[u], m, TRUE)]
            h == [u \in Users |-> HeldBy(ps[u], m, FALSE)]
<1>2. ASSUME NEW u \in Users
      PROVE  g[u] \in Int /\ h[u] \in Int /\ f[u] = g[u] + (-1) * h[u]
  <2>. DEFINE held == ps[u]
              x == HeldBy(held, m, TRUE)
              y == HeldBy(held, m, FALSE)
              z == NetIn(held, m)
  <2>1. IsFiniteSet(held) /\ held \in SUBSET Position
    BY DEF AllPriced
  <2>2. f[u] = z /\ g[u] = x /\ h[u] = y
    OBVIOUS
  <2>. HIDE DEF held, f, g, h
  <2>3. x \in Nat /\ y \in Nat /\ z = x - y
    BY <1>1, <2>1, HeldByWeight
  <2>. HIDE DEF x, y, z
  <2>. QED
    BY <2>2, <2>3
<1>3. /\ HeldIn(ps, m, TRUE) = SumFunctionOnSet(g, Users) /\ HeldIn(ps, m, FALSE) = SumFunctionOnSet(h, Users)
      /\ NetSum(ps, m) = SumFunctionOnSet(f, Users)
  BY Zenon DEF HeldIn, SumFunction, NetSum
<1>. HIDE DEF f, g, h
<1>4. SumFunctionOnSet(f, Users) = SumFunctionOnSet(g, Users) + (-1) * SumFunctionOnSet(h, Users)
  <2>1. -1 \in Int
    OBVIOUS
  <2>. QED
    BY <1>2, <2>1, SumShift
<1>5. SumFunctionOnSet(g, Users) \in Int /\ SumFunctionOnSet(h, Users) \in Int
  BY <1>2, SumType
<1>. DEFINE x == SumFunctionOnSet(g, Users)
            y == SumFunctionOnSet(h, Users)
<1>6. x + (-1) * y = x - y
  <2>. HIDE DEF x, y
  <2>. QED
    BY <1>5 DEF x, y
<1>. QED
  BY <1>3, <1>4, <1>6, Zenon

\* A new reading that moves the PnL of what is held in the market by c for each unit.
Shifted(q, v, q2, v2, m, c) ==
  \A p \in Priced : PnlAt(p, q2, v2) = PnlAt(p, q, v) + c * NetAt(m)[p]

LEMMA ShiftMoves ==
  ASSUME NEW ps, AllPriced(ps), NEW q, NEW v, Reading(q, v), NEW q2, NEW v2, NEW m, NEW c \in Int,
         Shifted(q, v, q2, v2, m, c)
  PROVE  PnlSum(ps, q2, v2) = PnlSum(ps, q, v) + c * NetSum(ps, m)
<1>1. ASSUME NEW held \in SUBSET Priced, IsFiniteSet(held)
      PROVE  /\ HeldAt(held, q2, v2) = HeldAt(held, q, v) + c * NetIn(held, m)
             /\ HeldAt(held, q, v) \in Int /\ NetIn(held, m) \in Int
  <2>. DEFINE f == [p \in Position |-> PnlAt(p, q2, v2)]
              g == [p \in Position |-> PnlAt(p, q, v)]
              h == NetAt(m)
  <2>1. ASSUME NEW p \in held
        PROVE  g[p] \in Int /\ h[p] \in Int /\ f[p] = g[p] + c * h[p]
    <3>1. p \in Position /\ p \in Priced
      BY PricedType
    <3>2. PnlAt(p, q, v) \in Int /\ NetAt(m)[p] \in Int
      BY <3>1, PricedPnl, NetAtType
    <3>3. PnlAt(p, q2, v2) = PnlAt(p, q, v) + c * NetAt(m)[p]
      BY <3>1 DEF Shifted
    <3>. QED
      BY <3>1, <3>2, <3>3
  <2>2. HeldAt(held, q2, v2) = SumFunctionOnSet(f, held) /\ HeldAt(held, q, v) = SumFunctionOnSet(g, held)
        /\ NetIn(held, m) = SumFunctionOnSet(h, held)
    BY Zenon DEF HeldAt, NetIn
  <2>. HIDE DEF f, g, h
  <2>3. SumFunctionOnSet(f, held) = SumFunctionOnSet(g, held) + c * SumFunctionOnSet(h, held)
    BY <1>1, <2>1, SumShift
  <2>4. HeldAt(held, q, v) \in Int /\ NetIn(held, m) \in Int
    BY <1>1, HeldPieces, NetSumTypes
  <2>. QED
    BY <2>2, <2>3, <2>4, Zenon
<1>. DEFINE f == [u \in Users |-> HeldAt(ps[u], q2, v2)]
            g == [u \in Users |-> HeldAt(ps[u], q, v)]
            h == [u \in Users |-> NetIn(ps[u], m)]
<1>2. ASSUME NEW u \in Users
      PROVE  g[u] \in Int /\ h[u] \in Int /\ f[u] = g[u] + c * h[u]
  <2>1. /\ HeldAt(ps[u], q2, v2) = HeldAt(ps[u], q, v) + c * NetIn(ps[u], m)
        /\ HeldAt(ps[u], q, v) \in Int /\ NetIn(ps[u], m) \in Int
    BY <1>1 DEF AllPriced
  <2>. QED
    BY <2>1
<1>3. /\ PnlSum(ps, q2, v2) = SumFunctionOnSet(f, Users) /\ PnlSum(ps, q, v) = SumFunctionOnSet(g, Users)
      /\ NetSum(ps, m) = SumFunctionOnSet(h, Users)
  BY Zenon DEF PnlSum, NetSum
<1>. HIDE DEF f, g, h
<1>4. SumFunctionOnSet(f, Users) = SumFunctionOnSet(g, Users) + c * SumFunctionOnSet(h, Users)
  BY <1>2, SumShift
<1>. QED
  BY <1>3, <1>4, Zenon

\* A price that moves.
LEMMA PriceShifts ==
  ASSUME NEW q, NEW v, Reading(q, v), NEW q2, Reading(q2, v), NEW m \in Markets,
         \A n \in Markets \ {m} : q2[n] = q[n]
  PROVE  Shifted(q, v, q2, v, m, q2[m] - q[m])
<1> SUFFICES ASSUME NEW p \in Priced
             PROVE  PnlAt(p, q2, v) = PnlAt(p, q, v) + (q2[m] - q[m]) * NetAt(m)[p]
  BY DEF Shifted
<1>. DEFINE k == p.size
            n == p.market
            long == p.long
            rest == k * p.index - k * IndexAt(v, n, long)
            x == k * q[n]
            x2 == k * q2[n]
            e == k * p.entry
            at == NetAt(m)[p]
            c == q2[m] - q[m]
            old == PnlAt(p, q, v)
            new == PnlAt(p, q2, v)
<1>1. /\ k \in Nat /\ long \in BOOLEAN /\ p.entry \in Nat /\ p.index \in Int /\ n \in Markets
  BY PricedType
<1>2. q[n] \in Int /\ q2[n] \in Int /\ IndexAt(v, n, long) \in Int /\ q[m] \in Int /\ q2[m] \in Int
  <2>1. IndexAt(v, n, long) \in Int
    BY <1>1, IndexType
  <2>2. \A i \in Markets : q[i] \in Nat /\ q2[i] \in Nat
    BY DEF Reading
  <2>. QED
    BY <1>1, <2>1, <2>2
<1>3. rest \in Int /\ x \in Int /\ x2 \in Int /\ e \in Int /\ c \in Int
  BY <1>1, <1>2
<1>4. old = Signed(long, x - e) + rest /\ new = Signed(long, x2 - e) + rest
  BY PricedPnl, Zenon
<1>5. CASE n # m
  <2>1. at = 0
    BY <1>5, NetAtType
  <2>2. new = old
    BY <1>1, <1>4, <1>5
  <2>3. old \in Int
    BY PricedPnl
  <2>. HIDE DEF at, c, old, new
  <2>4. new = old + c * at
    BY <1>3, <2>1, <2>2, <2>3
  <2>. QED
    BY <2>4 DEF at, c, old, new
<1>6. CASE n = m
  <2>1. at = Signed(long, k)
    BY <1>6, NetAtType
  <2>2. x2 - e = (x - e) + k * c
    <3>1. x2 = k * q2[m] /\ x = k * q[m]
      BY <1>6
    <3>. DEFINE y == q[m]
                y2 == q2[m]
    <3>2. x2 = k * y2 /\ x = k * y /\ c = y2 - y /\ y \in Int /\ y2 \in Int
      BY <1>2, <3>1
    <3>. HIDE DEF x, x2, c, y, y2, e, k
    <3>. QED
      BY <1>1, <1>3, <3>2
  <2>. HIDE DEF k, n, long, rest, x, x2, e, at, c, old, new
  <2>3. Signed(long, (x - e) + k * c) = Signed(long, x - e) + c * Signed(long, k)
    <3>1. CASE long = TRUE
      BY <1>1, <1>3, <3>1 DEF Signed
    <3>2. CASE long = FALSE
      BY <1>1, <1>3, <3>2 DEF Signed
    <3>. QED
      BY <1>1, <3>1, <3>2
  <2>4. Signed(long, x - e) \in Int /\ Signed(long, k) \in Int
    <3>1. x - e \in Int /\ k \in Int
      BY <1>1, <1>3
    <3>. QED
      BY <1>1, <3>1, SignedType
  <2>. DEFINE s == Signed(long, x - e)
              t == Signed(long, k)
              w == c * t
  <2>5. old = s + rest /\ new = (s + w) + rest /\ at = t
    BY <1>4, <2>1, <2>2, <2>3
  <2>6. s \in Int /\ t \in Int /\ w \in Int
    BY <1>3, <2>4
  <2>. HIDE DEF s, w
  <2>7. new = old + w
    BY <1>3, <2>5, <2>6
  <2>8. new = old + c * at
    BY <2>5, <2>7, Zenon DEF w
  <2>. QED
    BY <2>8 DEF at, c, old, new
<1>. QED
  BY <1>5, <1>6


\* The indexes of a market that move, one up and one down.
LEMMA IndexShifts ==
  ASSUME NEW q, NEW v, Reading(q, v), NEW v2, Reading(q, v2), NEW m \in Markets, NEW delta \in Int,
         v2[m].long = v[m].long + delta, v2[m].short = v[m].short - delta,
         \A n \in Markets \ {m} : v2[n] = v[n]
  PROVE  Shifted(q, v, q, v2, m, -delta)
<1> SUFFICES ASSUME NEW p \in Priced
             PROVE  PnlAt(p, q, v2) = PnlAt(p, q, v) + (-delta) * NetAt(m)[p]
  BY DEF Shifted
<1>. DEFINE k == p.size
            n == p.market
            long == p.long
            s == Signed(long, k * q[n] - k * p.entry)
            x == IndexAt(v, n, long)
            x2 == IndexAt(v2, n, long)
            i == p.index
            at == NetAt(m)[p]
            old == PnlAt(p, q, v)
            new == PnlAt(p, q, v2)
<1>1. /\ k \in Nat /\ long \in BOOLEAN /\ p.entry \in Nat /\ i \in Int /\ n \in Markets
  BY PricedType
<1>2. s \in Int /\ x \in Int /\ x2 \in Int
  <2>1. x \in Int /\ x2 \in Int
    BY <1>1, IndexType
  <2>2. q[n] \in Nat
    BY <1>1 DEF Reading
  <2>3. k * q[n] - k * p.entry \in Int
    BY <1>1, <2>2
  <2>. QED
    BY <1>1, <2>1, <2>3, SignedType
<1>3. old = s + (k * i - k * x) /\ new = s + (k * i - k * x2)
  BY PricedPnl, Zenon
<1>4. CASE n # m
  <2>1. at = 0
    BY <1>4, NetAtType
  <2>2. x2 = x
    BY <1>1, <1>4 DEF IndexAt
  <2>3. new = old /\ old \in Int
    BY <1>3, <2>2, PricedPnl
  <2>. HIDE DEF at, old, new
  <2>4. new = old + (-delta) * at
    BY <2>1, <2>3
  <2>. QED
    BY <2>4 DEF at, old, new
<1>5. CASE n = m /\ long = TRUE
  <2>1. at = k
    BY <1>5, NetAtType, Zenon DEF Signed
  <2>2. x = v[m].long /\ x2 = v2[m].long
    BY <1>5, Zenon DEF IndexAt
  <2>3. x2 = x + delta
    BY <2>2
  <2>. HIDE DEF k, n, long, s, x, x2, i, at, old, new
  <2>4. new = old + (-delta) * at
    BY <1>1, <1>2, <1>3, <2>1, <2>3
  <2>. QED
    BY <2>4 DEF at, old, new
<1>6. CASE n = m /\ long = FALSE
  <2>1. at = -k
    BY <1>6, NetAtType, Zenon DEF Signed
  <2>2. x = v[m].short /\ x2 = v2[m].short
    BY <1>6, Zenon DEF IndexAt
  <2>3. x2 = x - delta
    BY <2>2
  <2>. HIDE DEF k, n, long, s, x, x2, i, at, old, new
  <2>4. new = old + (-delta) * at
    BY <1>1, <1>2, <1>3, <2>1, <2>3
  <2>. QED
    BY <2>4 DEF at, old, new
<1>. QED
  BY <1>1, <1>4, <1>5, <1>6

\* Prices that move where both sides are equal move nobody's total.
LEMMA EvenPrices ==
  ASSUME NEW ps, AllPriced(ps), NEW q, NEW v, Reading(q, v), NEW q2, Reading(q2, v),
         \A m \in Markets : NetSum(ps, m) = 0
  PROVE  PnlSum(ps, q2, v) = PnlSum(ps, q, v)
<1>. DEFINE Mixed(s) == [m \in Markets |-> IF m \in s THEN q2[m] ELSE q[m]]
            Same(s) == PnlSum(ps, Mixed(s), v) = PnlSum(ps, q, v)
            Done == {n \in Nat : \A s \in SUBSET Markets : Cardinality(s) = n => Same(s)}
<1>0. \A s \in SUBSET Markets : IsFiniteSet(s) /\ Cardinality(s) \in Nat
  BY FS_Subset, FS_CardinalityType
<1>1. \A s \in SUBSET Markets : Reading(Mixed(s), v)
  BY DEF Reading
<1>2. ASSUME NEW q3, Reading(q3, v), NEW q4, Reading(q4, v), \A m \in Markets : q3[m] = q4[m]
      PROVE  PnlSum(ps, q3, v) = PnlSum(ps, q4, v)
  <2>1. ASSUME NEW held \in SUBSET Priced, IsFiniteSet(held)
        PROVE  HeldAt(held, q3, v) = HeldAt(held, q4, v)
    <3>. DEFINE f == [p \in Position |-> PnlAt(p, q3, v)]
                g == [p \in Position |-> PnlAt(p, q4, v)]
    <3>1. \A p \in held : f[p] = g[p]
      <4>1. ASSUME NEW p \in held
            PROVE  f[p] = g[p]
        <5>1. p \in Position /\ p.market \in Markets
          BY PricedType
        <5>2. q3[p.market] = q4[p.market]
          BY <1>2, <5>1
        <5>3. PnlAt(p, q3, v) = PnlAt(p, q4, v)
          BY <5>2, Zenon DEF PnlAt
        <5>. QED
          BY <5>1, <5>3
      <4>. QED
        BY <4>1
    <3>2. HeldAt(held, q3, v) = SumFunctionOnSet(f, held) /\ HeldAt(held, q4, v) = SumFunctionOnSet(g, held)
      BY Zenon DEF HeldAt
    <3>. HIDE DEF f, g
    <3>. QED
      BY <2>1, <3>1, <3>2, SumSame
  <2>. DEFINE f == [u \in Users |-> HeldAt(ps[u], q3, v)]
              g == [u \in Users |-> HeldAt(ps[u], q4, v)]
  <2>2. \A u \in Users : f[u] = g[u]
    BY <2>1 DEF AllPriced
  <2>3. PnlSum(ps, q3, v) = SumFunctionOnSet(f, Users) /\ PnlSum(ps, q4, v) = SumFunctionOnSet(g, Users)
    BY Zenon DEF PnlSum
  <2>. HIDE DEF f, g
  <2>. QED
    BY <2>2, <2>3, SumSame
<1>3. 0 \in Done
  <2>1. \A s \in SUBSET Markets : Cardinality(s) = 0 => s = {}
    BY <1>0, FS_EmptySet
  <2>2. Same({})
    <3>1. Reading(Mixed({}), v)
      BY <1>1
    <3>2. \A m \in Markets : Mixed({})[m] = q[m]
      OBVIOUS
    <3>. QED
      BY <1>2, <3>1, <3>2
  <2>. HIDE DEF Same
  <2>. QED
    BY <2>1, <2>2
<1>4. ASSUME NEW n \in Nat, n \in Done
      PROVE  n + 1 \in Done
  <2>1. ASSUME NEW s \in SUBSET Markets, Cardinality(s) = n + 1
        PROVE  Same(s)
    <3>1. s # {}
      <4>1. Cardinality(s) # 0
        BY <2>1
      <4>. QED
        BY <4>1, FS_EmptySet
    <3>2. PICK m \in s : TRUE
      BY <3>1
    <3>3. s \ {m} \in SUBSET Markets /\ Cardinality(s \ {m}) = n /\ m \in Markets
      <4>1. IsFiniteSet(s) /\ m \in s
        BY <1>0, <3>2
      <4>2. Cardinality(s \ {m}) = Cardinality(s) - 1
        BY <4>1, FS_RemoveElement
      <4>. QED
        BY <2>1, <4>1, <4>2
    <3>4. PnlSum(ps, Mixed(s \ {m}), v) = PnlSum(ps, q, v)
      BY <1>4, <3>3
    <3>. DEFINE q3 == Mixed(s \ {m})
                q4 == Mixed(s)
    <3>5. Reading(q3, v) /\ Reading(q4, v) /\ \A i \in Markets \ {m} : q4[i] = q3[i]
      BY <1>1, <3>3
    <3>6. q3[m] \in Nat /\ q4[m] \in Nat
      BY <3>3, <3>5 DEF Reading
    <3>. DEFINE c == q4[m] - q3[m]
    <3>. HIDE DEF q3, q4
    <3>7. Shifted(q3, v, q4, v, m, c)
      BY <3>3, <3>5, PriceShifts
    <3>8. c \in Int
      BY <3>6
    <3>. HIDE DEF c
    <3>9. PnlSum(ps, q4, v) = PnlSum(ps, q3, v) + c * NetSum(ps, m)
      BY <3>5, <3>7, <3>8, ShiftMoves
    <3>10. PnlSum(ps, q3, v) \in Int
      <4>. DEFINE f == [u \in Users |-> HeldAt(ps[u], q3, v)]
      <4>1. \A u \in Users : f[u] \in Int
        <5>1. \A u \in Users : HeldAt(ps[u], q3, v) \in Int
          BY <3>5, HeldPieces DEF AllPriced
        <5>. QED
          BY <5>1
      <4>2. PnlSum(ps, q3, v) = SumFunctionOnSet(f, Users)
        BY Zenon DEF PnlSum
      <4>. HIDE DEF f
      <4>. QED
        BY <4>1, <4>2, SumType
    <3>11. PnlSum(ps, q4, v) = PnlSum(ps, q3, v)
      <4>1. NetSum(ps, m) = 0
        BY <3>3
      <4>. QED
        BY <3>8, <3>9, <3>10, <4>1
    <3>. QED
      BY <3>4, <3>11, Zenon DEF q3, q4
  <2>. HIDE DEF Same
  <2>. QED
    BY <2>1
<1>5. Same(Markets)
  <2>. HIDE DEF Same
  <2>1. \A n \in Nat : n \in Done
    <3>. HIDE DEF Done
    <3>. QED
      BY <1>3, <1>4, Induct
  <2>. QED
    BY <1>0, <2>1
<1>6. PnlSum(ps, Mixed(Markets), v) = PnlSum(ps, q2, v)
  <2>1. Reading(Mixed(Markets), v) /\ \A m \in Markets : Mixed(Markets)[m] = q2[m]
    BY <1>1
  <2>. HIDE DEF Mixed
  <2>. QED
    BY <1>2, <2>1
<1>. QED
  BY <1>5, <1>6
-----------------------------------------------------------------------------
(* The transactions, one by one. *)

\* What a step may move the gap by.
FundingDust == IF funding' # funding THEN Precision ELSE 0
Allowed == Bands + Dusts + FundingDust

OwedMoves ==
  Within(OwedAt(bal', positions', price', vaultFunding', reserves'[Settlement]),
         OwedAt(bal, positions, price, vaultFunding, reserves[Settlement]), Allowed)

\* What the vault owes of an asset beyond the tokens it holds stays.
OwedKept(a) == Column(bal', a) - reserves'[a] = Column(bal, a) - reserves[a]
OthersKept == \A a \in Assets \ {Settlement} : OwedKept(a)

ValueKept == AllPriced(positions') /\ OwedMoves /\ OthersKept

LEMMA AllowedType ==
  ASSUME ClearingInv, BooksSound'
  PROVE  /\ Bands \in Nat /\ Dusts \in Nat /\ Allowed \in Nat
         /\ Allowed >= Bands + Dusts /\ Allowed >= Bands /\ Allowed >= Dusts
         /\ funding' # funding => Allowed >= Precision
<1>1. Bands \in Nat /\ Dusts \in Nat
  BY BandsCover, DustsCover
<1>2. FundingDust \in Nat /\ (funding' # funding => FundingDust = Precision)
  BY DEF FundingDust
<1>. QED
  BY <1>1, <1>2 DEF Allowed

LEMMA OwedTypes ==
  ASSUME ClearingInv, AllPriced(positions)
  PROVE  /\ Column(bal, Settlement) \in Int /\ PnlSum(positions, price, vaultFunding) \in Int
         /\ reserves[Settlement] \in Int
         /\ OwedAt(bal, positions, price, vaultFunding, reserves[Settlement]) \in Int
         /\ Total(book) = Precision * Column(bal, Settlement) + PnlSum(positions, price, vaultFunding)
<1>1. book.bal = bal /\ book.positions = positions
  BY DEF book
<1>2. Sound(book) /\ AllPriced(book.positions) /\ IndexesAgree /\ OracleTyped
  BY <1>1 DEF ClearingInv, BooksSound
<1>3. Column(book.bal, Settlement) \in Int /\ PnlSum(book.positions, price, vaultFunding) \in Int
  BY <1>2, TotalType
<1>4. Total(book) = Precision * Column(bal, Settlement) + PnlSum(positions, price, vaultFunding)
  BY <1>1, Zenon DEF Total
<1>5. reserves[Settlement] \in Int
  BY DEF ClearingInv, CustodyTyped
<1>6. Column(bal, Settlement) \in Int /\ PnlSum(positions, price, vaultFunding) \in Int
  BY <1>1, <1>3
<1>7. Precision * (Column(bal, Settlement) - reserves[Settlement]) \in Int
  BY <1>5, <1>6
<1>8. OwedAt(bal, positions, price, vaultFunding, reserves[Settlement]) \in Int
  BY <1>6, <1>7 DEF OwedAt
<1>. QED
  BY <1>4, <1>5, <1>6, <1>8

\* What is owed is the total less the tokens.
LEMMA OwedIsTotal ==
  ASSUME NEW b \in Int, NEW r \in Int, NEW p \in Int
  PROVE  Precision * (b - r) + p = (Precision * b + p) - Precision * r /\ Precision * r \in Int
<1>. DEFINE pb == Precision * b
            pr == Precision * r
<1>1. Precision * (b - r) = pb - pr /\ pb \in Int /\ pr \in Int
  OBVIOUS
<1>. HIDE DEF pb, pr
<1>2. Precision * (b - r) + p = (pb + p) - pr
  BY <1>1
<1>. QED
  BY <1>1, <1>2 DEF pb, pr

LEMMA OwedStill ==
  ASSUME ClearingInv, AllPriced(positions), BooksSound', OwedKept(Settlement),
         PnlSum(positions', price', vaultFunding') = PnlSum(positions, price, vaultFunding)
  PROVE  OwedMoves
<1>. DEFINE before == OwedAt(bal, positions, price, vaultFunding, reserves[Settlement])
            after == OwedAt(bal', positions', price', vaultFunding', reserves'[Settlement])
<1>1. Allowed \in Nat
  BY AllowedType
<1>2. before \in Int
  BY OwedTypes
<1>3. after = before
  BY Zenon DEF OwedAt, OwedKept
<1>. HIDE DEF before, after
<1>4. Within(after, before, Allowed)
  BY <1>1, <1>2, <1>3 DEF Within, Abs
<1>. QED
  BY <1>4 DEF before, after, OwedMoves

\* Payments in the settlement asset leave the other assets alone.
LEMMA OthersStill ==
  ASSUME \A w \in Accounts, a \in Assets \ {Settlement} : bal'[w][a] = bal[w][a],
         \A a \in Assets \ {Settlement} : reserves'[a] = reserves[a]
  PROVE  OthersKept
<1>1. ASSUME NEW a \in Assets \ {Settlement}
      PROVE  OwedKept(a)
  <2>1. Column(bal', a) = Column(bal, a)
    BY ColumnSame
  <2>. QED
    BY <2>1 DEF OwedKept
<1>. QED
  BY <1>1 DEF OthersKept

LEMMA FillOwes ==
  ASSUME ClearingInv, ClearingInv', AllPriced(positions), NEW maker \in Users, NEW taker \in Users, NEW m \in Markets,
         NEW makerLong \in BOOLEAN, NEW makerReduces \in BOOLEAN, NEW takerReduces \in BOOLEAN,
         NEW size \in FillSizes, NEW px \in FillPrices,
         SettleFill(maker, taker, m, makerLong, makerReduces, takerReduces, size, px)
  PROVE  ValueKept
<1>1. /\ maker # taker
      /\ UNCHANGED <<fundingVars, custody, insurance, paused, price, now>>
  BY FillBooks
<1>. DEFINE makerBps == Market[m].makerFee
            takerBps == Market[m].takerFee
<1>2. PICK s, c : /\ Halved(book, s, maker, m, makerLong, size, px, makerBps)
                  /\ Halved(s, c, taker, m, ~makerLong, size, px, takerBps)
                  /\ Filled(book, c, maker, taker)
                  /\ BecomesBook(c)
  BY FillBooks
<1>. HIDE DEF makerBps, takerBps
<1>3. size \in Nat \ {0} /\ px \in Nat
  OBVIOUS
<1>4. book.positions = positions /\ book.bal = bal /\ Sound(book) /\ IndexesAgree /\ OracleTyped
  BY DEF book, ClearingInv, BooksSound
<1>5. AllPriced(book.positions)
  BY <1>4
<1>6. PICK x \in Nat, y \in Nat : /\ Rounding(x, book.positions[maker], c.positions[maker])
                                  /\ Rounding(y, book.positions[taker], c.positions[taker])
                                  /\ Within(Total(c), Total(book), x + y)
  <2>. DEFINE other == ~makerLong
  <2>1. other = ~makerLong /\ Halved(s, c, taker, m, other, size, px, takerBps)
    BY <1>2
  <2>. HIDE DEF other
  <2>2. Rounded(book, c, maker, taker)
    BY <1>1, <1>2, <1>3, <1>4, <1>5, <2>1, FillTotal
  <2>. QED
    BY <2>2 DEF Rounded
<1>7. positions' = c.positions /\ bal' = c.bal /\ price' = price /\ vaultFunding' = vaultFunding /\ reserves' = reserves
  BY <1>1, <1>2 DEF BecomesBook, fundingVars, custody
<1>8. AllPriced(positions')
  BY <1>2, <1>7 DEF Halved
<1>9. x + y <= Dusts
  <2>1. Rounding(x, positions[maker], positions'[maker]) /\ Rounding(y, positions[taker], positions'[taker])
    BY <1>4, <1>6, <1>7
  <2>. QED
    BY <1>1, <2>1, TwoRoundings DEF ClearingInv
<1>10. OthersKept
  <2>1. \A w \in Accounts, a \in Assets \ {Settlement} : bal'[w][a] = bal[w][a]
    BY <1>2, <1>4, <1>7 DEF Filled, InSettlement
  <2>. QED
    BY <1>7, <2>1, OthersStill
<1>. DEFINE b == Column(bal, Settlement)
            p == PnlSum(positions, price, vaultFunding)
            r == reserves[Settlement]
            b2 == Column(bal', Settlement)
            p2 == PnlSum(positions', price, vaultFunding)
            pr == Precision * r
            t == Total(book)
            t2 == Total(c)
            before == OwedAt(bal, positions, price, vaultFunding, reserves[Settlement])
            after == OwedAt(bal', positions', price', vaultFunding', reserves'[Settlement])
<1>11. b \in Int /\ p \in Int /\ r \in Int /\ t = Precision * b + p
  BY OwedTypes
<1>12. b2 \in Int /\ p2 \in Int /\ t2 = Precision * b2 + p2
  <2>1. Sound(c) /\ AllPriced(c.positions)
    BY <1>2 DEF Halved
  <2>2. Column(c.bal, Settlement) \in Int /\ PnlSum(c.positions, price, vaultFunding) \in Int
    BY <1>4, <2>1, TotalType
  <2>3. Total(c) = Precision * Column(c.bal, Settlement) + PnlSum(c.positions, price, vaultFunding)
    BY Zenon DEF Total
  <2>. QED
    BY <1>7, <2>2, <2>3
<1>13. before = Precision * (b - r) + p /\ after = Precision * (b2 - r) + p2
  BY <1>7, Zenon DEF OwedAt
<1>. HIDE DEF b, p, r, b2, p2
<1>14. /\ Precision * (b - r) + p = (Precision * b + p) - pr
       /\ Precision * (b2 - r) + p2 = (Precision * b2 + p2) - pr
       /\ pr \in Int
  BY <1>11, <1>12, OwedIsTotal
<1>15. before = t - pr /\ after = t2 - pr
  BY <1>11, <1>12, <1>13, <1>14, Zenon
<1>16. Allowed \in Nat /\ Allowed >= Dusts /\ Dusts \in Nat
  BY AllowedType DEF ClearingInv
<1>. HIDE DEF t, t2, before, after, pr
<1>17. t \in Int /\ t2 \in Int /\ Abs(t2 - t) <= x + y
  BY <1>6 DEF Within, t, t2
<1>18. Within(after, before, Allowed)
  <2>. DEFINE e == x + y
  <2>1. e \in Nat /\ e <= Allowed /\ Abs(t2 - t) <= e
    BY <1>9, <1>16, <1>17
  <2>. HIDE DEF e
  <2>. QED
    BY <1>14, <1>15, <1>16, <1>17, <2>1 DEF Within, Abs
<1>19. OwedMoves
  BY <1>18, Zenon DEF OwedMoves, before, after
<1>. QED
  BY <1>8, <1>10, <1>19 DEF ValueKept

\* An amount of one asset enters or leaves with its tokens.
Transferred(u, a, n) ==
  /\ bal'[u][a] = bal[u][a] + n /\ reserves'[a] = reserves[a] + n
  /\ \A w \in Accounts \ {u} : bal'[w] = bal[w]
  /\ \A o \in Assets \ {a} : bal'[u][o] = bal[u][o] /\ reserves'[o] = reserves[o]

LEMMA DepositOwes ==
  ASSUME ClearingInv, ClearingInv', AllPriced(positions), NEW u \in Users, NEW a \in Assets, NEW n \in Int,
         UNCHANGED <<positions, price, vaultFunding>>, Transferred(u, a, n)
  PROVE  ValueKept
<1>1. /\ bal \in [Accounts -> [Assets -> Int]] /\ reserves \in [Assets -> Int] /\ u \in Accounts
      /\ bal' \in [Accounts -> [Assets -> Int]] /\ reserves' \in [Assets -> Int]
  BY BookTypes, BookTypesNext DEF ClearingInv, CustodyTyped, Accounts
<1>2. ASSUME NEW o \in Assets
      PROVE  OwedKept(o)
  <2>1. CASE o = a
    <3>1. BalanceAdded(bal, bal', u, a, n) /\ reserves'[a] = reserves[a] + n
      BY <1>1 DEF Transferred, BalanceAdded
    <3>. DEFINE b == Column(bal, a)
                b2 == Column(bal', a)
                r == reserves[a]
                r2 == reserves'[a]
    <3>2. b \in Int /\ b2 = b + n
      BY <1>1, <3>1, ColumnMoves
    <3>3. r \in Int /\ r2 = r + n
      BY <1>1, <3>1
    <3>4. b2 - r2 = b - r
      <4>. HIDE DEF b, b2, r, r2
      <4>. QED
        BY <3>2, <3>3
    <3>. QED
      BY <2>1, <3>4, Zenon DEF OwedKept
  <2>2. CASE o # a
    <3>1. \A w \in Accounts : bal'[w][o] = bal[w][o]
      <4>1. \A w \in Accounts \ {u} : bal'[w][o] = bal[w][o]
        BY Zenon DEF Transferred
      <4>2. bal'[u][o] = bal[u][o]
        BY <2>2, Zenon DEF Transferred
      <4>. QED
        BY <4>1, <4>2
    <3>2. Column(bal', o) = Column(bal, o)
      BY <3>1, ColumnSame
    <3>3. reserves'[o] = reserves[o]
      BY <2>2, Zenon DEF Transferred
    <3>. QED
      BY <3>2, <3>3 DEF OwedKept
  <2>. QED
    BY <2>1, <2>2
<1>3. OthersKept /\ OwedKept(Settlement)
  BY <1>2 DEF OthersKept
<1>4. OwedMoves
  BY <1>3, OwedStill DEF ClearingInv
<1>. QED
  BY <1>3, <1>4 DEF ValueKept

LEMMA NothingOwes ==
  ASSUME ClearingInv, ClearingInv', AllPriced(positions), UNCHANGED <<bal, positions, price, vaultFunding, reserves>>
  PROVE  ValueKept
<1>1. OwedKept(Settlement) /\ OthersKept
  BY Zenon DEF OwedKept, OthersKept
<1>2. OwedMoves
  BY <1>1, OwedStill DEF ClearingInv
<1>. QED
  BY <1>1, <1>2 DEF ValueKept

LEMMA SkewNet ==
  ASSUME ClearingInv, AllPriced(positions), NEW m \in Markets
  PROVE  NetSum(positions, m) \in Int /\ Skew(m) = NetSum(positions, m)
<1>. DEFINE z == NetSum(positions, m)
            x == HeldIn(positions, m, TRUE)
            y == HeldIn(positions, m, FALSE)
<1>1. z \in Int
  BY NetSumTypes
<1>2. z = x - y
  <2>1. positions \in [Users -> SUBSET Position]
    BY BookTypes DEF ClearingInv
  <2>. QED
    BY <2>1, NetSumSides
<1>3. Skew(m) = x - y
  <2>1. book.positions = positions /\ book.oi = oi /\ Counted(book)
    BY DEF ClearingInv, BooksSound, Sound, book
  <2>2. oi[m] = [total |-> x + y, long |-> x, short |-> y]
    BY <2>1 DEF Counted
  <2>. HIDE DEF x, y
  <2>3. oi[m].long = x /\ oi[m].short = y
    BY <2>2
  <2>. QED
    BY <2>3, Zenon DEF Skew
<1>. HIDE DEF x, y, z
<1>4. Skew(m) = z
  BY <1>2, <1>3, Zenon
<1>. QED
  BY <1>1, <1>4 DEF z

LEMMA FundingOwes ==
  ASSUME ClearingInv, ClearingInv', AllPriced(positions), NEW m \in Markets, UpdateFunding(m)
  PROVE  ValueKept /\ positions' = positions
<1>. DEFINE delta == IndexDelta(m)
            surplus == FundingSurplus(m)
            net == NetSum(positions, m)
<1>1. delta \in Int /\ surplus \in Int /\ net \in Int
  BY IndexDeltaType, SkewNet
<1>2. Abs(Precision * surplus - delta * net) < Precision
  <2>1. surplus = MulPrecision(delta, Skew(m))
    BY Zenon DEF FundingSurplus, Skew, MulPrecision
  <2>2. Skew(m) = net
    BY SkewNet
  <2>. HIDE DEF delta, surplus, net
  <2>3. Truncation(MulPrecision(delta, net), delta * net)
    BY <1>1, Truncates
  <2>. QED
    BY <2>1, <2>2, <2>3 DEF Truncation
<1>3. Sound(book) /\ book \in BookShape /\ book.bal = bal /\ book.positions = positions
  BY DEF ClearingInv, BooksSound, Sound, book
<1>4. /\ positions' = positions
      /\ Column(bal, Settlement) \in Int /\ Column(bal', Settlement) = Column(bal, Settlement) + surplus
      /\ \A w \in Accounts, a \in Assets \ {Settlement} : bal'[w][a] = bal[w][a]
  <2>1. InsuranceAccount \in Accounts
    BY DEF Accounts
  <2>2. CASE surplus = 0
    <3>1. BecomesBook(book)
      BY <2>2, Zenon DEF UpdateFunding
    <3>2. positions' = positions /\ bal' = bal
      BY <1>3, <3>1 DEF BecomesBook
    <3>3. Column(bal, Settlement) \in Int
      BY OwedTypes
    <3>. DEFINE b == Column(bal, Settlement)
    <3>4. b \in Int
      BY <3>3
    <3>5. Column(bal', Settlement) = b
      BY <3>2, Zenon
    <3>. HIDE DEF b, surplus
    <3>6. Column(bal', Settlement) = b + surplus
      BY <2>2, <3>4, <3>5
    <3>. QED
      BY <3>2, <3>4, <3>6 DEF b
  <2>3. CASE surplus # 0
    <3>1. PICK c \in ApplyPnl(book, InsuranceAccount, surplus) : BecomesBook(c)
      BY <2>3, Zenon DEF UpdateFunding
    <3>. HIDE DEF surplus
    <3>2. Charged(book, c, InsuranceAccount) /\ c.bal[InsuranceAccount][Settlement] = book.bal[InsuranceAccount][Settlement] + surplus
      BY <1>1, <1>3, <2>1, <3>1, Paid, PaidAmount
    <3>3. positions' = positions /\ bal' = c.bal
      BY <1>3, <3>1, <3>2 DEF BecomesBook, Charged, SameTrades
    <3>4. bal \in [Accounts -> [Assets -> Int]] /\ bal' \in [Accounts -> [Assets -> Int]]
      BY BookTypes, BookTypesNext DEF ClearingInv
    <3>5. BalanceAdded(bal, bal', InsuranceAccount, Settlement, surplus)
      BY <1>3, <2>1, <3>2, <3>3, <3>4 DEF Charged, BalanceAdded
    <3>6. \A w \in Accounts, a \in Assets \ {Settlement} : bal'[w][a] = bal[w][a]
      BY <1>3, <3>2, <3>3 DEF Charged, InSettlement
    <3>7. Column(bal, Settlement) \in Int /\ Column(bal', Settlement) = Column(bal, Settlement) + surplus
      BY <1>1, <2>1, <3>5, ColumnMoves
    <3>. QED
      BY <3>3, <3>6, <3>7
  <2>. QED
    BY <2>2, <2>3
<1>5. price' = price /\ reserves' = reserves
  BY DEF UpdateFunding, custody
<1>6. Reading(price, vaultFunding) /\ Reading(price, vaultFunding')
  <2>1. Reading(price, vaultFunding)
    BY VaultReads DEF ClearingInv
  <2>2. vaultFunding' \in [Markets -> [long : Int, short : Int]]
    BY DEF ClearingInv, IndexesAgree
  <2>. QED
    BY <2>1, <2>2 DEF Reading
<1>7. /\ vaultFunding'[m].long = vaultFunding[m].long + delta /\ vaultFunding'[m].short = vaultFunding[m].short - delta
      /\ \A n \in Markets \ {m} : vaultFunding'[n] = vaultFunding[n]
  <2>. DEFINE long == funding[m].long
              short == funding[m].short
  <2>1. vaultFunding' = [vaultFunding EXCEPT ![m] = [long |-> long + delta, short |-> short - delta]]
    BY Zenon DEF UpdateFunding
  <2>2. vaultFunding[m] = [long |-> long, short |-> short] /\ vaultFunding \in [Markets -> [long : Int, short : Int]]
    BY DEF ClearingInv, IndexesAgree
  <2>. HIDE DEF delta, long, short
  <2>3. vaultFunding'[m] = [long |-> long + delta, short |-> short - delta]
    BY <2>1, <2>2
  <2>4. vaultFunding[m].long = long /\ vaultFunding[m].short = short
    BY <2>2
  <2>5. vaultFunding'[m].long = long + delta /\ vaultFunding'[m].short = short - delta
    BY <2>3
  <2>. QED
    BY <2>1, <2>2, <2>4, <2>5
<1>8. PnlSum(positions, price, vaultFunding') = PnlSum(positions, price, vaultFunding) + (-delta) * net
  <2>. HIDE DEF delta
  <2>1. Shifted(price, vaultFunding, price, vaultFunding', m, -delta)
    BY <1>1, <1>6, <1>7, IndexShifts
  <2>. DEFINE c == -delta
  <2>2. c \in Int /\ Shifted(price, vaultFunding, price, vaultFunding', m, c)
    BY <1>1, <2>1
  <2>. HIDE DEF c, net
  <2>3. PnlSum(positions, price, vaultFunding') = PnlSum(positions, price, vaultFunding) + c * NetSum(positions, m)
    BY <1>6, <2>2, ShiftMoves
  <2>. QED
    BY <2>3, Zenon DEF c, net
<1>9. Allowed \in Nat /\ Allowed >= Precision
  <2>1. funding' # funding
    <3>1. funding'[m].last = now /\ now > funding[m].last
      <4>1. funding \in [Markets -> [long : Int, short : Int, last : Nat]]
        BY DEF ClearingInv, IndexesAgree
      <4>. HIDE DEF delta
      <4>2. funding' = [funding EXCEPT ![m] = [long |-> @.long + delta, short |-> @.short - delta, last |-> now]]
        BY Zenon DEF UpdateFunding, delta
      <4>3. now > funding[m].last
        BY Zenon DEF UpdateFunding
      <4>. QED
        BY <4>1, <4>2, <4>3
    <3>2. now \in Nat /\ funding[m].last \in Nat
      BY DEF ClearingInv, IndexesAgree, OracleTyped
    <3>. DEFINE i == now
                j == funding[m].last
    <3>3. i # j
      <4>. HIDE DEF i, j
      <4>. QED
        BY <3>1, <3>2 DEF i, j
    <3>. QED
      BY <3>1, <3>3, Zenon
  <2>. QED
    BY <2>1, AllowedType DEF ClearingInv
<1>. DEFINE b == Column(bal, Settlement)
            p == PnlSum(positions, price, vaultFunding)
            r == reserves[Settlement]
            b2 == Column(bal', Settlement)
            p2 == PnlSum(positions', price, vaultFunding')
            before == OwedAt(bal, positions, price, vaultFunding, reserves[Settlement])
            after == OwedAt(bal', positions', price', vaultFunding', reserves'[Settlement])
            dn == delta * net
            ps == Precision * surplus
            pb == Precision * (b - r)
<1>10. b \in Int /\ p \in Int /\ r \in Int /\ before \in Int
  BY OwedTypes
<1>11. before = pb + p /\ after = Precision * (b2 - r) + p2
  BY <1>4, <1>5, Zenon DEF OwedAt
<1>12. b2 = b + surplus /\ p2 = p + (-delta) * net
  BY <1>4, <1>8, Zenon
<1>. HIDE DEF b, p, r, b2, p2, delta, surplus, net, before, after
<1>13. Precision * ((b + surplus) - r) = pb + ps /\ (-delta) * net = -dn /\ pb \in Int /\ ps \in Int /\ dn \in Int
  BY <1>1, <1>10
<1>14. after = (pb + ps) + (p + (-dn))
  BY <1>11, <1>12, <1>13, Zenon
<1>15. Abs(ps - dn) < Precision
  BY <1>2
<1>. HIDE DEF dn, ps, pb
<1>16. Within(after, before, Allowed)
  BY <1>9, <1>10, <1>11, <1>13, <1>14, <1>15 DEF Within, Abs
<1>17. OwedMoves
  BY <1>16, Zenon DEF OwedMoves, before, after
<1>18. OthersKept
  BY <1>4, <1>5, OthersStill
<1>. QED
  BY <1>4, <1>17, <1>18 DEF ValueKept

LEMMA OracleOwes ==
  ASSUME ClearingInv, ClearingInv', AllPriced(positions), OracleRound, \A m \in Markets : Skew(m) = 0
  PROVE  ValueKept
<1>1. bal' = bal /\ positions' = positions /\ vaultFunding' = vaultFunding /\ reserves' = reserves
  BY DEF OracleRound, bookVars, fundingVars, custody
<1>2. \A m \in Markets : NetSum(positions, m) = 0
  BY SkewNet
<1>3. Reading(price, vaultFunding) /\ Reading(price', vaultFunding)
  <2>1. Reading(price, vaultFunding)
    BY VaultReads DEF ClearingInv
  <2>2. price' \in [Feeds -> Nat]
    BY DEF ClearingInv, OracleTyped
  <2>. QED
    BY <2>1, <2>2 DEF Reading, Feeds
<1>4. PnlSum(positions, price', vaultFunding) = PnlSum(positions, price, vaultFunding)
  BY <1>2, <1>3, EvenPrices
<1>5. OwedKept(Settlement) /\ OthersKept
  BY <1>1, Zenon DEF OwedKept, OthersKept
<1>6. OwedMoves
  BY <1>1, <1>4, <1>5, OwedStill DEF ClearingInv
<1>. QED
  BY <1>1, <1>5, <1>6 DEF ValueKept

\* In the oracle's band, what a trade makes or loses is bounded by its size times the band.
LEMMA EdgeBounded ==
  ASSUME OracleTyped, NEW m \in Markets, NEW long \in BOOLEAN, NEW size \in Nat, NEW px \in Nat, InBand(m, px)
  PROVE  /\ Edge(m, long, size, px) \in Int /\ size * Band(m) \in Nat
         /\ Abs(Edge(m, long, size, px)) <= size * Band(m)
<1>. DEFINE k == size
            x == price[m]
            band == Band(m)
            e == k * x - k * px
<1>1. k \in Nat /\ x \in Nat /\ band \in Nat
  BY BandType DEF OracleTyped, Feeds
<1>3. Abs(px - x) <= band
  BY Zenon DEF InBand, Band
<1>4. Edge(m, long, size, px) = Signed(long, e)
  BY DEF Edge
<1>. HIDE DEF x, band, k
<1>5. px - x <= band /\ x - px <= band
  <2>. DEFINE y == px - x
  <2>1. y \in Int /\ x - px = -y
    BY <1>1
  <2>. HIDE DEF y
  <2>2. Abs(y) >= y /\ Abs(y) >= -y /\ Abs(y) \in Nat
    BY <2>1, AbsType
  <2>3. Abs(y) <= band
    BY <1>3 DEF y
  <2>4. y <= band /\ -y <= band
    BY <1>1, <2>1, <2>2, <2>3
  <2>. QED
    BY <2>1, <2>4 DEF y
<1>6. e \in Int /\ e <= k * band /\ -e <= k * band
  <2>1. k * (band - (px - x)) >= 0 /\ k * (band - (x - px)) >= 0
    <3>1. \A i \in Int : i >= 0 => k * i >= 0
      BY <1>1
    <3>2. band - (px - x) \in Int /\ band - (px - x) >= 0 /\ band - (x - px) \in Int /\ band - (x - px) >= 0
      BY <1>1, <1>5
    <3>. QED
      BY <3>1, <3>2
  <2>2. k * (band - (px - x)) = k * band + (k * x - k * px) /\ k * (band - (x - px)) = k * band - (k * x - k * px)
    BY <1>1
  <2>3. k * band \in Int /\ k * x \in Int /\ k * px \in Int
    BY <1>1
  <2>4. e \in Int /\ k * band + e >= 0 /\ k * band - e >= 0
    BY <2>1, <2>2, <2>3
  <2>. HIDE DEF e
  <2>. QED
    BY <2>3, <2>4
<1>7. Signed(long, e) \in Int /\ (Signed(long, e) = e \/ Signed(long, e) = -e)
  <2>. HIDE DEF e
  <2>. QED
    BY <1>6, SignedType DEF Signed
<1>8. Abs(Signed(long, e)) <= k * band /\ k * band \in Nat
  <2>. DEFINE s == Signed(long, e)
              w == k * band
  <2>1. w \in Nat
    BY <1>1
  <2>. HIDE DEF s, e, w
  <2>2. s <= w /\ -s <= w /\ s \in Int
    BY <1>6, <1>7, <2>1 DEF s, w
  <2>3. Abs(s) <= w
    BY <2>1, <2>2 DEF Abs
  <2>. QED
    BY <2>1, <2>3 DEF s, w
<1>. QED
  BY <1>4, <1>7, <1>8, Zenon DEF band, k

\* A position reduced is a rounding of two amounts paid.
LEMMA ReducedRounds ==
  ASSUME NEW before, NEW after, NEW p \in before, p \notin after
  PROVE  Rounding(2 * Precision, before, after)
<1>1. before # after
  OBVIOUS
<1>2. 2 * Precision <= 3 * Precision
  OBVIOUS
<1>. QED
  BY <1>1, <1>2 DEF Rounding

LEMMA LiquidateOwes ==
  ASSUME ClearingInv, ClearingInv', AllPriced(positions), NEW l \in Liquidators, NEW u \in Users,
         NEW size \in FillSizes, NEW px \in FillPrices, NEW p \in positions[u], Liquidate(l, u, p, size, px)
  PROVE  ValueKept
<1>1. size \in Nat \ {0} /\ size \in Nat /\ px \in Nat
  OBVIOUS
<1>2. /\ Sound(book) /\ IndexesAgree /\ OracleTyped /\ AllPriced(book.positions) /\ p \in book.positions[u]
      /\ book.positions[u] \subseteq Priced /\ book.positions = positions /\ book.bal = bal /\ book.oi = oi
  BY DEF ClearingInv, BooksSound, book, AllPriced
<1>. DEFINE m == p.market
            long == p.long
            other == ~long
<1>3. m \in Markets /\ long \in BOOLEAN /\ other \in BOOLEAN
  <2>1. p \in Priced
    BY <1>2
  <2>. QED
    BY <2>1, PricedType
<1>4. PICK available \in Nat : \E b :
              /\ b \in ReducedBooks(book, u, p, size, px)
              /\ Moved(book, b, u, p.market, Signed(p.long, -size))
              /\ BecomesBook(Credited(b, u, Coverage(b, u, available)))
              /\ reserves' = [reserves EXCEPT ![Settlement] = @ + Coverage(b, u, available)]
  BY LiquidateStep
<1>5. PICK b : /\ b \in ReducedBooks(book, u, p, size, px)
               /\ Moved(book, b, u, p.market, Signed(p.long, -size))
               /\ BecomesBook(Credited(b, u, Coverage(b, u, available)))
               /\ reserves' = [reserves EXCEPT ![Settlement] = @ + Coverage(b, u, available)]
  BY <1>4
<1>. DEFINE n == Coverage(b, u, available)
            edge == Edge(m, other, size, px)
<1>6. Sound(b) /\ b \in BookShape /\ u \in Accounts
  BY <1>5 DEF Moved, Sound, Accounts
<1>7. n \in Int /\ n \in Nat
  BY <1>6, CoverageTypes
<1>. HIDE DEF n
<1>8. BecomesBook(Credited(b, u, n)) /\ reserves' = [reserves EXCEPT ![Settlement] = @ + n]
  BY <1>5 DEF n
<1>9. Charged(b, Credited(b, u, n), u) /\ Credited(b, u, n).bal[u][Settlement] = b.bal[u][Settlement] + n
  BY <1>6, <1>7, CreditKeeps, CreditAmount
<1>10. positions' = b.positions /\ bal' = Credited(b, u, n).bal /\ oi' = b.oi
  BY <1>8, <1>9 DEF BecomesBook, Charged, SameTrades
<1>11. /\ b.positions[u] \subseteq Priced /\ InBand(m, px) /\ p \notin b.positions[u]
       /\ Within(Value(b, u), Value(book, u) + edge, 2 * Precision)
  BY <1>1, <1>2, <1>5, ReduceTrades
<1>12. AllPriced(b.positions) /\ Total(book) \in Int /\ Total(b) = Total(book) + Value(b, u) - Value(book, u)
  BY <1>2, <1>5, <1>11, TotalMoves
<1>13. Value(b, u) \in Int /\ Value(book, u) \in Int
  BY <1>2, <1>6, <1>11, ValueType
<1>14. 2 * Precision <= Dusts
  <2>1. Rounding(2 * Precision, positions[u], positions'[u])
    BY <1>10, <1>11, ReducedRounds
  <2>2. 2 * Precision \in Nat
    OBVIOUS
  <2>. QED
    BY <2>1, <2>2, OneRounding DEF ClearingInv
<1>. HIDE DEF m, long, other
<1>15. edge \in Int /\ size * Band(m) \in Nat /\ Abs(edge) <= size * Band(m)
  BY <1>1, <1>2, <1>3, <1>11, EdgeBounded
<1>. HIDE DEF edge
<1>16. AllPriced(positions')
  BY <1>10, <1>12
<1>17. Abs(Skew(m)' - Skew(m)) = size
  <2>1. Apart(b, m) = Apart(book, m) + Signed(long, -size)
    <3>1. Moved(book, b, u, m, Signed(long, -size))
      BY <1>5 DEF m, long
    <3>. QED
      BY <1>3, <3>1 DEF Moved
  <2>2. Skew(m) \in Int /\ Skew(m) = Apart(book, m) /\ Skew(m)' \in Int
    BY <1>3, SkewType, SkewTypeNext DEF ClearingInv
  <2>3. Skew(m)' = Apart(b, m)
    <3>1. Skew(m)' = oi'[m].long - oi'[m].short
      BY <1>3, SkewTypeNext DEF ClearingInv
    <3>. QED
      BY <1>10, <3>1, Zenon DEF Apart
  <2>. DEFINE s == Signed(long, -size)
  <2>4. s \in Int /\ (s = size \/ s = -size)
    BY <1>1, <1>3 DEF Signed
  <2>5. Skew(m)' - Skew(m) = s
    <3>. DEFINE x == Skew(m)'
                y == Skew(m)
    <3>1. x = y + s /\ x \in Int /\ y \in Int
      BY <2>1, <2>2, <2>3
    <3>2. x - y = s
      <4>. HIDE DEF x, y, s
      <4>. QED
        BY <2>4, <3>1
    <3>. QED
      BY <3>2
  <2>. HIDE DEF s
  <2>6. Abs(s) = size
    BY <1>1, <2>4 DEF Abs
  <2>. QED
    BY <2>5, <2>6, Zenon
<1>18. Abs(edge) + 2 * Precision <= Allowed /\ Allowed \in Nat
  <2>1. Bands \in Nat /\ Bands >= size * Band(m)
    <3>1. Bands \in Nat /\ Bands >= Abs(Skew(m)' - Skew(m)) * Band(m)
      BY <1>3, BandsCover DEF ClearingInv
    <3>2. Abs(Skew(m)' - Skew(m)) * Band(m) = size * Band(m)
      BY <1>17, Zenon
    <3>. DEFINE x == Abs(Skew(m)' - Skew(m)) * Band(m)
                y == size * Band(m)
    <3>. HIDE DEF x, y
    <3>3. Bands >= x /\ x = y
      BY <3>1, <3>2 DEF x, y
    <3>4. Bands >= y
      BY <3>3
    <3>. QED
      BY <3>1, <3>4 DEF y
  <2>2. Dusts \in Nat /\ Allowed \in Nat /\ Allowed >= Bands + Dusts
    BY AllowedType DEF ClearingInv
  <2>3. Abs(edge) \in Nat
    BY <1>15, AbsType
  <2>. DEFINE w == size * Band(m)
              a == Abs(edge)
  <2>4. w \in Nat /\ a \in Nat /\ a <= w /\ Bands >= w
    BY <1>15, <2>1, <2>3
  <2>. HIDE DEF w, a
  <2>5. a + 2 * Precision <= Allowed
    BY <1>14, <2>1, <2>2, <2>4
  <2>. QED
    BY <2>2, <2>5 DEF a
<1>. DEFINE b0 == Column(bal, Settlement)
            p0 == PnlSum(positions, price, vaultFunding)
            r0 == reserves[Settlement]
            b1 == Column(b.bal, Settlement)
            b2 == Column(bal', Settlement)
            p2 == PnlSum(positions', price, vaultFunding)
            r2 == reserves'[Settlement]
            pr == Precision * r0
            t == Total(book)
            t2 == Total(b)
            before == OwedAt(bal, positions, price, vaultFunding, reserves[Settlement])
            after == OwedAt(bal', positions', price', vaultFunding', reserves'[Settlement])
<1>19. b0 \in Int /\ p0 \in Int /\ r0 \in Int /\ t = Precision * b0 + p0
  BY OwedTypes
<1>20. b1 \in Int /\ p2 \in Int /\ t2 = Precision * b1 + p2
  <2>1. Column(b.bal, Settlement) \in Int /\ PnlSum(b.positions, price, vaultFunding) \in Int
    BY <1>2, <1>6, <1>12, TotalType
  <2>2. Total(b) = Precision * Column(b.bal, Settlement) + PnlSum(b.positions, price, vaultFunding)
    BY Zenon DEF Total
  <2>. QED
    BY <1>10, <2>1, <2>2
<1>21. b2 = b1 + n
  <2>1. b.bal \in [Accounts -> [Assets -> Int]] /\ bal' \in [Accounts -> [Assets -> Int]]
    BY <1>6, BookTypesNext DEF BookShape, ClearingInv
  <2>2. BalanceAdded(b.bal, bal', u, Settlement, n)
    BY <1>6, <1>9, <1>10, <2>1 DEF Charged, BalanceAdded
  <2>. QED
    BY <1>6, <1>7, <2>2, ColumnMoves
<1>22. r2 = r0 + n /\ \A a \in Assets \ {Settlement} : reserves'[a] = reserves[a]
  <2>1. reserves \in [Assets -> Int]
    BY DEF ClearingInv, CustodyTyped
  <2>. QED
    BY <1>8, <2>1
<1>23. price' = price /\ vaultFunding' = vaultFunding
  BY DEF Liquidate, fundingVars
<1>24. before = Precision * (b0 - r0) + p0 /\ after = Precision * (b2 - r2) + p2
  BY <1>23, Zenon DEF OwedAt
<1>25. OthersKept
  <2>1. \A w \in Accounts, a \in Assets \ {Settlement} : bal'[w][a] = bal[w][a]
    <3>1. \A w \in Accounts, a \in Assets \ {Settlement} : b.bal[w][a] = bal[w][a]
      BY <1>2, <1>5 DEF Moved, InSettlement
    <3>2. \A w \in Accounts, a \in Assets \ {Settlement} : bal'[w][a] = b.bal[w][a]
      BY <1>9, <1>10 DEF Charged, InSettlement
    <3>. QED
      BY <3>1, <3>2
  <2>. QED
    BY <1>22, <2>1, OthersStill
<1>. DEFINE x == Value(book, u)
            y == Value(b, u)
<1>26. t \in Int /\ t2 = t + y - x /\ x \in Int /\ y \in Int /\ Abs(y - (x + edge)) <= 2 * Precision
  BY <1>11, <1>12, <1>13 DEF Within
<1>. HIDE DEF b0, p0, r0, b1, b2, p2, r2, t, t2, before, after, x, y
<1>27. b2 - r2 = b1 - r0
  BY <1>7, <1>19, <1>20, <1>21, <1>22
<1>28. /\ Precision * (b0 - r0) + p0 = (Precision * b0 + p0) - pr
       /\ Precision * (b1 - r0) + p2 = (Precision * b1 + p2) - pr
       /\ pr \in Int
  BY <1>19, <1>20, OwedIsTotal
<1>29. before = t - pr /\ after = t2 - pr
  BY <1>19, <1>20, <1>24, <1>27, <1>28, Zenon
<1>. HIDE DEF pr
<1>30. Within(after, before, Allowed)
  BY <1>15, <1>18, <1>26, <1>28, <1>29 DEF Within, Abs
<1>31. OwedMoves
  BY <1>30, Zenon DEF OwedMoves, before, after
<1>. QED
  BY <1>16, <1>25, <1>31 DEF ValueKept

LEMMA NextOwes ==
  ASSUME ClearingInv, ClearingInv', AllPriced(positions), [Next]_vars
  PROVE  /\ AllPriced(positions') /\ OthersKept
         /\ price' = price \/ (\A m \in Markets : Skew(m) = 0) => OwedMoves
<1>1. CASE \E maker, taker \in Users, m \in Markets, makerLong \in BOOLEAN,
               makerReduces, takerReduces \in BOOLEAN, size \in FillSizes, px \in FillPrices :
               SettleFill(maker, taker, m, makerLong, makerReduces, takerReduces, size, px)
  <2>1. ValueKept
    BY <1>1, FillOwes
  <2>. QED
    BY <2>1 DEF ValueKept
<1>0. /\ bal \in [Accounts -> [Assets -> Int]] /\ reserves \in [Assets -> Int]
      /\ \A u \in Users : u \in Accounts
  BY BookTypes DEF ClearingInv, CustodyTyped, Accounts
<1>2. ASSUME NEW u \in Users, NEW a \in Assets, NEW n \in Deposits, Deposit(u, a, n)
      PROVE  ValueKept
  <2>1. UNCHANGED <<positions, price, vaultFunding>> /\ n \in Int
    BY <1>2 DEF Deposit, fundingVars
  <2>2. bal' = [bal EXCEPT ![u][a] = @ + n] /\ reserves' = [reserves EXCEPT ![a] = @ + n]
    BY <1>2 DEF Deposit
  <2>3. Transferred(u, a, n)
    BY <1>0, <2>1, <2>2 DEF Transferred
  <2>. QED
    BY <2>1, <2>3, DepositOwes
<1>3. ASSUME NEW u \in Users, NEW a \in Assets, NEW n \in Withdrawals, Withdraw(u, a, n)
      PROVE  ValueKept
  <2>. DEFINE k == -n
  <2>1. UNCHANGED <<positions, price, vaultFunding>> /\ n \in Int /\ k \in Int
    BY <1>3 DEF Withdraw, fundingVars
  <2>2. bal' = [bal EXCEPT ![u][a] = @ - n] /\ reserves' = [reserves EXCEPT ![a] = @ - n]
    BY <1>3 DEF Withdraw
  <2>3. Transferred(u, a, k)
    BY <1>0, <2>1, <2>2 DEF Transferred
  <2>. HIDE DEF k
  <2>. QED
    BY <2>1, <2>3, DepositOwes
<1>4. CASE \E f \in Funders, n \in Deposits : InsuranceDeposit(f, n)
  <2>1. UNCHANGED <<bal, positions, price, vaultFunding, reserves>>
    BY <1>4 DEF InsuranceDeposit, bookVars, fundingVars
  <2>. QED
    BY <2>1, NothingOwes DEF ValueKept
<1>5. CASE \E m \in Markets : UpdateFunding(m)
  <2>1. ValueKept
    BY <1>5, FundingOwes
  <2>. QED
    BY <2>1 DEF ValueKept
<1>6. CASE \E l \in Liquidators, u \in Users, size \in FillSizes, px \in FillPrices :
               \E p \in positions[u] : Liquidate(l, u, p, size, px)
  <2>1. ValueKept
    BY <1>6, LiquidateOwes
  <2>. QED
    BY <2>1 DEF ValueKept
<1>7. CASE EmergencyPause \/ Unpause \/ UNCHANGED vars
  <2>1. UNCHANGED <<bal, positions, price, vaultFunding, reserves>>
    BY <1>7 DEF EmergencyPause, Unpause, vars, bookVars, fundingVars, custody
  <2>. QED
    BY <2>1, NothingOwes DEF ValueKept
<1>8. CASE OracleRound
  <2>1. UNCHANGED <<bal, positions, vaultFunding, reserves>>
    BY <1>8 DEF OracleRound, bookVars, fundingVars, custody
  <2>2. AllPriced(positions') /\ OthersKept
    BY <2>1, Zenon DEF OthersKept, OwedKept
  <2>3. ASSUME price' = price
        PROVE  OwedMoves
    <3>1. UNCHANGED <<bal, positions, price, vaultFunding, reserves>>
      BY <2>1, <2>3
    <3>. QED
      BY <3>1, NothingOwes DEF ValueKept
  <2>4. ASSUME \A m \in Markets : Skew(m) = 0
        PROVE  OwedMoves
    BY <1>8, <2>4, OracleOwes DEF ValueKept
  <2>. QED
    BY <2>2, <2>3, <2>4
<1>. QED
  BY <1>1, <1>2, <1>3, <1>4, <1>5, <1>6, <1>7, <1>8 DEF Next, ValueKept

\* Every held position was entered at a price.
EntriesPriced == AllPriced(positions)

LEMMA PricedInvariant == Spec => []EntriesPriced
<1>1. Init => EntriesPriced
  <2> SUFFICES ASSUME Init
               PROVE  EntriesPriced
    OBVIOUS
  <2>1. \A u \in Users : positions[u] = {}
    BY DEF Init
  <2>. QED
    BY <2>1, FS_EmptySet DEF EntriesPriced, AllPriced
<1>2. ClearingInv /\ ClearingInv' /\ EntriesPriced /\ [Next]_vars => EntriesPriced'
  BY NextOwes DEF EntriesPriced
<1>. QED
  BY <1>1, <1>2, ClearingInvariant, PTL DEF Spec

\* No fill, fee, funding update, deposit, withdrawal or coverage of a deficit creates or
\* destroys value beyond the rounding of the amounts paid; a new price neither while the sides
\* are even; a liquidation no more than its distance from the oracle's price; and of every other
\* collateral the vault owes as much beyond its tokens as before.
THEOREM NoValueLost == Spec => ValueConserved
<1>1. ASSUME ClearingInv, EntriesPriced, GapSplits, ClearingInv', GapSplits', [Next]_vars,
             price' = price \/ \A m \in Markets : Skew(m) = 0
      PROVE  Abs(Gap' - Gap) <= Bands + Dusts + FundingDust
  <2>. DEFINE before == OwedAt(bal, positions, price, vaultFunding, reserves[Settlement])
              after == OwedAt(bal', positions', price', vaultFunding', reserves'[Settlement])
  <2>1. OwedMoves
    BY <1>1, NextOwes DEF EntriesPriced
  <2>2. Gap = before
    BY <1>1, Zenon DEF GapSplits
  <2>3. Gap' = after
    BY <1>1, Zenon DEF GapSplits
  <2>4. Abs(after - before) <= Allowed
    BY <2>1 DEF OwedMoves, Within
  <2>. QED
    BY <2>2, <2>3, <2>4, Zenon DEF Allowed
<1>2. ASSUME ClearingInv, EntriesPriced, ClearingInv', [Next]_vars, NEW a \in Assets \ {Settlement}
      PROVE  Owed(a)' = Owed(a)
  <2>1. OwedKept(a)
    BY <1>2, NextOwes DEF EntriesPriced, OthersKept
  <2>. QED
    BY <2>1, OwedParts, Zenon DEF OwedKept
<1>3. ClearingInv /\ EntriesPriced /\ GapSplits /\ ClearingInv' /\ GapSplits' /\ [Next]_vars =>
        /\ (price' = price \/ \A m \in Markets : Skew(m) = 0) =>
             Abs(Gap' - Gap) <=
               SumFunction([m \in Markets |-> Abs(Skew(m)' - Skew(m)) * Band(m)])
               + SumFunction([u \in Users |-> IF positions'[u] # positions[u] THEN Dust(u) ELSE 0])
               + (IF funding' # funding THEN Precision ELSE 0)
        /\ \A a \in Assets \ {Settlement} : Owed(a)' = Owed(a)
  BY <1>1, <1>2, Zenon DEF Bands, Dusts, FundingDust
<1>. QED
  BY <1>3, ClearingInvariant, PricedInvariant, GapPartsBoxed, PTL DEF Spec, ValueConserved
-----------------------------------------------------------------------------
(* What a trade costs an account. *)

WorthSplits == \A u \in Users : Worth(u) = Value(book, u)

LEMMA WorthParts ==
  ASSUME BooksSound
  PROVE  WorthSplits
<1>1. book.bal = bal /\ book.positions = positions
  BY DEF book
<1>2. ASSUME NEW u \in Users
      PROVE  Worth(u) = Value(book, u)
  <2>1. OpenPnl(u) = HeldAt(positions[u], price, vaultFunding)
    BY OpenIsHeld
  <2>. QED
    BY <1>1, <2>1, Zenon DEF Worth, Value
<1>. QED
  BY <1>2 DEF WorthSplits

\* The same after a step.
LEMMA WorthPartsBoxed == Spec => []WorthSplits
<1>1. ClearingInv => WorthSplits
  BY WorthParts DEF ClearingInv
<1>. QED
  BY <1>1, ClearingInvariant, PTL

Costs(u) == SumFunction([m \in Markets |-> TradeCost(u, m)])

\* The fees on a trade of a size, at a price of the band, are at most the larger fee at the band's end.
LEMMA FeeBounded ==
  ASSUME OracleTyped, NEW m \in Markets, NEW size \in Nat, NEW px \in Nat, InBand(m, px), NEW bps \in Nat,
         NEW top \in Nat, bps <= top
  PROVE  /\ ApplyBps(Notional(size, px), bps) \in Nat
         /\ ApplyBps(Notional(size, price[m] + Band(m)), top) \in Nat
         /\ ApplyBps(Notional(size, px), bps) <= ApplyBps(Notional(size, price[m] + Band(m)), top)
<1>. DEFINE x == price[m]
            band == Band(m)
            far == x + band
<1>1. x \in Nat /\ band \in Nat /\ far \in Nat
  BY BandType DEF OracleTyped, Feeds
<1>2. px <= far
  <2>1. Abs(px - x) <= band
    BY Zenon DEF InBand, Band
  <2>. HIDE DEF x, band
  <2>2. Abs(px - x) >= px - x /\ Abs(px - x) \in Nat
    <3>1. px - x \in Int
      BY <1>1
    <3>. QED
      BY <3>1, AbsType
  <2>. QED
    BY <1>1, <2>1, <2>2
<1>. HIDE DEF far
<1>3. \A a, b \in Nat : Notional(a, b) = (a * b) \div Precision /\ Notional(a, b) \in Nat
  BY MulDivFloor, FixedTypes DEF Notional, MulPrecision
<1>4. Notional(size, px) \in Nat /\ Notional(size, far) \in Nat /\ Notional(size, px) <= Notional(size, far)
  <2>1. size * px \in Nat /\ size * far \in Nat /\ size * px <= size * far
    <3>1. size * (far - px) >= 0 /\ size * (far - px) = size * far - size * px
      BY <1>1, <1>2
    <3>2. size * px \in Nat /\ size * far \in Nat
      BY <1>1
    <3>. QED
      BY <3>1, <3>2
  <2>. DEFINE a == size * px
              b == size * far
  <2>. HIDE DEF a, b
  <2>2. a \div Precision <= b \div Precision
    BY <2>1, FloorGrows DEF a, b
  <2>. QED
    BY <1>1, <1>3, <2>2 DEF a, b
<1>. DEFINE n == Notional(size, px)
            w == Notional(size, far)
<1>. HIDE DEF n, w
<1>5. n \in Nat /\ w \in Nat /\ n <= w
  BY <1>4 DEF n, w
<1>6. \A a, b \in Nat : ApplyBps(a, b) = (a * b) \div BpsDenominator /\ ApplyBps(a, b) \in Nat
  <2>1. BpsDenominator \in Nat \ {0}
    BY DEF BpsDenominator
  <2>. QED
    BY <2>1, MulDivFloor, FixedTypes DEF ApplyBps
<1>7. n * bps \in Nat /\ w * top \in Nat /\ n * bps <= w * top
  <2>1. n * bps \in Nat /\ w * top \in Nat /\ w * bps \in Nat
    BY <1>5
  <2>2. bps * (w - n) >= 0 /\ bps * (w - n) = w * bps - n * bps
    BY <1>5
  <2>3. w * (top - bps) >= 0 /\ w * (top - bps) = w * top - w * bps
    BY <1>5
  <2>. QED
    BY <2>1, <2>2, <2>3
<1>. DEFINE a == n * bps
            b == w * top
<1>8. a \div BpsDenominator <= b \div BpsDenominator
  <2>1. BpsDenominator \in Nat \ {0}
    BY DEF BpsDenominator
  <2>. HIDE DEF a, b
  <2>. QED
    BY <1>7, <2>1, FloorGrows DEF a, b
<1>. HIDE DEF a, b
<1>9. ApplyBps(n, bps) = a \div BpsDenominator /\ ApplyBps(w, top) = b \div BpsDenominator
      /\ ApplyBps(n, bps) \in Nat /\ ApplyBps(w, top) \in Nat
  BY <1>5, <1>6 DEF a, b
<1>. QED
  BY <1>8, <1>9 DEF n, w, far

\* Every market's cost is nonnegative, so the sum covers the market of the trade.
LEMMA CostsCover ==
  ASSUME ClearingInv, BooksSound', NEW u \in Users
  PROVE  /\ Costs(u) \in Nat
         /\ \A m \in Markets : /\ Net(u, m) = NetOf(positions[u], m) /\ Net(u, m)' = NetOf(positions'[u], m)
                              /\ TradeCost(u, m) \in Nat /\ Costs(u) >= TradeCost(u, m)
<1>. DEFINE f == [m \in Markets |-> TradeCost(u, m)]
<1>1. ASSUME NEW m \in Markets
      PROVE  /\ Net(u, m) = NetOf(positions[u], m) /\ Net(u, m)' = NetOf(positions'[u], m)
             /\ TradeCost(u, m) \in Nat
  <2>1. Net(u, m) = NetOf(positions[u], m) /\ Net(u, m)' = NetOf(positions'[u], m)
    BY Zenon DEF Net, NetOf
  <2>2. NetOf(positions[u], m) \in Int /\ NetOf(positions'[u], m) \in Int
    BY BookTypes, BookTypesNext, NetHeld DEF ClearingInv
  <2>. DEFINE size == Abs(Net(u, m)' - Net(u, m))
              x == price[m]
              y == Band(m)
              top == Greatest(Market[m].makerFee, Market[m].takerFee)
              far == x + y
              fee == ApplyBps(Notional(size, far), top)
              way == size * y
              cost == Precision * fee
  <2>3. size \in Nat
    BY <2>1, <2>2, AbsType
  <2>4. Market[m].makerFee \in Nat /\ Market[m].takerFee \in Nat /\ x \in Nat /\ y \in Nat
    <3>1. Market[m] \in MarketType
      OBVIOUS
    <3>. QED
      BY <3>1, BandType DEF ClearingInv, OracleTyped, Feeds, MarketType
  <2>5. top \in Nat /\ far \in Nat
    BY <2>4 DEF Greatest
  <2>8. TradeCost(u, m) = way + cost
    BY Zenon DEF TradeCost
  <2>. HIDE DEF size, top, far, y
  <2>6. fee \in Nat
    <3>1. Notional(size, far) \in Nat
      BY <2>3, <2>5, FixedTypes
    <3>. QED
      BY <2>5, <3>1, FixedTypes
  <2>. HIDE DEF fee
  <2>7. way \in Nat /\ cost \in Nat
    BY <2>3, <2>4, <2>6
  <2>. HIDE DEF way, cost
  <2>9. TradeCost(u, m) \in Nat
    BY <2>7, <2>8
  <2>. QED
    BY <2>1, <2>9
<1>2. \A m \in Markets : f[m] \in Nat /\ f[m] = TradeCost(u, m)
  BY <1>1
<1>3. Costs(u) = SumFunctionOnSet(f, Markets)
  BY Zenon DEF Costs, SumFunction
<1>. HIDE DEF f
<1>4. SumFunctionOnSet(f, Markets) \in Nat /\ \A m \in Markets : SumFunctionOnSet(f, Markets) >= f[m]
  <2>1. \A m \in Markets : f[m] \in Int /\ f[m] >= 0
    BY <1>2
  <2>2. SumFunctionOnSet(f, Markets) \in Int /\ SumFunctionOnSet(f, Markets) >= 0
    BY <2>1, SumType
  <2>3. \A m \in Markets : SumFunctionOnSet(f, Markets) >= f[m]
    BY <1>2, SumOfTwo
  <2>. QED
    BY <2>2, <2>3
<1>. QED
  BY <1>1, <1>2, <1>3, <1>4

\* A trade of a size in the band costs its fee, the distance from the oracle's price and the rounding.
LEMMA TradeKept ==
  ASSUME ClearingInv, BooksSound', NEW u \in Users, NEW m \in Markets, NEW long \in BOOLEAN,
         NEW size \in Nat \ {0}, NEW px \in Nat, InBand(m, px),
         NEW net, net \in {size, -size}, NetOf(positions'[u], m) = NetOf(positions[u], m) + net,
         NEW bps \in {Market[m].makerFee, Market[m].takerFee},
         NEW e \in Nat, Rounding(e, positions[u], positions'[u]),
         NEW v \in Int, NEW w \in Int,
         w >= v + Edge(m, long, size, px) - e - Precision * ApplyBps(Notional(size, px), bps)
  PROVE  w >= v - Dust(u) - Costs(u)
<1>. DEFINE edge == Edge(m, long, size, px)
            fee == ApplyBps(Notional(size, px), bps)
            top == Greatest(Market[m].makerFee, Market[m].takerFee)
            most == ApplyBps(Notional(size, price[m] + Band(m)), top)
            way == size * Band(m)
            cost == Precision * fee
            worst == Precision * most
<1>1. OracleTyped /\ size \in Nat
  BY DEF ClearingInv
<1>2. bps \in Nat /\ top \in Nat /\ bps <= top
  <2>1. Market[m] \in MarketType
    OBVIOUS
  <2>2. Market[m].makerFee \in Nat /\ Market[m].takerFee \in Nat
    BY <2>1 DEF MarketType
  <2>. QED
    BY <2>2 DEF Greatest
<1>4. edge \in Int /\ way \in Nat /\ Abs(edge) <= way
  BY <1>1, EdgeBounded
<1>5. Costs(u) \in Nat /\ Costs(u) >= way + worst
  <2>1. Abs(Net(u, m)' - Net(u, m)) = size
    <3>. DEFINE x == NetOf(positions[u], m)
                y == NetOf(positions'[u], m)
    <3>1. x \in Int /\ y \in Int /\ y = x + net
      BY BookTypes, BookTypesNext, NetHeld DEF ClearingInv
    <3>2. Net(u, m) = x /\ Net(u, m)' = y
      BY CostsCover
    <3>. HIDE DEF x, y
    <3>3. y - x = net
      BY <3>1
    <3>4. Abs(net) = size
      BY DEF Abs
    <3>. QED
      BY <3>2, <3>3, <3>4, Zenon
  <2>2. TradeCost(u, m) = way + worst
    BY <2>1, Zenon DEF TradeCost
  <2>3. Costs(u) \in Nat /\ Costs(u) >= TradeCost(u, m)
    BY CostsCover
  <2>. HIDE DEF way, worst
  <2>. QED
    BY <2>2, <2>3
<1>. HIDE DEF top
<1>3. fee \in Nat /\ most \in Nat /\ fee <= most
  BY <1>1, <1>2, FeeBounded
<1>6. Dust(u) \in Nat /\ e <= Dust(u)
  BY DustsCover, RoundingCovered
<1>7. Abs(edge) >= -edge /\ Abs(edge) \in Nat
  BY <1>4, AbsType
<1>8. w >= v + edge - e - cost
  OBVIOUS
<1>. HIDE DEF edge, fee, most, way
<1>9. cost \in Nat /\ worst \in Nat /\ cost <= worst
  <2>1. Precision * (most - fee) >= 0 /\ Precision * (most - fee) = worst - cost /\ cost \in Nat /\ worst \in Nat
    BY <1>3
  <2>. HIDE DEF cost, worst
  <2>. QED
    BY <1>3, <2>1
<1>. HIDE DEF cost, worst
<1>. QED
  BY <1>4, <1>5, <1>6, <1>7, <1>8, <1>9

LossBounded(u) ==
  /\ Value(book, u)' >= Value(book, u) - Dust(u) - Costs(u)
  /\ \A a \in Assets \ {Settlement} : bal'[u][a] = bal[u][a]

LEMMA FillLoss ==
  ASSUME ClearingInv, ClearingInv', AllPriced(positions), NEW maker \in Users, NEW taker \in Users, NEW m \in Markets,
         NEW makerLong \in BOOLEAN, NEW makerReduces \in BOOLEAN, NEW takerReduces \in BOOLEAN,
         NEW size \in FillSizes, NEW px \in FillPrices,
         SettleFill(maker, taker, m, makerLong, makerReduces, takerReduces, size, px),
         NEW u \in Users, positions'[u] # positions[u]
  PROVE  LossBounded(u)
<1>1. /\ maker # taker
      /\ UNCHANGED <<fundingVars, custody, insurance, paused, price, now>>
  BY FillBooks
<1>. DEFINE makerBps == Market[m].makerFee
            takerBps == Market[m].takerFee
            other == ~makerLong
<1>2. PICK s, c : /\ Halved(book, s, maker, m, makerLong, size, px, makerBps)
                  /\ Halved(s, c, taker, m, ~makerLong, size, px, takerBps)
                  /\ Filled(book, c, maker, taker)
                  /\ BecomesBook(c)
  BY FillBooks
<1>3. Halved(s, c, taker, m, other, size, px, takerBps)
  BY <1>2, Zenon DEF other
<1>4. other \in BOOLEAN
  OBVIOUS
<1>. HIDE DEF makerBps, takerBps, other
<1>5. size \in Nat \ {0} /\ px \in Nat
  OBVIOUS
<1>6. book.positions = positions /\ book.bal = bal /\ IndexesAgree /\ OracleTyped /\ Sound(book) /\ AllPriced(book.positions)
  BY DEF book, ClearingInv, BooksSound
<1>7. positions' = c.positions /\ bal' = c.bal /\ price' = price /\ vaultFunding' = vaultFunding
  BY <1>1, <1>2 DEF BecomesBook, fundingVars
<1>8. Sound(s) /\ AllPriced(s.positions) /\ Sound(c) /\ AllPriced(c.positions) /\ InBand(m, px)
  BY <1>2 DEF Halved
<1>9. /\ u # maker => s.positions[u] = positions[u] /\ s.bal[u] = bal[u]
      /\ u # taker => c.positions[u] = s.positions[u] /\ c.bal[u] = s.bal[u]
  <2>1. u # maker => s.positions[u] = book.positions[u] /\ s.bal[u] = book.bal[u]
    BY <1>2 DEF Halved
  <2>2. u # taker => c.positions[u] = s.positions[u] /\ c.bal[u] = s.bal[u]
    BY <1>3 DEF Halved
  <2>. QED
    BY <1>6, <2>1, <2>2, Zenon
<1>10. Value(book, u)' = Value(c, u)
  <2>1. book'.bal = bal' /\ book'.positions = positions'
    BY DEF book
  <2>. QED
    BY <1>7, <2>1, Zenon DEF Value
<1>11. u = maker \/ u = taker
  BY <1>7, <1>9, Zenon
<1>12. Value(book, u) \in Int /\ Value(c, u) \in Int
  <2>1. book.positions[u] \subseteq Priced /\ c.positions[u] \subseteq Priced
    BY <1>6, <1>8 DEF AllPriced
  <2>. QED
    BY <1>6, <1>8, <2>1, ValueType
<1>13. \A a \in Assets \ {Settlement} : bal'[u][a] = bal[u][a]
  <2>1. u \in Accounts
    BY DEF Accounts
  <2>. QED
    BY <1>2, <1>6, <1>7, <2>1 DEF Filled, InSettlement
<1>14. CASE u = maker
  <2>1. u # taker
    BY <1>1, <1>14
  <2>2. PICK e \in Nat :
          /\ Rounding(e, book.positions[u], s.positions[u])
          /\ Value(s, u) >= Value(book, u) + Edge(m, makerLong, size, px) - e
                              - Precision * ApplyBps(Notional(size, px), makerBps)
    BY <1>2, <1>14 DEF Halved
  <2>3. NetOf(s.positions[u], m) = NetOf(positions[u], m) + Signed(makerLong, size)
    BY <1>2, <1>6, <1>14 DEF Halved
  <2>4. positions'[u] = s.positions[u] /\ Value(c, u) = Value(s, u)
    <3>1. c.positions[u] = s.positions[u] /\ c.bal[u] = s.bal[u]
      BY <1>9, <2>1, Zenon
    <3>. QED
      BY <1>7, <3>1, Zenon DEF Value
  <2>5. Signed(makerLong, size) \in {size, -size}
    BY <1>5 DEF Signed
  <2>6. Rounding(e, positions[u], positions'[u]) /\ NetOf(positions'[u], m) = NetOf(positions[u], m) + Signed(makerLong, size)
    BY <1>6, <2>2, <2>3, <2>4, Zenon
  <2>7. /\ Value(c, u) >= Value(book, u) + Edge(m, makerLong, size, px) - e
                            - Precision * ApplyBps(Notional(size, px), makerBps)
        /\ makerBps \in {Market[m].makerFee, Market[m].takerFee}
    BY <2>2, <2>4, Zenon DEF makerBps
  <2>8. Value(c, u) >= Value(book, u) - Dust(u) - Costs(u)
    BY <1>5, <1>8, <1>12, <2>5, <2>6, <2>7, TradeKept DEF ClearingInv
  <2>. QED
    BY <1>10, <1>13, <2>8, Zenon DEF LossBounded
<1>15. CASE u = taker
  <2>1. s.positions[u] = positions[u] /\ Value(s, u) = Value(book, u)
    <3>1. s.positions[u] = positions[u] /\ s.bal[u] = bal[u]
      BY <1>1, <1>9, <1>15, Zenon
    <3>. QED
      BY <1>6, <3>1, Zenon DEF Value
  <2>2. PICK e \in Nat :
          /\ Rounding(e, s.positions[u], c.positions[u])
          /\ Value(c, u) >= Value(s, u) + Edge(m, other, size, px) - e
                              - Precision * ApplyBps(Notional(size, px), takerBps)
    BY <1>3, <1>15 DEF Halved
  <2>3. NetOf(c.positions[u], m) = NetOf(s.positions[u], m) + Signed(other, size)
    BY <1>3, <1>15 DEF Halved
  <2>5. Signed(other, size) \in {size, -size}
    BY <1>5 DEF Signed
  <2>6. Rounding(e, positions[u], positions'[u]) /\ NetOf(positions'[u], m) = NetOf(positions[u], m) + Signed(other, size)
    BY <1>7, <2>1, <2>2, <2>3, Zenon
  <2>7. /\ Value(c, u) >= Value(book, u) + Edge(m, other, size, px) - e
                            - Precision * ApplyBps(Notional(size, px), takerBps)
        /\ takerBps \in {Market[m].makerFee, Market[m].takerFee}
    BY <2>1, <2>2, Zenon DEF takerBps
  <2>8. Value(c, u) >= Value(book, u) - Dust(u) - Costs(u)
    BY <1>4, <1>5, <1>8, <1>12, <2>5, <2>6, <2>7, TradeKept DEF ClearingInv
  <2>. QED
    BY <1>10, <1>13, <2>8, Zenon DEF LossBounded
<1>. QED
  BY <1>11, <1>14, <1>15

\* A liquidation charges no fee, and the fund's coverage can only add.
LEMMA LiquidateLoss ==
  ASSUME ClearingInv, ClearingInv', AllPriced(positions), NEW l \in Liquidators, NEW v \in Users,
         NEW size \in FillSizes, NEW px \in FillPrices, NEW p \in positions[v], Liquidate(l, v, p, size, px),
         NEW u \in Users, positions'[u] # positions[u]
  PROVE  LossBounded(u)
<1>1. size \in Nat \ {0} /\ size \in Nat /\ px \in Nat
  OBVIOUS
<1>2. /\ Sound(book) /\ IndexesAgree /\ OracleTyped /\ AllPriced(book.positions) /\ p \in book.positions[v]
      /\ book.positions[v] \subseteq Priced /\ book.positions = positions /\ book.bal = bal
  BY DEF ClearingInv, BooksSound, book, AllPriced
<1>. DEFINE m == p.market
            long == p.long
            other == ~long
            net == Signed(long, -size)
<1>3. m \in Markets /\ long \in BOOLEAN /\ other \in BOOLEAN
  <2>1. p \in Priced
    BY <1>2
  <2>. QED
    BY <2>1, PricedType
<1>4. PICK available \in Nat : \E b :
              /\ b \in ReducedBooks(book, v, p, size, px)
              /\ Moved(book, b, v, p.market, Signed(p.long, -size))
              /\ BecomesBook(Credited(b, v, Coverage(b, v, available)))
  BY LiquidateStep
<1>5. PICK b : /\ b \in ReducedBooks(book, v, p, size, px)
               /\ Moved(book, b, v, p.market, Signed(p.long, -size))
               /\ BecomesBook(Credited(b, v, Coverage(b, v, available)))
  BY <1>4
<1>. DEFINE n == Coverage(b, v, available)
            c == Credited(b, v, n)
            edge == Edge(m, other, size, px)
<1>6. Sound(b) /\ b \in BookShape /\ v \in Accounts
  BY <1>5 DEF Moved, Sound, Accounts
<1>7. n \in Nat
  BY <1>6, CoverageTypes
<1>. HIDE DEF n
<1>8. Charged(b, c, v) /\ c.bal[v][Settlement] = b.bal[v][Settlement] + n
  <2>1. n \in Int
    BY <1>7
  <2>. QED
    BY <1>6, <2>1, CreditKeeps, CreditAmount
<1>9. BecomesBook(c)
  BY <1>5 DEF n
<1>. HIDE DEF c
<1>10. positions' = b.positions /\ bal' = c.bal /\ price' = price /\ vaultFunding' = vaultFunding
  BY <1>8, <1>9 DEF BecomesBook, Charged, SameTrades, Liquidate, fundingVars
<1>11. u = v
  <2>1. u # v => b.positions[u] = book.positions[u]
    BY <1>5 DEF Moved
  <2>. QED
    BY <1>2, <1>10, <2>1, Zenon
<1>12. /\ b.positions[v] \subseteq Priced /\ InBand(m, px) /\ p \notin b.positions[v]
       /\ Within(Value(b, v), Value(book, v) + edge, 2 * Precision)
  BY <1>1, <1>2, <1>5, ReduceTrades
<1>13. Value(b, v) \in Int /\ Value(book, v) \in Int
  BY <1>2, <1>6, <1>12, ValueType
<1>14. Value(book, v)' >= Value(b, v) /\ Value(book, v)' \in Int
  <2>. DEFINE x == b.bal[v][Settlement]
              h == HeldAt(b.positions[v], price, vaultFunding)
              y == c.bal[v][Settlement]
              px0 == Precision * x
  <2>1. book'.bal = bal' /\ book'.positions = positions'
    BY DEF book
  <2>2. Value(book, v)' = Precision * y + h
    BY <1>10, <2>1, Zenon DEF Value
  <2>3. Value(b, v) = px0 + h /\ x \in Int /\ h \in Int
    BY <1>2, <1>6, <1>12, ValueType DEF Value
  <2>4. y = x + n
    BY <1>8
  <2>. HIDE DEF x, h, y
  <2>5. Precision * y = px0 + Precision * n /\ Precision * n \in Nat /\ px0 \in Int
    BY <1>7, <2>3, <2>4
  <2>. DEFINE pn == Precision * n
  <2>6. Value(book, v)' = (px0 + pn) + h
    BY <2>2, <2>5, Zenon
  <2>7. pn \in Nat
    BY <2>5
  <2>. HIDE DEF pn, px0
  <2>. QED
    BY <2>3, <2>5, <2>6, <2>7
<1>15. net \in {size, -size} /\ net \in Int
  BY <1>1, <1>3 DEF Signed
<1>16. NetOf(positions'[v], m) = NetOf(positions[v], m) + net
  <2>1. Moved(book, b, v, m, net)
    BY <1>5 DEF m, long, net
  <2>. HIDE DEF net, m
  <2>2. NetOf(b.positions[v], m) = NetOf(book.positions[v], m) + net
    BY <1>2, <1>3, <1>15, <2>1, NetMoves DEF m
  <2>. QED
    BY <1>2, <1>10, <2>2, Zenon
<1>. DEFINE e == 2 * Precision
<1>17. Rounding(e, positions[v], positions'[v]) /\ e \in Nat
  BY <1>10, <1>12, ReducedRounds
<1>. DEFINE bps == Market[m].makerFee
            fee == ApplyBps(Notional(size, px), bps)
            cost == Precision * fee
<1>18. cost \in Nat /\ bps \in {Market[m].makerFee, Market[m].takerFee}
  <2>1. Market[m] \in MarketType
    BY <1>3
  <2>2. bps \in Nat
    BY <2>1 DEF MarketType
  <2>3. size \in Nat
    BY <1>1
  <2>4. fee \in Nat
    BY <1>1, <2>2, <2>3, FixedTypes
  <2>. HIDE DEF fee
  <2>. QED
    BY <2>4 DEF bps
<1>19. \A a \in Assets \ {Settlement} : bal'[v][a] = bal[v][a]
  <2>1. \A a \in Assets \ {Settlement} : b.bal[v][a] = bal[v][a]
    BY <1>2, <1>5, <1>6 DEF Moved, InSettlement
  <2>2. \A a \in Assets \ {Settlement} : bal'[v][a] = b.bal[v][a]
    BY <1>6, <1>8, <1>10 DEF Charged, InSettlement
  <2>. QED
    BY <2>1, <2>2
<1>. HIDE DEF m, long, other, net, bps
<1>20. edge \in Int
  BY <1>1, <1>2, <1>3, <1>12, EdgeBounded
<1>. DEFINE w == Value(book, v)'
            z == Value(book, v)
            y == Value(b, v)
<1>21. w \in Int /\ z \in Int /\ w >= z + edge - e - cost
  <2>. HIDE DEF edge, cost
  <2>1. Abs(y - (z + edge)) <= e
    BY <1>12 DEF Within
  <2>2. w \in Int /\ z \in Int /\ y \in Int /\ w >= y
    BY <1>13, <1>14
  <2>3. e \in Nat
    BY <1>17
  <2>. HIDE DEF w, z, y, e
  <2>. QED
    BY <1>18, <1>20, <2>1, <2>2, <2>3 DEF Abs
<1>. HIDE DEF w, z, e
<1>22. w >= z - Dust(v) - Costs(v)
  BY <1>1, <1>3, <1>12, <1>15, <1>16, <1>17, <1>18, <1>21, TradeKept DEF ClearingInv
<1>. QED
  BY <1>11, <1>19, <1>22, Zenon DEF w, z, LossBounded

LEMMA NextLoss ==
  ASSUME ClearingInv, ClearingInv', AllPriced(positions), [Next]_vars, NEW u \in Users, positions'[u] # positions[u]
  PROVE  LossBounded(u)
<1>1. CASE \E maker, taker \in Users, m \in Markets, makerLong \in BOOLEAN,
               makerReduces, takerReduces \in BOOLEAN, size \in FillSizes, px \in FillPrices :
               SettleFill(maker, taker, m, makerLong, makerReduces, takerReduces, size, px)
  BY <1>1, FillLoss
<1>2. CASE \E l \in Liquidators, v \in Users, size \in FillSizes, px \in FillPrices :
               \E p \in positions[v] : Liquidate(l, v, p, size, px)
  BY <1>2, LiquidateLoss
<1>3. /\ \A v \in Users, a \in Assets, n \in Deposits : Deposit(v, a, n) => UNCHANGED positions
      /\ \A v \in Users, a \in Assets, n \in Withdrawals : Withdraw(v, a, n) => UNCHANGED positions
  BY ZenonT(40) DEF Deposit, Withdraw
<1>4. \A f \in Funders, n \in Deposits : InsuranceDeposit(f, n) => UNCHANGED positions
  BY DEF InsuranceDeposit, bookVars
<1>5. (EmergencyPause \/ Unpause \/ OracleRound \/ UNCHANGED vars) => UNCHANGED positions
  BY DEF EmergencyPause, Unpause, OracleRound, vars, bookVars
<1>6. \A m \in Markets : UpdateFunding(m) => positions' = positions
  BY FundingOwes
<1>. QED
  BY <1>1, <1>2, <1>3, <1>4, <1>5, <1>6 DEF Next

\* A trade, a flip or a liquidation costs an account its fee, its distance from the oracle's price and
\* the rounding of the amounts paid, and no more; and it moves no balance of another asset.
THEOREM NoEquityLost == Spec => EquityKept
<1>1. ASSUME ClearingInv, EntriesPriced, WorthSplits, ClearingInv', WorthSplits', [Next]_vars, NEW u \in Users,
             positions'[u] # positions[u]
      PROVE  /\ Worth(u)' >= Worth(u) - Dust(u) - Costs(u)
             /\ \A a \in Assets \ {Settlement} : bal'[u][a] = bal[u][a]
  <2>1. LossBounded(u)
    BY <1>1, NextLoss DEF EntriesPriced
  <2>2. Worth(u) = Value(book, u)
    BY <1>1 DEF WorthSplits
  <2>3. Worth(u)' = Value(book, u)'
    BY <1>1 DEF WorthSplits
  <2>. QED
    BY <2>1, <2>2, <2>3, Zenon DEF LossBounded
<1>2. ClearingInv /\ EntriesPriced /\ WorthSplits /\ ClearingInv' /\ WorthSplits' /\ [Next]_vars =>
        (price' = price => \A u \in Users : positions'[u] # positions[u] =>
           /\ Worth(u)' >= Worth(u) - Dust(u) - SumFunction([m \in Markets |-> TradeCost(u, m)])
           /\ \A a \in Assets \ {Settlement} : bal'[u][a] = bal[u][a])
  BY <1>1, Zenon DEF Costs
<1>. QED
  BY <1>2, ClearingInvariant, PricedInvariant, WorthPartsBoxed, PTL DEF Spec, EquityKept
=============================================================================
