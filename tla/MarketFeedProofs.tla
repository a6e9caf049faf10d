-------------------------- MODULE MarketFeedProofs --------------------------
(***************************************************************************)
(* The broadcast of the ws-server and the screen of the browser, for any   *)
(* number of markets, sockets and overlapping ticks, and any number of     *)
(* changes, moves and faults.                                              *)
(***************************************************************************)
EXTENDS MarketFeed, WellFoundedInduction, TLAPS

USE MarketFeedAssumption

\* A set of numbers that has an element has a least one.
LEMMA MinIn ==
  ASSUME NEW S, S \subseteq Nat, S # {}
  PROVE  Min(S) \in S
<1>1. \E R : IsWellFoundedOn(R, Nat) /\ \A x, y \in Nat : x < y => <<x, y>> \in R
  <2>1. \A x, y \in Nat : x < y => <<x, y>> \in OpToRel(<, Nat)
    BY DEF OpToRel
  <2>. QED
    BY <2>1, NatLessThanWellFounded
<1>2. PICK R : IsWellFoundedOn(R, Nat) /\ \A x, y \in Nat : x < y => <<x, y>> \in R
  BY <1>1
<1>3. PICK x \in S : \A y \in S : <<y, x>> \notin R
  <2>. DEFINE N == Nat
  <2>1. S \subseteq N /\ IsWellFoundedOn(R, N)
    BY <1>2
  <2>. HIDE DEF N
  <2>. QED
    BY <2>1, WFMin, Zenon
<1>4. \A y \in S : x =< y
  <2>1. SUFFICES ASSUME NEW y \in S, y < x
                 PROVE  FALSE
    BY SMT
  <2>. QED
    BY <1>2, <1>3, <2>1
<1>. QED
  BY <1>4 DEF Min

-----------------------------------------------------------------------------
(***************************************************************************)
(* The invariants: the database and the server's broadcast, the screen and *)
(* the request in flight, the stream.                                      *)
(***************************************************************************)
Tickets == [phase : {"idle", "book", "trades"}, val : Nat]

\* Fills are written in the order of their timestamps.
DatabaseOrdered ==
  /\ data \in [Markets -> Nat] /\ fills \in [Markets -> Seq(Nat \ {0})]
  /\ \A m \in Markets : \A a, b \in 1..Len(fills[m]) : a <= b => fills[m][a] <= fills[m][b]

\* A tick knows no more than the database did when it asked.
TicksTyped ==
  /\ ticks \in [Markets -> [1..Overlap -> Tickets]]
  /\ \A m \in Markets, k \in 1..Overlap :
       /\ ticks[m][k].phase = "book" => ticks[m][k].val <= data[m]
       /\ ticks[m][k].phase = "trades" => ticks[m][k].val <= Len(fills[m])

\* What has been broadcast is behind the cursor.
CursorPassed ==
  /\ cursor \in [Markets -> Nat] /\ cast \in [Markets -> [1..MaxChanges -> Nat]]
  /\ \A m \in Markets, n \in 1..MaxChanges :
       cast[m][n] # 0 => cast[m][n] = 1 /\ n <= Len(fills[m]) /\ fills[m][n] <= cursor[m]

\* A request that has not been cancelled is one for the market on the screen.
FetchLinked ==
  /\ market \in Markets
  /\ fetch \in [market : Nat, live : BOOLEAN, val : Nat, trades : Nat]
  /\ fetch.live => fetch.market = market /\ fetch.val <= data[market] /\ fetch.trades <= Len(fills[market])

ScreenTyped ==
  /\ shown \in [Markets -> [book : Nat, trades : SUBSET Nat]]
  /\ \A m \in Markets : shown[m].trades \subseteq 1..Len(fills[m]) /\ shown[m].book <= data[m]

StreamLinked ==
  /\ sock \in [Sockets -> {"none", "connecting", "open", "closing"}]
  /\ ws \in {NoSocket} \cup {i \in Sockets : sock[i] \in {"connecting", "open"}}
  /\ timer \in BOOLEAN /\ isDestroyed \in BOOLEAN /\ (timer => ~isDestroyed)
  /\ subs \in [Sockets -> SUBSET Markets] /\ channels \subseteq Markets

FeedInv == DatabaseOrdered /\ TicksTyped /\ CursorPassed
ViewInv == FetchLinked /\ ScreenTyped
Inv == FeedInv /\ ViewInv /\ StreamLinked

LEMMA InitFeed == Init => Inv
<1> SUFFICES ASSUME Init
             PROVE  Inv
  OBVIOUS
<1>1. FeedInv
  BY DEF Init, FeedInv, DatabaseOrdered, TicksTyped, CursorPassed, Idle, Tickets
<1>2. ViewInv
  <2>1. Min(Markets) \in Markets
    BY MinIn
  <2>. QED
    BY <2>1 DEF Init, ViewInv, FetchLinked, ScreenTyped, NoFetch
<1>3. StreamLinked
  BY DEF Init, StreamLinked, Sockets, NoSocket
<1>. QED
  BY <1>1, <1>2, <1>3 DEF Inv

-----------------------------------------------------------------------------
(* The lemmas on requests and sockets. *)

\* The request that a poll leaves in flight.
LEMMA PolledLinked ==
  ASSUME NEW m \in Markets, data[m] \in Nat, Len(fills[m]) \in Nat, NEW f, NEW streaming,
         f \in [market : Nat, live : BOOLEAN, val : Nat, trades : Nat],
         f.live => f.market = m /\ f.val <= data[m] /\ f.trades <= Len(fills[m])
  PROVE  LET p == Polled(m, f, streaming)
         IN /\ p \in [market : Nat, live : BOOLEAN, val : Nat, trades : Nat]
            /\ p.live => p.market = m /\ p.val <= data[m] /\ p.trades <= Len(fills[m])
<1> DEFINE asked == [market |-> m, live |-> TRUE, val |-> data[m], trades |-> Len(fills[m])]
<1>1. m \in Nat
  OBVIOUS
<1>2. asked \in [market : Nat, live : BOOLEAN, val : Nat, trades : Nat]
      /\ asked.market = m /\ asked.val = data[m] /\ asked.trades = Len(fills[m])
  BY <1>1
<1>3. Polled(m, f, streaming) = f \/ Polled(m, f, streaming) = asked
  BY DEF Polled
<1>. HIDE DEF asked
<1>. QED
  BY <1>2, <1>3

LEMMA CancelledDead ==
  ASSUME FetchLinked
  PROVE  Cancelled \in [market : Nat, live : BOOLEAN, val : Nat, trades : Nat] /\ ~Cancelled.live
  BY DEF FetchLinked, Cancelled

\* A new socket takes the place of one that is gone.
LEMMA Connected ==
  ASSUME NEW s \in [Sockets -> {"none", "connecting", "open", "closing"}], Connect(s)
  PROVE  /\ sock' \in [Sockets -> {"none", "connecting", "open", "closing"}]
         /\ ws' \in Sockets /\ sock'[ws'] = "connecting"
<1>1. Free \subseteq Nat
  BY DEF Free, Sockets
<1>2. Min(Free) \in Free
  BY <1>1, MinIn DEF Connect
<1>3. Min(Free) \in Sockets
  BY <1>2 DEF Free
<1>. QED
  BY <1>3 DEF Connect

-----------------------------------------------------------------------------
(* The database and the broadcast. *)

\* An appended fill is no older than those before it.
LEMMA ChangeKeepsFeed ==
  ASSUME Inv, NEW m \in Markets, Change(m)
  PROVE  Inv'
<1>0. FeedInv /\ ViewInv /\ StreamLinked
  BY DEF Inv
<1>1. UNCHANGED <<server, stream, view, fetch, shown>> /\ data' = [data EXCEPT ![m] = @ + 1]
  BY DEF Change
<1>2. /\ fills' \in [Markets -> Seq(Nat \ {0})]
      /\ \A n \in Markets : /\ Len(fills[n]) <= Len(fills'[n])
                            /\ \A a \in 1..Len(fills[n]) : fills'[n][a] = fills[n][a]
      /\ \A n \in Markets : \A a, b \in 1..Len(fills'[n]) : a <= b => fills'[n][a] <= fills'[n][b]
  <2>1. CASE UNCHANGED fills
    BY <1>0, <2>1, SMTT(30) DEF FeedInv, DatabaseOrdered
  <2>2. CASE \E step \in {0, 1} : LastTs(m) + step > 0 /\ fills' = [fills EXCEPT ![m] = Append(@, LastTs(m) + step)]
    <3>1. PICK step \in {0, 1} : LastTs(m) + step > 0 /\ fills' = [fills EXCEPT ![m] = Append(@, LastTs(m) + step)]
      BY <2>2
    <3>. DEFINE ts == LastTs(m) + step
    <3>2. fills[m] \in Seq(Nat \ {0}) /\ \A a, b \in 1..Len(fills[m]) : a <= b => fills[m][a] <= fills[m][b]
      BY <1>0 DEF FeedInv, DatabaseOrdered
    <3>3. ts \in Nat \ {0} /\ \A a \in 1..Len(fills[m]) : fills[m][a] <= ts
      <4>1. CASE fills[m] = <<>>
        BY <3>1, <4>1 DEF LastTs
      <4>2. CASE fills[m] # <<>>
        <5>1. Len(fills[m]) \in 1..Len(fills[m]) /\ fills[m][Len(fills[m])] \in Nat
          BY <3>2, <4>2
        <5>2. \A a \in 1..Len(fills[m]) : fills[m][a] \in Nat /\ fills[m][a] <= fills[m][Len(fills[m])]
          BY <3>2, <5>1
        <5>. QED
          BY <3>1, <4>2, <5>1, <5>2, SMTT(30) DEF LastTs
      <4>. QED
        BY <4>1, <4>2
    <3>4. fills' = [fills EXCEPT ![m] = Append(fills[m], ts)]
      BY <3>1
    <3>. HIDE DEF ts
    <3>. DEFINE grown == Append(fills[m], ts)
    <3>5. /\ grown \in Seq(Nat \ {0}) /\ Len(fills[m]) <= Len(grown)
          /\ \A a \in 1..Len(fills[m]) : grown[a] = fills[m][a]
          /\ Len(grown) = Len(fills[m]) + 1 /\ grown[Len(grown)] = ts
      BY <3>2, <3>3
    <3>6. ASSUME NEW a \in 1..Len(grown), NEW b \in 1..Len(grown), a <= b
          PROVE  grown[a] <= grown[b]
      <4>. HIDE DEF grown
      <4>0. Len(fills[m]) \in Nat
        BY <3>2
      <4>1. CASE b \in 1..Len(fills[m])
        <5>1. a \in 1..Len(fills[m])
          BY <3>6, <4>0, <4>1
        <5>. QED
          BY <3>2, <3>5, <3>6, <4>1, <5>1
      <4>2. CASE b = Len(grown) /\ a \in 1..Len(fills[m])
        BY <3>3, <3>5, <4>2
      <4>3. CASE a = Len(grown) /\ b = Len(grown)
        BY <3>3, <3>5, <4>3
      <4>4. \/ b \in 1..Len(fills[m])
            \/ b = Len(grown) /\ a \in 1..Len(fills[m])
            \/ a = Len(grown) /\ b = Len(grown)
        <5>1. Len(grown) = Len(fills[m]) + 1
          BY <3>5
        <5>. QED
          BY <3>6, <4>0, <5>1
      <4>. QED
        BY <4>1, <4>2, <4>3, <4>4
    <3>. HIDE DEF grown
    <3>. QED
      BY <1>0, <3>4, <3>5, <3>6, SMTT(30) DEF FeedInv, DatabaseOrdered, grown
  <2>. QED
    BY <2>1, <2>2 DEF Change
<1>3. \A n \in Markets : /\ data'[n] \in Nat /\ data[n] \in Nat /\ data[n] <= data'[n]
                         /\ Len(fills[n]) \in Nat /\ Len(fills'[n]) \in Nat
  <2>1. \A n \in Markets : fills[n] \in Seq(Nat \ {0}) /\ fills'[n] \in Seq(Nat \ {0})
    BY <1>0, <1>2 DEF FeedInv, DatabaseOrdered
  <2>2. data \in [Markets -> Nat]
    BY <1>0 DEF FeedInv, DatabaseOrdered
  <2>. QED
    BY <1>1, <2>1, <2>2
<1>4. DatabaseOrdered'
  <2>1. data' \in [Markets -> Nat]
    BY <1>0, <1>1 DEF FeedInv, DatabaseOrdered
  <2>. QED
    BY <1>2, <2>1 DEF DatabaseOrdered
<1>5. TicksTyped'
  <2>1. ticks' = ticks /\ TicksTyped
    BY <1>0, <1>1 DEF FeedInv, server
  <2>2. \A n \in Markets, k \in 1..Overlap : ticks[n][k].val \in Nat
    BY <2>1 DEF TicksTyped, Tickets
  <2>. QED
    <3>1. ASSUME NEW n \in Markets, NEW k \in 1..Overlap
          PROVE  /\ ticks[n][k].phase = "book" => ticks[n][k].val <= data'[n]
                 /\ ticks[n][k].phase = "trades" => ticks[n][k].val <= Len(fills'[n])
      <4>1. Len(fills[n]) <= Len(fills'[n]) /\ data[n] <= data'[n]
        BY <1>2, <1>3
      <4>2. /\ ticks[n][k].phase = "book" => ticks[n][k].val <= data[n]
            /\ ticks[n][k].phase = "trades" => ticks[n][k].val <= Len(fills[n])
        BY <2>1 DEF TicksTyped
      <4>3. /\ data[n] \in Nat /\ data'[n] \in Nat
            /\ Len(fills[n]) \in Nat /\ Len(fills'[n]) \in Nat
        BY <1>3
      <4>4. ticks[n][k].val \in Nat
        BY <2>2
      <4>. QED
        BY <4>1, <4>2, <4>3, <4>4, SMTT(30)
    <3>. QED
      BY <2>1, <3>1 DEF TicksTyped
<1>6. CursorPassed'
  <2>1. cursor' = cursor /\ cast' = cast /\ CursorPassed
    BY <1>0, <1>1 DEF FeedInv, server
  <2>2. ASSUME NEW n \in Markets, NEW t \in 1..MaxChanges, cast[n][t] # 0
        PROVE  cast[n][t] = 1 /\ t <= Len(fills'[n]) /\ fills'[n][t] <= cursor[n]
    <3>1. cast[n][t] = 1 /\ t <= Len(fills[n]) /\ fills[n][t] <= cursor[n]
      BY <2>1, <2>2 DEF CursorPassed
    <3>2. t \in 1..Len(fills[n])
      BY <1>3, <3>1
    <3>3. fills'[n][t] = fills[n][t] /\ Len(fills[n]) <= Len(fills'[n])
      BY <1>2, <3>2
    <3>4. Len(fills[n]) \in Nat /\ Len(fills'[n]) \in Nat
      BY <1>3
    <3>. QED
      BY <3>1, <3>3, <3>4
  <2>. QED
    BY <2>1, <2>2 DEF CursorPassed
<1>7. FetchLinked'
  BY <1>0, <1>1, <1>2, <1>3, SMTT(30) DEF ViewInv, FetchLinked, view
<1>8. ScreenTyped'
  BY <1>0, <1>1, <1>2, <1>3 DEF ViewInv, ScreenTyped
<1>9. StreamLinked'
  BY <1>0, <1>1 DEF StreamLinked, stream, server
<1>. QED
  BY <1>4, <1>5, <1>6, <1>7, <1>8, <1>9 DEF Inv, FeedInv, ViewInv

LEMMA TickKeepsFeed ==
  ASSUME Inv, NEW m \in Markets, NEW k \in 1..Overlap, Tick(m, k) \/ FailTick(m, k)
  PROVE  Inv'
<1> USE DEF Inv, FeedInv, ViewInv
<1>0. data[m] \in Nat /\ UNCHANGED <<data, fills, subs, cursor, cast, stream, view, fetch, shown>>
  BY DEF DatabaseOrdered, Tick, FailTick
<1>1. PICK s \in Tickets : /\ ticks' = [ticks EXCEPT ![m][k] = s]
                           /\ s = Idle \/ s = [phase |-> "book", val |-> data[m]]
  BY <1>0 DEF Tick, FailTick, Tickets, Idle
<1>2. s.phase # "trades" /\ (s.phase = "book" => s.val <= data[m])
  BY <1>0, <1>1 DEF Idle
<1>3. TicksTyped'
  BY <1>0, <1>1, <1>2 DEF TicksTyped
<1>. QED
  BY <1>0, <1>3 DEF DatabaseOrdered, CursorPassed, FetchLinked, ScreenTyped, StreamLinked, view, stream

LEMMA SendBookKeepsFeed ==
  ASSUME Inv, NEW m \in Markets, NEW k \in 1..Overlap, SendBook(m, k)
  PROVE  Inv'
<1> USE DEF Inv, FeedInv, ViewInv
<1>0. UNCHANGED <<data, fills, subs, cursor, cast, stream, view, fetch>>
  BY DEF SendBook
<1>. DEFINE s == [phase |-> "trades", val |-> Len(fills[m])]
<1>1. s \in Tickets /\ s.phase = "trades" /\ s.val <= Len(fills[m]) /\ ticks' = [ticks EXCEPT ![m][k] = s]
  BY DEF SendBook, Tickets, DatabaseOrdered
<1>2. TicksTyped'
  <2>. HIDE DEF s
  <2>. QED
    BY <1>0, <1>1 DEF TicksTyped
<1>3. ScreenTyped'
  <2>1. ticks[m][k].val \in Nat /\ ticks[m][k].val <= data[m]
    BY DEF SendBook, TicksTyped, Tickets
  <2>2. shown' = shown \/ shown' = [shown EXCEPT ![m].book = ticks[m][k].val]
    BY DEF SendBook
  <2>. QED
    BY <1>0, <2>1, <2>2 DEF ScreenTyped
<1>. QED
  BY <1>0, <1>2, <1>3 DEF DatabaseOrdered, CursorPassed, FetchLinked, StreamLinked, view, stream

\* The tick broadcasts only what lies beyond the cursor, and the last fill it
\* has read, to which the cursor moves, is the newest of them.
LEMMA SendTradesKeepsFeed ==
  ASSUME Inv, NEW m \in Markets, NEW k \in 1..Overlap, SendTrades(m, k)
  PROVE  Inv'
<1> USE DEF Inv, FeedInv, ViewInv
<1>0. UNCHANGED <<data, fills, subs, stream, view, fetch>>
  BY DEF SendTrades
<1>. DEFINE n == ticks[m][k].val
            new == NewTrades(m, n)
            times == [t \in 1..MaxChanges |-> IF t \in new THEN cast[m][t] + 1 ELSE cast[m][t]]
<1>1. /\ n \in Nat /\ n <= Len(fills[m]) /\ fills[m] \in Seq(Nat \ {0})
      /\ \A a, b \in 1..Len(fills[m]) : a <= b => fills[m][a] <= fills[m][b]
  BY DEF SendTrades, TicksTyped, Tickets, DatabaseOrdered
<1>2. /\ new \subseteq 1..Len(fills[m])
      /\ \A t \in new : t <= n /\ fills[m][t] > cursor[m]
  BY <1>1 DEF NewTrades
<1>3. /\ cursor' = IF new = {} THEN cursor ELSE [cursor EXCEPT ![m] = fills[m][n]]
      /\ cast' = [cast EXCEPT ![m] = times]
      /\ shown' = shown \/ shown' = [shown EXCEPT ![m].trades = @ \cup new]
      /\ ticks' = [ticks EXCEPT ![m][k] = Idle]
  BY DEF SendTrades, CursorPassed
<1>4. TicksTyped'
  BY <1>0, <1>3 DEF TicksTyped, Idle, Tickets
<1>5. ScreenTyped'
  <2>. HIDE DEF n, new
  <2>1. new \subseteq Nat
    BY <1>1, <1>2
  <2>2. shown \in [Markets -> [book : Nat, trades : SUBSET Nat]]
    BY DEF ScreenTyped
  <2>3. CASE shown' = [shown EXCEPT ![m].trades = @ \cup new]
    <3>1. shown' \in [Markets -> [book : Nat, trades : SUBSET Nat]]
      BY <2>1, <2>2, <2>3
    <3>2. \A o \in Markets : /\ shown'[o].book = shown[o].book
                             /\ shown'[o].trades = IF o = m THEN shown[m].trades \cup new ELSE shown[o].trades
      BY <2>2, <2>3
    <3>. QED
      BY <1>0, <1>2, <3>1, <3>2 DEF ScreenTyped
  <2>. QED
    BY <1>0, <1>3, <2>3 DEF ScreenTyped
<1>6. /\ cursor' \in [Markets -> Nat]
      /\ \A o \in Markets : o # m => cursor'[o] = cursor[o]
      /\ cursor[m] <= cursor'[m] /\ \A t \in new : fills[m][t] <= cursor'[m]
  <2>0. cursor \in [Markets -> Nat]
    BY DEF CursorPassed
  <2>1. CASE new = {}
    BY <1>3, <2>0, <2>1
  <2>2. CASE new # {}
    <3>. HIDE DEF n, new
    <3>0. PICK last \in new : last \in 1..Len(fills[m]) /\ last <= n
      BY <1>2, <2>2
    <3>1. n \in 1..Len(fills[m]) /\ fills[m][n] \in Nat
      BY <1>1, <3>0, SMTT(30)
    <3>2. cursor' = [cursor EXCEPT ![m] = fills[m][n]]
      BY <1>3, <2>2
    <3>3. \A t \in new : fills[m][t] \in Nat /\ fills[m][t] <= fills[m][n] /\ fills[m][t] > cursor[m]
      BY <1>1, <1>2, <3>1
    <3>4. cursor[m] \in Nat /\ cursor'[m] = fills[m][n]
      BY <2>0, <3>2
    <3>5. cursor[m] <= cursor'[m]
      BY <3>0, <3>1, <3>3, <3>4, SMTT(30)
    <3>. QED
      BY <2>0, <3>1, <3>2, <3>3, <3>4, <3>5
  <2>. QED
    BY <2>1, <2>2
<1>7. CursorPassed'
  <2>. HIDE DEF n, new
  <2>1. \A t \in 1..MaxChanges : cast[m][t] \in Nat
    BY DEF CursorPassed
  <2>2. cast' \in [Markets -> [1..MaxChanges -> Nat]]
    <3>1. \A t \in 1..MaxChanges : times[t] \in Nat
      BY <2>1
    <3>. QED
      BY <1>3, <3>1 DEF CursorPassed
  <2>3. ASSUME NEW t \in 1..MaxChanges, times[t] # 0
        PROVE  times[t] = 1 /\ t <= Len(fills[m]) /\ fills[m][t] <= cursor'[m]
    <3>1. CASE t \in new
      <4>1. t \in 1..Len(fills[m]) /\ fills[m][t] > cursor[m] /\ fills[m][t] <= cursor'[m]
        BY <1>2, <1>6, <3>1
      <4>2. cast[m][t] = 0
        BY <1>1, <4>1, SMTT(30) DEF CursorPassed
      <4>. QED
        BY <1>1, <3>1, <4>1, <4>2
    <3>2. CASE t \notin new
      <4>1. cast[m][t] = 1 /\ t <= Len(fills[m]) /\ fills[m][t] <= cursor[m]
        BY <2>3, <3>2 DEF CursorPassed
      <4>2. fills[m][t] \in Nat /\ cursor[m] \in Nat /\ cursor'[m] \in Nat
        BY <1>1, <1>6, <4>1 DEF CursorPassed
      <4>. QED
        BY <1>6, <3>2, <4>1, <4>2
    <3>. QED
      BY <3>1, <3>2
  <2>4. cast'[m] = times /\ \A o \in Markets : o # m => cast'[o] = cast[o]
    BY <1>3 DEF CursorPassed
  <2>. HIDE DEF times
  <2>. QED
    BY <1>0, <1>6, <2>2, <2>3, <2>4, SMTT(30) DEF CursorPassed
<1>. QED
  BY <1>0, <1>4, <1>5, <1>7 DEF DatabaseOrdered, FetchLinked, StreamLinked, view, stream

\* A server that restarts has forgotten its cursor, and what it broadcast.
LEMMA RestartKeepsFeed ==
  ASSUME Inv, Restart
  PROVE  Inv'
<1> USE DEF Inv, FeedInv, ViewInv
<1>1. UNCHANGED <<data, fills, timer, isDestroyed, channels, view, fetch, shown>>
  BY DEF Restart
<1>2. TicksTyped' /\ CursorPassed'
  BY DEF Restart, TicksTyped, Idle, Tickets, CursorPassed
<1>3. StreamLinked'
  BY <1>1 DEF Restart, StreamLinked
<1>. QED
  BY <1>1, <1>2, <1>3 DEF DatabaseOrdered, FetchLinked, ScreenTyped, view

-----------------------------------------------------------------------------
(* The provider: its requests, its moves between markets. *)

\* A request may be in flight, or be made, only for the market on the screen.
LEMMA RequestsKeepView ==
  ASSUME Inv, UNCHANGED <<data, fills, market, shown>>,
         \/ fetch' = fetch
         \/ \E streaming : fetch' = Polled(market, fetch, streaming)
         \/ fetch' = NoFetch
         \/ fetch' = Cancelled
  PROVE  ViewInv'
<1> USE DEF Inv, ViewInv
<1>1. ScreenTyped'
  BY DEF ScreenTyped
<1>2. data[market] \in Nat /\ fills[market] \in Seq(Nat \ {0}) /\ market \in Markets
  BY DEF FeedInv, DatabaseOrdered, FetchLinked
<1>3. Len(fills[market]) \in Nat
  BY <1>2
<1>4. FetchLinked'
  <2>1. CASE fetch' = fetch
    BY <2>1 DEF FetchLinked
  <2>2. ASSUME NEW streaming, fetch' = Polled(market, fetch, streaming)
        PROVE  FetchLinked'
    BY <1>2, <1>3, <2>2, PolledLinked DEF FetchLinked
  <2>3. CASE fetch' = NoFetch
    BY <2>3 DEF FetchLinked, NoFetch
  <2>4. CASE fetch' = Cancelled
    BY <2>4, CancelledDead DEF FetchLinked
  <2>. QED
    BY <2>1, <2>2, <2>3, <2>4
<1>. QED
  BY <1>1, <1>4

LEMMA PollKeepsFeed ==
  ASSUME Inv, Poll \/ Unanswered \/ OnVisible \/ Hide
  PROVE  Inv'
<1>1. UNCHANGED <<data, fills, subs, cursor, ticks, cast, stream, market, shown>>
  BY DEF Poll, Unanswered, OnVisible, Hide, server, view
<1>2. \/ fetch' = fetch \/ fetch' = NoFetch
      \/ fetch' = Polled(market, fetch, wsActive)
  BY DEF Poll, Unanswered, OnVisible, Hide
<1>3. ViewInv'
  BY <1>1, <1>2, RequestsKeepView
<1>. QED
  BY <1>1, <1>3 DEF Inv, FeedInv, DatabaseOrdered, TicksTyped, CursorPassed, StreamLinked, stream

\* A late answer is applied only while its market is on the screen.
LEMMA AnswerKeepsFeed ==
  ASSUME Inv, Answered
  PROVE  Inv'
<1> USE DEF Inv, FeedInv, ViewInv
<1>1. UNCHANGED <<data, fills, server, stream, view>> /\ fetch' = NoFetch
  BY DEF Answered
<1>2. FetchLinked'
  BY <1>1 DEF FetchLinked, NoFetch, view
<1>3. ScreenTyped'
  <2>1. CASE shown' = shown
    BY <1>1, <2>1 DEF ScreenTyped
  <2>2. CASE shown' # shown
    <3>. DEFINE trades == IF fetch.trades > 0 THEN 1..fetch.trades ELSE shown[market].trades
                s == [book |-> fetch.val, trades |-> trades]
    <3>1. market \in Markets /\ fetch.market = market /\ fetch.val <= data[market] /\ fetch.trades <= Len(fills[market])
      BY <2>2 DEF Answered, Applies, FetchLinked
    <3>2. shown' = [shown EXCEPT ![market] = s]
      BY <2>2, <3>1 DEF Answered, ScreenTyped
    <3>3. fetch.val \in Nat /\ fetch.trades \in Nat /\ Len(fills[market]) \in Nat
      BY <3>1 DEF FetchLinked, DatabaseOrdered
    <3>4. shown[market].trades \subseteq 1..Len(fills[market])
      BY <3>1 DEF ScreenTyped
    <3>5. trades \subseteq 1..Len(fills[market])
      BY <3>1, <3>3, <3>4
    <3>6. trades \subseteq Nat
      BY <3>3, <3>5
    <3>. HIDE DEF trades
    <3>7. s \in [book : Nat, trades : SUBSET Nat] /\ s.trades \subseteq 1..Len(fills[market]) /\ s.book <= data[market]
      BY <3>1, <3>3, <3>5, <3>6
    <3>. HIDE DEF s
    <3>. QED
      BY <1>1, <3>2, <3>7 DEF ScreenTyped
  <2>. QED
    BY <2>1, <2>2
<1>. QED
  BY <1>1, <1>2, <1>3 DEF DatabaseOrdered, TicksTyped, CursorPassed, StreamLinked, server, stream

\* The answers of another market were cancelled, or were never asked for.
LEMMA MountKeepsView ==
  ASSUME Inv, NEW m \in Markets, NEW f, NEW streaming, NEW s, NEW cs, Mount(m, f, streaming, s, cs),
         f = NoFetch \/ f = Cancelled, UNCHANGED <<data, fills, shown>>
  PROVE  ViewInv'
<1> USE DEF Inv, ViewInv
<1>1. ScreenTyped'
  BY DEF ScreenTyped
<1>2. f \in [market : Nat, live : BOOLEAN, val : Nat, trades : Nat] /\ ~f.live
  <2>1. NoFetch \in [market : Nat, live : BOOLEAN, val : Nat, trades : Nat] /\ ~NoFetch.live
    BY DEF NoFetch
  <2>2. FetchLinked
    OBVIOUS
  <2>. QED
    BY <2>1, <2>2, CancelledDead
<1>3. fills[m] \in Seq(Nat \ {0}) /\ data[m] \in Nat
  BY DEF FeedInv, DatabaseOrdered
<1>4. Len(fills[m]) \in Nat
  BY <1>3
<1>5. fetch' = Polled(m, f, streaming) /\ market' = m
  BY DEF Mount
<1>6. FetchLinked'
  BY <1>2, <1>3, <1>4, <1>5, PolledLinked DEF FetchLinked
<1>. QED
  BY <1>1, <1>6

\* The cleanup leaves a socket of its own to its close handler.
LEMMA DisconnectTyped ==
  ASSUME StreamLinked
  PROVE  /\ Disconnect \in [Sockets -> {"none", "connecting", "open", "closing"}]
         /\ Unsubscribed \in [Sockets -> SUBSET Markets]
  BY DEF StreamLinked, Disconnect, Unsubscribed

LEMMA MovesKeepFeed ==
  ASSUME Inv, Leave \/ \E m \in Markets : Enter(m) \/ Switch(m)
  PROVE  Inv'
<1>0. StreamLinked
  BY DEF Inv
<1>1. UNCHANGED <<data, fills, cursor, ticks, cast, shown>>
  BY DEF Leave, Enter, Switch, server
<1>2. FeedInv'
  BY <1>1 DEF Inv, FeedInv, DatabaseOrdered, TicksTyped, CursorPassed
<1>3. CASE Leave
  <2>1. ViewInv'
    BY <1>1, <1>3, RequestsKeepView DEF Leave
  <2>2. StreamLinked'
    BY <1>0, <1>3, DisconnectTyped DEF Leave, StreamLinked, NoSocket
  <2>. QED
    BY <1>2, <2>1, <2>2 DEF Inv
<1>4. ASSUME NEW m \in Markets, Enter(m)
      PROVE  Inv'
  <2>1. ViewInv'
    BY <1>1, <1>4, MountKeepsView DEF Enter
  <2>2. /\ sock' \in [Sockets -> {"none", "connecting", "open", "closing"}]
        /\ ws' \in Sockets /\ sock'[ws'] = "connecting"
    BY <1>0, <1>4, Connected DEF Enter, Mount, StreamLinked
  <2>3. StreamLinked'
    BY <1>0, <1>4, <2>2 DEF Enter, Mount, StreamLinked, server
  <2>. QED
    BY <1>2, <2>1, <2>3 DEF Inv
<1>5. ASSUME NEW m \in Markets, Switch(m)
      PROVE  Inv'
  <2>1. ViewInv'
    BY <1>1, <1>5, MountKeepsView DEF Switch
  <2>2. /\ sock' \in [Sockets -> {"none", "connecting", "open", "closing"}]
        /\ ws' \in Sockets /\ sock'[ws'] = "connecting"
    BY <1>0, <1>5, DisconnectTyped, Connected DEF Switch, Mount
  <2>3. StreamLinked'
    BY <1>0, <1>5, <2>2, DisconnectTyped DEF Switch, Mount, StreamLinked
  <2>. QED
    BY <1>2, <2>1, <2>3 DEF Inv
<1>. QED
  BY <1>3, <1>4, <1>5

-----------------------------------------------------------------------------
(* The sockets. *)

LEMMA SocketsKeepFeed ==
  ASSUME Inv, Reconnect \/ \E i \in Sockets : OnOpen(i) \/ Closed(i) \/ Lost(i)
  PROVE  Inv'
<1>0. StreamLinked
  BY DEF Inv
<1>1. UNCHANGED <<data, fills, cursor, ticks, cast, market, shown>>
  BY DEF Reconnect, OnOpen, Closed, Lost, OnClose, server, view
<1>2. FeedInv'
  BY <1>1 DEF Inv, FeedInv, DatabaseOrdered, TicksTyped, CursorPassed
<1>3. ViewInv'
  <2>1. fetch' = fetch \/ fetch' = Polled(market, fetch, FALSE)
    BY DEF Reconnect, OnOpen, Closed, Lost, OnClose
  <2>. QED
    BY <1>1, <2>1, RequestsKeepView
<1>4. CASE Reconnect
  <2>1. /\ sock' \in [Sockets -> {"none", "connecting", "open", "closing"}]
        /\ ws' \in Sockets /\ sock'[ws'] = "connecting"
    BY <1>0, <1>4, Connected DEF Reconnect, StreamLinked
  <2>. QED
    BY <1>0, <1>2, <1>3, <1>4, <2>1 DEF Inv, Reconnect, StreamLinked, server
<1>5. ASSUME NEW i \in Sockets, OnOpen(i)
      PROVE  StreamLinked'
  <2>1. subs' \in [Sockets -> SUBSET Markets]
    BY <1>0, <1>5 DEF OnOpen, Resubscribe, StreamLinked
  <2>. QED
    BY <1>0, <1>5, <2>1 DEF OnOpen, StreamLinked
<1>6. ASSUME NEW i \in Sockets, OnClose(i)
      PROVE  StreamLinked'
  BY <1>0, <1>6 DEF OnClose, ScheduleReconnect, StreamLinked
<1>. QED
  BY <1>2, <1>3, <1>4, <1>5, <1>6 DEF Inv, Closed, Lost

LEMMA NextFeed == Inv /\ [Next]_vars => Inv'
<1> SUFFICES ASSUME Inv, [Next]_vars
             PROVE  Inv'
  OBVIOUS
<1>1. CASE UNCHANGED vars
  BY <1>1 DEF vars, server, stream, view, Inv, FeedInv, ViewInv, DatabaseOrdered, TicksTyped, CursorPassed,
              FetchLinked, ScreenTyped, StreamLinked
<1>2. CASE Next
  BY <1>2, ChangeKeepsFeed, TickKeepsFeed, SendBookKeepsFeed, SendTradesKeepsFeed, RestartKeepsFeed,
     PollKeepsFeed, AnswerKeepsFeed, MovesKeepFeed, SocketsKeepFeed DEF Next
<1>. QED
  BY <1>1, <1>2

LEMMA FeedInvariant == Spec => []Inv
  BY InitFeed, NextFeed, PTL DEF Spec

-----------------------------------------------------------------------------
\* The module's socket, its timer and the provider's subscriptions fit each
\* other, and the screen never shows what the database has not.
THEOREM TypeCorrect == Spec => []TypeOK
<1>1. Inv => TypeOK
  <2>1. DatabaseOrdered => \A m \in Markets : DOMAIN fills[m] = 1..Len(fills[m])
    BY DEF DatabaseOrdered
  <2>. QED
    BY <2>1 DEF Inv, FeedInv, ViewInv, FetchLinked, ScreenTyped, StreamLinked, TypeOK
<1>. QED
  BY <1>1, FeedInvariant, PTL

\* However many ticks overlap, a server process broadcasts a fill at most once.
THEOREM OnceEach == Spec => []BroadcastOnce
<1>1. Inv => BroadcastOnce
  <2>1. CursorPassed => \A m \in Markets, n \in 1..MaxChanges : cast[m][n] = 0 \/ cast[m][n] = 1
    BY DEF CursorPassed
  <2>. QED
    BY <2>1 DEF Inv, FeedInv, BroadcastOnce
<1>. QED
  BY <1>1, FeedInvariant, PTL

\* What is on the screen changes only for the market it shows.
LEMMA StepKeepsOthers == Inv /\ [Next]_vars => [\A m \in Markets : m # market' => shown'[m] = shown[m]]_vars
<1> SUFFICES ASSUME Inv, Next, NEW m \in Markets, m # market'
             PROVE  shown'[m] = shown[m]
  OBVIOUS
<1>0. shown \in [Markets -> [book : Nat, trades : SUBSET Nat]]
  BY DEF Inv, ViewInv, ScreenTyped
<1>1. CASE Answered
  BY <1>0, <1>1 DEF Answered, Applies, view, Inv, ViewInv, FetchLinked
<1>2. ASSUME NEW n \in Markets, NEW k \in 1..Overlap, SendBook(n, k) \/ SendTrades(n, k)
      PROVE  shown'[m] = shown[m]
  BY <1>0, <1>2 DEF SendBook, SendTrades, Reaches, view
<1>3. ASSUME NEW n \in Markets, NEW k \in 1..Overlap, Tick(n, k) \/ FailTick(n, k)
      PROVE  shown' = shown
  BY <1>3 DEF Tick, FailTick
<1>4. ASSUME NEW n \in Markets, Change(n) \/ Enter(n) \/ Switch(n)
      PROVE  shown' = shown
  BY <1>4 DEF Change, Enter, Switch
<1>5. ASSUME NEW i \in Sockets, OnOpen(i) \/ Closed(i) \/ Lost(i)
      PROVE  shown' = shown
  BY <1>5 DEF OnOpen, Closed, Lost, OnClose
<1>6. Leave \/ Hide \/ OnVisible \/ Reconnect \/ Restart \/ Poll \/ Unanswered => shown' = shown
  BY DEF Leave, Hide, OnVisible, Reconnect, Restart, Poll, Unanswered
<1>. QED
  BY <1>1, <1>2, <1>3, <1>4, <1>5, <1>6 DEF Next

\* After a change of market neither a late answer, nor an overlapping tick, nor
\* a socket left open writes to the page what belongs to the other.
THEOREM OtherMarketsKept == Spec => MarketKept
  BY FeedInvariant, StepKeepsOthers, PTL DEF Spec, MarketKept

=============================================================================
