------------------------- MODULE LiquidationKeeper --------------------------
(***************************************************************************)
(* scripts/liquidation-keeper.ts: tick by tick the keeper reads the newest *)
(* accounts from the database, asks the vault which are liquidatable and   *)
(* proposes to close their positions, the largest first: all of it, a half *)
(* and a quarter of the size it has read.  A proposal is simulated, sent   *)
(* and polled; the keeper gives a transaction up before it is void, so it  *)
(* may land later, but all proposals that have not landed share the        *)
(* keeper's sequence number and only one of them can.  What liquidate does *)
(* on the ledger is in Exchange; here it accepts a close or not.           *)
(***************************************************************************)
EXTENDS Integers, Sequences, SequencesExt

CONSTANTS
  Table,       \* the accounts, newest first: ORDER BY "updatedAt" DESC
  Limit,       \* MAX_ACCOUNTS_PER_TICK
  Unreadable,  \* accounts whose address or reads throw
  Markets,
  Start,       \* Start[u][m]: the positions at first
  MaxMoves,    \* bound on price moves
  MaxLosses    \* bound on failed requests and transactions given up

ASSUME LimitAssumption == Limit \in Nat

VARIABLES
  size,       \* size[u][m]: position of u in market m
  sick,       \* accounts the vault calls liquidatable
  accepts,    \* accepts[u]: the largest close of u that liquidate takes; 0 when it refuses whatever the fraction
  keeper,     \* the keeper's place: account at, proposals todo, fate of the one sent
  sent,       \* proposals that can land: all built on the current sequence number
  moves, losses

liqVars == <<size, sick, accepts, keeper, sent, moves, losses>>

Accounts == Range(Table)
Resting == [pc |-> "rest", at |-> 0, todo |-> <<>>, fate |-> "none"]
LiqInit ==
  /\ size = Start
  /\ sick = {} /\ accepts = [u \in Accounts |-> 0]
  /\ keeper = Resting /\ sent = {} /\ moves = 0 /\ losses = 0

Loses == losses < MaxLosses /\ losses' = losses + 1
Flat(u) == \A m \in Markets : size[u][m] = 0
Goes(pc) == keeper' = [keeper EXCEPT !.pc = pc, !.fate = "none"]
World == <<size, sick, accepts, moves>>

(* the rows of the tick; malformed addresses are passed over *)
Rows == SubSeq(Table, 1, IF Limit < Len(Table) THEN Limit ELSE Len(Table))
StartTick ==
  /\ keeper.pc = "rest" /\ Rows # <<>>
  /\ keeper' = [keeper EXCEPT !.pc = "scan", !.at = 1] /\ UNCHANGED <<World, sent, losses>>

(* where the loop goes on after an account: the catch is inside it *)
AfterThrowRest(at) == Resting
AfterAccount(at) == IF at = Len(Rows) THEN Resting ELSE [Resting EXCEPT !.pc = "scan", !.at = at + 1]
AfterThrow(at) == AfterAccount(at)

(* proposals for the positions read: the largest notional first, then the fractions of its size *)
Ranked(u) == SetToSortSeq({m \in Markets : size[u][m] > 0}, LAMBDA m, n : size[u][m] > size[u][n] \/ (size[u][m] = size[u][n] /\ m < n))
Steps(u, m) == SelectSeq([i \in 1..3 |-> [user |-> u, market |-> m, close |-> size[u][m] \div <<1, 2, 4>>[i]]], LAMBDA p : p.close > 0)
Proposals(u) == FlattenSeq([i \in 1..Len(Ranked(u)) |-> Steps(u, Ranked(u)[i])])
(* account_health, then positions *)
Visit ==
  /\ keeper.pc = "scan"
  /\ LET u == Rows[keeper.at] IN
     keeper' = IF u \in Unreadable THEN AfterThrow(keeper.at)
               ELSE IF u \notin sick \/ Flat(u) THEN AfterAccount(keeper.at)
               ELSE [keeper EXCEPT !.pc = "try", !.todo = Proposals(u)]
  /\ UNCHANGED <<World, sent, losses>>
Throws == keeper.pc \in {"scan", "try", "poll"} /\ Loses /\ keeper' = AfterThrow(keeper.at) /\ UNCHANGED <<World, sent>>

(* what the contract would do with a proposal now *)
Accepted(p) == p.user \in sick /\ p.close <= size[p.user][p.market] /\ p.close <= accepts[p.user]
NextTry == [keeper EXCEPT !.pc = "try", !.todo = Tail(@), !.fate = "none"]
Build ==
  /\ keeper.pc = "try"
  /\ keeper' = IF keeper.todo = <<>> THEN AfterAccount(keeper.at)
               ELSE IF Accepted(Head(keeper.todo)) THEN [keeper EXCEPT !.pc = "send"]
               ELSE NextTry
  /\ UNCHANGED <<World, sent, losses>>
(* no fresh price of the market: its proposals are passed over *)
NoPrice ==
  /\ keeper.pc = "try" /\ keeper.todo # <<>> /\ Loses
  /\ keeper' = [keeper EXCEPT !.todo = SelectSeq(@, LAMBDA p : p.market # Head(keeper.todo).market)]
  /\ UNCHANGED <<World, sent>>
(* a sequence number that was used since is refused *)
SendLiquidation ==
  /\ keeper.pc = "send"
  /\ IF keeper.fate = "void" THEN keeper' = NextTry /\ UNCHANGED sent
     ELSE Goes("poll") /\ sent' = sent \cup {Head(keeper.todo)}
  /\ UNCHANGED <<World, losses>>
PollLiquidation ==
  /\ keeper.pc = "poll"
  /\ \/ keeper.fate = "ok" /\ keeper' = AfterAccount(keeper.at) /\ UNCHANGED losses
     \/ keeper.fate \in {"failed", "void"} /\ keeper' = NextTry /\ UNCHANGED losses
     \* 15 polls without an answer, of what is lost or may still land
     \/ keeper.fate = "none" /\ keeper' = NextTry /\ IF Head(keeper.todo) \in sent THEN Loses ELSE UNCHANGED losses
  /\ UNCHANGED <<World, sent>>

(* the ledger takes one of the transactions with the current sequence number *)
Fate(p, ok) ==
  CASE keeper.pc = "poll" /\ Head(keeper.todo) = p -> IF ok THEN "ok" ELSE "failed"
    [] keeper.pc = "send" \/ (keeper.pc = "poll" /\ Head(keeper.todo) # p) -> "void"
    [] OTHER -> "none"
LandLiquidation(p) ==
  /\ p \in sent /\ sent' = {}
  /\ keeper' = [keeper EXCEPT !.fate = Fate(p, Accepted(p))]
  /\ IF Accepted(p)
     THEN /\ size' = [size EXCEPT ![p.user][p.market] = @ - p.close]
          /\ sick' \in {sick, sick \ {p.user}}
     ELSE UNCHANGED <<size, sick>>
  /\ UNCHANGED <<accepts, moves, losses>>
ExpireLiquidation(p) == p \in sent /\ Loses /\ sent' = sent \ {p} /\ UNCHANGED <<World, keeper>>

(* The price moves: an account becomes liquidatable or recovers; and with the price, the insurance fund (short *)
(* of the reward, it makes every close fail) and the positions, the limit to the closes that it takes.         *)
PriceMoves(u) ==
  /\ moves < MaxMoves /\ moves' = moves + 1
  /\ \/ ~Flat(u) /\ sick' = sick \cup {u} /\ \E a \in {0, 1, 4} : accepts' = [accepts EXCEPT ![u] = a]
     \/ u \in sick /\ sick' = sick \ {u} /\ UNCHANGED accepts
  /\ UNCHANGED <<size, keeper, sent, losses>>

KeeperStep == StartTick \/ Visit \/ Build \/ SendLiquidation \/ PollLiquidation
LiqNext ==
  \/ KeeperStep \/ Throws \/ NoPrice
  \/ \E p \in sent : LandLiquidation(p) \/ ExpireLiquidation(p)
  \/ \E u \in Accounts : PriceMoves(u)
----------------------------------------------------------------------------
(* liquidate refuses everything that the keeper proposes for u: the fund cannot pay the reward, or not even a *)
(* quarter of a position is small enough to improve its health                                                *)
RefusesAll(u) == \A m \in Markets : \A i \in DOMAIN Steps(u, m) : Steps(u, m)[i].close > accepts[u]

(* An account of the scanned rows that is liquidatable is liquidated until it is healthy, has no position, or  *)
(* the contract refuses every fraction of it, although reads of other accounts throw, transactions are given  *)
(* up and land late.  Nothing promises that an account is liquidated for whose reward the fund is too short.  *)
LiquidatedEventually ==
  \A u \in Range(Rows) \ Unreadable : (u \in sick) ~> (u \notin sick \/ Flat(u) \/ RefusesAll(u))
=============================================================================
