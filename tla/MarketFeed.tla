----------------------------- MODULE MarketFeed -----------------------------
(***************************************************************************)
(* Market data on its way to the trader's screen: the ws-server's          *)
(* broadcast ticks, the browser's WebSocket client (websocket.ts, module   *)
(* variables that outlive the component), the MarketDataProvider with its  *)
(* REST polling, and the market store.  The database is a version number   *)
(* per market (orders and market row) and the timestamps of its fills.     *)
(*                                                                         *)
(* A frame is processed by its receiver when it is sent: a socket keeps    *)
(* the order of frames and discards them once close() was called, so the   *)
(* delays that matter are those between a query and the use of its answer. *)
(***************************************************************************)
EXTENDS Integers, Sequences, FiniteSets, FiniteSetsExt

CONSTANTS
  Markets,
  MaxSockets,   \* bound on sockets that exist at the same time
  Overlap,      \* bound on unfinished broadcast ticks per market
  Limit,        \* trades read by a broadcast tick
  MaxChanges,   \* bound on changes of the database
  MaxMoves,     \* bound on what the user does: change market, leave, hide the tab
  MaxFaults     \* bound on lost connections, failed queries and server restarts

ASSUME MarketFeedAssumption ==
  /\ Markets \subseteq Nat /\ Markets # {}
  /\ {MaxSockets, Overlap, Limit, MaxChanges, MaxMoves, MaxFaults} \subseteq Nat

Sockets == 1..MaxSockets
NoSocket == 0
Idle == [phase |-> "idle", val |-> 0]
NoFetch == [market |-> 0, live |-> FALSE, val |-> 0, trades |-> 0]

VARIABLES
  data,       \* data[m]: version of the orders and the row of market m
  fills,      \* fills[m]: createdAt of every fill of m, in order
  subs,       \* subs[i]: the markets whose two channels socket i is subscribed to
  cursor,     \* lastTradeTs
  ticks,      \* ticks[m][k]: an unfinished broadcastMarket(m)
  cast,       \* history: how often this server process broadcast each fill
  sock,       \* sock[i]: readyState
  ws,         \* the module's current socket
  timer,      \* a reconnect is scheduled
  isDestroyed,
  channels,   \* subscribedChannels
  mounted, market, visible,   \* the provider, its market (handlers included), the tab
  wsActive,   \* wsActiveRef
  fetch,      \* the request in flight (inFlightRef, cancelled): pollOrderBook and pollTrades start together
  shown,      \* the market store
  changes, moves, faults

server == <<subs, cursor, ticks, cast>>
stream == <<sock, ws, timer, isDestroyed, channels>>
view == <<mounted, market, visible>>
bounds == <<changes, moves, faults>>
vars == <<data, fills, server, stream, view, wsActive, fetch, shown, bounds>>

Init ==
  /\ data = [m \in Markets |-> 0] /\ fills = [m \in Markets |-> <<>>]
  /\ subs = [i \in Sockets |-> {}] /\ cursor = [m \in Markets |-> 0]
  /\ ticks = [m \in Markets |-> [k \in 1..Overlap |-> Idle]]
  /\ cast = [m \in Markets |-> [n \in 1..MaxChanges |-> 0]]
  /\ sock = [i \in Sockets |-> "none"] /\ ws = NoSocket /\ timer = FALSE /\ isDestroyed = FALSE
  /\ channels = {}
  /\ mounted = FALSE /\ market = Min(Markets) /\ visible = TRUE /\ wsActive = FALSE
  /\ fetch = NoFetch
  /\ shown = [m \in Markets |-> [book |-> 0, trades |-> {}]]
  /\ changes = 0 /\ moves = 0 /\ faults = 0

Fault == faults < MaxFaults /\ faults' = faults + 1 /\ UNCHANGED <<changes, moves>>
Move == moves < MaxMoves /\ moves' = moves + 1 /\ UNCHANGED <<changes, faults>>
----------------------------------------------------------------------------
(* The database: an order comes or goes, or a fill is written, maybe within the millisecond of the last one *)
LastTs(m) == IF fills[m] = <<>> THEN 0 ELSE fills[m][Len(fills[m])]
Change(m) ==
  /\ changes < MaxChanges /\ changes' = changes + 1
  /\ data' = [data EXCEPT ![m] = @ + 1]
  /\ \/ UNCHANGED fills
     \/ \E step \in {0, 1} : LastTs(m) + step > 0 /\ fills' = [fills EXCEPT ![m] = Append(@, LastTs(m) + step)]
  /\ UNCHANGED <<server, stream, view, wsActive, fetch, shown, moves, faults>>

----------------------------------------------------------------------------
(* The provider's requests.  runOnce: one at a time, also across a change of market; none while the stream is  *)
(* up or the tab hidden.  The routes read when the request is made.  The polls of the book and of the trades,    *)
(* two with a flag each, are one request here: they start and are dropped together.                              *)
Polled(m, f, streaming) ==
  IF f # NoFetch \/ streaming \/ ~visible' THEN f
  ELSE [market |-> m, live |-> TRUE, val |-> data[m], trades |-> Len(fills[m])]
Poll ==
  /\ mounted /\ UNCHANGED visible
  /\ fetch' = Polled(market, fetch, wsActive) /\ fetch' # fetch
  /\ UNCHANGED <<data, fills, server, stream, mounted, market, wsActive, shown, bounds>>

AppliesAlways(f) == TRUE
Applies(f) == f.live       \* !cancelled
Answered ==
  /\ fetch # NoFetch /\ fetch' = NoFetch
  /\ shown' = IF ~Applies(fetch) THEN shown
              ELSE [shown EXCEPT ![fetch.market] = [book |-> fetch.val, trades |-> IF fetch.trades > 0 THEN 1..fetch.trades ELSE @.trades]]
  /\ UNCHANGED <<data, fills, server, stream, view, wsActive, bounds>>
Unanswered ==              \* null or [] from an error
  /\ fetch # NoFetch /\ fetch' = NoFetch
  /\ Fault /\ UNCHANGED <<data, fills, server, stream, view, wsActive, shown>>

----------------------------------------------------------------------------
(* The stream. *)
Free == {i \in Sockets : sock[i] = "none"}
Connect(s) == Free # {} /\ ws' = Min(Free) /\ sock' = [s EXCEPT ![Min(Free)] = "connecting"]
(* subscribe goes out on the module's socket, whichever socket opened *)
ResubscribeNever(s) == subs
Resubscribe(s) == IF ws # NoSocket /\ s[ws] = "open" THEN [subs EXCEPT ![ws] = @ \cup channels] ELSE subs

OnOpen(i) ==
  /\ sock[i] = "connecting"
  /\ sock' = [sock EXCEPT ![i] = "open"]
  /\ wsActive' = TRUE                                \* handleWsStatus(true)
  /\ subs' = Resubscribe(sock')
  /\ UNCHANGED <<data, fills, cursor, ticks, cast, ws, timer, isDestroyed, channels, view, fetch, shown, bounds>>

ScheduleReconnectAlways == TRUE
ScheduleReconnect == timer \/ ~isDestroyed
(* onclose of any socket resets the module's socket and schedules a reconnect *)
OnClose(i) ==
  /\ sock' = [sock EXCEPT ![i] = "none"] /\ subs' = [subs EXCEPT ![i] = {}]
  /\ ws' = NoSocket
  /\ timer' = ScheduleReconnect
  /\ wsActive' = FALSE                               \* handleWsStatus(false), which polls
  /\ UNCHANGED visible
  /\ fetch' = IF mounted THEN Polled(market, fetch, FALSE) ELSE fetch
  /\ UNCHANGED <<data, fills, cursor, ticks, cast, isDestroyed, channels, mounted, market, shown>>
Closed(i) == sock[i] = "closing" /\ OnClose(i) /\ UNCHANGED bounds
Lost(i) == sock[i] \in {"connecting", "open"} /\ OnClose(i) /\ Fault

Reconnect ==
  /\ timer /\ timer' = FALSE
  /\ Connect(sock)
  /\ UNCHANGED <<data, fills, server, isDestroyed, channels, view, wsActive, fetch, shown, bounds>>

(* The effect for market m: wsReset, wsSetHandlers, wsSubscribe, the first requests; s: the sockets before *)
Mount(m, fs, streaming, s, cs) ==
  /\ mounted' = TRUE /\ market' = m
  /\ UNCHANGED visible /\ fetch' = Polled(m, fs, streaming)
  /\ isDestroyed' = FALSE /\ channels' = cs \cup {m}
  /\ Connect(s)
(* The cleanup: wsUnsubscribe and wsDisconnect *)
Disconnect == IF ws = NoSocket THEN sock ELSE [sock EXCEPT ![ws] = "closing"]
Unsubscribed == IF ws = NoSocket THEN subs ELSE [subs EXCEPT ![ws] = {}]   \* the server's close handler
Cancelled == [fetch EXCEPT !.live = FALSE]

Enter(m) ==
  /\ ~mounted
  /\ Mount(m, NoFetch, FALSE, sock, channels)
  /\ wsActive' = FALSE                               \* the refs of a new component
  /\ UNCHANGED <<data, fills, server, timer, shown, bounds>>
Switch(m) ==
  /\ mounted /\ m # market /\ Move
  /\ subs' = Unsubscribed /\ timer' = FALSE
  /\ Mount(m, Cancelled, wsActive, Disconnect, channels \ {market})
  /\ UNCHANGED <<data, fills, cursor, ticks, cast, wsActive, shown>>
Leave ==
  /\ mounted /\ Move /\ mounted' = FALSE
  /\ subs' = Unsubscribed /\ timer' = FALSE
  /\ fetch' = Cancelled
  /\ sock' = Disconnect /\ ws' = NoSocket /\ isDestroyed' = TRUE /\ channels' = channels \ {market}
  /\ UNCHANGED <<data, fills, cursor, ticks, cast, market, visible, wsActive, shown>>
Hide ==
  /\ mounted /\ visible /\ visible' = FALSE /\ Move
  /\ UNCHANGED <<data, fills, server, stream, mounted, market, wsActive, fetch, shown>>
OnVisible ==
  /\ ~visible /\ visible' = TRUE
  /\ fetch' = IF mounted THEN Polled(market, fetch, wsActive) ELSE fetch
  /\ UNCHANGED <<data, fills, server, stream, mounted, market, wsActive, shown, bounds>>

----------------------------------------------------------------------------
(* The server's broadcast ticks, started every second whether or not the last one has finished. *)
Reaches(m) == m = market /\ \E i \in Sockets : m \in subs[i] /\ sock[i] = "open"
Tick(m, k) ==
  /\ ticks[m][k] = Idle /\ \E i \in Sockets : m \in subs[i]
  /\ ticks' = [ticks EXCEPT ![m][k] = [phase |-> "book", val |-> data[m]]]
  /\ UNCHANGED <<data, fills, subs, cursor, cast, stream, view, wsActive, fetch, shown, bounds>>
(* broadcast, and handleWsOrderBook in the browser *)
SendBook(m, k) ==
  /\ ticks[m][k].phase = "book"
  /\ shown' = IF Reaches(m) THEN [shown EXCEPT ![m].book = ticks[m][k].val] ELSE shown
  /\ ticks' = [ticks EXCEPT ![m][k] = [phase |-> "trades", val |-> Len(fills[m])]]
  /\ UNCHANGED <<data, fills, subs, cursor, cast, stream, view, wsActive, fetch, bounds>>
(* The filter on the cursor, which is read after the query.  What the page shows is a set of trades: prependTrade *)
(* keeps one that comes twice, through a leaked socket, twice in its list, and no property is about that.        *)
NewTradesOrEqual(m, n) == {t \in 1..n : t > n - Limit /\ fills[m][t] >= cursor[m]}
NewTrades(m, n) == {t \in 1..n : t > n - Limit /\ fills[m][t] > cursor[m]}
SendTrades(m, k) ==
  LET n == ticks[m][k].val
      new == NewTrades(m, n)
  IN /\ ticks[m][k].phase = "trades"
     /\ cursor' = IF new = {} THEN cursor ELSE [cursor EXCEPT ![m] = fills[m][n]]
     /\ cast' = [cast EXCEPT ![m] = [t \in DOMAIN @ |-> IF t \in new THEN @[t] + 1 ELSE @[t]]]
     /\ shown' = IF Reaches(m) THEN [shown EXCEPT ![m].trades = @ \cup new] ELSE shown
     /\ ticks' = [ticks EXCEPT ![m][k] = Idle]
     /\ UNCHANGED <<data, fills, subs, stream, view, wsActive, fetch, bounds>>
FailTick(m, k) ==
  /\ ticks[m][k] # Idle /\ Fault
  /\ ticks' = [ticks EXCEPT ![m][k] = Idle]
  /\ UNCHANGED <<data, fills, subs, cursor, cast, stream, view, wsActive, fetch, shown>>
Restart ==
  /\ Fault
  /\ subs' = [i \in Sockets |-> {}] /\ cursor' = [m \in Markets |-> 0]
  /\ ticks' = [m \in Markets |-> [k \in 1..Overlap |-> Idle]]
  /\ cast' = [m \in Markets |-> [n \in 1..MaxChanges |-> 0]]
  /\ sock' = [i \in Sockets |-> IF sock[i] = "none" THEN "none" ELSE "closing"]
  /\ ws' = NoSocket                                  \* readyState is not OPEN: the same as no socket
  /\ UNCHANGED <<data, fills, timer, isDestroyed, channels, view, wsActive, fetch, shown>>

Next ==
  \/ \E m \in Markets : Change(m) \/ Enter(m) \/ Switch(m)
  \/ Leave \/ Hide \/ OnVisible \/ Reconnect \/ Restart
  \/ Poll \/ Answered \/ Unanswered
  \/ \E i \in Sockets : OnOpen(i) \/ Closed(i) \/ Lost(i)
  \/ \E m \in Markets, k \in 1..Overlap : Tick(m, k) \/ SendBook(m, k) \/ SendTrades(m, k) \/ FailTick(m, k)

(* Timers fire, requests and connection attempts end, the server ticks, and a hidden tab is shown again. *)
Fairness ==
  /\ WF_vars(Reconnect) /\ WF_vars(OnVisible) /\ WF_vars(Poll) /\ WF_vars(Answered)
  /\ \A i \in Sockets : WF_vars(OnOpen(i)) /\ WF_vars(Closed(i))
  /\ \A m \in Markets, k \in 1..Overlap :
       WF_vars(Tick(m, k)) /\ WF_vars(SendBook(m, k)) /\ WF_vars(SendTrades(m, k))
Spec == Init /\ [][Next]_vars /\ Fairness
----------------------------------------------------------------------------
(* The module's socket is one that is being opened or open, and no reconnect is pending after a disconnect. *)
TypeOK ==
  /\ ws \in {NoSocket} \cup {i \in Sockets : sock[i] \in {"connecting", "open"}}
  /\ sock \in [Sockets -> {"none", "connecting", "open", "closing"}]
  /\ timer => ~isDestroyed
  /\ subs \in [Sockets -> SUBSET Markets] /\ channels \subseteq Markets /\ market \in Markets
  /\ \A m \in Markets : shown[m].trades \subseteq DOMAIN fills[m] /\ shown[m].book <= data[m]

(* Overlapping ticks read the same fills, and yet a server process broadcasts each fill at most once: the   *)
(* cursor is read and moved in one turn of the event loop, after the query.                                 *)
BroadcastOnce == \A m \in Markets, n \in 1..MaxChanges : cast[m][n] <= 1

(* After a change of market neither a late answer nor a socket left open writes what belongs to another market. *)
MarketKept == [][\A m \in Markets : m # market' => shown'[m] = shown[m]]_vars

(* Whatever was lost, late or left open: when the market is quiet its page comes to show its book, streamed or *)
(* polled, and goes on showing it.                                                                               *)
DisplayConverges == \A m \in Markets : <>[](mounted /\ market = m) => <>[](shown[m].book = data[m])
=============================================================================
