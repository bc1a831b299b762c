----------------------------- MODULE PriceFeed ------------------------------
(***************************************************************************)
(* The price feed (engine/pricefeed/manager.go), and what its callback in  *)
(* svc/service_context.go does with a price.                               *)
(*                                                                         *)
(* One goroutine dials the price source, reads its messages, and takes     *)
(* every trade in them through the price cache, the mark price, the        *)
(* klines and the risk monitor before it looks at the next.  When the      *)
(* connection ends it waits and dials again.  Another goroutine fetches    *)
(* the spot price.  StopEngines ends both, from outside: it closes a       *)
(* channel and then the connection, which need not be there yet, or may be *)
(* the one before.                                                         *)
(*                                                                         *)
(* The monitor itself is in Liquidation, the hub that broadcasts the       *)
(* ticker in Hub.                                                          *)
(***************************************************************************)
EXTENDS Klines, MarkPrice

CONSTANTS
  Prices,       \* futures prices
  SpotPrices,   \* spot prices
  Jumps,        \* by how much the time of a trade differs from the last one's
  FirstTime,    \* time of the first trade
  MaxBatch,     \* bound: trades in a message
  MaxTicks,     \* bound: trades in all
  MaxFetches    \* bound: spot prices fetched

ASSUME PriceAssumption == Prices \cup SpotPrices \subseteq Nat \ {0}
ASSUME TimeAssumption  == Jumps \subseteq Int /\ FirstTime \in Nat

VARIABLES
  feed,    \* the feed's goroutine: where it is, and trades in hand
  conn,    \* the connection the goroutine uses: whether it is open, and whether
           \* it is the one the manager knows
  ticker,  \* cache/price_cache.go: price, high, low
  stop,    \* how far StopEngines has got
  spot     \* the loop that fetches the spot price: running, fetches so far

connection == <<feed, conn>>
vars == <<klines, pricing, connection, ticker, stop, spot>>

Init ==
  /\ KlineInit
  /\ MarkInit
  /\ feed   = [pc |-> "connect", trades |-> 0]
  /\ conn   = [open |-> FALSE, known |-> FALSE]
  /\ ticker = [price |-> 0, high |-> 0, low |-> 0]
  /\ stop   = "no"
  /\ spot   = [running |-> TRUE, fetches |-> 0]

Done == stop # "no"   \* the channel is closed

-----------------------------------------------------------------------------
(* connectLoop and connectAndListen.                                        *)

Goto(pc) == feed' = [feed EXCEPT !.pc = pc]

\* connectLoop looks at the channel before it dials.
Connect ==
  /\ feed.pc = "connect"
  /\ Goto(IF Done THEN "ended" ELSE "dial")
  /\ UNCHANGED <<klines, pricing, conn, ticker, stop, spot>>

\* An error ends connectAndListen, which closes what it has opened.  The next
\* attempt comes after a delay that grows with each error, up to a limit.
Fail ==
  /\ Goto("wait")
  /\ conn' = [conn EXCEPT !.open = FALSE]

Dial ==
  /\ feed.pc = "dial"
  /\ \/ /\ Goto("dialled")
        /\ conn' = [open |-> TRUE, known |-> FALSE]
     \/ Fail
  /\ UNCHANGED <<klines, pricing, ticker, stop, spot>>

\* The manager learns of the connection.
Know ==
  /\ feed.pc = "dialled"
  /\ conn' = [conn EXCEPT !.known = TRUE]
  /\ Goto("subscribe")
  /\ UNCHANGED <<klines, pricing, ticker, stop, spot>>

Subscribe ==
  /\ feed.pc = "subscribe"
  /\ \/ conn.open /\ Goto("listen") /\ UNCHANGED conn
     \/ Fail
  /\ UNCHANGED <<klines, pricing, ticker, stop, spot>>

\* Mistake: the channel is only looked at before dialling.
ListenOn ==
  /\ feed.pc = "listen"
  /\ Goto("read") /\ UNCHANGED conn
  /\ UNCHANGED <<klines, pricing, ticker, stop, spot>>

\* Before each message.  To be stopped is the only way to return without an
\* error, so the delay grows from the first connection to the last.
Listen ==
  /\ feed.pc = "listen"
  /\ IF Done
     THEN /\ Goto("connect")
          /\ conn' = [conn EXCEPT !.open = FALSE]
     ELSE Goto("read") /\ UNCHANGED conn
  /\ UNCHANGED <<klines, pricing, ticker, stop, spot>>

\* A message with some trades, if any come.
Message ==
  /\ feed.pc = "read" /\ conn.open
  /\ \E n \in 0 .. MaxBatch : feed' = [feed EXCEPT !.pc = "message", !.trades = n]
  /\ UNCHANGED <<klines, pricing, conn, ticker, stop, spot>>

\* The other side closes, or nothing comes for pongTimeout.
Lose ==
  /\ feed.pc = "read" /\ conn.open
  /\ Fail
  /\ UNCHANGED <<klines, pricing, ticker, stop, spot>>

\* The connection was closed under the reader.
ReadClosed ==
  /\ feed.pc = "read" /\ ~conn.open
  /\ Goto("wait")
  /\ UNCHANGED <<klines, pricing, conn, ticker, stop, spot>>

\* The delay, or the end of it.
Wait ==
  /\ feed.pc = "wait"
  /\ \/ Goto("connect")
     \/ Done /\ Goto("ended")
  /\ UNCHANGED <<klines, pricing, conn, ticker, stop, spot>>

-----------------------------------------------------------------------------
(* handleMessage: one trade after the other.                                *)

MessageEnds ==
  /\ feed.pc = "message" /\ feed.trades = 0
  /\ Goto("listen")
  /\ UNCHANGED <<klines, pricing, conn, ticker, stop, spot>>

\* A price that does not parse is passed over.
PassOver ==
  /\ feed.pc = "message" /\ feed.trades > 0
  /\ feed' = [feed EXCEPT !.trades = @ - 1]
  /\ UNCHANGED <<klines, pricing, conn, ticker, stop, spot>>

\* PriceCache.SetPrice
SetPrice(price) ==
  ticker' = [price |-> price,
             high  |-> IF ticker.high = 0 THEN price ELSE Higher(ticker.high, price),
             low   |-> IF ticker.low = 0 THEN price ELSE Lower(ticker.low, price)]

TakeTrade ==
  /\ feed.pc = "message" /\ feed.trades > 0
  /\ Len(ticks) < MaxTicks
  /\ \E price \in Prices : SetPrice(price)
  /\ feed' = [feed EXCEPT !.pc = "mark", !.trades = @ - 1]
  /\ UNCHANGED <<klines, pricing, conn, stop, spot>>

\* The callback: mark price, klines, monitor, and every now and then a broadcast.
TellMarkPrice ==
  /\ feed.pc = "mark"
  /\ UpdateLastPrice(ticker.price)
  /\ Goto("klines")
  /\ UNCHANGED <<klines, conn, ticker, stop, spot>>

Times == IF ticks = <<>> THEN {FirstTime}
         ELSE {t \in {ticks[Len(ticks)].ts + d : d \in Jumps} : t >= 0}

TellKlines ==
  /\ feed.pc = "klines"
  /\ \E ts \in Times : OnTrade(ticker.price, ts)
  /\ Goto("bars")
  /\ UNCHANGED <<pricing, conn, ticker, stop, spot>>

FillBars ==
  /\ feed.pc = "bars"
  /\ FillGap \/ PlaceBar
  /\ UNCHANGED <<pricing, connection, ticker, stop, spot>>

TellMonitor ==
  /\ feed.pc = "bars" /\ fill.pc = "idle"
  /\ Goto("message")
  /\ UNCHANGED <<klines, pricing, conn, ticker, stop, spot>>

-----------------------------------------------------------------------------
\* fetchLoop of the mark price engine.
FetchSpotPrice ==
  /\ spot.running
  /\ spot.fetches < MaxFetches
  /\ \E price \in SpotPrices : UpdateIndexPrice(price)
  /\ spot' = [spot EXCEPT !.fetches = @ + 1]
  /\ UNCHANGED <<klines, connection, ticker, stop>>

EndFetching ==
  /\ spot.running
  /\ stop = "all"
  /\ spot' = [spot EXCEPT !.running = FALSE]
  /\ UNCHANGED <<klines, pricing, connection, ticker, stop>>

\* StopEngines: Manager.Stop in two steps, then Engine.Stop of the mark price.
StopFeed ==
  /\ stop = "no"
  /\ stop' = "done"
  /\ UNCHANGED <<klines, pricing, connection, ticker, spot>>

CloseKnown ==
  /\ stop = "done"
  /\ stop' = "closed"
  /\ conn' = [conn EXCEPT !.open = @ /\ ~conn.known]
  /\ UNCHANGED <<klines, pricing, feed, ticker, spot>>

StopFetching ==
  /\ stop = "closed"
  /\ stop' = "all"
  /\ UNCHANGED <<klines, pricing, connection, ticker, spot>>

-----------------------------------------------------------------------------
\* What the goroutine does on its own account, once it is not left waiting for
\* the other side.
FeedStep ==
  \/ Connect \/ Dial \/ Know \/ Subscribe \/ Listen \/ ReadClosed \/ Wait
  \/ MessageEnds \/ PassOver \/ TakeTrade \/ TellMarkPrice \/ TellKlines \/ FillBars
  \/ TellMonitor

Next ==
  \/ FeedStep
  \/ Message
  \/ Lose
  \/ FetchSpotPrice
  \/ EndFetching
  \/ StopFeed
  \/ CloseKnown
  \/ StopFetching

Fairness ==
  /\ WF_vars(FeedStep)
  /\ WF_vars(EndFetching)
  /\ WF_vars(CloseKnown)
  /\ WF_vars(StopFetching)

Spec == Init /\ [][Next]_vars /\ Fairness

-----------------------------------------------------------------------------
\* The interfaces for the price, the mark price and the klines read three stores
\* one after the other.  Between trades these agree on the last price, and the
\* range of the ticker covers every bar.
StoresAgree ==
  feed.pc \notin {"mark", "klines", "bars"} /\ ticks # <<>> =>
    /\ prices.last = ticker.price
    /\ \A l \in Levels :
         /\ current[l].close = ticker.price
         /\ \A n \in DOMAIN Chart(l) :
              ticker.low <= Chart(l)[n].low /\ Chart(l)[n].high <= ticker.high

\* Wherever Stop finds the goroutine, it ends, and so does the spot price's.
StopEnds == stop # "no" ~> feed.pc = "ended" /\ ~spot.running

=============================================================================
