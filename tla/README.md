# Specifications of the LearnFuture trading engine

LearnFuture is a perpetual-futures simulator: users trade a contract with
leverage against each other and against a market maker, at prices fed from an
exchange. Everything that decides who owns what happens in memory, in one Go
process: an order book, a position engine, a risk engine, a funding scheduler and an
asynchronous settler that writes to PostgreSQL; a price feed drives it and a websocket
hub tells users about it. These modules specify that process, check it with
TLC and prove part of it with TLAPS. Paths below are relative to
`internal/` unless they start elsewhere.

## The system

Goroutines: one per HTTP request; the market maker's ticker; the price feed, whose
callback runs the risk monitor; the settler's worker; the funding scheduler; the
websocket hub; the daily reconciliation.
There is no lock over a whole operation. Each structure has its own (`Book.mu`, `AccountCache.mu`,
`Engine.mu`, the `sync.Map` of the position cache), and an operation takes them
one after the other, so operations interleave between any two of them.

| Component | State | Operations | Talks to |
|---|---|---|---|
| Order book, `engine/orderbook` | bids, asks (levels with queues and totals), index by ID, ID counter | `PlaceLimit`, `PlaceMarket`, `Cancel`, `NextOrderID` | called by engine, market maker, liquidation engine |
| Matching engine, `engine/trading/engine.go`, `position_update.go` | position ID counter; writes accounts, positions, order cache | `PlaceMarketOrder`, `PlaceLimitOrder`, `CancelOrder`, `ClosePosition(Internal)`, `ProcessTrades`, `UpdatePosition` | book, accounts, both caches, clearing, settler |
| Accounts, `cache/account_cache.go` | balance and frozen amount by user | `Deduct`, `Freeze`, `Unfreeze`, `ReturnMarginWithPnl`, `AddPnl`, `Reset` | engine, funding, account reset |
| Position cache, `cache/position_cache.go` | open positions and their state (Active, Closing, ForceTPing) | `Add`, `Remove`, `Update`, `FindOpposite`, `FindSameDir`, `TrySetState` | engine, monitor, liquidation, ADL, funding |
| Order cache, `cache/order_cache.go` | pending limit orders, what they froze, their leverage | `Add`, `Remove`, `Get` | engine |
| Clearing, `engine/clearing/clearance.go`, `engine/position`, `engine/fee` | none | margin, fee, profit, weighted entry, risk prices | engine, monitor, funding |
| Market maker, `engine/marketmaker` | its order IDs, last price quoted | `tick` | book, engine (`onTrades`) |
| Risk monitor, `engine/trading/monitor.go` | a list of positions during a call | `OnPriceUpdate` | liquidation engine, fund, ADL, engine |
| Liquidation engine, `engine/trading/liquidation_engine.go` | time of the last disposal | `TakeOver`, `OnTick` | book, engine, fund |
| Insurance fund, `engine/insurance`; ADL, `engine/adl` | a balance; none | `Contribute`, `Cover`; `RankPositions`, `ExecuteADL` | monitor, liquidation engine |
| Mark price, `engine/markprice` | last price, spot price, average of the basis | `UpdateLastPrice`, `UpdateIndexPrice`, `fetchLoop` | price feed, monitor |
| Settler, `engine/clearing/settler.go`, `model/` | queue of events; the database | `Submit`, the worker, `Stop` | engine, funding |
| Service, `svc` | wiring, ID counters | `LoadCachesFromDB`, `StopEngines` | all |
| Funding, `engine/funding` | current rate | `settle`, `settlePosition` | accounts, positions, database |
| Price feed, `engine/pricefeed/manager.go`, `cache/price_cache.go` | its connection; price, high and low | `connectLoop`, `handleMessage`, `Stop` | mark price, klines, monitor, hub, by its callback |
| Klines, `engine/pricefeed/kline_aggregator.go` | open and closed bars of each interval | `OnTrade` | price feed, database |
| Websocket hub, `ws` | client by user, a channel for each | `Run`, `Broadcast`, `SendToUser`, two pumps per connection | feed, monitor, funding, engine |
| Reconciliation, `engine/reconcile` | none | a daily comparison and a mail | accounts, database |
| Handlers, logic, login, tutorial, leaderboard, clients | sessions, texts | requests | engine |

What is hard here, and what each part has to keep:

* **Book**: levels, index and totals are three views of one set of orders, kept in
  step by hand. Sorted levels, no crossed book, exact totals, price-time priority,
  an order that is gone stays gone, every call returns.
* **Engine**: an operation is a chain of locked steps with failure exits in
  between, run by many threads. Positions follow trades; longs equal
  shorts; money is conserved; what is frozen can be got back; a position is closed
  by one close at a time, and each close ends.
* **Market maker**: it trades before its own trades are processed; it must never
  lose track of a quote.
* **Risk engine**: it works on pointers to positions that other threads change and remove.
  Takeover, disposal and deleveraging keep the balance of quantities; a disposal
  order never stays in the book.
* **Settlement and restart**: memory moves first and the database follows by a queue, whose
  events may be refused, rolled back, settled by two consumers or lost.
  What was settled agrees with memory, IDs are never given out twice, an event is refused only where
  two requests race, a restart keeps what was persisted.
* **Funding**: it goes over a list of positions with three database statements each, outside
  the engine lock but for the last part, and starts a position over when a statement fails. Each position is
  charged once, money is accounted for whatever trades come between, memory and
  database agree, longs pay what shorts get, and a settlement ends.
* **Hub**: `Run` closes channels that others send on. No send on a closed channel; an older
  connection of a user never puts out the newer; nobody stays behind who has left.
* **Price feed, klines, mark price**: bars are kept by two mechanisms (the bar below closing, and the ticks
  themselves) and must be what the ticks say; the mark price must not run away from spot; a stop
  from outside must end a goroutine wherever it is.

`PROJECT.json` lists each hazard at its line, with the properties aimed at it.

## The modules

| Module | What it is |
|---|---|
| `PriceTimePriority` | what an order book promises: a set of resting orders, of which a taker meets the best and then the oldest |
| `OrderBook` | the book as coded: slices of levels, queues, totals, index; implements `PriceTimePriority` |
| `OrderBookProofs` | TLAPS proofs about `OrderBook`, and that it implements `PriceTimePriority` |
| `Clearing` | margin, fee, profit and risk prices as operators |
| `Positions` | accounts, position cache and `UpdatePosition` on one record `mem` |
| `Trading` | handlers, `ProcessTrades` and market maker as threads over `Positions` and a book |
| `CollectionProofs` | lemmas on sequences, finite sets and sums, for the other proofs |
| `PositionProofs` | TLAPS proofs about `UpdatePosition` and all it calls |
| `Liquidation` | the risk engine on the feed's goroutine, extending `Trading` |
| `Events` | what `UpdatePosition` submits for one leg of a trade, and what that does to the tables |
| `Settlement` | the settler's queue and transactions, the tables it writes, the reset of an account, shutdown, crash and restart, extending `Trading` and `Events` |
| `TradingProofs` | TLAPS proofs about `Trading` and `Liquidation` |
| `SettlementProofs` | TLAPS proofs about `Settlement` |
| `Funding` | a settlement of the funding scheduler between trades, takeovers, closes and the worker, extending `Events` |
| `FundingProofs` | TLAPS proofs about `Funding` |
| `Hub` | `Hub.Run`, the pumps of each connection, and those who send |
| `HubProofs` | TLAPS proofs about `Hub` |
| `Klines` | the aggregator, for any nested levels |
| `MarkPrice` | the mark price and its average |
| `PriceFeed` | the feed's goroutine with its connection, its callback, the spot price and `StopEngines`; composes `Klines` and `MarkPrice` |
| `PriceFeedProofs` | TLAPS proofs about `Klines`, `MarkPrice` and how `PriceFeed` implements them |
| `MCTrading`, `MCLiquidation`, `MCSettlement`, `MCFunding`, `MCHub`, `MCPriceFeed`, `MCMarkPrice` | instances for TLC |

`Trading` uses the book as the promise `OrderBook` is shown to keep (a side is a
sequence in priority order, and a whole matching call is one step, because it is
one critical section of `Book.mu`). Definitions called *Mistake* are variants of
a definition with a bug in it; with the variant in its place a property must fail,
which `PROJECT.json` lists under `mutants`.

### OrderBook

Variables are the fields of `Book`; `order` holds the `Order` objects (`qty` is what remains),
`taker` the order whose call has the mutex, `trades` is history. `NewOrder` is
`NextOrderID` and the construction of the order, outside the lock, so orders enter in any
order of their IDs; `Place` takes the mutex; `Match` is one turn of the loop of
`matchAgainst`; `Rest` and `Return` end the call; `Cancel` is one step, being one
critical section without a loop over trades. The code reads `time.Now()` in the
placement; `clock` counts placements.

### Positions and Trading

`mem.bal`, `mem.frozen` are `MemAccount`; `mem.pos` is the cache; `mem.lastPos` is
`nextPosID`. `UpdatePosition` returns the set of states a call may lead to: the
cache is a `sync.Map`, whose iteration order Go leaves open, so `FindOpposite`
and `FindSameDir` choose any match. Histories (`bought`, `paid`, `fees`, `lost`,
and `matched` in `Trading`) exist to state what must be conserved.

A thread's `calls[t].pc` names the lock it takes next:

| Code | Steps |
|---|---|
| `PlaceMarketOrder` | `PlaceMarketOrder` (checks, ID), `MatchMarket`, `ApplyLeg` per side of each trade |
| `PlaceLimitOrder` | `PlaceLimitOrder` (checks, freeze, ID), `MatchLimit`, then `UnfreezeFilled` and `ApplyLeg`s, or `Register` |
| `CancelOrder` | `CancelOrder` (reads the order cache), `CancelInBook`, `UnfreezeCancelled`, `Uncache` |
| `ClosePosition`, `executeClose` | `ClosePosition` (`TrySetState`), `MatchClose`, then `Reopen` or `ApplyLeg`s; `RefuseClose` and `Reopen` when more is asked for than the position has, since the state is Closing in between |
| market maker `tick` | `Tick`, `CancelQuote` per quote, `PlaceQuote` twice, `ApplyLeg`s |

### Liquidation

The feed's goroutine is the thread `Feeder`. `watch` has the local variables of the function it is
in; `snap` is the slice of pointers it has still to visit, with the contents those
pointers show now (a position removed from the cache keeps its last contents).

| Code | Steps |
|---|---|
| price callback | `NewPrice`; `Scan` (`GetAll`); per position `PassOver`, `ForceTakeProfit`, `Liquidate` |
| `handleLiquidation` | `Liquidate` (`TakeOver`'s check and synthetic trade), `ApplyLeg`s, `CoverDeficit` |
| `triggerADL` | `Rank`, `Deleverage` per result |
| `OnTick` | `NothingDue` or `StartDisposal`; per position `Dispose`, `CancelRemaining`, `ApplyLeg`s, `Settle` |

### Settlement

`queue` is the channel, `hand` what each of its two consumers (the worker, and `Stop`'s own
loop) has received, `db` the tables. Each step of a handler is the step of `Trading` together with
what it submits; only `submitOrder` of a resting order is a step of its own (`SubmitResting`, then
`RegisterSent`), since trades of that order can come before it.

| Code | Steps |
|---|---|
| `submitOrder`, `Submit` | `SubmitFilled` (with the match, or the unfreezing after it), `SubmitResting`, `SubmitCancel`; it waits while the channel is full |
| `UpdatePosition` and its events | `SubmitTrade` |
| `processLoop`, `processEvent` | `TakeEvent`, then `Settle`, or `Fail` when the database does |
| `StopEngines`, `Settler.Stop` | `Stop` (no request is left: `server.Start` returns after the last one), `TakeEvent(Main)`, `Halt` |
| the next process: `LoadCachesFromDB` | `Reload`, after `Halt` or `Crash` |
| `AccountLogic.Reset` | `CheckReset` (no position, no order), `ResetRow`, `ResetMemory`; anything may come in between |

`SubmitFilled` joins the submission of a filled order to the step before it: nobody else can
tell its order from another in between, except by the place it gets in the queue, and the trades of
that order follow it in the same thread. The two events of a reduction that turns a position
around are submitted under one `Engine.mu`, hence a buffer of at least two.

`Accepts` are the constraints of `scripts/init_db.sql` and the check of `CancelTx`; an event that is refused is
rolled back and gone. Three histories say where memory and database are known to differ:
`apart`, users of whom an event was rolled back; `merged`, positions that `handleIncrease`
changed without writing quantity and entry (`position_update.go:141`); `shortBy`, what was
frozen at the last load, which the loaded account subtracts a second time
(`service_context.go:407`, shown by the run `restart`). All three start afresh with a restart, whose memory comes
from the tables. A fourth does not: `mixed`, users whose account was reset while something of theirs was
under way, in the queue or open (see the exceptions below).

### Funding

`sched` has the program counter and local variables of the scheduler's goroutine, `listed` is
`allPositions`: pointers that show the position as it is now, or as it was when it was removed.

| Code | Steps |
|---|---|
| `settle` up to `GetAll` (`scheduler.go:106-137`) | `Begin(rate)`, or `Skip` without a rate or when `CreateRate` fails |
| the market maker's branch (138-148), without lock and database | `SettleSystem` (the payment), `CreditSystem` (`AddPnl`), `ReadSystem` and `WriteSystem` (`Update`, which reads and then writes `FundingPnl`); `WriteSystemInTrade` when the write falls between the read and the write of `handleReduce` (`position_update.go:162`, `:181`) |
| `settlePosition`: `CreateSettlement`, `UpdateFundingPnl` (163-179) | `CreateSettlement`, which fixes the payment, and `UpdateFundingPnl` |
| the part under `Engine.mu` (181-206) | `ChargeBalance`; `ChargeMargin` or `ChargeMarginFails` when the balance is too small |
| a statement that fails, and the retry (150-157) | `StartOver` |

The rest of the system is `Trade` and `ApplyLeg` (both sides of a match, one after the other), `TakeOver`,
`BeginClose`, `Reopen`, and the worker, `Persist`. The row of a funding settlement refers to the position in the
database, so `CreateSettlement` fails for a position without a row. Histories: `charged`, how often
this settlement charged each position; `sums`, what has been settled, what of it
neither balance nor margin could bear, what `AddPnl` added to end at zero (`clamped`, `account_cache.go:125`), what fell on positions no longer cached,
and what a `FundingPnl` lacks because two wrote it at once (`overwritten`); `calm`,
nothing has come between; `apart`, users and positions whose rows took another way (an event rolled back, half of
an insufficient-balance charge, a merge that was not written).

### Hub

`clients` is the `sync.Map`; `run` has where `Run` is with its local variables; `reader` and `writer` are the two
pumps. The removal of a client from the map and the `close` of its channel are two steps
(`TakeRegister`, `TakeUnregister` or `Offer`, then `CloseVictim`), and so are `LoadAndDelete` and `Store`
of a registration. `SendToUser` is `LoadClient` and `SendLoaded`. Messages are counted, not kept. A
goroutine that closes a closed channel or sends on one is in `panicked`, after which nothing moves.

### Klines, MarkPrice, PriceFeed

The lowest level is `1s`, each next one the `Parent` of the one before. `OnTradeHere` is a tick in the
second of the last; `OnTradeLater` closes the bar, `FillGap` is one turn of the loop over missing
seconds, `PlaceBar` opens the new bar. The recursion of `closeAndCascade` is `Closing`, the levels it reaches, since
what it does to a level depends only on the level below. `updateAncestors` follows in the same step, all
under one mutex.

| Code | Steps |
|---|---|
| `connectLoop`, `connectAndListen` | `Connect`, `Dial`, `Know` (`m.conn` is set), `Subscribe`, `Listen` (the look at `done`), `Message`, `Lose` or `ReadClosed`, `Wait` |
| `handleMessage` | per trade `PassOver`, or `TakeTrade` (`SetPrice`) and the callback; `MessageEnds` |
| the callback (`service_context.go:212`) | `TellMarkPrice`, `TellKlines`, `FillBars`, `TellMonitor` |
| `fetchLoop` | `FetchSpotPrice`, `EndFetching` |
| `StopEngines` | `StopFeed` (`close(done)`), `CloseKnown` (`m.conn.Close`), `StopFetching` |

### What is abstracted

* Decimals are integers in a unit in which every division of an instance is even
  (144, 216, 76, 36 with leverage 2 and fees of 1/24 and 1/12). Rounding of long
  decimals is not modelled.
* A market order is given by the quantity its margin buys at the current price.
  The lookup of a maker's leverage is part of the `UpdatePosition` it is for.
* `Engine.closeReason` is the manual one in every call the engine makes; its
  other branches in `handleReduce` are not reached from there.
* `Trading` and `Liquidation` leave out the events for the settler: no step of the engine reads them back. In
  `Settlement` the market maker and the feed stay still, so there is one price and no risk engine. In `Funding`
  users trade with the market maker and are taken over at one price; which orders led to a trade does not matter there.
* Rows of trades are kept only as references to orders and positions that must exist; total
  profit is not kept. IDs of positions start from 0 instead of 100000.
* The market maker has one level per side instead of its ladder, and any change of
  price passes its threshold.
* A refused request changes nothing and is not a step, but for a close of more than there is (`RefuseClose`) and one without liquidity (`Reopen`).
* `TakeOver` reads the fields of a position in one step. Fields are Go strings
  written under `Engine.mu` and read without it; torn reads are not modelled.
* In `Liquidation` the mark price is any price the feed has delivered last or before, standing for the
  average that `MarkPrice` has. Cross margin, which no position of the engine has, and take-profit
  and stop-loss set by users are not there.
* In `MarkPrice` a basis is a whole number of `Unit`s, rounded down; the code divides to 16 places and then keeps
  every digit. Funding uses the last price (`scheduler.go:118`), although
  `docs/architecture_en.md:491` says mark price.
* Liquidation and take-profit prices of a position are functions of its entry and leverage where they are needed; that funding
  moves the cached liquidation price (`scheduler.go:239`) is left out of `Funding`, which does not read it.
* Funding rates are 1 and -1, so that a payment is the value of a position: the sign and who cannot pay matter, not the size.
* Volumes of klines are left out, the feed never passes one. `truncateToInterval` is a multiple of the length since time 0;
  for `1d` the code takes local midnight (`kline_aggregator.go:278`), which is no multiple of the `4h` below it unless the server runs on UTC.
* The delay before a new connection is left out. It grows with each error and is never reset, as `connectAndListen`
  returns without one only when it is stopped (`manager.go:83-86`).
* The hub's pings and deadlines are the steps that fail for no other reason (`ReadTimesOut`, `WriteEnds`).
* `ExecuteADL`'s cap of the settlement price is dead: `RankPositions` lets only
  positions through that profit at the bankruptcy price.

## The runs

Passing runs:

| Run | Instance | Shows |
|---|---|---|
| `book` | 3 orders, 2 prices and market, quantities 1 and 2 | the shape of the book (`LevelsSorted`, `LevelsHoldTheirOrders` with the totals, `IndexMatchesQueues`), `Uncrossed`, `TradesWithinLimits`, that a gone order stays gone, that the book implements `PriceTimePriority` (`KeepsPriority`), and that each call ends (`CallsFinish`) |
| `handlers` | 2 threads, 2 users, 4 calls, no market maker | positions follow trades (less what `PlaceLimitOrder` and a failed `Deduct` are known to drop), frozen money belongs to a cached order or a running call, an order in the book can be cancelled |
| `bot` | 1 thread, 2 users, 3 calls, 2 ticks, 2 prices | with a market maker: money conserved per user, margins in proportion through merges, partial closes and reversals; every quote in the book is tracked |
| `risk` | 1 thread, 2 users, 3 calls, prices 144, 76, 36 | takeover, forced take-profit, deleveraging and disposal between the handlers' steps: quantities out of balance by deleveraging alone, money conserved, no disposal order left behind |
| `settlement` | 2 threads, 2 users, 4 calls, a channel of 2, 1 failing transaction, 1 restart, 1 reset | for a user of whom nothing is under way or was rolled back, and whose account was not reset in the middle of something, balances, positions and pending orders in the database are those of memory (`BalancesBackedUp`, `PositionsBackedUp`, `OrdersBackedUp`); no ID is inserted twice, whatever was lost (`KeysFresh`); the first event of a user to be refused is a second cancel, or a trade that came before its resting order (`RefusedOnlyByRace`) |
| `funding` | 1 user, market maker, liquidation engine, 3 trades, 2 settlements of opposite rates, 1 failing statement | `ChargedOnce`; `FundingAccounted`: beside prices and fees, money changes by the payments, less what could not be borne, plus what closes realize a second time, what `AddPnl` clamps, and what of the market maker's is written over; `FundingBackedUp`: memory has what the database has and what was clamped in memory alone; `FundingBalanced` for a settlement nothing came between; `EndsUnlessBlocked`: only a position that has no row and never will keeps a settlement from ending |
| `hub` | 2 users, one connecting twice, channels of 1, a queue of 1, 1 sender | `RunNeverPanics`, `RegisteredOpen`, `OwnReasonToLeave`, `NoGaps` (a client gets every broadcast from its registration until it is out), `NoLeak` (a connection that has ended is cleared away: both pumps gone, channel closed) |
| `feed` | 4 trades, 3 levels of 1, 2 and 4 seconds, steps of time -2, 0, 1, 4 and 6, 1 spot price, lost connections, a stop | `BarsMatchTicks`: while ticks come in order, each bar, cached or saved, is that of its ticks, none twice and none missing but for a gap too long to fill; `Continuous`, also with late ticks; `MarkWithinSeen`; `StoresAgree` whenever no trade is being delivered (readers in the middle of one see some stores told and others not); `StopEnds`: a stop during the dial, the subscription, a read, a message or the wait ends both goroutines |

Bounds. Three orders are enough for a taker to meet two levels or two orders of one level, and for
a cancel in the middle of it. Two threads race
in every pair of operations; a third adds no new pair, and no step relates three
calls. Two users are enough for one to be maker, taker and counterparty of
the other. Four calls allow open, rest, close and cancel in one behaviour. The market maker's
second tick finds quotes from the first, hit or not, at another price. The three
prices take a long at twofold leverage first past its liquidation price and then past its
bankruptcy price, and the opposite short past its forced take-profit; the fund
of 216 covers part of the deficit, so that cover, deleveraging and disposal all occur.
Of `settlement`, the constraint `Roles` of `MCSettlement` keeps those behaviours in which a limit buy of
two meets a market sale of two, wholly or in parts, and later calls unwind what came of it or cancel; every pair of
an order and a cancel or close can still race in its second half, and the call left after a restart draws new IDs. The account of
the second user is reset once: between calls before the third, which may then come between its steps, or at the end after a restart, when
it sets right what the restart subtracted twice. A
channel of two is full as soon as a reversal is under way.
Of `funding`: with 36 at the start the user can pay for a position of one but not for one of two, so that both ways of
charging occur, and his margin, too, may be used up; two settlements suffice since what one leaves behind is in the balances and margins.
The third trade comes during a settlement, so that the second and third open, merge, reduce, close, turn around or are taken
over under it. Of `hub`: two connections are the least for a replacement, channels
of one are full after one message, and the other user is there to be in the range of a broadcast; his connection lasts (`OneLasts`), as that of the first
goes through everything. Of `feed`: the steps of time stay in the second, go to the next, leave three seconds
missing (filled), five (too many for `MaxGap`), or go back over a period of the second level; four trades fill, close and
leave a period of the highest level. The constraint `Calmer` has the lost connection, the spot price and the stop before the second trade;
after the stop connections may be lost as before. So `StopEnds` is checked for a stop at each step of the goroutine, but not after longer sequences of ticks.
Users and threads are interchangeable in the runs of `Trading` and `Liquidation` (no property names one), hence the symmetry; the `book` run, which checks
liveness, uses none. Deadlock is not checked since all instances stop
when their bounds are used up.

Runs that must find a violation, each a disagreement between the code and what the
repository says (quoted in `PROJECT.json`, `findings`):

| Run | Statement | What happens |
|---|---|---|
| `double_close` | `TrySetState` prevents double closes (`cache/position_cache.go:153`) | a fill that takes only part of a position stores Active, whoever's order it is: in the run a market order of the same user, matched before, is applied while a close waits to match; a second `ClosePosition` passes `TrySetState`, together they sell more than is left, and the rest opens a position the other way |
| `restart` | a restart loses nothing (`docs/architecture_en.md:84`) | what pending orders freeze is subtracted twice from what the user can spend |
| `hub_closed` | a newer connection closes the older one of the same user (`ws/hub.go:26`), and no more | `SendToUser` has loaded the client of the older connection, which is still read; the registration of the newer makes `Run` close its channel, and the send on it panics, on a goroutine where nothing recovers |
| `crash` | the mark price does not follow a crash of the futures price alone (`docs/architecture_en.md:496`) | the average moves with each trade: eighteen trades at 54000 take the mark price below 55000 with spot at 60000 |

`double_close` runs under `RolesSpec` of `MCTrading`, where one user trades at market and the other with limits. It only
removes behaviours, so what it finds the full specification has too; no passing run uses it.

More disagreements are within what the passing properties state as exceptions, each behaviour of the models:

* A trade may lack a side: `handleOpen` gives up when `Deduct` fails, after the match and
  after the other side (`position_update.go:68`; `README_EN.md:30` says ∑longs ≡ ∑shorts). `mem.lost` counts it.
* A maker's fill releases nothing of what his limit order froze, until he cancels the order that is
  no longer there (`position_update.go:67`; `docs/architecture_en.md:379` draws a release on fill). Hence `FrozenReclaimable` speaks of cached orders, not of resting ones.
* A close may reduce another position of the user of the same side, and its own stays Closing for ever (`position_cache.go:105`, `engine.go:375`).
* Deleveraging reduces one side only, so longs and shorts differ afterwards (`monitor.go:304`, although `monitor.go:328` calls equality an invariant). `adlNet` counts it.
* `TakeOver` checks the state, and a fill may still close the position before its trade, which then opens one the other way (`liquidation_engine.go:73-76`).
* The reset of an account is three steps without a lock, and looks for positions and orders in the first only
  (`account_logic.go:49-67`). An order placed before the row is written, or a cancel whose event is still in the queue, is
  released on top of the new balance: the user then has more in the database than what he was given, for good. `mixed` has these users.
* A settlement of funding comes to a stop for ever at a position without a row: each one of the liquidation
  engine, and each one whose event was rolled back (`scheduler.go:150`). This is `Blocked`.
* Funding is paid into the balance at once and kept in `FundingPnl` as well, which a close realizes: it counts twice
  (`scheduler.go:202`, `clearance.go:109`). `FundingAccounted` has the factor.
* `AddPnl` sets a balance that would be negative to zero in memory (`account_cache.go:125`) and not in the row (`account_model.go:67`), although
  `reconcile.go:16-18` calls a drift beyond rounding a bug. Closes charge without a check, so a balance may be negative. In `funding` a
  user with 3 closes a position whose `FundingPnl` is -24 and has -16; the payment of 12 from a settlement that had listed it makes the row -4 and memory 0, with everything settled
  and nothing failed. `sums.clamped` counts the difference, in `FundingAccounted` and in `FundingBackedUp`.
* The market maker's branch of `settle` writes `FundingPnl` without the lock that `scheduler.go:32` wants for it. When a reduction of his position has
  read the field before the scheduler writes it, and writes it afterwards (`position_update.go:162`, `:181`), the payment is in his balance and no longer in his
  position; the other way round, the reduction's part comes back. `sums.overwritten` counts both, in `FundingAccounted`.
* The open bar of every interval is lost with the process, that of a day included (`docs/architecture_en.md:82` says minimal).

### Fairness

`OrderBook`: the step that continues a call holding the mutex
is weakly fair: it is straight-line code of a running goroutine. Taking the mutex
is strongly fair per call: Go's `sync.Mutex` hands over to a waiter that has waited
for a millisecond.
`Funding`: the scheduler, the worker and a call that has trades to apply go on while they can (weak fairness each); a failing
statement is bounded by `MaxFailures`, so it succeeds in the end; trades need not come.
`Hub`: `Run` within a case, and each pump, go on (weak). Registering and unregistering are strongly fair: `select` picks at random
among the cases that are ready, and senders waiting on one channel are served in turn. Nothing obliges a
peer to stay, to leave, or the engines to send.
`PriceFeed`: the goroutine goes on unless it waits in `ReadMessage`, where neither a message nor an end is
promised; `StopEngines` and the end of the spot loop go on (weak).
`Trading`, `Liquidation`, `Settlement`, `Klines` and `MarkPrice` state safety only.

## The proofs

Each theorem is about the specification with any values of the constants that the named assumptions of its modules allow. Beside
what the code itself demands of prices, quantities, fees and sizes, these say that users and threads are
finitely many (`UsersAssumption`, `ThreadsAssumption`: sums over them are stated), and that the market maker's
spread leaves its bid positive (`SpreadAssumption`).

### The order book

`OrderBookProofs` proves, for all sets of positive prices and quantities and any
number of orders, that `OrderBook` keeps
`TypeOK` (`TypeCorrect`), `LevelsSorted` (`AlwaysSorted`), `Uncrossed`
(`NeverCrossed`) and `TradesWithinLimits` (`LimitsRespected`). The invariant behind them, `IInv`
(theorem `Invariance`), adds two facts none of the four contains: `Issued`, no ID is in use before
`NextOrderID` has handed it out, else a new order could overwrite a resting one; and
`LevelsOwned`, each order in a level has the side and price of the level,
without which a trade at the price of a level could be beyond the maker's limit.
The proof goes by the kind of step. `ThinningStep`: a step that only takes
orders and levels out keeps the shape (used for `Match` and `Cancel`);
`RestStep`: inserting an order that nothing crosses keeps it; `OtherSteps`: the rest leaves the book alone. `Uncrossed`
after `Rest` needs `~CanMatch` and sortedness: the loop only looked at the best
level.

A second invariant, `QInv` (`QueueInvariance`), is about what the levels hold: the index and the queues have the same orders
(`Indexed`), no order is in two queues or twice in one (`Apart`), queues are in the order of placement, and the total of a
level is the sum over its queue. From it follow `IndexMatchesQueues` (`IndexExact`), `LevelsHoldTheirOrders`
(`LevelsExact`), the action property `GoneForGood` (`GoneStaysGone`) and the refinement `KeepsPriority` (`KeepsTheOrder`): every step
is one of `PriceTimePriority`, where the resting orders are those of the index, or leaves it unchanged. The step that
matters is `Match`: that the head of the best level is, of all resting orders the taker could meet, the one with the best
price and then the oldest takes sortedness, the order of the queues, and `Indexed`.

### Positions, the matching engine and the risk engine

`CollectionProofs` has facts about sequences, finite sets and sums over them. A sum over a function is defined by recursion;
that it changes by what one value changes, or stays below another, is proved by a smallest counterexample, with
the library's facts on cardinalities.

`PositionProofs` is about `UpdatePosition` and all it calls, for any leg and any state of memory.
`UpdateKeepsOwners`: no position changes its user, and new IDs are above all before. `UpdateTraded`: the user has the quantity he traded
added, but for what `mem.lost` counts; no one else's positions or money change; and, if the entry price that a merge averages comes out
even (`EvenMerges`), nobody gets richer or poorer by it. The condition is needed: an average rounded down moves
value from the entry price to nowhere. The model rounds to units, the code after 16 places; TLC finds that the instances `bot` and `risk` meet the condition.

`TradingProofs` proves, for any users, threads, prices and calls, `TypeOK` (`TradingTypes`), `PositionsFollowTrades` (`TradesMakePositions`),
`RestingCancellable` (`OrdersCancellable`), `QuotesTracked` (`QuotesKnown`), `FrozenReclaimable` (`FreezesReclaimable`),
and under the condition above `MoneyConserved` (`MoneyOnlyChangesHands`) and `MarginInProportion` (`MarginsStayInProportion`).
The invariant `Inv` (`TradingInvariance`) says between any two locks what each call holds. `StandingInv`: an order in the book is
cached, about to be cached by its own call, or a quote. `FreshInv`: the ID of an order that is not cached yet is nobody
else's. `CancelInv`: who cancels gives back what the cached order froze. `FrozenInv`: what a user has frozen is at most what his cached
orders and the calls under way will unfreeze. A cached order that a call has already unfrozen (it is about to `Uncache` it) does not count in
this sum; a second cancel of the same order only takes more from what is frozen.

The second half of the module does it again for `Liquidation`, whose steps are those of `Trading` and of the feed's goroutine. `LInv`
(`LiquidationInvariance`) adds what `watch` points to: while a deficit is covered or ranked the price is not the bankruptcy price, trades of a
disposal wait until its remainder is cancelled, an order of the liquidation engine is in the book only then, what it took over is
its own, and the fund is never negative. Hence `NoRestingIOC` (`NowOrNeverOrders`) and `UnbalancedByADLOnly` (`OnlyADLUnbalances`), where each `Deleverage` takes
from one side what `adlNet` counts; and the properties of `Trading` hold with the risk engine running too (`TradesStillMakePositions`,
`OrdersStillCancellable`, `FreezesStillReclaimable`, `MoneyStillOnlyChangesHands`, `MarginsStillInProportion`).

### Settlement

`SettlementProofs` proves, for any users, threads, size of the channel, failures, crashes, restarts and resets, `KeysFresh` (`IDsStayFresh`),
`OrdersBackedUp` (`OrdersStayBackedUp`), `PositionsBackedUp` (`PositionsStayBackedUp`) and `RefusedOnlyByRace` (`OnlyRacesAreRefused`). The caches and
the tables are written by different goroutines at different times, and the properties compare
them only when nothing of the user is under way. Three invariants, each with the one before, say what holds in between.

`SettlementInv` is about the IDs:

* `FlowOK`, `NoClash`: no two events in the channel or with a consumer insert the same row.
* `NamesOK`: whatever has the ID of an order, be it the cache, a row, an event or a call, means the same user, and no ID is above the counter. After a
  restart the counter starts from the rows alone, and everything else that had an ID is gone.
* `RowsOK`: an order whose insert is on its way has no row.
* `HoldersOK`: of the order of a call that has not told the settler yet nobody has heard; when it has told the settler and is about to cache the
  order, only the settler has.
* `CachedOK`: unless an event of the user was rolled back, an order is cached exactly if its row is pending or on its way to be, no
  cancel of it is on its way, and no call is about to cache it. A second cancel of the same order (`RefusedOnlyByRace` allows it) is refused and sets the user
  apart, so that it cannot break this.
* `PositionsInv`: positions in the database or on their way have IDs that were handed out, and those on their way have no row. That an ID of
  `UpdatePosition` is new is `UpdateKeepsOwners` of `PositionProofs`.

`SyncInv` is about what the tables will say when everything on its way is settled:

* `OwnersOK`: whatever has the ID of a position, in memory, in a row or in an event, means the same user.
* `HeldOK`: unless an event of the user was rolled back, he holds a position exactly if a row or an event on its way has it open and no event on its
  way closes it.
* `AmountsOK`: the last event about a position that was not increased has the quantity and margin of memory, or the row has, if there is none; the entry price
  never changes. This needs one consumer, which settles events in the order of the steps that submitted them (`Stream`), hence `~stopping` in the property.
* `TradesInv`: of every order in the book, in a leg of a trade or in an event of one the settler knows, will hear, or is to hear from the thread that
  has put it into the book (`Known`); an order that is about to be cancelled was not filled at once (`Cancellable`).

`FifoInv` adds that the row which an event changes is in its table, or an event ahead of it inserts it (`Ordered`), unless the user is apart.
When an event is lost, all that depend on it are of the same user (`OwnersOK`, `NamesOK`). So a single worker is never refused a change or a
cancel for want of the row, and what is left are the races the property names.

There is a lemma for each step and invariant, `SubmitTradeKeeps` to `FifoDone`; `TradeEventsFacts` and `TradeIsTold` say which events one leg of a trade submits, `MatchKnown`
what matching leaves in the book.

### Funding

`FundingProofs` proves, for any users, rates, trades and failures,

* `ChargedOnce` (`OnceEach`). `Inv` (`Invariance`) says that positions keep
  their owners while pointers to them are held, that what is listed has not been charged and what is not has been, and
  that a row was written before the lock was taken.
* `FundingAccounted` (`AccountedFor`). All positions are entered at the one price, so each merge comes out even (`MoneyInvariance`); the money of a user
  then changes by payments, by what `AddPnl` clamps and by what is written over in a `FundingPnl`. While the market maker's payment is in his
  balance and not yet in his position, `UnderWay` has it.
* `FundingBalanced` (`Balanced`). `PairedInvariance`: longs less shorts, what was dropped and the leg in flight sum to nothing.
  `DueInvariance`: what a settlement has paid and what the listed positions have still to pay make up what was due at its start.
* `FundingBackedUp` (`BackedUp`). `BackedInvariance`: a balance in memory is its row, the events not yet settled and what was clamped in memory alone, and each margin is in its row or in the last
  event that is about it; `EventsTell` is what `TradeEvents` says of one leg.

### Klines, mark price, feed and hub

`PriceFeedProofs` proves `MarkWithinSeen` of `MarkPrice` (`MarkBounded`) for any weight, unit and prices, where the arithmetic is that a
rounded average lies between what it averages (`AverageBetween`), and `Continuous` of `Klines` (`ChartsContinue`) for
any nested levels and any ticks, late or not. Its invariant `KInv` adds where a filling loop has got to, and that bars
nest in the periods above. `FeedImplements` shows that each step of `PriceFeed` is a step of `KlineSpec` or leaves the klines alone, and the same of
`MarkSpec`: hence `FeedsKlines` and `FeedsMarkPrice`, two refinements with the properties that come with them. `StoresInStep` proves `StoresAgree`:
`SInv` says which of the stores already have the trade that is being delivered, and that the high and low of the ticker cover all bars, those
that the filling loop has still to add included.

`HubProofs` proves for any users, connections, senders and sizes `TypeOK` (`TypeCorrect`), `RunNeverPanics` (`RunSafe`), `RegisteredOpen`
(`MapOpen`), `OwnReasonToLeave` (`NobodyEvictedByOthers`) and `NoGaps` (`NoBroadcastMissed`). They are not inductive: a client may be put into the map, or
its channel closed, by a case of `Run` that has begun. `Inv` says that who is in the map, waits to be stored or is still to get a broadcast
is open, and that the victim is open and in none of these places, which needs that a connection is registered once
and that `Run` alone changes the map. `NoGaps` takes, besides, what each client has got so far against the
number of broadcasts since its registration, the one that `Run` is in the middle of included.

### Only model-checked

* Liveness (`CallsFinish`, `EndsUnlessBlocked`, `NoLeak`, `StopEnds`): neither fairness nor `ENABLED` is in the provers' reach.
* `BarsMatchTicks`, which relates each bar to a filter and folds over the sequence of all ticks.
* `BalancesBackedUp` of `Settlement`. An invariant would have to sum, over calls and events, what each is about to do to a balance, and except users
  with two cancels of one order under way, whose second `Unfreeze` stops at zero until its event is refused.
* `MoneyConserved` and `MarginInProportion` without the condition on divisions are false when they round.
* The statements of the runs that find a violation.

## The plan

1. User take-profit and stop-loss in `Liquidation` (`monitor.go:153-175`, `UpdateTPSL`), on an instance of its own.
2. An abstract `Ledger`, the database as memory some events ago, that `Settlement` without failures implements.
3. What the insurance fund should hold, and the deficits charged to it twice (`monitor.go:210`).
4. Proofs: `BalancesBackedUp`, with the argument of `BackedInvariance` in `FundingProofs`; `BarsMatchTicks`.

## Not modelled

Handlers, request parsing, login, leaderboard, tutorial and clients have no protocol
beyond the calls of the engine that `Trading` has as actions and the reset of an account in `Settlement`; the change of
take-profit and stop-loss, which also writes state of its own, is in the plan. The other operations left out change nothing (`Depth`, `Spread`, `BestBid`,
`GetADLIndicator`, `GetCachedKlines`, reconciliation) or have no caller (`Reset24H` and `SetOpen24` of the price cache).
