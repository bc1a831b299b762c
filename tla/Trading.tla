------------------------------ MODULE Trading ------------------------------
(***************************************************************************)
(* The matching engine of engine/trading/engine.go with everything that    *)
(* runs against it at the same time: HTTP handlers that place, cancel and  *)
(* close, and the market maker bot.  Each is a thread; a thread takes the  *)
(* locks of the order book, the accounts, the caches and Engine.mu one     *)
(* after the other, and every step below is what it does between two of    *)
(* them.  A call that is refused leaves no trace and is not a step.        *)
(*                                                                         *)
(* The book keeps the promise OrderBook is shown to keep, price-time       *)
(* priority, so a side is a sequence with the best and oldest order first. *)
(***************************************************************************)
EXTENDS Positions, Sequences, SequencesExt

CONSTANTS
  Threads,       \* threads that serve requests
  Bot,           \* the market maker's goroutine
  Feeder,        \* the price feed's goroutine, which runs the risk monitor
  Feed,          \* bound: the prices the feed delivers, in this order
  LimitPrices,   \* prices of users' limit orders
  Quantities,    \* quantities of orders and of partial closes
  Leverages,
  Spread,        \* half-spread of the market maker's quotes
  QuoteQty,      \* quantity of each quote
  MaxDeviation,  \* allowed deviation of a limit price, in percent
  MaxPositions,  \* Engine.maxPositions
  MaxCalls,      \* bound: order IDs drawn by the users' calls
  MaxTicks       \* bound: ticks of the market maker

ASSUME ThreadsAssumption == /\ IsFiniteSet(Threads)
                            /\ Bot \notin Threads /\ Feeder \notin Threads \cup {Bot}
ASSUME SizesAssumption   == Quantities \subseteq Nat \ {0} /\ QuoteQty \in Nat \ {0}
ASSUME LimitsAssumption  == LimitPrices \subseteq Nat \ {0}
ASSUME LeverAssumption   == Leverages \subseteq Nat \ {0}
ASSUME FeedAssumption    == Feed \in Seq(Nat \ {0}) /\ Feed # <<>>
ASSUME OrdersAssumption  == MaxPositions \in Nat /\ MaxCalls \in Nat /\ MaxTicks \in Nat

\* The spread of the quotes is a fraction of the price they are made around.
ASSUME SpreadAssumption  == Spread \in Nat /\ \A n \in DOMAIN Feed : Spread < Feed[n]

VARIABLES
  mem,      \* accounts and positions, see Positions
  book,     \* resting orders by side, best and oldest first
  cached,   \* OrderCache: limit orders by ID
  nextID,   \* Book.nextID
  fed,      \* how many prices the feed has delivered
  quotes,   \* Bot.activeOrders
  quoted,   \* Bot.lastQuotePrice, 0 before the first tick
  started,  \* bound: calls started by users
  ticks,    \* bound: ticks of the market maker
  calls,    \* what each thread is doing
  matched   \* history: signed quantity the book matched, by user

vars == <<mem, book, cached, nextID, fed, quotes, quoted, started, ticks, calls, matched>>

NoLimit == 0

\* The price in the PriceCache.
price == Feed[fed]

Resting == [id : Nat, user : Traders, side : Sides, price : Nat, qty : Nat]

-----------------------------------------------------------------------------
(* The order book.                                                         *)

Better(s, p, q) == IF s = Long THEN p > q ELSE p < q

\* An order of side s may trade at p.
Acceptable(s, limit, p) == limit = NoLimit \/ ~Better(s, p, limit)

\* Quantity of the rows before the n-th.
Ahead(rows, n) ==
  SumFunctionOnSet([i \in DOMAIN rows |-> rows[i].qty], 1 .. (n - 1))

\* The rows a quantity reaches that is taken from each in turn.
Reached(rows, qty) == {n \in DOMAIN rows : \A i \in 1 .. n : Ahead(rows, i) < qty}

\* What it takes from the n-th of them.
Fill(rows, qty, n) ==
  LET left == qty - Ahead(rows, n)
  IN  IF left < rows[n].qty THEN left ELSE rows[n].qty

\* Matching an order of side s against the other side of the book: the orders
\* met are the first k, and of the last of them over may be left.
Matching(s, limit, qty) ==
  LET orders == book[-s]
      k      == Cardinality({n \in Reached(orders, qty) :
                   \A i \in 1 .. n : Acceptable(s, limit, orders[i].price)})
      over   == Ahead(orders, k + 1) - qty
      others == SubSeq(orders, k + 1, Len(orders))
  IN  [trades |-> [n \in 1 .. k |-> [orders[n] EXCEPT !.qty = Fill(orders, qty, n)]],
       left   |-> IF over < 0 THEN -over ELSE 0,
       rest   |-> IF over > 0 THEN <<[orders[k] EXCEPT !.qty = over]>> \o others
                              ELSE others]

\* Behind every order of the side that is not worse.
Queue(orders, o) ==
  LET ahead == {i \in DOMAIN orders : ~Better(o.side, o.price, orders[i].price)}
  IN  InsertAt(orders, Cardinality(ahead) + 1, o)

\* The two sides of each trade in the order of ProcessTrades: buyer, seller.
Legs(trades, user, s, id) ==
  [n \in 1 .. 2 * Len(trades) |->
    LET t      == trades[(n + 1) \div 2]
        buying == n % 2 = 1
    IN  IF buying = (s = Long)
        THEN [side |-> -t.side, user |-> user, qty |-> t.qty, price |-> t.price, id |-> id]
        ELSE [side |-> t.side, user |-> t.user, qty |-> t.qty, price |-> t.price, id |-> t.id]]

\* Signed quantity of u in a sequence of legs.
LegSum(legs, u) ==
  SumFunctionOnSet([n \in DOMAIN legs |-> IF legs[n].user = u
                                          THEN legs[n].side * legs[n].qty ELSE 0],
                   DOMAIN legs)

\* Trades return from the book: its sides change and the history notes them.
BookTrades(s, m, legs) ==
  /\ book'    = [book EXCEPT ![-s] = m.rest]
  /\ matched' = [u \in Traders |-> matched[u] + LegSum(legs, u)]

-----------------------------------------------------------------------------
(* Threads.                                                                *)

Pcs == {"idle", "market", "limit", "filled", "resting", "cancel", "unfreeze",
        "uncache", "close", "reopen", "legs", "requote", "bid", "ask"}

AllThreads == Threads \cup {Bot, Feeder}

Idle == [pc |-> "idle", user |-> MM, side |-> Long, lev |-> 1, id |-> 0,
         qty |-> 0, price |-> NoLimit, cost |-> 0, pos |-> 0, legs |-> <<>>]

\* Thread t goes on to pc with some fields of its call changed.
Goto(t, call, pc) == calls' = [calls EXCEPT ![t] = [call EXCEPT !.pc = pc]]

Finish(t) == calls' = [calls EXCEPT ![t] = Idle]

\* ProcessTrades has these legs to apply before the call returns.
Process(t, call, legs) ==
  IF legs = <<>> THEN Finish(t) ELSE Goto(t, [call EXCEPT !.legs = legs], "legs")

\* NextOrderID
DrawID == nextID' = nextID + 1

\* A handler starts a call that draws an ID.
Start(t) ==
  /\ calls[t].pc = "idle"
  /\ started < MaxCalls
  /\ started' = started + 1
  /\ DrawID

Init ==
  /\ mem     = InitMem
  /\ book    = [s \in Sides |-> <<>>]
  /\ cached  = << >>
  /\ nextID  = 0
  /\ fed     = 1
  /\ quotes  = {}
  /\ quoted  = 0
  /\ started = 0
  /\ ticks   = 0
  /\ calls   = [t \in AllThreads |-> Idle]
  /\ matched = [u \in Traders |-> 0]

\* The price feed stores a new price.
PriceUpdate ==
  /\ calls[Feeder].pc = "idle"
  /\ fed < Len(Feed)
  /\ fed' = fed + 1
  /\ UNCHANGED <<mem, book, cached, nextID, quotes, quoted, started, ticks, calls, matched>>

-----------------------------------------------------------------------------
(* PlaceMarketOrder.  A margin that buys qty at the current price.         *)

PlaceMarketOrder(t, u, s, qty, lev) ==
  /\ Start(t)
  /\ Cardinality(HeldBy(mem, u)) < MaxPositions
  /\ Available(mem, u) >= (qty * price) \div lev + CalcFee(qty * price, FALSE)
  /\ Goto(t, [Idle EXCEPT !.user = u, !.side = s, !.lev = lev,
                          !.qty = qty, !.id = nextID + 1], "market")
  /\ UNCHANGED <<mem, book, cached, fed, quotes, quoted, ticks, matched>>

MatchMarket(t) ==
  /\ calls[t].pc = "market"
  /\ LET c    == calls[t]
         m    == Matching(c.side, NoLimit, c.qty)
         legs == Legs(m.trades, c.user, c.side, c.id)
     IN  /\ BookTrades(c.side, m, legs)
         /\ Process(t, c, legs)
  /\ UNCHANGED <<mem, cached, nextID, fed, quotes, quoted, started, ticks>>

-----------------------------------------------------------------------------
(* PlaceLimitOrder.                                                        *)

LimitCost(qty, limit, lev) == (qty * limit) \div lev + CalcFee(qty * limit, TRUE)

Abs(x) == IF x < 0 THEN -x ELSE x

PlaceLimitOrder(t, u, s, qty, limit, lev) ==
  /\ Start(t)
  /\ Cardinality(HeldBy(mem, u)) < MaxPositions
  /\ Abs(limit - price) * 100 <= MaxDeviation * price
  /\ LET cost == LimitCost(qty, limit, lev)
     IN  /\ Available(mem, u) >= cost
         /\ mem' = Freeze(mem, u, cost)
         /\ Goto(t, [Idle EXCEPT !.user = u, !.side = s, !.lev = lev,
                       !.qty = qty, !.id = nextID + 1, !.price = limit,
                       !.cost = cost], "limit")
  /\ UNCHANGED <<book, cached, fed, quotes, quoted, ticks, matched>>

\* The trades of an order that is not filled at once are forgotten: the call
\* goes on as for an order that met nobody.
MatchLimit(t) ==
  /\ calls[t].pc = "limit"
  /\ LET c    == calls[t]
         m    == Matching(c.side, c.price, c.qty)
         legs == Legs(m.trades, c.user, c.side, c.id)
         rest == [id |-> c.id, user |-> c.user, side |-> c.side,
                  price |-> c.price, qty |-> m.left]
     IN  /\ matched' = [u \in Traders |-> matched[u] + LegSum(legs, u)]
         /\ IF m.left = 0
            THEN /\ book' = [book EXCEPT ![-c.side] = m.rest]
                 /\ Goto(t, [c EXCEPT !.legs = legs], "filled")
                 /\ UNCHANGED mem
            ELSE /\ book' = [book EXCEPT ![-c.side] = m.rest,
                                         ![c.side] = Queue(@, rest)]
                 /\ Goto(t, c, "resting")
                 /\ mem' = [mem EXCEPT !.lost =
                              [u \in Traders |-> mem.lost[u] + LegSum(legs, u)]]
  /\ UNCHANGED <<cached, nextID, fed, quotes, quoted, started, ticks>>

\* An order filled at once gives back what it froze.
UnfreezeFilled(t) ==
  /\ calls[t].pc = "filled"
  /\ mem' = Unfreeze(mem, calls[t].user, calls[t].cost)
  /\ Goto(t, calls[t], "legs")
  /\ UNCHANGED <<book, cached, nextID, fed, quotes, quoted, started, ticks, matched>>

\* orderCache.Add
Register(t) ==
  /\ calls[t].pc = "resting"
  /\ LET c == calls[t]
         o == [user |-> c.user, cost |-> c.cost, lev |-> c.lev]
     IN  cached' = [i \in DOMAIN cached \cup {c.id} |-> IF i = c.id THEN o ELSE cached[i]]
  /\ Finish(t)
  /\ UNCHANGED <<mem, book, nextID, fed, quotes, quoted, started, ticks, matched>>

-----------------------------------------------------------------------------
(* CancelOrder.                                                            *)

CancelOrder(t, id) ==
  /\ calls[t].pc = "idle"
  /\ Goto(t, [Idle EXCEPT !.user = cached[id].user, !.id = id,
                          !.cost = cached[id].cost], "cancel")
  /\ UNCHANGED <<mem, book, cached, nextID, fed, quotes, quoted, started, ticks, matched>>

\* The orders of a side without one of them, if it is there.
Without(orders, id) ==
  LET at == {n \in DOMAIN orders : orders[n].id = id}
  IN  IF at = {} THEN orders ELSE RemoveAt(orders, CHOOSE n \in at : TRUE)

\* Mistake: only the bids are searched.
WithoutBid(id) == [book EXCEPT ![Long] = Without(@, id)]

WithoutOrder(id) == [s \in Sides |-> Without(book[s], id)]

\* book.Cancel, whose answer is ignored.
CancelInBook(t) ==
  /\ calls[t].pc = "cancel"
  /\ book' = WithoutOrder(calls[t].id)
  /\ Goto(t, calls[t], "unfreeze")
  /\ UNCHANGED <<mem, cached, nextID, fed, quotes, quoted, started, ticks, matched>>

UnfreezeCancelled(t) ==
  /\ calls[t].pc = "unfreeze"
  /\ mem' = Unfreeze(mem, calls[t].user, calls[t].cost)
  /\ Goto(t, calls[t], "uncache")
  /\ UNCHANGED <<book, cached, nextID, fed, quotes, quoted, started, ticks, matched>>

\* orderCache.Remove
Uncache(t) ==
  /\ calls[t].pc = "uncache"
  /\ cached' = Restrict(cached, DOMAIN cached \ {calls[t].id})
  /\ Finish(t)
  /\ UNCHANGED <<mem, book, nextID, fed, quotes, quoted, started, ticks, matched>>

-----------------------------------------------------------------------------
(* ClosePosition and executeClose.                                         *)

\* TrySetState(Closing) succeeds, the position is read and qty is not too much.
ClosePosition(t, i, qty) ==
  /\ Start(t)
  /\ i \in DOMAIN mem.pos
  /\ mem.pos[i].user \in Users
  /\ mem.pos[i].state = Active
  /\ qty <= mem.pos[i].qty
  /\ mem' = SetState(mem, i, Closing)
  /\ Goto(t, [Idle EXCEPT !.user = mem.pos[i].user, !.side = -mem.pos[i].side,
                          !.lev = mem.pos[i].lev, !.qty = qty,
                          !.id = nextID + 1, !.pos = i], "close")
  /\ UNCHANGED <<book, cached, fed, quotes, quoted, ticks, matched>>

\* More than the position has is asked for: the state, by now Closing, is only
\* to be set back.
RefuseClose(t, i, qty) ==
  /\ calls[t].pc = "idle"
  /\ started < MaxCalls
  /\ started' = started + 1
  /\ i \in DOMAIN mem.pos
  /\ mem.pos[i].user \in Users
  /\ mem.pos[i].state = Active
  /\ qty > mem.pos[i].qty
  /\ mem' = SetState(mem, i, Closing)
  /\ Goto(t, [Idle EXCEPT !.user = mem.pos[i].user, !.pos = i], "reopen")
  /\ UNCHANGED <<book, cached, nextID, fed, quotes, quoted, ticks, matched>>

MatchClose(t) ==
  /\ calls[t].pc = "close"
  /\ LET c    == calls[t]
         m    == Matching(c.side, NoLimit, c.qty)
         legs == Legs(m.trades, c.user, c.side, c.id)
     IN  /\ BookTrades(c.side, m, legs)
         /\ IF legs = <<>> THEN Goto(t, c, "reopen")
                           ELSE Goto(t, [c EXCEPT !.legs = legs], "legs")
  /\ UNCHANGED <<mem, cached, nextID, fed, quotes, quoted, started, ticks>>

\* No liquidity, or too much asked for: the position is Active again.
Reopen(t) ==
  /\ calls[t].pc = "reopen"
  /\ mem' = SetState(mem, calls[t].pos, Active)
  /\ Finish(t)
  /\ UNCHANGED <<book, cached, nextID, fed, quotes, quoted, started, ticks, matched>>

-----------------------------------------------------------------------------
(* ProcessTrades.                                                          *)

\* resolveLeverage: the taker's, that of the cached order, or 1.
LeverageOf(c, l) ==
  IF l.user = c.user THEN c.lev
  ELSE IF l.id \in DOMAIN cached THEN cached[l.id].lev ELSE 1

\* Mistake: a trade is processed for the taker only.
ApplyTakerLeg(t) ==
  /\ calls[t].pc = "legs"
  /\ LET c == calls[t]
         l == Head(c.legs)
     IN  /\ mem' \in IF l.user = c.user
                     THEN UpdatePosition(mem, l.user, l.side, l.qty, l.price, c.lev, FALSE)
                     ELSE {mem}
         /\ Process(t, c, Tail(c.legs))
  /\ UNCHANGED <<book, cached, nextID, fed, quotes, quoted, started, ticks, matched>>

\* One UpdatePosition: the next side of the next trade.
ApplyLeg(t) ==
  /\ calls[t].pc = "legs"
  /\ LET c == calls[t]
         l == Head(c.legs)
     IN  /\ mem' \in UpdatePosition(mem, l.user, l.side, l.qty, l.price,
                                    LeverageOf(c, l), l.user # c.user)
         /\ Process(t, c, Tail(c.legs))
  /\ UNCHANGED <<book, cached, nextID, fed, quotes, quoted, started, ticks, matched>>

-----------------------------------------------------------------------------
(* The market maker: tick cancels its quotes one by one, places a bid and  *)
(* an ask around the price it has read, then processes their trades.       *)

Tick ==
  /\ calls[Bot].pc = "idle"
  /\ price # quoted
  /\ ticks < MaxTicks
  /\ ticks' = ticks + 1
  /\ Goto(Bot, [Idle EXCEPT !.price = price, !.qty = QuoteQty], "requote")
  /\ UNCHANGED <<mem, book, cached, nextID, fed, quotes, quoted, started, matched>>

CancelQuote ==
  /\ calls[Bot].pc = "requote"
  /\ IF quotes = {}
     THEN /\ Goto(Bot, calls[Bot], "bid")
          /\ UNCHANGED <<book, quotes>>
     ELSE \E id \in quotes :
            /\ \A other \in quotes : id <= other
            /\ book'   = WithoutOrder(id)
            /\ quotes' = quotes \ {id}
            /\ UNCHANGED calls
  /\ UNCHANGED <<mem, cached, nextID, fed, quoted, started, ticks, matched>>

\* PlaceLimit of a quote; unlike PlaceLimitOrder the bot processes the trades
\* of a quote that also rests.
PlaceQuote ==
  /\ calls[Bot].pc \in {"bid", "ask"}
  /\ DrawID
  /\ LET c     == calls[Bot]
         s     == IF c.pc = "bid" THEN Long ELSE Short
         limit == c.price - s * Spread
         m     == Matching(s, limit, c.qty)
         legs  == Legs(m.trades, MM, s, nextID + 1)
         rest  == [id |-> nextID + 1, user |-> MM, side |-> s, price |-> limit,
                   qty |-> m.left]
     IN  /\ book' = [book EXCEPT ![-s] = m.rest,
                                 ![s]  = IF m.left > 0 THEN Queue(@, rest) ELSE @]
         /\ matched' = [u \in Traders |-> matched[u] + LegSum(legs, u)]
         /\ quotes' = quotes \cup {nextID + 1}
         /\ IF s = Long
            THEN Goto(Bot, [c EXCEPT !.legs = legs], "ask") /\ UNCHANGED quoted
            ELSE /\ quoted' = c.price
                 /\ Process(Bot, Idle, c.legs \o legs)
  /\ UNCHANGED <<mem, cached, fed, started, ticks>>

-----------------------------------------------------------------------------
\* A step of a handler, of ProcessTrades or of the market maker.
TradingStep ==
  \/ \E t \in Threads :
       \/ \E u \in Users, s \in Sides, q \in Quantities, lev \in Leverages :
            \/ PlaceMarketOrder(t, u, s, q, lev)
            \/ \E p \in LimitPrices : PlaceLimitOrder(t, u, s, q, p, lev)
       \/ \E id \in DOMAIN cached : CancelOrder(t, id)
       \/ \E i \in DOMAIN mem.pos, q \in Quantities :
            ClosePosition(t, i, q) \/ RefuseClose(t, i, q)
       \/ MatchMarket(t)
       \/ MatchLimit(t)
       \/ UnfreezeFilled(t)
       \/ Register(t)
       \/ CancelInBook(t)
       \/ UnfreezeCancelled(t)
       \/ Uncache(t)
       \/ MatchClose(t)
       \/ Reopen(t)
  \/ \E t \in AllThreads : ApplyLeg(t)
  \/ Tick
  \/ CancelQuote
  \/ PlaceQuote

Next == TradingStep \/ PriceUpdate

Spec == Init /\ [][Next]_vars

-----------------------------------------------------------------------------
TypeOK ==
  /\ \A u \in Traders : mem.bal[u] \in Int /\ mem.frozen[u] \in Nat
  /\ \A i \in DOMAIN mem.pos : mem.pos[i] \in Position /\ i <= mem.lastPos
  /\ \A s \in Sides : \A n \in DOMAIN book[s] :
       book[s][n] \in Resting /\ book[s][n].side = s /\ book[s][n].qty > 0
  /\ nextID \in Nat /\ DOMAIN cached \cup quotes \subseteq 1 .. nextID
  /\ fed \in DOMAIN Feed
  /\ quoted \in Range(Feed) \cup {0}
  /\ \A t \in AllThreads : calls[t].pc \in Pcs
  /\ matched \in [Traders -> Int]

AllIdle == \A t \in AllThreads : calls[t].pc = "idle"

\* Signed quantity of u in trades some thread has yet to process.
InFlight(u) ==
  SumFunctionOnSet([t \in AllThreads |-> LegSum(calls[t].legs, u)], AllThreads)

\* Nobody gains or loses position except by trades: what a user holds is what
\* the book has matched for him, less what is still being processed and what
\* PlaceLimitOrder and a failed Deduct are known to drop.
PositionsFollowTrades ==
  \A u \in Traders :
    /\ Net(mem, u) + InFlight(u) + mem.lost[u] = matched[u]
    /\ Net(mem, u) = mem.bought[u]

\* The money of a user: whatever sequence of opens, merges, partial closes and
\* reversals there was, balance and margins are the initial balance, less the
\* fees and the value traded, plus the open positions at their entry prices.
MoneyConserved ==
  \A u \in Traders :
    mem.bal[u] + Held(mem, u) + mem.paid[u] + mem.fees[u]
      = IF u \in Users THEN InitialBalance ELSE SystemBalance

\* Margin, quantity, entry price and leverage stay in proportion, which the
\* liquidation and bankruptcy prices take for granted.
MarginInProportion ==
  \A i \in DOMAIN mem.pos :
    mem.pos[i].margin * mem.pos[i].lev = mem.pos[i].entry * mem.pos[i].qty

\* Frozen money can be got back: it never exceeds what the user's cached
\* orders, and calls still running, will unfreeze.
FrozenReclaimable ==
  \A u \in Users :
    LET placing == {t \in Threads : /\ calls[t].user = u
                                    /\ calls[t].pc \in {"limit", "filled", "resting"}}
        orders  == {i \in DOMAIN cached : cached[i].user = u}
    IN  mem.frozen[u] <= SumFunctionOnSet([i \in DOMAIN cached |-> cached[i].cost], orders)
                           + SumFunctionOnSet([t \in Threads |-> calls[t].cost], placing)

\* A user's order in the book can be cancelled: it is in the order cache, or
\* its PlaceLimitOrder is about to put it there.
RestingCancellable ==
  \A s \in Sides : \A n \in DOMAIN book[s] :
    book[s][n].user \in Users =>
      \/ book[s][n].id \in DOMAIN cached
      \/ \E t \in Threads : calls[t].pc = "resting" /\ calls[t].id = book[s][n].id

\* The market maker's quotes in the book are those it will cancel next.
QuotesTracked ==
  \A s \in Sides : \A n \in DOMAIN book[s] :
    book[s][n].user = MM => book[s][n].id \in quotes

-----------------------------------------------------------------------------
(* What the documentation says, and the code does not keep.                *)

\* A close with an order of its own still to match, or trades of that order
\* still to apply to its position.
Reducing(t) ==
  \/ calls[t].pc = "close"
  \/ /\ calls[t].pc = "legs" /\ calls[t].pos # 0
     /\ \E n \in DOMAIN calls[t].legs : calls[t].legs[n].user = calls[t].user

\* cache/position_cache.go:153, TrySetState lets one close of a position
\* through at a time: two never have an order to reduce it at once.
OneCloseAtATime ==
  \A t1, t2 \in Threads :
    /\ Reducing(t1) /\ Reducing(t2)
    /\ calls[t1].pos = calls[t2].pos
    => t1 = t2

=============================================================================
