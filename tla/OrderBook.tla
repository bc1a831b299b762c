------------------------------ MODULE OrderBook ------------------------------
(***************************************************************************)
(* The limit order book of engine/orderbook/orderbook.go: two sorted       *)
(* slices of price levels, a FIFO queue of orders in each level and an     *)
(* index from order ID to order.                                           *)
(*                                                                         *)
(* PlaceLimit, PlaceMarket and Cancel run under Book.mu.  `taker` names    *)
(* the order whose call holds the mutex; the loop of matchAgainst is one   *)
(* Match step per trade, and the call ends with Rest or Return, which also *)
(* release the mutex.  Order IDs are handed out by an atomic counter       *)
(* outside the mutex, so calls reach the book in any order of their IDs.   *)
(***************************************************************************)
EXTENDS Integers, Sequences, SequencesExt

CONSTANTS
  Prices,      \* limit prices
  Quantities,  \* quantities an order may be placed with
  MaxOrders    \* bound: number of order IDs handed out

ASSUME PricesAssumption     == Prices \subseteq Nat \ {0}
ASSUME QuantitiesAssumption == Quantities \subseteq Nat \ {0}
ASSUME MaxOrdersAssumption  == MaxOrders \in Nat

Buy   == 1
Sell  == -1
Sides == {Buy, Sell}

\* Book.nextID is stored as 1 and NextOrderID adds before it returns.
Ids == 2 .. (MaxOrders + 1)
NoOrder == 0

\* A decimal zero price marks a market order: no limit on the price.
NoLimit == 0

VARIABLES
  nextID,   \* Book.nextID
  order,    \* the Order objects, by ID; qty is the remaining quantity
  waiting,  \* IDs of calls that have their Order but not yet the mutex
  taker,    \* the order whose call holds Book.mu, or NoOrder
  book,     \* Book.bids and Book.asks, best level first
  index,    \* keys of Book.orderIndex
  clock,    \* time.Now() as a count of the placements that read it
  trades    \* every trade the book has returned, oldest first

vars == <<nextID, order, waiting, taker, book, index, clock, trades>>

Order == [side : Sides, price : Prices \cup {NoLimit}, qty : Nat, stamp : Nat]
Level == [price : Prices, orders : Seq(Ids), total : Int]
Trade == [buy : Ids, sell : Ids, price : Prices, qty : Nat]

-----------------------------------------------------------------------------
(* Comparison and the slices of levels.                                    *)

\* Price p comes before price q on side s.
Better(s, p, q) == IF s = Buy THEN p > q ELSE p < q

\* Mistake: both sides searched as if they ascended.
FirstAtAscending(s, levels, p) ==
  CHOOSE i \in 1 .. Len(levels) + 1 :
    /\ \A j \in 1 .. i - 1 : levels[j].price < p
    /\ i \in DOMAIN levels => levels[i].price >= p

\* sort.Search over the levels: the first one not better than p.
FirstAt(s, levels, p) ==
  CHOOSE i \in 1 .. Len(levels) + 1 :
    /\ \A j \in 1 .. i - 1 : Better(s, levels[j].price, p)
    /\ i \in DOMAIN levels => ~Better(s, levels[i].price, p)

\* Mistake: an order that joins a level goes to the head of its queue.
InsertAtHead(s, levels, id) ==
  LET p == order[id].price
      q == order[id].qty
      i == FirstAt(s, levels, p)
  IN  IF i \in DOMAIN levels /\ levels[i].price = p
      THEN [levels EXCEPT ![i].orders = <<id>> \o @, ![i].total = @ + q]
      ELSE InsertAt(levels, i, [price |-> p, orders |-> <<id>>, total |-> q])

InsertIntoSide(s, levels, id) ==
  LET p == order[id].price
      q == order[id].qty
      i == FirstAt(s, levels, p)
  IN  IF i \in DOMAIN levels /\ levels[i].price = p
      THEN [levels EXCEPT ![i].orders = Append(@, id), ![i].total = @ + q]
      ELSE InsertAt(levels, i, [price |-> p, orders |-> <<id>>, total |-> q])

\* Mistake: an emptied level stays in the slice.
DropOrderKeepLevel(levels, i, j, q) ==
  [levels EXCEPT ![i].orders = RemoveAt(@, j), ![i].total = @ - q]

\* Takes q off the total and order j out of level i, and the level out of the
\* slice when nothing is left in it.
DropOrder(levels, i, j, q) ==
  LET rest == RemoveAt(levels[i].orders, j)
  IN  IF rest = <<>>
      THEN RemoveAt(levels, i)
      ELSE [levels EXCEPT ![i].orders = rest, ![i].total = @ - q]

\* removeOrder's scan finds id in this level.
Holds(level, id) ==
  /\ level.price = order[id].price
  /\ \E j \in DOMAIN level.orders : level.orders[j] = id

\* Mistake: the scan gives up after the best level.
RemoveFromBestLevel(levels, id) ==
  IF levels # <<>> /\ Holds(levels[1], id)
  THEN LET j == CHOOSE j \in DOMAIN levels[1].orders : levels[1].orders[j] = id
       IN  DropOrder(levels, 1, j, order[id].qty)
  ELSE levels

RemoveOrder(levels, id) ==
  IF \E i \in DOMAIN levels : Holds(levels[i], id)
  THEN LET i == CHOOSE i \in DOMAIN levels : Holds(levels[i], id)
           j == CHOOSE j \in DOMAIN levels[i].orders : levels[i].orders[j] = id
       IN  DropOrder(levels, i, j, order[id].qty)
  ELSE levels

-----------------------------------------------------------------------------
(* The matching loop of the order that holds the mutex.                    *)

Opposite == book[-order[taker].side]

\* Mistake: the sell side's price check is missing.
CanMatchAnyBid ==
  /\ Opposite # <<>>
  /\ order[taker].qty > 0
  /\ order[taker].side = Buy /\ order[taker].price # NoLimit =>
       Opposite[1].price <= order[taker].price

\* The loop and price conditions of matchAgainst.
CanMatch ==
  /\ Opposite # <<>>
  /\ order[taker].qty > 0
  /\ order[taker].price # NoLimit =>
       ~Better(order[taker].side, Opposite[1].price, order[taker].price)

\* Mistake: the taker's quantity without the minimum.
FillTaker(t, m) == t

\* fillQty of one trade.
FillQty(t, m) == IF t < m THEN t ELSE m

-----------------------------------------------------------------------------
Init ==
  /\ nextID  = 1
  /\ order   = [id \in Ids |-> [side |-> Buy, price |-> NoLimit,
                                qty |-> 0, stamp |-> 0]]
  /\ waiting = {}
  /\ taker   = NoOrder
  /\ book    = [s \in Sides |-> <<>>]
  /\ index   = {}
  /\ clock   = 0
  /\ trades  = <<>>

\* A caller draws an ID and fills in its Order.  PlaceMarket refuses an order
\* with a price, so NoLimit means PlaceMarket and a price means PlaceLimit.
NewOrder(s, p, q) ==
  /\ nextID + 1 \in Ids
  /\ nextID'  = nextID + 1
  /\ order'   = [order EXCEPT ![nextID + 1] =
                   [side |-> s, price |-> p, qty |-> q, stamp |-> 0]]
  /\ waiting' = waiting \cup {nextID + 1}
  /\ UNCHANGED <<taker, book, index, clock, trades>>

\* PlaceLimit or PlaceMarket takes the mutex and stamps the order.
Place(id) ==
  /\ taker = NoOrder
  /\ id \in waiting
  /\ taker'   = id
  /\ waiting' = waiting \ {id}
  /\ clock'   = clock + 1
  /\ order'   = [order EXCEPT ![id].stamp = clock + 1]
  /\ UNCHANGED <<nextID, book, index, trades>>

\* One trade: the taker against the oldest order of the best opposite level,
\* at that order's price.
Match ==
  /\ taker # NoOrder
  /\ CanMatch
  /\ LET s     == order[taker].side
         best  == Opposite[1]
         maker == best.orders[1]
         q     == FillQty(order[taker].qty, order[maker].qty)
         done  == order[maker].qty = q
     IN  /\ trades' = Append(trades,
                        [buy   |-> IF s = Buy THEN taker ELSE maker,
                         sell  |-> IF s = Buy THEN maker ELSE taker,
                         price |-> order[maker].price,
                         qty   |-> q])
         /\ order'  = [order EXCEPT ![taker].qty = @ - q, ![maker].qty = @ - q]
         /\ book'   = [book EXCEPT ![-s] =
                         IF done THEN DropOrder(@, 1, 1, q)
                         ELSE [@ EXCEPT ![1].total = best.total - q]]
         /\ index'  = IF done THEN index \ {maker} ELSE index
  /\ UNCHANGED <<nextID, waiting, taker, clock>>

\* PlaceLimit rests what the loop left of the order.
Rest ==
  /\ taker # NoOrder
  /\ ~CanMatch
  /\ order[taker].price # NoLimit
  /\ order[taker].qty > 0
  /\ LET s == order[taker].side
     IN  book' = [book EXCEPT ![s] = InsertIntoSide(s, @, taker)]
  /\ index' = index \cup {taker}
  /\ taker' = NoOrder
  /\ UNCHANGED <<nextID, order, waiting, clock, trades>>

\* Mistake: a market order waits for liquidity under the mutex.
ReturnFilled ==
  /\ taker # NoOrder
  /\ ~CanMatch
  /\ order[taker].qty = 0
  /\ taker' = NoOrder
  /\ UNCHANGED <<nextID, order, waiting, book, index, clock, trades>>

\* The call returns without resting: a filled order, or a market order.
Return ==
  /\ taker # NoOrder
  /\ ~CanMatch
  /\ order[taker].price = NoLimit \/ order[taker].qty = 0
  /\ taker' = NoOrder
  /\ UNCHANGED <<nextID, order, waiting, book, index, clock, trades>>

\* Cancel of an order the index holds; of any other ID it returns nil.
Cancel(id) ==
  /\ taker = NoOrder
  /\ id \in index
  /\ index' = index \ {id}
  /\ book'  = [book EXCEPT ![order[id].side] = RemoveOrder(@, id)]
  /\ UNCHANGED <<nextID, order, waiting, taker, clock, trades>>

Next ==
  \/ \E s \in Sides, p \in Prices \cup {NoLimit}, q \in Quantities :
       NewOrder(s, p, q)
  \/ \E id \in Ids : Place(id) \/ Cancel(id)
  \/ Match
  \/ Rest
  \/ Return

\* The holder of the mutex runs to the end of its call, and a call that waits
\* for the mutex gets it (sync.Mutex is fair to waiters in starvation mode).
Fairness ==
  /\ WF_vars(Match \/ Rest \/ Return)
  /\ \A id \in Ids : SF_vars(Place(id))

Spec == Init /\ [][Next]_vars /\ Fairness

-----------------------------------------------------------------------------
TypeOK ==
  /\ nextID  \in 1 .. (MaxOrders + 1)
  /\ order   \in [Ids -> Order]
  /\ waiting \subseteq Ids
  /\ taker   \in Ids \cup {NoOrder}
  /\ book    \in [Sides -> Seq(Level)]
  /\ index   \subseteq Ids
  /\ clock   \in Nat
  /\ trades  \in Seq(Trade)

-----------------------------------------------------------------------------
(* What the slices and the index must look like between two steps.         *)

\* Levels are strictly sorted, best price first: sort.Search and the two
\* early exits of matchAgainst are only right on slices in this order.
LevelsSorted ==
  \A s \in Sides : \A i, j \in DOMAIN book[s] :
    i < j => Better(s, book[s][i].price, book[s][j].price)

\* No level is empty, so BestBid and BestAsk never quote a price at which
\* nothing rests and bestLevel.Orders[0] exists; a level only holds live
\* orders of its own side and price, and its total, which Depth and BestBid
\* report and which is kept by adding and subtracting only, is theirs.
LevelsHoldTheirOrders ==
  \A s \in Sides : \A i \in DOMAIN book[s] :
    /\ book[s][i].orders # <<>>
    /\ book[s][i].total =
         SumFunctionOnSet([id \in Ids |-> order[id].qty], Range(book[s][i].orders))
    /\ \A j \in DOMAIN book[s][i].orders :
         LET o == order[book[s][i].orders[j]]
         IN  o.side = s /\ o.price = book[s][i].price /\ o.qty > 0

\* The places of the book: side, level and position in the queue.
Places ==
  UNION {UNION {{<<s, i, j>> : j \in DOMAIN book[s][i].orders} :
                  i \in DOMAIN book[s]} : s \in Sides}

IdAt(pl) == book[pl[1]][pl[2]].orders[pl[3]]

\* orderIndex and the queues hold the same orders, each of them once: a
\* cancel never misses a resting order and never leaves a phantom behind.
IndexMatchesQueues ==
  /\ index = {IdAt(pl) : pl \in Places}
  /\ \A p1, p2 \in Places : IdAt(p1) = IdAt(p2) => p1 = p2

\* The book is never crossed: every bid is below every ask, whatever the
\* interleaving of placements and cancels was, and between two trades of a
\* matching loop too.
Uncrossed ==
  \A i \in DOMAIN book[Buy], j \in DOMAIN book[Sell] :
    book[Buy][i].price < book[Sell][j].price

\* No trade is worse than a limit of either party: matchAgainst only compares
\* the taker's limit with the best level, and trades at the maker's price.
WithinLimit(o, p) ==
  \/ o.price = NoLimit
  \/ IF o.side = Buy THEN p <= o.price ELSE p >= o.price

TradesWithinLimits ==
  \A n \in DOMAIN trades :
    /\ WithinLimit(order[trades[n].buy], trades[n].price)
    /\ WithinLimit(order[trades[n].sell], trades[n].price)

\* An order that has left the book (filled, cancelled, or a market order that
\* has returned) is never touched by a later match and never comes back.
GoneForGood ==
  [][\A id \in 2 .. nextID :
       id \notin index \cup waiting \cup {taker} =>
         order'[id] = order[id] /\ id \notin index' \cup waiting' \cup {taker'}]_vars

\* Every call gets the mutex and returns: the loop of matchAgainst ends, since
\* each turn empties the taker or takes an order out of the book.
CallsFinish ==
  \A id \in Ids : (id \in waiting) ~> (id \notin waiting /\ taker # id)

\* The book keeps the promise of price-time priority.
Promise == INSTANCE PriceTimePriority WITH resting <- index

KeepsPriority == Promise!Spec

=============================================================================
