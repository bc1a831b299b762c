-------------------------- MODULE PriceTimePriority --------------------------
(***************************************************************************)
(* What a limit order book promises its users, without slices, levels or   *)
(* an index: a set of resting orders, of which a taker always meets the    *)
(* best priced one first and, at one price, the one that was placed first, *)
(* trades at that order's price, and only rests once nothing is left that  *)
(* it could trade with.                                                    *)
(***************************************************************************)
EXTENDS Integers, Sequences

CONSTANTS Prices, Quantities, MaxOrders

Buy     == 1
Sell    == -1
NoOrder == 0
NoLimit == 0
Ids     == 2 .. (MaxOrders + 1)

VARIABLES
  nextID,   \* the last ID handed out
  order,    \* the orders by ID
  waiting,  \* orders on their way to the book
  taker,    \* the order being matched, or NoOrder
  resting,  \* the orders in the book
  clock,    \* how many orders have reached the book
  trades    \* all trades, oldest first

vars == <<nextID, order, waiting, taker, resting, clock, trades>>

-----------------------------------------------------------------------------
\* Resting order a has priority over resting order b of the same side.
Ahead(a, b) ==
  \/ order[a].price # order[b].price /\
       (IF order[a].side = Buy THEN order[a].price > order[b].price
                               ELSE order[a].price < order[b].price)
  \/ order[a].price = order[b].price /\ order[a].stamp < order[b].stamp

Facing == {m \in resting : order[m].side = -order[taker].side}

\* Orders the taker's limit lets it trade with.
Acceptable ==
  {m \in Facing :
     \/ order[taker].price = NoLimit
     \/ IF order[taker].side = Buy THEN order[m].price <= order[taker].price
                                   ELSE order[m].price >= order[taker].price}

First == {m \in Acceptable : \A o \in Facing \ {m} : Ahead(m, o)}

MinOf(a, b) == IF a < b THEN a ELSE b

-----------------------------------------------------------------------------
Init ==
  /\ nextID  = 1
  /\ order   = [id \in Ids |-> [side |-> Buy, price |-> NoLimit,
                                qty |-> 0, stamp |-> 0]]
  /\ waiting = {}
  /\ taker   = NoOrder
  /\ resting = {}
  /\ clock   = 0
  /\ trades  = <<>>

Submit ==
  \E s \in {Buy, Sell}, p \in Prices \cup {NoLimit}, q \in Quantities :
    /\ nextID + 1 \in Ids
    /\ nextID'  = nextID + 1
    /\ order'   = [order EXCEPT ![nextID + 1] =
                     [side |-> s, price |-> p, qty |-> q, stamp |-> 0]]
    /\ waiting' = waiting \cup {nextID + 1}
    /\ UNCHANGED <<taker, resting, clock, trades>>

Arrive ==
  \E id \in waiting :
    /\ taker = NoOrder
    /\ taker'   = id
    /\ waiting' = waiting \ {id}
    /\ clock'   = clock + 1
    /\ order'   = [order EXCEPT ![id].stamp = clock']
    /\ UNCHANGED <<nextID, resting, trades>>

\* The taker meets the order that is first in line.
Trade ==
  /\ taker # NoOrder
  /\ order[taker].qty > 0
  /\ \E m \in First :
       LET q   == MinOf(order[taker].qty, order[m].qty)
           buy == IF order[taker].side = Buy THEN taker ELSE m
       IN  /\ trades'  = Append(trades,
                           [buy   |-> buy,
                            sell  |-> IF buy = taker THEN m ELSE taker,
                            price |-> order[m].price,
                            qty   |-> q])
           /\ order'   = [order EXCEPT ![taker].qty = @ - q, ![m].qty = @ - q]
           /\ resting' = IF order[m].qty = q THEN resting \ {m} ELSE resting
  /\ UNCHANGED <<nextID, waiting, taker, clock>>

\* An order that can trade no more leaves, and rests if it has a limit and
\* some quantity left.
Settle ==
  /\ taker # NoOrder
  /\ order[taker].qty = 0 \/ Acceptable = {}
  /\ resting' = IF order[taker].qty > 0 /\ order[taker].price # NoLimit
                THEN resting \cup {taker} ELSE resting
  /\ taker'   = NoOrder
  /\ UNCHANGED <<nextID, order, waiting, clock, trades>>

Withdraw ==
  /\ taker = NoOrder
  /\ \E id \in resting : resting' = resting \ {id}
  /\ UNCHANGED <<nextID, order, waiting, taker, clock, trades>>

Next == Submit \/ Arrive \/ Trade \/ Settle \/ Withdraw

Spec == Init /\ [][Next]_vars

=============================================================================
