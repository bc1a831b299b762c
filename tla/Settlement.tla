----------------------------- MODULE Settlement -----------------------------
(***************************************************************************)
(* What the matching engine leaves in the database                         *)
(* (engine/clearing/settler.go and the models it writes with), and what a  *)
(* restart recovers from it (LoadCachesFromDB in svc/service_context.go).  *)
(*                                                                         *)
(* Memory decides; an event for each change goes to a queue, and a worker  *)
(* runs one transaction for each event.  A transaction that fails is       *)
(* rolled back, and its event is gone.  The steps of the handlers are      *)
(* those of Trading, each with the events it submits.  System users are    *)
(* not persisted, and the market maker and the feed stay still here.       *)
(***************************************************************************)
EXTENDS Trading, Events

CONSTANTS
  BufferSize,   \* events the channel holds
  MaxFailures,  \* bound: transactions that fail for reasons of the database
  MaxRestarts,  \* bound: ends of the process
  MaxResets     \* bound: accounts reset

\* handleReduce may submit two events under one lock.
ASSUME BufferAssumption == BufferSize \in Nat \ {0, 1}
ASSUME FaultsAssumption ==
  MaxFailures \in Nat /\ MaxRestarts \in Nat /\ MaxResets \in Nat

VARIABLES
  queue,     \* Settler.events
  hand,      \* the event each consumer has taken and not yet settled
  db,        \* the tables accounts, orders and positions
  sent,      \* threads at "resting" that have submitted their order
  stopping,  \* Settler.Stop has been called
  reset,     \* how far AccountLogic.Reset is, by user
  resets,    \* bound: accounts reset
  mixed,     \* history: users whose account was reset in the middle of something
  failures,  \* bound: transactions that failed
  restarts,  \* bound: ends of the process
  apart,     \* history: users of whom an event was rolled back since the start
  shortBy,   \* history: by user, what was frozen when memory was loaded
  merged     \* history: positions that were increased since the start

flow  == <<queue, hand, db, sent, stopping>>
notes == <<failures, restarts, apart, shortBy, merged>>
logic == <<reset, resets, mixed>>

svars == <<vars, flow, notes, logic>>

\* The worker goroutine, and the goroutine that runs Stop.
Worker    == "worker"
Main      == "main"
Consumers == {Worker, Main}

-----------------------------------------------------------------------------
(* Events.  The delta of the balance is, negated, also that of the frozen  *)
(* amount when an order is frozen for or cancelled.                        *)

\* submitOrder
OrderEvent(c, status, cost) ==
  [type |-> "create", user |-> c.user, order |-> c.id, pos |-> 0, delta |-> -cost,
   row  |-> [user |-> c.user, lev |-> c.lev, cost |-> cost, status |-> status]]

CancelEvent(c) ==
  [type |-> "cancel", user |-> c.user, order |-> c.id, pos |-> 0, delta |-> c.cost,
   row  |-> [status |-> "canceled"]]

\* Mistake: closes do not submit their order.
FilledOrderOfOpens(c, legs) ==
  IF legs = <<>> \/ c.pos # 0 THEN <<>> ELSE <<OrderEvent(c, "filled", 0)>>

\* The order of market orders and of limit orders filled at once, submitted
\* only when there were trades.
FilledOrder(c, legs) ==
  IF legs = <<>> THEN <<>> ELSE <<OrderEvent(c, "filled", 0)>>

-----------------------------------------------------------------------------
(* Transactions.                                                           *)

\* The inserts and updates of e violate no constraint of the schema: primary
\* keys, the references of a trade to its order and position, and CancelTx's
\* own check that the order is pending.
Accepts(d, e) ==
  /\ e.type = "create" => e.order \notin DOMAIN d.orders
  /\ e.type # "create" => e.order \in DOMAIN d.orders
  /\ e.type = "cancel" => d.orders[e.order].status = "pending"
  /\ e.type = "open" => e.pos \notin DOMAIN d.pos
  /\ e.type \in {"increase", "reduce", "close"} => e.pos \in DOMAIN d.pos

\* Mistake: a cancelled order keeps its status.
OrdersAfterCreate(d, e) ==
  IF e.type = "create" THEN Put(d.orders, e.order, e.row) ELSE d.orders

\* CreateTx and CancelTx of the order model.
OrdersAfter(d, e) ==
  CASE e.type = "create" -> Put(d.orders, e.order, e.row)
    [] e.type = "cancel" -> [d.orders EXCEPT ![e.order].status = e.row.status]
    [] OTHER             -> d.orders

FrozenAfter(d, e) ==
  IF e.type \in {"create", "cancel"} THEN [d.frozen EXCEPT ![e.user] = @ - e.delta]
                                     ELSE d.frozen

\* settleCreateOrder, settleTrade and settleCancelOrder.
Settled(d, e) ==
  [bal    |-> BalancesAfter(d, e),
   frozen |-> FrozenAfter(d, e),
   orders |-> OrdersAfter(d, e),
   pos    |-> PositionsAfter(d, e)]

-----------------------------------------------------------------------------
SInit ==
  /\ Init
  /\ queue    = <<>>
  /\ hand     = [w \in Consumers |-> <<>>]
  /\ db       = [bal    |-> [u \in Users |-> InitialBalance],
                 frozen |-> [u \in Users |-> 0],
                 orders |-> << >>,
                 pos    |-> << >>]
  /\ sent     = {}
  /\ stopping = FALSE
  /\ reset    = [u \in Users |-> "none"]
  /\ resets   = 0
  /\ mixed    = {}
  /\ failures = 0
  /\ restarts = 0
  /\ apart    = {}
  /\ shortBy  = [u \in Users |-> 0]
  /\ merged   = {}

-----------------------------------------------------------------------------
(* The handlers.                                                           *)

\* Submit blocks when the channel is full.
Submit(events) ==
  /\ Len(queue) + Len(events) <= BufferSize
  /\ queue' = queue \o events

\* Steps without an event.
SilentStep(t) ==
  /\ ~stopping
  /\ \/ \E u \in Users, s \in Sides, q \in Quantities, lev \in Leverages :
          \/ PlaceMarketOrder(t, u, s, q, lev)
          \/ \E p \in LimitPrices : PlaceLimitOrder(t, u, s, q, p, lev)
     \/ \E i \in DOMAIN mem.pos, q \in Quantities :
          ClosePosition(t, i, q) \/ RefuseClose(t, i, q)
     \/ \E id \in DOMAIN cached : CancelOrder(t, id)
     \/ MatchLimit(t)
     \/ CancelInBook(t)
     \/ UnfreezeCancelled(t)
     \/ Reopen(t)
  /\ UNCHANGED <<flow, notes, logic>>

\* A market order or close has matched, or a limit order filled at once has
\* been unfrozen: the order goes to the settler before its trades.
SubmitFilled(t) ==
  /\ MatchMarket(t) \/ MatchClose(t) \/ UnfreezeFilled(t)
  /\ Submit(FilledOrder(calls[t], calls'[t].legs))
  /\ UNCHANGED <<hand, db, sent, stopping, notes, logic>>

\* PlaceLimitOrder submits a resting order, which already is in the book, and
\* then adds it to the order cache.
SubmitResting(t) ==
  /\ calls[t].pc = "resting"
  /\ t \notin sent
  /\ Submit(<<OrderEvent(calls[t], "pending", calls[t].cost)>>)
  /\ sent' = sent \cup {t}
  /\ UNCHANGED <<vars, hand, db, stopping, notes, logic>>

RegisterSent(t) ==
  /\ t \in sent
  /\ Register(t)
  /\ sent' = sent \ {t}
  /\ UNCHANGED <<queue, hand, db, stopping, notes, logic>>

SubmitCancel(t) ==
  /\ Uncache(t)
  /\ Submit(<<CancelEvent(calls[t])>>)
  /\ UNCHANGED <<hand, db, sent, stopping, notes, logic>>

\* UpdatePosition, under Engine.mu.  A leg of the taker carries the taker's
\* order, also when he has traded with himself.
SubmitTrade(t) ==
  /\ ApplyLeg(t)
  /\ LET c      == calls[t]
         l      == Head(c.legs)
         events == TradeEvents(mem, mem', l, IF l.user = c.user THEN c.id ELSE l.id)
     IN  /\ Submit(events)
         /\ merged' = merged \cup {events[n].pos : n \in {n \in DOMAIN events :
                                                           events[n].type = "increase"}}
  /\ UNCHANGED <<hand, db, sent, stopping, failures, restarts, apart, shortBy, logic>>

-----------------------------------------------------------------------------
(* The settler.                                                            *)

\* processLoop, and the loop of Stop beside it, which does not wait for it.
\* The worker may also see that Stop has been called, and take no more.
TakeEvent(w) ==
  /\ w = Main => stopping
  /\ hand[w] = <<>>
  /\ queue # <<>>
  /\ hand'  = [hand EXCEPT ![w] = <<Head(queue)>>]
  /\ queue' = Tail(queue)
  /\ UNCHANGED <<vars, db, sent, stopping, notes, logic>>

\* execTx commits, or rolls back what a constraint refuses.
Settle(w) ==
  /\ hand[w] # <<>>
  /\ LET e == Head(hand[w])
     IN  IF Accepts(db, e)
         THEN db' = Settled(db, e) /\ UNCHANGED apart
         ELSE apart' = apart \cup {e.user} /\ UNCHANGED db
  /\ hand' = [hand EXCEPT ![w] = <<>>]
  /\ UNCHANGED <<vars, queue, sent, stopping, failures, restarts, shortBy, merged, logic>>

\* execTx fails on its own: no connection, a timeout, a failed commit.
Fail(w) ==
  /\ failures < MaxFailures
  /\ hand[w] # <<>>
  /\ apart'    = apart \cup {Head(hand[w]).user}
  /\ hand'     = [hand EXCEPT ![w] = <<>>]
  /\ failures' = failures + 1
  /\ UNCHANGED <<vars, queue, db, sent, stopping, restarts, shortBy, merged, logic>>

\* StopEngines, after server.Start has returned: no call is under way, and none
\* comes.
Stop ==
  /\ ~stopping
  /\ AllIdle
  /\ \A u \in Users : reset[u] = "none"
  /\ restarts < MaxRestarts
  /\ stopping' = TRUE
  /\ UNCHANGED <<vars, queue, hand, db, sent, notes, logic>>

-----------------------------------------------------------------------------
(* The reset of an account (AccountLogic.Reset), which takes neither       *)
(* Engine.mu nor the queue.                                                *)

\* Events not yet settled.
Unsettled == queue \o hand[Worker] \o hand[Main]

\* No call, trade or event of u is under way, and none was rolled back.
Quiet(u) ==
  /\ u \notin apart
  /\ \A n \in DOMAIN Unsettled : Unsettled[n].user # u
  /\ \A t \in Threads : calls[t].user # u /\ \A n \in DOMAIN calls[t].legs :
                                               calls[t].legs[n].user # u

NothingOpen(u) ==
  /\ HeldBy(mem, u) = {}
  /\ \A i \in DOMAIN cached : cached[i].user # u

\* The user has no position and no order: this is checked once.
CheckReset(u) ==
  /\ ~stopping
  /\ resets < MaxResets
  /\ reset[u] = "none"
  /\ NothingOpen(u)
  /\ reset'  = [reset EXCEPT ![u] = "checked"]
  /\ resets' = resets + 1
  /\ UNCHANGED <<vars, flow, notes, mixed>>

\* AccountModel.Reset
ResetRow(u) ==
  /\ reset[u] = "checked"
  /\ db'    = [db EXCEPT !.bal[u] = InitialBalance, !.frozen[u] = 0]
  /\ reset' = [reset EXCEPT ![u] = "row"]
  /\ mixed' = IF Quiet(u) /\ NothingOpen(u) THEN mixed ELSE mixed \cup {u}
  /\ UNCHANGED <<vars, queue, hand, sent, stopping, notes, resets>>

\* Reset of the account cache, a new account.  Whatever the user has gained or
\* lost in between is in the database only.
ResetMemory(u) ==
  /\ reset[u] = "row"
  /\ mem'     = [mem EXCEPT !.bal[u] = InitialBalance, !.frozen[u] = 0]
  /\ reset'   = [reset EXCEPT ![u] = "none"]
  /\ mixed'   = IF Quiet(u) /\ NothingOpen(u) /\ db.bal[u] = InitialBalance
                THEN mixed ELSE mixed \cup {u}
  /\ shortBy' = [shortBy EXCEPT ![u] = 0]
  /\ UNCHANGED <<book, cached, nextID, calls, fed, quotes, quoted, started, ticks, matched,
                 flow, failures, restarts, apart, merged, resets>>

-----------------------------------------------------------------------------
(* The end of the process, and LoadCachesFromDB in the next.               *)

\* Mistake: the counters start from nothing.
CounterFromZero(rows) == 0

\* The ID counter that starts from the rows of a table.
CounterFrom(rows) == Max({0} \cup DOMAIN rows)

Pending(u) == {i \in DOMAIN db.orders : /\ db.orders[i].user = u
                                        /\ db.orders[i].status = "pending"}

Open(u) == {i \in DOMAIN db.pos : db.pos[i].user = u /\ db.pos[i].state = Active}

\* Nothing in memory survives; orders go back to the cache, not to the book.
Reload ==
  LET loaded(table, u) == IF u \in Users THEN table[u] ELSE 0
  IN  /\ restarts < MaxRestarts
      /\ mem' = [InitMem EXCEPT
                   !.bal     = [u \in Traders |-> IF u \in Users THEN db.bal[u] ELSE @[u]],
                   !.frozen  = [u \in Traders |-> loaded(db.frozen, u)],
                   !.pos     = Restrict(db.pos, UNION {Open(u) : u \in Users}),
                   !.lastPos = CounterFrom(db.pos)]
      /\ cached'   = [i \in UNION {Pending(u) : u \in Users} |->
                        [user |-> db.orders[i].user, cost |-> db.orders[i].cost,
                         lev |-> db.orders[i].lev]]
      /\ nextID'   = CounterFrom(db.orders)
      /\ book'     = [s \in Sides |-> <<>>]
      /\ quotes'   = {}
      /\ quoted'   = 0
      /\ calls'    = [t \in AllThreads |-> Idle]
      /\ matched'  = [u \in Traders |-> 0]
      /\ queue'    = <<>>
      /\ hand'     = [w \in Consumers |-> <<>>]
      /\ sent'     = {}
      /\ stopping' = FALSE
      /\ reset'    = [u \in Users |-> "none"]
      /\ restarts' = restarts + 1
      /\ apart'    = {}
      /\ shortBy'  = db.frozen
      /\ merged'   = {}
      /\ UNCHANGED <<fed, started, ticks, db, failures, resets, mixed>>

Crash == ~stopping /\ Reload

\* Stop has found the queue empty and returns, whatever the worker holds.
Halt ==
  /\ stopping
  /\ queue = <<>>
  /\ hand[Main] = <<>>
  /\ Reload

-----------------------------------------------------------------------------
SNext ==
  \/ \E t \in Threads :
       \/ SilentStep(t)
       \/ SubmitFilled(t)
       \/ SubmitResting(t)
       \/ RegisterSent(t)
       \/ SubmitCancel(t)
       \/ SubmitTrade(t)
  \/ \E w \in Consumers : TakeEvent(w) \/ Settle(w) \/ Fail(w)
  \/ \E u \in Users : CheckReset(u) \/ ResetRow(u) \/ ResetMemory(u)
  \/ Stop
  \/ Crash
  \/ Halt

SSpec == SInit /\ [][SNext]_svars

-----------------------------------------------------------------------------
\* checkBalances of the reconciler: what a user can spend in memory is the
\* balance in the database, less what was frozen when memory was loaded.  The
\* balance in the database excludes frozen money already, and the loaded
\* account subtracts it again, until the account is reset.  Of a user whose
\* account was reset in the middle of something, nothing is said: the two
\* differ for good, also after a restart.
BalancesBackedUp ==
  \A u \in Users :
    Quiet(u) /\ u \notin mixed /\ reset[u] # "row" =>
      Available(mem, u) + shortBy[u] = db.bal[u]

\* checkPositions of the reconciler: the database has the positions of memory,
\* and the same quantity, margin and entry price of those that handleIncrease
\* has not touched.  Two reductions may be settled in either order once Stop
\* runs beside the worker.
PositionsBackedUp ==
  \A u \in Users : Quiet(u) /\ ~stopping =>
    /\ HeldBy(mem, u) = Open(u)
    /\ \A i \in HeldBy(mem, u) \ merged :
         /\ mem.pos[i].qty    = db.pos[i].qty
         /\ mem.pos[i].margin = db.pos[i].margin
         /\ mem.pos[i].entry  = db.pos[i].entry

\* The pending orders of the database are those the user can cancel.
OrdersBackedUp ==
  \A u \in Users : Quiet(u) => {i \in DOMAIN cached : cached[i].user = u} = Pending(u)

\* Whatever was lost when the process ended, an ID in use is not given out
\* again: what is to be inserted is not in the database, nor twice in the queue.
KeysFresh ==
  LET creates == {n \in DOMAIN Unsettled : Unsettled[n].type = "create"}
      opens   == {n \in DOMAIN Unsettled : Unsettled[n].type = "open"}
  IN  /\ \A n \in creates : Unsettled[n].order \notin DOMAIN db.orders
      /\ \A n \in opens   : Unsettled[n].pos \notin DOMAIN db.pos
      /\ \A n, k \in creates : Unsettled[n].order = Unsettled[k].order => n = k
      /\ \A n, k \in opens   : Unsettled[n].pos = Unsettled[k].pos => n = k

\* With a single consumer the first event of a user that a constraint refuses
\* is a second cancel of the same order, or a trade of a resting order that is
\* in the book but whose own event is still to come.
RefusedOnlyByRace ==
  \A n \in DOMAIN hand[Worker] :
    LET e    == hand[Worker][n]
        late == \/ \E k \in DOMAIN queue : /\ queue[k].type = "create"
                                           /\ queue[k].order = e.order
                \/ \E t \in Threads : /\ calls[t].pc = "resting"
                                      /\ calls[t].id = e.order
                                      /\ t \notin sent
    IN  ~stopping /\ e.user \notin apart /\ ~Accepts(db, e) =>
          \/ e.type = "cancel" /\ db.orders[e.order].status = "canceled"
          \/ e.type \in {"open", "increase", "reduce", "close"} /\ late

-----------------------------------------------------------------------------
\* docs/architecture_en.md:84-88, a restart loses nothing that was persisted: a
\* user of whom everything was settled can spend as much after it as before.
RestartKeepsMoney ==
  [][ restarts' # restarts =>
        \A u \in Users : Quiet(u) => Available(mem', u) = Available(mem, u) ]_svars

=============================================================================
