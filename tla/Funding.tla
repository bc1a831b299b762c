------------------------------- MODULE Funding ------------------------------
(***************************************************************************)
(* The settlement of funding (engine/funding/scheduler.go) beside trades.  *)
(*                                                                         *)
(* One goroutine goes through the positions that were Active at the hour.  *)
(* For each position of a user it inserts a row into funding_settlements,  *)
(* updates the column funding_pnl, and then, holding Engine.mu, the        *)
(* account in the database and in memory.  Whatever fails, it sleeps and   *)
(* starts with the same position again.  Meanwhile trades are applied leg  *)
(* by leg under Engine.mu, and the worker writes their events to the same  *)
(* tables in its own time.                                                 *)
(*                                                                         *)
(* The last price does not move and there are no frozen amounts.  The      *)
(* liquidation price, derived from the other fields, is left out.          *)
(***************************************************************************)
EXTENDS Events

CONSTANTS
  Price,           \* the last price
  Rates,           \* funding rates fetched
  Quantities,      \* quantities traded
  Leverage,        \* leverage of the users
  MaxTrades,       \* bound: trades, takeovers and closes begun
  MaxSettlements,  \* bound: hours at which there is a settlement
  MaxFailures      \* bound: statements that fail for reasons of the database

ASSUME PriceAssumption == Price \in Nat \ {0} /\ Leverage \in Nat \ {0}
ASSUME RatesAssumption == Rates \subseteq Int /\ Quantities \subseteq Nat \ {0}

VARIABLES
  mem,      \* accounts and positions
  legs,     \* legs that ProcessTrades has still to apply
  queue,    \* Settler.events
  db,       \* tables accounts, positions, and, counting the rows of this
            \* settlement by position, funding_settlements
  sched,    \* local variables of settle and settlePosition
  listed,   \* what the pointers of the positions not yet settled point at
  counts,   \* bounds: trades, settlements and failures so far
  charged,  \* history: by position, how often this settlement charged it
  sums,     \* history: by user, sums of payments; see Pay
  calm,     \* history: nothing has come between this settlement and its end
  apart     \* history: users and positions whose rows took another way

vars == <<mem, legs, queue, db, sched, listed, counts, charged, sums, calm, apart>>

engine  == <<mem, legs, queue>>
history == <<charged, sums, calm, apart>>

Asleep == [pc |-> "idle", rate |-> 0, at |-> 0, payment |-> 0, old |-> 0]

Nobody == [u \in Traders |-> 0]

\* due: payments settled; forgiven: what of them neither balance nor margin
\* could bear; clamped: what AddPnl gave to end at zero; missed: payments
\* settled for positions no longer cached; overwritten: what a FundingPnl lacks
\* because a trade and the scheduler wrote it at the same time; before: all
\* that was due before this settlement.
Init ==
  /\ mem     = InitMem
  /\ legs    = <<>>
  /\ queue   = <<>>
  /\ db      = [bal |-> [u \in Users |-> InitialBalance], pos |-> << >>, rows |-> << >>]
  /\ sched   = Asleep
  /\ listed  = << >>
  /\ counts  = [trades |-> 0, settlements |-> 0, failures |-> 0]
  /\ charged = << >>
  /\ sums    = [due |-> Nobody, forgiven |-> Nobody, clamped |-> Nobody,
                missed |-> Nobody, overwritten |-> Nobody, before |-> 0]
  /\ calm    = TRUE
  /\ apart   = [users |-> {}, pos |-> {}]

-----------------------------------------------------------------------------
(* The rest of the system.                                                 *)

\* allPositions holds pointers: a position that is removed stays as it was.
Pointing(shown) ==
  listed' = [i \in DOMAIN shown |-> IF i \in DOMAIN mem'.pos THEN mem'.pos[i] ELSE shown[i]]

\* A bounded step of a user or of the monitor, outside the settlement.
Count(what) == counts' = [counts EXCEPT ![what] = @ + 1]

Disturb == calm' = (calm /\ sched.pc = "idle")

\* A match: ProcessTrades is about to apply both sides.
Trade(buyer, seller, q) ==
  /\ legs = <<>>
  /\ counts.trades < MaxTrades
  /\ Count("trades")
  /\ legs' = <<[user |-> buyer,  side |-> Long,  qty |-> q, price |-> Price],
               [user |-> seller, side |-> Short, qty |-> q, price |-> Price]>>
  /\ Disturb
  /\ UNCHANGED <<mem, queue, db, sched, listed, charged, sums, apart>>

\* TakeOver: the liquidation engine takes all of a position.
TakeOver(i) ==
  /\ legs = <<>>
  /\ counts.trades < MaxTrades
  /\ mem.pos[i].user \in Users /\ mem.pos[i].state = Active
  /\ Count("trades")
  /\ LET p == mem.pos[i]
     IN  legs' = <<[user |-> p.user, side |-> -p.side, qty |-> p.qty, price |-> Price],
                   [user |-> LIQ,    side |->  p.side, qty |-> p.qty, price |-> Price]>>
  /\ Disturb
  /\ UNCHANGED <<mem, queue, db, sched, listed, charged, sums, apart>>

\* ClosePosition marks a position; its order meets nobody for now.
BeginClose(i) ==
  /\ counts.trades < MaxTrades
  /\ mem.pos[i].user \in Users /\ mem.pos[i].state = Active
  /\ Count("trades")
  /\ mem' = SetState(mem, i, Closing)
  /\ Pointing(listed)
  /\ Disturb
  /\ UNCHANGED <<legs, queue, db, sched, charged, sums, apart>>

\* executeClose found no liquidity.
Reopen(i) ==
  /\ mem.pos[i].state = Closing
  /\ mem' = SetState(mem, i, Active)
  /\ Pointing(listed)
  /\ Disturb
  /\ UNCHANGED <<legs, queue, db, sched, counts, charged, sums, apart>>

\* UpdatePosition for the next leg; a position that is increased keeps its
\* old row.
ApplyLeg ==
  /\ legs # <<>>
  /\ LET l == Head(legs)
         lev == IF l.user \in Users THEN Leverage ELSE 1
     IN  /\ mem' \in UpdatePosition(mem, l.user, l.side, l.qty, l.price, lev, FALSE)
         /\ LET events == TradeEvents(mem, mem', l, 0)
            IN  /\ queue' = queue \o events
                /\ apart' = [apart EXCEPT !.pos = @ \cup
                     {events[n].pos : n \in {k \in DOMAIN events : events[k].type = "increase"}}]
  /\ legs' = Tail(legs)
  /\ Pointing(listed)
  /\ Disturb
  /\ UNCHANGED <<db, sched, counts, charged, sums>>

\* The reference of an update to its row.
Accepts(d, e) == e.type # "open" => e.pos \in DOMAIN d.pos

\* execTx: the worker's transaction commits, or is rolled back and forgotten.
Persist ==
  /\ queue # <<>>
  /\ queue' = Tail(queue)
  /\ LET e == Head(queue)
     IN  \/ /\ Accepts(db, e)
            /\ db' = [db EXCEPT !.bal = BalancesAfter(db, e), !.pos = PositionsAfter(db, e)]
            /\ UNCHANGED <<counts, apart>>
         \/ /\ ~Accepts(db, e) \/ counts.failures < MaxFailures
            /\ IF Accepts(db, e) THEN Count("failures") ELSE UNCHANGED counts
            /\ apart' = [apart EXCEPT !.users = @ \cup {e.user}]
            /\ UNCHANGED db
  /\ UNCHANGED <<mem, legs, sched, listed, charged, sums, calm>>

-----------------------------------------------------------------------------
(* settle.                                                                 *)

Total(f) == SumFunctionOnSet(f, Traders)

\* GetAll returns Active positions.
Actives == Restrict(mem.pos, {i \in DOMAIN mem.pos : mem.pos[i].state = Active})

\* The market maker has no account in the database.
WithAccount(shown) == {i \in DOMAIN shown : shown[i].user # MM}

\* CreateRate has succeeded.  A settlement that starts between two legs, or
\* that does not see a position, is not expected to come out even.
Begin(rate) ==
  /\ sched.pc = "idle"
  /\ counts.settlements < MaxSettlements
  /\ rate # 0
  /\ Count("settlements")
  /\ sched'   = [Asleep EXCEPT !.pc = "list", !.rate = rate]
  /\ listed'  = Actives
  /\ charged' = [i \in DOMAIN Actives |-> 0]
  /\ db'      = [db EXCEPT !.rows = [i \in WithAccount(Actives) |-> 0]]
  /\ sums'    = [sums EXCEPT !.before = Total(sums.due)]
  /\ calm'    = (legs = <<>> /\ DOMAIN Actives = DOMAIN mem.pos /\ Total(mem.lost) = 0)
  /\ UNCHANGED <<engine, apart>>

\* No rate, or CreateRate fails: nothing until the next hour.
Skip ==
  /\ sched.pc = "idle"
  /\ counts.settlements < MaxSettlements
  /\ Count("settlements")
  /\ UNCHANGED <<engine, db, sched, listed, history>>

\* FundingPnl += payment, if the position is still cached.
Accrue(m, i, payment) ==
  IF i \in DOMAIN m.pos THEN [m EXCEPT !.pos[i].funding = @ + payment] ELSE m

\* FundingPnl = funding, if the position is still cached.
SetFunding(m, i, funding) ==
  IF i \in DOMAIN m.pos THEN [m EXCEPT !.pos[i].funding = funding] ELSE m

\* Position i of user u has been settled in memory.
Pay(i, u, payment, forgiven, clamped, overwritten) ==
  /\ charged' = [charged EXCEPT ![i] = @ + 1]
  /\ sums' = [sums EXCEPT !.due[u] = @ + payment,
                          !.forgiven[u] = @ + forgiven,
                          !.clamped[u] = @ + clamped,
                          !.missed[u] = IF i \in DOMAIN mem.pos THEN @ ELSE @ + payment,
                          !.overwritten[u] = @ + overwritten]
  /\ sched' = [sched EXCEPT !.pc = "list", !.at = 0, !.payment = 0, !.old = 0]
  /\ Pointing(Restrict(listed, DOMAIN listed \ {i}))

\* CalcFundingPayment of what the pointer shows now.
PaymentFor(i) ==
  CalcFundingPayment(listed[i].qty * Price, sched.rate, listed[i].side)

\* The next position, or once more the one that failed.
AtPosition(i) ==
  /\ sched.pc = "list"
  /\ i \in DOMAIN listed
  /\ sched.at \in {0, i}

\* The market maker, in memory only, without the lock and the database: the
\* payment for what his position shows now,
SettleSystem(i) ==
  /\ AtPosition(i)
  /\ listed[i].user = MM
  /\ sched' = [sched EXCEPT !.pc = "credit", !.at = i, !.payment = PaymentFor(i)]
  /\ UNCHANGED <<engine, db, listed, counts, history>>

\* AddPnl,
CreditSystem ==
  /\ sched.pc = "credit"
  /\ mem' = AddPnl(mem, MM, sched.payment)
  /\ sums' = [sums EXCEPT !.clamped[MM] = @ + Clamped(mem, MM, sched.payment)]
  /\ sched' = [sched EXCEPT !.pc = "read"]
  /\ Pointing(listed)
  /\ UNCHANGED <<legs, queue, db, counts, charged, calm, apart>>

\* Update, which reads FundingPnl if the position is still cached,
ReadSystem ==
  /\ sched.pc = "read"
  /\ UNCHANGED <<engine, db, counts, calm, apart>>
  /\ IF sched.at \in DOMAIN mem.pos
     THEN /\ sched' = [sched EXCEPT !.pc = "write", !.old = mem.pos[sched.at].funding]
          /\ UNCHANGED <<listed, charged, sums>>
     ELSE Pay(sched.at, MM, sched.payment, 0, 0, 0)

\* and writes it: over what a reduction in between has left, or to a position
\* that is out of the cache by now.
WriteSystem ==
  /\ sched.pc = "write"
  /\ mem' = SetFunding(mem, sched.at, sched.old + sched.payment)
  /\ Pay(sched.at, MM, sched.payment, 0, 0,
         IF sched.at \in DOMAIN mem.pos THEN mem.pos[sched.at].funding - sched.old ELSE 0)
  /\ UNCHANGED <<legs, queue, db, counts, calm, apart>>

\* The other way round: handleReduce has read FundingPnl before it is written
\* and writes it afterwards.  Nobody can look in between, so it is one step.
WriteSystemInTrade ==
  /\ sched.pc = "write"
  /\ legs # <<>>
  /\ LET l == Head(legs)
     IN  /\ l.user = MM
         /\ sched.at \in Opposites(mem, MM, l.side)
         /\ mem' = HandleReduce(mem, sched.at, l.side, l.qty, l.price, 1)
  /\ legs' = Tail(legs)
  /\ Pay(sched.at, MM, sched.payment, 0, 0, sched.payment)
  /\ calm' = FALSE
  /\ UNCHANGED <<queue, db, counts, apart>>

\* A statement fails for reasons of the database; settlePosition starts again.
Fails ==
  /\ counts.failures < MaxFailures
  /\ Count("failures")

\* Mistake: the attempt that fails keeps a lock that the next one waits for.
StartOverLocked == sched' = [sched EXCEPT !.pc = "locked", !.payment = 0]

StartOver == sched' = [sched EXCEPT !.pc = "list", !.payment = 0]

\* settlePosition: CreateSettlement.  The row refers to a position in the
\* database, where those of the liquidation engine never are.
CreateSettlement(i) ==
  /\ AtPosition(i)
  /\ listed[i].user # MM
  /\ \/ /\ i \in DOMAIN db.pos
        /\ db' = [db EXCEPT !.rows[i] = @ + 1]
        /\ sched' = [sched EXCEPT !.pc = "column", !.at = i, !.payment = PaymentFor(i)]
        /\ UNCHANGED counts
     \/ /\ \/ i \notin DOMAIN db.pos /\ UNCHANGED counts
           \/ i \in DOMAIN db.pos /\ Fails
        /\ sched' = [sched EXCEPT !.at = i]
        /\ UNCHANGED db
  /\ UNCHANGED <<engine, listed, history>>

UpdateFundingPnl ==
  /\ sched.pc = "column"
  /\ \/ /\ db' = [db EXCEPT !.pos[sched.at].funding = @ + sched.payment]
        /\ sched' = [sched EXCEPT !.pc = "lock"]
        /\ UNCHANGED counts
     \/ Fails /\ StartOver /\ UNCHANGED db
  /\ UNCHANGED <<engine, listed, history>>

Holder == listed[sched.at].user

\* The check of the balance under Engine.mu.
Sufficient == sched.payment < 0 => Available(mem, Holder) + sched.payment >= 0

\* Mistake: memory first, then the database, which may fail.
ChargeMemoryFirst ==
  /\ sched.pc = "lock"
  /\ Sufficient
  /\ mem' = AddPnl(Accrue(mem, sched.at, sched.payment), Holder, sched.payment)
  /\ \/ /\ db' = [db EXCEPT !.bal[Holder] = @ + sched.payment]
        /\ Pay(sched.at, Holder, sched.payment, 0, Clamped(mem, Holder, sched.payment), 0)
        /\ UNCHANGED counts
     \/ /\ Fails /\ StartOver
        /\ charged' = [charged EXCEPT ![sched.at] = @ + 1]
        /\ Pointing(listed)
        /\ UNCHANGED <<db, sums>>
  /\ UNCHANGED <<legs, queue, calm, apart>>

\* AccountModel.AddPnl, then memory.
ChargeBalance ==
  /\ sched.pc = "lock"
  /\ Sufficient
  /\ \/ /\ db' = [db EXCEPT !.bal[Holder] = @ + sched.payment]
        /\ mem' = AddPnl(Accrue(mem, sched.at, sched.payment), Holder, sched.payment)
        /\ Pay(sched.at, Holder, sched.payment, 0, Clamped(mem, Holder, sched.payment), 0)
        /\ UNCHANGED counts
     \/ Fails /\ StartOver /\ UNCHANGED <<mem, db, listed, charged, sums>>
  /\ UNCHANGED <<legs, queue, calm, apart>>

\* What the balance can give, and the margin that is left after the rest.
FromBalance == IF Available(mem, Holder) > 0 THEN Available(mem, Holder) ELSE 0

\* AddPnl for it, if it gives anything.
Withdraw(m) == IF FromBalance > 0 THEN AddPnl(m, Holder, -FromBalance) ELSE m

NewMargin ==
  LET fromMargin == -(sched.payment + Available(mem, Holder))
  IN  IF fromMargin > listed[sched.at].margin THEN 0
      ELSE listed[sched.at].margin - fromMargin

SetMargin(m, i, margin) ==
  IF i \in DOMAIN m.pos THEN [m EXCEPT !.pos[i].margin = margin] ELSE m

\* Mistake: the margin is set in memory only.
ChargeMarginInMemory ==
  /\ sched.pc = "lock"
  /\ ~Sufficient
  /\ LET i == sched.at
         lent == IF i \in DOMAIN mem.pos THEN mem.pos[i].margin - NewMargin ELSE 0
     IN  /\ mem' = SetMargin(Withdraw(Accrue(mem, i, sched.payment)),
                             i, NewMargin)
         /\ db' = [db EXCEPT !.bal[Holder] = @ - FromBalance]
         /\ Pay(i, Holder, sched.payment, -sched.payment - FromBalance - lent, 0, 0)
  /\ UNCHANGED <<legs, queue, counts, calm, apart>>

\* settleInsufficientBalance: AddPnl and UpdateMargin, then memory.  A row that
\* an event still in the queue is to set goes its own way.
ChargeMargin ==
  /\ sched.pc = "lock"
  /\ ~Sufficient
  /\ LET i == sched.at
         lent == IF i \in DOMAIN mem.pos THEN mem.pos[i].margin - NewMargin ELSE 0
     IN  /\ mem' = SetMargin(Withdraw(Accrue(mem, i, sched.payment)),
                             i, NewMargin)
         /\ db' = [db EXCEPT !.bal[Holder] = @ - FromBalance, !.pos[i].margin = NewMargin]
         /\ Pay(i, Holder, sched.payment, -sched.payment - FromBalance - lent, 0, 0)
         /\ apart' = [apart EXCEPT !.pos = @ \cup
              {queue[n].pos : n \in {k \in DOMAIN queue : queue[k].pos = i}}]
  /\ calm' = FALSE
  /\ UNCHANGED <<legs, queue, counts>>

\* settleInsufficientBalance fails in its first or its second statement.
ChargeMarginFails ==
  /\ sched.pc = "lock"
  /\ ~Sufficient
  /\ Fails /\ StartOver
  /\ \/ FromBalance > 0 /\ UNCHANGED <<db, apart>>
     \/ /\ db' = [db EXCEPT !.bal[Holder] = @ - FromBalance]
        /\ apart' = IF FromBalance > 0 THEN [apart EXCEPT !.users = @ \cup {Holder}] ELSE apart
  /\ UNCHANGED <<engine, listed, charged, sums, calm>>

End ==
  /\ sched.pc = "list"
  /\ listed = << >>
  /\ sched' = Asleep
  /\ UNCHANGED <<engine, db, listed, counts, history>>

-----------------------------------------------------------------------------
\* A step of a settlement that has begun.
SettleStep ==
  \/ \E i \in DOMAIN listed : SettleSystem(i) \/ CreateSettlement(i)
  \/ CreditSystem
  \/ ReadSystem
  \/ WriteSystem
  \/ WriteSystemInTrade
  \/ UpdateFundingPnl
  \/ ChargeBalance
  \/ ChargeMargin
  \/ ChargeMarginFails
  \/ End

EngineStep ==
  \/ \E u, v \in Users \cup {MM}, q \in Quantities : u # v /\ Trade(u, v, q)
  \/ \E i \in DOMAIN mem.pos : TakeOver(i) \/ BeginClose(i) \/ Reopen(i)
  \/ ApplyLeg

Next ==
  \/ EngineStep
  \/ Persist
  \/ \E rate \in Rates : Begin(rate)
  \/ Skip
  \/ SettleStep

\* The scheduler sleeps and tries again, the worker takes the next event, and
\* a call that has matched applies its trades.
Fairness ==
  /\ WF_vars(SettleStep)
  /\ WF_vars(Persist)
  /\ WF_vars(ApplyLeg)

Spec == Init /\ [][Next]_vars /\ Fairness

-----------------------------------------------------------------------------
\* However often settlePosition starts again, a settlement charges each position
\* it has listed once, in turn, and a user's only when it has left a row.
ChargedOnce ==
  \A i \in DOMAIN charged :
    /\ charged[i] = IF i \in DOMAIN listed THEN 0 ELSE 1
    /\ i \in DOMAIN db.rows /\ charged[i] = 1 => db.rows[i] >= 1

\* The market maker's payment while only his balance has it.
UnderWay(u) == IF sched.pc \in {"read", "write"} /\ u = MM THEN sched.payment ELSE 0

\* Funding neither makes nor loses money of a trader, whatever trades come
\* between the steps of a settlement: beside prices and fees, balance and
\* margins change by the payments, less what they could not bear, by what AddPnl
\* gives a negative balance, and by the part of the payments that closes have
\* realized a second time.
FundingAccounted ==
  \A u \in Traders :
    mem.bal[u] + Held(mem, u) + mem.paid[u] + mem.fees[u] + Kept(mem, u)
      = 2 * sums.due[u] + sums.forgiven[u] + sums.clamped[u]
        - sums.missed[u] - sums.overwritten[u] + UnderWay(u)
        + IF u \in Users THEN InitialBalance ELSE SystemBalance

\* What the events in the queue will still add to the balance of u.
Pending(u) ==
  SumFunctionOnSet([n \in DOMAIN queue |-> IF queue[n].user = u THEN queue[n].delta ELSE 0],
                   DOMAIN queue)

\* Memory and database never disagree about a user of whom nothing was rolled
\* back or half done: about the balance, but for events in the queue and for what
\* AddPnl gave in memory alone, and about the margin of a position without such
\* events.
FundingBackedUp ==
  \A u \in Users \ apart.users :
    /\ mem.bal[u] = db.bal[u] + sums.clamped[u] + Pending(u)
    /\ \A i \in HeldBy(mem, u) \ apart.pos :
         (\A n \in DOMAIN queue : queue[n].pos # i) =>
           i \in DOMAIN db.pos /\ db.pos[i].margin = mem.pos[i].margin

\* README_EN.md:56, longs and shorts pay each other: a settlement that nothing
\* came between, and that everyone could pay, takes as much as it gives.
FundingBalanced == sched.pc = "idle" /\ calm => Total(sums.due) = sums.before

\* The row of the position at hand is not in the database and nobody is about
\* to insert it.
Blocked ==
  /\ sched.pc = "list" /\ sched.at # 0
  /\ sched.at \notin DOMAIN db.pos
  /\ \A n \in DOMAIN queue : queue[n].type = "open" => queue[n].pos # sched.at

\* A settlement ends, through failures and retries, unless it comes to a
\* position that has no row and never will.
EndsUnlessBlocked == sched.pc # "idle" ~> sched.pc = "idle" \/ Blocked

=============================================================================
