---------------------------- MODULE Liquidation ----------------------------
(***************************************************************************)
(* The risk engine: Monitor.OnPriceUpdate (engine/trading/monitor.go), the *)
(* liquidation engine (engine/trading/liquidation_engine.go), the          *)
(* insurance fund and auto-deleveraging (engine/adl/engine.go).  All of it *)
(* runs on the price feed's goroutine, the thread Feeder, between the      *)
(* steps of the handlers and of the market maker.                          *)
(*                                                                         *)
(* OnPriceUpdate holds pointers to positions.  A position that leaves the  *)
(* cache keeps its last contents for whoever still points to it: snap has  *)
(* what the pointers that are left to visit point to.                      *)
(***************************************************************************)
EXTENDS Trading

CONSTANTS
  InitialFund,  \* balance of the insurance fund at the start
  SlipPart      \* the slippage allowed is one SlipPart-th of the price

ASSUME FundAssumption == InitialFund \in Nat
ASSUME SlipAssumption == SlipPart \in Nat \ {0}

VARIABLES
  mark,     \* the mark price
  fund,     \* Fund.balance
  snap,     \* positions the running loop has still to visit, by ID
  watch,    \* where OnPriceUpdate is
  adlNet    \* history: signed quantity that auto-deleveraging has traded

lvars == <<vars, mark, fund, snap, watch, adlNet>>

\* The local variables of handleLiquidation (side, bankr, deficit), of
\* triggerADL (cuts) and of OnTick (at, id, trades).
Asleep == [pc |-> "idle", side |-> Long, bankr |-> 0, deficit |-> 0,
           cuts |-> <<>>, at |-> 0, id |-> 0, trades |-> <<>>]

Watch(w, pc) == watch' = [w EXCEPT !.pc = pc]

LInit ==
  /\ Init
  /\ mark   = price
  /\ fund   = InitialFund
  /\ snap   = << >>
  /\ watch  = Asleep
  /\ adlNet = 0

\* After a step a pointer sees what the step has made of its position.
Seen(s) == [i \in DOMAIN s |-> IF i \in DOMAIN mem'.pos THEN mem'.pos[i] ELSE s[i]]

Pointers(s) == snap' = Seen(s)

Unvisited(i) == Restrict(snap, DOMAIN snap \ {i})

\* OnPriceUpdate is not inside ProcessTrades or executeClose.
At(pc) == watch.pc = pc /\ calls[Feeder].pc = "idle"

-----------------------------------------------------------------------------
(* OnPriceUpdate.                                                          *)

\* The mark price is smoothed: it follows the last price at once or later.
NewPrice ==
  /\ At("idle")
  /\ fed < Len(Feed)
  /\ fed' = fed + 1
  /\ mark' \in {mark, Feed[fed + 1]}
  /\ Watch(Asleep, "tick")
  /\ UNCHANGED <<mem, book, cached, nextID, quotes, quoted, started, ticks, calls,
                 matched, fund, snap, adlNet>>

\* positionCache.GetAll
Scan ==
  /\ At("tick")
  /\ snap' = Restrict(mem.pos, {i \in DOMAIN mem.pos : mem.pos[i].state = Active})
  /\ Watch(Asleep, "scan")
  /\ UNCHANGED <<vars, mark, fund, adlNet>>

\* p is at or past q in the direction in which side s loses; past q.
AtOrPast(p, q, s) == (p - q) * s <= 0

isPastPrice(p, q, s) == (p - q) * s < 0

shouldLiquidate(i) ==
  LET p == snap[i]
  IN  AtOrPast(mark, CalcLiquidationPrice(p.entry, p.lev, p.side), p.side)

shouldForceTP(i) ==
  LET p == snap[i]
  IN  AtOrPast(CalcForceTpPrice(p.entry, p.lev, p.side), price, p.side)

\* TrySetState would succeed.
IsActive(i) == i \in DOMAIN mem.pos /\ mem.pos[i].state = Active

\* Neither is due, or TrySetState fails.
PassOver(i) ==
  /\ At("scan")
  /\ i \in DOMAIN snap
  /\ ~shouldLiquidate(i)
  /\ ~(shouldForceTP(i) /\ IsActive(i))
  /\ snap' = Unvisited(i)
  /\ UNCHANGED <<vars, mark, fund, watch, adlNet>>

\* handleForceTP: ClosePositionInternal, whose market order is MatchClose.
ForceTakeProfit(i) ==
  /\ At("scan")
  /\ i \in DOMAIN snap
  /\ ~shouldLiquidate(i) /\ shouldForceTP(i) /\ IsActive(i)
  /\ mem' = SetState(mem, i, ForceTPing)
  /\ DrawID
  /\ Goto(Feeder, [Idle EXCEPT !.user = mem.pos[i].user, !.side = -mem.pos[i].side,
                               !.lev = mem.pos[i].lev, !.qty = mem.pos[i].qty,
                               !.id = nextID + 1, !.pos = i], "close")
  /\ Pointers(Unvisited(i))
  /\ UNCHANGED <<book, cached, fed, quotes, quoted, started, ticks, matched,
                 mark, fund, watch, adlNet>>

-----------------------------------------------------------------------------
(* handleLiquidation.                                                      *)

\* Mistake: the synthetic trade has no liquidation engine on the other side.
TakeOverTradesOneSided(p, bankr, id) ==
  <<[side |-> -p.side, user |-> p.user, qty |-> p.qty, price |-> bankr, id |-> id]>>

\* The synthetic trade, user against liquidation engine at bankruptcy price.
TakeOverTrades(p, bankr, id) ==
  Legs(<<[side |-> p.side, user |-> LIQ, qty |-> p.qty, price |-> bankr, id |-> 0]>>,
       p.user, -p.side, id)

\* TakeOver reads quantity and state; only then does ProcessTrades take over.
\* The deficit past bankruptcy is claimed whether or not it does.
Liquidate(i) ==
  /\ At("scan")
  /\ i \in DOMAIN snap
  /\ shouldLiquidate(i)
  /\ snap' = Unvisited(i)
  /\ LET p     == snap[i]
         bankr == CalcBankruptcyPrice(p.entry, p.lev, p.side)
         legs  == TakeOverTrades(p, bankr, nextID + 1)
     IN  /\ IF p.state = Active
            THEN /\ DrawID
                 /\ Process(Feeder, [Idle EXCEPT !.user = p.user, !.side = -p.side,
                                       !.lev = p.lev, !.id = nextID + 1], legs)
                 /\ matched' = [u \in Traders |-> matched[u] + LegSum(legs, u)]
            ELSE UNCHANGED <<nextID, calls, matched>>
         /\ IF isPastPrice(price, bankr, p.side)
            THEN Watch([Asleep EXCEPT !.side = p.side, !.bankr = bankr,
                          !.deficit = Abs(bankr - price) * p.qty], "cover")
            ELSE UNCHANGED watch
  /\ UNCHANGED <<mem, book, cached, fed, quotes, quoted, started, ticks,
                 mark, fund, adlNet>>

\* Fund.Cover: the balance that is left.
Cover(balance, deficit) == IF balance >= deficit THEN balance - deficit ELSE 0

CoverDeficit ==
  /\ At("cover")
  /\ fund' = Cover(fund, watch.deficit)
  /\ IF fund >= watch.deficit
     THEN Watch(Asleep, "scan")
     ELSE Watch([watch EXCEPT !.deficit = @ - fund], "rank")
  /\ UNCHANGED <<vars, mark, snap, adlNet>>

-----------------------------------------------------------------------------
(* triggerADL.                                                             *)

Profit(i, p) == CalcUnrealizedPnL(mem.pos[i].entry, p, mem.pos[i].qty, mem.pos[i].side)

\* RankPositions: the Active positions on the other side with a profit both at
\* market and at the bankruptcy price, by return on margin times leverage.
Rankings ==
  LET targets == {i \in DOMAIN mem.pos : /\ mem.pos[i].state = Active
                                         /\ mem.pos[i].side = -watch.side
                                         /\ Profit(i, price) > 0
                                         /\ Profit(i, watch.bankr) > 0}
      Above(i, j) == Profit(i, price) * mem.pos[i].lev * mem.pos[j].margin
                       > Profit(j, price) * mem.pos[j].lev * mem.pos[i].margin
  IN  {r \in SetToSeqs(targets) :
         \A m, n \in DOMAIN r : Above(r[m], r[n]) => m < n}

\* ExecuteADL: how much to take from whom.  A profit at the bankruptcy price
\* means it is better than the entry price, so the settlement price is never
\* capped and each unit gives up the same profit.  A deficit of less than what
\* one unit gives up counts as covered.
ExecuteADL(ranked) ==
  LET need == watch.deficit \div Abs(price - watch.bankr)
      rows == [n \in DOMAIN ranked |-> mem.pos[ranked[n]]]
  IN  [n \in 1 .. Cardinality(Reached(rows, need)) |->
         [user |-> rows[n].user, qty |-> Fill(rows, need, n)]]

Rank ==
  /\ At("rank")
  /\ \E ranked \in Rankings :
       LET cuts == ExecuteADL(ranked)
       IN  IF cuts = <<>> THEN Watch(Asleep, "scan")
           ELSE Watch([watch EXCEPT !.cuts = cuts], "adl")
  /\ UNCHANGED <<vars, mark, fund, snap, adlNet>>

\* UpdatePosition for the next result, with nobody on the other side.
Deleverage ==
  /\ At("adl")
  /\ LET cut == Head(watch.cuts)
     IN  /\ DrawID
         /\ mem' \in UpdatePosition(mem, cut.user, watch.side, cut.qty, watch.bankr, 1, FALSE)
         /\ matched' = [matched EXCEPT ![cut.user] = @ + watch.side * cut.qty]
         /\ adlNet'  = adlNet + watch.side * cut.qty
  /\ IF Len(watch.cuts) = 1 THEN Watch(Asleep, "scan")
     ELSE Watch([watch EXCEPT !.cuts = Tail(@)], "adl")
  /\ Pointers(snap)
  /\ UNCHANGED <<book, cached, fed, quotes, quoted, started, ticks, calls, mark, fund>>

-----------------------------------------------------------------------------
(* LiquidationEngine.OnTick.                                               *)

\* The disposal interval has not passed, or there is nothing to dispose of.
NothingDue ==
  /\ At("scan")
  /\ snap = << >>
  /\ watch' = Asleep
  /\ UNCHANGED <<vars, mark, fund, snap, adlNet>>

StartDisposal ==
  /\ At("scan")
  /\ snap = << >>
  /\ HeldBy(mem, LIQ) # {}
  /\ snap' = Restrict(mem.pos, HeldBy(mem, LIQ))
  /\ Watch(Asleep, "dispose")
  /\ UNCHANGED <<vars, mark, fund, adlNet>>

\* The loop over the positions goes on with rest.
NextDisposal(rest) ==
  /\ snap' = rest
  /\ Watch(Asleep, IF rest = << >> THEN "idle" ELSE "dispose")

\* Half the position, or all of it when that is less than the smallest unit.
DisposeQty(qty) == IF qty < 2 THEN qty ELSE qty \div 2

\* PlaceLimit of the order that is to trade now or never.
Dispose(i) ==
  /\ At("dispose")
  /\ i \in DOMAIN snap
  /\ DrawID
  /\ LET id    == nextID + 1
         s     == -snap[i].side
         limit == price + s * (price \div SlipPart)
         m     == Matching(s, limit, DisposeQty(snap[i].qty))
         legs  == Legs(m.trades, LIQ, s, id)
         c     == [Idle EXCEPT !.user = LIQ, !.side = s, !.id = id, !.legs = legs]
         rest  == [id |-> id, user |-> LIQ, side |-> s, price |-> limit, qty |-> m.left]
     IN  /\ matched' = [u \in Traders |-> matched[u] + LegSum(legs, u)]
         /\ book' = [book EXCEPT ![-s] = m.rest,
                                 ![s]  = IF m.left > 0 THEN Queue(@, rest) ELSE @]
         /\ Watch([Asleep EXCEPT !.at = i, !.id = id, !.trades = m.trades],
                  IF m.left > 0 THEN "ioc" ELSE "settle")
         /\ Goto(Feeder, c, IF m.left > 0 THEN "idle" ELSE "legs")
  /\ UNCHANGED <<mem, cached, fed, quotes, quoted, started, ticks, mark, fund, snap, adlNet>>

\* Mistake: an order that has met nobody is left in the book.
CancelIfTraded ==
  /\ At("ioc")
  /\ book' = IF watch.trades = <<>> THEN book ELSE WithoutOrder(watch.id)
  /\ Process(Feeder, calls[Feeder], calls[Feeder].legs)
  /\ IF watch.trades = <<>> THEN NextDisposal(Unvisited(watch.at))
     ELSE Watch(watch, "settle") /\ UNCHANGED snap
  /\ UNCHANGED <<mem, cached, nextID, fed, quotes, quoted, started, ticks, matched,
                 mark, fund, adlNet>>

\* book.Cancel of what has not traded.
CancelRemaining ==
  /\ At("ioc")
  /\ book' = WithoutOrder(watch.id)
  /\ Process(Feeder, calls[Feeder], calls[Feeder].legs)
  /\ IF watch.trades = <<>> THEN NextDisposal(Unvisited(watch.at))
     ELSE Watch(watch, "settle") /\ UNCHANGED snap
  /\ UNCHANGED <<mem, cached, nextID, fed, quotes, quoted, started, ticks, matched,
                 mark, fund, adlNet>>

\* Surplus to the fund, deficit from the fund, trade by trade, against the
\* entry price the position has by now.
Settle ==
  /\ At("settle")
  /\ LET p == snap[watch.at]
         balance[n \in 0 .. Len(watch.trades)] ==
           IF n = 0 THEN fund
           ELSE LET t   == watch.trades[n]
                    pnl == CalcUnrealizedPnL(p.entry, t.price, t.qty, p.side)
                IN  IF pnl > 0 THEN balance[n - 1] + pnl ELSE Cover(balance[n - 1], -pnl)
     IN  fund' = balance[Len(watch.trades)]
  /\ NextDisposal(Unvisited(watch.at))
  /\ UNCHANGED <<vars, mark, adlNet>>

-----------------------------------------------------------------------------
\* A step of OnPriceUpdate.
MonitorStep ==
  \/ Scan
  \/ \E i \in DOMAIN snap :
       \/ PassOver(i)
       \/ ForceTakeProfit(i)
       \/ Liquidate(i)
       \/ Dispose(i)
  \/ CoverDeficit
  \/ Rank
  \/ Deleverage
  \/ NothingDue
  \/ StartDisposal
  \/ CancelRemaining
  \/ Settle

\* A step of the rest of the system, or of executeClose or ProcessTrades
\* called by OnPriceUpdate.
EngineStep ==
  /\ \/ TradingStep
     \/ MatchClose(Feeder)
     \/ Reopen(Feeder)
  /\ Pointers(snap)
  /\ UNCHANGED <<mark, fund, watch, adlNet>>

LNext == NewPrice \/ MonitorStep \/ EngineStep

LSpec == LInit /\ [][LNext]_lvars

-----------------------------------------------------------------------------
\* Takeovers and disposals keep longs and shorts equal, however they race with
\* the rest: in quantity the system is out of balance by what
\* auto-deleveraging took without a counterparty, and by what was dropped.
UnbalancedByADLOnly ==
  SumFunctionOnSet([u \in Traders |-> Net(mem, u) + InFlight(u) + mem.lost[u]], Traders)
    = adlNet

\* The liquidation engine's order rests in the book only between its PlaceLimit
\* and its Cancel.
NoRestingIOC ==
  \A s \in Sides : \A n \in DOMAIN book[s] :
    book[s][n].user = LIQ => watch.pc = "ioc" /\ book[s][n].id = watch.id

=============================================================================
