------------------------------- MODULE Events -------------------------------
(***************************************************************************)
(* What UpdatePosition tells the settlement worker                         *)
(* (engine/clearing/settler.go) about one leg of a trade, and what the     *)
(* worker's transaction does with it to the tables accounts and positions. *)
(*                                                                         *)
(* An event changes the balance of a user by delta and a row of a table;   *)
(* the database d has the fields d.bal and d.pos.                          *)
(***************************************************************************)
EXTENDS Positions, Sequences, SequencesExt

\* Row k of table f becomes row.
Put(f, k, row) == [x \in DOMAIN f \cup {k} |-> IF x = k THEN row ELSE f[x]]

\* What UpdatePosition submits when leg l of order id took memory from m to n:
\* handleReduce an event for the position it reduced, handleIncrease one for
\* the position it added to, without its new quantity, and handleOpen one
\* with the new position.
TradeEvents(m, n, l, id) ==
  LET event(type, i, delta, row) ==
        [type |-> type, user |-> l.user, order |-> id, pos |-> i,
         delta |-> delta, row |-> row]
      total  == n.bal[l.user] - m.bal[l.user]
      opened == DOMAIN n.pos \ DOMAIN m.pos
      less   == {i \in DOMAIN m.pos : /\ m.pos[i].side # l.side
                                      /\ i \in DOMAIN n.pos => n.pos[i] # m.pos[i]}
      more   == {i \in DOMAIN m.pos \cap DOMAIN n.pos :
                   m.pos[i].side = l.side /\ n.pos[i] # m.pos[i]}
      back   == SumFunctionOnSet([i \in DOMAIN m.pos |->
                                    LET cr == CalcReduce(m.pos[i], l.price, l.qty)
                                    IN  cr.margin + cr.net], less)
  IN  IF l.user \notin Users THEN <<>> ELSE
      SetToSeq({IF i \in DOMAIN n.pos
                THEN event("reduce", i, back,
                           [qty |-> n.pos[i].qty, margin |-> n.pos[i].margin])
                ELSE event("close", i, back, [state |-> "Closed"]) : i \in less})
      \o SetToSeq({event("increase", i, total, << >>) : i \in more})
      \o SetToSeq({event("open", i, total - back, n.pos[i]) : i \in opened})

-----------------------------------------------------------------------------
\* Mistake: a partial close leaves the margin as it was.
PositionsAfterQuantity(d, e) ==
  CASE e.type = "open"   -> Put(d.pos, e.pos, e.row)
    [] e.type = "reduce" -> [d.pos EXCEPT ![e.pos].qty = e.row.qty]
    [] e.type = "close"  -> [d.pos EXCEPT ![e.pos].state = e.row.state]
    [] OTHER             -> d.pos

\* CreateTx, UpdateQuantityAndMarginTx and CloseTx of the position model.
PositionsAfter(d, e) ==
  CASE e.type = "open"   -> Put(d.pos, e.pos, e.row)
    [] e.type = "reduce" -> [d.pos EXCEPT ![e.pos].qty    = e.row.qty,
                                          ![e.pos].margin = e.row.margin]
    [] e.type = "close"  -> [d.pos EXCEPT ![e.pos].state = e.row.state]
    [] OTHER             -> d.pos

\* Mistake: the balance is changed by trades only.
BalancesAfterTrades(d, e) ==
  IF e.type = "cancel" THEN d.bal ELSE [d.bal EXCEPT ![e.user] = @ + e.delta]

\* UpdateBalanceTx.
BalancesAfter(d, e) == [d.bal EXCEPT ![e.user] = @ + e.delta]

=============================================================================
