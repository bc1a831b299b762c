----------------------------- MODULE Positions -----------------------------
(***************************************************************************)
(* The accounts (cache/account_cache.go) and positions                     *)
(* (cache/position_cache.go) of the matching engine, and UpdatePosition    *)
(* (engine/trading/position_update.go), which applies one side of one      *)
(* trade to them under Engine.mu.                                          *)
(*                                                                         *)
(* The state is a record m:                                                *)
(*   m.bal, m.frozen  MemAccount.Balance and Frozen by user                *)
(*   m.pos            the cached positions by ID                           *)
(*   m.lastPos        Engine.nextPosID                                     *)
(* and, to state what must be conserved, three histories by user:          *)
(*   m.bought         quantity bought less sold by the updates so far      *)
(*   m.paid           value of it at the prices traded                     *)
(*   m.fees           fees charged                                         *)
(*   m.lost           signed quantity of trades that reached no position   *)
(***************************************************************************)
EXTENDS Clearing, FiniteSets, Functions, FiniteSetsExt

CONSTANTS
  Users,           \* real users, whose IDs are positive
  MM,              \* marketmaker.SystemUserID
  LIQ,             \* trading.LiquidationUserID
  InitialBalance,  \* balance of a real user
  SystemBalance    \* balance of the two system accounts

ASSUME UsersAssumption   == /\ IsFiniteSet(Users)
                            /\ MM # LIQ /\ MM \notin Users /\ LIQ \notin Users
ASSUME BalanceAssumption == InitialBalance \in Nat /\ SystemBalance \in Nat

Traders == Users \cup {MM, LIQ}

Position == [user : Traders, side : Sides, lev : Nat \ {0}, entry : Nat,
             qty : Nat \ {0}, margin : Nat, funding : Int,
             state : {Active, Closing, ForceTPing}]

InitMem ==
  [bal     |-> [u \in Traders |-> IF u \in Users THEN InitialBalance
                                                 ELSE SystemBalance],
   frozen  |-> [u \in Traders |-> 0],
   pos     |-> << >>,
   lastPos |-> 0,
   bought  |-> [u \in Traders |-> 0],
   paid    |-> [u \in Traders |-> 0],
   fees    |-> [u \in Traders |-> 0],
   lost    |-> [u \in Traders |-> 0]]

-----------------------------------------------------------------------------
(* The accounts.                                                           *)

\* GetBalance
Available(m, u) == m.bal[u] - m.frozen[u]

\* Freeze, once the guard Available(m, u) >= amount has been passed.
Freeze(m, u, amount) == [m EXCEPT !.frozen[u] = @ + amount]

\* Mistake: Unfreeze gives nothing back.
UnfreezeNothing(m, u, amount) == m

\* Mistake: Unfreeze does not stop at zero.
UnfreezeBelowZero(m, u, amount) == [m EXCEPT !.frozen[u] = @ - amount]

Unfreeze(m, u, amount) ==
  [m EXCEPT !.frozen[u] = IF @ < amount THEN 0 ELSE @ - amount]

\* AddPnl: a balance that would be negative becomes zero.
AddPnl(m, u, amount) == [m EXCEPT !.bal[u] = IF @ + amount < 0 THEN 0 ELSE @ + amount]

\* What the balance gets by that, beside the amount.
Clamped(m, u, amount) == IF m.bal[u] + amount < 0 THEN -(m.bal[u] + amount) ELSE 0

-----------------------------------------------------------------------------
(* The position cache.                                                     *)

PositionsOf(m, u, s) == {i \in DOMAIN m.pos : m.pos[i].user = u /\ m.pos[i].side = s}

\* GetByUser
HeldBy(m, u) == {i \in DOMAIN m.pos : m.pos[i].user = u}

\* FindOpposite returns one of these, in the order of a sync.Map.
Opposites(m, u, s) ==
  {i \in PositionsOf(m, u, -s) : m.pos[i].state \in {Active, Closing, ForceTPing}}

\* FindSameDir returns one of these.
SameDirs(m, u, s) == {i \in PositionsOf(m, u, s) : m.pos[i].state = Active}

SetState(m, i, state) ==
  IF i \in DOMAIN m.pos THEN [m EXCEPT !.pos[i].state = state] ELSE m

Lose(m, u, s, q) == [m EXCEPT !.lost[u] = @ + s * q]

-----------------------------------------------------------------------------
(* UpdatePosition.                                                         *)

\* handleOpen: nothing happens when the account cannot pay for it.
HandleOpen(m, u, s, q, p, lev, isMaker) ==
  LET cr   == CalcOpen(p, q, lev, isMaker)
      cost == cr.margin + cr.fee
      id   == m.lastPos + 1
      new  == [user |-> u, side |-> s, lev |-> lev, entry |-> p, qty |-> q,
               margin |-> cr.margin, funding |-> 0, state |-> Active]
  IN  IF Available(m, u) < cost
      THEN Lose(m, u, s, q)
      ELSE [m EXCEPT !.bal[u]    = @ - cost,
                     !.lastPos   = id,
                     !.pos       = [i \in DOMAIN m.pos \cup {id} |->
                                      IF i = id THEN new ELSE m.pos[i]],
                     !.bought[u] = @ + s * q,
                     !.paid[u]   = @ + s * q * p,
                     !.fees[u]   = @ + cr.fee]

\* handleIncrease: charges margin and no fee.
HandleIncrease(m, i, q, p) ==
  LET old == m.pos[i]
      u   == old.user
      cr  == CalcIncrease(old, q, p)
  IN  IF Available(m, u) < cr.add
      THEN Lose(m, u, old.side, q)
      ELSE [m EXCEPT !.bal[u]    = @ - cr.add,
                     !.pos[i]    = [old EXCEPT !.entry  = cr.entry,
                                               !.qty    = cr.qty,
                                               !.margin = cr.margin],
                     !.bought[u] = @ + old.side * q,
                     !.paid[u]   = @ + old.side * q * p]

\* Mistake: what is left of the position keeps all of the funding.
HandleReduceKeepFunding(m, i, s, q, p, lev) ==
  LET old == m.pos[i]
      u   == old.user
      cr  == CalcReduce(old, p, q)
  IN  [m EXCEPT !.bal[u]    = @ + cr.margin + cr.net,
                !.pos       = IF cr.full THEN Restrict(@, DOMAIN @ \ {i})
                              ELSE [@ EXCEPT ![i].qty    = old.qty - cr.qty,
                                             ![i].margin = old.margin - cr.margin,
                                             ![i].state  = Active],
                !.bought[u] = @ + s * cr.qty,
                !.paid[u]   = @ + s * cr.qty * p,
                !.fees[u]   = @ + cr.fee]

\* Mistake: the margin stays with the exchange.
HandleReduceKeepMargin(m, i, s, q, p, lev) ==
  LET old == m.pos[i]
      u   == old.user
      cr  == CalcReduce(old, p, q)
  IN  [m EXCEPT !.bal[u]    = @ + cr.net,
                !.pos       = IF cr.full THEN Restrict(@, DOMAIN @ \ {i})
                              ELSE [@ EXCEPT ![i].qty     = old.qty - cr.qty,
                                             ![i].margin  = old.margin - cr.margin,
                                             ![i].funding = old.funding - cr.funding],
                !.bought[u] = @ + s * cr.qty,
                !.paid[u]   = @ + s * cr.qty * p,
                !.fees[u]   = @ + cr.fee]

\* handleReduce: returns margin and profit; a partly closed position becomes
\* Active again, a closed one leaves the cache, and what the trade has left
\* over opens a position the other way.
HandleReduce(m, i, s, q, p, lev) ==
  LET old  == m.pos[i]
      u    == old.user
      cr   == CalcReduce(old, p, q)
      rest == [old EXCEPT !.qty     = old.qty - cr.qty,
                          !.margin  = old.margin - cr.margin,
                          !.funding = old.funding - cr.funding,
                          !.state   = Active]
      m1   == [m EXCEPT !.bal[u]    = @ + cr.margin + cr.net,
                        !.pos       = IF cr.full
                                      THEN Restrict(m.pos, DOMAIN m.pos \ {i})
                                      ELSE [m.pos EXCEPT ![i] = rest],
                        !.bought[u] = @ + s * cr.qty,
                        !.paid[u]   = @ + s * cr.qty * p,
                        !.fees[u]   = @ + cr.fee]
  IN  IF q > old.qty THEN HandleOpen(m1, u, s, q - old.qty, p, lev, FALSE) ELSE m1

\* UpdatePosition: the states one call may lead to.
UpdatePosition(m, u, s, q, p, lev, isMaker) ==
  IF Opposites(m, u, s) # {}
  THEN {HandleReduce(m, i, s, q, p, lev) : i \in Opposites(m, u, s)}
  ELSE IF SameDirs(m, u, s) # {}
  THEN {HandleIncrease(m, i, q, p) : i \in SameDirs(m, u, s)}
  ELSE {HandleOpen(m, u, s, q, p, lev, isMaker)}

-----------------------------------------------------------------------------
(* What a user holds.                                                      *)

\* Longs less shorts.
Net(m, u) ==
  SumFunctionOnSet([i \in DOMAIN m.pos |-> m.pos[i].side * m.pos[i].qty], HeldBy(m, u))

\* Margin, less what the open positions would cost at their entry prices.
Held(m, u) ==
  SumFunctionOnSet([i \in DOMAIN m.pos |->
                      m.pos[i].margin - m.pos[i].side * m.pos[i].qty * m.pos[i].entry],
                   HeldBy(m, u))

\* Funding by position: what is still in FundingPnl.
Kept(m, u) ==
  SumFunctionOnSet([i \in DOMAIN m.pos |-> m.pos[i].funding], HeldBy(m, u))

=============================================================================
