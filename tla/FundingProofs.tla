---------------------------- MODULE FundingProofs ---------------------------
(* Proofs about Funding, for any users, rates, quantities and bounds: a     *)
(* settlement charges each position exactly once, after its row is written, *)
(* whatever trades and failures come between its steps.                     *)
EXTENDS Funding, PositionProofs

-----------------------------------------------------------------------------
(* Payments and margins change no owner.                                    *)

LEMMA AccrueKeeps ==
  ASSUME NEW m, Sound(m), NEW i, NEW payment
  PROVE  KeepsOwners(m, Accrue(m, i, payment))
<1>1. CASE i \notin DOMAIN m.pos
  BY <1>1 DEF Accrue, Sound, KeepsOwners
<1>2. CASE i \in DOMAIN m.pos
  <2> DEFINE row == [m.pos[i] EXCEPT !.funding = @ + payment]
  <2>1. Accrue(m, i, payment) = [m EXCEPT !.pos = [m.pos EXCEPT ![i] = row]]
    BY <1>2, Zenon DEF Accrue
  <2>2. DOMAIN row = DOMAIN m.pos[i] /\ row.user = m.pos[i].user
    BY <1>2 DEF Sound
  <2> HIDE DEF row
  <2> QED
    BY <1>2, <2>1, <2>2, FieldKeeps
<1> QED
  BY <1>1, <1>2

LEMMA SetMarginKeeps ==
  ASSUME NEW m, Sound(m), NEW i, NEW margin
  PROVE  KeepsOwners(m, SetMargin(m, i, margin))
<1>1. CASE i \notin DOMAIN m.pos
  BY <1>1 DEF SetMargin, Sound, KeepsOwners
<1>2. CASE i \in DOMAIN m.pos
  <2> DEFINE row == [m.pos[i] EXCEPT !.margin = margin]
  <2>1. SetMargin(m, i, margin) = [m EXCEPT !.pos = [m.pos EXCEPT ![i] = row]]
    BY <1>2, Zenon DEF SetMargin
  <2>2. DOMAIN row = DOMAIN m.pos[i] /\ row.user = m.pos[i].user
    BY <1>2 DEF Sound
  <2> HIDE DEF row
  <2> QED
    BY <1>2, <2>1, <2>2, FieldKeeps
<1> QED
  BY <1>1, <1>2

LEMMA FundingSetKeeps ==
  ASSUME NEW m, Sound(m), NEW i, NEW funding
  PROVE  KeepsOwners(m, SetFunding(m, i, funding))
<1>1. CASE i \notin DOMAIN m.pos
  BY <1>1 DEF SetFunding, Sound, KeepsOwners
<1>2. CASE i \in DOMAIN m.pos
  <2> DEFINE row == [m.pos[i] EXCEPT !.funding = funding]
  <2>1. SetFunding(m, i, funding) = [m EXCEPT !.pos = [m.pos EXCEPT ![i] = row]]
    BY <1>2, Zenon DEF SetFunding
  <2>2. DOMAIN row = DOMAIN m.pos[i] /\ row.user = m.pos[i].user
    BY <1>2 DEF Sound
  <2> HIDE DEF row
  <2> QED
    BY <1>2, <2>1, <2>2, FieldKeeps
<1> QED
  BY <1>1, <1>2

LEMMA WithdrawKeeps ==
  ASSUME NEW m, Sound(m)
  PROVE  KeepsOwners(m, Withdraw(m))
<1>1. KeepsOwners(m, m)
  BY DEF Sound, KeepsOwners
<1>2. KeepsOwners(m, AddPnl(m, Holder, -FromBalance))
  BY AddPnlKeeps
<1> QED
  BY <1>1, <1>2 DEF Withdraw

-----------------------------------------------------------------------------
(* The inductive invariant of a settlement.                                 *)

\* Pointers still show the owner, also of positions that are gone.
ListFits ==
  /\ DOMAIN listed \subseteq 1 .. mem.lastPos
  /\ \A i \in DOMAIN listed \cap DOMAIN mem.pos : mem.pos[i].user = listed[i].user

\* What is listed has not been charged, what is not has been, once.
ChargesFit ==
  /\ DOMAIN listed \subseteq DOMAIN charged
  /\ \A i \in DOMAIN charged : charged[i] = IF i \in DOMAIN listed THEN 0 ELSE 1

\* Rows are counted for all but the market maker, and are there for whoever
\* has been charged.
RowsFit ==
  /\ {"bal", "pos", "rows"} \subseteq DOMAIN db
  /\ DOMAIN db.rows \subseteq DOMAIN charged
  /\ \A i \in DOMAIN db.rows : db.rows[i] \in Nat
  /\ \A i \in DOMAIN listed : i \in DOMAIN db.rows <=> listed[i].user # MM
  /\ \A i \in DOMAIN db.rows : charged[i] = 1 => db.rows[i] >= 1

\* Once its row is written, the position at hand has one; the market maker's
\* never has.
SchedFits ==
  /\ {"pc", "at", "rate", "payment", "old"} \subseteq DOMAIN sched
  /\ sched.pc \in {"credit", "read", "write"} => sched.at \in DOMAIN listed \ DOMAIN db.rows
  /\ sched.pc \in {"column", "lock"} =>
       sched.at \in DOMAIN listed \cap DOMAIN db.rows /\ db.rows[sched.at] >= 1

Inv == Sound(mem) /\ ListFits /\ ChargesFit /\ RowsFit /\ SchedFits

LEMMA InitInv == Init => Inv
<1> SUFFICES ASSUME Init PROVE Inv
  OBVIOUS
<1>1. Sound(mem)
  <2>1. mem = InitMem
    BY DEF Init
  <2> QED
    BY <2>1 DEF InitMem, Sound
<1>2. listed = << >> /\ charged = << >> /\ db.rows = << >>
  BY DEF Init
<1>3. DOMAIN listed = {} /\ DOMAIN charged = {} /\ DOMAIN db.rows = {}
  BY <1>2
<1>4. ListFits /\ ChargesFit
  BY <1>3 DEF ListFits, ChargesFit
<1>5. {"bal", "pos", "rows"} \subseteq DOMAIN db
  BY DEF Init
<1>6. RowsFit
  BY <1>3, <1>5 DEF RowsFit
<1>7. SchedFits
  BY DEF Init, Asleep, SchedFits
<1> QED
  BY <1>1, <1>4, <1>6, <1>7 DEF Inv

\* Pointers go on fitting while positions keep their owners.
LEMMA PointersFit ==
  ASSUME Inv, KeepsOwners(mem, mem'), NEW shown, Pointing(shown),
         DOMAIN shown \subseteq DOMAIN listed,
         \A i \in DOMAIN shown : shown[i] = listed[i]
  PROVE  /\ Sound(mem)' /\ ListFits'
         /\ DOMAIN listed' = DOMAIN shown
         /\ \A i \in DOMAIN shown : listed'[i].user = listed[i].user
<1>1. DOMAIN listed' = DOMAIN shown
  BY DEF Pointing
<1>2. Sound(mem')
  BY DEF KeepsOwners
<1>3. mem.lastPos \in Nat /\ mem'.lastPos \in Nat /\ mem'.lastPos >= mem.lastPos
  BY <1>2 DEF Inv, KeepsOwners, Sound
<1>4. DOMAIN shown \subseteq 1 .. mem.lastPos
  BY DEF Inv, ListFits
<1>5. 1 .. mem.lastPos \subseteq 1 .. mem'.lastPos
  BY <1>3
<1>6. ASSUME NEW i \in DOMAIN shown
      PROVE  /\ listed'[i].user = listed[i].user
             /\ i \in DOMAIN mem'.pos => mem'.pos[i].user = listed'[i].user
  <2>1. CASE i \notin DOMAIN mem'.pos
    BY <2>1 DEF Pointing
  <2>2. CASE i \in DOMAIN mem'.pos
    <3>1. listed'[i] = mem'.pos[i]
      BY <2>2 DEF Pointing
    <3>2. i \in DOMAIN mem.pos
      BY <2>2, <1>4 DEF KeepsOwners
    <3>3. mem'.pos[i].user = mem.pos[i].user
      BY <2>2, <3>2 DEF KeepsOwners
    <3>4. mem.pos[i].user = listed[i].user
      BY <3>2 DEF Inv, ListFits
    <3> QED
      BY <3>1, <3>3, <3>4
  <2> QED
    BY <2>1, <2>2
<1>7. ListFits'
  BY <1>1, <1>4, <1>5, <1>6 DEF ListFits
<1> QED
  BY <1>1, <1>2, <1>6, <1>7

\* A step of the engine: memory changes, the settlement does not.
LEMMA EngineKeepsInv ==
  ASSUME Inv, KeepsOwners(mem, mem'), Pointing(listed),
         UNCHANGED <<db, sched, charged>>
  PROVE  Inv'
<1>1. /\ Sound(mem)' /\ ListFits'
      /\ DOMAIN listed' = DOMAIN listed
      /\ \A i \in DOMAIN listed : listed'[i].user = listed[i].user
  BY PointersFit
<1>2. ChargesFit'
  BY <1>1 DEF Inv, ChargesFit
<1>3. RowsFit'
  BY <1>1 DEF Inv, RowsFit
<1>4. SchedFits'
  BY <1>1 DEF Inv, SchedFits
<1> QED
  BY <1>1, <1>2, <1>3, <1>4 DEF Inv

\* Position i is charged, and its row is there unless it is the market maker's.
LEMMA PayKeepsInv ==
  ASSUME Inv, KeepsOwners(mem, mem'), NEW i \in DOMAIN listed, NEW u,
         NEW payment, NEW forgiven, NEW clamped, NEW overwritten,
         Pay(i, u, payment, forgiven, clamped, overwritten),
         i \in DOMAIN db.rows => db.rows[i] >= 1,
         db'.rows = db.rows, DOMAIN db' = DOMAIN db
  PROVE  Inv'
<1> DEFINE shown == Restrict(listed, DOMAIN listed \ {i})
<1>1. DOMAIN shown = DOMAIN listed \ {i} /\ \A j \in DOMAIN shown : shown[j] = listed[j]
  BY DEF Restrict
<1>2. Pointing(shown)
  BY DEF Pay
<1> HIDE DEF shown
<1>3. /\ Sound(mem)' /\ ListFits'
      /\ DOMAIN listed' = DOMAIN listed \ {i}
      /\ \A j \in DOMAIN listed \ {i} : listed'[j].user = listed[j].user
  BY <1>1, <1>2, PointersFit
<1>4. /\ DOMAIN listed \subseteq DOMAIN charged
      /\ \A j \in DOMAIN charged : charged[j] = IF j \in DOMAIN listed THEN 0 ELSE 1
  BY DEF Inv, ChargesFit
<1>5. charged' = [charged EXCEPT ![i] = 1]
  <2>1. charged[i] = 0
    BY <1>4
  <2>2. charged' = [charged EXCEPT ![i] = charged[i] + 1]
    BY DEF Pay
  <2> QED
    BY <2>1, <2>2
<1>6. ChargesFit'
  BY <1>3, <1>4, <1>5 DEF ChargesFit
<1>7. RowsFit'
  <2>1. DOMAIN charged' = DOMAIN charged
    BY <1>5
  <2>2. \A j \in DOMAIN db.rows : charged'[j] = 1 => db.rows[j] >= 1
    BY <1>5 DEF Inv, RowsFit
  <2> QED
    BY <1>3, <2>1, <2>2 DEF Inv, RowsFit
<1>8. SchedFits'
  <2>1. {"pc", "at", "rate", "payment", "old"} \subseteq DOMAIN sched
    BY DEF Inv, SchedFits
  <2>2. sched' = [sched EXCEPT !.pc = "list", !.at = 0, !.payment = 0, !.old = 0]
    BY DEF Pay
  <2>3. DOMAIN sched' = DOMAIN sched /\ sched'.pc = "list"
    BY <2>1, <2>2
  <2> QED
    BY <2>1, <2>3 DEF SchedFits
<1> QED
  BY <1>3, <1>6, <1>7, <1>8 DEF Inv

\* Steps that leave memory and the list alone.
LEMMA ListStays ==
  ASSUME Inv, UNCHANGED <<mem, listed, charged>>, RowsFit', SchedFits'
  PROVE  Inv'
BY DEF Inv, Sound, ListFits, ChargesFit

LEMMA RowsStay ==
  ASSUME Inv, UNCHANGED <<listed, charged>>, db'.rows = db.rows, DOMAIN db' = DOMAIN db
  PROVE  RowsFit'
BY DEF Inv, RowsFit

LEMMA SchedStays ==
  ASSUME Inv, UNCHANGED <<listed, sched>>, db'.rows = db.rows
  PROVE  SchedFits'
BY DEF Inv, SchedFits

LEMMA StartOverFits ==
  ASSUME Inv, StartOver
  PROVE  SchedFits'
<1>1. {"pc", "at", "rate", "payment", "old"} \subseteq DOMAIN sched
  BY DEF Inv, SchedFits
<1>2. DOMAIN sched' = DOMAIN sched /\ sched'.pc = "list"
  BY <1>1 DEF StartOver
<1> QED
  BY <1>1, <1>2 DEF SchedFits

LEMMA Reflexive == ASSUME Sound(mem), UNCHANGED mem PROVE KeepsOwners(mem, mem')
BY DEF Sound, KeepsOwners

LEMMA StutterInv == Inv /\ UNCHANGED vars => Inv'
BY RowsStay, SchedStays, ListStays DEF vars

-----------------------------------------------------------------------------
(* Steps of the rest of the system.                                         *)

LEMMA EngineInv == Inv /\ EngineStep => Inv'
<1> SUFFICES ASSUME Inv, EngineStep PROVE Inv'
  OBVIOUS
<1>0. Sound(mem)
  BY DEF Inv
<1>1. ASSUME NEW u, NEW v, NEW q, Trade(u, v, q) PROVE Inv'
  BY <1>1, RowsStay, SchedStays, ListStays DEF Trade
<1>2. ASSUME NEW i \in DOMAIN mem.pos, TakeOver(i) PROVE Inv'
  BY <1>2, RowsStay, SchedStays, ListStays DEF TakeOver
<1>3. ASSUME NEW i \in DOMAIN mem.pos, BeginClose(i) PROVE Inv'
  <2>1. KeepsOwners(mem, mem')
    BY <1>0, <1>3, SetStateKeeps DEF BeginClose
  <2> QED
    BY <1>3, <2>1, EngineKeepsInv DEF BeginClose
<1>4. ASSUME NEW i \in DOMAIN mem.pos, Reopen(i) PROVE Inv'
  <2>1. KeepsOwners(mem, mem')
    BY <1>0, <1>4, SetStateKeeps DEF Reopen
  <2> QED
    BY <1>4, <2>1, EngineKeepsInv DEF Reopen
<1>5. ASSUME ApplyLeg PROVE Inv'
  <2>1. PICK u, s, q, p, lev : mem' \in UpdatePosition(mem, u, s, q, p, lev, FALSE)
    BY <1>5 DEF ApplyLeg
  <2>2. KeepsOwners(mem, mem')
    BY <1>0, <2>1, UpdateKeepsOwners
  <2> QED
    BY <1>5, <2>2, EngineKeepsInv DEF ApplyLeg
<1> QED
  BY <1>1, <1>2, <1>3, <1>4, <1>5 DEF EngineStep

LEMMA PersistInv == Inv /\ Persist => Inv'
<1> SUFFICES ASSUME Inv, Persist PROVE Inv'
  OBVIOUS
<1>1. {"bal", "pos", "rows"} \subseteq DOMAIN db
  BY DEF Inv, RowsFit
<1>2. db'.rows = db.rows /\ DOMAIN db' = DOMAIN db
  BY <1>1 DEF Persist
<1> QED
  BY <1>2, RowsStay, SchedStays, ListStays DEF Persist

-----------------------------------------------------------------------------
(* Steps of a settlement.                                                   *)

LEMMA BeginInv == ASSUME Inv, NEW rate, Begin(rate) PROVE Inv'
<1>1. UNCHANGED mem
  BY DEF Begin, engine
<1>2. /\ DOMAIN Actives \subseteq DOMAIN mem.pos
      /\ \A i \in DOMAIN Actives : Actives[i] = mem.pos[i]
  BY DEF Actives, Restrict
<1>3. listed' = Actives /\ charged' = [i \in DOMAIN Actives |-> 0]
  BY DEF Begin
<1>4. Sound(mem)'
  BY <1>1 DEF Inv, Sound
<1>5. ListFits'
  BY <1>1, <1>2, <1>3 DEF Inv, Sound, ListFits
<1>6. ChargesFit'
  BY <1>3 DEF ChargesFit
<1>7. RowsFit'
  <2>1. {"bal", "pos", "rows"} \subseteq DOMAIN db
    BY DEF Inv, RowsFit
  <2>2. DOMAIN db' = DOMAIN db /\ db'.rows = [i \in WithAccount(Actives) |-> 0]
    BY <2>1 DEF Begin
  <2> QED
    BY <1>3, <2>1, <2>2 DEF RowsFit, WithAccount
<1>8. SchedFits'
  BY DEF Begin, Asleep, SchedFits
<1> QED
  BY <1>4, <1>5, <1>6, <1>7, <1>8 DEF Inv

LEMMA SettleSystemInv ==
  ASSUME Inv, NEW i \in DOMAIN listed, SettleSystem(i)
  PROVE  Inv'
<1>1. UNCHANGED <<mem, db, listed, charged>>
  BY DEF SettleSystem, engine, history
<1>2. {"pc", "at", "rate", "payment", "old"} \subseteq DOMAIN sched /\ i \notin DOMAIN db.rows
  BY DEF SettleSystem, Inv, RowsFit, SchedFits
<1>3. DOMAIN sched' = DOMAIN sched /\ sched'.pc = "credit" /\ sched'.at = i
  BY <1>2 DEF SettleSystem
<1>4. SchedFits'
  BY <1>1, <1>2, <1>3 DEF SchedFits
<1> QED
  BY <1>1, <1>4, RowsStay, ListStays

LEMMA CreditSystemInv == Inv /\ CreditSystem => Inv'
<1> SUFFICES ASSUME Inv, CreditSystem PROVE Inv'
  OBVIOUS
<1>1. KeepsOwners(mem, mem')
  BY AddPnlKeeps DEF Inv, CreditSystem
<1>2. UNCHANGED <<db, charged>> /\ Pointing(listed)
  BY DEF CreditSystem
<1>3. /\ Sound(mem)' /\ ListFits'
      /\ DOMAIN listed' = DOMAIN listed
      /\ \A j \in DOMAIN listed : listed'[j].user = listed[j].user
  BY <1>1, <1>2, PointersFit
<1>4. ChargesFit' /\ RowsFit'
  BY <1>2, <1>3 DEF Inv, ChargesFit, RowsFit
<1>5. SchedFits'
  <2>1. /\ {"pc", "at", "rate", "payment", "old"} \subseteq DOMAIN sched
        /\ sched.at \in DOMAIN listed \ DOMAIN db.rows
    BY DEF CreditSystem, Inv, SchedFits
  <2>2. DOMAIN sched' = DOMAIN sched /\ sched'.pc = "read" /\ sched'.at = sched.at
    BY <2>1 DEF CreditSystem
  <2> QED
    BY <1>2, <1>3, <2>1, <2>2 DEF SchedFits
<1> QED
  BY <1>3, <1>4, <1>5 DEF Inv

LEMMA ReadSystemInv == Inv /\ ReadSystem => Inv'
<1> SUFFICES ASSUME Inv, ReadSystem PROVE Inv'
  OBVIOUS
<1>1. /\ {"pc", "at", "rate", "payment", "old"} \subseteq DOMAIN sched
      /\ sched.at \in DOMAIN listed \ DOMAIN db.rows
  BY DEF ReadSystem, Inv, SchedFits
<1>2. UNCHANGED <<mem, db>>
  BY DEF ReadSystem, engine
<1>3. CASE /\ sched' = [sched EXCEPT !.pc = "write", !.old = mem.pos[sched.at].funding]
           /\ UNCHANGED <<listed, charged, sums>>
  <2>1. DOMAIN sched' = DOMAIN sched /\ sched'.pc = "write" /\ sched'.at = sched.at
    BY <1>1, <1>3
  <2>2. SchedFits'
    BY <1>1, <1>2, <1>3, <2>1 DEF SchedFits
  <2> QED
    BY <1>2, <1>3, <2>2, RowsStay, ListStays
<1>4. CASE Pay(sched.at, MM, sched.payment, 0, 0, 0)
  <2>1. KeepsOwners(mem, mem')
    BY <1>2, Reflexive DEF Inv
  <2> QED
    BY <1>1, <1>2, <1>4, <2>1, PayKeepsInv
<1> QED
  BY <1>3, <1>4 DEF ReadSystem

LEMMA WriteSystemInv == Inv /\ WriteSystem => Inv'
<1> SUFFICES ASSUME Inv, WriteSystem PROVE Inv'
  OBVIOUS
<1>1. sched.at \in DOMAIN listed \ DOMAIN db.rows
  BY DEF WriteSystem, Inv, SchedFits
<1>2. KeepsOwners(mem, mem')
  BY FundingSetKeeps DEF Inv, WriteSystem, SetFunding
<1>3. PICK overwritten : Pay(sched.at, MM, sched.payment, 0, 0, overwritten)
  BY DEF WriteSystem
<1>4. UNCHANGED db
  BY DEF WriteSystem
<1> QED
  BY <1>1, <1>2, <1>3, <1>4, PayKeepsInv

\* The trade that WriteSystemInTrade is about is an ordinary one.
LEMMA TradeOfSystem ==
  ASSUME WriteSystemInTrade
  PROVE  /\ legs # <<>> /\ Head(legs).user = MM
         /\ mem' \in UpdatePosition(mem, MM, Head(legs).side, Head(legs).qty,
                                    Head(legs).price, 1, FALSE)
         /\ legs' = Tail(legs)
BY DEF WriteSystemInTrade, UpdatePosition

LEMMA WriteSystemInTradeInv == Inv /\ WriteSystemInTrade => Inv'
<1> SUFFICES ASSUME Inv, WriteSystemInTrade PROVE Inv'
  OBVIOUS
<1>1. sched.at \in DOMAIN listed \ DOMAIN db.rows
  BY DEF WriteSystemInTrade, Inv, SchedFits
<1>2. KeepsOwners(mem, mem')
  BY TradeOfSystem, UpdateKeepsOwners DEF Inv
<1>3. Pay(sched.at, MM, sched.payment, 0, 0, sched.payment) /\ UNCHANGED db
  BY DEF WriteSystemInTrade
<1> QED
  BY <1>1, <1>2, <1>3, PayKeepsInv

LEMMA CreateSettlementInv ==
  ASSUME Inv, NEW i \in DOMAIN listed, CreateSettlement(i)
  PROVE  Inv'
<1>1. UNCHANGED <<mem, listed, charged>>
  BY DEF CreateSettlement, engine, history
<1>2. {"bal", "pos", "rows"} \subseteq DOMAIN db /\ i \in DOMAIN db.rows
  BY DEF CreateSettlement, Inv, RowsFit
<1>3. {"pc", "at", "rate", "payment", "old"} \subseteq DOMAIN sched /\ sched.pc = "list"
  BY DEF CreateSettlement, AtPosition, Inv, SchedFits
<1>4. CASE /\ db' = [db EXCEPT !.rows[i] = @ + 1]
           /\ sched' = [sched EXCEPT !.pc = "column", !.at = i, !.payment = PaymentFor(i)]
  <2>1. /\ DOMAIN db' = DOMAIN db /\ DOMAIN db'.rows = DOMAIN db.rows
        /\ \A j \in DOMAIN db.rows : db'.rows[j] = IF j = i THEN db.rows[j] + 1 ELSE db.rows[j]
    BY <1>2, <1>4
  <2>2. \A j \in DOMAIN db.rows : db.rows[j] \in Nat
    BY DEF Inv, RowsFit
  <2>3. db'.rows[i] >= 1 /\ \A j \in DOMAIN db.rows : db'.rows[j] \in Nat /\ db'.rows[j] >= db.rows[j]
    BY <1>2, <2>1, <2>2
  <2>4. \A j \in DOMAIN db.rows : charged[j] = 1 => db'.rows[j] >= 1
    BY <2>2, <2>3 DEF Inv, RowsFit
  <2>5. RowsFit'
    BY <1>1, <2>1, <2>3, <2>4 DEF Inv, RowsFit
  <2>6. DOMAIN sched' = DOMAIN sched /\ sched'.at = i /\ sched'.pc = "column"
    BY <1>3, <1>4
  <2>7. SchedFits'
    BY <1>1, <1>2, <1>3, <2>1, <2>3, <2>6 DEF SchedFits
  <2> QED
    BY <1>1, <2>5, <2>7, ListStays
<1>5. CASE sched' = [sched EXCEPT !.at = i] /\ UNCHANGED db
  <2>1. DOMAIN sched' = DOMAIN sched /\ sched'.pc = "list"
    BY <1>3, <1>5
  <2>2. SchedFits'
    BY <1>3, <2>1 DEF SchedFits
  <2> QED
    BY <1>1, <1>5, <2>2, RowsStay, ListStays
<1> QED
  BY <1>4, <1>5 DEF CreateSettlement

LEMMA UpdateFundingPnlInv == Inv /\ UpdateFundingPnl => Inv'
<1> SUFFICES ASSUME Inv, UpdateFundingPnl PROVE Inv'
  OBVIOUS
<1>1. UNCHANGED <<mem, listed, charged>>
  BY DEF UpdateFundingPnl, engine, history
<1>2. /\ {"bal", "pos", "rows"} \subseteq DOMAIN db
      /\ {"pc", "at", "rate", "payment", "old"} \subseteq DOMAIN sched
  BY DEF Inv, RowsFit, SchedFits
<1>3. db'.rows = db.rows /\ DOMAIN db' = DOMAIN db
  BY <1>2 DEF UpdateFundingPnl
<1>4. SchedFits'
  <2>1. CASE sched' = [sched EXCEPT !.pc = "lock"]
    <3>1. DOMAIN sched' = DOMAIN sched /\ sched'.at = sched.at /\ sched'.pc = "lock"
      BY <1>2, <2>1
    <3>2. sched.at \in DOMAIN listed \cap DOMAIN db.rows /\ db.rows[sched.at] >= 1
      BY DEF UpdateFundingPnl, Inv, SchedFits
    <3> QED
      BY <1>1, <1>2, <1>3, <3>1, <3>2 DEF SchedFits
  <2>2. CASE StartOver
    BY <2>2, StartOverFits
  <2> QED
    BY <2>1, <2>2 DEF UpdateFundingPnl
<1> QED
  BY <1>1, <1>3, <1>4, RowsStay, ListStays

\* Under the lock the position at hand is listed and has its row.
LEMMA AtHand ==
  ASSUME Inv, sched.pc = "lock"
  PROVE  /\ sched.at \in DOMAIN listed /\ db.rows[sched.at] >= 1
         /\ {"bal", "pos", "rows"} \subseteq DOMAIN db
         /\ Sound(mem)
BY DEF Inv, RowsFit, SchedFits

LEMMA ChargeBalanceInv == Inv /\ ChargeBalance => Inv'
<1> SUFFICES ASSUME Inv, ChargeBalance PROVE Inv'
  OBVIOUS
<1>1. sched.pc = "lock"
  BY DEF ChargeBalance
<1>2. CASE /\ db' = [db EXCEPT !.bal[Holder] = @ + sched.payment]
           /\ mem' = AddPnl(Accrue(mem, sched.at, sched.payment), Holder, sched.payment)
           /\ Pay(sched.at, Holder, sched.payment, 0, Clamped(mem, Holder, sched.payment), 0)
  <2> DEFINE n == Accrue(mem, sched.at, sched.payment)
  <2>1. KeepsOwners(mem, n)
    BY <1>1, AtHand, AccrueKeeps
  <2>2. Sound(n) /\ KeepsOwners(n, AddPnl(n, Holder, sched.payment))
    BY <2>1, AddPnlKeeps DEF KeepsOwners
  <2>3. KeepsOwners(mem, mem')
    BY <1>1, <1>2, <2>1, <2>2, AtHand, Transitive
  <2>4. db'.rows = db.rows /\ DOMAIN db' = DOMAIN db
    BY <1>1, <1>2, AtHand
  <2> QED
    BY <1>1, <1>2, <2>3, <2>4, AtHand, PayKeepsInv
<1>3. CASE StartOver /\ UNCHANGED <<mem, db, listed, charged, sums>>
  BY <1>3, StartOverFits, RowsStay, ListStays
<1> QED
  BY <1>2, <1>3 DEF ChargeBalance

LEMMA ChargeMarginInv == Inv /\ ChargeMargin => Inv'
<1> SUFFICES ASSUME Inv, ChargeMargin PROVE Inv'
  OBVIOUS
<1> DEFINE i == sched.at
           n == Accrue(mem, i, sched.payment)
           o == Withdraw(n)
<1>1. sched.pc = "lock"
  BY DEF ChargeMargin
<1>2. KeepsOwners(mem, n)
  BY <1>1, AtHand, AccrueKeeps
<1>3. Sound(n) /\ KeepsOwners(n, o)
  BY <1>2, WithdrawKeeps DEF KeepsOwners
<1>4. Sound(o) /\ KeepsOwners(o, SetMargin(o, i, NewMargin))
  BY <1>3, SetMarginKeeps DEF KeepsOwners
<1>5. KeepsOwners(mem, o)
  BY <1>1, <1>2, <1>3, AtHand, Transitive
<1>6. KeepsOwners(mem, mem')
  <2>1. mem' = SetMargin(o, i, NewMargin)
    BY DEF ChargeMargin
  <2> QED
    BY <1>1, <1>4, <1>5, <2>1, AtHand, Transitive
<1>7. db'.rows = db.rows /\ DOMAIN db' = DOMAIN db
  BY <1>1, AtHand DEF ChargeMargin
<1>8. PICK forgiven : Pay(i, Holder, sched.payment, forgiven, 0, 0)
  BY DEF ChargeMargin
<1> QED
  BY <1>1, <1>6, <1>7, <1>8, AtHand, PayKeepsInv

LEMMA ChargeMarginFailsInv == Inv /\ ChargeMarginFails => Inv'
<1> SUFFICES ASSUME Inv, ChargeMarginFails PROVE Inv'
  OBVIOUS
<1>1. UNCHANGED <<mem, listed, charged>> /\ StartOver /\ sched.pc = "lock"
  BY DEF ChargeMarginFails, engine
<1>2. db'.rows = db.rows /\ DOMAIN db' = DOMAIN db
  BY <1>1, AtHand DEF ChargeMarginFails
<1> QED
  BY <1>1, <1>2, StartOverFits, RowsStay, ListStays

LEMMA EndInv == Inv /\ End => Inv'
<1> SUFFICES ASSUME Inv, End PROVE Inv'
  OBVIOUS
<1>1. UNCHANGED <<mem, db, listed, charged>>
  BY DEF End, engine, history
<1>2. SchedFits'
  BY DEF End, Asleep, SchedFits
<1> QED
  BY <1>1, <1>2, RowsStay, ListStays

-----------------------------------------------------------------------------
\* The inductive invariant: positions keep their owners, the list and the
\* charges add up, and rows are written before anything is charged.
THEOREM Invariance == Spec => []Inv
<1>1. Inv /\ [Next]_vars => Inv'
  <2> SUFFICES ASSUME Inv, [Next]_vars PROVE Inv'
    OBVIOUS
  <2>1. CASE EngineStep
    BY <2>1, EngineInv
  <2>2. CASE Persist
    BY <2>2, PersistInv
  <2>3. CASE \E rate \in Rates : Begin(rate)
    BY <2>3, BeginInv
  <2>4. CASE Skip
    BY <2>4, RowsStay, SchedStays, ListStays DEF Skip, engine, history
  <2>5. CASE SettleStep
    BY <2>5, SettleSystemInv, CreditSystemInv, ReadSystemInv, WriteSystemInv,
       WriteSystemInTradeInv, CreateSettlementInv, UpdateFundingPnlInv, ChargeBalanceInv,
       ChargeMarginInv, ChargeMarginFailsInv, EndInv DEF SettleStep
  <2>6. CASE UNCHANGED vars
    BY <2>6, StutterInv
  <2> QED
    BY <2>1, <2>2, <2>3, <2>4, <2>5, <2>6 DEF Next
<1> QED
  BY InitInv, <1>1, PTL DEF Spec

\* scheduler.go:150: however often settlePosition starts again, and whatever
\* trades come between its steps, no position is charged twice in a settlement
\* or passed over, and none before its row is written.
THEOREM OnceEach == Spec => []ChargedOnce
<1>1. Inv => ChargedOnce
  BY DEF Inv, ChargesFit, RowsFit, ChargedOnce
<1> QED
  BY <1>1, Invariance, PTL


-----------------------------------------------------------------------------
(* What a payment and a new margin do to memory.                           *)

KeepsMargins(m, n) == \A j \in DOMAIN m.pos : n.pos[j].margin = m.pos[j].margin

LEMMA AccrueGains ==
  ASSUME NEW m, MemOK(m), NEW i, NEW u, NEW payment \in Int,
         i \in DOMAIN m.pos => m.pos[i].user = u
  PROVE  /\ Gains(m, Accrue(m, i, payment), u, IF i \in DOMAIN m.pos THEN payment ELSE 0)
         /\ KeepsMargins(m, Accrue(m, i, payment))
<1> DEFINE n == Accrue(m, i, payment)
<1>1. CASE i \notin DOMAIN m.pos
  BY <1>1, GainsNothing DEF Accrue, KeepsMargins
<1>2. CASE i \in DOMAIN m.pos
  <2> DEFINE row == [m.pos[i] EXCEPT !.funding = @ + payment]
  <2>1. SetsRow(m, n, i, row)
    BY <1>2, Zenon DEF Accrue, SetsRow
  <2>2. m.pos[i] \in Position
    BY <1>2, MemPos
  <2>3. /\ row \in Position /\ row.user = m.pos[i].user /\ row.side = m.pos[i].side
        /\ row.qty = m.pos[i].qty /\ row.margin = m.pos[i].margin /\ row.entry = m.pos[i].entry
        /\ row.funding = m.pos[i].funding + payment
    BY <2>2 DEF Position
  <2> HIDE DEF n, row
  <2>4. Gains(m, n, row.user, (row.margin - m.pos[i].margin) + (row.funding - m.pos[i].funding))
    BY <1>2, <2>1, <2>3, RowGains
  <2>5. (row.margin - m.pos[i].margin) + (row.funding - m.pos[i].funding) = payment
    BY <2>2, <2>3 DEF Position
  <2>6. n.pos[i] = row /\ OthersStay(m, n, i)
    BY <1>2, <2>1, <2>3, RowSet
  <2>7. Gains(m, n, u, IF i \in DOMAIN m.pos THEN payment ELSE 0)
    BY <1>2, <2>3, <2>4, <2>5
  <2>8. KeepsMargins(m, n)
    BY <2>3, <2>6 DEF OthersStay, KeepsMargins
  <2> QED
    BY <2>7, <2>8 DEF n
<1> QED
  BY <1>1, <1>2

LEMMA FundingSetGains ==
  ASSUME NEW m, MemOK(m), NEW i, NEW u, NEW funding \in Int,
         i \in DOMAIN m.pos => m.pos[i].user = u
  PROVE  /\ Gains(m, SetFunding(m, i, funding), u,
                  IF i \in DOMAIN m.pos THEN funding - m.pos[i].funding ELSE 0)
         /\ KeepsMargins(m, SetFunding(m, i, funding))
<1> DEFINE n == SetFunding(m, i, funding)
<1>1. CASE i \notin DOMAIN m.pos
  BY <1>1, GainsNothing DEF SetFunding, KeepsMargins
<1>2. CASE i \in DOMAIN m.pos
  <2> DEFINE row == [m.pos[i] EXCEPT !.funding = funding]
  <2>1. SetsRow(m, n, i, row)
    BY <1>2, Zenon DEF SetFunding, SetsRow
  <2>2. m.pos[i] \in Position
    BY <1>2, MemPos
  <2>3. /\ row \in Position /\ row.user = m.pos[i].user /\ row.side = m.pos[i].side
        /\ row.qty = m.pos[i].qty /\ row.margin = m.pos[i].margin /\ row.entry = m.pos[i].entry
        /\ row.funding = funding
    BY <2>2 DEF Position
  <2> HIDE DEF n, row
  <2>4. Gains(m, n, row.user, (row.margin - m.pos[i].margin) + (row.funding - m.pos[i].funding))
    BY <1>2, <2>1, <2>3, RowGains
  <2>5. (row.margin - m.pos[i].margin) + (row.funding - m.pos[i].funding)
          = funding - m.pos[i].funding
    BY <2>2, <2>3 DEF Position
  <2>6. n.pos[i] = row /\ OthersStay(m, n, i)
    BY <1>2, <2>1, <2>3, RowSet
  <2>7. Gains(m, n, u, IF i \in DOMAIN m.pos THEN funding - m.pos[i].funding ELSE 0)
    BY <1>2, <2>3, <2>4, <2>5
  <2>8. KeepsMargins(m, n)
    BY <2>3, <2>6 DEF OthersStay, KeepsMargins
  <2> QED
    BY <2>7, <2>8 DEF n
<1> QED
  BY <1>1, <1>2

LEMMA SetMarginGains ==
  ASSUME NEW m, MemOK(m), NEW i, NEW u, NEW margin \in Nat,
         i \in DOMAIN m.pos => m.pos[i].user = u
  PROVE  Gains(m, SetMargin(m, i, margin), u,
               IF i \in DOMAIN m.pos THEN margin - m.pos[i].margin ELSE 0)
<1> DEFINE n == SetMargin(m, i, margin)
<1>1. CASE i \notin DOMAIN m.pos
  BY <1>1, GainsNothing DEF SetMargin
<1>2. CASE i \in DOMAIN m.pos
  <2> DEFINE row == [m.pos[i] EXCEPT !.margin = margin]
  <2>1. SetsRow(m, n, i, row)
    BY <1>2, Zenon DEF SetMargin, SetsRow
  <2>2. m.pos[i] \in Position
    BY <1>2, MemPos
  <2>3. /\ row \in Position /\ row.user = m.pos[i].user /\ row.side = m.pos[i].side
        /\ row.qty = m.pos[i].qty /\ row.margin = margin /\ row.entry = m.pos[i].entry
        /\ row.funding = m.pos[i].funding
    BY <2>2 DEF Position
  <2> HIDE DEF n, row
  <2>4. Gains(m, n, row.user, (row.margin - m.pos[i].margin) + (row.funding - m.pos[i].funding))
    BY <1>2, <2>1, <2>3, RowGains
  <2>5. (row.margin - m.pos[i].margin) + (row.funding - m.pos[i].funding)
          = margin - m.pos[i].margin
    BY <2>2, <2>3 DEF Position
  <2>6. Gains(m, n, u, IF i \in DOMAIN m.pos THEN margin - m.pos[i].margin ELSE 0)
    BY <1>2, <2>3, <2>4, <2>5
  <2> QED
    BY <2>6 DEF n
<1> QED
  BY <1>1, <1>2

-----------------------------------------------------------------------------
(* The inductive invariant of the books.                                   *)

Leg == [user : Traders, side : Sides, qty : Nat \ {0}, price : {Price}]

\* Pointers show positions, and those still cached as they are.
ListShows ==
  \A i \in DOMAIN listed : /\ listed[i] \in Position
                           /\ i \in DOMAIN mem.pos => listed[i] = mem.pos[i]

SumsTyped ==
  /\ DOMAIN sums = {"due", "forgiven", "clamped", "missed", "overwritten", "before"}
  /\ sums.due \in [Traders -> Int] /\ sums.forgiven \in [Traders -> Int]
  /\ sums.clamped \in [Traders -> Int] /\ sums.missed \in [Traders -> Int]
  /\ sums.overwritten \in [Traders -> Int]

\* All positions have been entered at the one price there is, so that merges
\* come out even.
Money ==
  /\ MemOK(mem) /\ EntriesAt(mem, Price)
  /\ legs \in Seq(Leg)
  /\ ListShows
  /\ SumsTyped
  /\ sched.payment \in Int /\ sched.rate \in Int /\ sched.old \in Int
  /\ FundingAccounted

\* What funding has meant for u.
Balance(u) ==
  2 * sums.due[u] + sums.forgiven[u] + sums.clamped[u]
    - sums.missed[u] - sums.overwritten[u] + UnderWay(u)
    + IF u \in Users THEN InitialBalance ELSE SystemBalance

LEMMA AccountedIs == FundingAccounted <=> \A u \in Traders : Wealth(mem, u) = Balance(u)
BY DEF FundingAccounted, Wealth, Balance

LEMMA InitMoney == Init => Money
<1> SUFFICES ASSUME Init PROVE Money
  OBVIOUS
<1>1. mem = InitMem /\ MemOK(mem)
  BY InitMemOK DEF Init
<1>2. DOMAIN mem.pos = {}
  BY <1>1 DEF InitMem
<1>3. EntriesAt(mem, Price)
  BY <1>2 DEF EntriesAt
<1>4. legs \in Seq(Leg)
  BY DEF Init
<1>5. DOMAIN listed = {}
  BY DEF Init
<1>6. ListShows
  BY <1>5 DEF ListShows
<1>7. SumsTyped
  BY DEF Init, SumsTyped, Nobody
<1>8. sched.payment = 0 /\ sched.rate = 0 /\ sched.old = 0 /\ sched.pc = "idle"
  BY DEF Init, Asleep
<1>9. FundingAccounted
  <2> SUFFICES ASSUME NEW u \in Traders PROVE Wealth(mem, u) = Balance(u)
    BY AccountedIs
  <2>1. HeldBy(mem, u) = {}
    BY <1>2 DEF HeldBy
  <2>2. Held(mem, u) = 0 /\ Kept(mem, u) = 0
    BY <2>1, SumEmpty DEF Held, Kept
  <2>3. /\ mem.bal[u] = IF u \in Users THEN InitialBalance ELSE SystemBalance
        /\ mem.paid[u] = 0 /\ mem.fees[u] = 0
    BY <1>1 DEF InitMem
  <2>4. /\ sums.due[u] = 0 /\ sums.forgiven[u] = 0 /\ sums.clamped[u] = 0
        /\ sums.missed[u] = 0 /\ sums.overwritten[u] = 0
    BY DEF Init, Nobody
  <2>5. UnderWay(u) = 0
    BY <1>8 DEF UnderWay
  <2> QED
    BY <2>2, <2>3, <2>4, <2>5, BalanceAssumption DEF Wealth, Balance
<1> QED
  BY <1>1, <1>3, <1>4, <1>6, <1>7, <1>8, <1>9 DEF Money

\* Steps that leave memory and sums alone.
LEMMA MoneyStays ==
  ASSUME Money, UNCHANGED <<mem, listed, sums>>, legs' \in Seq(Leg),
         \/ UNCHANGED sched
         \/ /\ sched'.payment \in Int /\ sched'.rate \in Int /\ sched'.old \in Int
            /\ sched'.pc \notin {"read", "write"} /\ sched.pc \notin {"read", "write"}
         \/ /\ sched'.payment = sched.payment /\ sched'.rate \in Int /\ sched'.old \in Int
            /\ sched'.pc = "write" /\ sched.pc = "read"
  PROVE  Money'
<1>1. sched'.payment \in Int /\ sched'.rate \in Int /\ sched'.old \in Int
  BY DEF Money
<1>2. \A u : UnderWay(u)' = UnderWay(u)
  BY DEF UnderWay
<1>3. FundingAccounted'
  BY <1>2 DEF Money, FundingAccounted
<1> QED
  BY <1>1, <1>3 DEF Money, ListShows, SumsTyped

\* Pointers go on showing what is cached.
LEMMA PointersShow ==
  ASSUME ListShows, MemOK(mem'), NEW shown, Pointing(shown),
         DOMAIN shown \subseteq DOMAIN listed,
         \A i \in DOMAIN shown : shown[i] = listed[i]
  PROVE  ListShows'
<1>1. \A i \in DOMAIN mem'.pos : mem'.pos[i] \in Position
  BY MemPos
<1> QED
  BY <1>1 DEF ListShows, Pointing

\* Memory changes, but nobody becomes richer or poorer by it.
LEMMA MoneyEven ==
  ASSUME Money, MemOK(mem'), EntriesAt(mem', Price), EvenMoney(mem, mem'),
         legs' \in Seq(Leg), Pointing(listed), UNCHANGED <<sched, sums>>
  PROVE  Money'
<1>1. ListShows'
  BY PointersShow DEF Money
<1>2. \A u \in Traders : Wealth(mem', u) = Wealth(mem, u)
  BY DEF EvenMoney
<1>3. \A u \in Traders : Wealth(mem, u) = Balance(u)
  BY AccountedIs DEF Money
<1>4. \A u \in Traders : Balance(u)' = Balance(u)
  BY DEF Balance, UnderWay
<1>5. \A u \in Traders : Wealth(mem', u) = Balance(u)'
  BY <1>2, <1>3, <1>4
<1>6. FundingAccounted'
  BY <1>5 DEF FundingAccounted, Wealth, Balance
<1> QED
  BY <1>1, <1>6 DEF Money, SumsTyped

LEMMA GainsEntries ==
  ASSUME NEW m, NEW n, NEW u, NEW d, NEW p, Gains(m, n, u, d), EntriesAt(m, p)
  PROVE  EntriesAt(n, p)
BY DEF Gains, EntriesAt

LEMMA EngineMoney == Money /\ EngineStep => Money'
<1> SUFFICES ASSUME Money, EngineStep PROVE Money'
  OBVIOUS
<1>0. MemOK(mem) /\ EntriesAt(mem, Price) /\ legs \in Seq(Leg)
  BY DEF Money
<1>1. ASSUME NEW u \in Users \cup {MM}, NEW v \in Users \cup {MM}, NEW q \in Quantities,
             Trade(u, v, q)
      PROVE  Money'
  <2>1. /\ [user |-> u, side |-> Long, qty |-> q, price |-> Price] \in Leg
        /\ [user |-> v, side |-> Short, qty |-> q, price |-> Price] \in Leg
    BY RatesAssumption DEF Leg, Traders, Sides
  <2>2. legs' \in Seq(Leg)
    BY <1>1, <2>1 DEF Trade
  <2> QED
    BY <1>1, <2>2, MoneyStays DEF Trade
<1>2. ASSUME NEW i \in DOMAIN mem.pos, TakeOver(i) PROVE Money'
  <2> DEFINE p == mem.pos[i]
  <2>1. p \in Position
    BY <1>0, MemPos
  <2>2. p.user \in Traders /\ p.side \in Sides /\ -p.side \in Sides /\ p.qty \in Nat \ {0}
    BY <2>1 DEF Position, Sides, Long, Short
  <2>3. /\ [user |-> p.user, side |-> -p.side, qty |-> p.qty, price |-> Price] \in Leg
        /\ [user |-> LIQ, side |-> p.side, qty |-> p.qty, price |-> Price] \in Leg
    BY <2>2 DEF Leg, Traders
  <2>4. legs' \in Seq(Leg)
    BY <1>2, <2>3 DEF TakeOver
  <2> QED
    BY <1>2, <2>4, MoneyStays DEF TakeOver
<1>3. ASSUME NEW i \in DOMAIN mem.pos, NEW state \in {Active, Closing, ForceTPing},
             mem' = SetState(mem, i, state), Pointing(listed), UNCHANGED <<legs, sched, sums>>
      PROVE  Money'
  <2>1. Gains(mem, mem', MM, 0)
    BY <1>0, <1>3, StateGains
  <2>2. MemOK(mem') /\ EntriesAt(mem', Price)
    BY <1>0, <2>1, GainsEntries, SMTT(30) DEF Gains
  <2>3. EvenMoney(mem, mem')
    <3>1. \A v \in Traders : Wealth(mem', v) = Wealth(mem, v) + 0
      BY <2>1 DEF Gains
    <3> QED
      BY <1>0, <3>1, WealthInt DEF EvenMoney
  <2> QED
    BY <1>0, <1>3, <2>2, <2>3, MoneyEven
<1>4. ASSUME ApplyLeg PROVE Money'
  <2> DEFINE l == Head(legs)
             lev == IF l.user \in Users THEN Leverage ELSE 1
  <2>1. l \in Leg /\ Tail(legs) \in Seq(Leg)
    BY <1>0, <1>4 DEF ApplyLeg
  <2>2. Terms(l.user, l.side, l.qty, l.price, lev) /\ l.price = Price
    BY <2>1, PriceAssumption DEF Terms, Leg
  <2>3. /\ mem' \in UpdatePosition(mem, l.user, l.side, l.qty, l.price, lev, FALSE)
        /\ legs' = Tail(legs) /\ Pointing(listed) /\ UNCHANGED <<sched, sums>>
    BY <1>4 DEF ApplyLeg
  <2> HIDE DEF l, lev
  <2>4. EntriesAt(mem', Price) /\ EvenMoney(mem, mem')
    BY <1>0, <2>2, <2>3, UpdateEntries
  <2>5. Traded(mem, mem', l.user, l.side * l.qty)
    BY <1>0, <2>2, <2>3, UpdateTraded
  <2>6. MemOK(mem')
    BY <2>5 DEF Traded
  <2> QED
    BY <2>1, <2>3, <2>4, <2>6, MoneyEven
<1> QED
  BY <1>1, <1>2, <1>3, <1>4 DEF EngineStep, BeginClose, Reopen

\* From m to n user u becomes richer by d.
Enriches(m, n, u, d) ==
  /\ MemOK(n) /\ EntriesAt(n, Price)
  /\ \A v \in Traders : Wealth(n, v) = Wealth(m, v) + IF v = u THEN d ELSE 0

LEMMA GainsEnrich ==
  ASSUME Money, NEW n, NEW u, NEW d, Gains(mem, n, u, d)
  PROVE  Enriches(mem, n, u, d)
<1>1. EntriesAt(n, Price)
  BY GainsEntries DEF Money
<1> QED
  BY <1>1 DEF Gains, Enriches

\* Position i of u has been paid for.
LEMMA PayMoney ==
  ASSUME Inv, Money, NEW i \in DOMAIN listed, NEW u \in Traders,
         NEW payment \in Int, NEW forgiven \in Int, NEW clamped \in Int, NEW overwritten \in Int,
         Pay(i, u, payment, forgiven, clamped, overwritten),
         legs' \in Seq(Leg), NEW d \in Int, Enriches(mem, mem', u, d),
         UnderWay(u) + d
           = 2 * payment + forgiven + clamped
             - (IF i \in DOMAIN mem.pos THEN 0 ELSE payment) - overwritten,
         \A v \in Traders \ {u} : UnderWay(v) = 0
  PROVE  Money'
<1>1. MemOK(mem') /\ EntriesAt(mem', Price)
  BY DEF Enriches
<1>2. ListShows'
  <2> DEFINE shown == Restrict(listed, DOMAIN listed \ {i})
  <2>1. DOMAIN shown = DOMAIN listed \ {i} /\ \A j \in DOMAIN shown : shown[j] = listed[j]
    BY DEF Restrict
  <2>2. Pointing(shown)
    BY DEF Pay
  <2> HIDE DEF shown
  <2> QED
    BY <1>1, <2>1, <2>2, PointersShow DEF Money
<1>3. /\ sched'.pc = "list" /\ sched'.payment = 0 /\ sched'.rate = sched.rate /\ sched'.old = 0
  BY DEF Pay, Inv, SchedFits
<1> DEFINE gone == IF i \in DOMAIN mem.pos THEN 0 ELSE payment
<1>4. /\ DOMAIN sums' = DOMAIN sums
      /\ sums'.due = [sums.due EXCEPT ![u] = @ + payment]
      /\ sums'.forgiven = [sums.forgiven EXCEPT ![u] = @ + forgiven]
      /\ sums'.clamped = [sums.clamped EXCEPT ![u] = @ + clamped]
      /\ sums'.missed = [sums.missed EXCEPT ![u] = @ + gone]
      /\ sums'.overwritten = [sums.overwritten EXCEPT ![u] = @ + overwritten]
  <2>1. \A v \in Traders : sums.missed[v] + 0 = sums.missed[v]
    BY DEF Money, SumsTyped
  <2>2. sums' = [sums EXCEPT !.due[u] = @ + payment, !.forgiven[u] = @ + forgiven,
                             !.clamped[u] = @ + clamped,
                             !.missed[u] = IF i \in DOMAIN mem.pos THEN @ ELSE @ + payment,
                             !.overwritten[u] = @ + overwritten]
    BY DEF Pay
  <2>3. (IF i \in DOMAIN mem.pos THEN sums.missed[u] ELSE sums.missed[u] + payment)
          = sums.missed[u] + gone
    BY <2>1
  <2> HIDE DEF gone
  <2> QED
    BY <2>2, <2>3 DEF Money, SumsTyped
<1>5. gone \in Int
  OBVIOUS
<1> HIDE DEF gone
<1>6. SumsTyped'
  BY <1>4, <1>5, SMTT(30) DEF Money, SumsTyped
<1>7. ASSUME NEW v \in Traders PROVE Wealth(mem', v) = Balance(v)'
  <2>1. Wealth(mem, v) = Balance(v) /\ Wealth(mem, v) \in Int
    BY AccountedIs, WealthInt DEF Money
  <2>2. Wealth(mem', v) = Wealth(mem, v) + IF v = u THEN d ELSE 0
    BY DEF Enriches
  <2>3. UnderWay(v)' = 0
    BY <1>3 DEF UnderWay
  <2>4. UnderWay(v) \in Int
    BY DEF UnderWay, Money
  <2>5. /\ sums.due[v] \in Int /\ sums.forgiven[v] \in Int /\ sums.clamped[v] \in Int
        /\ sums.missed[v] \in Int /\ sums.overwritten[v] \in Int
    BY DEF Money, SumsTyped
  <2>6. /\ sums'.due[v] = sums.due[v] + IF v = u THEN payment ELSE 0
        /\ sums'.forgiven[v] = sums.forgiven[v] + IF v = u THEN forgiven ELSE 0
        /\ sums'.clamped[v] = sums.clamped[v] + IF v = u THEN clamped ELSE 0
        /\ sums'.missed[v] = sums.missed[v] + IF v = u THEN gone ELSE 0
        /\ sums'.overwritten[v] = sums.overwritten[v] + IF v = u THEN overwritten ELSE 0
    <3>1. SumsTyped
      BY DEF Money
    <3>2. /\ sums.due \in [Traders -> Int] /\ sums.forgiven \in [Traders -> Int]
          /\ sums.clamped \in [Traders -> Int] /\ sums.missed \in [Traders -> Int]
          /\ sums.overwritten \in [Traders -> Int]
      BY <3>1 DEF SumsTyped
    <3>3. sums'.due[v] = sums.due[v] + IF v = u THEN payment ELSE 0
      <4>1. sums'.due = [sums.due EXCEPT ![u] = @ + payment]
        BY <1>4
      <4>2. sums.due \in [Traders -> Int] /\ payment \in Int
        BY <1>5, <3>2
      <4> QED
        BY <4>1, <4>2
    <3>4. sums'.forgiven[v] = sums.forgiven[v] + IF v = u THEN forgiven ELSE 0
      <4>1. sums'.forgiven = [sums.forgiven EXCEPT ![u] = @ + forgiven]
        BY <1>4
      <4>2. sums.forgiven \in [Traders -> Int] /\ forgiven \in Int
        BY <1>5, <3>2
      <4> QED
        BY <4>1, <4>2
    <3>5. sums'.clamped[v] = sums.clamped[v] + IF v = u THEN clamped ELSE 0
      <4>1. sums'.clamped = [sums.clamped EXCEPT ![u] = @ + clamped]
        BY <1>4
      <4>2. sums.clamped \in [Traders -> Int] /\ clamped \in Int
        BY <1>5, <3>2
      <4> QED
        BY <4>1, <4>2
    <3>6. sums'.missed[v] = sums.missed[v] + IF v = u THEN gone ELSE 0
      <4>1. sums'.missed = [sums.missed EXCEPT ![u] = @ + gone]
        BY <1>4
      <4>2. sums.missed \in [Traders -> Int] /\ gone \in Int
        BY <1>5, <3>2
      <4> QED
        BY <4>1, <4>2
    <3>7. sums'.overwritten[v] = sums.overwritten[v] + IF v = u THEN overwritten ELSE 0
      <4>1. sums'.overwritten = [sums.overwritten EXCEPT ![u] = @ + overwritten]
        BY <1>4
      <4>2. sums.overwritten \in [Traders -> Int] /\ overwritten \in Int
        BY <1>5, <3>2
      <4> QED
        BY <4>1, <4>2
    <3> QED
      BY <3>3, <3>4, <3>5, <3>6, <3>7
  <2>7. UnderWay(u) + d = 2 * payment + forgiven + clamped - gone - overwritten
    BY DEF gone
  <2>8. CASE v = u
    <3> DEFINE start == IF v \in Users THEN InitialBalance ELSE SystemBalance
               w  == Wealth(mem, v)
               s1 == sums.due[v]
               s2 == sums.forgiven[v]
               s3 == sums.clamped[v]
               s4 == sums.missed[v]
               s5 == sums.overwritten[v]
               b  == Balance(v)'
               x  == UnderWay(v)
    <3>1. w = 2 * s1 + s2 + s3 - s4 - s5 + x + start
      BY <2>1 DEF Balance
    <3>2. b = 2 * (s1 + payment) + (s2 + forgiven) + (s3 + clamped)
              - (s4 + gone) - (s5 + overwritten) + 0 + start
      BY <2>3, <2>6, <2>8 DEF Balance
    <3>3. x + d = 2 * payment + forgiven + clamped - gone - overwritten
      BY <2>7, <2>8
    <3>4. /\ s1 \in Int /\ s2 \in Int /\ s3 \in Int /\ s4 \in Int /\ s5 \in Int
          /\ start \in Int /\ x \in Int
      BY <2>4, <2>5, BalanceAssumption
    <3>5. Wealth(mem', v) = w + d
      BY <2>2, <2>8
    <3> HIDE DEF start, w, s1, s2, s3, s4, s5, b, x
    <3>6. w + d = b
      BY <1>5, <3>1, <3>2, <3>3, <3>4
    <3> QED
      BY <3>5, <3>6 DEF b
  <2>9. CASE v # u
    <3>1. UnderWay(v) = 0 /\ Wealth(mem', v) = Wealth(mem, v)
      BY <2>1, <2>2, <2>9
    <3>2. /\ sums'.due[v] = sums.due[v] /\ sums'.forgiven[v] = sums.forgiven[v]
          /\ sums'.clamped[v] = sums.clamped[v] /\ sums'.missed[v] = sums.missed[v]
          /\ sums'.overwritten[v] = sums.overwritten[v]
      BY <2>5, <2>6, <2>9
    <3>3. Balance(v)' = Balance(v)
      BY <2>3, <3>1, <3>2 DEF Balance
    <3> QED
      BY <2>1, <3>1, <3>3
  <2> QED
    BY <2>8, <2>9
<1>8. FundingAccounted'
  BY <1>7 DEF FundingAccounted, Wealth, Balance
<1> QED
  BY <1>1, <1>2, <1>3, <1>6, <1>8 DEF Money

\* The payment that is due for a position, and the margin it may leave.
LEMMA PaymentInt == ASSUME Money, NEW i \in DOMAIN listed PROVE PaymentFor(i) \in Int
<1>1. listed[i].qty \in Int /\ listed[i].side \in Int /\ sched.rate \in Int /\ Price \in Int
  BY PriceAssumption DEF Money, ListShows, Position, Sides, Long, Short
<1>2. listed[i].qty * Price \in Int /\ -listed[i].side \in Int
  BY <1>1
<1>3. listed[i].qty * Price * sched.rate \in Int
  BY <1>1, <1>2
<1> QED
  BY <1>2, <1>3 DEF PaymentFor, CalcFundingPayment

\* Under the lock.
LEMMA HolderAtHand ==
  ASSUME Inv, Money, sched.pc = "lock"
  PROVE  /\ sched.at \in DOMAIN listed /\ Holder \in Traders
         /\ sched.at \in DOMAIN mem.pos => mem.pos[sched.at].user = Holder
         /\ sched.at \in DOMAIN mem.pos => mem.pos[sched.at].margin = listed[sched.at].margin
         /\ listed[sched.at].margin \in Nat
         /\ Available(mem, Holder) \in Int
         /\ \A v : UnderWay(v) = 0
<1>1. sched.at \in DOMAIN listed
  BY AtHand
<1>2. listed[sched.at] \in Position
  BY <1>1 DEF Money, ListShows
<1>3. Holder \in Traders /\ listed[sched.at].margin \in Nat
  BY <1>2 DEF Holder, Position
<1>4. Available(mem, Holder) \in Int
  BY <1>3, MemFields DEF Money, Available
<1> QED
  BY <1>1, <1>3, <1>4 DEF Money, ListShows, Holder, UnderWay

LEMMA NewMarginNat ==
  ASSUME Inv, Money, sched.pc = "lock", ~Sufficient
  PROVE  NewMargin \in Nat /\ FromBalance \in Nat
<1>1. Available(mem, Holder) \in Int /\ listed[sched.at].margin \in Nat /\ sched.payment \in Int
  BY HolderAtHand DEF Money
<1>2. Available(mem, Holder) + sched.payment < 0
  BY <1>1 DEF Sufficient
<1> DEFINE av == Available(mem, Holder)
           mg == listed[sched.at].margin
           p  == sched.payment
<1>3. NewMargin = IF -(p + av) > mg THEN 0 ELSE mg - (-(p + av))
  BY DEF NewMargin
<1>4. FromBalance = IF av > 0 THEN av ELSE 0
  BY DEF FromBalance
<1>5. av \in Int /\ mg \in Nat /\ p \in Int /\ av + p < 0
  BY <1>1, <1>2
<1> HIDE DEF av, mg, p
<1> QED
  BY <1>3, <1>4, <1>5

\* What each payment means for its user.
LEMMA CreditSystemGains ==
  ASSUME Money, CreditSystem
  PROVE  /\ Clamped(mem, MM, sched.payment) \in Nat
         /\ Gains(mem, mem', MM, sched.payment + Clamped(mem, MM, sched.payment))
<1>1. MM \in Traders /\ sched.payment \in Int /\ MemOK(mem)
  BY DEF Traders, Money
<1>2. mem' = AddPnl(mem, MM, sched.payment)
  BY DEF CreditSystem
<1> QED
  BY <1>1, <1>2, AddPnlGains, ClampedNat

Accrued == IF sched.at \in DOMAIN mem.pos THEN sched.payment ELSE 0

LEMMA AccruedInt == ASSUME Money PROVE Accrued \in Int
BY DEF Money, Accrued

\* What has been written to the FundingPnl since it was read.
Overwritten == IF sched.at \in DOMAIN mem.pos THEN mem.pos[sched.at].funding - sched.old ELSE 0

LEMMA WriteSystemGains ==
  ASSUME Inv, Money, WriteSystem
  PROVE  /\ sched.at \in DOMAIN listed /\ Overwritten \in Int
         /\ Gains(mem, mem', MM, Accrued - Overwritten)
<1> DEFINE i == sched.at
           f == sched.old + sched.payment
<1>1. i \in DOMAIN listed /\ listed[i].user = MM
  BY DEF WriteSystem, Inv, SchedFits, RowsFit
<1>2. sched.payment \in Int /\ sched.old \in Int /\ MemOK(mem)
  BY DEF Money
<1>3. i \in DOMAIN mem.pos => mem.pos[i].user = MM
  BY <1>1 DEF Money, ListShows
<1>4. mem' = SetFunding(mem, i, f) /\ f \in Int
  BY <1>2 DEF WriteSystem
<1>5. i \in DOMAIN mem.pos => mem.pos[i].funding \in Int
  BY <1>2, MemPos DEF Position
<1>6. /\ Overwritten \in Int
      /\ Accrued - Overwritten = IF i \in DOMAIN mem.pos THEN f - mem.pos[i].funding ELSE 0
  BY <1>2, <1>5 DEF Overwritten, Accrued
<1> HIDE DEF i, f
<1>7. Gains(mem, mem', MM, IF i \in DOMAIN mem.pos THEN f - mem.pos[i].funding ELSE 0)
  BY <1>2, <1>3, <1>4, FundingSetGains
<1> QED
  BY <1>1, <1>6, <1>7 DEF i

\* Funding changes no balance, so AddPnl gives what it would have given before.
LEMMA AccrueClamps ==
  ASSUME Money, NEW i, NEW payment, NEW u, NEW amount
  PROVE  Clamped(Accrue(mem, i, payment), u, amount) = Clamped(mem, u, amount)
<1>1. Accrue(mem, i, payment).bal = mem.bal
  BY DEF Accrue, Money, MemOK, Memory
<1> QED
  BY <1>1 DEF Clamped

LEMMA ChargeBalanceGains ==
  ASSUME Inv, Money, sched.pc = "lock",
         mem' = AddPnl(Accrue(mem, sched.at, sched.payment), Holder, sched.payment)
  PROVE  /\ Clamped(mem, Holder, sched.payment) \in Nat
         /\ Gains(mem, mem', Holder,
                  Accrued + (sched.payment + Clamped(mem, Holder, sched.payment)))
<1> DEFINE i == sched.at
           u == Holder
           p == sched.payment
           n == Accrue(mem, i, p)
           e == Accrued
           c == Clamped(mem, u, p)
<1>1. u \in Traders /\ (i \in DOMAIN mem.pos => mem.pos[i].user = u)
  BY HolderAtHand
<1>2. p \in Int /\ MemOK(mem) /\ e \in Int
  BY AccruedInt DEF Money
<1>3. Gains(mem, n, u, e)
  BY <1>1, <1>2, AccrueGains DEF Accrued
<1>4. c \in Nat /\ Clamped(n, u, p) = c
  BY <1>1, <1>2, ClampedNat, AccrueClamps
<1> HIDE DEF i, u, p, n, e, c
<1>5. MemOK(n)
  BY <1>3 DEF Gains
<1>6. Gains(n, mem', u, p + c)
  BY <1>1, <1>2, <1>4, <1>5, AddPnlGains DEF i, u, p, n
<1>7. p + c \in Int
  BY <1>2, <1>4
<1>8. Gains(mem, mem', u, e + (p + c))
  BY <1>2, <1>3, <1>6, <1>7, GainsTwice
<1> QED
  BY <1>4, <1>8 DEF u, p, e, c

\* What the margin of the position gives.
Lent == IF sched.at \in DOMAIN mem.pos THEN mem.pos[sched.at].margin - NewMargin ELSE 0

\* What Withdraw takes is there.
LEMMA WithdrawGains ==
  ASSUME Inv, Money, sched.pc = "lock", ~Sufficient,
         NEW i, MemOK(Accrue(mem, i, sched.payment))
  PROVE  LET n == Accrue(mem, i, sched.payment)
         IN  /\ Gains(n, Withdraw(n), Holder, -FromBalance)
             /\ Withdraw(n).pos = n.pos
             /\ \A v \in Traders :
                  Withdraw(n).bal[v] = mem.bal[v] - IF v = Holder THEN FromBalance ELSE 0
<1> DEFINE n == Accrue(mem, i, sched.payment)
           u == Holder
           b == FromBalance
           o == AddPnl(n, u, -b)
<1>1. u \in Traders /\ b \in Nat /\ -b \in Int
  BY HolderAtHand, NewMarginNat
<1>2. n.bal = mem.bal /\ \A v \in Traders : mem.bal[v] \in Int /\ mem.frozen[v] \in Nat
  BY MemFields DEF Accrue, Money, MemOK, Memory
<1>3. b = 0 \/ b = mem.bal[u] - mem.frozen[u]
  BY DEF FromBalance, Available
<1>4. Withdraw(n) = IF b > 0 THEN o ELSE n
  BY DEF Withdraw
<1>5. Clamped(n, u, -b) = IF mem.bal[u] + (-b) < 0 THEN -(mem.bal[u] + (-b)) ELSE 0
  BY <1>2 DEF Clamped
<1> HIDE DEF n, u, b, o
<1>6. CASE b = 0
  <2>1. Withdraw(n) = n
    BY <1>4, <1>6
  <2>2. Gains(n, n, u, -b)
    BY <1>6, GainsNothing DEF n
  <2>3. \A v \in Traders : n.bal[v] = mem.bal[v] - IF v = u THEN b ELSE 0
    BY <1>2, <1>6
  <2> QED
    BY <2>1, <2>2, <2>3 DEF n, u, b
<1>7. CASE b # 0
  <2>1. Withdraw(n) = o
    BY <1>1, <1>4, <1>7
  <2>2. Clamped(n, u, -b) = 0
    BY <1>1, <1>2, <1>3, <1>5, <1>7
  <2>3. Gains(n, o, u, -b + Clamped(n, u, -b)) /\ -b + Clamped(n, u, -b) = -b
    BY <1>1, <2>2, AddPnlGains DEF n, o
  <2>4. /\ o.pos = n.pos
        /\ \A v \in Traders : o.bal[v] = n.bal[v] + IF v = u THEN -b + Clamped(n, u, -b) ELSE 0
    BY <1>1, PnlAdded DEF n, o
  <2>5. \A v \in Traders : o.bal[v] = mem.bal[v] - IF v = u THEN b ELSE 0
    BY <1>1, <1>2, <2>3, <2>4
  <2> QED
    BY <2>1, <2>3, <2>4, <2>5 DEF n, u, b
<1> QED
  BY <1>6, <1>7

LEMMA ChargeMarginGains ==
  ASSUME Inv, Money, ChargeMargin
  PROVE  Lent \in Int /\ Gains(mem, mem', Holder, (Accrued + (-FromBalance)) + (-Lent))
<1> DEFINE i == sched.at
           u == Holder
           p == sched.payment
           b == FromBalance
           w == NewMargin
           n == Accrue(mem, i, p)
           o == Withdraw(n)
           e == Accrued
           lent == Lent
<1>1. sched.pc = "lock" /\ ~Sufficient
  BY DEF ChargeMargin
<1>2. /\ u \in Traders
      /\ i \in DOMAIN mem.pos => mem.pos[i].user = u
      /\ i \in DOMAIN mem.pos => mem.pos[i].margin = listed[i].margin
      /\ listed[i].margin \in Nat
  BY <1>1, HolderAtHand
<1>3. p \in Int /\ MemOK(mem) /\ e \in Int
  BY AccruedInt DEF Money
<1>4. w \in Nat /\ b \in Nat /\ -b \in Int
  BY <1>1, NewMarginNat
<1>5. mem' = SetMargin(o, i, w)
  BY DEF ChargeMargin
<1>6. Gains(mem, n, u, e) /\ KeepsMargins(mem, n)
  BY <1>2, <1>3, AccrueGains DEF Accrued
<1>7. lent = IF i \in DOMAIN mem.pos THEN mem.pos[i].margin - w ELSE 0
  BY DEF Lent
<1> HIDE DEF i, u, p, b, w, n, e, lent
<1>8. MemOK(n) /\ DOMAIN n.pos = DOMAIN mem.pos
      /\ \A j \in DOMAIN mem.pos : n.pos[j].user = mem.pos[j].user
  BY <1>6 DEF Gains
<1>9. Gains(n, o, u, -b) /\ o.pos = n.pos
  BY <1>1, <1>8, WithdrawGains DEF n, o, u, b, i, p
<1> HIDE DEF o
<1>10. MemOK(o)
  BY <1>9 DEF Gains
<1>11. lent \in Int /\ -lent \in Int /\ (i \in DOMAIN o.pos => o.pos[i].user = u)
  BY <1>2, <1>4, <1>7, <1>8, <1>9
<1>12. Gains(o, mem', u, IF i \in DOMAIN o.pos THEN w - o.pos[i].margin ELSE 0)
  BY <1>4, <1>5, <1>10, <1>11, SetMarginGains
<1>13. (IF i \in DOMAIN o.pos THEN w - o.pos[i].margin ELSE 0) = -lent
  BY <1>2, <1>4, <1>6, <1>7, <1>8, <1>9 DEF KeepsMargins
<1>14. Gains(o, mem', u, -lent)
  BY <1>12, <1>13
<1>15. Gains(mem, o, u, e + (-b)) /\ e + (-b) \in Int
  BY <1>3, <1>4, <1>6, <1>9, GainsTwice
<1>16. Gains(mem, mem', u, (e + (-b)) + (-lent))
  BY <1>3, <1>11, <1>14, <1>15, GainsTwice
<1> QED
  BY <1>11, <1>16 DEF u, b, e, lent

LEMMA CreditSystemMoney == Inv /\ Money /\ CreditSystem => Money'
<1> SUFFICES ASSUME Inv, Money, CreditSystem PROVE Money'
  OBVIOUS
<1> DEFINE p == sched.payment
           c == Clamped(mem, MM, p)
<1>1. MemOK(mem) /\ p \in Int
  BY DEF Money
<1>2. c \in Nat /\ Gains(mem, mem', MM, p + c)
  BY CreditSystemGains
<1>3. /\ Pointing(listed) /\ UNCHANGED legs
      /\ sched.pc = "credit" /\ sched'.pc = "read" /\ sched'.payment = p
      /\ sched'.rate = sched.rate /\ sched'.old = sched.old
      /\ sums' = [sums EXCEPT !.clamped[MM] = @ + c]
  BY DEF CreditSystem, Inv, SchedFits
<1> HIDE DEF p, c
<1>4. /\ DOMAIN sums' = DOMAIN sums /\ sums'.due = sums.due /\ sums'.forgiven = sums.forgiven
      /\ sums'.missed = sums.missed /\ sums'.overwritten = sums.overwritten
      /\ sums'.clamped = [sums.clamped EXCEPT ![MM] = @ + c]
  BY <1>3 DEF Money, SumsTyped
<1>5. MemOK(mem') /\ EntriesAt(mem', Price)
  BY <1>2, GainsEntries DEF Gains, Money
<1>6. ListShows'
  BY <1>3, <1>5, PointersShow DEF Money
<1>7. ASSUME NEW v \in Traders PROVE Wealth(mem', v) = Balance(v)'
  <2>1. Wealth(mem, v) = Balance(v) /\ Wealth(mem, v) \in Int
    BY AccountedIs, WealthInt DEF Money
  <2>2. Wealth(mem', v) = Wealth(mem, v) + IF v = MM THEN p + c ELSE 0
    BY <1>2 DEF Gains
  <2>3. UnderWay(v)' = (IF v = MM THEN p ELSE 0) /\ UnderWay(v) = 0
    BY <1>3 DEF UnderWay
  <2>4. /\ sums.due[v] \in Int /\ sums.forgiven[v] \in Int /\ sums.clamped[v] \in Int
        /\ sums.missed[v] \in Int /\ sums.overwritten[v] \in Int
    BY DEF Money, SumsTyped
  <2>5. sums'.clamped[v] = sums.clamped[v] + IF v = MM THEN c ELSE 0
    BY <1>2, <1>4, <2>4 DEF Money, SumsTyped
  <2> QED
    BY <1>1, <1>2, <1>4, <2>1, <2>2, <2>3, <2>4, <2>5, BalanceAssumption DEF Balance
<1>8. FundingAccounted'
  BY <1>7 DEF FundingAccounted, Wealth, Balance
<1>9. SumsTyped'
  <2>1. MM \in Traders /\ \A v \in Traders : sums.clamped[v] \in Int /\ sums.clamped[v] + c \in Int
    BY <1>2 DEF Traders, Money, SumsTyped
  <2>2. sums'.clamped \in [Traders -> Int]
    BY <1>4, <2>1 DEF Money, SumsTyped
  <2> QED
    BY <1>4, <2>2 DEF Money, SumsTyped
<1> QED
  BY <1>1, <1>3, <1>5, <1>6, <1>8, <1>9 DEF Money

LEMMA ReadSystemMoney == Inv /\ Money /\ ReadSystem => Money'
<1> SUFFICES ASSUME Inv, Money, ReadSystem PROVE Money'
  OBVIOUS
<1>1. UNCHANGED <<mem, legs>> /\ sched.pc = "read"
  BY DEF ReadSystem, engine
<1>2. /\ sched.payment \in Int /\ sched.rate \in Int /\ MemOK(mem) /\ MM \in Traders
      /\ legs' \in Seq(Leg)
  BY <1>1 DEF Money, Traders
<1>3. CASE sched.at \in DOMAIN mem.pos
  <2>1. /\ sched' = [sched EXCEPT !.pc = "write", !.old = mem.pos[sched.at].funding]
        /\ UNCHANGED <<listed, sums>>
    BY <1>3 DEF ReadSystem
  <2>2. /\ sched'.pc = "write" /\ sched'.payment = sched.payment /\ sched'.rate = sched.rate
        /\ sched'.old = mem.pos[sched.at].funding
    BY <2>1 DEF Inv, SchedFits
  <2>3. mem.pos[sched.at].funding \in Int
    BY <1>2, <1>3, MemPos DEF Position
  <2> QED
    BY <1>1, <1>2, <2>1, <2>2, <2>3, MoneyStays
<1>4. CASE sched.at \notin DOMAIN mem.pos
  <2> DEFINE i == sched.at
             p == sched.payment
  <2>1. Pay(i, MM, p, 0, 0, 0)
    BY <1>4 DEF ReadSystem
  <2>2. i \in DOMAIN listed
    BY <1>1 DEF Inv, SchedFits
  <2>3. Enriches(mem, mem', MM, 0)
    BY <1>1, <1>2, GainsNothing, GainsEnrich
  <2>4. UnderWay(MM) = p /\ \A v \in Traders \ {MM} : UnderWay(v) = 0
    BY <1>1 DEF UnderWay
  <2> HIDE DEF i, p
  <2>5. UnderWay(MM) + 0 = 2 * p + 0 + 0 - (IF i \in DOMAIN mem.pos THEN 0 ELSE p) - 0
    BY <1>2, <1>4, <2>4 DEF i, p
  <2> QED
    BY <1>2, <2>1, <2>2, <2>3, <2>4, <2>5, PayMoney DEF p
<1> QED
  BY <1>3, <1>4

LEMMA WriteSystemMoney == Inv /\ Money /\ WriteSystem => Money'
<1> SUFFICES ASSUME Inv, Money, WriteSystem PROVE Money'
  OBVIOUS
<1> DEFINE i == sched.at
           p == sched.payment
           e == Accrued
           w == Overwritten
<1>1. i \in DOMAIN listed /\ w \in Int /\ Gains(mem, mem', MM, e - w)
  BY WriteSystemGains
<1>2. p \in Int /\ MM \in Traders /\ e \in Int
  BY AccruedInt DEF Money, Traders
<1>3. Pay(i, MM, p, 0, 0, w) /\ UNCHANGED legs /\ sched.pc = "write"
  BY DEF WriteSystem, Overwritten
<1>4. UnderWay(MM) = p /\ \A v \in Traders \ {MM} : UnderWay(v) = 0
  BY <1>3 DEF UnderWay
<1>5. e = IF i \in DOMAIN mem.pos THEN p ELSE 0
  BY DEF Accrued
<1> HIDE DEF i, p, e, w
<1>6. UnderWay(MM) + (e - w) = 2 * p + 0 + 0 - (IF i \in DOMAIN mem.pos THEN 0 ELSE p) - w
  BY <1>1, <1>2, <1>4, <1>5
<1>7. Enriches(mem, mem', MM, e - w) /\ e - w \in Int /\ legs' \in Seq(Leg)
  BY <1>1, <1>2, <1>3, GainsEnrich DEF Money
<1> QED
  BY <1>1, <1>2, <1>3, <1>4, <1>6, <1>7, PayMoney

LEMMA WriteSystemInTradeMoney == Inv /\ Money /\ WriteSystemInTrade => Money'
<1> SUFFICES ASSUME Inv, Money, WriteSystemInTrade PROVE Money'
  OBVIOUS
<1> DEFINE i == sched.at
           p == sched.payment
           l == Head(legs)
<1>1. /\ legs # <<>> /\ l.user = MM /\ mem' \in UpdatePosition(mem, MM, l.side, l.qty, l.price, 1, FALSE)
  BY TradeOfSystem
<1>2. MemOK(mem) /\ EntriesAt(mem, Price) /\ legs \in Seq(Leg) /\ p \in Int /\ MM \in Traders
  BY DEF Money, Traders
<1>3. l \in Leg /\ legs' \in Seq(Leg)
  BY <1>1, <1>2 DEF WriteSystemInTrade
<1>4. Terms(MM, l.side, l.qty, l.price, 1) /\ l.price = Price
  BY <1>2, <1>3, PriceAssumption DEF Terms, Leg
<1>5. /\ Pay(i, MM, p, 0, 0, p) /\ sched.pc = "write" /\ i \in DOMAIN mem.pos
  BY DEF WriteSystemInTrade, Opposites, PositionsOf
<1>6. i \in DOMAIN listed
  BY <1>5 DEF Inv, SchedFits
<1>7. UnderWay(MM) = p /\ \A v \in Traders \ {MM} : UnderWay(v) = 0
  BY <1>5 DEF UnderWay
<1> HIDE DEF i, p, l
<1>8. EntriesAt(mem', Price) /\ EvenMoney(mem, mem')
  BY <1>1, <1>2, <1>4, UpdateEntries
<1>9. MemOK(mem')
  <2>1. Traded(mem, mem', MM, l.side * l.qty)
    BY <1>1, <1>2, <1>4, UpdateTraded
  <2> QED
    BY <2>1 DEF Traded
<1>10. Enriches(mem, mem', MM, 0)
  <2>1. \A v \in Traders : Wealth(mem', v) = Wealth(mem, v) /\ Wealth(mem, v) \in Int
    BY <1>2, <1>8, WealthInt DEF EvenMoney
  <2> QED
    BY <1>8, <1>9, <2>1 DEF Enriches
<1>11. UnderWay(MM) + 0 = 2 * p + 0 + 0 - (IF i \in DOMAIN mem.pos THEN 0 ELSE p) - p
  BY <1>2, <1>5, <1>7
<1> QED
  BY <1>2, <1>3, <1>5, <1>6, <1>7, <1>10, <1>11, PayMoney

LEMMA ChargeBalanceMoney == Inv /\ Money /\ ChargeBalance => Money'
<1> SUFFICES ASSUME Inv, Money, ChargeBalance PROVE Money'
  OBVIOUS
<1> DEFINE i == sched.at
           u == Holder
           p == sched.payment
           e == Accrued
           c == Clamped(mem, u, p)
<1>1. sched.pc = "lock" /\ legs' \in Seq(Leg)
  BY DEF ChargeBalance, Money
<1>2. i \in DOMAIN listed /\ u \in Traders /\ \A v : UnderWay(v) = 0
  BY <1>1, HolderAtHand
<1>3. p \in Int /\ e \in Int /\ e = IF i \in DOMAIN mem.pos THEN p ELSE 0
  BY AccruedInt DEF Money, Accrued
<1>4. CASE mem' = AddPnl(Accrue(mem, i, p), u, p) /\ Pay(i, u, p, 0, c, 0)
  <2>1. c \in Nat /\ Gains(mem, mem', u, e + (p + c))
    BY <1>1, <1>4, ChargeBalanceGains
  <2> HIDE DEF i, u, p, e, c
  <2>2. UnderWay(u) + (e + (p + c)) = 2 * p + 0 + c - (IF i \in DOMAIN mem.pos THEN 0 ELSE p) - 0
    BY <1>2, <1>3, <2>1
  <2>3. e + (p + c) \in Int /\ Enriches(mem, mem', u, e + (p + c))
    BY <1>3, <2>1, GainsEnrich
  <2> QED
    BY <1>1, <1>2, <1>3, <1>4, <2>1, <2>2, <2>3, PayMoney
<1>5. CASE StartOver /\ UNCHANGED <<mem, db, listed, charged, sums>>
  <2>1. sched'.payment = 0 /\ sched'.rate = sched.rate /\ sched'.old = sched.old
        /\ sched'.pc = "list"
    BY <1>5 DEF StartOver, Inv, SchedFits
  <2> QED
    BY <1>1, <1>5, <2>1, MoneyStays DEF Money
<1> QED
  BY <1>4, <1>5 DEF ChargeBalance

LEMMA ChargeMarginMoney == Inv /\ Money /\ ChargeMargin => Money'
<1> SUFFICES ASSUME Inv, Money, ChargeMargin PROVE Money'
  OBVIOUS
<1> DEFINE i == sched.at
           u == Holder
           p == sched.payment
           b == FromBalance
           e == Accrued
           lent == Lent
           d == (e + (-b)) + (-lent)
           g == -p - b - lent
<1>1. sched.pc = "lock" /\ legs' \in Seq(Leg) /\ ~Sufficient
  BY DEF ChargeMargin, Money
<1>2. i \in DOMAIN listed /\ u \in Traders /\ \A v : UnderWay(v) = 0
  BY <1>1, HolderAtHand
<1>3. p \in Int /\ e \in Int /\ e = IF i \in DOMAIN mem.pos THEN p ELSE 0
  BY AccruedInt DEF Money, Accrued
<1>4. b \in Nat /\ lent \in Int
  BY <1>1, NewMarginNat, ChargeMarginGains
<1>5. Pay(i, u, p, g, 0, 0)
  BY DEF ChargeMargin, Lent
<1>6. Enriches(mem, mem', u, d)
  BY ChargeMarginGains, GainsEnrich
<1> HIDE DEF i, u, p, b, e, lent
<1>7. UnderWay(u) + d
         = 2 * p + g + 0 - (IF i \in DOMAIN mem.pos THEN 0 ELSE p) - 0
  BY <1>2, <1>3, <1>4
<1>8. g \in Int /\ d \in Int
  BY <1>3, <1>4
<1> HIDE DEF d, g
<1> QED
  BY <1>1, <1>2, <1>3, <1>5, <1>6, <1>7, <1>8, PayMoney

LEMMA BeginMoney == ASSUME Money, NEW rate \in Rates, Begin(rate) PROVE Money'
<1>1. UNCHANGED <<mem, legs>> /\ sched.pc = "idle"
  BY DEF Begin, engine
<1>2. sched'.payment = 0 /\ sched'.rate = rate /\ sched'.old = 0 /\ sched'.pc = "list"
      /\ rate \in Int
  BY RatesAssumption DEF Begin, Asleep
<1>3. listed' = Actives
  BY DEF Begin
<1>4. ListShows'
  <2>1. /\ DOMAIN Actives \subseteq DOMAIN mem.pos
        /\ \A i \in DOMAIN Actives : Actives[i] = mem.pos[i]
    BY DEF Actives, Restrict
  <2>2. \A i \in DOMAIN mem.pos : mem.pos[i] \in Position
    BY MemPos DEF Money
  <2> QED
    BY <1>1, <1>3, <2>1, <2>2 DEF ListShows
<1>5. /\ DOMAIN sums' = DOMAIN sums /\ sums'.due = sums.due
      /\ sums'.forgiven = sums.forgiven /\ sums'.clamped = sums.clamped
      /\ sums'.missed = sums.missed /\ sums'.overwritten = sums.overwritten
  BY DEF Begin, Money, SumsTyped
<1>6. SumsTyped'
  BY <1>5 DEF Money, SumsTyped
<1>7. \A v : UnderWay(v)' = UnderWay(v)
  BY <1>1, <1>2 DEF UnderWay
<1>8. FundingAccounted'
  BY <1>1, <1>5, <1>7 DEF Money, FundingAccounted
<1> QED
  BY <1>1, <1>2, <1>4, <1>6, <1>8 DEF Money

LEMMA SettleStepMoney == Inv /\ Money /\ SettleStep => Money'
<1> SUFFICES ASSUME Inv, Money, SettleStep PROVE Money'
  OBVIOUS
<1>0. legs \in Seq(Leg) /\ {"pc", "at", "rate", "payment", "old"} \subseteq DOMAIN sched
      /\ sched.payment \in Int /\ sched.rate \in Int /\ sched.old \in Int
  BY DEF Money, Inv, SchedFits
<1>1. ASSUME NEW i \in DOMAIN listed, CreateSettlement(i) PROVE Money'
  <2>1. UNCHANGED <<mem, legs, listed, sums>> /\ sched.pc = "list"
    BY <1>1 DEF CreateSettlement, AtPosition, engine, history
  <2>2. sched'.pc \notin {"read", "write"} /\ sched'.old \in {sched.old, 0} /\ sched'.rate = sched.rate
        /\ sched'.payment \in {sched.payment, PaymentFor(i)}
    BY <1>0, <1>1, <2>1 DEF CreateSettlement
  <2> QED
    BY <1>0, <2>1, <2>2, PaymentInt, MoneyStays
<1>2. ASSUME UpdateFundingPnl PROVE Money'
  <2>1. UNCHANGED <<mem, legs, listed, sums>> /\ sched.pc = "column"
    BY <1>2 DEF UpdateFundingPnl, engine, history
  <2>2. sched'.pc \notin {"read", "write"} /\ sched'.old \in {sched.old, 0} /\ sched'.rate = sched.rate /\ sched'.payment \in {sched.payment, 0}
    BY <1>0, <1>2 DEF UpdateFundingPnl, StartOver
  <2> QED
    BY <1>0, <2>1, <2>2, MoneyStays
<1>3. ASSUME ChargeMarginFails PROVE Money'
  <2>1. UNCHANGED <<mem, legs, listed, sums>> /\ sched.pc = "lock"
    BY <1>3 DEF ChargeMarginFails, engine, history
  <2>2. sched'.pc \notin {"read", "write"} /\ sched'.old \in {sched.old, 0} /\ sched'.rate = sched.rate /\ sched'.payment = 0
    BY <1>0, <1>3 DEF ChargeMarginFails, StartOver
  <2> QED
    BY <1>0, <2>1, <2>2, MoneyStays
<1>4. ASSUME End PROVE Money'
  <2>1. UNCHANGED <<mem, legs, listed, sums>> /\ sched.pc = "list"
    BY <1>4 DEF End, engine, history
  <2>2. sched'.pc \notin {"read", "write"} /\ sched'.old \in {sched.old, 0} /\ sched'.rate = 0 /\ sched'.payment = 0
    BY <1>4 DEF End, Asleep
  <2> QED
    BY <1>0, <2>1, <2>2, MoneyStays
<1>5. ASSUME NEW i \in DOMAIN listed, SettleSystem(i) PROVE Money'
  <2>1. UNCHANGED <<mem, legs, listed, sums>> /\ sched.pc = "list"
    BY <1>5 DEF SettleSystem, AtPosition, engine, history
  <2>2. /\ sched'.pc = "credit" /\ sched'.rate = sched.rate /\ sched'.old = sched.old
        /\ sched'.payment = PaymentFor(i)
    BY <1>0, <1>5 DEF SettleSystem
  <2> QED
    BY <1>0, <2>1, <2>2, PaymentInt, MoneyStays
<1> QED
  BY <1>1, <1>2, <1>3, <1>4, <1>5, CreditSystemMoney, ReadSystemMoney, WriteSystemMoney,
     WriteSystemInTradeMoney, ChargeBalanceMoney, ChargeMarginMoney DEF SettleStep

\* The books are kept.
THEOREM MoneyInvariance == Spec => []Money
<1>1. Inv /\ Money /\ [Next]_vars => Money'
  <2> SUFFICES ASSUME Inv, Money, [Next]_vars PROVE Money'
    OBVIOUS
  <2>1. CASE Persist
    BY <2>1, MoneyStays DEF Persist, Money
  <2>2. CASE \E rate \in Rates : Begin(rate)
    BY <2>2, BeginMoney
  <2>3. CASE Skip
    BY <2>3, MoneyStays DEF Skip, engine, history, Money
  <2>4. CASE UNCHANGED vars
    BY <2>4, MoneyStays DEF vars, Money
  <2> QED
    BY <2>1, <2>2, <2>3, <2>4, EngineMoney, SettleStepMoney DEF Next
<1> QED
  BY InitMoney, Invariance, <1>1, PTL DEF Spec

\* scheduler.go:136-249: whatever trades come between the steps of a
\* settlement, and however its statements fail, a user's balance and margins
\* change by exactly what was due and could be borne, by what later closes
\* realize of it, and by what AddPnl gives a balance that would be negative.
THEOREM AccountedFor == Spec => []FundingAccounted
<1>1. Money => FundingAccounted
  BY DEF Money
<1> QED
  BY <1>1, MoneyInvariance, PTL

-----------------------------------------------------------------------------
(* Longs and shorts pay each other.                                        *)

\* The quantity of a leg, signed.
Signed(l) == l.side * l.qty

\* Every position but for the second leg of a match has its counterpart.
Paired ==
  /\ Len(legs) \in 0 .. 2
  /\ Len(legs) = 2 => Signed(legs[1]) + Signed(legs[2]) = 0
  /\ HoldingSum(mem) + (IF Len(legs) = 1 THEN Signed(legs[1]) ELSE 0) = 0

\* What is still to be paid in this settlement.
Unpaid == SumFunctionOnSet([i \in DOMAIN listed |-> PaymentFor(i)], DOMAIN listed)

\* While nothing has come between, what is paid and what is still to be paid
\* add up to nothing.
DueFits ==
  calm => IF sched.pc = "idle"
          THEN Total(sums.due) = sums.before
          ELSE /\ sched.pc \in {"credit", "read", "write", "column", "lock"} =>
                    sched.payment = PaymentFor(sched.at)
               /\ Total(sums.due) + Unpaid = sums.before

LEMMA SignedInt == ASSUME NEW l \in Leg PROVE Signed(l) \in Int
BY DEF Signed, Leg, Sides, Long, Short

LEMMA InitPaired == Init => Paired
<1> SUFFICES ASSUME Init PROVE Paired
  OBVIOUS
<1>1. mem = InitMem /\ MemOK(mem) /\ Len(legs) = 0
  BY InitMemOK DEF Init
<1>2. \A u \in Traders : Holding(mem)[u] = 0
  <2> SUFFICES ASSUME NEW u \in Traders PROVE Holding(mem)[u] = 0
    OBVIOUS
  <2>1. HeldBy(mem, u) = {} /\ mem.lost[u] = 0
    BY <1>1 DEF HeldBy, InitMem
  <2>2. Net(mem, u) = 0
    BY <2>1, SumEmpty DEF Net
  <2> QED
    BY <2>1, <2>2 DEF Holding
<1>3. HoldingSum(mem) = 0 * HoldingSum(mem)
  <2>1. \A u \in Traders : Holding(mem)[u] \in Int /\ Holding(mem)[u] = 0 * Holding(mem)[u]
    BY <1>2
  <2> QED
    BY <2>1, TradersFinite, SumScale DEF HoldingSum
<1>4. HoldingSum(mem) \in Int
  BY <1>1, HoldingInt
<1>5. HoldingSum(mem) = 0
  BY <1>3, <1>4
<1> QED
  BY <1>1, <1>5 DEF Paired

LEMMA GainsPaired ==
  ASSUME Paired, NEW u, NEW d, Gains(mem, mem', u, d), UNCHANGED legs
  PROVE  Paired'
<1>1. HoldingSum(mem') = HoldingSum(mem)
  BY GainsHolding
<1> QED
  BY <1>1 DEF Paired

LEMMA SamePaired == ASSUME Paired, UNCHANGED <<mem, legs>> PROVE Paired'
BY DEF Paired

LEMMA TailOfTwo ==
  ASSUME NEW S, NEW s \in Seq(S), Len(s) = 2
  PROVE  Len(Tail(s)) = 1 /\ Tail(s)[1] = s[2] /\ s[2] \in S
OBVIOUS

LEMMA PairedNone == ASSUME Len(legs') = 0, HoldingSum(mem') = 0 PROVE Paired'
BY DEF Paired

LEMMA PairedOne ==
  ASSUME Len(legs') = 1, HoldingSum(mem') + Signed(legs'[1]) = 0
  PROVE  Paired'
BY DEF Paired

\* The next leg has been applied.
LEMMA LegPaired ==
  ASSUME Money, Paired, legs # <<>>, legs' = Tail(legs),
         NEW u \in Traders, NEW d \in Int, d = Signed(Head(legs)), Traded(mem, mem', u, d)
  PROVE  Paired'
<1>0. MemOK(mem) /\ legs \in Seq(Leg) /\ HoldingSum(mem) \in Int
  BY HoldingInt DEF Money
<1>1. d = Signed(legs[1])
  BY <1>0
<1>3. HoldingSum(mem') = HoldingSum(mem) + d
  BY <1>0, TradedHolding
<1>4. CASE Len(legs) = 1
  <2>1. Len(legs') = 0
    BY <1>0, <1>4
  <2>2. HoldingSum(mem) + Signed(legs[1]) = 0
    BY <1>4 DEF Paired
  <2>3. HoldingSum(mem') = 0
    BY <1>1, <1>3, <2>2
  <2> QED
    BY <2>1, <2>3, PairedNone
<1>5. CASE Len(legs) = 2
  <2>1. Len(legs') = 1 /\ legs'[1] = legs[2] /\ legs[2] \in Leg
    BY <1>0, <1>5, TailOfTwo
  <2>2. Signed(legs[2]) \in Int
    BY <2>1, SignedInt
  <2>3. Signed(legs[1]) + Signed(legs[2]) = 0 /\ HoldingSum(mem) + 0 = 0
    BY <1>5 DEF Paired
  <2> DEFINE e == Signed(legs[2])
             h == HoldingSum(mem)
             k == HoldingSum(mem')
  <2>4. e \in Int /\ h \in Int /\ d + e = 0 /\ h + 0 = 0 /\ k = h + d
    BY <1>0, <1>1, <1>3, <2>2, <2>3
  <2>5. Signed(legs'[1]) = e
    BY <2>1
  <2> HIDE DEF e, h, k
  <2>6. k + e = 0
    BY <2>4
  <2> QED
    BY <2>1, <2>5, <2>6, PairedOne DEF k
<1>6. Len(legs) = 1 \/ Len(legs) = 2
  <2>1. Len(legs) # 0
    BY <1>0
  <2> QED
    BY <2>1 DEF Paired
<1> QED
  BY <1>4, <1>5, <1>6

LEMMA EnginePaired == Money /\ Paired /\ EngineStep => Paired'
<1> SUFFICES ASSUME Money, Paired, EngineStep PROVE Paired'
  OBVIOUS
<1>0. MemOK(mem) /\ legs \in Seq(Leg) /\ HoldingSum(mem) \in Int
  BY HoldingInt DEF Money
<1>1. ASSUME NEW k, NEW l, UNCHANGED mem, legs = <<>>, legs' = <<k, l>>, Signed(k) + Signed(l) = 0
      PROVE  Paired'
  BY <1>1 DEF Paired
<1>2. ASSUME NEW u \in Users \cup {MM}, NEW v \in Users \cup {MM}, NEW q \in Quantities,
             Trade(u, v, q)
      PROVE  Paired'
  <2>1. Long * q + Short * q = 0
    BY RatesAssumption DEF Long, Short
  <2> QED
    BY <1>1, <1>2, <2>1 DEF Trade, Signed
<1>3. ASSUME NEW i \in DOMAIN mem.pos, TakeOver(i) PROVE Paired'
  <2> DEFINE p == mem.pos[i]
             k == [user |-> p.user, side |-> -p.side, qty |-> p.qty, price |-> Price]
             l == [user |-> LIQ, side |->  p.side, qty |-> p.qty, price |-> Price]
  <2>1. p \in Position
    BY <1>0, MemPos
  <2>2. p.side \in {1, -1} /\ p.qty \in Int
    BY <2>1 DEF Position, Sides, Long, Short
  <2>3. k.side = -p.side /\ k.qty = p.qty /\ l.side = p.side /\ l.qty = p.qty
    BY Zenon
  <2>4. legs = <<>> /\ legs' = <<k, l>> /\ UNCHANGED mem
    BY <1>3, Zenon DEF TakeOver
  <2> HIDE DEF p, k, l
  <2>5. Signed(k) + Signed(l) = 0
    BY <2>2, <2>3 DEF Signed
  <2> QED
    BY <1>1, <2>4, <2>5
<1>4. ASSUME NEW i, NEW state \in {Active, Closing, ForceTPing},
             mem' = SetState(mem, i, state), UNCHANGED legs
      PROVE  Paired'
  <2>1. Gains(mem, mem', MM, 0)
    BY <1>0, <1>4, StateGains
  <2> QED
    BY <1>4, <2>1, GainsPaired
<1>5. ASSUME ApplyLeg PROVE Paired'
  <2> DEFINE l == Head(legs)
             lev == IF l.user \in Users THEN Leverage ELSE 1
  <2>1. l \in Leg /\ legs # <<>>
    BY <1>0, <1>5 DEF ApplyLeg
  <2>2. Terms(l.user, l.side, l.qty, l.price, lev) /\ l.user \in Traders
    BY <2>1, PriceAssumption DEF Terms, Leg
  <2>5. Signed(l) \in Int
    BY <2>1, SignedInt
  <2>3. /\ mem' \in UpdatePosition(mem, l.user, l.side, l.qty, l.price, lev, FALSE)
        /\ legs' = Tail(legs) /\ l = Head(legs)
    BY <1>5 DEF ApplyLeg
  <2> HIDE DEF l, lev
  <2>4. Traded(mem, mem', l.user, Signed(l))
    BY <1>0, <2>2, <2>3, UpdateTraded DEF Signed
  <2> QED
    BY <2>1, <2>2, <2>3, <2>4, <2>5, LegPaired
<1> QED
  BY <1>2, <1>3, <1>4, <1>5 DEF EngineStep, BeginClose, Reopen

LEMMA SettlePaired == Inv /\ Money /\ Paired /\ SettleStep => Paired'
<1> SUFFICES ASSUME Inv, Money, Paired, SettleStep PROVE Paired'
  OBVIOUS
<1>1. ASSUME NEW i \in DOMAIN listed, SettleSystem(i) PROVE Paired'
  BY <1>1, SamePaired DEF SettleSystem, engine
<1>2. ASSUME NEW i \in DOMAIN listed, CreateSettlement(i) PROVE Paired'
  BY <1>2, SamePaired DEF CreateSettlement, engine
<1>3. ASSUME CreditSystem PROVE Paired'
  BY <1>3, CreditSystemGains, GainsPaired DEF CreditSystem
<1>9. ASSUME ReadSystem PROVE Paired'
  BY <1>9, SamePaired DEF ReadSystem, engine
<1>10. ASSUME WriteSystem PROVE Paired'
  BY <1>10, WriteSystemGains, GainsPaired DEF WriteSystem
<1>11. ASSUME WriteSystemInTrade PROVE Paired'
  <2> DEFINE l == Head(legs)
  <2>1. /\ legs # <<>> /\ legs' = Tail(legs) /\ l = Head(legs) /\ l.user = MM
        /\ mem' \in UpdatePosition(mem, l.user, l.side, l.qty, l.price, 1, FALSE)
    BY <1>11, TradeOfSystem
  <2>2. l \in Leg /\ MemOK(mem)
    BY <2>1 DEF Money
  <2> HIDE DEF l
  <2>3. Terms(l.user, l.side, l.qty, l.price, 1) /\ l.user \in Traders
    BY <2>2, PriceAssumption DEF Terms, Leg
  <2>5. Signed(l) \in Int
    BY <2>2, SignedInt
  <2>4. Traded(mem, mem', l.user, Signed(l))
    BY <2>1, <2>2, <2>3, UpdateTraded DEF Signed
  <2> QED
    BY <2>1, <2>3, <2>4, <2>5, LegPaired
<1>4. ASSUME UpdateFundingPnl PROVE Paired'
  BY <1>4, SamePaired DEF UpdateFundingPnl, engine
<1>5. ASSUME ChargeBalance PROVE Paired'
  BY <1>5, ChargeBalanceGains, GainsPaired, SamePaired DEF ChargeBalance
<1>6. ASSUME ChargeMargin PROVE Paired'
  BY <1>6, ChargeMarginGains, GainsPaired DEF ChargeMargin
<1>7. ASSUME ChargeMarginFails PROVE Paired'
  BY <1>7, SamePaired DEF ChargeMarginFails, engine
<1>8. ASSUME End PROVE Paired'
  BY <1>8, SamePaired DEF End, engine
<1> QED
  BY <1>1, <1>2, <1>3, <1>4, <1>5, <1>6, <1>7, <1>8, <1>9, <1>10, <1>11 DEF SettleStep

\* For every long there is a short.
THEOREM PairedInvariance == Spec => []Paired
<1>1. Inv /\ Money /\ Paired /\ [Next]_vars => Paired'
  <2> SUFFICES ASSUME Inv, Money, Paired, [Next]_vars PROVE Paired'
    OBVIOUS
  <2>1. CASE Persist
    BY <2>1, SamePaired DEF Persist
  <2>2. CASE \E rate \in Rates : Begin(rate)
    BY <2>2, SamePaired DEF Begin, engine
  <2>3. CASE Skip
    BY <2>3, SamePaired DEF Skip, engine
  <2>4. CASE UNCHANGED vars
    BY <2>4, SamePaired DEF vars
  <2> QED
    BY <2>1, <2>2, <2>3, <2>4, EnginePaired, SettlePaired DEF Next
<1> QED
  BY InitPaired, Invariance, MoneyInvariance, <1>1, PTL DEF Spec

LEMMA InitDue == Init => DueFits
<1> SUFFICES ASSUME Init PROVE DueFits
  OBVIOUS
<1>1. sched.pc = "idle" /\ sums.before = 0 /\ sums.due = Nobody
  BY DEF Init, Asleep
<1>2. \A u \in Traders : Nobody[u] \in Int /\ Nobody[u] = 0 * Nobody[u]
  BY DEF Nobody
<1>3. Total(Nobody) = 0 * Total(Nobody)
  BY <1>2, TradersFinite, SumScale DEF Total
<1>5. Total(Nobody) \in Int
  BY <1>2, TradersFinite, SumInt DEF Total
<1>4. Total(sums.due) = 0
  BY <1>1, <1>3, <1>5
<1> QED
  BY <1>1, <1>4 DEF DueFits

\* Steps that charge nobody.
LEMMA DueStays ==
  ASSUME DueFits, UNCHANGED <<listed, sums>>, calm' => calm, sched'.rate = sched.rate,
         sched.pc = "idle" <=> sched'.pc = "idle",
         sched'.pc \in {"credit", "read", "write", "column", "lock"} /\ calm =>
           sched'.payment = PaymentFor(sched'.at)
  PROVE  DueFits'
<1>1. \A i : PaymentFor(i)' = PaymentFor(i)
  BY DEF PaymentFor
<1>2. Unpaid' = Unpaid
  BY <1>1 DEF Unpaid
<1>3. (PaymentFor(sched.at))' = PaymentFor(sched'.at)
  BY DEF PaymentFor
<1>4. Total(sums.due)' = Total(sums.due) /\ sums'.before = sums.before
  BY DEF Total
<1>5. CASE sched.pc = "idle"
  BY <1>4, <1>5 DEF DueFits
<1>6. CASE sched.pc # "idle"
  BY <1>2, <1>3, <1>4, <1>6 DEF DueFits
<1> QED
  BY <1>5, <1>6

\* A step of the engine disturbs a settlement.
LEMMA DueDisturbed == ASSUME DueFits, Disturb, UNCHANGED <<sched, sums>> PROVE DueFits'
<1>1. calm' = (calm /\ sched.pc = "idle")
  BY DEF Disturb
<1>2. Total(sums.due)' = Total(sums.due)
  BY DEF Total
<1>3. CASE sched.pc # "idle"
  BY <1>1, <1>3 DEF DueFits
<1>4. CASE sched.pc = "idle"
  BY <1>1, <1>2, <1>4 DEF DueFits
<1> QED
  BY <1>3, <1>4

\* A payment changes none of the others.
LEMMA PaymentsStay ==
  ASSUME Money, NEW u, NEW d, Gains(mem, mem', u, d), NEW shown, Pointing(shown),
         DOMAIN shown \subseteq DOMAIN listed,
         \A i \in DOMAIN shown : shown[i] = listed[i],
         sched'.rate = sched.rate
  PROVE  DOMAIN listed' = DOMAIN shown /\ \A i \in DOMAIN shown : PaymentFor(i)' = PaymentFor(i)
<1>1. DOMAIN listed' = DOMAIN shown
  BY DEF Pointing
<1>2. ASSUME NEW i \in DOMAIN shown
      PROVE  listed'[i].qty = listed[i].qty /\ listed'[i].side = listed[i].side
  <2>1. CASE i \notin DOMAIN mem'.pos
    BY <2>1 DEF Pointing
  <2>2. CASE i \in DOMAIN mem'.pos
    <3>1. listed'[i] = mem'.pos[i]
      BY <2>2 DEF Pointing
    <3>2. i \in DOMAIN mem.pos /\ listed[i] = mem.pos[i]
      BY <2>2 DEF Gains, Money, ListShows
    <3> QED
      BY <3>1, <3>2 DEF Gains
  <2> QED
    BY <2>1, <2>2
<1> QED
  BY <1>1, <1>2 DEF PaymentFor

LEMMA ListedFinite == ASSUME Inv PROVE IsFiniteSet(DOMAIN listed)
<1>1. mem.lastPos \in Nat /\ DOMAIN listed \subseteq 1 .. mem.lastPos
  BY DEF Inv, Sound, ListFits
<1>2. IsFiniteSet(1 .. mem.lastPos)
  BY <1>1, FS_Interval
<1> QED
  BY <1>1, <1>2, FS_Subset

LEMMA UnpaidInt == ASSUME Inv, Money PROVE Unpaid \in Int
<1> DEFINE f == [i \in DOMAIN listed |-> PaymentFor(i)]
<1>1. \A i \in DOMAIN listed : f[i] \in Int
  BY PaymentInt
<1>2. IsFiniteSet(DOMAIN listed)
  BY ListedFinite
<1> HIDE DEF f
<1>3. SumFunctionOnSet(f, DOMAIN listed) \in Int
  BY <1>1, <1>2, SumInt
<1> QED
  BY <1>3 DEF Unpaid, f

LEMMA DueInt == ASSUME Money PROVE Total(sums.due) \in Int
<1>1. \A u \in Traders : sums.due[u] \in Int
  BY DEF Money, SumsTyped
<1> QED
  BY <1>1, TradersFinite, SumInt DEF Total

\* Position i is paid for: what was still to be paid is less by it.
LEMMA PayDue ==
  ASSUME Inv, Money, DueFits, sched.pc \in {"credit", "read", "write", "column", "lock"},
         NEW u \in Traders, NEW forgiven, NEW clamped, NEW overwritten,
         Pay(sched.at, u, sched.payment, forgiven, clamped, overwritten),
         NEW v, NEW d, Gains(mem, mem', v, d), calm' => calm
  PROVE  DueFits'
<1> SUFFICES ASSUME calm, calm' PROVE DueFits'
  BY DEF DueFits
<1> DEFINE i == sched.at
           p == sched.payment
           shown == Restrict(listed, DOMAIN listed \ {i})
           f == [j \in DOMAIN listed |-> PaymentFor(j)]
           g == [j \in DOMAIN listed |-> PaymentFor(j)]'
           S == DOMAIN listed
           due == sums.due
           now == sums'.due
<1>1. i \in S /\ p = PaymentFor(i) /\ Total(due) + Unpaid = sums.before
  BY DEF DueFits, Inv, SchedFits
<1>2. p \in Int /\ due \in [Traders -> Int]
  BY DEF Money, SumsTyped
<1>3. DOMAIN shown = S \ {i} /\ \A j \in DOMAIN shown : shown[j] = listed[j]
  BY DEF Restrict
<1>4. /\ Pointing(shown) /\ sched'.rate = sched.rate /\ sched'.pc = "list"
      /\ now = [due EXCEPT ![u] = @ + p] /\ sums'.before = sums.before
  BY DEF Pay, Inv, SchedFits, Money, SumsTyped
<1>5. DOMAIN listed' = S \ {i} /\ \A j \in S \ {i} : PaymentFor(j)' = PaymentFor(j)
  <2> HIDE DEF shown
  <2> QED
    BY <1>3, <1>4, PaymentsStay
<1>6. \A j \in S : f[j] \in Int
  BY PaymentInt
<1>7. IsFiniteSet(S) /\ IsFiniteSet(S \ {i})
  BY ListedFinite, FS_RemoveElement
<1>8. Unpaid = SumFunctionOnSet(f, S)
  BY DEF Unpaid
<1>9. Unpaid' = SumFunctionOnSet(g, S \ {i})
  BY <1>5 DEF Unpaid
<1>10. \A j \in S \ {i} : g[j] = f[j]
  BY <1>5
<1>11. f[i] = p
  BY <1>1
<1> HIDE DEF f, g, i, p, S, due, now, shown
<1>12. SumFunctionOnSet(f, S) = f[i] + SumFunctionOnSet(f, S \ {i})
  BY <1>1, <1>6, <1>7, SumRemove
<1>13. SumFunctionOnSet(g, S \ {i}) = SumFunctionOnSet(f, S \ {i})
  BY <1>7, <1>10, SumSame
<1>14. SumFunctionOnSet(f, S \ {i}) \in Int
  BY <1>6, <1>7, SumInt
<1>15. Total(now) = Total(due) + p
  <2>1. /\ \A w \in Traders : due[w] \in Int /\ now[w] \in Int
        /\ \A w \in Traders \ {u} : now[w] = due[w]
        /\ now[u] - due[u] = p
    BY <1>2, <1>4
  <2>2. SumFunctionOnSet(now, Traders) = SumFunctionOnSet(due, Traders) + (now[u] - due[u])
    BY <2>1, TradersFinite, SumUpdate
  <2> QED
    BY <2>1, <2>2 DEF Total
<1>16. Total(due) \in Int
  BY DueInt DEF due
<1>17. Total(now) + Unpaid' = sums.before
  BY <1>1, <1>2, <1>8, <1>9, <1>11, <1>12, <1>13, <1>14, <1>15, <1>16
<1>18. Total(sums.due)' = Total(now)
  BY DEF Total, now
<1> QED
  BY <1>4, <1>17, <1>18 DEF DueFits

\* A settlement that begins in calm takes as much as it gives.
LEMMA BeginDue ==
  ASSUME Inv, Money, Paired, NEW rate \in Rates, Begin(rate)
  PROVE  DueFits'
<1> SUFFICES ASSUME calm' PROVE DueFits'
  BY DEF DueFits
<1> DEFINE S == DOMAIN mem.pos
           f == [i \in DOMAIN mem.pos |-> mem.pos[i].side * mem.pos[i].qty]
           g == [i \in DOMAIN listed |-> PaymentFor(i)]'
           c == -(Price * rate)
<1>1. legs = <<>> /\ DOMAIN Actives = S /\ SumFunctionOnSet(mem.lost, Traders) = 0
  BY DEF Begin, Total
<1>2. MemOK(mem) /\ IsFiniteSet(S) /\ \A i \in S : mem.pos[i] \in Position
  BY MemPos DEF Money
<1>3. \A i \in S : f[i] \in Int
  BY <1>2, PositionInts
<1>4. SumFunctionOnSet(f, S) = 0
  <2>1. HoldingSum(mem) = 0
    <3>1. Len(legs) = 0 /\ HoldingSum(mem) \in Int
      BY <1>1, <1>2, HoldingInt
    <3> QED
      BY <3>1 DEF Paired
  <2>2. SumFunctionOnSet(f, S) = HoldingSum(mem)
    BY <1>1, <1>2, HoldingPositions
  <2> QED
    BY <2>1, <2>2
<1>5. DOMAIN listed' = S /\ \A i \in S : listed'[i] = mem.pos[i]
  BY <1>1 DEF Begin, Actives, Restrict
<1>6. sched'.rate = rate /\ sched'.pc = "list" /\ rate \in Int /\ Price \in Int
  BY PriceAssumption, RatesAssumption DEF Begin, Asleep
<1>7. ASSUME NEW i \in S PROVE g[i] = c * f[i]
  <2>1. mem.pos[i].side \in {1, -1} /\ mem.pos[i].qty \in Int
    BY <1>2 DEF Position, Sides, Long, Short
  <2>2. g[i] = (mem.pos[i].qty * Price) * rate * (-mem.pos[i].side)
    BY <1>5, <1>6 DEF PaymentFor, CalcFundingPayment
  <2> DEFINE q == mem.pos[i].qty
             s == mem.pos[i].side
  <2>3. f[i] = s * q
    OBVIOUS
  <2>4. \A a, b, r \in Int : (a * b) * r * (-1) = (-(b * r)) * (1 * a)
    OBVIOUS
  <2>5. \A a, b, r \in Int : (a * b) * r * (-(-1)) = (-(b * r)) * ((-1) * a)
    OBVIOUS
  <2>6. q \in Int /\ s \in {1, -1} /\ g[i] = (q * Price) * rate * (-s)
    BY <2>1, <2>2
  <2> HIDE DEF q, s, f, g
  <2>7. CASE s = 1
    BY <1>6, <2>3, <2>4, <2>6, <2>7
  <2>8. CASE s = -1
    BY <1>6, <2>3, <2>5, <2>6, <2>8
  <2> QED
    BY <2>6, <2>7, <2>8
<1>8. Unpaid' = SumFunctionOnSet(g, S)
  BY <1>5 DEF Unpaid
<1>9. c \in Int
  BY <1>6
<1>10. sums'.due = sums.due /\ sums'.before = Total(sums.due)
  BY DEF Begin, Money, SumsTyped
<1> HIDE DEF f, g, c, S
<1>11. SumFunctionOnSet(g, S) = c * SumFunctionOnSet(f, S)
  BY <1>2, <1>3, <1>7, <1>9, SumScale
<1>12. Unpaid' = 0
  BY <1>4, <1>8, <1>9, <1>11
<1>13. Total(sums.due)' = Total(sums.due) /\ Total(sums.due) \in Int
  BY <1>10, DueInt DEF Total
<1> QED
  BY <1>6, <1>10, <1>12, <1>13 DEF DueFits

LEMMA SettleDue == Inv /\ Money /\ DueFits /\ SettleStep => DueFits'
<1> SUFFICES ASSUME Inv, Money, DueFits, SettleStep PROVE DueFits'
  OBVIOUS
<1>0. {"pc", "at", "rate", "payment", "old"} \subseteq DOMAIN sched
  BY DEF Inv, SchedFits
<1>1. ASSUME NEW i \in DOMAIN listed, SettleSystem(i) PROVE DueFits'
  <2>1. UNCHANGED <<listed, sums, calm>> /\ sched.pc = "list"
    BY <1>1 DEF SettleSystem, AtPosition, history
  <2>2. sched'.pc = "credit" /\ sched'.at = i /\ sched'.payment = PaymentFor(i)
        /\ sched'.rate = sched.rate
    BY <1>0, <1>1 DEF SettleSystem
  <2> QED
    BY <2>1, <2>2, DueStays
<1>2. ASSUME NEW i \in DOMAIN listed, CreateSettlement(i) PROVE DueFits'
  <2>1. UNCHANGED <<listed, sums, calm>> /\ sched.pc = "list"
    BY <1>2 DEF CreateSettlement, AtPosition, history
  <2>2. CASE sched' = [sched EXCEPT !.pc = "column", !.at = i, !.payment = PaymentFor(i)]
    <3>1. sched'.pc = "column" /\ sched'.at = i /\ sched'.payment = PaymentFor(i)
          /\ sched'.rate = sched.rate
      BY <1>0, <2>2
    <3> QED
      BY <2>1, <3>1, DueStays
  <2>3. CASE sched' = [sched EXCEPT !.at = i]
    <3>1. sched'.pc = "list" /\ sched'.rate = sched.rate
      BY <1>0, <2>1, <2>3
    <3> QED
      BY <2>1, <3>1, DueStays
  <2> QED
    BY <1>2, <2>2, <2>3 DEF CreateSettlement
<1>3. ASSUME StartOver, UNCHANGED <<listed, sums, calm>>, sched.pc # "idle" PROVE DueFits'
  <2>1. sched'.pc = "list" /\ sched'.rate = sched.rate
    BY <1>0, <1>3 DEF StartOver
  <2> QED
    BY <1>3, <2>1, DueStays
<1>4. ASSUME CreditSystem PROVE DueFits'
  <2>1. Gains(mem, mem', MM, sched.payment + Clamped(mem, MM, sched.payment))
    BY <1>4, CreditSystemGains
  <2>2. /\ Pointing(listed) /\ UNCHANGED calm /\ sched.pc = "credit"
        /\ sched'.pc = "read" /\ sched'.at = sched.at /\ sched'.payment = sched.payment
        /\ sched'.rate = sched.rate /\ sched.at \in DOMAIN listed
        /\ sums' = [sums EXCEPT !.clamped[MM] = @ + Clamped(mem, MM, sched.payment)]
    BY <1>0, <1>4 DEF CreditSystem, Inv, SchedFits
  <2>3. DOMAIN listed' = DOMAIN listed /\ \A j \in DOMAIN listed : PaymentFor(j)' = PaymentFor(j)
    BY <2>1, <2>2, PaymentsStay
  <2>4. Unpaid' = Unpaid
    BY <2>3 DEF Unpaid
  <2>5. (PaymentFor(sched.at))' = PaymentFor(sched.at)
    <3>1. \A j : j = sched'.at => (PaymentFor(sched.at))' = PaymentFor(j)'
      BY DEF PaymentFor
    <3> QED
      BY <2>2, <2>3, <3>1
  <2>6. Total(sums.due)' = Total(sums.due) /\ sums'.before = sums.before
    BY <2>2 DEF Total, Money, SumsTyped
  <2> QED
    BY <2>2, <2>4, <2>5, <2>6 DEF DueFits
<1>9. ASSUME ReadSystem PROVE DueFits'
  <2>1. sched.pc = "read" /\ UNCHANGED <<mem, calm>> /\ MM \in Traders
    BY <1>9 DEF ReadSystem, engine, Traders
  <2>2. CASE /\ sched' = [sched EXCEPT !.pc = "write", !.old = mem.pos[sched.at].funding]
             /\ UNCHANGED <<listed, charged, sums>>
    <3>1. sched'.pc = "write" /\ sched'.at = sched.at /\ sched'.payment = sched.payment
          /\ sched'.rate = sched.rate
      BY <1>0, <2>2
    <3>2. calm => sched.payment = PaymentFor(sched.at)
      BY <2>1 DEF DueFits
    <3> QED
      BY <2>1, <2>2, <3>1, <3>2, DueStays
  <2>3. CASE Pay(sched.at, MM, sched.payment, 0, 0, 0)
    <3>1. Gains(mem, mem', MM, 0)
      BY <2>1, GainsNothing DEF Money
    <3> QED
      BY <2>1, <2>3, <3>1, PayDue
  <2> QED
    BY <1>9, <2>2, <2>3 DEF ReadSystem
<1>10. ASSUME WriteSystem PROVE DueFits'
  <2>1. Gains(mem, mem', MM, Accrued - Overwritten)
    BY <1>10, WriteSystemGains
  <2>2. PICK overwritten : Pay(sched.at, MM, sched.payment, 0, 0, overwritten)
    BY <1>10 DEF WriteSystem
  <2>3. MM \in Traders /\ sched.pc = "write" /\ UNCHANGED calm
    BY <1>10 DEF WriteSystem, Traders
  <2> QED
    BY <2>1, <2>2, <2>3, PayDue
<1>11. ASSUME WriteSystemInTrade PROVE DueFits'
  BY <1>11 DEF WriteSystemInTrade, DueFits
<1>5. ASSUME UpdateFundingPnl PROVE DueFits'
  <2>1. UNCHANGED <<listed, sums, calm>> /\ sched.pc = "column"
    BY <1>5 DEF UpdateFundingPnl, history
  <2>2. CASE sched' = [sched EXCEPT !.pc = "lock"]
    <3>1. sched'.pc = "lock" /\ sched'.at = sched.at /\ sched'.payment = sched.payment
          /\ sched'.rate = sched.rate
      BY <1>0, <2>2
    <3>2. calm => sched.payment = PaymentFor(sched.at)
      BY <2>1 DEF DueFits
    <3> QED
      BY <2>1, <3>1, <3>2, DueStays
  <2> QED
    BY <1>3, <1>5, <2>1, <2>2 DEF UpdateFundingPnl
<1>6. ASSUME ChargeBalance PROVE DueFits'
  <2>1. sched.pc = "lock" /\ UNCHANGED calm
    BY <1>6 DEF ChargeBalance
  <2>2. CASE /\ mem' = AddPnl(Accrue(mem, sched.at, sched.payment), Holder, sched.payment)
             /\ Pay(sched.at, Holder, sched.payment, 0, Clamped(mem, Holder, sched.payment), 0)
    <3>1. /\ Gains(mem, mem', Holder,
                   Accrued + (sched.payment + Clamped(mem, Holder, sched.payment)))
          /\ Holder \in Traders
      BY <2>1, <2>2, ChargeBalanceGains, HolderAtHand
    <3> QED
      BY <2>1, <2>2, <3>1, PayDue
  <2>3. CASE StartOver /\ UNCHANGED <<mem, db, listed, charged, sums>>
    BY <1>3, <2>1, <2>3
  <2> QED
    BY <1>6, <2>2, <2>3 DEF ChargeBalance
<1>7. ASSUME ChargeMargin PROVE DueFits'
  BY <1>7 DEF ChargeMargin, DueFits
<1>8. ASSUME ChargeMarginFails PROVE DueFits'
  BY <1>3, <1>8 DEF ChargeMarginFails
<1>12. ASSUME End PROVE DueFits'
  <2>1. /\ sched.pc = "list" /\ DOMAIN listed = {} /\ sched'.pc = "idle"
        /\ UNCHANGED <<sums, calm>>
    BY <1>12 DEF End, Asleep, history
  <2>2. Unpaid = 0
    BY <2>1, SumEmpty DEF Unpaid
  <2>3. Total(sums.due)' = Total(sums.due) /\ Total(sums.due) \in Int
    BY <2>1, DueInt DEF Total
  <2> QED
    BY <2>1, <2>2, <2>3 DEF DueFits
<1> QED
  BY <1>1, <1>2, <1>4, <1>5, <1>6, <1>7, <1>8, <1>9, <1>10, <1>11, <1>12 DEF SettleStep

THEOREM DueInvariance == Spec => []DueFits
<1>1. Inv /\ Money /\ Paired /\ DueFits /\ [Next]_vars => DueFits'
  <2> SUFFICES ASSUME Inv, Money, Paired, DueFits, [Next]_vars PROVE DueFits'
    OBVIOUS
  <2>1. CASE EngineStep
    BY <2>1, DueDisturbed
       DEF EngineStep, Trade, TakeOver, BeginClose, Reopen, ApplyLeg
  <2>2. ASSUME UNCHANGED <<sched, listed, sums, calm>> PROVE DueFits'
    BY <2>2, DueStays DEF DueFits
  <2>3. CASE Persist
    BY <2>2, <2>3 DEF Persist
  <2>4. CASE \E rate \in Rates : Begin(rate)
    BY <2>4, BeginDue
  <2>5. CASE Skip
    BY <2>2, <2>5 DEF Skip, history
  <2>6. CASE UNCHANGED vars
    BY <2>2, <2>6 DEF vars
  <2> QED
    BY <2>1, <2>3, <2>4, <2>5, <2>6, SettleDue DEF Next
<1> QED
  BY InitDue, Invariance, MoneyInvariance, PairedInvariance, <1>1, PTL DEF Spec

\* README_EN.md:56, longs and shorts pay each other: a settlement that sees
\* every position, that no trade disturbs and that everyone can pay takes as
\* much from some as it gives to others.
THEOREM Balanced == Spec => []FundingBalanced
<1>1. DueFits => FundingBalanced
  BY DEF DueFits, FundingBalanced
<1> QED
  BY <1>1, DueInvariance, PTL

-----------------------------------------------------------------------------
(* What the events of one leg tell the worker.                              *)

\* Events as TradeEvents makes them: only the first two say what a row is to be.
Event ==
  [type : {"open"}, user : Users, order : {0}, pos : Nat, delta : Int, row : Position]
    \cup [type : {"reduce"}, user : Users, order : {0}, pos : Nat, delta : Int,
          row : [qty : Nat, margin : Nat]]
    \cup [type : {"close"}, user : Users, order : {0}, pos : Nat, delta : Int,
          row : [state : {"Closed"}]]
    \cup [type : {"increase"}, user : Users, order : {0}, pos : Nat, delta : Int,
          row : {<< >>}]

EventOf(type, u, i, delta, row) ==
  [type |-> type, user |-> u, order |-> 0, pos |-> i, delta |-> delta, row |-> row]

\* The positions for which there are events.
Less(m, n, l) ==
  {i \in DOMAIN m.pos : m.pos[i].side # l.side /\ (i \in DOMAIN n.pos => n.pos[i] # m.pos[i])}

More(m, n, l) ==
  {i \in DOMAIN m.pos \cap DOMAIN n.pos : m.pos[i].side = l.side /\ n.pos[i] # m.pos[i]}

New(m, n) == DOMAIN n.pos \ DOMAIN m.pos

\* What a reduction gives back.
Back(m, l, S) ==
  SumFunctionOnSet([i \in DOMAIN m.pos |-> LET cr == CalcReduce(m.pos[i], l.price, l.qty)
                                           IN  cr.margin + cr.net], S)

LessEvent(m, n, l, i) ==
  IF i \in DOMAIN n.pos
  THEN EventOf("reduce", l.user, i, Back(m, l, Less(m, n, l)),
               [qty |-> n.pos[i].qty, margin |-> n.pos[i].margin])
  ELSE EventOf("close", l.user, i, Back(m, l, Less(m, n, l)), [state |-> "Closed"])

MoreEvent(m, n, l, i) == EventOf("increase", l.user, i, n.bal[l.user] - m.bal[l.user], << >>)

NewEvent(m, n, l, i) ==
  EventOf("open", l.user, i, (n.bal[l.user] - m.bal[l.user]) - Back(m, l, Less(m, n, l)), n.pos[i])

LEMMA EventsAre ==
  ASSUME NEW m, NEW n, NEW l, l.user \in Users
  PROVE  TradeEvents(m, n, l, 0)
           = SetToSeq({LessEvent(m, n, l, i) : i \in Less(m, n, l)})
               \o SetToSeq({MoreEvent(m, n, l, i) : i \in More(m, n, l)})
               \o SetToSeq({NewEvent(m, n, l, i) : i \in New(m, n)})
BY Zenon DEF TradeEvents, LessEvent, MoreEvent, NewEvent, Less, More, New, Back, EventOf

\* What the events ev of one leg of u say of the step from m to n: together how
\* his balance changes, and for each position that changed, unless it was
\* increased, the margin it has now.
Deltas(ev) == SumFunctionOnSet([k \in DOMAIN ev |-> ev[k].delta], DOMAIN ev)

Shows(e, row) == e.type = "increase" \/ (e.type \in {"open", "reduce"} /\ e.row.margin = row.margin)

OnlyOne(ev, i, row) ==
  \E k \in DOMAIN ev : /\ ev[k].pos = i /\ Shows(ev[k], row)
                       /\ \A j \in DOMAIN ev : j > k => ev[j].pos # i

Concerns(e, m, n, u) ==
  /\ e.user = u /\ e.pos \in 1 .. n.lastPos
  /\ e.pos \in DOMAIN m.pos => m.pos[e.pos].user = u
  /\ e.pos \in DOMAIN n.pos => n.pos[e.pos].user = u

Tells(ev, m, n, u) ==
  /\ ev \in Seq(Event)
  /\ \A k \in DOMAIN ev : Concerns(ev[k], m, n, u)
  /\ Deltas(ev) = n.bal[u] - m.bal[u]
  /\ \A i \in DOMAIN n.pos :
       \/ /\ i \in DOMAIN m.pos /\ n.pos[i] = m.pos[i]
          /\ \A k \in DOMAIN ev : ev[k].pos # i
       \/ OnlyOne(ev, i, n.pos[i])

LEMMA DeltasOfOne ==
  ASSUME NEW e, e.delta \in Int
  PROVE  Deltas(<<e>>) = e.delta
<1> DEFINE f == [k \in DOMAIN <<e>> |-> <<e>>[k].delta]
<1>1. DOMAIN <<e>> = {1} /\ f[1] = e.delta
  OBVIOUS
<1> HIDE DEF f
<1>2. SumFunctionOnSet(f, {1}) = e.delta
  BY <1>1, SumOne
<1> QED
  BY <1>1, <1>2 DEF Deltas, f

LEMMA DeltasOfTwo ==
  ASSUME NEW d, NEW e, d.delta \in Int, e.delta \in Int
  PROVE  Deltas(<<d, e>>) = d.delta + e.delta
<1> DEFINE f == [k \in DOMAIN <<d, e>> |-> <<d, e>>[k].delta]
<1>1. DOMAIN <<d, e>> = 1 .. 2 /\ f[1] = d.delta /\ f[2] = e.delta
  OBVIOUS
<1> HIDE DEF f
<1>2. 1 .. (2 - 1) = {1} /\ 2 \in Nat /\ 2 # 0 /\ \A i \in 1 .. 2 : f[i] \in Int
  BY <1>1
<1>3. SumFunctionOnSet(f, 1 .. 2) = f[2] + SumFunctionOnSet(f, 1 .. (2 - 1))
  BY <1>2, SumLast
<1>4. SumFunctionOnSet(f, {1}) = d.delta
  BY <1>1, SumOne
<1>5. SumFunctionOnSet(f, 1 .. 2) = d.delta + e.delta
  BY <1>1, <1>2, <1>3, <1>4
<1> QED
  BY <1>1, <1>5 DEF Deltas, f

\* The events when position i changed or went, and then perhaps another opened.
LEMMA EventsOfNothing ==
  ASSUME NEW m, NEW n, NEW l, l.user \in Users, Unmoved(m, n)
  PROVE  TradeEvents(m, n, l, 0) = << >>
<1>1. Less(m, n, l) = {} /\ More(m, n, l) = {} /\ New(m, n) = {}
  BY DEF Unmoved, Less, More, New
<1>2. /\ {LessEvent(m, n, l, i) : i \in Less(m, n, l)} = {}
      /\ {MoreEvent(m, n, l, i) : i \in More(m, n, l)} = {}
      /\ {NewEvent(m, n, l, i) : i \in New(m, n)} = {}
  BY <1>1
<1>3. TradeEvents(m, n, l, 0) = SetToSeq({}) \o SetToSeq({}) \o SetToSeq({})
  BY <1>2, EventsAre, Zenon
<1> QED
  BY <1>3, SeqOfNone, JoinedSeqs

LEMMA EventsOfOpening ==
  ASSUME NEW m, MemOK(m), NEW n, NEW l, l.user \in Users, OneMore(m, n, l.user)
  PROVE  /\ TradeEvents(m, n, l, 0) = <<NewEvent(m, n, l, n.lastPos)>>
         /\ Less(m, n, l) = {}
<1> DEFINE e == NewEvent(m, n, l, n.lastPos)
<1>0. m.lastPos \in Nat /\ DOMAIN m.pos \subseteq 1 .. m.lastPos
  BY MemPos
<1>1. n.lastPos \notin DOMAIN m.pos
  BY <1>0 DEF OneMore
<1>2. Less(m, n, l) = {} /\ More(m, n, l) = {} /\ New(m, n) = {n.lastPos}
  BY <1>1 DEF OneMore, Less, More, New
<1>3. /\ {LessEvent(m, n, l, i) : i \in Less(m, n, l)} = {}
      /\ {MoreEvent(m, n, l, i) : i \in More(m, n, l)} = {}
      /\ {NewEvent(m, n, l, i) : i \in New(m, n)} = {e}
  BY <1>2
<1> HIDE DEF e
<1>4. TradeEvents(m, n, l, 0) = SetToSeq({}) \o SetToSeq({}) \o SetToSeq({e})
  <2>1. PICK a, b, c : /\ a = {LessEvent(m, n, l, x) : x \in Less(m, n, l)}
                       /\ b = {MoreEvent(m, n, l, x) : x \in More(m, n, l)}
                       /\ c = {NewEvent(m, n, l, x) : x \in New(m, n)}
                       /\ TradeEvents(m, n, l, 0) = SetToSeq(a) \o SetToSeq(b) \o SetToSeq(c)
    BY EventsAre, Zenon
  <2> QED
    BY <1>3, <2>1, Zenon
<1>5. TradeEvents(m, n, l, 0) = <<e>>
  BY <1>4, SeqOfNone, SeqOfOne, JoinedSeqs
<1> QED
  BY <1>2, <1>5 DEF e

LEMMA EventsOfIncrease ==
  ASSUME NEW m, NEW n, NEW l, l.user \in Users, NEW i \in DOMAIN m.pos \cap DOMAIN n.pos,
         OneTouched(m, n, i), m.pos[i].side = l.side
  PROVE  TradeEvents(m, n, l, 0) = <<MoreEvent(m, n, l, i)>>
<1> DEFINE e == MoreEvent(m, n, l, i)
<1>2. Less(m, n, l) = {} /\ More(m, n, l) = {i} /\ New(m, n) = {}
  BY DEF OneTouched, Less, More, New
<1>3. /\ {LessEvent(m, n, l, j) : j \in Less(m, n, l)} = {}
      /\ {MoreEvent(m, n, l, j) : j \in More(m, n, l)} = {e}
      /\ {NewEvent(m, n, l, j) : j \in New(m, n)} = {}
  BY <1>2
<1> HIDE DEF e
<1>4. TradeEvents(m, n, l, 0) = SetToSeq({}) \o SetToSeq({e}) \o SetToSeq({})
  <2>1. PICK a, b, c : /\ a = {LessEvent(m, n, l, x) : x \in Less(m, n, l)}
                       /\ b = {MoreEvent(m, n, l, x) : x \in More(m, n, l)}
                       /\ c = {NewEvent(m, n, l, x) : x \in New(m, n)}
                       /\ TradeEvents(m, n, l, 0) = SetToSeq(a) \o SetToSeq(b) \o SetToSeq(c)
    BY EventsAre, Zenon
  <2> QED
    BY <1>3, <2>1, Zenon
<1>5. TradeEvents(m, n, l, 0) = <<e>>
  BY <1>4, SeqOfNone, SeqOfOne, JoinedSeqs
<1> QED
  BY <1>5 DEF e

LEMMA EventsOfReduction ==
  ASSUME NEW m, NEW n, NEW l, l.user \in Users, NEW i \in DOMAIN m.pos,
         OneTouched(m, n, i), m.pos[i].side # l.side
  PROVE  TradeEvents(m, n, l, 0) = <<LessEvent(m, n, l, i)>> /\ Less(m, n, l) = {i}
<1> DEFINE e == LessEvent(m, n, l, i)
<1>2. Less(m, n, l) = {i} /\ More(m, n, l) = {} /\ New(m, n) = {}
  BY DEF OneTouched, Less, More, New
<1>3. /\ {LessEvent(m, n, l, j) : j \in Less(m, n, l)} = {e}
      /\ {MoreEvent(m, n, l, j) : j \in More(m, n, l)} = {}
      /\ {NewEvent(m, n, l, j) : j \in New(m, n)} = {}
  BY <1>2
<1> HIDE DEF e
<1>4. TradeEvents(m, n, l, 0) = SetToSeq({e}) \o SetToSeq({}) \o SetToSeq({})
  <2>1. PICK a, b, c : /\ a = {LessEvent(m, n, l, x) : x \in Less(m, n, l)}
                       /\ b = {MoreEvent(m, n, l, x) : x \in More(m, n, l)}
                       /\ c = {NewEvent(m, n, l, x) : x \in New(m, n)}
                       /\ TradeEvents(m, n, l, 0) = SetToSeq(a) \o SetToSeq(b) \o SetToSeq(c)
    BY EventsAre, Zenon
  <2> QED
    BY <1>3, <2>1, Zenon
<1>5. TradeEvents(m, n, l, 0) = <<e>>
  BY <1>4, SeqOfNone, SeqOfOne, JoinedSeqs
<1> QED
  BY <1>2, <1>5 DEF e

LEMMA EventsOfReversal ==
  ASSUME NEW m, MemOK(m), NEW k, NEW n, NEW l, l.user \in Users, NEW i \in DOMAIN m.pos,
         OneTouched(m, k, i), OneMore(k, n, l.user), m.pos[i].side # l.side
  PROVE  /\ TradeEvents(m, n, l, 0) = <<LessEvent(m, n, l, i), NewEvent(m, n, l, n.lastPos)>>
         /\ Less(m, n, l) = {i}
<1> DEFINE d == LessEvent(m, n, l, i)
           e == NewEvent(m, n, l, n.lastPos)
<1>0. m.lastPos \in Nat /\ DOMAIN m.pos \subseteq 1 .. m.lastPos
  BY MemPos
<1>1. n.lastPos \notin DOMAIN m.pos
  BY <1>0 DEF OneMore, OneTouched
<1>2. Less(m, n, l) = {i} /\ More(m, n, l) = {} /\ New(m, n) = {n.lastPos}
  BY <1>1 DEF OneTouched, OneMore, Less, More, New
<1>3. /\ {LessEvent(m, n, l, j) : j \in Less(m, n, l)} = {d}
      /\ {MoreEvent(m, n, l, j) : j \in More(m, n, l)} = {}
      /\ {NewEvent(m, n, l, j) : j \in New(m, n)} = {e}
  BY <1>2
<1> HIDE DEF d, e
<1>4. TradeEvents(m, n, l, 0) = SetToSeq({d}) \o SetToSeq({}) \o SetToSeq({e})
  <2>1. PICK a, b, c : /\ a = {LessEvent(m, n, l, x) : x \in Less(m, n, l)}
                       /\ b = {MoreEvent(m, n, l, x) : x \in More(m, n, l)}
                       /\ c = {NewEvent(m, n, l, x) : x \in New(m, n)}
                       /\ TradeEvents(m, n, l, 0) = SetToSeq(a) \o SetToSeq(b) \o SetToSeq(c)
    BY EventsAre, Zenon
  <2> QED
    BY <1>3, <2>1, Zenon
<1>5. d \in {d, e} /\ e \in {d, e} /\ SetToSeq({d}) = <<d>> /\ SetToSeq({e}) = <<e>>
  BY SeqOfOne
<1>6. <<d>> \o << >> \o <<e>> = <<d, e>>
  BY <1>5, JoinedSeqs, Zenon
<1>7. TradeEvents(m, n, l, 0) = <<d, e>>
  BY <1>4, <1>5, <1>6, SeqOfNone, Zenon
<1> QED
  BY <1>2, <1>7 DEF d, e


\* Whoever knows the events knows the step.
LEMMA NothingTells ==
  ASSUME NEW m, MemOK(m), NEW n, NEW u \in Users, Unmoved(m, n)
  PROVE  Tells(<< >>, m, n, u)
<1>1. << >> \in Seq(Event) /\ DOMAIN << >> = {}
  OBVIOUS
<1>2. Deltas(<< >>) = 0
  BY <1>1, SumEmpty DEF Deltas
<1>3. m.bal[u] \in Int
  BY DEF MemOK, Memory, Traders
<1> QED
  BY <1>1, <1>2, <1>3 DEF Tells, Unmoved

LEMMA OneTells ==
  ASSUME NEW m, NEW n, NEW u, NEW e \in Event, Concerns(e, m, n, u),
         e.delta = n.bal[u] - m.bal[u],
         \A i \in DOMAIN n.pos \ {e.pos} : i \in DOMAIN m.pos /\ n.pos[i] = m.pos[i],
         e.pos \in DOMAIN n.pos => Shows(e, n.pos[e.pos])
  PROVE  Tells(<<e>>, m, n, u)
<1>1. <<e>> \in Seq(Event) /\ DOMAIN <<e>> = {1} /\ <<e>>[1] = e
  OBVIOUS
<1>2. e.delta \in Int
  BY DEF Event
<1>3. Deltas(<<e>>) = n.bal[u] - m.bal[u]
  BY <1>2, DeltasOfOne
<1>4. e.pos \in DOMAIN n.pos => OnlyOne(<<e>>, e.pos, n.pos[e.pos])
  BY <1>1 DEF OnlyOne
<1>5. ASSUME NEW i \in DOMAIN n.pos
      PROVE  \/ /\ i \in DOMAIN m.pos /\ n.pos[i] = m.pos[i]
                /\ \A k \in DOMAIN <<e>> : <<e>>[k].pos # i
             \/ OnlyOne(<<e>>, i, n.pos[i])
  <2>1. CASE i = e.pos
    BY <1>4, <2>1
  <2>2. CASE i # e.pos
    BY <1>1, <2>2
  <2> QED
    BY <2>1, <2>2
<1> QED
  BY <1>1, <1>3, <1>5 DEF Tells

LEMMA TwoTell ==
  ASSUME NEW m, NEW n, NEW u, NEW d \in Event, NEW e \in Event,
         Concerns(d, m, n, u), Concerns(e, m, n, u), d.pos # e.pos,
         d.delta + e.delta = n.bal[u] - m.bal[u],
         \A i \in DOMAIN n.pos \ {d.pos, e.pos} : i \in DOMAIN m.pos /\ n.pos[i] = m.pos[i],
         d.pos \in DOMAIN n.pos => Shows(d, n.pos[d.pos]),
         e.pos \in DOMAIN n.pos => Shows(e, n.pos[e.pos])
  PROVE  Tells(<<d, e>>, m, n, u)
<1>1. /\ <<d, e>> \in Seq(Event) /\ DOMAIN <<d, e>> = {1, 2}
      /\ <<d, e>>[1] = d /\ <<d, e>>[2] = e
  OBVIOUS
<1>2. d.delta \in Int /\ e.delta \in Int
  BY DEF Event
<1>3. Deltas(<<d, e>>) = n.bal[u] - m.bal[u]
  BY <1>2, DeltasOfTwo
<1>4. /\ d.pos \in DOMAIN n.pos => OnlyOne(<<d, e>>, d.pos, n.pos[d.pos])
      /\ e.pos \in DOMAIN n.pos => OnlyOne(<<d, e>>, e.pos, n.pos[e.pos])
  BY <1>1 DEF OnlyOne
<1>5. ASSUME NEW i \in DOMAIN n.pos
      PROVE  \/ /\ i \in DOMAIN m.pos /\ n.pos[i] = m.pos[i]
                /\ \A k \in DOMAIN <<d, e>> : <<d, e>>[k].pos # i
             \/ OnlyOne(<<d, e>>, i, n.pos[i])
  <2>1. CASE i = d.pos \/ i = e.pos
    BY <1>4, <2>1
  <2>2. CASE i # d.pos /\ i # e.pos
    BY <1>1, <2>2
  <2> QED
    BY <2>1, <2>2
<1> QED
  BY <1>1, <1>3, <1>5 DEF Tells

\* The events as records: e is one for position i of u, with a delta of d.
EventFor(e, u, i, d, n) ==
  /\ e \in Event /\ e.user = u /\ e.pos = i /\ e.delta = d
  /\ i \in DOMAIN n.pos => Shows(e, n.pos[i])

LEMMA OpenIsEvent ==
  ASSUME NEW m, NEW n, MemOK(n), NEW l, l.user \in Users, NEW i \in DOMAIN n.pos,
         NEW d \in Int, d = (n.bal[l.user] - m.bal[l.user]) - Back(m, l, Less(m, n, l))
  PROVE  EventFor(NewEvent(m, n, l, i), l.user, i, d, n)
<1>1. n.pos[i] \in Position /\ i \in Nat
  <2>1. n.lastPos \in Nat /\ DOMAIN n.pos \subseteq 1 .. n.lastPos /\ n.pos[i] \in Position
    BY MemPos
  <2> QED
    BY <2>1
<1>2. NewEvent(m, n, l, i) = [type |-> "open", user |-> l.user, order |-> 0, pos |-> i,
                              delta |-> d, row |-> n.pos[i]]
  BY DEF NewEvent, EventOf
<1> QED
  BY <1>1, <1>2 DEF Event, EventFor, Shows

LEMMA IncreaseIsEvent ==
  ASSUME NEW m, NEW n, MemOK(n), NEW l, l.user \in Users, NEW i \in DOMAIN n.pos,
         NEW d \in Int, d = n.bal[l.user] - m.bal[l.user]
  PROVE  EventFor(MoreEvent(m, n, l, i), l.user, i, d, n)
<1>1. i \in Nat
  <2>1. n.lastPos \in Nat /\ DOMAIN n.pos \subseteq 1 .. n.lastPos
    BY MemPos
  <2> QED
    BY <2>1
<1>2. MoreEvent(m, n, l, i) = [type |-> "increase", user |-> l.user, order |-> 0, pos |-> i,
                               delta |-> d, row |-> << >>]
  BY DEF MoreEvent, EventOf
<1> QED
  BY <1>1, <1>2 DEF Event, EventFor, Shows

LEMMA ReductionIsEvent ==
  ASSUME NEW m, MemOK(m), NEW n, MemOK(n), NEW l, l.user \in Users, NEW i \in DOMAIN m.pos,
         NEW d \in Int, d = Back(m, l, Less(m, n, l))
  PROVE  EventFor(LessEvent(m, n, l, i), l.user, i, d, n)
<1>1. i \in Nat
  <2>1. m.lastPos \in Nat /\ DOMAIN m.pos \subseteq 1 .. m.lastPos
    BY MemPos
  <2> QED
    BY <2>1
<1>2. CASE i \in DOMAIN n.pos
  <2>1. n.pos[i].qty \in Nat /\ n.pos[i].margin \in Nat
    BY <1>2, MemPos DEF Position
  <2>2. LessEvent(m, n, l, i)
          = [type |-> "reduce", user |-> l.user, order |-> 0, pos |-> i,
             delta |-> d, row |-> [qty |-> n.pos[i].qty, margin |-> n.pos[i].margin]]
    BY <1>2 DEF LessEvent, EventOf
  <2> QED
    BY <1>1, <2>1, <2>2 DEF Event, EventFor, Shows
<1>3. CASE i \notin DOMAIN n.pos
  <2>1. LessEvent(m, n, l, i)
          = [type |-> "close", user |-> l.user, order |-> 0, pos |-> i,
             delta |-> d, row |-> [state |-> "Closed"]]
    BY <1>3 DEF LessEvent, EventOf
  <2> QED
    BY <1>1, <1>3, <2>1 DEF Event, EventFor
<1> QED
  BY <1>2, <1>3

\* The events of one leg tell what the leg did, whichever position it met.
LEMMA EventsTell ==
  ASSUME NEW m, MemOK(m), NEW l \in Leg, l.user \in Users, NEW lev \in Nat \ {0},
         NEW n \in UpdatePosition(m, l.user, l.side, l.qty, l.price, lev, FALSE)
  PROVE  Tells(TradeEvents(m, n, l, 0), m, n, l.user) /\ OthersKeep(m, n, l.user)
<1> DEFINE u == l.user
           s == l.side
           q == l.qty
           p == l.price
<1>0. /\ u \in Traders /\ s \in Sides /\ q \in Nat \ {0} /\ p \in Nat
      /\ Terms(u, s, q, p, lev)
  BY PriceAssumption DEF Leg, Terms
<1>1. MemOK(n)
  BY <1>0, UpdateTraded DEF Traded
<1>2. m.bal[u] \in Int /\ n.bal[u] \in Int /\ n.bal[u] - m.bal[u] \in Int
  <2>1. m.bal \in [Traders -> Int] /\ n.bal \in [Traders -> Int]
    BY <1>1 DEF MemOK, Memory
  <2> QED
    BY <1>0, <2>1
<1>3. /\ m.lastPos \in Nat /\ DOMAIN m.pos \subseteq 1 .. m.lastPos
      /\ n.lastPos \in Nat /\ DOMAIN n.pos \subseteq 1 .. n.lastPos
  BY <1>1, MemPos
<1> HIDE DEF u, s, q, p
<1>4. CASE Unmoved(m, n)
  <2>1. TradeEvents(m, n, l, 0) = << >>
    BY <1>4, EventsOfNothing
  <2>2. OthersKeep(m, n, u)
    BY <1>4 DEF Unmoved, OthersKeep
  <2> QED
    BY <1>4, <2>1, <2>2, NothingTells DEF u
<1>5. CASE OthersKeep(m, n, u) /\ OneMore(m, n, u)
  <2> DEFINE e == NewEvent(m, n, l, n.lastPos)
  <2>1. TradeEvents(m, n, l, 0) = <<e>> /\ Less(m, n, l) = {}
    BY <1>5, EventsOfOpening DEF u
  <2>2. Back(m, l, Less(m, n, l)) = 0
    BY <2>1, SumEmpty DEF Back
  <2>3. n.lastPos \in DOMAIN n.pos /\ n.pos[n.lastPos].user = u
    BY <1>5 DEF OneMore
  <2>4. n.lastPos \notin DOMAIN m.pos
    BY <1>3, <1>5 DEF OneMore
  <2>5. PICK x \in Int : /\ x = n.bal[u] - m.bal[u]
                         /\ x = (n.bal[u] - m.bal[u]) - Back(m, l, Less(m, n, l))
    BY <1>2, <2>2
  <2>6. /\ e \in Event /\ e.user = u /\ e.pos = n.lastPos
        /\ e.delta = n.bal[u] - m.bal[u] /\ Shows(e, n.pos[n.lastPos])
    <3>1. EventFor(e, u, n.lastPos, x, n)
      BY <1>1, <2>3, <2>5, OpenIsEvent, Zenon DEF u
    <3> HIDE DEF e
    <3> QED
      BY <2>3, <2>5, <3>1 DEF EventFor
  <2> HIDE DEF e
  <2>7. Concerns(e, m, n, u)
    BY <1>3, <2>3, <2>4, <2>6 DEF Concerns
  <2>8. \A i \in DOMAIN n.pos \ {e.pos} : i \in DOMAIN m.pos /\ n.pos[i] = m.pos[i]
    BY <1>5, <2>6 DEF OneMore
  <2>9. Tells(<<e>>, m, n, u)
    BY <2>6, <2>7, <2>8, OneTells
  <2> QED
    BY <1>5, <2>1, <2>9 DEF u, e
<1>6. ASSUME NEW i \in DOMAIN m.pos, OthersKeep(m, n, u), OneTouched(m, n, i), i \in DOMAIN n.pos,
             m.pos[i].side = s, m.pos[i].user = u
      PROVE  Tells(TradeEvents(m, n, l, 0), m, n, l.user) /\ OthersKeep(m, n, l.user)
  <2> DEFINE e == MoreEvent(m, n, l, i)
  <2>1. TradeEvents(m, n, l, 0) = <<e>>
    BY <1>6, EventsOfIncrease DEF s
  <2>2. /\ e \in Event /\ e.user = u /\ e.pos = i
        /\ e.delta = n.bal[u] - m.bal[u] /\ Shows(e, n.pos[i])
    <3>1. PICK x \in Int : x = n.bal[u] - m.bal[u]
      BY <1>2
    <3>2. EventFor(e, u, i, x, n)
      BY <1>1, <1>6, <3>1, IncreaseIsEvent, Zenon DEF u
    <3> HIDE DEF e
    <3> QED
      BY <1>6, <3>1, <3>2 DEF EventFor
  <2> HIDE DEF e
  <2>3. Concerns(e, m, n, u)
    BY <1>3, <1>6, <2>2 DEF Concerns, OneTouched
  <2>4. \A j \in DOMAIN n.pos \ {e.pos} : j \in DOMAIN m.pos /\ n.pos[j] = m.pos[j]
    BY <1>6, <2>2 DEF OneTouched
  <2>5. Tells(<<e>>, m, n, u)
    BY <2>2, <2>3, <2>4, OneTells
  <2> QED
    BY <1>6, <2>1, <2>5 DEF u, e
<1>7. ASSUME NEW i \in Opposites(m, u, s), n = HandleReduce(m, i, s, q, p, lev)
      PROVE  Tells(TradeEvents(m, n, l, 0), m, n, l.user) /\ OthersKeep(m, n, l.user)
  <2> DEFINE k == Reduced(m, i, s, q, p)
             r == q - m.pos[i].qty
             cr == CalcReduce(m.pos[i], p, q)
             d == LessEvent(m, n, l, i)
             e == NewEvent(m, n, l, n.lastPos)
  <2>1. i \in DOMAIN m.pos /\ m.pos[i].user = u /\ m.pos[i].side = -s
    BY DEF Opposites, PositionsOf
  <2>2. m.pos[i].side # l.side
    BY <1>0, <2>1 DEF s, Sides, Long, Short
  <2>3. n = IF q > m.pos[i].qty THEN HandleOpen(k, u, s, r, p, lev, FALSE) ELSE k
    BY <1>7, <2>1 DEF HandleReduce, Reduced
  <2>4. MemOK(k)
    BY <1>0, <2>1, ReducedTraded DEF Traded
  <2>5. /\ OthersKeep(m, k, u) /\ OneTouched(m, k, i)
        /\ k.bal[u] = m.bal[u] + (cr.margin + cr.net) /\ cr.margin + cr.net \in Int
    BY <1>0, <2>1, ReducedTouches
  <2>6. q > m.pos[i].qty => OthersKeep(k, n, u) /\ (Unmoved(k, n) \/ OneMore(k, n, u))
    BY <1>0, <2>3, <2>4, OpenTouches
  <2>7. ~(q > m.pos[i].qty) => n = k
    BY <2>3, Zenon
  <2> HIDE DEF k, r
  <2>8. Less(m, n, l) = {i} => Back(m, l, Less(m, n, l)) = cr.margin + cr.net
    <3> DEFINE f == [j \in DOMAIN m.pos |-> LET c == CalcReduce(m.pos[j], l.price, l.qty)
                                             IN  c.margin + c.net]
    <3>1. f[i] = cr.margin + cr.net
      BY <2>1 DEF p, q
    <3> HIDE DEF f, cr
    <3>2. SumFunctionOnSet(f, {i}) = cr.margin + cr.net
      BY <2>5, <3>1, SumOne
    <3> QED
      BY <3>2 DEF Back, f
  <2> HIDE DEF cr, d, e
  <2>9. CASE n = k \/ Unmoved(k, n)
    <3>1. OneTouched(m, n, i) /\ OthersKeep(m, n, u) /\ n.bal[u] = k.bal[u]
      BY <2>5, <2>9 DEF Unmoved, OneTouched, OthersKeep
    <3>2. TradeEvents(m, n, l, 0) = <<d>> /\ Less(m, n, l) = {i}
      BY <2>1, <2>2, <3>1, EventsOfReduction DEF d
    <3>3. /\ d \in Event /\ d.user = u /\ d.pos = i /\ d.delta = cr.margin + cr.net
          /\ i \in DOMAIN n.pos => Shows(d, n.pos[i])
      <4>1. PICK x \in Int : x = cr.margin + cr.net /\ x = Back(m, l, Less(m, n, l))
        BY <2>5, <2>8, <3>2
      <4>2. EventFor(d, u, i, x, n)
        BY <1>1, <2>1, <4>1, ReductionIsEvent, Zenon DEF d, u
      <4> QED
        BY <4>1, <4>2 DEF EventFor
    <3>4. d.delta = n.bal[u] - m.bal[u]
      BY <1>2, <2>5, <3>1, <3>3
    <3>5. Concerns(d, m, n, u)
      BY <1>3, <2>1, <3>1, <3>3 DEF Concerns, OneTouched
    <3>6. \A j \in DOMAIN n.pos \ {d.pos} : j \in DOMAIN m.pos /\ n.pos[j] = m.pos[j]
      BY <3>1, <3>3 DEF OneTouched
    <3>7. Tells(<<d>>, m, n, u)
      BY <3>3, <3>4, <3>5, <3>6, OneTells
    <3> QED
      BY <3>1, <3>2, <3>7 DEF u
  <2>10. CASE OthersKeep(k, n, u) /\ OneMore(k, n, u)
    <3>1. OthersKeep(m, n, u)
      BY <2>5, <2>10 DEF OthersKeep
    <3>2. TradeEvents(m, n, l, 0) = <<d, e>> /\ Less(m, n, l) = {i}
      <4>1. OneTouched(m, k, i) /\ OneMore(k, n, l.user)
        BY <2>5, <2>10 DEF u
      <4> QED
        BY <2>1, <2>2, <4>1, EventsOfReversal, Zenon DEF d, e
    <3>3. /\ d \in Event /\ d.user = u /\ d.pos = i /\ d.delta = cr.margin + cr.net
          /\ i \in DOMAIN n.pos => Shows(d, n.pos[i])
      <4>1. PICK x \in Int : x = cr.margin + cr.net /\ x = Back(m, l, Less(m, n, l))
        BY <2>5, <2>8, <3>2
      <4>2. EventFor(d, u, i, x, n)
        BY <1>1, <2>1, <4>1, ReductionIsEvent, Zenon DEF d, u
      <4> QED
        BY <4>1, <4>2 DEF EventFor
    <3>4. n.lastPos \in DOMAIN n.pos /\ n.pos[n.lastPos].user = u
      BY <2>10 DEF OneMore
    <3>5. n.lastPos \notin DOMAIN m.pos
      BY <1>3, <2>5, <2>10 DEF OneMore, OneTouched
    <3>6. (n.bal[u] - m.bal[u]) - (cr.margin + cr.net) \in Int
      BY <1>2, <2>5
    <3>7. /\ e \in Event /\ e.user = u /\ e.pos = n.lastPos
          /\ e.delta = (n.bal[u] - m.bal[u]) - (cr.margin + cr.net)
          /\ Shows(e, n.pos[n.lastPos])
      <4>1. PICK x \in Int : /\ x = (n.bal[u] - m.bal[u]) - (cr.margin + cr.net)
                             /\ x = (n.bal[u] - m.bal[u]) - Back(m, l, Less(m, n, l))
        BY <2>8, <3>2, <3>6
      <4>2. EventFor(e, u, n.lastPos, x, n)
        BY <1>1, <3>4, <4>1, OpenIsEvent, Zenon DEF e, u
      <4> QED
        BY <3>4, <4>1, <4>2 DEF EventFor
    <3>8. d.delta + e.delta = n.bal[u] - m.bal[u]
      BY <1>2, <2>5, <3>3, <3>7
    <3>9. i \in 1 .. n.lastPos /\ (i \in DOMAIN n.pos => n.pos[i].user = u)
      <4>1. n.lastPos = m.lastPos + 1
        BY <2>5, <2>10 DEF OneTouched, OneMore
      <4>2. i \in 1 .. n.lastPos
        BY <1>3, <2>1, <4>1
      <4>3. i \in DOMAIN n.pos => n.pos[i].user = u
        BY <2>1, <2>5, <2>10 DEF OneTouched, OneMore
      <4> QED
        BY <4>2, <4>3
    <3>10. Concerns(d, m, n, u)
      BY <2>1, <3>3, <3>9 DEF Concerns
    <3>11. Concerns(e, m, n, u)
      BY <1>3, <3>4, <3>5, <3>7 DEF Concerns
    <3>12. d.pos # e.pos
      BY <2>1, <3>3, <3>5, <3>7
    <3>13. \A j \in DOMAIN n.pos \ {d.pos, e.pos} : j \in DOMAIN m.pos /\ n.pos[j] = m.pos[j]
      BY <2>5, <2>10, <3>3, <3>7 DEF OneTouched, OneMore
    <3>14. Tells(<<d, e>>, m, n, u)
      BY <3>3, <3>7, <3>8, <3>10, <3>11, <3>12, <3>13, TwoTell
    <3> QED
      BY <3>1, <3>2, <3>14 DEF u
  <2> QED
    BY <2>6, <2>7, <2>9, <2>10
<1>8. CASE Opposites(m, u, s) # {}
  <2>1. PICK i \in Opposites(m, u, s) : n = HandleReduce(m, i, s, q, p, lev)
    BY <1>8 DEF UpdatePosition, u, s, q, p
  <2> QED
    BY <1>7, <2>1
<1>9. CASE Opposites(m, u, s) = {} /\ SameDirs(m, u, s) # {}
  <2>1. PICK i \in SameDirs(m, u, s) : n = HandleIncrease(m, i, q, p)
    BY <1>9 DEF UpdatePosition, u, s, q, p
  <2>2. i \in DOMAIN m.pos /\ m.pos[i].user = u /\ m.pos[i].side = s
    BY DEF SameDirs, PositionsOf
  <2>3. OthersKeep(m, n, u) /\ (Unmoved(m, n) \/ (OneTouched(m, n, i) /\ i \in DOMAIN n.pos))
    BY <1>0, <2>1, <2>2, IncreaseTouches
  <2> QED
    BY <1>4, <1>6, <2>2, <2>3
<1>10. CASE Opposites(m, u, s) = {} /\ SameDirs(m, u, s) = {}
  <2>1. n = HandleOpen(m, u, s, q, p, lev, FALSE)
    BY <1>10 DEF UpdatePosition, u, s, q, p
  <2>2. OthersKeep(m, n, u) /\ (Unmoved(m, n) \/ OneMore(m, n, u))
    BY <1>0, <2>1, OpenTouches
  <2> QED
    BY <1>4, <1>5, <2>2
<1> QED
  BY <1>8, <1>9, <1>10

\* The accounts and positions of all but u are as they were.
Untouched(m, n, u) ==
  /\ OthersKeep(m, n, u)
  /\ \A j \in DOMAIN n.pos : n.pos[j].user # u => j \in DOMAIN m.pos /\ n.pos[j] = m.pos[j]

LEMMA OthersUntouched ==
  ASSUME NEW m, MemOK(m), NEW u \in Traders, NEW s \in Sides, NEW q \in Nat \ {0},
         NEW p \in Nat, NEW lev \in Nat \ {0},
         NEW n \in UpdatePosition(m, u, s, q, p, lev, FALSE)
  PROVE  Untouched(m, n, u)
<1>1. ASSUME NEW a, NEW b, OthersKeep(a, b, u), Unmoved(a, b) \/ OneMore(a, b, u)
      PROVE  Untouched(a, b, u)
  BY <1>1 DEF Unmoved, OneMore, Untouched
<1>2. ASSUME NEW a, NEW b, NEW i \in DOMAIN a.pos, OthersKeep(a, b, u), a.pos[i].user = u,
             OneTouched(a, b, i)
      PROVE  Untouched(a, b, u)
  BY <1>2 DEF OneTouched, Untouched
<1>3. ASSUME NEW a, NEW b, NEW c, Untouched(a, b, u), Untouched(b, c, u)
      PROVE  Untouched(a, c, u)
  BY <1>3 DEF OthersKeep, Untouched
<1>4. CASE Opposites(m, u, s) # {}
  <2>1. PICK i \in Opposites(m, u, s) : n = HandleReduce(m, i, s, q, p, lev)
    BY <1>4 DEF UpdatePosition
  <2>2. i \in DOMAIN m.pos /\ m.pos[i].user = u /\ m.pos[i].side = -s
    BY DEF Opposites, PositionsOf
  <2> DEFINE k == Reduced(m, i, s, q, p)
             r == q - m.pos[i].qty
  <2>3. n = IF q > m.pos[i].qty THEN HandleOpen(k, u, s, r, p, lev, FALSE) ELSE k
    BY <2>1, <2>2 DEF HandleReduce, Reduced
  <2>4. Terms(u, s, q, p, lev)
    BY DEF Terms
  <2>5. MemOK(k)
    BY <2>2, <2>4, ReducedTraded DEF Traded
  <2>6. OthersKeep(m, k, u) /\ OneTouched(m, k, i)
    BY <2>2, ReducedTouches
  <2>7. q > m.pos[i].qty => OthersKeep(k, n, u) /\ (Unmoved(k, n) \/ OneMore(k, n, u))
    BY <2>3, <2>5, OpenTouches
  <2>8. ~(q > m.pos[i].qty) => n = k
    BY <2>3, Zenon
  <2> HIDE DEF k, r
  <2>9. Untouched(m, k, u)
    BY <1>2, <2>2, <2>6
  <2>10. q > m.pos[i].qty => Untouched(m, n, u)
    BY <1>1, <1>3, <2>7, <2>9
  <2> QED
    BY <2>8, <2>9, <2>10
<1>5. CASE Opposites(m, u, s) = {} /\ SameDirs(m, u, s) # {}
  <2>1. PICK i \in SameDirs(m, u, s) : n = HandleIncrease(m, i, q, p)
    BY <1>5 DEF UpdatePosition
  <2>2. i \in DOMAIN m.pos /\ m.pos[i].user = u
    BY DEF SameDirs, PositionsOf
  <2>3. OthersKeep(m, n, u) /\ (Unmoved(m, n) \/ OneTouched(m, n, i))
    BY <2>1, <2>2, IncreaseTouches
  <2> QED
    BY <1>1, <1>2, <2>2, <2>3
<1>6. CASE Opposites(m, u, s) = {} /\ SameDirs(m, u, s) = {}
  <2>1. n = HandleOpen(m, u, s, q, p, lev, FALSE)
    BY <1>6 DEF UpdatePosition
  <2>2. OthersKeep(m, n, u) /\ (Unmoved(m, n) \/ OneMore(m, n, u))
    BY <2>1, OpenTouches
  <2> QED
    BY <1>1, <2>2
<1> QED
  BY <1>4, <1>5, <1>6

-----------------------------------------------------------------------------
(* The inductive invariant of memory and database.                          *)

\* What the events of queue q will add to the balance of u.
PendingIn(q, u) ==
  SumFunctionOnSet([k \in DOMAIN q |-> IF q[k].user = u THEN q[k].delta ELSE 0], DOMAIN q)

NoWord(q, i) == \A k \in DOMAIN q : q[k].pos # i

\* The last event for position i sets the margin that row has.
LastWord(q, i, row) ==
  \E k \in DOMAIN q : /\ q[k].pos = i
                      /\ q[k].type \in {"open", "reduce"} /\ q[k].row.margin = row.margin
                      /\ \A j \in DOMAIN q : j > k => q[j].pos # i

\* Events are about positions of the users they name.
QueueFits(m, q) ==
  /\ q \in Seq(Event)
  /\ \A k \in DOMAIN q : /\ q[k].pos \in 1 .. m.lastPos
                         /\ q[k].pos \in DOMAIN m.pos => m.pos[q[k].pos].user = q[k].user

TablesFit(d) ==
  /\ {"bal", "pos"} \subseteq DOMAIN d
  /\ d.bal \in [Users -> Int]
  /\ \A i \in DOMAIN d.pos : "margin" \in DOMAIN d.pos[i]

\* g: what AddPnl has given in memory alone.
BalancesFit(m, q, d, a, g) ==
  /\ g \in [Traders -> Int]
  /\ \A u \in Users \ a.users : m.bal[u] = d.bal[u] + g[u] + PendingIn(q, u)

\* The margin of a position is in its row, or the last event for it has it.
RowBacked(q, d, i, row) ==
  \/ NoWord(q, i) /\ i \in DOMAIN d.pos /\ d.pos[i].margin = row.margin
  \/ LastWord(q, i, row)

RowsBacked(m, q, d, a) ==
  \A u \in Users \ a.users : \A i \in HeldBy(m, u) \ a.pos : RowBacked(q, d, i, m.pos[i])

Backed(m, q, d, a, g) ==
  /\ QueueFits(m, q) /\ TablesFit(d)
  /\ BalancesFit(m, q, d, a, g) /\ RowsBacked(m, q, d, a)

\* Once settlePosition has left a row, that of the position is there as well.
BackedInv ==
  /\ Backed(mem, queue, db, apart, sums.clamped)
  /\ DOMAIN apart = {"users", "pos"}
  /\ sched.pc \in {"column", "lock"} => sched.at \in DOMAIN db.pos

LEMMA BackedImplies == BackedInv => FundingBackedUp
<1> SUFFICES ASSUME BackedInv, NEW u \in Users \ apart.users
             PROVE  /\ mem.bal[u] = db.bal[u] + sums.clamped[u] + Pending(u)
                    /\ \A i \in HeldBy(mem, u) \ apart.pos :
                         (\A n \in DOMAIN queue : queue[n].pos # i) =>
                           i \in DOMAIN db.pos /\ db.pos[i].margin = mem.pos[i].margin
  BY DEF FundingBackedUp
<1>1. mem.bal[u] = db.bal[u] + sums.clamped[u] + PendingIn(queue, u)
  BY DEF BackedInv, Backed, BalancesFit
<1>2. Pending(u) = PendingIn(queue, u)
  BY DEF Pending, PendingIn
<1>3. ASSUME NEW i \in HeldBy(mem, u) \ apart.pos, \A n \in DOMAIN queue : queue[n].pos # i
      PROVE  i \in DOMAIN db.pos /\ db.pos[i].margin = mem.pos[i].margin
  BY <1>3 DEF BackedInv, Backed, RowsBacked, RowBacked, LastWord
<1> QED
  BY <1>1, <1>2, <1>3

LEMMA InitBacked == Init => BackedInv
<1> SUFFICES ASSUME Init PROVE BackedInv
  OBVIOUS
<1>1. /\ mem.pos = << >> /\ mem.bal = [u \in Traders |-> IF u \in Users THEN InitialBalance
                                                                        ELSE SystemBalance]
  BY DEF Init, InitMem
<1>2. /\ queue = << >> /\ DOMAIN queue = {} /\ queue \in Seq(Event)
  BY DEF Init
<1>3. /\ db.bal = [u \in Users |-> InitialBalance] /\ DOMAIN db.pos = {}
      /\ {"bal", "pos"} \subseteq DOMAIN db
  BY DEF Init
<1>4. QueueFits(mem, queue)
  BY <1>2 DEF QueueFits
<1>5. TablesFit(db)
  BY <1>3, BalanceAssumption DEF TablesFit
<1>6. BalancesFit(mem, queue, db, apart, sums.clamped)
  <2> DEFINE g == sums.clamped
  <2>0. g = [u \in Traders |-> 0] /\ g \in [Traders -> Int]
    BY DEF Init, Nobody
  <2> HIDE DEF g
  <2> SUFFICES ASSUME NEW u \in Users
               PROVE  mem.bal[u] = db.bal[u] + g[u] + PendingIn(queue, u)
    BY <2>0 DEF BalancesFit, g
  <2>1. PendingIn(queue, u) = 0
    BY <1>2, SumEmpty DEF PendingIn
  <2>2. mem.bal[u] = InitialBalance /\ db.bal[u] = InitialBalance /\ g[u] = 0
    BY <1>1, <1>3, <2>0 DEF Traders
  <2> QED
    BY <2>1, <2>2, BalanceAssumption
<1>7. RowsBacked(mem, queue, db, apart)
  BY <1>1 DEF RowsBacked, HeldBy
<1>8. DOMAIN apart = {"users", "pos"} /\ sched.pc = "idle"
  BY DEF Init, Asleep
<1> QED
  BY <1>4, <1>5, <1>6, <1>7, <1>8 DEF BackedInv, Backed

-----------------------------------------------------------------------------
(* Events join the queue and leave it.                                      *)

LEMMA PendingInInt ==
  ASSUME NEW q \in Seq(Event), NEW u
  PROVE  PendingIn(q, u) \in Int
<1> DEFINE f == [k \in DOMAIN q |-> IF q[k].user = u THEN q[k].delta ELSE 0]
<1>1. Len(q) \in Nat /\ DOMAIN q = 1 .. Len(q) /\ IsFiniteSet(DOMAIN q)
  BY LenProperties, FS_Interval
<1>2. \A k \in DOMAIN q : q[k] \in Event
  BY ElementIn
<1>3. \A k \in DOMAIN q : f[k] \in Int
  BY <1>2 DEF Event
<1> HIDE DEF f
<1>4. SumFunctionOnSet(f, DOMAIN q) \in Int
  BY <1>1, <1>3, SumInt
<1> QED
  BY <1>4 DEF PendingIn, f

LEMMA PendingJoined ==
  ASSUME NEW q \in Seq(Event), NEW ev \in Seq(Event), NEW u
  PROVE  PendingIn(q \o ev, u) = PendingIn(q, u) + PendingIn(ev, u)
<1> DEFINE r == q \o ev
           f == [k \in DOMAIN q |-> IF q[k].user = u THEN q[k].delta ELSE 0]
           g == [k \in DOMAIN ev |-> IF ev[k].user = u THEN ev[k].delta ELSE 0]
           h == [k \in DOMAIN r |-> IF r[k].user = u THEN r[k].delta ELSE 0]
           a == Len(q)
           b == Len(ev)
<1>1. /\ a \in Nat /\ DOMAIN q = 1 .. a /\ b \in Nat /\ DOMAIN ev = 1 .. b
      /\ DOMAIN r = 1 .. (a + b)
  BY LenProperties, ConcatProperties
<1>2. /\ \A k \in 1 .. a : r[k] = q[k]
      /\ \A k \in 1 .. b : r[a + k] = ev[k]
  BY <1>1, ConcatProperties
<1>3. /\ \A k \in 1 .. a : q[k] \in Event
      /\ \A k \in 1 .. b : ev[k] \in Event
  BY <1>1, ElementIn
<1> HIDE DEF r, a, b
<1>4. \A k \in 1 .. a : f[k] \in Int /\ h[k] = f[k]
  <2> SUFFICES ASSUME NEW k \in 1 .. a PROVE f[k] \in Int /\ h[k] = f[k]
    OBVIOUS
  <2>1. k \in 1 .. (a + b) /\ q[k].delta \in Int /\ r[k] = q[k]
    BY <1>1, <1>2, <1>3 DEF Event
  <2> QED
    BY <1>1, <2>1
<1>5. \A k \in 1 .. b : g[k] \in Int /\ h[a + k] = g[k]
  <2> SUFFICES ASSUME NEW k \in 1 .. b PROVE g[k] \in Int /\ h[a + k] = g[k]
    OBVIOUS
  <2>1. a + k \in 1 .. (a + b) /\ ev[k].delta \in Int /\ r[a + k] = ev[k]
    BY <1>1, <1>2, <1>3 DEF Event
  <2> QED
    BY <1>1, <2>1
<1> HIDE DEF f, g, h
<1>6. SumFunctionOnSet(h, 1 .. (a + b))
        = SumFunctionOnSet(f, 1 .. a) + SumFunctionOnSet(g, 1 .. b)
  <2>1. Joined(f, a, g, b, h) /\ a \in Nat /\ b \in Nat
    BY <1>1, <1>4, <1>5 DEF Joined
  <2> QED
    BY <2>1, SumConcat
<1>7. PendingIn(r, u) = SumFunctionOnSet(h, 1 .. (a + b))
  BY <1>1 DEF PendingIn, h
<1>8. PendingIn(q, u) = SumFunctionOnSet(f, 1 .. a)
  BY <1>1 DEF PendingIn, f
<1>9. PendingIn(ev, u) = SumFunctionOnSet(g, 1 .. b)
  BY <1>1 DEF PendingIn, g
<1> QED
  BY <1>6, <1>7, <1>8, <1>9 DEF r

LEMMA PendingFirst ==
  ASSUME NEW q \in Seq(Event), q # << >>, NEW u
  PROVE  PendingIn(q, u)
           = (IF Head(q).user = u THEN Head(q).delta ELSE 0) + PendingIn(Tail(q), u)
<1> DEFINE t == Tail(q)
           f == [k \in DOMAIN q |-> IF q[k].user = u THEN q[k].delta ELSE 0]
           g == [k \in DOMAIN t |-> IF t[k].user = u THEN t[k].delta ELSE 0]
           a == Len(q)
<1>1. /\ a \in Nat /\ a # 0 /\ DOMAIN q = 1 .. a /\ DOMAIN t = 1 .. (a - 1)
      /\ \A k \in 1 .. (a - 1) : t[k] = q[k + 1]
      /\ Head(q) = q[1]
  BY HeadTailProperties, LenProperties
<1>2. \A k \in 1 .. a : q[k] \in Event
  BY <1>1, ElementIn
<1> HIDE DEF t, a
<1>3. \A k \in 1 .. a : f[k] \in Int
  BY <1>1, <1>2 DEF Event
<1>4. \A k \in 1 .. (a - 1) : g[k] = f[k + 1]
  BY <1>1
<1>5. f[1] = IF Head(q).user = u THEN Head(q).delta ELSE 0
  BY <1>1
<1> HIDE DEF f, g
<1>6. SumFunctionOnSet(f, 1 .. a) = f[1] + SumFunctionOnSet(g, 1 .. (a - 1))
  BY <1>1, <1>3, <1>4, SumFirst
<1>7. PendingIn(q, u) = SumFunctionOnSet(f, 1 .. a)
  BY <1>1 DEF PendingIn, f
<1>8. PendingIn(t, u) = SumFunctionOnSet(g, 1 .. (a - 1))
  BY <1>1 DEF PendingIn, g
<1> QED
  BY <1>5, <1>6, <1>7, <1>8 DEF t

\* All events of u, or none.
LEMMA PendingOfOne ==
  ASSUME NEW ev \in Seq(Event), NEW u, \A k \in DOMAIN ev : ev[k].user = u, NEW v
  PROVE  PendingIn(ev, v) = IF v = u THEN Deltas(ev) ELSE 0
<1>1. Len(ev) \in Nat /\ DOMAIN ev = 1 .. Len(ev) /\ IsFiniteSet(DOMAIN ev)
  BY LenProperties, FS_Interval
<1> DEFINE f == [k \in DOMAIN ev |-> IF ev[k].user = v THEN ev[k].delta ELSE 0]
<1>2. CASE v = u
  BY <1>2 DEF PendingIn, Deltas
<1>3. CASE v # u
  <2>1. \A k \in DOMAIN ev : f[k] = 0 /\ f[k] \in Int
    BY <1>3
  <2> HIDE DEF f
  <2>2. SumFunctionOnSet(f, DOMAIN ev) = 0
    <3>1. 0 \in Int /\ \A k \in DOMAIN ev : f[k] \in Int /\ f[k] = 0 * f[k]
      BY <2>1
    <3>2. SumFunctionOnSet(f, DOMAIN ev) = 0 * SumFunctionOnSet(f, DOMAIN ev)
      BY <1>1, <3>1, SumScale, Zenon
    <3>3. SumFunctionOnSet(f, DOMAIN ev) \in Int
      BY <1>1, <2>1, SumInt
    <3> QED
      BY <3>2, <3>3
  <2> QED
    BY <1>3, <2>2 DEF PendingIn, f
<1> QED
  BY <1>2, <1>3

-----------------------------------------------------------------------------
(* What keeps memory and database together.                                 *)

\* From m to n positions change neither ID nor owner, and but for those of S
\* no margin.
SameRows(m, n, S) ==
  /\ n.lastPos = m.lastPos /\ DOMAIN n.pos = DOMAIN m.pos
  /\ \A i \in DOMAIN m.pos : n.pos[i].user = m.pos[i].user
  /\ \A i \in DOMAIN m.pos \ S : n.pos[i].margin = m.pos[i].margin

\* From d to e nothing happens to the rows of other positions.
SameTable(d, e, S) ==
  \A i \in DOMAIN d.pos \ S : i \in DOMAIN e.pos /\ e.pos[i].margin = d.pos[i].margin

\* Memory and database change alike, but for what AddPnl gives.
Alike(m, n, d, e, b, g, h) ==
  /\ h \in [Traders -> Int]
  /\ \A u \in Users \ b.users :
       \E c, x \in Int : /\ n.bal[u] = m.bal[u] + c + x
                         /\ e.bal[u] = d.bal[u] + c /\ h[u] = g[u] + x

\* A position of S takes another way, or there are no events for it and the
\* row has what memory has.
Settled(n, q, e, b, S) ==
  \A i \in DOMAIN n.pos \cap S :
    \/ i \in b.pos
    \/ NoWord(q, i) /\ i \in DOMAIN e.pos /\ e.pos[i].margin = n.pos[i].margin

LEMMA BackedStays ==
  ASSUME NEW m, NEW n, NEW q, NEW d, NEW e, NEW a, NEW b, NEW S,
         NEW g, NEW h, Backed(m, q, d, a, g), TablesFit(e), m.bal \in [Traders -> Int],
         SameRows(m, n, S), SameTable(d, e, S), Alike(m, n, d, e, b, g, h), Settled(n, q, e, b, S),
         a.users \subseteq b.users, a.pos \subseteq b.pos
  PROVE  Backed(n, q, e, b, h)
<1>0. QueueFits(m, q) /\ TablesFit(d) /\ BalancesFit(m, q, d, a, g) /\ RowsBacked(m, q, d, a)
  BY DEF Backed
<1>1. QueueFits(n, q)
  BY <1>0 DEF QueueFits, SameRows
<1>2. BalancesFit(n, q, e, b, h)
  <2> SUFFICES ASSUME NEW u \in Users \ b.users
               PROVE  n.bal[u] = e.bal[u] + h[u] + PendingIn(q, u)
    BY DEF BalancesFit, Alike
  <2>1. PICK c, x \in Int : /\ n.bal[u] = m.bal[u] + c + x
                           /\ e.bal[u] = d.bal[u] + c /\ h[u] = g[u] + x
    BY DEF Alike
  <2>2. m.bal[u] = d.bal[u] + g[u] + PendingIn(q, u)
    BY <1>0 DEF BalancesFit
  <2>3. PendingIn(q, u) \in Int /\ d.bal[u] \in Int /\ g[u] \in Int
    BY <1>0, PendingInInt DEF QueueFits, TablesFit, BalancesFit, Traders
  <2> QED
    BY <2>1, <2>2, <2>3
<1>3. RowsBacked(n, q, e, b)
  <2> SUFFICES ASSUME NEW u \in Users \ b.users, NEW i \in HeldBy(n, u) \ b.pos
               PROVE  RowBacked(q, e, i, n.pos[i])
    BY DEF RowsBacked
  <2>1. i \in DOMAIN n.pos /\ i \in DOMAIN m.pos /\ i \in HeldBy(m, u) \ a.pos
    BY DEF SameRows, HeldBy
  <2>2. CASE i \in S
    BY <2>1, <2>2 DEF Settled, RowBacked
  <2>3. CASE i \notin S
    <3>1. RowBacked(q, d, i, m.pos[i])
      BY <1>0, <2>1 DEF RowsBacked
    <3>2. n.pos[i].margin = m.pos[i].margin
      BY <2>1, <2>3 DEF SameRows
    <3>3. i \in DOMAIN d.pos => i \in DOMAIN e.pos /\ e.pos[i].margin = d.pos[i].margin
      BY <2>3 DEF SameTable
    <3> QED
      BY <3>1, <3>2, <3>3 DEF RowBacked, LastWord
  <2> QED
    BY <2>2, <2>3
<1> QED
  BY <1>1, <1>2, <1>3 DEF Backed

\* What the events ev of a leg say to the worker about the step from m to n.
Told(ev, m, n) ==
  /\ ev \in Seq(Event)
  /\ \A k \in DOMAIN ev : /\ ev[k].pos \in 1 .. n.lastPos
                          /\ ev[k].pos \in DOMAIN n.pos => n.pos[ev[k].pos].user = ev[k].user
  /\ \A v \in Users : n.bal[v] = m.bal[v] + PendingIn(ev, v)
  /\ \A i \in DOMAIN n.pos : n.pos[i].user \in Users =>
       \/ i \in DOMAIN m.pos /\ n.pos[i] = m.pos[i] /\ NoWord(ev, i)
       \/ OnlyOne(ev, i, n.pos[i])

Increased(ev) == {ev[k].pos : k \in {j \in DOMAIN ev : ev[j].type = "increase"}}

LEMMA LegBacked ==
  ASSUME NEW m, NEW n, NEW q, NEW d, NEW a, NEW b, NEW ev,
         NEW g, Backed(m, q, d, a, g), MemOK(m), MemOK(n), KeepsOwners(m, n), Told(ev, m, n),
         b.users = a.users, b.pos = a.pos \cup Increased(ev)
  PROVE  Backed(n, q \o ev, d, b, g)
<1> DEFINE r == q \o ev
<1>0. QueueFits(m, q) /\ TablesFit(d) /\ BalancesFit(m, q, d, a, g) /\ RowsBacked(m, q, d, a)
  BY DEF Backed
<1>1. q \in Seq(Event) /\ ev \in Seq(Event) /\ r \in Seq(Event)
  BY <1>0, ConcatProperties DEF QueueFits, Told
<1>2. /\ Len(q) \in Nat /\ DOMAIN q = 1 .. Len(q) /\ Len(ev) \in Nat /\ DOMAIN ev = 1 .. Len(ev)
      /\ DOMAIN r = 1 .. (Len(q) + Len(ev))
  BY <1>1, LenProperties, ConcatProperties
<1>3. /\ \A k \in DOMAIN q : k \in DOMAIN r /\ r[k] = q[k]
      /\ \A k \in DOMAIN ev : Len(q) + k \in DOMAIN r /\ r[Len(q) + k] = ev[k]
  BY <1>1, <1>2, ConcatProperties
<1>4. \A k \in DOMAIN r : k \in DOMAIN q \/ \E j \in DOMAIN ev : k = Len(q) + j
  <2> SUFFICES ASSUME NEW k \in DOMAIN r, k \notin DOMAIN q
               PROVE  \E j \in DOMAIN ev : k = Len(q) + j
    OBVIOUS
  <2>1. k - Len(q) \in DOMAIN ev /\ k = Len(q) + (k - Len(q))
    BY <1>2
  <2> QED
    BY <2>1
<1> HIDE DEF r
<1>5. QueueFits(n, r)
  <2>1. 1 .. m.lastPos \subseteq 1 .. n.lastPos
    <3>1. m.lastPos \in Nat /\ n.lastPos \in Nat
      BY MemPos
    <3> QED
      BY <3>1 DEF KeepsOwners
  <2>2. ASSUME NEW k \in DOMAIN q
        PROVE  /\ q[k].pos \in 1 .. n.lastPos
               /\ q[k].pos \in DOMAIN n.pos => n.pos[q[k].pos].user = q[k].user
    BY <1>0, <2>1 DEF QueueFits, KeepsOwners
  <2>3. ASSUME NEW k \in DOMAIN r
        PROVE  /\ r[k].pos \in 1 .. n.lastPos
               /\ r[k].pos \in DOMAIN n.pos => n.pos[r[k].pos].user = r[k].user
    BY <1>3, <1>4, <2>2 DEF Told
  <2> QED
    BY <1>1, <2>3 DEF QueueFits
<1>6. BalancesFit(n, r, d, b, g)
  <2> SUFFICES ASSUME NEW u \in Users \ b.users
               PROVE  n.bal[u] = d.bal[u] + g[u] + PendingIn(r, u)
    BY <1>0 DEF BalancesFit
  <2>1. PendingIn(r, u) = PendingIn(q, u) + PendingIn(ev, u)
    BY <1>1, PendingJoined DEF r
  <2>2. /\ PendingIn(q, u) \in Int /\ PendingIn(ev, u) \in Int
        /\ d.bal[u] \in Int /\ g[u] \in Int
    BY <1>0, <1>1, PendingInInt DEF TablesFit, BalancesFit, Traders
  <2>3. m.bal[u] = d.bal[u] + g[u] + PendingIn(q, u)
    BY <1>0 DEF BalancesFit
  <2>4. n.bal[u] = m.bal[u] + PendingIn(ev, u)
    BY DEF Told
  <2> QED
    BY <2>1, <2>2, <2>3, <2>4
<1>7. RowsBacked(n, r, d, b)
  <2> SUFFICES ASSUME NEW u \in Users \ b.users, NEW i \in HeldBy(n, u) \ b.pos
               PROVE  RowBacked(r, d, i, n.pos[i])
    BY DEF RowsBacked
  <2>1. i \in DOMAIN n.pos /\ n.pos[i].user = u
    BY DEF HeldBy
  <2>2. CASE i \in DOMAIN m.pos /\ n.pos[i] = m.pos[i] /\ NoWord(ev, i)
    <3>1. RowBacked(q, d, i, m.pos[i])
      BY <1>0, <2>1, <2>2 DEF RowsBacked, HeldBy
    <3>2. NoWord(q, i) => NoWord(r, i)
      BY <1>3, <1>4, <2>2 DEF NoWord
    <3>3. LastWord(q, i, m.pos[i]) => LastWord(r, i, m.pos[i])
      <4> SUFFICES ASSUME LastWord(q, i, m.pos[i]) PROVE LastWord(r, i, m.pos[i])
        OBVIOUS
      <4>1. PICK k \in DOMAIN q :
              /\ q[k].pos = i /\ q[k].type \in {"open", "reduce"}
              /\ q[k].row.margin = m.pos[i].margin
              /\ \A j \in DOMAIN q : j > k => q[j].pos # i
        BY DEF LastWord
      <4>2. \A j \in DOMAIN r : j > k => r[j].pos # i
        BY <1>3, <1>4, <2>2, <4>1 DEF NoWord
      <4> QED
        BY <1>3, <4>1, <4>2 DEF LastWord
    <3> QED
      BY <2>2, <3>1, <3>2, <3>3 DEF RowBacked
  <2>3. CASE OnlyOne(ev, i, n.pos[i])
    <3>1. PICK k \in DOMAIN ev : /\ ev[k].pos = i /\ Shows(ev[k], n.pos[i])
                                 /\ \A j \in DOMAIN ev : j > k => ev[j].pos # i
      BY <2>3 DEF OnlyOne
    <3>2. ev[k].type # "increase"
      BY <3>1 DEF Increased
    <3>3. \A j \in DOMAIN r : j > Len(q) + k => r[j].pos # i
      <4> SUFFICES ASSUME NEW j \in DOMAIN r, j > Len(q) + k PROVE r[j].pos # i
        OBVIOUS
      <4>1. j \notin DOMAIN q
        BY <1>2
      <4>2. PICK x \in DOMAIN ev : j = Len(q) + x
        BY <1>4, <4>1
      <4>3. x > k
        BY <1>2, <4>2
      <4> QED
        BY <1>3, <3>1, <4>2, <4>3
    <3>4. LastWord(r, i, n.pos[i])
      BY <1>3, <3>1, <3>2, <3>3 DEF LastWord, Shows
    <3> QED
      BY <3>4 DEF RowBacked
  <2> QED
    BY <2>1, <2>2, <2>3 DEF Told
<1> QED
  BY <1>0, <1>5, <1>6, <1>7 DEF Backed, r

\* The table after the worker's transaction for e.
LEMMA PositionsCommitted ==
  ASSUME NEW d, TablesFit(d), NEW e \in Event, Accepts(d, e),
         NEW pos, pos = PositionsAfter(d, e)
  PROVE  /\ DOMAIN d.pos \subseteq DOMAIN pos
         /\ \A j \in DOMAIN pos : "margin" \in DOMAIN pos[j]
         /\ \A j \in DOMAIN d.pos \ {e.pos} : pos[j] = d.pos[j]
         /\ e.type \in {"open", "reduce"} =>
              e.pos \in DOMAIN pos /\ pos[e.pos].margin = e.row.margin
<1> DEFINE i == e.pos
<1>0. \A j \in DOMAIN d.pos : "margin" \in DOMAIN d.pos[j]
  BY DEF TablesFit
<1>1. e.type \in {"open", "reduce", "close", "increase"}
  BY DEF Event
<1>2. CASE e.type = "open"
  <2>1. pos = Put(d.pos, i, e.row)
    BY <1>2 DEF PositionsAfter
  <2>2. e.row \in Position
    BY <1>2 DEF Event
  <2>3. "margin" \in DOMAIN e.row
    BY <2>2 DEF Position
  <2>4. /\ DOMAIN pos = DOMAIN d.pos \cup {i} /\ pos[i] = e.row
        /\ \A j \in DOMAIN d.pos \ {i} : pos[j] = d.pos[j]
    BY <2>1 DEF Put
  <2> QED
    BY <1>0, <2>3, <2>4
<1>3. CASE e.type = "reduce"
  <2> DEFINE row == [d.pos[i] EXCEPT !.qty = e.row.qty, !.margin = e.row.margin]
  <2>1. i \in DOMAIN d.pos
    BY <1>3 DEF Accepts
  <2>2. pos = [d.pos EXCEPT ![i].qty = e.row.qty, ![i].margin = e.row.margin]
    BY <1>3 DEF PositionsAfter
  <2>3. row.margin = e.row.margin /\ "margin" \in DOMAIN row
    BY <1>0, <2>1
  <2>4. /\ DOMAIN pos = DOMAIN d.pos /\ pos[i] = row
        /\ \A j \in DOMAIN d.pos \ {i} : pos[j] = d.pos[j]
    BY <2>1, <2>2
  <2> HIDE DEF row
  <2> QED
    BY <1>0, <2>1, <2>3, <2>4
<1>4. CASE e.type = "close"
  <2> DEFINE row == [d.pos[i] EXCEPT !.state = e.row.state]
  <2>1. i \in DOMAIN d.pos
    BY <1>4 DEF Accepts
  <2>2. pos = [d.pos EXCEPT ![i].state = e.row.state]
    BY <1>4 DEF PositionsAfter
  <2>3. "margin" \in DOMAIN row
    BY <1>0, <2>1
  <2>4. /\ DOMAIN pos = DOMAIN d.pos /\ pos[i] = row
        /\ \A j \in DOMAIN d.pos \ {i} : pos[j] = d.pos[j]
    BY <2>1, <2>2
  <2> HIDE DEF row
  <2> QED
    BY <1>0, <1>4, <2>3, <2>4
<1>5. CASE e.type = "increase"
  <2>1. pos = d.pos
    BY <1>5 DEF PositionsAfter
  <2> QED
    BY <1>0, <1>5, <2>1
<1> QED
  BY <1>1, <1>2, <1>3, <1>4, <1>5

\* A queue and what is left of it.
LEMMA TailFacts ==
  ASSUME NEW q \in Seq(Event), q # << >>
  PROVE  /\ Head(q) \in Event /\ Tail(q) \in Seq(Event)
         /\ 1 \in DOMAIN q /\ q[1] = Head(q)
         /\ \A k \in DOMAIN Tail(q) : /\ k + 1 \in DOMAIN q /\ k \in Nat /\ k >= 1
                                      /\ Tail(q)[k] = q[k + 1]
         /\ \A k \in DOMAIN q : /\ k \in Nat
                                /\ k # 1 => k - 1 \in DOMAIN Tail(q) /\ Tail(q)[k - 1] = q[k]
<1>1. /\ Len(q) \in Nat /\ Len(q) # 0 /\ DOMAIN q = 1 .. Len(q)
      /\ DOMAIN Tail(q) = 1 .. (Len(q) - 1)
      /\ \A k \in 1 .. (Len(q) - 1) : Tail(q)[k] = q[k + 1]
      /\ Head(q) = q[1] /\ Tail(q) \in Seq(Event)
  BY HeadTailProperties, LenProperties
<1>2. 1 \in DOMAIN q
  BY <1>1
<1>3. Head(q) \in Event
  BY <1>1, <1>2, ElementIn
<1>4. ASSUME NEW k \in DOMAIN Tail(q)
      PROVE  k + 1 \in DOMAIN q /\ k \in Nat /\ k >= 1 /\ Tail(q)[k] = q[k + 1]
  BY <1>1
<1>5. ASSUME NEW k \in DOMAIN q
      PROVE  k \in Nat /\ (k # 1 => k - 1 \in DOMAIN Tail(q) /\ Tail(q)[k - 1] = q[k])
  <2>1. k # 1 => k - 1 \in 1 .. (Len(q) - 1) /\ (k - 1) + 1 = k
    BY <1>1
  <2> QED
    BY <1>1, <2>1
<1> QED
  BY <1>1, <1>2, <1>3, <1>4, <1>5

\* Whatever the worker does with the first event, the others still fit, and a
\* position it is not about is as well backed as before.
LEMMA RestFits ==
  ASSUME NEW m, NEW q, q # << >>, QueueFits(m, q)
  PROVE  QueueFits(m, Tail(q))
<1>1. q \in Seq(Event)
  BY DEF QueueFits
<1> QED
  BY <1>1, TailFacts DEF QueueFits

LEMMA RestBacked ==
  ASSUME NEW q \in Seq(Event), q # << >>, NEW d, NEW e, NEW i, NEW row, RowBacked(q, d, i, row),
         \/ Head(q).pos # i /\ (i \in DOMAIN d.pos => i \in DOMAIN e.pos /\ e.pos[i] = d.pos[i])
         \/ /\ Head(q).type \in {"open", "reduce"} =>
                 i \in DOMAIN e.pos /\ e.pos[i].margin = Head(q).row.margin
            /\ Head(q).pos = i
  PROVE  RowBacked(Tail(q), e, i, row)
<1> DEFINE t == Tail(q)
<1>1. /\ 1 \in DOMAIN q /\ q[1] = Head(q)
      /\ \A k \in DOMAIN t : k + 1 \in DOMAIN q /\ k \in Nat /\ k >= 1 /\ t[k] = q[k + 1]
      /\ \A k \in DOMAIN q : k \in Nat /\ (k # 1 => k - 1 \in DOMAIN t /\ t[k - 1] = q[k])
  BY TailFacts
<1> HIDE DEF t
<1>2. CASE NoWord(q, i) /\ i \in DOMAIN d.pos /\ d.pos[i].margin = row.margin
  <2>1. NoWord(t, i)
    BY <1>1, <1>2 DEF NoWord
  <2>2. Head(q).pos # i
    BY <1>1, <1>2 DEF NoWord
  <2> QED
    BY <1>2, <2>1, <2>2 DEF RowBacked, t
<1>3. CASE LastWord(q, i, row)
  <2>1. PICK k \in DOMAIN q :
          /\ q[k].pos = i /\ q[k].type \in {"open", "reduce"} /\ q[k].row.margin = row.margin
          /\ \A j \in DOMAIN q : j > k => q[j].pos # i
    BY <1>3 DEF LastWord
  <2>2. CASE k = 1
    <3>1. i \in DOMAIN e.pos /\ e.pos[i].margin = row.margin
      BY <1>1, <2>1, <2>2
    <3>2. ASSUME NEW j \in DOMAIN t PROVE t[j].pos # i
      <4>1. j + 1 \in DOMAIN q /\ j + 1 > k /\ t[j] = q[j + 1]
        BY <1>1, <2>2
      <4> QED
        BY <2>1, <4>1
    <3> QED
      BY <3>1, <3>2 DEF RowBacked, NoWord, t
  <2>3. CASE k # 1
    <3>1. k - 1 \in DOMAIN t /\ t[k - 1] = q[k] /\ k \in Nat
      BY <1>1, <2>3
    <3>2. ASSUME NEW j \in DOMAIN t, j > k - 1 PROVE t[j].pos # i
      <4>1. j + 1 \in DOMAIN q /\ t[j] = q[j + 1] /\ j \in Nat
        BY <1>1
      <4>2. j + 1 > k
        BY <3>1, <3>2, <4>1
      <4> QED
        BY <2>1, <4>1, <4>2
    <3>3. LastWord(t, i, row)
      BY <2>1, <3>1, <3>2 DEF LastWord
    <3> QED
      BY <3>3 DEF RowBacked, t
  <2> QED
    BY <2>2, <2>3
<1> QED
  BY <1>2, <1>3 DEF RowBacked

\* The transaction for h took the tables from d to e.
Committed(d, h, e) ==
  /\ Accepts(d, h) /\ {"bal", "pos"} \subseteq DOMAIN e
  /\ e.bal = BalancesAfter(d, h) /\ e.pos = PositionsAfter(d, h)

LEMMA CommitBacked ==
  ASSUME NEW m, NEW q, NEW d, NEW a, NEW g, Backed(m, q, d, a, g), q # << >>,
         NEW e, Committed(d, Head(q), e)
  PROVE  Backed(m, Tail(q), e, a, g) /\ DOMAIN d.pos \subseteq DOMAIN e.pos
<1> DEFINE h == Head(q)
<1>0. /\ QueueFits(m, q) /\ TablesFit(d) /\ BalancesFit(m, q, d, a, g) /\ RowsBacked(m, q, d, a)
      /\ q \in Seq(Event)
  BY DEF Backed, QueueFits
<1>1. h \in Event /\ Tail(q) \in Seq(Event) /\ QueueFits(m, Tail(q))
  BY <1>0, TailFacts, RestFits
<1>2. h.user \in Users /\ h.delta \in Int
  BY <1>1 DEF Event
<1>3. /\ DOMAIN d.pos \subseteq DOMAIN e.pos
      /\ \A j \in DOMAIN e.pos : "margin" \in DOMAIN e.pos[j]
      /\ \A j \in DOMAIN d.pos \ {h.pos} : e.pos[j] = d.pos[j]
      /\ h.type \in {"open", "reduce"} => h.pos \in DOMAIN e.pos /\ e.pos[h.pos].margin = h.row.margin
  BY <1>0, <1>1, PositionsCommitted DEF Committed
<1>4. d.bal \in [Users -> Int] /\ e.bal = [d.bal EXCEPT ![h.user] = @ + h.delta]
  BY <1>0 DEF TablesFit, BalancesAfter, Committed
<1> HIDE DEF h
<1>5. e.bal \in [Users -> Int]
  BY <1>2, <1>4
<1>6. TablesFit(e)
  BY <1>3, <1>5 DEF TablesFit, Committed
<1>7. BalancesFit(m, Tail(q), e, a, g)
  <2> SUFFICES ASSUME NEW u \in Users \ a.users
               PROVE  m.bal[u] = e.bal[u] + g[u] + PendingIn(Tail(q), u)
    BY <1>0 DEF BalancesFit
  <2>1. PendingIn(q, u) = (IF h.user = u THEN h.delta ELSE 0) + PendingIn(Tail(q), u)
    BY <1>0, PendingFirst DEF h
  <2>2. PendingIn(Tail(q), u) \in Int /\ d.bal[u] \in Int /\ g[u] \in Int
    BY <1>0, <1>1, <1>4, PendingInInt DEF BalancesFit, Traders
  <2>3. e.bal[u] = d.bal[u] + IF h.user = u THEN h.delta ELSE 0
    BY <1>2, <1>4, <2>2
  <2>4. m.bal[u] = d.bal[u] + g[u] + PendingIn(q, u)
    BY <1>0 DEF BalancesFit
  <2> QED
    BY <1>2, <2>1, <2>2, <2>3, <2>4
<1>8. RowsBacked(m, Tail(q), e, a)
  <2> SUFFICES ASSUME NEW u \in Users \ a.users, NEW i \in HeldBy(m, u) \ a.pos
               PROVE  RowBacked(Tail(q), e, i, m.pos[i])
    BY DEF RowsBacked
  <2>1. RowBacked(q, d, i, m.pos[i])
    BY <1>0 DEF RowsBacked
  <2>2. h.pos # i => (i \in DOMAIN d.pos => i \in DOMAIN e.pos /\ e.pos[i] = d.pos[i])
    BY <1>3
  <2> QED
    BY <1>0, <1>3, <2>1, <2>2, RestBacked DEF h
<1> QED
  BY <1>1, <1>3, <1>6, <1>7, <1>8 DEF Backed

LEMMA RollbackBacked ==
  ASSUME NEW m, NEW q, NEW d, NEW a, NEW g, Backed(m, q, d, a, g), q # << >>,
         NEW b, b.users = a.users \cup {Head(q).user}, b.pos = a.pos
  PROVE  Backed(m, Tail(q), d, b, g)
<1> DEFINE h == Head(q)
<1>0. /\ QueueFits(m, q) /\ TablesFit(d) /\ BalancesFit(m, q, d, a, g) /\ RowsBacked(m, q, d, a)
      /\ q \in Seq(Event)
  BY DEF Backed, QueueFits
<1>1. h \in Event /\ Tail(q) \in Seq(Event) /\ QueueFits(m, Tail(q)) /\ 1 \in DOMAIN q /\ q[1] = h
  BY <1>0, TailFacts, RestFits
<1> HIDE DEF h
<1>2. BalancesFit(m, Tail(q), d, b, g)
  <2> SUFFICES ASSUME NEW u \in Users \ b.users
               PROVE  m.bal[u] = d.bal[u] + g[u] + PendingIn(Tail(q), u)
    BY <1>0 DEF BalancesFit
  <2>1. PendingIn(q, u) = (IF h.user = u THEN h.delta ELSE 0) + PendingIn(Tail(q), u)
    BY <1>0, PendingFirst DEF h
  <2>2. PendingIn(Tail(q), u) \in Int /\ h.user # u
    BY <1>1, PendingInInt DEF h
  <2>3. m.bal[u] = d.bal[u] + g[u] + PendingIn(q, u)
    BY <1>0 DEF BalancesFit
  <2> QED
    BY <2>1, <2>2, <2>3
<1>3. RowsBacked(m, Tail(q), d, b)
  <2> SUFFICES ASSUME NEW u \in Users \ b.users, NEW i \in HeldBy(m, u) \ b.pos
               PROVE  RowBacked(Tail(q), d, i, m.pos[i])
    BY DEF RowsBacked
  <2>1. RowBacked(q, d, i, m.pos[i])
    BY <1>0 DEF RowsBacked
  <2>2. h.pos # i
    <3>1. h.user # u /\ i \in DOMAIN m.pos /\ m.pos[i].user = u
      BY DEF HeldBy, h
    <3>2. h.pos \in DOMAIN m.pos => m.pos[h.pos].user = h.user
      BY <1>0, <1>1 DEF QueueFits
    <3> QED
      BY <3>1, <3>2
  <2> QED
    BY <1>0, <2>1, <2>2, RestBacked DEF h
<1> QED
  BY <1>0, <1>1, <1>2, <1>3 DEF Backed

-----------------------------------------------------------------------------
(* The steps.                                                               *)

LEMMA PersistBacked == Inv /\ BackedInv /\ Persist => BackedInv'
<1> SUFFICES ASSUME Inv, BackedInv, Persist PROVE BackedInv'
  OBVIOUS
<1> DEFINE e == Head(queue)
<1>1. queue # << >> /\ queue' = Tail(queue) /\ UNCHANGED <<mem, sched, sums>>
  BY DEF Persist
<1>2. /\ Backed(mem, queue, db, apart, sums.clamped) /\ DOMAIN apart = {"users", "pos"}
      /\ {"bal", "pos", "rows"} \subseteq DOMAIN db
  BY DEF BackedInv, Inv, RowsFit
<1>3. CASE /\ Accepts(db, e) /\ UNCHANGED apart
           /\ db' = [db EXCEPT !.bal = BalancesAfter(db, e), !.pos = PositionsAfter(db, e)]
  <2>1. Committed(db, e, db')
    BY <1>2, <1>3 DEF Committed
  <2>2. Backed(mem, Tail(queue), db', apart, sums.clamped) /\ DOMAIN db.pos \subseteq DOMAIN db'.pos
    BY <1>1, <1>2, <2>1, CommitBacked
  <2> QED
    BY <1>1, <1>3, <2>2 DEF BackedInv
<1>4. CASE apart' = [apart EXCEPT !.users = @ \cup {e.user}] /\ UNCHANGED db
  <2>1. /\ apart'.users = apart.users \cup {e.user} /\ apart'.pos = apart.pos
        /\ DOMAIN apart' = DOMAIN apart
    BY <1>2, <1>4
  <2>2. Backed(mem, Tail(queue), db, apart', sums.clamped)
    BY <1>1, <1>2, <2>1, RollbackBacked
  <2> QED
    BY <1>1, <1>4, <2>1, <2>2 DEF BackedInv
<1> QED
  BY <1>3, <1>4 DEF Persist

\* The events of one leg, of a user or of a system account.
LEMMA LegTold ==
  ASSUME NEW m, MemOK(m), NEW l \in Leg, NEW lev \in Nat \ {0},
         NEW n \in UpdatePosition(m, l.user, l.side, l.qty, l.price, lev, FALSE)
  PROVE  Told(TradeEvents(m, n, l, 0), m, n)
<1> DEFINE u == l.user
           ev == TradeEvents(m, n, l, 0)
<1>0. u \in Traders /\ Terms(u, l.side, l.qty, l.price, lev)
  BY PriceAssumption DEF Leg, Terms
<1>1. m.bal \in [Traders -> Int] /\ n.bal \in [Traders -> Int]
  <2>1. MemOK(n)
    BY <1>0, UpdateTraded DEF Traded
  <2> QED
    BY <2>1 DEF MemOK, Memory
<1>2. CASE u \in Users
  <2>1. Tells(ev, m, n, u) /\ OthersKeep(m, n, u)
    BY <1>2, EventsTell
  <2> HIDE DEF u, ev
  <2>2. ev \in Seq(Event) /\ \A k \in DOMAIN ev : Concerns(ev[k], m, n, u)
    BY <2>1 DEF Tells
  <2>3. \A k \in DOMAIN ev : ev[k].user = u
    BY <2>2 DEF Concerns
  <2>4. ASSUME NEW v \in Users PROVE n.bal[v] = m.bal[v] + PendingIn(ev, v)
    <3>1. PendingIn(ev, v) = IF v = u THEN Deltas(ev) ELSE 0
      BY <2>2, <2>3, PendingOfOne
    <3>2. Deltas(ev) = n.bal[u] - m.bal[u]
      BY <2>1 DEF Tells
    <3>3. v # u => n.bal[v] = m.bal[v]
      BY <2>1 DEF OthersKeep, Traders
    <3>4. n.bal[v] \in Int /\ m.bal[v] \in Int
      BY <1>1 DEF Traders
    <3> QED
      BY <3>1, <3>2, <3>3, <3>4
  <2> QED
    BY <2>1, <2>2, <2>4 DEF Told, Tells, Concerns, NoWord, ev
<1>3. CASE u \notin Users
  <2>1. ev = << >> /\ ev \in Seq(Event) /\ DOMAIN ev = {}
    <3>1. ev = << >>
      BY <1>3 DEF TradeEvents
    <3>2. << >> \in Seq(Event) /\ DOMAIN << >> = {}
      OBVIOUS
    <3> QED
      BY <3>1, <3>2, Zenon
  <2>2. Untouched(m, n, u)
    <3>1. u \in Traders /\ l.side \in Sides /\ l.qty \in Nat \ {0} /\ l.price \in Nat
      BY <1>0 DEF Terms
    <3> HIDE DEF u
    <3>2. n \in UpdatePosition(m, u, l.side, l.qty, l.price, lev, FALSE)
      BY DEF u
    <3> QED
      BY <3>1, <3>2, OthersUntouched, Zenon
  <2> HIDE DEF u, ev
  <2>3. ASSUME NEW v \in Users PROVE n.bal[v] = m.bal[v] + PendingIn(ev, v)
    <3>1. PendingIn(ev, v) = 0
      BY <2>1, SumEmpty DEF PendingIn
    <3>2. n.bal[v] = m.bal[v] /\ m.bal[v] \in Int
      BY <1>1, <1>3, <2>2 DEF OthersKeep, Untouched, Traders
    <3> QED
      BY <3>1, <3>2
  <2> QED
    BY <1>3, <2>1, <2>2, <2>3 DEF Told, NoWord, Untouched, ev
<1> QED
  BY <1>2, <1>3

LEMMA ApplyLegBacked == Inv /\ Money /\ BackedInv /\ ApplyLeg => BackedInv'
<1> SUFFICES ASSUME Inv, Money, BackedInv, ApplyLeg PROVE BackedInv'
  OBVIOUS
<1> DEFINE l == Head(legs)
           lev == IF l.user \in Users THEN Leverage ELSE 1
           ev == TradeEvents(mem, mem', l, 0)
<1>1. legs # << >> /\ l \in Leg /\ lev \in Nat \ {0} /\ MemOK(mem) /\ Sound(mem)
  BY PriceAssumption DEF Money, Inv, ApplyLeg
<1>2. /\ mem' \in UpdatePosition(mem, l.user, l.side, l.qty, l.price, lev, FALSE)
      /\ queue' = queue \o ev /\ UNCHANGED <<db, sched, sums>>
      /\ apart' = [apart EXCEPT !.pos = @ \cup Increased(ev)]
  BY DEF ApplyLeg, Increased
<1> HIDE DEF l, lev
<1>3. KeepsOwners(mem, mem')
  BY <1>1, <1>2, UpdateKeepsOwners
<1>4. Told(ev, mem, mem')
  BY <1>1, <1>2, LegTold
<1>5. MemOK(mem')
  <2>1. Terms(l.user, l.side, l.qty, l.price, lev)
    BY <1>1, PriceAssumption DEF Leg, Terms
  <2> QED
    BY <1>1, <1>2, <2>1, UpdateTraded DEF Traded
<1> HIDE DEF ev
<1>6. /\ apart'.users = apart.users /\ apart'.pos = apart.pos \cup Increased(ev)
      /\ DOMAIN apart' = {"users", "pos"}
  BY <1>2 DEF BackedInv
<1>7. Backed(mem', queue', db, apart', sums.clamped)
  BY <1>1, <1>2, <1>3, <1>4, <1>5, <1>6, LegBacked DEF BackedInv
<1> QED
  BY <1>2, <1>6, <1>7 DEF BackedInv

\* What the steps of a settlement do to memory.
Shaped(m) ==
  /\ {"bal", "pos", "lastPos"} \subseteq DOMAIN m
  /\ \A i \in DOMAIN m.pos : {"user", "margin"} \subseteq DOMAIN m.pos[i]

LEMMA MemShaped == ASSUME NEW m, MemOK(m) PROVE Shaped(m)
<1>1. \A i \in DOMAIN m.pos : m.pos[i] \in Position
  BY MemPos
<1> QED
  BY <1>1 DEF MemOK, Memory, Position, Shaped

LEMMA PnlRows ==
  ASSUME NEW m, Shaped(m), NEW u, NEW x, NEW n, n = AddPnl(m, u, x)
  PROVE  Shaped(n) /\ SameRows(m, n, {})
<1>1. DOMAIN n = DOMAIN m /\ n.pos = m.pos /\ n.lastPos = m.lastPos
  BY DEF AddPnl, Shaped
<1> QED
  BY <1>1 DEF Shaped, SameRows

LEMMA RowRows ==
  ASSUME NEW m, Shaped(m), NEW i \in DOMAIN m.pos, NEW row, {"user", "margin"} \subseteq DOMAIN row,
         row.user = m.pos[i].user, NEW n, n = [m EXCEPT !.pos = [m.pos EXCEPT ![i] = row]]
  PROVE  /\ Shaped(n) /\ SameRows(m, n, {i}) /\ n.bal = m.bal
         /\ i \in DOMAIN n.pos /\ n.pos[i] = row
<1>1. /\ DOMAIN n = DOMAIN m /\ n.pos = [m.pos EXCEPT ![i] = row] /\ n.lastPos = m.lastPos
      /\ n.bal = m.bal
  BY DEF Shaped
<1>2. /\ DOMAIN n.pos = DOMAIN m.pos /\ n.pos[i] = row
      /\ \A j \in DOMAIN m.pos \ {i} : n.pos[j] = m.pos[j]
  BY <1>1
<1>3. Shaped(n)
  BY <1>1, <1>2 DEF Shaped
<1>4. SameRows(m, n, {i})
  BY <1>1, <1>2 DEF SameRows
<1> QED
  BY <1>1, <1>2, <1>3, <1>4

LEMMA AccrueRows ==
  ASSUME NEW m, Shaped(m), NEW i, NEW x, NEW n, n = Accrue(m, i, x)
  PROVE  Shaped(n) /\ SameRows(m, n, {}) /\ n.bal = m.bal
<1>1. CASE i \notin DOMAIN m.pos
  BY <1>1 DEF Accrue, SameRows
<1>2. CASE i \in DOMAIN m.pos
  <2> DEFINE row == [m.pos[i] EXCEPT !.funding = @ + x]
  <2>1. n = [m EXCEPT !.pos = [m.pos EXCEPT ![i] = row]]
    BY <1>2, Zenon DEF Accrue
  <2>2. /\ {"user", "margin"} \subseteq DOMAIN row
        /\ row.user = m.pos[i].user /\ row.margin = m.pos[i].margin
    BY <1>2 DEF Shaped
  <2> HIDE DEF row
  <2>3. /\ Shaped(n) /\ SameRows(m, n, {i}) /\ n.bal = m.bal
        /\ i \in DOMAIN n.pos /\ n.pos[i] = row
    BY <1>2, <2>1, <2>2, RowRows
  <2> QED
    BY <2>2, <2>3 DEF SameRows
<1> QED
  BY <1>1, <1>2

LEMMA FundingSetRows ==
  ASSUME NEW m, Shaped(m), NEW i, NEW x, NEW n, n = SetFunding(m, i, x)
  PROVE  Shaped(n) /\ SameRows(m, n, {}) /\ n.bal = m.bal
<1>1. CASE i \notin DOMAIN m.pos
  BY <1>1 DEF SetFunding, SameRows
<1>2. CASE i \in DOMAIN m.pos
  <2> DEFINE row == [m.pos[i] EXCEPT !.funding = x]
  <2>1. n = [m EXCEPT !.pos = [m.pos EXCEPT ![i] = row]]
    BY <1>2, Zenon DEF SetFunding
  <2>2. /\ {"user", "margin"} \subseteq DOMAIN row
        /\ row.user = m.pos[i].user /\ row.margin = m.pos[i].margin
    BY <1>2 DEF Shaped
  <2> HIDE DEF row
  <2>3. /\ Shaped(n) /\ SameRows(m, n, {i}) /\ n.bal = m.bal
        /\ i \in DOMAIN n.pos /\ n.pos[i] = row
    BY <1>2, <2>1, <2>2, RowRows
  <2> QED
    BY <2>2, <2>3 DEF SameRows
<1> QED
  BY <1>1, <1>2

LEMMA StateRows ==
  ASSUME NEW m, Shaped(m), NEW i, NEW state, NEW n, n = SetState(m, i, state)
  PROVE  Shaped(n) /\ SameRows(m, n, {}) /\ n.bal = m.bal
<1>1. CASE i \notin DOMAIN m.pos
  BY <1>1 DEF SetState, SameRows
<1>2. CASE i \in DOMAIN m.pos
  <2> DEFINE row == [m.pos[i] EXCEPT !.state = state]
  <2>1. n = [m EXCEPT !.pos = [m.pos EXCEPT ![i] = row]]
    BY <1>2, Zenon DEF SetState
  <2>2. /\ {"user", "margin"} \subseteq DOMAIN row
        /\ row.user = m.pos[i].user /\ row.margin = m.pos[i].margin
    BY <1>2 DEF Shaped
  <2> HIDE DEF row
  <2>3. /\ Shaped(n) /\ SameRows(m, n, {i}) /\ n.bal = m.bal
        /\ i \in DOMAIN n.pos /\ n.pos[i] = row
    BY <1>2, <2>1, <2>2, RowRows
  <2> QED
    BY <2>2, <2>3 DEF SameRows
<1> QED
  BY <1>1, <1>2

LEMMA MarginRows ==
  ASSUME NEW m, Shaped(m), NEW i, NEW x, NEW n, n = SetMargin(m, i, x)
  PROVE  /\ Shaped(n) /\ SameRows(m, n, {i}) /\ n.bal = m.bal
         /\ i \in DOMAIN n.pos => n.pos[i].margin = x
<1>1. CASE i \notin DOMAIN m.pos
  BY <1>1 DEF SetMargin, SameRows
<1>2. CASE i \in DOMAIN m.pos
  <2> DEFINE row == [m.pos[i] EXCEPT !.margin = x]
  <2>1. n = [m EXCEPT !.pos = [m.pos EXCEPT ![i] = row]]
    BY <1>2, Zenon DEF SetMargin
  <2>2. /\ {"user", "margin"} \subseteq DOMAIN row
        /\ row.user = m.pos[i].user /\ row.margin = x
    BY <1>2 DEF Shaped
  <2> HIDE DEF row
  <2>3. /\ Shaped(n) /\ SameRows(m, n, {i}) /\ n.bal = m.bal
        /\ i \in DOMAIN n.pos /\ n.pos[i] = row
    BY <1>2, <2>1, <2>2, RowRows
  <2> QED
    BY <2>2, <2>3
<1> QED
  BY <1>1, <1>2

\* SameRows is transitive.
LEMMA SameSame ==
  ASSUME NEW m, NEW n, NEW o, NEW S, SameRows(m, n, {}), SameRows(n, o, S)
  PROVE  SameRows(m, o, S)
BY DEF SameRows

\* Steps that leave the queue, the rows and the margins alone.
LEMMA BackedKeeps ==
  ASSUME Money, BackedInv, SameRows(mem, mem', {}),
         Alike(mem, mem', db, db', apart, sums.clamped, sums'.clamped),
         TablesFit(db'), SameTable(db, db', {}), UNCHANGED <<queue, apart>>,
         sched'.pc \in {"column", "lock"} => sched'.at \in DOMAIN db'.pos
  PROVE  BackedInv'
<1>1. mem.bal \in [Traders -> Int]
  BY DEF Money, MemOK, Memory
<1>2. Settled(mem', queue, db', apart, {})
  BY DEF Settled
<1>3. Backed(mem, queue, db, apart, sums.clamped)
  BY DEF BackedInv
<1>4. Backed(mem', queue, db', apart, sums'.clamped)
  BY <1>1, <1>2, <1>3, BackedStays
<1> QED
  BY <1>4 DEF BackedInv

\* Nothing of what AddPnl gives is a user's.
UsersGetNothing ==
  /\ sums'.clamped \in [Traders -> Int]
  /\ \A u \in Users : sums'.clamped[u] = sums.clamped[u]

LEMMA NothingGiven ==
  ASSUME Money, sums'.clamped = sums.clamped
  PROVE  UsersGetNothing
BY DEF Money, SumsTyped, UsersGetNothing

\* The same when the database is left alone, and no user's balance changes.
LEMMA MemoryOnly ==
  ASSUME Money, BackedInv, SameRows(mem, mem', {}),
         \A u \in Users : mem'.bal[u] = mem.bal[u], UNCHANGED <<queue, apart>>,
         db'.bal = db.bal, db'.pos = db.pos, DOMAIN db' = DOMAIN db,
         sched'.pc \in {"column", "lock"} => sched'.at \in DOMAIN db.pos,
         UsersGetNothing
  PROVE  BackedInv'
<1>1. mem.bal \in [Traders -> Int] /\ TablesFit(db) /\ sums.clamped \in [Traders -> Int]
  BY DEF Money, MemOK, Memory, BackedInv, Backed, SumsTyped
<1>2. Alike(mem, mem', db, db', apart, sums.clamped, sums'.clamped)
  <2> SUFFICES ASSUME NEW u \in Users
               PROVE  \E c, x \in Int : /\ mem'.bal[u] = mem.bal[u] + c + x
                                        /\ db'.bal[u] = db.bal[u] + c
                                        /\ sums'.clamped[u] = sums.clamped[u] + x
    BY DEF Alike, UsersGetNothing
  <2>1. /\ mem.bal[u] \in Int /\ db.bal[u] \in Int /\ sums.clamped[u] \in Int /\ 0 \in Int
    BY <1>1 DEF TablesFit, Traders
  <2>2. /\ mem'.bal[u] = mem.bal[u] + 0 + 0 /\ db'.bal[u] = db.bal[u] + 0
        /\ sums'.clamped[u] = sums.clamped[u] + 0
    BY <2>1 DEF UsersGetNothing
  <2> QED
    BY <2>2
<1>3. TablesFit(db') /\ SameTable(db, db', {})
  BY <1>1 DEF TablesFit, SameTable
<1> QED
  BY <1>2, <1>3, BackedKeeps

LEMMA SameMemory ==
  ASSUME Money, UNCHANGED mem
  PROVE  SameRows(mem, mem', {}) /\ \A u \in Users : mem'.bal[u] = mem.bal[u]
BY DEF SameRows

LEMMA EngineBacked == Inv /\ Money /\ BackedInv /\ EngineStep => BackedInv'
<1> SUFFICES ASSUME Inv, Money, BackedInv, EngineStep PROVE BackedInv'
  OBVIOUS
<1>0. Shaped(mem)
  BY MemShaped DEF Money
<1>1. ASSUME NEW i \in DOMAIN mem.pos, NEW state, mem' = SetState(mem, i, state),
             UNCHANGED <<queue, db, sched, sums, apart>>
      PROVE  BackedInv'
  <2>1. SameRows(mem, mem', {}) /\ mem'.bal = mem.bal
    BY <1>0, <1>1, StateRows
  <2> QED
    BY <1>1, <2>1, MemoryOnly, NothingGiven DEF BackedInv
<1>2. ASSUME UNCHANGED <<mem, queue, db, sched, sums, apart>> PROVE BackedInv'
  BY <1>2, SameMemory, MemoryOnly, NothingGiven DEF BackedInv
<1>3. ASSUME ApplyLeg PROVE BackedInv'
  BY <1>3, ApplyLegBacked
<1>4. ASSUME NEW u, NEW v, NEW q, Trade(u, v, q) PROVE BackedInv'
  BY <1>2, <1>4 DEF Trade
<1>5. ASSUME NEW i \in DOMAIN mem.pos, TakeOver(i) PROVE BackedInv'
  BY <1>2, <1>5 DEF TakeOver
<1>6. ASSUME NEW i \in DOMAIN mem.pos, BeginClose(i) PROVE BackedInv'
  BY <1>1, <1>6 DEF BeginClose
<1>7. ASSUME NEW i \in DOMAIN mem.pos, Reopen(i) PROVE BackedInv'
  BY <1>1, <1>7 DEF Reopen
<1> QED
  BY <1>3, <1>4, <1>5, <1>6, <1>7 DEF EngineStep

\* Steps of a settlement that charge nobody with an account.
LEMMA BeginBacked ==
  ASSUME Inv, Money, BackedInv, NEW rate, Begin(rate) PROVE BackedInv'
<1>1. {"bal", "pos", "rows"} \subseteq DOMAIN db
  BY DEF Inv, RowsFit
<1>2. UNCHANGED <<mem, queue, apart>> /\ sched'.pc = "list"
  BY DEF Begin, engine, Asleep
<1>3. db'.bal = db.bal /\ db'.pos = db.pos /\ DOMAIN db' = DOMAIN db
  BY <1>1 DEF Begin
<1>4. UsersGetNothing
  <2>1. sums'.clamped = sums.clamped
    BY DEF Begin, Money, SumsTyped
  <2> QED
    BY <2>1, NothingGiven
<1> QED
  BY <1>2, <1>3, <1>4, SameMemory, MemoryOnly

\* The market maker's payments are his alone.
LEMMA SettleSystemBacked ==
  ASSUME Inv, Money, BackedInv, NEW i \in DOMAIN listed, SettleSystem(i)
  PROVE  BackedInv'
<1>1. UNCHANGED <<mem, queue, db, sums, apart>> /\ sched'.pc = "credit"
  BY DEF SettleSystem, engine, history, Inv, SchedFits
<1> QED
  BY <1>1, SameMemory, MemoryOnly, NothingGiven

LEMMA CreditSystemBacked ==
  ASSUME Inv, Money, BackedInv, CreditSystem
  PROVE  BackedInv'
<1>1. Shaped(mem) /\ MemOK(mem) /\ sched.payment \in Int /\ MM \in Traders
  BY MemShaped DEF Money, Traders
<1>2. mem' = AddPnl(mem, MM, sched.payment) /\ UNCHANGED <<queue, db, apart>>
  BY DEF CreditSystem
<1>3. sched'.pc = "read"
  BY DEF CreditSystem, Inv, SchedFits
<1>4. SameRows(mem, mem', {})
  BY <1>1, <1>2, PnlRows
<1>5. \A u \in Users : mem'.bal[u] = mem.bal[u]
  <2>1. \A v \in Traders : mem'.bal[v] = mem.bal[v]
                  + IF v = MM THEN sched.payment + Clamped(mem, MM, sched.payment) ELSE 0
    BY <1>1, <1>2, PnlAdded
  <2>2. \A v \in Traders : mem.bal[v] \in Int
    BY <1>1 DEF MemOK, Memory
  <2> QED
    BY <2>1, <2>2, UsersAssumption DEF Traders
<1>6. UsersGetNothing
  <2> DEFINE c == Clamped(mem, MM, sched.payment)
  <2>1. c \in Int /\ sums.clamped \in [Traders -> Int]
    BY <1>1, ClampedNat DEF Money, SumsTyped
  <2>2. sums' = [sums EXCEPT !.clamped[MM] = @ + c]
    BY DEF CreditSystem
  <2> HIDE DEF c
  <2>3. sums'.clamped = [sums.clamped EXCEPT ![MM] = sums.clamped[MM] + c]
    BY <2>2 DEF Money, SumsTyped
  <2>4. sums.clamped[MM] + c \in Int
    BY <1>1, <2>1
  <2> QED
    BY <2>1, <2>3, <2>4, UsersAssumption DEF UsersGetNothing, Traders
<1> QED
  BY <1>2, <1>3, <1>4, <1>5, <1>6, MemoryOnly

\* Pay for a position of the market maker ends his turn.
LEMMA PaidSystem ==
  ASSUME Inv, Money, NEW i, NEW overwritten, Pay(i, MM, sched.payment, 0, 0, overwritten)
  PROVE  UsersGetNothing /\ sched'.pc = "list"
<1>1. sched'.pc = "list"
  BY DEF Pay, Inv, SchedFits
<1>2. sums'.clamped = [sums.clamped EXCEPT ![MM] = @ + 0]
  BY DEF Pay, Money, SumsTyped
<1>3. sums'.clamped = sums.clamped
  BY <1>2 DEF Money, SumsTyped, Traders
<1> QED
  BY <1>1, <1>3, NothingGiven

LEMMA ReadSystemBacked ==
  ASSUME Inv, Money, BackedInv, ReadSystem
  PROVE  BackedInv'
<1>1. UNCHANGED <<mem, queue, db, apart>>
  BY DEF ReadSystem, engine
<1>2. CASE sched.at \in DOMAIN mem.pos
  <2>1. sched'.pc = "write" /\ UNCHANGED sums
    BY <1>2 DEF ReadSystem, Inv, SchedFits
  <2> QED
    BY <1>1, <2>1, SameMemory, MemoryOnly, NothingGiven
<1>3. CASE sched.at \notin DOMAIN mem.pos
  <2>1. UsersGetNothing /\ sched'.pc = "list"
    BY <1>3, PaidSystem DEF ReadSystem
  <2> QED
    BY <1>1, <2>1, SameMemory, MemoryOnly
<1> QED
  BY <1>2, <1>3

LEMMA WriteSystemBacked ==
  ASSUME Inv, Money, BackedInv, WriteSystem
  PROVE  BackedInv'
<1>1. Shaped(mem) /\ UNCHANGED <<queue, db, apart>>
  BY MemShaped DEF Money, WriteSystem
<1>2. UsersGetNothing /\ sched'.pc = "list"
  BY PaidSystem DEF WriteSystem
<1>3. SameRows(mem, mem', {}) /\ mem'.bal = mem.bal
  BY <1>1, FundingSetRows DEF WriteSystem
<1> QED
  BY <1>1, <1>2, <1>3, MemoryOnly

\* His trades tell the worker nothing.
LEMMA WriteSystemInTradeBacked ==
  ASSUME Inv, Money, BackedInv, WriteSystemInTrade
  PROVE  BackedInv'
<1> DEFINE l == Head(legs)
<1>1. /\ l \in Leg /\ l.user = MM /\ 1 \in Nat \ {0} /\ MemOK(mem) /\ Sound(mem)
      /\ mem' \in UpdatePosition(mem, l.user, l.side, l.qty, l.price, 1, FALSE)
  <2>1. /\ legs # << >> /\ l.user = MM
        /\ mem' \in UpdatePosition(mem, MM, l.side, l.qty, l.price, 1, FALSE)
    BY TradeOfSystem
  <2>2. legs \in Seq(Leg) /\ MemOK(mem) /\ Sound(mem)
    BY DEF Money, Inv
  <2>3. l \in Leg
    BY <2>1, <2>2, HeadTailProperties
  <2>4. 1 \in Nat \ {0}
    OBVIOUS
  <2> HIDE DEF l
  <2> QED
    BY <2>1, <2>2, <2>3, <2>4, Zenon
<1>2. UNCHANGED <<queue, db, apart>>
  BY DEF WriteSystemInTrade
<1>3. UsersGetNothing /\ sched'.pc = "list"
  BY PaidSystem DEF WriteSystemInTrade
<1> HIDE DEF l
<1>4. TradeEvents(mem, mem', l, 0) = << >>
  BY <1>1, UsersAssumption DEF TradeEvents
<1>5. Told(<< >>, mem, mem') /\ KeepsOwners(mem, mem')
  BY <1>1, <1>4, LegTold, UpdateKeepsOwners
<1>6. MemOK(mem')
  <2>1. Terms(l.user, l.side, l.qty, l.price, 1)
    BY <1>1, PriceAssumption DEF Leg, Terms
  <2> QED
    BY <1>1, <2>1, UpdateTraded DEF Traded
<1>7. Increased(<< >>) = {} /\ queue \in Seq(Event) /\ queue \o << >> = queue
  BY ConcatEmptySeq DEF Increased, BackedInv, Backed, QueueFits
<1>8. Backed(mem', queue, db, apart, sums.clamped)
  BY <1>1, <1>5, <1>6, <1>7, LegBacked DEF BackedInv
<1>9. Backed(mem', queue, db, apart, sums'.clamped)
  <2>1. BalancesFit(mem', queue, db, apart, sums'.clamped)
    BY <1>3, <1>8 DEF Backed, BalancesFit, UsersGetNothing
  <2> QED
    BY <1>8, <2>1 DEF Backed
<1> QED
  BY <1>2, <1>3, <1>9 DEF BackedInv

LEMMA CreateSettlementBacked ==
  ASSUME Inv, Money, BackedInv, NEW i \in DOMAIN listed, CreateSettlement(i)
  PROVE  BackedInv'
<1>1. /\ {"bal", "pos", "rows"} \subseteq DOMAIN db
      /\ {"pc", "at", "rate", "payment", "old"} \subseteq DOMAIN sched
  BY DEF Inv, RowsFit, SchedFits
<1>2. UNCHANGED <<mem, queue, apart>> /\ sched.pc = "list" /\ UsersGetNothing
  BY NothingGiven DEF CreateSettlement, AtPosition, engine, history
<1>3. db'.bal = db.bal /\ db'.pos = db.pos /\ DOMAIN db' = DOMAIN db
  BY <1>1 DEF CreateSettlement
<1>4. CASE /\ i \in DOMAIN db.pos
           /\ sched' = [sched EXCEPT !.pc = "column", !.at = i, !.payment = PaymentFor(i)]
  <2>1. sched'.at = i
    BY <1>1, <1>4
  <2> QED
    BY <1>2, <1>3, <1>4, <2>1, SameMemory, MemoryOnly
<1>5. CASE sched' = [sched EXCEPT !.at = i]
  <2>1. sched'.pc = "list"
    BY <1>1, <1>2, <1>5
  <2> QED
    BY <1>2, <1>3, <2>1, SameMemory, MemoryOnly
<1> QED
  BY <1>4, <1>5 DEF CreateSettlement

LEMMA UpdateFundingPnlBacked ==
  ASSUME Inv, Money, BackedInv, UpdateFundingPnl
  PROVE  BackedInv'
<1>1. /\ {"bal", "pos", "rows"} \subseteq DOMAIN db
      /\ {"pc", "at", "rate", "payment", "old"} \subseteq DOMAIN sched
  BY DEF Inv, RowsFit, SchedFits
<1>2. UNCHANGED <<mem, queue, apart, sums>>
  BY DEF UpdateFundingPnl, engine, history
<1> DEFINE i == sched.at
<1>3. i \in DOMAIN db.pos /\ TablesFit(db)
  BY DEF UpdateFundingPnl, BackedInv, Backed
<1>4. CASE /\ db' = [db EXCEPT !.pos[i].funding = @ + sched.payment]
           /\ sched' = [sched EXCEPT !.pc = "lock"]
  <2> DEFINE row == [db.pos[i] EXCEPT !.funding = @ + sched.payment]
  <2>1. db' = [db EXCEPT !.pos = [db.pos EXCEPT ![i] = row]]
    BY <1>4, Zenon
  <2>2. "margin" \in DOMAIN row /\ row.margin = db.pos[i].margin
    BY <1>3 DEF TablesFit
  <2> HIDE DEF row
  <2>3. db'.bal = db.bal /\ db'.pos = [db.pos EXCEPT ![i] = row] /\ DOMAIN db' = DOMAIN db
    BY <1>1, <2>1
  <2>4. TablesFit(db')
    BY <1>3, <2>2, <2>3 DEF TablesFit
  <2>5. SameTable(db, db', {})
    BY <1>3, <2>2, <2>3 DEF SameTable
  <2>6. sched'.at \in DOMAIN db'.pos
    BY <1>1, <1>3, <1>4, <2>3
  <2>7. SameRows(mem, mem', {})
    BY <1>2, SameMemory
  <2>8. Alike(mem, mem', db, db', apart, sums.clamped, sums'.clamped)
    <3>0. sums.clamped \in [Traders -> Int]
      BY DEF Money, SumsTyped
    <3> SUFFICES ASSUME NEW u \in Users
                 PROVE  \E c, x \in Int : /\ mem'.bal[u] = mem.bal[u] + c + x
                                          /\ db'.bal[u] = db.bal[u] + c
                                          /\ sums'.clamped[u] = sums.clamped[u] + x
      BY <1>2, <3>0 DEF Alike
    <3>1. mem.bal[u] \in Int /\ db.bal[u] \in Int /\ sums.clamped[u] \in Int
      BY <1>3, <3>0 DEF Money, MemOK, Memory, TablesFit, Traders
    <3>2. /\ mem'.bal[u] = mem.bal[u] + 0 + 0 /\ db'.bal[u] = db.bal[u] + 0
          /\ sums'.clamped[u] = sums.clamped[u] + 0
      BY <1>2, <2>3, <3>1
    <3> QED
      BY <3>2
  <2> QED
    BY <1>2, <2>4, <2>5, <2>6, <2>7, <2>8, BackedKeeps
<1>5. CASE StartOver /\ UNCHANGED db
  <2>1. sched'.pc = "list"
    BY <1>1, <1>5 DEF StartOver
  <2> QED
    BY <1>2, <1>5, <2>1, SameMemory, MemoryOnly, NothingGiven
<1> QED
  BY <1>4, <1>5 DEF UpdateFundingPnl

\* From f to g the holder, and he alone, has x more.
HolderHasMore(f, g, x) == \A v \in Traders : g[v] = f[v] + IF v = Holder THEN x ELSE 0

\* What is charged to the holder, in the database and in memory, and what
\* AddPnl gives him in memory.
LEMMA HolderAlike ==
  ASSUME Money, BackedInv, NEW x \in Int, NEW c \in Int,
         NEW n, HolderHasMore(mem.bal, n.bal, x + c),
         NEW e, e.bal = [db.bal EXCEPT ![Holder] = @ + x],
         NEW g \in [Traders -> Int], HolderHasMore(sums.clamped, g, c)
  PROVE  Alike(mem, n, db, e, apart, sums.clamped, g) /\ e.bal \in [Users -> Int]
<1>1. /\ mem.bal \in [Traders -> Int] /\ db.bal \in [Users -> Int]
      /\ sums.clamped \in [Traders -> Int]
  BY DEF Money, MemOK, Memory, BackedInv, Backed, TablesFit, SumsTyped
<1>2. e.bal \in [Users -> Int]
  <2>1. CASE Holder \in Users
    <3>1. db.bal[Holder] \in Int
      BY <1>1, <2>1
    <3>2. db.bal[Holder] + x \in Int
      BY <3>1
    <3> DEFINE y == db.bal[Holder] + x
    <3>3. y \in Int /\ e.bal = [db.bal EXCEPT ![Holder] = y]
      BY <3>2
    <3> HIDE DEF y
    <3> QED
      BY <1>1, <3>3
  <2>2. CASE Holder \notin Users
    <3>1. e.bal = db.bal
      BY <1>1, <2>2
    <3> QED
      BY <1>1, <3>1
  <2> QED
    BY <2>1, <2>2
<1>3. Alike(mem, n, db, e, apart, sums.clamped, g)
  <2> SUFFICES ASSUME NEW u \in Users
               PROVE  \E y, z \in Int : /\ n.bal[u] = mem.bal[u] + y + z
                                        /\ e.bal[u] = db.bal[u] + y
                                        /\ g[u] = sums.clamped[u] + z
    BY DEF Alike
  <2>1. /\ mem.bal[u] \in Int /\ db.bal[u] \in Int /\ sums.clamped[u] \in Int /\ u \in Traders
    BY <1>1 DEF Traders
  <2>2. CASE u = Holder
    <3>1. /\ n.bal[u] = mem.bal[u] + x + c /\ e.bal[u] = db.bal[u] + x
          /\ g[u] = sums.clamped[u] + c
      BY <1>1, <2>1, <2>2 DEF HolderHasMore
    <3> QED
      BY <3>1
  <2>3. CASE u # Holder
    <3>1. /\ n.bal[u] = mem.bal[u] + 0 + 0 /\ e.bal[u] = db.bal[u] + 0
          /\ g[u] = sums.clamped[u] + 0
      BY <1>1, <2>1, <2>3 DEF HolderHasMore
    <3> QED
      BY <3>1
  <2> QED
    BY <2>2, <2>3
<1> QED
  BY <1>2, <1>3

LEMMA Withdrawal ==
  ASSUME NEW f \in [Users -> Int], NEW u, NEW y \in Int
  PROVE  [f EXCEPT ![u] = @ - y] = [f EXCEPT ![u] = @ + (-y)]
<1>1. CASE u \in Users
  <2>1. f[u] - y = f[u] + (-y)
    OBVIOUS
  <2> QED
    BY <2>1
<1>2. CASE u \notin Users
  BY <1>2
<1> QED
  BY <1>1, <1>2


LEMMA ChargeBalanceBacked ==
  ASSUME Inv, Money, BackedInv, ChargeBalance
  PROVE  BackedInv'
<1>0. /\ Shaped(mem) /\ sched.payment \in Int /\ sched.pc = "lock"
      /\ {"bal", "pos", "rows"} \subseteq DOMAIN db
      /\ {"pc", "at", "rate", "payment", "old"} \subseteq DOMAIN sched
  BY MemShaped DEF Money, Inv, RowsFit, SchedFits, ChargeBalance
<1>1. UNCHANGED <<queue, apart>>
  BY DEF ChargeBalance
<1> DEFINE n == Accrue(mem, sched.at, sched.payment)
           x == sched.payment
           c == Clamped(mem, Holder, x)
<1>2. CASE /\ db' = [db EXCEPT !.bal[Holder] = @ + x]
           /\ mem' = AddPnl(n, Holder, x)
           /\ Pay(sched.at, Holder, x, 0, c, 0)
  <2>0. /\ Holder \in Traders /\ MemOK(mem) /\ x \in Int
        /\ sched.at \in DOMAIN mem.pos => mem.pos[sched.at].user = Holder
    BY <1>0, HolderAtHand DEF Money
  <2>1. Shaped(n) /\ SameRows(mem, n, {}) /\ n.bal = mem.bal /\ MemOK(n)
    <3>1. Shaped(n) /\ SameRows(mem, n, {}) /\ n.bal = mem.bal
      BY <1>0, AccrueRows
    <3>2. Gains(mem, n, Holder, IF sched.at \in DOMAIN mem.pos THEN x ELSE 0)
      BY <2>0, AccrueGains
    <3> QED
      BY <3>1, <3>2 DEF Gains
  <2>2. c \in Int /\ Clamped(n, Holder, x) = c
    BY <2>0, ClampedNat, AccrueClamps
  <2>3. /\ db'.bal = [db.bal EXCEPT ![Holder] = @ + x]
        /\ db'.pos = db.pos /\ DOMAIN db' = DOMAIN db
    BY <1>0, <1>2
  <2>4. sums'.clamped \in [Traders -> Int] /\ HolderHasMore(sums.clamped, sums'.clamped, c)
    <3> HIDE DEF c
    <3>1. sums.clamped \in [Traders -> Int] /\ sums.clamped[Holder] + c \in Int
      BY <2>0, <2>2 DEF Money, SumsTyped
    <3>2. sums'.clamped = [sums.clamped EXCEPT ![Holder] = sums.clamped[Holder] + c]
      BY <1>2 DEF Pay, Money, SumsTyped
    <3>3. \A v \in Traders : sums.clamped[v] \in Int
      BY <3>1
    <3> QED
      BY <2>0, <3>1, <3>2, <3>3 DEF HolderHasMore
  <2>5. sched'.pc = "list"
    BY <1>0, <1>2 DEF Pay
  <2> HIDE DEF n, c, x
  <2>6. SameRows(mem, mem', {})
    BY <1>2, <2>1, PnlRows, SameSame
  <2>7. HolderHasMore(mem.bal, mem'.bal, x + c)
    BY <1>2, <2>0, <2>1, <2>2, PnlAdded DEF HolderHasMore
  <2>8. /\ Alike(mem, mem', db, db', apart, sums.clamped, sums'.clamped)
        /\ db'.bal \in [Users -> Int]
    BY <2>0, <2>2, <2>3, <2>4, <2>7, HolderAlike
  <2>9. TablesFit(db') /\ SameTable(db, db', {})
    BY <1>0, <2>3, <2>8 DEF BackedInv, Backed, TablesFit, SameTable
  <2> QED
    BY <1>1, <2>5, <2>6, <2>8, <2>9, BackedKeeps
<1>3. CASE StartOver /\ UNCHANGED <<mem, db, listed, charged, sums>>
  <2>1. sched'.pc = "list"
    BY <1>0, <1>3 DEF StartOver
  <2> QED
    BY <1>1, <1>3, <2>1, SameMemory, MemoryOnly, NothingGiven
<1> QED
  BY <1>2, <1>3 DEF ChargeBalance

LEMMA ChargeMarginBacked ==
  ASSUME Inv, Money, BackedInv, ChargeMargin
  PROVE  BackedInv'
<1>0. /\ Shaped(mem) /\ sched.payment \in Int /\ sched.pc = "lock" /\ ~Sufficient
      /\ {"bal", "pos", "rows"} \subseteq DOMAIN db
      /\ {"pc", "at", "rate", "payment", "old"} \subseteq DOMAIN sched
  BY MemShaped DEF Money, Inv, RowsFit, SchedFits, ChargeMargin
<1> DEFINE i == sched.at
           x == FromBalance
           y == NewMargin
           n == Accrue(mem, i, sched.payment)
           o == Withdraw(n)
           concerned == {queue[k].pos : k \in {j \in DOMAIN queue : queue[j].pos = i}}
<1>1. /\ mem' = SetMargin(o, i, y)
      /\ db' = [db EXCEPT !.bal[Holder] = @ - x, !.pos[i].margin = y]
      /\ apart' = [apart EXCEPT !.pos = @ \cup concerned]
      /\ UNCHANGED queue
  BY DEF ChargeMargin
<1>2. x \in Int /\ i \in DOMAIN db.pos /\ TablesFit(db) /\ DOMAIN apart = {"users", "pos"}
  BY <1>0, NewMarginNat DEF BackedInv, Backed
<1>3. /\ sched'.pc = "list" /\ sums.clamped \in [Traders -> Int]
      /\ \A v \in Traders : sums'.clamped[v] = sums.clamped[v]
      /\ sums'.clamped \in [Traders -> Int]
  <2>1. sched'.pc = "list" /\ sums.clamped \in [Traders -> Int]
    BY <1>0 DEF ChargeMargin, Pay, Money, SumsTyped
  <2>2. sums'.clamped = [sums.clamped EXCEPT ![Holder] = @ + 0]
    BY DEF ChargeMargin, Pay, Money, SumsTyped
  <2>3. sums'.clamped = sums.clamped
    BY <2>1, <2>2
  <2> QED
    BY <2>1, <2>3
<1>4. NoWord(queue, i) \/ i \in concerned
  BY DEF NoWord
<1> DEFINE row == [db.pos[i] EXCEPT !.margin = y]
<1>5. row.margin = y /\ "margin" \in DOMAIN row
  BY <1>2 DEF TablesFit
<1>6. /\ db'.bal = [db.bal EXCEPT ![Holder] = @ - x]
      /\ db'.pos = [db.pos EXCEPT ![i] = row] /\ DOMAIN db' = DOMAIN db
  <2>1. db' = [db EXCEPT !.bal = [db.bal EXCEPT ![Holder] = @ - x],
                         !.pos = [db.pos EXCEPT ![i] = row]]
    BY <1>1, Zenon
  <2> HIDE DEF x, row
  <2> QED
    BY <1>0, <2>1
<1>7. Shaped(n) /\ SameRows(mem, n, {}) /\ n.bal = mem.bal /\ Holder \in Traders
  BY <1>0, AccrueRows, HolderAtHand
<1>8. \A v \in Traders : o.bal[v] = mem.bal[v] - IF v = Holder THEN x ELSE 0
  <2>1. MemOK(mem) /\ (i \in DOMAIN mem.pos => mem.pos[i].user = Holder)
    BY <1>0, HolderAtHand DEF Money
  <2>2. MemOK(n)
    BY <1>0, <1>7, <2>1, AccrueGains DEF Gains
  <2> QED
    BY <1>0, <2>2, WithdrawGains
<1>9. Shaped(o) /\ SameRows(mem, o, {})
  <2>1. o = n \/ o = AddPnl(n, Holder, -x)
    BY DEF Withdraw
  <2> HIDE DEF n, o, x
  <2>2. o = AddPnl(n, Holder, -x) => Shaped(o) /\ SameRows(n, o, {})
    BY <1>7, PnlRows
  <2> QED
    BY <1>7, <2>1, <2>2, SameSame
<1> HIDE DEF i, x, y, n, o, concerned, row
<1>10. /\ SameRows(o, mem', {i}) /\ mem'.bal = o.bal
       /\ i \in DOMAIN mem'.pos => mem'.pos[i].margin = y
  BY <1>1, <1>9, MarginRows
<1>11. SameRows(mem, mem', {i})
  BY <1>9, <1>10, SameSame
<1>12. Alike(mem, mem', db, db', apart, sums.clamped, sums'.clamped) /\ db'.bal \in [Users -> Int]
  <2>1. db'.bal = [db.bal EXCEPT ![Holder] = @ + (-x)]
    BY <1>2, <1>6, Withdrawal DEF TablesFit
  <2>2. \A v \in Traders : mem.bal[v] \in Int /\ sums.clamped[v] \in Int
    BY <1>3 DEF Money, MemOK, Memory
  <2>3. /\ -x \in Int /\ 0 \in Int
        /\ HolderHasMore(mem.bal, mem'.bal, -x + 0)
        /\ HolderHasMore(sums.clamped, sums'.clamped, 0)
    BY <1>2, <1>3, <1>8, <1>10, <2>2 DEF HolderHasMore
  <2> QED
    BY <1>3, <2>1, <2>3, HolderAlike
<1>13. TablesFit(db')
  BY <1>0, <1>2, <1>5, <1>6, <1>12 DEF TablesFit
<1>14. SameTable(db, db', {i})
  BY <1>6 DEF SameTable
<1>15. /\ apart'.users = apart.users /\ apart'.pos = apart.pos \cup concerned
       /\ DOMAIN apart' = {"users", "pos"}
  BY <1>1, <1>2
<1>16. Settled(mem', queue, db', apart', {i})
  <2>1. i \in DOMAIN db'.pos /\ db'.pos[i].margin = y
    BY <1>2, <1>5, <1>6
  <2> QED
    BY <1>4, <1>10, <1>15, <2>1 DEF Settled
<1>17. Alike(mem, mem', db, db', apart', sums.clamped, sums'.clamped)
  BY <1>12, <1>15 DEF Alike
<1>18. mem.bal \in [Traders -> Int] /\ Backed(mem, queue, db, apart, sums.clamped)
  BY DEF Money, MemOK, Memory, BackedInv
<1>19. Backed(mem', queue, db', apart', sums'.clamped)
  BY <1>11, <1>13, <1>14, <1>15, <1>16, <1>17, <1>18, BackedStays
<1> QED
  BY <1>1, <1>3, <1>15, <1>19 DEF BackedInv

LEMMA ChargeMarginFailsBacked ==
  ASSUME Inv, Money, BackedInv, ChargeMarginFails
  PROVE  BackedInv'
<1>0. /\ sched.pc = "lock" /\ ~Sufficient /\ StartOver /\ UNCHANGED <<mem, queue, sums>>
      /\ {"bal", "pos", "rows"} \subseteq DOMAIN db
      /\ {"pc", "at", "rate", "payment", "old"} \subseteq DOMAIN sched
  BY DEF Inv, RowsFit, SchedFits, ChargeMarginFails, engine
<1>1. sched'.pc = "list"
  BY <1>0 DEF StartOver
<1>2. CASE UNCHANGED <<db, apart>>
  BY <1>0, <1>1, <1>2, SameMemory, MemoryOnly, NothingGiven
<1> DEFINE x == FromBalance
<1>3. CASE /\ db' = [db EXCEPT !.bal[Holder] = @ - x]
           /\ apart' = IF x > 0 THEN [apart EXCEPT !.users = @ \cup {Holder}] ELSE apart
  <2>1. /\ x \in Nat /\ mem.bal \in [Traders -> Int]
        /\ DOMAIN apart = {"users", "pos"} /\ TablesFit(db)
        /\ Backed(mem, queue, db, apart, sums.clamped) /\ sums.clamped \in [Traders -> Int]
    BY <1>0, NewMarginNat DEF Money, MemOK, Memory, BackedInv, Backed, SumsTyped
  <2> HIDE DEF x
  <2>2. /\ db'.bal = [db.bal EXCEPT ![Holder] = @ - x]
        /\ db'.pos = db.pos /\ DOMAIN db' = DOMAIN db
    BY <1>0, <1>3
  <2>3. /\ DOMAIN apart' = {"users", "pos"} /\ apart.users \subseteq apart'.users
        /\ apart'.pos = apart.pos /\ (x # 0 => Holder \in apart'.users)
    BY <1>3, <2>1
  <2>4. \A u \in Users : /\ db.bal[u] \in Int /\ db'.bal[u] \in Int
                         /\ u # Holder \/ x = 0 => db'.bal[u] = db.bal[u]
    BY <2>1, <2>2 DEF TablesFit
  <2>5. TablesFit(db') /\ SameTable(db, db', {}) /\ Settled(mem', queue, db', apart', {})
    <3>1. db'.bal \in [Users -> Int]
      BY <2>1, <2>2, <2>4 DEF TablesFit
    <3> QED
      BY <1>0, <2>1, <2>2, <3>1 DEF TablesFit, SameTable, Settled
  <2>6. Alike(mem, mem', db, db', apart', sums.clamped, sums'.clamped)
    <3> SUFFICES ASSUME NEW u \in Users \ apart'.users
                 PROVE  \E c, y \in Int : /\ mem'.bal[u] = mem.bal[u] + c + y
                                          /\ db'.bal[u] = db.bal[u] + c
                                          /\ sums'.clamped[u] = sums.clamped[u] + y
      BY <1>0, <2>1 DEF Alike
    <3>1. /\ mem'.bal[u] = mem.bal[u] + 0 + 0 /\ db'.bal[u] = db.bal[u] + 0
          /\ sums'.clamped[u] = sums.clamped[u] + 0
      BY <1>0, <2>1, <2>3, <2>4 DEF Traders
    <3> QED
      BY <3>1
  <2>7. SameRows(mem, mem', {})
    BY <1>0, SameMemory
  <2>8. Backed(mem', queue, db', apart', sums'.clamped)
    BY <2>1, <2>3, <2>5, <2>6, <2>7, BackedStays
  <2> QED
    BY <1>0, <1>1, <2>3, <2>8 DEF BackedInv
<1> QED
  BY <1>2, <1>3 DEF ChargeMarginFails

\* Together with the books of funding, what makes memory and database agree is
\* inductive.
THEOREM BackedInvariance == Spec => []BackedInv
<1>1. Inv /\ Money /\ BackedInv /\ [Next]_vars => BackedInv'
  <2> SUFFICES ASSUME Inv, Money, BackedInv, [Next]_vars PROVE BackedInv'
    OBVIOUS
  <2>1. CASE EngineStep
    BY <2>1, EngineBacked
  <2>2. CASE Persist
    BY <2>2, PersistBacked
  <2>3. CASE \E rate \in Rates : Begin(rate)
    BY <2>3, BeginBacked
  <2>4. CASE UNCHANGED <<mem, queue, db, sums, apart>> /\ (UNCHANGED sched \/ sched'.pc = "idle")
    BY <2>4, SameMemory, MemoryOnly, NothingGiven DEF BackedInv
  <2>5. CASE SettleStep
    <3>1. CASE End
      <4>1. UNCHANGED <<mem, queue, db, sums, apart>> /\ sched'.pc = "idle"
        BY <3>1 DEF End, engine, history, Asleep
      <4> QED
        BY <2>4, <4>1
    <3> QED
      BY <2>5, <3>1, SettleSystemBacked, CreditSystemBacked, ReadSystemBacked,
         WriteSystemBacked, WriteSystemInTradeBacked, CreateSettlementBacked,
         UpdateFundingPnlBacked, ChargeBalanceBacked, ChargeMarginBacked, ChargeMarginFailsBacked
         DEF SettleStep
  <2>6. CASE Skip
    BY <2>4, <2>6 DEF Skip, engine, history
  <2>7. CASE UNCHANGED vars
    BY <2>4, <2>7 DEF vars
  <2> QED
    BY <2>1, <2>2, <2>3, <2>5, <2>6, <2>7 DEF Next
<1> QED
  BY InitBacked, <1>1, Invariance, MoneyInvariance, PTL DEF Spec

\* settler.go: the worker writes in its own time what UpdatePosition told it,
\* and the scheduler writes to the same rows under the lock.  Memory and
\* database never disagree about the balance of a user of whom no transaction
\* was rolled back, but for events in the queue and for what AddPnl gave a
\* negative balance in memory alone, nor about a margin.
THEOREM BackedUp == Spec => []FundingBackedUp
BY BackedImplies, BackedInvariance, PTL
=============================================================================
