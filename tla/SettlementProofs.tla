-------------------------- MODULE SettlementProofs --------------------------
(***************************************************************************)
(* Proofs about Settlement, for any users, threads, prices, sizes of the   *)
(* channel, failures, restarts and resets.                                 *)
(***************************************************************************)
EXTENDS Settlement, PositionProofs


-----------------------------------------------------------------------------
(* Events on their way: the queue, and what each consumer holds.           *)

Contents(s) == {s[n] : n \in DOMAIN s}

Waiting(q, h) == Contents(q) \cup Contents(h[Worker]) \cup Contents(h[Main])

FlowOK(q, h) ==
  /\ q \in Seq(Contents(q))
  /\ h = [w \in Consumers |-> h[w]]
  /\ \A w \in Consumers : h[w] = <<>> \/ h[w] = <<h[w][1]>>

\* Two events that insert the same row.
Clash(d, e) ==
  /\ d.type = e.type
  /\ \/ d.type = "create" /\ d.order = e.order
     \/ d.type = "open"   /\ d.pos = e.pos

\* No two events on their way insert the same row.
ClashFree(q) == \A i, j \in DOMAIN q : Clash(q[i], q[j]) => i = j

NoClash(q, h) ==
  /\ ClashFree(q)
  /\ \A w \in Consumers, i \in DOMAIN q : h[w] # <<>> => ~Clash(h[w][1], q[i])
  /\ h[Worker] # <<>> /\ h[Main] # <<>> => ~Clash(h[Worker][1], h[Main][1])

LEMMA ConsumersAre == /\ Consumers = {Worker, Main} /\ Worker # Main
                      /\ Worker \in Consumers /\ Main \in Consumers
  BY DEF Consumers, Worker, Main

LEMMA SeqOfContents ==
  ASSUME NEW S, NEW s \in Seq(S)
  PROVE  s \in Seq(Contents(s))
<1>1. s = [i \in 1 .. Len(s) |-> s[i]] /\ Len(s) \in Nat /\ DOMAIN s = 1 .. Len(s)
  OBVIOUS
<1>2. \A i \in 1 .. Len(s) : s[i] \in Contents(s)
  BY <1>1 DEF Contents
<1> QED
  BY <1>1, <1>2

\* What a consumer may hold.
LEMMA HandFacts ==
  ASSUME NEW s, s = <<>> \/ s = <<s[1]>>
  PROVE  /\ s = <<>> => DOMAIN s = {} /\ Len(s) = 0
         /\ s # <<>> => DOMAIN s = {1} /\ Len(s) = 1 /\ Head(s) = s[1]
         /\ s \in Seq(Contents(s))
         /\ Contents(s) = IF s = <<>> THEN {} ELSE {s[1]}
<1>1. CASE s = <<>>
  BY <1>1 DEF Contents
<1>2. CASE s # <<>>
  <2>1. s = <<s[1]>>
    BY <1>2
  <2>2. DOMAIN s = {1} /\ Len(s) = 1 /\ Head(s) = s[1]
    <3> DEFINE x == s[1]
    <3>1. s = <<x>>
      BY <2>1
    <3> HIDE DEF x
    <3>2. DOMAIN s = {1} /\ Len(s) = 1 /\ Head(s) = x
      BY <3>1
    <3> QED
      BY <3>2 DEF x
  <2>3. Contents(s) = {s[1]}
    BY <2>2 DEF Contents
  <2>4. s \in Seq({s[1]})
    <3> DEFINE x == s[1]
    <3>1. s = <<x>>
      BY <2>1
    <3> HIDE DEF x
    <3>2. s \in Seq({x})
      BY <3>1
    <3> QED
      BY <3>2 DEF x
  <2> QED
    BY <1>2, <2>2, <2>3, <2>4
<1> QED
  BY <1>1, <1>2

\* An event goes from the queue to a consumer.
LEMMA TakeFlow ==
  ASSUME FlowOK(queue, hand), NoClash(queue, hand), queue # <<>>,
         NEW w \in Consumers, hand[w] = <<>>, NEW e, e = Head(queue),
         queue' = Tail(queue), hand' = [hand EXCEPT ![w] = <<e>>]
  PROVE  /\ FlowOK(queue', hand')
         /\ Waiting(queue', hand') = Waiting(queue, hand)
         /\ NoClash(queue', hand')
<1>1. /\ queue \in Seq(Contents(queue)) /\ DOMAIN queue = 1 .. Len(queue)
      /\ Len(queue) \in Nat /\ Len(queue) # 0 /\ e = queue[1]
      /\ queue' \in Seq(Contents(queue)) /\ DOMAIN queue' = 1 .. Len(queue) - 1
      /\ \A i \in 1 .. Len(queue) - 1 : queue'[i] = queue[i + 1]
  BY HeadTailProperties DEF FlowOK
<1>2. /\ hand' = [v \in Consumers |-> IF v = w THEN <<e>> ELSE hand[v]]
      /\ hand'[w] = <<e>> /\ hand'[w] # <<>> /\ hand'[w][1] = e
      /\ \A v \in Consumers \ {w} : hand'[v] = hand[v]
  <2>1. hand' = [v \in Consumers |-> IF v = w THEN <<e>> ELSE hand[v]]
    BY DEF FlowOK
  <2>2. <<e>> # <<>> /\ <<e>>[1] = e
    OBVIOUS
  <2> QED
    BY <2>1, <2>2
<1>3. \A i \in DOMAIN queue' : i + 1 \in DOMAIN queue /\ queue'[i] = queue[i + 1]
  BY <1>1
<1>4. Contents(queue) = {e} \cup Contents(queue')
  <2>1. \A i \in DOMAIN queue : i = 1 \/ (i - 1 \in DOMAIN queue' /\ queue'[i - 1] = queue[i])
    BY <1>1
  <2>2. 1 \in DOMAIN queue
    BY <1>1
  <2>3. \A i \in DOMAIN queue : queue[i] \in {e} \cup Contents(queue')
    BY <1>1, <2>1 DEF Contents
  <2>4. e \in Contents(queue)
    BY <1>1, <2>2 DEF Contents
  <2>5. Contents(queue') \subseteq Contents(queue)
    BY <1>3 DEF Contents
  <2>6. Contents(queue) \subseteq {e} \cup Contents(queue')
    BY <2>3 DEF Contents
  <2> QED
    BY <2>4, <2>5, <2>6
<1>5. queue' \in Seq(Contents(queue'))
  BY <1>1, SeqOfContents
<1>6. FlowOK(queue', hand')
  BY <1>2, <1>5 DEF FlowOK
<1>7. Contents(hand'[w]) = {e} /\ Contents(hand[w]) = {}
  BY <1>2, HandFacts
<1>8. Waiting(queue', hand') = Waiting(queue, hand)
  <2>1. CASE w = Worker
    BY <1>2, <1>4, <1>7, <2>1, ConsumersAre DEF Waiting
  <2>2. CASE w = Main
    BY <1>2, <1>4, <1>7, <2>2, ConsumersAre DEF Waiting
  <2> QED
    BY <2>1, <2>2, ConsumersAre
<1>9. NoClash(queue', hand')
  <2>1. ClashFree(queue')
    <3> SUFFICES ASSUME NEW i \in DOMAIN queue', NEW j \in DOMAIN queue', Clash(queue'[i], queue'[j])
                 PROVE  i = j
      BY DEF ClashFree
    <3>1. i + 1 = j + 1
      BY <1>3 DEF NoClash, ClashFree
    <3> QED
      BY <1>1, <3>1
  <2>2. ASSUME NEW v \in Consumers, NEW i \in DOMAIN queue', hand'[v] # <<>>, Clash(hand'[v][1], queue'[i])
        PROVE  FALSE
    <3>1. CASE v = w
      <4>1. Clash(queue[1], queue[i + 1]) /\ 1 \in DOMAIN queue /\ i + 1 \in DOMAIN queue
        BY <1>1, <1>2, <1>3, <2>2, <3>1
      <4>2. 1 = i + 1
        BY <4>1 DEF NoClash, ClashFree
      <4> QED
        BY <1>1, <4>2
    <3>2. CASE v # w
      <4>1. hand[v] # <<>> /\ Clash(hand[v][1], queue[i + 1]) /\ i + 1 \in DOMAIN queue
        BY <1>2, <1>3, <2>2, <3>2
      <4> QED
        BY <4>1 DEF NoClash
    <3> QED
      BY <3>1, <3>2
  <2>3. ASSUME hand'[Worker] # <<>>, hand'[Main] # <<>>, Clash(hand'[Worker][1], hand'[Main][1])
        PROVE  FALSE
    <3>1. 1 \in DOMAIN queue /\ queue[1] = e
      BY <1>1
    <3>2. CASE w = Worker
      <4>1. hand[Main] # <<>> /\ Clash(hand[Main][1], queue[1])
        BY <1>2, <2>3, <3>1, <3>2, ConsumersAre DEF Clash
      <4> QED
        BY <3>1, <4>1, ConsumersAre DEF NoClash
    <3>3. CASE w = Main
      <4>1. hand[Worker] # <<>> /\ Clash(hand[Worker][1], queue[1])
        BY <1>2, <2>3, <3>1, <3>3, ConsumersAre
      <4> QED
        BY <3>1, <4>1, ConsumersAre DEF NoClash
    <3> QED
      BY <3>2, <3>3, ConsumersAre
  <2> QED
    BY <2>1, <2>2, <2>3 DEF NoClash
<1> QED
  BY <1>6, <1>8, <1>9

\* A consumer is done with its event.
LEMMA DropFlow ==
  ASSUME NEW q, NEW h, FlowOK(q, h), NEW w \in Consumers, h[w] # <<>>,
         NEW k, k = [h EXCEPT ![w] = <<>>]
  PROVE  /\ FlowOK(q, k)
         /\ Waiting(q, k) \subseteq Waiting(q, h)
         /\ Head(h[w]) = h[w][1] /\ Head(h[w]) \in Waiting(q, h)
         /\ NoClash(q, h) => /\ NoClash(q, k)
                             /\ \A d \in Waiting(q, k) : ~Clash(Head(h[w]), d)
<1>1. /\ k = [v \in Consumers |-> IF v = w THEN <<>> ELSE h[v]]
      /\ k[w] = <<>> /\ \A v \in Consumers \ {w} : k[v] = h[v]
  BY DEF FlowOK
<1>2. FlowOK(q, k)
  BY <1>1 DEF FlowOK
<1>3. \A v \in Consumers : /\ Contents(h[v]) = IF h[v] = <<>> THEN {} ELSE {h[v][1]}
                           /\ Contents(k[v]) = IF k[v] = <<>> THEN {} ELSE {k[v][1]}
  BY <1>2, HandFacts DEF FlowOK
<1>4. Waiting(q, k) \subseteq Waiting(q, h)
  BY <1>1, <1>3, ConsumersAre DEF Waiting
<1>5. Head(h[w]) = h[w][1] /\ Head(h[w]) \in Waiting(q, h)
  <2>1. Head(h[w]) = h[w][1]
    BY HandFacts DEF FlowOK
  <2> QED
    BY <1>3, <2>1, ConsumersAre DEF Waiting
<1>6. ASSUME NoClash(q, h)
      PROVE  NoClash(q, k)
  BY <1>1, <1>6, ConsumersAre DEF NoClash
<1>7. ASSUME NoClash(q, h), NEW d \in Waiting(q, k), Clash(h[w][1], d)
      PROVE  FALSE
  <2>1. CASE d \in Contents(q)
    BY <1>7, <2>1 DEF NoClash, Contents
  <2>2. CASE d \notin Contents(q)
    <3>1. PICK v \in Consumers : d \in Contents(k[v])
      BY <1>7, <2>2, ConsumersAre DEF Waiting
    <3>2. v # w /\ h[v] # <<>> /\ d = h[v][1]
      <4>1. k[v] # <<>> /\ d = k[v][1]
        <5>1. /\ k[v] = <<>> => Contents(k[v]) = {}
              /\ k[v] # <<>> => Contents(k[v]) = {k[v][1]}
          BY <1>3, Zenon
        <5> QED
          BY <3>1, <5>1
      <4> QED
        BY <1>1, <4>1
    <3>3. Clash(h[Worker][1], h[Main][1]) /\ h[Worker] # <<>> /\ h[Main] # <<>>
      BY <1>7, <3>2, ConsumersAre DEF Clash
    <3> QED
      BY <1>7, <3>3 DEF NoClash
  <2> QED
    BY <2>1, <2>2
<1> QED
  BY <1>2, <1>4, <1>5, <1>6, <1>7

LEMMA JoinedContents ==
  ASSUME NEW s, s \in Seq(Contents(s)), NEW r, r \in Seq(Contents(r))
  PROVE  /\ s \o r \in Seq(Contents(s \o r))
         /\ Contents(s \o r) = Contents(s) \cup Contents(r)
         /\ ClashFree(s \o r) <=> /\ ClashFree(s) /\ ClashFree(r)
                                  /\ \A d \in Contents(s), e \in Contents(r) : ~Clash(d, e)
<1> DEFINE j == s \o r
           n == Len(s)
<1>1. /\ j \in Seq(Contents(j))
      /\ DOMAIN s = 1 .. n /\ DOMAIN r = 1 .. Len(r)
      /\ n \in Nat /\ Len(r) \in Nat
      /\ DOMAIN j = 1 .. n + Len(r)
      /\ \A i \in DOMAIN s : j[i] = s[i]
      /\ \A i \in DOMAIN r : j[n + i] = r[i]
      /\ \A i \in DOMAIN j : i \notin DOMAIN s => i - n \in DOMAIN r
  BY JoinedFacts DEF Contents
<1> HIDE DEF j, n
<1>2. /\ \A i \in DOMAIN s : i \in DOMAIN j
      /\ \A i \in DOMAIN r : n + i \in DOMAIN j /\ n + i \notin DOMAIN s
      /\ \A i \in DOMAIN j : i \notin DOMAIN s => i - n \in DOMAIN r /\ j[i] = r[i - n]
  <2>1. \A i \in DOMAIN s : i \in DOMAIN j
    BY <1>1
  <2>2. \A i \in DOMAIN r : n + i \in DOMAIN j /\ n + i \notin DOMAIN s
    BY <1>1
  <2>3. ASSUME NEW i \in DOMAIN j, i \notin DOMAIN s
        PROVE  i - n \in DOMAIN r /\ j[i] = r[i - n]
    <3>1. i - n \in DOMAIN r
      BY <1>1, <2>3
    <3>2. n + (i - n) = i
      BY <1>1
    <3>3. j[n + (i - n)] = r[i - n]
      BY <1>1, <3>1, Zenon
    <3> QED
      BY <3>1, <3>2, <3>3
  <2> QED
    BY <2>1, <2>2, <2>3
<1>3. Contents(j) = Contents(s) \cup Contents(r)
  <2>1. ASSUME NEW x \in Contents(j) PROVE x \in Contents(s) \cup Contents(r)
    <3>1. PICK i \in DOMAIN j : x = j[i]
      BY DEF Contents
    <3> QED
      BY <1>1, <1>2, <3>1 DEF Contents
  <2>2. ASSUME NEW x \in Contents(s) \cup Contents(r) PROVE x \in Contents(j)
    <3>1. CASE x \in Contents(s)
      BY <1>1, <1>2, <3>1 DEF Contents
    <3>2. CASE x \in Contents(r)
      <4>1. PICK i \in DOMAIN r : x = r[i]
        BY <3>2 DEF Contents
      <4>2. n + i \in DOMAIN j /\ j[n + i] = x
        BY <1>1, <1>2, <4>1
      <4> QED
        BY <4>2 DEF Contents
    <3> QED
      BY <3>1, <3>2
  <2> QED
    BY <2>1, <2>2
<1>4. ASSUME ClashFree(j)
      PROVE  /\ ClashFree(s) /\ ClashFree(r)
             /\ \A d \in Contents(s), e \in Contents(r) : ~Clash(d, e)
  <2>1. ClashFree(s)
    BY <1>1, <1>2, <1>4 DEF ClashFree
  <2>2. ASSUME NEW i \in DOMAIN r, NEW k \in DOMAIN r, Clash(r[i], r[k])
        PROVE  i = k
    <3>1. n + i = n + k
      BY <1>1, <1>2, <1>4, <2>2 DEF ClashFree
    <3> QED
      BY <1>1, <3>1
  <2>3. ASSUME NEW d \in Contents(s), NEW e \in Contents(r), Clash(d, e)
        PROVE  FALSE
    <3>1. PICK i \in DOMAIN s : d = s[i]
      BY DEF Contents
    <3>2. PICK k \in DOMAIN r : e = r[k]
      BY DEF Contents
    <3>3. i = n + k
      BY <1>1, <1>2, <1>4, <2>3, <3>1, <3>2 DEF ClashFree
    <3> QED
      BY <1>2, <3>3
  <2> QED
    BY <2>1, <2>2, <2>3 DEF ClashFree
<1>5. ASSUME ClashFree(s), ClashFree(r), \A d \in Contents(s), e \in Contents(r) : ~Clash(d, e)
      PROVE  ClashFree(j)
  <2> SUFFICES ASSUME NEW i \in DOMAIN j, NEW k \in DOMAIN j, Clash(j[i], j[k])
               PROVE  i = k
    BY DEF ClashFree
  <2>1. Clash(j[k], j[i])
    BY DEF Clash
  <2>2. CASE i \in DOMAIN s /\ k \in DOMAIN s
    BY <1>1, <1>5, <2>2 DEF ClashFree
  <2>3. CASE i \in DOMAIN s /\ k \notin DOMAIN s
    <3>1. j[i] \in Contents(s) /\ j[k] \in Contents(r)
      BY <1>1, <1>2, <2>3 DEF Contents
    <3> QED
      BY <1>5, <3>1
  <2>4. CASE i \notin DOMAIN s /\ k \in DOMAIN s
    <3>1. j[k] \in Contents(s) /\ j[i] \in Contents(r)
      BY <1>1, <1>2, <2>4 DEF Contents
    <3> QED
      BY <1>5, <2>1, <3>1
  <2>5. CASE i \notin DOMAIN s /\ k \notin DOMAIN s
    <3>1. i - n = k - n
      BY <1>2, <1>5, <2>5 DEF ClashFree
    <3> QED
      BY <1>1, <3>1
  <2> QED
    BY <2>2, <2>3, <2>4, <2>5
<1> QED
  BY <1>1, <1>3, <1>4, <1>5 DEF j

\* Events are submitted.
LEMMA AppendFlow ==
  ASSUME NEW q, NEW h, FlowOK(q, h), NEW ev, ev \in Seq(Contents(ev))
  PROVE  /\ FlowOK(q \o ev, h)
         /\ Waiting(q \o ev, h) = Waiting(q, h) \cup Contents(ev)
         /\ /\ NoClash(q, h) /\ ClashFree(ev)
            /\ \A d \in Waiting(q, h), e \in Contents(ev) : ~Clash(d, e)
            => NoClash(q \o ev, h)
<1> DEFINE j == q \o ev
<1>1. /\ j \in Seq(Contents(j)) /\ Contents(j) = Contents(q) \cup Contents(ev)
      /\ ClashFree(j) <=> /\ ClashFree(q) /\ ClashFree(ev)
                          /\ \A d \in Contents(q), e \in Contents(ev) : ~Clash(d, e)
  BY JoinedContents DEF FlowOK
<1> HIDE DEF j
<1>2. FlowOK(j, h) /\ Waiting(j, h) = Waiting(q, h) \cup Contents(ev)
  BY <1>1 DEF FlowOK, Waiting
<1>3. ASSUME NoClash(q, h), ClashFree(ev),
             \A d \in Waiting(q, h), e \in Contents(ev) : ~Clash(d, e)
      PROVE  NoClash(j, h)
  <2>1. ClashFree(j)
    BY <1>1, <1>3 DEF NoClash, Waiting
  <2>2. ASSUME NEW w \in Consumers, NEW i \in DOMAIN j, h[w] # <<>>, Clash(h[w][1], j[i])
        PROVE  FALSE
    <3>1. Contents(h[w]) = {h[w][1]}
      BY <2>2, HandFacts DEF FlowOK
    <3>2. h[w][1] \in Waiting(q, h)
      BY <3>1, ConsumersAre DEF Waiting
    <3>3. CASE j[i] \in Contents(ev)
      BY <1>3, <2>2, <3>2, <3>3
    <3>4. CASE j[i] \in Contents(q)
      BY <1>3, <2>2, <3>4 DEF NoClash, Contents
    <3> QED
      BY <1>1, <3>3, <3>4 DEF Contents
  <2> QED
    BY <1>3, <2>1, <2>2 DEF NoClash
<1> QED
  BY <1>2, <1>3 DEF j

LEMMA UnsettledFacts ==
  ASSUME FlowOK(queue, hand)
  PROVE  /\ Contents(Unsettled) = Waiting(queue, hand)
         /\ NoClash(queue, hand) => ClashFree(Unsettled)
<1> DEFINE a == hand[Worker]
           b == hand[Main]
<1>1. /\ queue \in Seq(Contents(queue)) /\ a \in Seq(Contents(a)) /\ b \in Seq(Contents(b))
      /\ a = <<>> \/ a = <<a[1]>>
      /\ b = <<>> \/ b = <<b[1]>>
  BY HandFacts, ConsumersAre DEF FlowOK
<1>2. /\ queue \o a \in Seq(Contents(queue \o a))
      /\ Contents(queue \o a) = Contents(queue) \cup Contents(a)
      /\ ClashFree(queue \o a) <=> /\ ClashFree(queue) /\ ClashFree(a)
                                   /\ \A d \in Contents(queue), e \in Contents(a) : ~Clash(d, e)
  BY <1>1, JoinedContents
<1>3. /\ Contents(Unsettled) = Contents(queue \o a) \cup Contents(b)
      /\ ClashFree(Unsettled) <=> /\ ClashFree(queue \o a) /\ ClashFree(b)
                                  /\ \A d \in Contents(queue \o a), e \in Contents(b) : ~Clash(d, e)
  BY <1>1, <1>2, JoinedContents DEF Unsettled
<1>4. Contents(Unsettled) = Waiting(queue, hand)
  BY <1>2, <1>3 DEF Waiting
<1>5. ASSUME NoClash(queue, hand)
      PROVE  ClashFree(Unsettled)
  <2>1. /\ a = <<>> => Contents(a) = {} /\ DOMAIN a = {}
        /\ a # <<>> => Contents(a) = {a[1]} /\ DOMAIN a = {1}
        /\ b = <<>> => Contents(b) = {} /\ DOMAIN b = {}
        /\ b # <<>> => Contents(b) = {b[1]} /\ DOMAIN b = {1}
    BY <1>1, HandFacts
  <2>2. ClashFree(a) /\ ClashFree(b)
    BY <2>1 DEF ClashFree
  <2>3. ASSUME NEW d \in Contents(queue), NEW e \in Contents(a) \cup Contents(b), Clash(d, e)
        PROVE  FALSE
    <3>1. PICK i \in DOMAIN queue : d = queue[i]
      BY DEF Contents
    <3>2. PICK w \in Consumers : hand[w] # <<>> /\ e = hand[w][1]
      BY <2>1, ConsumersAre
    <3>3. Clash(hand[w][1], queue[i])
      BY <2>3, <3>1, <3>2 DEF Clash
    <3> QED
      BY <1>5, <3>2, <3>3 DEF NoClash
  <2>4. ASSUME NEW d \in Contents(a), NEW e \in Contents(b), Clash(d, e)
        PROVE  FALSE
    BY <1>5, <2>1, <2>4 DEF NoClash
  <2>5. ClashFree(queue)
    BY <1>5 DEF NoClash
  <2> HIDE DEF a, b
  <2>6. ClashFree(queue \o a)
    BY <1>2, <2>2, <2>3, <2>5
  <2> QED
    BY <1>2, <1>3, <2>2, <2>3, <2>4, <2>6
<1> QED
  BY <1>4, <1>5

-----------------------------------------------------------------------------
(* The events of a trade.                                                  *)

\* What an event of UpdatePosition says, of leg l and order id, from m to n.
TradeEvent(e, m, n, l, id) ==
  /\ e.user = l.user /\ e.user \in Users /\ e.order = id
  /\ e.type \in {"open", "increase", "reduce", "close"}
  /\ e.type = "open" => /\ e.pos \in DOMAIN n.pos \ DOMAIN m.pos
                        /\ e.row = n.pos[e.pos]
  /\ e.type # "open" => e.pos \in DOMAIN m.pos /\ m.pos[e.pos].user = l.user

LEMMA TradeEventsFacts ==
  ASSUME NEW m, Sound(m), NEW l, NEW n, KeepsOwners(m, n), OwnOnly(m, n, l.user), NEW id
  PROVE  LET ev == TradeEvents(m, n, l, id)
         IN  /\ ev \in Seq(Contents(ev))
             /\ ClashFree(ev)
             /\ \A e \in Contents(ev) : TradeEvent(e, m, n, l, id)
<1> DEFINE event(type, i, delta, row) ==
             [type |-> type, user |-> l.user, order |-> id, pos |-> i,
              delta |-> delta, row |-> row]
           total  == n.bal[l.user] - m.bal[l.user]
           opened == DOMAIN n.pos \ DOMAIN m.pos
           less   == {i \in DOMAIN m.pos : /\ m.pos[i].side # l.side
                                           /\ i \in DOMAIN n.pos => n.pos[i] # m.pos[i]}
           more   == {i \in DOMAIN m.pos \cap DOMAIN n.pos :
                        m.pos[i].side = l.side /\ n.pos[i] # m.pos[i]}
           back   == SumFunctionOnSet([i \in DOMAIN m.pos |->
                                    LET cr == CalcReduce(m.pos[i], l.price, l.qty)
                                    IN  cr.margin + cr.net], less)
           R == {IF i \in DOMAIN n.pos
                 THEN event("reduce", i, back,
                            [qty |-> n.pos[i].qty, margin |-> n.pos[i].margin])
                 ELSE event("close", i, back, [state |-> "Closed"]) : i \in less}
           I == {event("increase", i, total, << >>) : i \in more}
           O == {event("open", i, total - back, n.pos[i]) : i \in opened}
           ev == TradeEvents(m, n, l, id)
<1>1. CASE l.user \notin Users
  <2>1. ev = <<>>
    BY <1>1 DEF TradeEvents
  <2>2. <<>> \in Seq(Contents(<<>>)) /\ Contents(<<>>) = {} /\ ClashFree(<<>>)
    BY DEF Contents, ClashFree
  <2> HIDE DEF ev
  <2> QED
    BY <2>1, <2>2 DEF ev
<1>2. CASE l.user \in Users
  <2>1. ev = SetToSeq(R) \o SetToSeq(I) \o SetToSeq(O)
    BY <1>2, Zenon DEF TradeEvents
  <2>2. /\ m.lastPos \in Nat /\ DOMAIN m.pos \subseteq 1 .. m.lastPos
        /\ n.lastPos \in Nat /\ DOMAIN n.pos \subseteq 1 .. n.lastPos
    BY DEF Sound, KeepsOwners
  <2>3. IsFiniteSet(less) /\ IsFiniteSet(more) /\ IsFiniteSet(opened)
    <3>1. IsFiniteSet(1 .. m.lastPos) /\ IsFiniteSet(1 .. n.lastPos)
      <4>1. \A k \in Nat : k \in Int /\ 1 \in Int
        OBVIOUS
      <4>2. \A k \in Nat : IsFiniteSet(1 .. k)
        BY <4>1, FS_Interval
      <4> QED
        BY <2>2, <4>2
    <3> QED
      BY <2>2, <3>1, FS_Subset
  <2>4. \A i \in less \cup more : m.pos[i].user = l.user
    BY DEF OwnOnly
  <2>5. /\ \A e \in R : TradeEvent(e, m, n, l, id) /\ e.type # "open"
        /\ \A e \in I : TradeEvent(e, m, n, l, id) /\ e.type # "open"
        /\ \A e \in O : TradeEvent(e, m, n, l, id) /\ e.type = "open"
        /\ \A d, e \in O : d.pos = e.pos => d = e
    <3>1. ASSUME NEW e \in R
          PROVE  TradeEvent(e, m, n, l, id) /\ e.type # "open"
      <4>1. PICK i \in less : e = IF i \in DOMAIN n.pos
                 THEN event("reduce", i, back,
                            [qty |-> n.pos[i].qty, margin |-> n.pos[i].margin])
                 ELSE event("close", i, back, [state |-> "Closed"])
        BY Zenon
      <4>2. e.user = l.user /\ e.order = id /\ e.pos = i /\ e.type \in {"reduce", "close"}
        BY <4>1
      <4>3. i \in DOMAIN m.pos
        OBVIOUS
      <4> QED
        BY <1>2, <2>4, <4>2, <4>3 DEF TradeEvent
    <3>2. ASSUME NEW e \in I
          PROVE  TradeEvent(e, m, n, l, id) /\ e.type # "open"
      <4>1. PICK i \in more : e = event("increase", i, total, << >>)
        BY Zenon
      <4>2. e.user = l.user /\ e.order = id /\ e.pos = i /\ e.type = "increase"
        BY <4>1
      <4>3. i \in DOMAIN m.pos
        OBVIOUS
      <4> QED
        BY <1>2, <2>4, <4>2, <4>3 DEF TradeEvent
    <3>3. ASSUME NEW e \in O
          PROVE  TradeEvent(e, m, n, l, id) /\ e.type = "open"
      <4>1. PICK i \in opened : e = event("open", i, total - back, n.pos[i])
        BY Zenon
      <4>2. e.user = l.user /\ e.order = id /\ e.pos = i /\ e.type = "open" /\ e.row = n.pos[i]
        BY <4>1
      <4> QED
        BY <1>2, <4>2 DEF TradeEvent
    <3>4. ASSUME NEW d \in O, NEW e \in O, d.pos = e.pos
          PROVE  d = e
      <4>1. PICK i \in opened : d = event("open", i, total - back, n.pos[i])
        BY Zenon
      <4>2. PICK j \in opened : e = event("open", j, total - back, n.pos[j])
        BY Zenon
      <4>3. i = j
        BY <3>4, <4>1, <4>2
      <4> QED
        BY <4>1, <4>2, <4>3
    <3> QED
      BY <3>1, <3>2, <3>3, <3>4
  <2>6. IsFiniteSet(R) /\ IsFiniteSet(I) /\ IsFiniteSet(O)
    <3> DEFINE fr == [i \in less |-> IF i \in DOMAIN n.pos
                        THEN event("reduce", i, back,
                                   [qty |-> n.pos[i].qty, margin |-> n.pos[i].margin])
                        ELSE event("close", i, back, [state |-> "Closed"])]
               fi == [i \in more |-> event("increase", i, total, << >>)]
               fo == [i \in opened |-> event("open", i, total - back, n.pos[i])]
    <3>1. R = {fr[i] : i \in less} /\ I = {fi[i] : i \in more} /\ O = {fo[i] : i \in opened}
      OBVIOUS
    <3>2. /\ fr = [i \in less |-> fr[i]] /\ fi = [i \in more |-> fi[i]]
          /\ fo = [i \in opened |-> fo[i]]
      OBVIOUS
    <3> HIDE DEF fr, fi, fo, R, I, O, less, more, opened
    <3> QED
      BY <2>3, <3>1, <3>2, FiniteRange
  <2> HIDE DEF R, I, O, ev
  <2> DEFINE r == SetToSeq(R)
             i == SetToSeq(I)
             o == SetToSeq(O)
  <2>7. /\ r \in Seq(Contents(r)) /\ i \in Seq(Contents(i)) /\ o \in Seq(Contents(o))
        /\ Contents(r) \subseteq R /\ Contents(i) \subseteq I /\ Contents(o) \subseteq O
        /\ \A a, b \in DOMAIN o : o[a] = o[b] => a = b
    <3>1. r \in Seq(R) /\ i \in Seq(I) /\ o \in Seq(O)
      BY <2>6, SeqOfSet
    <3>2. \A a, b \in DOMAIN o : o[a] = o[b] => a = b
      BY <2>6, SeqOfSet
    <3> HIDE DEF r, i, o
    <3>3. r \in Seq(Contents(r)) /\ i \in Seq(Contents(i)) /\ o \in Seq(Contents(o))
      BY <3>1, SeqOfContents
    <3>4. Contents(r) \subseteq R /\ Contents(i) \subseteq I /\ Contents(o) \subseteq O
      BY <3>1 DEF Contents
    <3> QED
      BY <3>2, <3>3, <3>4
  <2> HIDE DEF r, i, o
  <2>8. ev = r \o i \o o
    BY <2>1 DEF r, i, o
  <2>9. ClashFree(r) /\ ClashFree(i) /\ ClashFree(o)
    <3>1. ASSUME NEW a \in DOMAIN r, NEW b \in DOMAIN r, Clash(r[a], r[b]) PROVE FALSE
      BY <2>5, <2>7, <3>1 DEF Contents, Clash, TradeEvent
    <3>2. ASSUME NEW a \in DOMAIN i, NEW b \in DOMAIN i, Clash(i[a], i[b]) PROVE FALSE
      BY <2>5, <2>7, <3>2 DEF Contents, Clash, TradeEvent
    <3>3. ASSUME NEW a \in DOMAIN o, NEW b \in DOMAIN o, Clash(o[a], o[b]) PROVE a = b
      BY <2>5, <2>7, <3>3 DEF Contents, Clash, TradeEvent
    <3> QED
      BY <3>1, <3>2, <3>3 DEF ClashFree
  <2>10. /\ r \o i \in Seq(Contents(r \o i)) /\ Contents(r \o i) = Contents(r) \cup Contents(i)
         /\ ClashFree(r \o i)
    <3>1. \A d \in Contents(r), e \in Contents(i) : ~Clash(d, e)
      BY <2>5, <2>7 DEF Clash, TradeEvent
    <3> QED
      BY <2>7, <2>9, <3>1, JoinedContents
  <2>11. /\ ev \in Seq(Contents(ev))
         /\ Contents(ev) = Contents(r) \cup Contents(i) \cup Contents(o)
         /\ ClashFree(ev)
    <3>1. \A d \in Contents(r \o i), e \in Contents(o) : ~Clash(d, e)
      BY <2>5, <2>7, <2>10 DEF Clash, TradeEvent
    <3>2. /\ (r \o i) \o o \in Seq(Contents((r \o i) \o o))
          /\ Contents((r \o i) \o o) = Contents(r \o i) \cup Contents(o)
          /\ ClashFree((r \o i) \o o)
      BY <2>7, <2>9, <2>10, <3>1, JoinedContents
    <3>3. ev = (r \o i) \o o
      BY <2>8
    <3> HIDE DEF ev
    <3> QED
      BY <2>10, <3>2, <3>3
  <2> QED
    BY <2>5, <2>7, <2>11 DEF ev
<1> QED
  BY <1>1, <1>2

-----------------------------------------------------------------------------
(* Orders: who names which ID.                                             *)

\* The events on their way.
OnWay == Waiting(queue, hand)

CreateWaits(w, i) == \E e \in w : e.type = "create" /\ e.order = i
CancelWaits(w, i) == \E e \in w : e.type = "cancel" /\ e.order = i

\* A call that has drawn the ID of its order and not told the settler yet.
Placing(t) ==
  \/ calls[t].pc \in {"market", "limit", "filled", "close"}
  \/ calls[t].pc = "resting" /\ t \notin sent

Cancelling(t) == calls[t].pc \in {"cancel", "unfreeze", "uncache"}

Bearing(t) == Placing(t) \/ t \in sent \/ Cancelling(t)

\* Order i is said to be of u.
Named(i, u) ==
  \/ i \in DOMAIN cached /\ cached[i].user = u
  \/ i \in DOMAIN db.orders /\ db.orders[i].user = u
  \/ \E e \in OnWay : e.type \in {"create", "cancel"} /\ e.order = i /\ e.user = u
  \/ \E t \in Threads : Bearing(t) /\ calls[t].id = i /\ calls[t].user = u

\* The database has order i of u pending, or will have it.
Stands(rows, w, i, u) ==
  \/ /\ i \in DOMAIN rows
     /\ rows[i].user = u /\ rows[i].status = "pending"
  \/ \E e \in w : /\ e.type = "create" /\ e.order = i
                      /\ e.user = u /\ e.row.status = "pending"

\* The calls are records with the fields of Idle.
CallsOK ==
  /\ calls = [t \in AllThreads |-> calls[t]]
  /\ \A t \in AllThreads : /\ DOMAIN calls[t] = DOMAIN Idle
                           /\ calls[t] = [x \in DOMAIN Idle |-> calls[t][x]]

\* No ID is drawn twice, and everything said about an order names one user.
NamesOK ==
  /\ nextID \in Nat
  /\ \A i, u : Named(i, u) => i \in 1 .. nextID
  /\ \A i, u, v : Named(i, u) /\ Named(i, v) => u = v

RowsOK ==
  /\ {"bal", "frozen", "orders", "pos"} \subseteq DOMAIN db
  /\ \A i \in DOMAIN db.orders : {"user", "status"} \subseteq DOMAIN db.orders[i]
  /\ \A e \in OnWay : e.type = "create" =>
       /\ e.order \notin DOMAIN db.orders
       /\ {"user", "status"} \subseteq DOMAIN e.row /\ e.row.user = e.user
  /\ \A e \in OnWay : e.type = "cancel" => e.row.status = "canceled"

\* Nobody else has heard of the order of a call that has not told the settler,
\* and only the settler of one that has and is about to cache it.
HoldersOK ==
  /\ sent \subseteq Threads
  /\ \A t \in sent : calls[t].pc = "resting"
  /\ \A t \in Threads : Placing(t) \/ t \in sent =>
       /\ calls[t].id \notin DOMAIN cached
       /\ ~CancelWaits(OnWay, calls[t].id)
       /\ \A r \in Threads : Bearing(r) /\ calls[r].id = calls[t].id => r = t
  /\ \A t \in Threads : Placing(t) =>
       calls[t].id \notin DOMAIN db.orders /\ ~CreateWaits(OnWay, calls[t].id)
  /\ \A t \in sent : calls[t].user \notin apart =>
       Stands(db.orders, OnWay, calls[t].id, calls[t].user)

\* A user none of whose events was rolled back can cancel the orders the
\* database has pending, or will have.
CachedOK ==
  \A i, u : u \in Users /\ u \notin apart =>
    (i \in DOMAIN cached /\ cached[i].user = u
       <=> /\ Stands(db.orders, OnWay, i, u) /\ ~CancelWaits(OnWay, i)
           /\ \A t \in sent : calls[t].id # i)

OrdersInv == NamesOK /\ RowsOK /\ HoldersOK /\ CachedOK

LEMMA SameOrders ==
  ASSUME OrdersInv, cached' = cached, db'.orders = db.orders,
         {"bal", "frozen", "orders", "pos"} \subseteq DOMAIN db',
         OnWay' = OnWay, nextID' = nextID, calls' = calls, sent' = sent, apart' = apart
  PROVE  OrdersInv'
<1>1. /\ \A t : Placing(t)' = Placing(t)
      /\ \A t : Bearing(t)' = Bearing(t)
  BY DEF Placing, Cancelling, Bearing
<1>2. \A i, u : Named(i, u)' = Named(i, u)
  BY <1>1 DEF Named
<1>3. NamesOK'
  BY <1>2 DEF OrdersInv, NamesOK
<1>4. RowsOK'
  BY DEF OrdersInv, RowsOK
<1>5. HoldersOK'
  BY <1>1 DEF OrdersInv, HoldersOK
<1>6. CachedOK'
  BY DEF OrdersInv, CachedOK
<1> QED
  BY <1>3, <1>4, <1>5, <1>6 DEF OrdersInv

LEMMA ThreadsAre == Threads \subseteq AllThreads
  BY DEF AllThreads

\* One thread goes on.
LEMMA CallsGo ==
  ASSUME CallsOK, NEW t \in Threads, NEW d, DOMAIN d = DOMAIN Idle,
         d = [x \in DOMAIN Idle |-> d[x]], calls' = [calls EXCEPT ![t] = d]
  PROVE  /\ CallsOK'
         /\ calls'[t] = d
         /\ \A r \in Threads : r # t => calls'[r] = calls[r]
<1>1. t \in AllThreads
  BY ThreadsAre
<1>2. calls' = [r \in AllThreads |-> IF r = t THEN d ELSE calls[r]]
  BY DEF CallsOK
<1>3. \A r \in AllThreads : calls'[r] = IF r = t THEN d ELSE calls[r]
  BY <1>2
<1>4. CallsOK'
  BY <1>2, <1>3 DEF CallsOK
<1> QED
  BY <1>1, <1>3, <1>4, ThreadsAre

\* A call starts, goes on or ends, and the settler hears of trades at most.
LEMMA CallOrders ==
  ASSUME OrdersInv, CallsOK, NEW t \in Threads, NEW d, DOMAIN d = DOMAIN Idle,
         d = [x \in DOMAIN Idle |-> d[x]], calls' = [calls EXCEPT ![t] = d],
         cached' = cached, sent' = sent, apart' = apart,
         db' = db, OnWay \subseteq OnWay',
         \A e \in OnWay' : e \in OnWay \/ e.type \notin {"create", "cancel"},
         t \notin sent,
         nextID' \in Nat, nextID' >= nextID,
         \/ d.pc \in {"idle", "legs", "reopen"}
         \/ /\ d.pc \in {"market", "limit", "filled", "close", "resting"}
            /\ \/ Placing(t) /\ d.id = calls[t].id /\ d.user = calls[t].user
               \/ d.id = nextID + 1 /\ nextID' = nextID + 1
         \/ /\ d.pc \in {"cancel", "unfreeze", "uncache"}
            /\ \/ Cancelling(t) /\ d.id = calls[t].id /\ d.user = calls[t].user
               \/ d.id \in DOMAIN cached /\ d.user = cached[d.id].user
  PROVE  OrdersInv'
<1>1. calls'[t] = d /\ \A r \in Threads : r # t => calls'[r] = calls[r]
  BY CallsGo
<1>2. \A r \in Threads : r # t => /\ Placing(r)' = Placing(r)
                                  /\ Cancelling(r)' = Cancelling(r)
                                  /\ Bearing(r)' = Bearing(r)
                                  /\ calls'[r] = calls[r]
  BY <1>1 DEF Placing, Cancelling, Bearing
<1>3. /\ \A i : CreateWaits(OnWay', i) = CreateWaits(OnWay, i)
      /\ \A i : CancelWaits(OnWay', i) = CancelWaits(OnWay, i)
      /\ \A i, u : Stands(db'.orders, OnWay', i, u) = Stands(db.orders, OnWay, i, u)
  BY DEF CreateWaits, CancelWaits, Stands
<1>4. ASSUME Placing(t)'
      PROVE  /\ calls'[t].id = d.id
             /\ \/ Placing(t) /\ d.id = calls[t].id /\ d.user = calls[t].user
                \/ d.id = nextID + 1 /\ nextID' = nextID + 1
  BY <1>1, <1>4 DEF Placing
<1>5. ASSUME Cancelling(t)'
      PROVE  /\ calls'[t].id = d.id
             /\ \/ Cancelling(t) /\ d.id = calls[t].id /\ d.user = calls[t].user
                \/ d.id \in DOMAIN cached /\ d.user = cached[d.id].user
  BY <1>1, <1>5 DEF Cancelling
<1>6. ASSUME NEW i, NEW u, Named(i, u)'
      PROVE  Named(i, u) \/ (i = nextID + 1 /\ nextID' = nextID + 1 /\ u = d.user)
  <2>1. CASE i \in DOMAIN cached /\ cached[i].user = u
    BY <2>1 DEF Named
  <2>2. CASE i \in DOMAIN db.orders /\ db.orders[i].user = u
    BY <2>2 DEF Named
  <2>3. CASE \E e \in OnWay' : e.type \in {"create", "cancel"} /\ e.order = i /\ e.user = u
    BY <2>3 DEF Named
  <2>4. ASSUME NEW r \in Threads, Bearing(r)', calls'[r].id = i, calls'[r].user = u
        PROVE  Named(i, u) \/ (i = nextID + 1 /\ nextID' = nextID + 1 /\ u = d.user)
    <3>1. CASE r # t
      BY <1>2, <2>4, <3>1 DEF Named
    <3>2. CASE r = t
      <4>1. Placing(t)' \/ Cancelling(t)'
        BY <2>4, <3>2 DEF Bearing
      <4> QED
        BY <1>1, <1>4, <1>5, <2>4, <3>2, <4>1 DEF Named, Bearing
    <3> QED
      BY <3>1, <3>2
  <2> QED
    BY <1>6, <2>1, <2>2, <2>3, <2>4 DEF Named
<1>7. NamesOK'
  <2>1. nextID \in Nat /\ \A i, u : Named(i, u) => i \in 1 .. nextID
    BY DEF OrdersInv, NamesOK
  <2>2. ASSUME NEW i, NEW u, Named(i, u)'
        PROVE  i \in 1 .. nextID'
    <3>1. i \in 1 .. nextID \/ (i = nextID + 1 /\ nextID' = nextID + 1)
      BY <1>6, <2>1, <2>2
    <3> QED
      BY <2>1, <3>1
  <2>3. ASSUME NEW i, NEW u, NEW v, Named(i, u)', Named(i, v)'
        PROVE  u = v
    <3>1. CASE i = nextID + 1
      <4>1. ~Named(i, u) /\ ~Named(i, v)
        BY <2>1, <3>1
      <4> QED
        BY <1>6, <2>3, <4>1
    <3>2. CASE i # nextID + 1
      BY <1>6, <2>3, <3>2 DEF OrdersInv, NamesOK
    <3> QED
      BY <3>1, <3>2
  <2> QED
    BY <2>2, <2>3 DEF NamesOK
<1>8. RowsOK'
  BY DEF OrdersInv, RowsOK
<1>9. ASSUME d.id = nextID + 1
      PROVE  /\ d.id \notin DOMAIN cached /\ d.id \notin DOMAIN db.orders
             /\ ~CancelWaits(OnWay, d.id) /\ ~CreateWaits(OnWay, d.id)
             /\ \A r \in Threads : Bearing(r) => calls[r].id # d.id
  <2>1. \A u : ~Named(d.id, u)
    BY <1>9 DEF OrdersInv, NamesOK
  <2> QED
    BY <2>1 DEF Named, CancelWaits, CreateWaits
<1>10. HoldersOK'
  <2>1. sent' \subseteq Threads /\ \A r \in sent' : calls'[r].pc = "resting"
    BY <1>1 DEF OrdersInv, HoldersOK
  <2>2. ASSUME NEW r \in Threads, Placing(r)' \/ r \in sent'
        PROVE  /\ calls'[r].id \notin DOMAIN cached'
               /\ ~CancelWaits(OnWay', calls'[r].id)
    <3>1. CASE r # t
      BY <1>2, <1>3, <2>2, <3>1 DEF OrdersInv, HoldersOK
    <3>2. CASE r = t
      <4>1. CASE Placing(t) /\ d.id = calls[t].id
        BY <1>1, <1>3, <3>2, <4>1 DEF OrdersInv, HoldersOK
      <4> QED
        BY <1>1, <1>3, <1>4, <1>9, <2>2, <3>2, <4>1
    <3> QED
      BY <3>1, <3>2
  <2>3. ASSUME NEW r \in Threads, Placing(r)' \/ r \in sent',
               NEW s \in Threads, Bearing(s)', calls'[s].id = calls'[r].id
        PROVE  s = r
    <3>1. CASE r # t /\ s # t
      BY <1>2, <2>3, <3>1 DEF OrdersInv, HoldersOK
    <3>2. CASE r = t /\ s # t
      <4>1. Bearing(s) /\ calls[s].id = d.id
        BY <1>1, <1>2, <2>3, <3>2
      <4>2. CASE Placing(t) /\ d.id = calls[t].id
        BY <3>2, <4>1, <4>2 DEF OrdersInv, HoldersOK
      <4> QED
        BY <1>4, <1>9, <2>3, <3>2, <4>1, <4>2
    <3>3. CASE r # t /\ s = t
      <4>1. (Placing(r) \/ r \in sent) /\ calls[r].id = d.id /\ Bearing(r)
        BY <1>1, <1>2, <2>3, <3>3 DEF Bearing
      <4>2. Placing(t)' \/ Cancelling(t)'
        BY <2>3, <3>3 DEF Bearing
      <4>3. CASE (Placing(t) \/ Cancelling(t)) /\ d.id = calls[t].id
        BY <3>3, <4>1, <4>3 DEF OrdersInv, HoldersOK, Bearing
      <4>4. CASE d.id \in DOMAIN cached
        BY <4>1, <4>4 DEF OrdersInv, HoldersOK
      <4> QED
        BY <1>4, <1>5, <1>9, <4>1, <4>2, <4>3, <4>4
    <3> QED
      BY <3>1, <3>2, <3>3
  <2>4. ASSUME NEW r \in Threads, Placing(r)'
        PROVE  calls'[r].id \notin DOMAIN db'.orders /\ ~CreateWaits(OnWay', calls'[r].id)
    <3>1. CASE r # t
      BY <1>2, <1>3, <2>4, <3>1 DEF OrdersInv, HoldersOK
    <3>2. CASE r = t
      <4>1. CASE Placing(t) /\ d.id = calls[t].id
        BY <1>1, <1>3, <3>2, <4>1 DEF OrdersInv, HoldersOK
      <4> QED
        BY <1>1, <1>3, <1>4, <1>9, <2>4, <3>2, <4>1
    <3> QED
      BY <3>1, <3>2
  <2>5. ASSUME NEW r \in sent', calls'[r].user \notin apart'
        PROVE  Stands(db'.orders, OnWay', calls'[r].id, calls'[r].user)
    <3>1. r \in Threads /\ r # t
      BY DEF OrdersInv, HoldersOK
    <3> QED
      BY <1>2, <1>3, <2>5, <3>1 DEF OrdersInv, HoldersOK
  <2> QED
    BY <2>1, <2>2, <2>3, <2>4, <2>5 DEF HoldersOK
<1>11. CachedOK'
  <2>1. \A r \in sent : calls'[r].id = calls[r].id
    BY <1>1 DEF OrdersInv, HoldersOK
  <2> QED
    BY <1>3, <2>1 DEF OrdersInv, CachedOK
<1> QED
  BY <1>7, <1>8, <1>10, <1>11 DEF OrdersInv

\* The order of a market order, of a close or of a limit order filled at once
\* goes to the settler.
LEMMA FilledOrders ==
  ASSUME OrdersInv, CallsOK, NEW t \in Threads, NEW d, DOMAIN d = DOMAIN Idle,
         d = [x \in DOMAIN Idle |-> d[x]], calls' = [calls EXCEPT ![t] = d],
         d.pc \in {"idle", "legs", "reopen"},
         Placing(t), t \notin sent,
         cached' = cached, sent' = sent, apart' = apart, db' = db, nextID' = nextID,
         NEW e, e.type = "create", e.order = calls[t].id, e.user = calls[t].user,
         {"user", "status"} \subseteq DOMAIN e.row, e.row.user = e.user,
         e.row.status = "filled",
         OnWay' = OnWay \cup {e}
  PROVE  OrdersInv'
<1>1. calls'[t] = d /\ \A r \in Threads : r # t => calls'[r] = calls[r]
  BY CallsGo
<1>2. /\ \A r \in Threads : r # t => /\ Placing(r)' = Placing(r)
                                     /\ Bearing(r)' = Bearing(r)
                                     /\ calls'[r] = calls[r]
      /\ ~Bearing(t)' /\ ~Placing(t)' /\ Bearing(t)
  BY <1>1 DEF Placing, Cancelling, Bearing
<1>3. /\ \A i : CreateWaits(OnWay', i) <=> CreateWaits(OnWay, i) \/ i = calls[t].id
      /\ \A i : CancelWaits(OnWay', i) = CancelWaits(OnWay, i)
      /\ \A i, u : Stands(db'.orders, OnWay', i, u) = Stands(db.orders, OnWay, i, u)
  BY DEF CreateWaits, CancelWaits, Stands
<1>4. ASSUME NEW i, NEW u, Named(i, u)'
      PROVE  Named(i, u)
  <2>1. ASSUME NEW r \in Threads, Bearing(r)', calls'[r].id = i, calls'[r].user = u
        PROVE  Named(i, u)
    BY <1>2, <2>1 DEF Named
  <2>2. CASE i = calls[t].id /\ u = calls[t].user
    BY <1>2, <2>2 DEF Named
  <2> QED
    BY <1>4, <2>1, <2>2 DEF Named
<1>5. NamesOK'
  BY <1>4 DEF OrdersInv, NamesOK
<1>6. RowsOK'
  <2>1. calls[t].id \notin DOMAIN db.orders
    BY DEF OrdersInv, HoldersOK
  <2> QED
    BY <2>1 DEF OrdersInv, RowsOK
<1>7. HoldersOK'
  <2>1. \A r \in Threads : Placing(r) /\ r # t => calls[r].id # calls[t].id
    BY <1>2 DEF OrdersInv, HoldersOK
  <2>2. \A r \in sent : r \in Threads /\ r # t
    BY DEF OrdersInv, HoldersOK
  <2>3. sent' \subseteq Threads /\ \A r \in sent' : calls'[r].pc = "resting"
    BY <1>2, <2>2 DEF OrdersInv, HoldersOK
  <2>4. ASSUME NEW r \in Threads, Placing(r)' \/ r \in sent'
        PROVE  /\ calls'[r].id \notin DOMAIN cached'
               /\ ~CancelWaits(OnWay', calls'[r].id)
               /\ \A s \in Threads : Bearing(s)' /\ calls'[s].id = calls'[r].id => s = r
    <3>1. r # t /\ (Placing(r) \/ r \in sent) /\ calls'[r] = calls[r]
      BY <1>2, <2>2, <2>4
    <3>2. /\ calls[r].id \notin DOMAIN cached /\ ~CancelWaits(OnWay, calls[r].id)
          /\ \A s \in Threads : Bearing(s) /\ calls[s].id = calls[r].id => s = r
      BY <3>1 DEF OrdersInv, HoldersOK
    <3>3. \A s \in Threads : Bearing(s)' => Bearing(s) /\ calls'[s] = calls[s]
      BY <1>2
    <3> HIDE DEF OrdersInv
    <3> QED
      BY <1>3, <3>1, <3>2, <3>3
  <2>5. ASSUME NEW r \in Threads, Placing(r)'
        PROVE  calls'[r].id \notin DOMAIN db'.orders /\ ~CreateWaits(OnWay', calls'[r].id)
    BY <1>2, <1>3, <2>1, <2>5 DEF OrdersInv, HoldersOK
  <2>6. ASSUME NEW r \in sent', calls'[r].user \notin apart'
        PROVE  Stands(db'.orders, OnWay', calls'[r].id, calls'[r].user)
    <3>1. r \in sent /\ calls'[r] = calls[r] /\ calls[r].user \notin apart
      BY <1>2, <2>2, <2>6
    <3>2. Stands(db.orders, OnWay, calls[r].id, calls[r].user)
      BY <3>1 DEF OrdersInv, HoldersOK
    <3>3. Stands(db'.orders, OnWay', calls[r].id, calls[r].user)
      BY <1>3, <3>2, Zenon
    <3> QED
      BY <3>1, <3>3, Zenon
  <2> QED
    BY <2>3, <2>4, <2>5, <2>6 DEF HoldersOK
<1>8. CachedOK'
  <2>1. \A r \in sent : calls'[r].id = calls[r].id
    BY <1>1 DEF OrdersInv, HoldersOK
  <2> SUFFICES ASSUME NEW i, NEW u \in Users, u \notin apart'
               PROVE  i \in DOMAIN cached' /\ cached'[i].user = u
                        <=> /\ Stands(db'.orders, OnWay', i, u) /\ ~CancelWaits(OnWay', i)
                            /\ \A r \in sent' : calls'[r].id # i
    BY DEF CachedOK
  <2>2. i \in DOMAIN cached /\ cached[i].user = u
          <=> /\ Stands(db.orders, OnWay, i, u) /\ ~CancelWaits(OnWay, i)
              /\ \A r \in sent : calls[r].id # i
    BY DEF OrdersInv, CachedOK
  <2>3. Stands(db'.orders, OnWay', i, u) = Stands(db.orders, OnWay, i, u)
    BY <1>3
  <2>4. CancelWaits(OnWay', i) = CancelWaits(OnWay, i)
    BY <1>3
  <2>5. (\A r \in sent' : calls'[r].id # i) <=> (\A r \in sent : calls[r].id # i)
    BY <2>1
  <2> QED
    BY <2>2, <2>3, <2>4, <2>5
<1> QED
  BY <1>5, <1>6, <1>7, <1>8 DEF OrdersInv

\* A resting order goes to the settler.
LEMMA SentOrders ==
  ASSUME OrdersInv, NEW t \in Threads, calls[t].pc = "resting", t \notin sent,
         calls' = calls, sent' = sent \cup {t},
         cached' = cached, apart' = apart, db' = db, nextID' = nextID,
         NEW e, e.type = "create", e.order = calls[t].id, e.user = calls[t].user,
         {"user", "status"} \subseteq DOMAIN e.row, e.row.user = e.user,
         e.row.status = "pending",
         OnWay' = OnWay \cup {e}
  PROVE  OrdersInv'
<1>1. /\ \A r \in Threads : /\ Bearing(r)' = Bearing(r)
                            /\ Placing(r)' => Placing(r) /\ r # t
                            /\ r \in sent' => Placing(r) \/ r \in sent
      /\ Bearing(t) /\ Placing(t)
  BY DEF Placing, Cancelling, Bearing
<1>2. /\ \A i : CreateWaits(OnWay', i) <=> CreateWaits(OnWay, i) \/ i = calls[t].id
      /\ \A i : CancelWaits(OnWay', i) = CancelWaits(OnWay, i)
      /\ \A i, u : Stands(db'.orders, OnWay', i, u)
                     <=> Stands(db.orders, OnWay, i, u)
                           \/ (i = calls[t].id /\ u = calls[t].user)
  BY DEF CreateWaits, CancelWaits, Stands
<1>3. ASSUME NEW i, NEW u, Named(i, u)'
      PROVE  Named(i, u)
  BY <1>1, <1>3 DEF Named
<1>4. NamesOK'
  BY <1>3 DEF OrdersInv, NamesOK
<1>5. /\ calls[t].id \notin DOMAIN db.orders /\ calls[t].id \notin DOMAIN cached
      /\ \A r \in Threads : Bearing(r) /\ calls[r].id = calls[t].id => r = t
  BY <1>1 DEF OrdersInv, HoldersOK
<1>6. RowsOK'
  BY <1>5 DEF OrdersInv, RowsOK
<1>7. HoldersOK'
  <2>1. sent' \subseteq Threads /\ \A r \in sent' : calls'[r].pc = "resting"
    BY DEF OrdersInv, HoldersOK
  <2>2. ASSUME NEW r \in Threads, Placing(r)' \/ r \in sent'
        PROVE  /\ calls'[r].id \notin DOMAIN cached'
               /\ ~CancelWaits(OnWay', calls'[r].id)
               /\ \A s \in Threads : Bearing(s)' /\ calls'[s].id = calls'[r].id => s = r
    <3>1. Placing(r) \/ r \in sent
      BY <1>1, <2>2
    <3> QED
      BY <1>1, <1>2, <3>1 DEF OrdersInv, HoldersOK
  <2>3. ASSUME NEW r \in Threads, Placing(r)'
        PROVE  calls'[r].id \notin DOMAIN db'.orders /\ ~CreateWaits(OnWay', calls'[r].id)
    <3>1. Placing(r) /\ r # t /\ Bearing(r)
      BY <1>1, <2>3 DEF Bearing
    <3> QED
      BY <1>2, <1>5, <3>1 DEF OrdersInv, HoldersOK
  <2>4. \A r \in sent' : calls'[r].user \notin apart' =>
                           Stands(db'.orders, OnWay', calls'[r].id, calls'[r].user)
    BY <1>2 DEF OrdersInv, HoldersOK
  <2> QED
    BY <2>1, <2>2, <2>3, <2>4 DEF HoldersOK
<1>8. CachedOK'
  <2> SUFFICES ASSUME NEW i, NEW u \in Users, u \notin apart'
               PROVE  i \in DOMAIN cached' /\ cached'[i].user = u
                        <=> /\ Stands(db'.orders, OnWay', i, u) /\ ~CancelWaits(OnWay', i)
                            /\ \A r \in sent' : calls'[r].id # i
    BY DEF CachedOK
  <2>1. CASE i = calls[t].id
    BY <1>5, <2>1
  <2>2. CASE i # calls[t].id
    <3>1. i \in DOMAIN cached /\ cached[i].user = u
            <=> /\ Stands(db.orders, OnWay, i, u) /\ ~CancelWaits(OnWay, i)
                /\ \A r \in sent : calls[r].id # i
      BY DEF OrdersInv, CachedOK
    <3>2. (\A r \in sent' : calls'[r].id # i) <=> (\A r \in sent : calls[r].id # i)
      BY <2>2
    <3> QED
      BY <1>2, <2>2, <3>1, <3>2
  <2> QED
    BY <2>1, <2>2
<1> QED
  BY <1>4, <1>6, <1>7, <1>8 DEF OrdersInv

\* It goes to the order cache.
LEMMA RegisteredOrders ==
  ASSUME OrdersInv, CallsOK, NEW t \in sent, calls' = [calls EXCEPT ![t] = Idle],
         sent' = sent \ {t},
         apart' = apart, db' = db, nextID' = nextID, OnWay' = OnWay,
         NEW o, o.user = calls[t].user,
         cached' = [i \in DOMAIN cached \cup {calls[t].id} |->
                      IF i = calls[t].id THEN o ELSE cached[i]]
  PROVE  OrdersInv'
<1>1. t \in Threads /\ calls[t].pc = "resting" /\ Bearing(t)
  BY DEF OrdersInv, HoldersOK, Bearing
<1>2. calls'[t] = Idle /\ \A r \in Threads : r # t => calls'[r] = calls[r]
  <2>1. DOMAIN Idle = DOMAIN Idle /\ Idle = [x \in DOMAIN Idle |-> Idle[x]]
    BY DEF Idle
  <2> QED
    BY <1>1, <2>1, CallsGo
<1>3. /\ \A r \in Threads : r # t => /\ Placing(r)' = Placing(r)
                                     /\ Bearing(r)' = Bearing(r)
                                     /\ calls'[r] = calls[r]
      /\ ~Bearing(t)' /\ ~Placing(t)' /\ t \notin sent'
  BY <1>2 DEF Placing, Cancelling, Bearing, Idle
<1> DEFINE id == calls[t].id
<1>4. /\ id \notin DOMAIN cached /\ ~CancelWaits(OnWay, id)
      /\ \A r \in Threads : Bearing(r) /\ calls[r].id = id => r = t
      /\ calls[t].user \notin apart => Stands(db.orders, OnWay, id, calls[t].user)
      /\ Named(id, calls[t].user)
  BY <1>1 DEF OrdersInv, HoldersOK, Named
<1>5. /\ DOMAIN cached' = DOMAIN cached \cup {id} /\ cached'[id].user = calls[t].user
      /\ \A i \in DOMAIN cached : i # id /\ cached'[i] = cached[i]
  BY <1>4
<1> HIDE DEF id
<1>6. ASSUME NEW i, NEW u, Named(i, u)'
      PROVE  Named(i, u)
  <2>1. ASSUME NEW r \in Threads, Bearing(r)', calls'[r].id = i, calls'[r].user = u
        PROVE  Named(i, u)
    BY <1>3, <2>1 DEF Named
  <2>2. ASSUME i \in DOMAIN cached', cached'[i].user = u
        PROVE  Named(i, u)
    BY <1>4, <1>5, <2>2 DEF Named
  <2> QED
    BY <1>6, <2>1, <2>2 DEF Named
<1>7. NamesOK'
  BY <1>6 DEF OrdersInv, NamesOK
<1>8. RowsOK'
  BY DEF OrdersInv, RowsOK
<1>9. HoldersOK'
  <2>1. sent' \subseteq Threads /\ \A r \in sent' : r # t /\ calls'[r].pc = "resting"
    BY <1>3 DEF OrdersInv, HoldersOK
  <2>2. ASSUME NEW r \in Threads, Placing(r)' \/ r \in sent'
        PROVE  /\ calls'[r].id \notin DOMAIN cached'
               /\ ~CancelWaits(OnWay', calls'[r].id)
               /\ \A s \in Threads : Bearing(s)' /\ calls'[s].id = calls'[r].id => s = r
    <3>1. r # t /\ (Placing(r) \/ r \in sent) /\ Bearing(r)
      BY <1>3, <2>2 DEF Bearing
    <3>2. calls[r].id # id
      BY <1>4, <3>1
    <3> QED
      BY <1>3, <1>5, <3>1, <3>2 DEF OrdersInv, HoldersOK
  <2>3. ASSUME NEW r \in Threads, Placing(r)'
        PROVE  calls'[r].id \notin DOMAIN db'.orders /\ ~CreateWaits(OnWay', calls'[r].id)
    <3>1. r # t /\ Placing(r)
      BY <1>3, <2>3
    <3> QED
      BY <1>3, <3>1 DEF OrdersInv, HoldersOK
  <2>4. \A r \in sent' : calls'[r].user \notin apart' =>
                           Stands(db'.orders, OnWay', calls'[r].id, calls'[r].user)
    BY <1>3, <2>1 DEF OrdersInv, HoldersOK
  <2> QED
    BY <2>1, <2>2, <2>3, <2>4 DEF HoldersOK
<1>10. CachedOK'
  <2> SUFFICES ASSUME NEW i, NEW u \in Users, u \notin apart'
               PROVE  i \in DOMAIN cached' /\ cached'[i].user = u
                        <=> /\ Stands(db'.orders, OnWay', i, u) /\ ~CancelWaits(OnWay', i)
                            /\ \A r \in sent' : calls'[r].id # i
    BY DEF CachedOK
  <2>1. \A r \in sent : r \in Threads /\ Bearing(r)
    BY DEF OrdersInv, HoldersOK, Bearing
  <2>2. \A r \in sent' : r # t /\ calls'[r].id = calls[r].id /\ calls[r].id # id
    BY <1>3, <1>4, <2>1
  <2>3. CASE i = id
    <3>1. Stands(db.orders, OnWay, id, u) => u = calls[t].user
      <4>1. Stands(db.orders, OnWay, id, u) => Named(id, u)
        BY DEF Stands, Named
      <4> QED
        BY <1>4, <4>1 DEF OrdersInv, NamesOK
    <3> QED
      BY <1>4, <1>5, <2>2, <2>3, <3>1
  <2>4. CASE i # id
    <3>1. (\A r \in sent' : calls'[r].id # i) <=> (\A r \in sent : calls[r].id # i)
      BY <2>2, <2>4 DEF id
    <3> QED
      BY <1>5, <2>4, <3>1 DEF OrdersInv, CachedOK
  <2> QED
    BY <2>3, <2>4
<1> QED
  BY <1>7, <1>8, <1>9, <1>10 DEF OrdersInv

\* A cancelled order leaves the cache, and the settler is told.
LEMMA CancelledOrders ==
  ASSUME OrdersInv, CallsOK, NEW t \in Threads, Cancelling(t), t \notin sent,
         calls' = [calls EXCEPT ![t] = Idle],
         cached' = Restrict(cached, DOMAIN cached \ {calls[t].id}),
         sent' = sent, apart' = apart, db' = db, nextID' = nextID,
         NEW e, e.type = "cancel", e.order = calls[t].id, e.user = calls[t].user,
         e.row.status = "canceled",
         OnWay' = OnWay \cup {e}
  PROVE  OrdersInv'
<1>1. calls'[t] = Idle /\ \A r \in Threads : r # t => calls'[r] = calls[r]
  <2>1. DOMAIN Idle = DOMAIN Idle /\ Idle = [x \in DOMAIN Idle |-> Idle[x]]
    BY DEF Idle
  <2> QED
    BY <2>1, CallsGo
<1>2. /\ \A r \in Threads : r # t => /\ Placing(r)' = Placing(r)
                                     /\ Bearing(r)' = Bearing(r)
                                     /\ calls'[r] = calls[r]
      /\ ~Bearing(t)' /\ ~Placing(t)' /\ Bearing(t)
  BY <1>1 DEF Placing, Cancelling, Bearing, Idle
<1> DEFINE id == calls[t].id
<1>3. /\ \A i : CreateWaits(OnWay', i) = CreateWaits(OnWay, i)
      /\ \A i : CancelWaits(OnWay', i) <=> CancelWaits(OnWay, i) \/ i = id
      /\ \A i, u : Stands(db'.orders, OnWay', i, u) = Stands(db.orders, OnWay, i, u)
  BY DEF CreateWaits, CancelWaits, Stands
<1>4. /\ DOMAIN cached' = DOMAIN cached \ {id}
      /\ \A i \in DOMAIN cached' : cached'[i] = cached[i]
  BY DEF Restrict
<1>5. ASSUME NEW i, NEW u, Named(i, u)'
      PROVE  Named(i, u)
  <2>1. ASSUME NEW r \in Threads, Bearing(r)', calls'[r].id = i, calls'[r].user = u
        PROVE  Named(i, u)
    BY <1>2, <2>1 DEF Named
  <2>2. CASE i = calls[t].id /\ u = calls[t].user
    BY <1>2, <2>2 DEF Named
  <2> QED
    BY <1>4, <1>5, <2>1, <2>2 DEF Named
<1>6. NamesOK'
  BY <1>5 DEF OrdersInv, NamesOK
<1>7. RowsOK'
  BY DEF OrdersInv, RowsOK
<1>8. \A r \in Threads : Placing(r) \/ r \in sent => r # t /\ calls[r].id # id
  <2>1. \A r \in Threads : Placing(r) \/ r \in sent => r # t
    BY DEF Placing, Cancelling
  <2> QED
    BY <1>2, <2>1 DEF OrdersInv, HoldersOK
<1> HIDE DEF id
<1>9. HoldersOK'
  <2>1. \A r \in sent : r \in Threads /\ r # t
    BY DEF OrdersInv, HoldersOK
  <2>2. sent' \subseteq Threads /\ \A r \in sent' : calls'[r].pc = "resting"
    BY <1>2, <2>1 DEF OrdersInv, HoldersOK
  <2>3. ASSUME NEW r \in Threads, Placing(r)' \/ r \in sent'
        PROVE  /\ calls'[r].id \notin DOMAIN cached'
               /\ ~CancelWaits(OnWay', calls'[r].id)
               /\ \A s \in Threads : Bearing(s)' /\ calls'[s].id = calls'[r].id => s = r
    <3>1. r # t /\ (Placing(r) \/ r \in sent) /\ calls'[r] = calls[r]
      BY <1>2, <2>1, <2>3
    <3>2. /\ calls[r].id \notin DOMAIN cached /\ ~CancelWaits(OnWay, calls[r].id)
          /\ \A s \in Threads : Bearing(s) /\ calls[s].id = calls[r].id => s = r
      BY <3>1 DEF OrdersInv, HoldersOK
    <3>3. \A s \in Threads : Bearing(s)' => Bearing(s) /\ calls'[s] = calls[s]
      BY <1>2
    <3>4. calls[r].id # id
      BY <1>8, <3>1
    <3> HIDE DEF OrdersInv
    <3> QED
      BY <1>3, <1>4, <3>1, <3>2, <3>3, <3>4
  <2>4. ASSUME NEW r \in Threads, Placing(r)'
        PROVE  calls'[r].id \notin DOMAIN db'.orders /\ ~CreateWaits(OnWay', calls'[r].id)
    BY <1>2, <1>3, <2>4 DEF OrdersInv, HoldersOK
  <2>5. ASSUME NEW r \in sent', calls'[r].user \notin apart'
        PROVE  Stands(db'.orders, OnWay', calls'[r].id, calls'[r].user)
    <3>1. r \in sent /\ calls'[r] = calls[r] /\ calls[r].user \notin apart
      BY <1>2, <2>1, <2>5
    <3>2. Stands(db.orders, OnWay, calls[r].id, calls[r].user)
      BY <3>1 DEF OrdersInv, HoldersOK
    <3>3. Stands(db'.orders, OnWay', calls[r].id, calls[r].user)
      BY <1>3, <3>2, Zenon
    <3> QED
      BY <3>1, <3>3, Zenon
  <2> QED
    BY <2>2, <2>3, <2>4, <2>5 DEF HoldersOK
<1>10. CachedOK'
  <2>1. \A r \in sent : calls'[r].id = calls[r].id
    BY <1>1 DEF OrdersInv, HoldersOK
  <2> SUFFICES ASSUME NEW i, NEW u \in Users, u \notin apart'
               PROVE  i \in DOMAIN cached' /\ cached'[i].user = u
                        <=> /\ Stands(db'.orders, OnWay', i, u) /\ ~CancelWaits(OnWay', i)
                            /\ \A r \in sent' : calls'[r].id # i
    BY DEF CachedOK
  <2>2. i \in DOMAIN cached /\ cached[i].user = u
          <=> /\ Stands(db.orders, OnWay, i, u) /\ ~CancelWaits(OnWay, i)
              /\ \A r \in sent : calls[r].id # i
    BY DEF OrdersInv, CachedOK
  <2>3. CASE i = id
    BY <1>3, <1>4, <2>3
  <2>4. CASE i # id
    <3>1. /\ Stands(db'.orders, OnWay', i, u) = Stands(db.orders, OnWay, i, u)
          /\ CancelWaits(OnWay', i) <=> CancelWaits(OnWay, i)
      BY <1>3, <2>4
    <3>2. i \in DOMAIN cached' /\ cached'[i].user = u <=> i \in DOMAIN cached /\ cached[i].user = u
      BY <1>4, <2>4
    <3>3. (\A r \in sent' : calls'[r].id # i) <=> (\A r \in sent : calls[r].id # i)
      BY <2>1
    <3> QED
      BY <2>2, <3>1, <3>2, <3>3
  <2> QED
    BY <2>3, <2>4
<1> QED
  BY <1>6, <1>7, <1>9, <1>10 DEF OrdersInv

-----------------------------------------------------------------------------
(* Orders in the database.                                                 *)

\* An event is rolled back.
LEMMA LostOrders ==
  ASSUME OrdersInv, NEW e, e \in OnWay, OnWay' \subseteq OnWay, OnWay \subseteq OnWay' \cup {e},
         cached' = cached, sent' = sent, apart' = apart \cup {e.user}, db' = db,
         nextID' = nextID, calls' = calls
  PROVE  OrdersInv'
<1>1. /\ \A r : Placing(r)' = Placing(r)
      /\ \A r : Bearing(r)' = Bearing(r)
  BY DEF Placing, Cancelling, Bearing
<1>2. /\ \A i : CreateWaits(OnWay', i) => CreateWaits(OnWay, i)
      /\ \A i : CancelWaits(OnWay', i) => CancelWaits(OnWay, i)
      /\ \A i, u : Stands(db'.orders, OnWay', i, u) => Stands(db.orders, OnWay, i, u)
      /\ \A i, u : Stands(db.orders, OnWay, i, u) /\ u # e.user
                     => Stands(db'.orders, OnWay', i, u)
      /\ \A i : CancelWaits(OnWay, i) =>
           CancelWaits(OnWay', i) \/ (e.type = "cancel" /\ e.order = i)
  BY DEF CreateWaits, CancelWaits, Stands
<1>3. \A i, u : Named(i, u)' => Named(i, u)
  BY <1>1 DEF Named
<1>4. NamesOK'
  BY <1>3 DEF OrdersInv, NamesOK
<1>5. RowsOK'
  BY DEF OrdersInv, RowsOK
<1>6. HoldersOK'
  <2>1. sent' \subseteq Threads /\ \A r \in sent' : calls'[r].pc = "resting"
    BY DEF OrdersInv, HoldersOK
  <2>2. ASSUME NEW r \in Threads, Placing(r)' \/ r \in sent'
        PROVE  /\ calls'[r].id \notin DOMAIN cached'
               /\ ~CancelWaits(OnWay', calls'[r].id)
               /\ \A s \in Threads : Bearing(s)' /\ calls'[s].id = calls'[r].id => s = r
    BY <1>1, <1>2, <2>2 DEF OrdersInv, HoldersOK
  <2>3. ASSUME NEW r \in Threads, Placing(r)'
        PROVE  calls'[r].id \notin DOMAIN db'.orders /\ ~CreateWaits(OnWay', calls'[r].id)
    BY <1>1, <1>2, <2>3 DEF OrdersInv, HoldersOK
  <2>4. ASSUME NEW r \in sent', calls'[r].user \notin apart'
        PROVE  Stands(db'.orders, OnWay', calls'[r].id, calls'[r].user)
    BY <1>2, <2>4 DEF OrdersInv, HoldersOK
  <2> QED
    BY <2>1, <2>2, <2>3, <2>4 DEF HoldersOK
<1>7. CachedOK'
  <2> SUFFICES ASSUME NEW i, NEW u \in Users, u \notin apart'
               PROVE  i \in DOMAIN cached' /\ cached'[i].user = u
                        <=> /\ Stands(db'.orders, OnWay', i, u) /\ ~CancelWaits(OnWay', i)
                            /\ \A r \in sent' : calls'[r].id # i
    BY DEF CachedOK
  <2>1. i \in DOMAIN cached /\ cached[i].user = u
          <=> /\ Stands(db.orders, OnWay, i, u) /\ ~CancelWaits(OnWay, i)
              /\ \A r \in sent : calls[r].id # i
    BY DEF OrdersInv, CachedOK
  <2>2. u # e.user /\ (Stands(db'.orders, OnWay', i, u) <=> Stands(db.orders, OnWay, i, u))
    BY <1>2
  <2>3. Stands(db.orders, OnWay, i, u) => (CancelWaits(OnWay', i) <=> CancelWaits(OnWay, i))
    <3>1. Stands(db.orders, OnWay, i, u) => Named(i, u)
      BY DEF Stands, Named
    <3>2. e.type = "cancel" /\ e.order = i => Named(i, e.user)
      BY DEF Named
    <3>3. ~(Named(i, u) /\ Named(i, e.user))
      BY <2>2 DEF OrdersInv, NamesOK
    <3> QED
      BY <1>2, <3>1, <3>2, <3>3
  <2> QED
    BY <2>1, <2>2, <2>3
<1> QED
  BY <1>4, <1>5, <1>6, <1>7 DEF OrdersInv

\* What Settled does to the orders.
LEMMA SettledRows ==
  ASSUME NEW d, NEW e,
         \A i \in DOMAIN d.orders : {"user", "status"} \subseteq DOMAIN d.orders[i]
  PROVE  LET n == Settled(d, e).orders
         IN  /\ e.type = "create" => /\ DOMAIN n = DOMAIN d.orders \cup {e.order}
                                     /\ n[e.order] = e.row
                                     /\ \A i \in DOMAIN d.orders \ {e.order} : n[i] = d.orders[i]
             /\ e.type = "cancel" =>
                  /\ DOMAIN n = DOMAIN d.orders
                  /\ \A i \in DOMAIN d.orders \ {e.order} : n[i] = d.orders[i]
                  /\ e.order \in DOMAIN n =>
                       /\ n[e.order].user = d.orders[e.order].user
                       /\ n[e.order].status = e.row.status
                       /\ DOMAIN n[e.order] = DOMAIN d.orders[e.order]
             /\ e.type \notin {"create", "cancel"} => n = d.orders
<1>1. Settled(d, e).orders = OrdersAfter(d, e)
  BY DEF Settled
<1>2. CASE e.type = "create"
  BY <1>1, <1>2 DEF OrdersAfter, Put
<1>3. CASE e.type = "cancel"
  <2>1. Settled(d, e).orders = [d.orders EXCEPT ![e.order].status = e.row.status]
    BY <1>1, <1>3 DEF OrdersAfter
  <2> QED
    BY <1>3, <2>1
<1>4. CASE e.type \notin {"create", "cancel"}
  BY <1>1, <1>4 DEF OrdersAfter
<1> QED
  BY <1>2, <1>3, <1>4

\* An event is settled.
LEMMA SettledOrders ==
  ASSUME OrdersInv, NEW e, e \in OnWay, OnWay' \subseteq OnWay, OnWay \subseteq OnWay' \cup {e},
         \A d \in OnWay' : ~Clash(e, d), Accepts(db, e), db' = Settled(db, e),
         cached' = cached, sent' = sent, apart' = apart, nextID' = nextID, calls' = calls
  PROVE  OrdersInv'
<1> DEFINE rows == db.orders
           now  == db'.orders
<1>1. /\ \A r : Placing(r)' = Placing(r)
      /\ \A r : Bearing(r)' = Bearing(r)
  BY DEF Placing, Cancelling, Bearing
<1>2. \A i \in DOMAIN rows : {"user", "status"} \subseteq DOMAIN rows[i]
  BY DEF OrdersInv, RowsOK
<1>3. /\ e.type = "create" => /\ DOMAIN now = DOMAIN rows \cup {e.order}
                              /\ now[e.order] = e.row
                              /\ \A i \in DOMAIN rows \ {e.order} : now[i] = rows[i]
      /\ e.type = "cancel" =>
           /\ DOMAIN now = DOMAIN rows
           /\ \A i \in DOMAIN rows \ {e.order} : now[i] = rows[i]
           /\ e.order \in DOMAIN now => /\ now[e.order].user = rows[e.order].user
                                        /\ now[e.order].status = e.row.status
                                        /\ DOMAIN now[e.order] = DOMAIN rows[e.order]
      /\ e.type \notin {"create", "cancel"} => now = rows
  BY <1>2, SettledRows
<1>4. {"bal", "frozen", "orders", "pos"} \subseteq DOMAIN db'
  BY DEF Settled
<1>5. /\ e.type = "create" => /\ e.order \notin DOMAIN rows /\ e.row.user = e.user
                              /\ {"user", "status"} \subseteq DOMAIN e.row
                              /\ ~CreateWaits(OnWay', e.order)
      /\ e.type = "cancel" => /\ e.order \in DOMAIN rows /\ e.row.status = "canceled"
                              /\ ~CreateWaits(OnWay, e.order)
  <2>1. e.type = "create" => ~CreateWaits(OnWay', e.order)
    BY DEF CreateWaits, Clash
  <2>2. e.type = "cancel" => e.order \in DOMAIN rows
    BY DEF Accepts
  <2>3. \A i : CreateWaits(OnWay, i) => i \notin DOMAIN rows
    BY DEF OrdersInv, RowsOK, CreateWaits
  <2> QED
    BY <2>1, <2>2, <2>3 DEF OrdersInv, RowsOK
<1> HIDE DEF rows, now
<1>6. /\ \A i : CreateWaits(OnWay', i) => CreateWaits(OnWay, i)
      /\ \A i : CancelWaits(OnWay', i) => CancelWaits(OnWay, i)
      /\ \A i : CancelWaits(OnWay, i) =>
           CancelWaits(OnWay', i) \/ (e.type = "cancel" /\ e.order = i)
  BY DEF CreateWaits, CancelWaits
<1>7. ASSUME NEW i, NEW u, ~(e.type = "cancel" /\ e.order = i)
      PROVE  Stands(now, OnWay', i, u) <=> Stands(rows, OnWay, i, u)
  <2>1. CASE e.type = "create" /\ i = e.order
    <3>1. Stands(now, OnWay', i, u) <=> e.row.user = u /\ e.row.status = "pending"
      BY <1>3, <1>5, <2>1 DEF Stands, CreateWaits
    <3>2. Stands(rows, OnWay, i, u) <=> e.row.user = u /\ e.row.status = "pending"
      BY <1>5, <2>1 DEF Stands, CreateWaits
    <3> QED
      BY <3>1, <3>2
  <2>2. CASE ~(e.type = "create" /\ i = e.order)
    <3>1. (i \in DOMAIN now <=> i \in DOMAIN rows) /\ (i \in DOMAIN rows => now[i] = rows[i])
      BY <1>3, <1>7, <2>2
    <3>2. (\E d \in OnWay' : d.type = "create" /\ d.order = i /\ d.user = u /\ d.row.status = "pending")
            <=> \E d \in OnWay : d.type = "create" /\ d.order = i /\ d.user = u
                                 /\ d.row.status = "pending"
      BY <2>2
    <3> QED
      BY <3>1, <3>2 DEF Stands
  <2> QED
    BY <2>1, <2>2
<1>8. ASSUME e.type = "cancel", NEW u
      PROVE  ~Stands(now, OnWay', e.order, u)
  <2>1. now[e.order].status = "canceled" /\ ~CreateWaits(OnWay', e.order)
    BY <1>3, <1>5, <1>6, <1>8
  <2> QED
    BY <2>1 DEF Stands, CreateWaits
<1>9. ASSUME NEW i, NEW u, Named(i, u)'
      PROVE  Named(i, u)
  <2>1. ASSUME i \in DOMAIN now, now[i].user = u
        PROVE  Named(i, u)
    <3>1. CASE e.type = "create" /\ i = e.order
      BY <1>3, <1>5, <2>1, <3>1 DEF Named
    <3>2. CASE ~(e.type = "create" /\ i = e.order)
      <4>1. i \in DOMAIN rows /\ rows[i].user = u
        BY <1>3, <2>1, <3>2
      <4> QED
        BY <4>1 DEF Named, rows
    <3> QED
      BY <3>1, <3>2
  <2> QED
    BY <1>1, <1>9, <2>1 DEF Named, now
<1>10. NamesOK'
  BY <1>9 DEF OrdersInv, NamesOK
<1>11. RowsOK'
  <2>1. ASSUME NEW i \in DOMAIN now
        PROVE  {"user", "status"} \subseteq DOMAIN now[i]
    BY <1>2, <1>3, <1>5, <2>1
  <2>2. ASSUME NEW d \in OnWay', d.type = "create"
        PROVE  d.order \notin DOMAIN now
    <3>1. d.order \notin DOMAIN rows
      BY <2>2 DEF OrdersInv, RowsOK, rows
    <3>2. e.type = "create" => d.order # e.order
      BY <1>5, <2>2 DEF CreateWaits
    <3> QED
      BY <1>3, <3>1, <3>2
  <2>3. \A d \in OnWay' : /\ d.type = "create" => /\ {"user", "status"} \subseteq DOMAIN d.row
                                                  /\ d.row.user = d.user
                          /\ d.type = "cancel" => d.row.status = "canceled"
    BY DEF OrdersInv, RowsOK
  <2> QED
    BY <1>4, <2>1, <2>2, <2>3 DEF RowsOK, now
<1>12. HoldersOK'
  <2>1. sent' \subseteq Threads /\ \A r \in sent' : calls'[r].pc = "resting"
    BY DEF OrdersInv, HoldersOK
  <2>2. ASSUME NEW r \in Threads, Placing(r)' \/ r \in sent'
        PROVE  /\ calls'[r].id \notin DOMAIN cached'
               /\ ~CancelWaits(OnWay', calls'[r].id)
               /\ \A s \in Threads : Bearing(s)' /\ calls'[s].id = calls'[r].id => s = r
    BY <1>1, <1>6, <2>2 DEF OrdersInv, HoldersOK
  <2>3. ASSUME NEW r \in Threads, Placing(r)'
        PROVE  calls'[r].id \notin DOMAIN db'.orders /\ ~CreateWaits(OnWay', calls'[r].id)
    <3>1. calls[r].id \notin DOMAIN rows /\ ~CreateWaits(OnWay, calls[r].id)
      BY <1>1, <2>3 DEF OrdersInv, HoldersOK, rows
    <3>2. e.type = "create" => calls[r].id # e.order
      BY <3>1 DEF CreateWaits
    <3>3. calls[r].id \notin DOMAIN now
      BY <1>3, <3>1, <3>2
    <3> QED
      BY <1>6, <3>1, <3>3 DEF now
  <2>4. ASSUME NEW r \in sent', calls'[r].user \notin apart'
        PROVE  Stands(db'.orders, OnWay', calls'[r].id, calls'[r].user)
    <3>1. /\ Stands(rows, OnWay, calls[r].id, calls[r].user)
          /\ ~CancelWaits(OnWay, calls[r].id)
      BY <2>4 DEF OrdersInv, HoldersOK, rows
    <3>2. ~(e.type = "cancel" /\ e.order = calls[r].id)
      BY <3>1 DEF CancelWaits
    <3>3. Stands(now, OnWay', calls[r].id, calls[r].user)
      BY <1>7, <3>1, <3>2
    <3> QED
      BY <3>3 DEF now
  <2> QED
    BY <2>1, <2>2, <2>3, <2>4 DEF HoldersOK
<1>13. CachedOK'
  <2> SUFFICES ASSUME NEW i, NEW u \in Users, u \notin apart'
               PROVE  i \in DOMAIN cached' /\ cached'[i].user = u
                        <=> /\ Stands(db'.orders, OnWay', i, u) /\ ~CancelWaits(OnWay', i)
                            /\ \A r \in sent' : calls'[r].id # i
    BY DEF CachedOK
  <2>1. i \in DOMAIN cached /\ cached[i].user = u
          <=> /\ Stands(rows, OnWay, i, u) /\ ~CancelWaits(OnWay, i)
              /\ \A r \in sent : calls[r].id # i
    BY DEF OrdersInv, CachedOK, rows
  <2>2. CASE e.type = "cancel" /\ e.order = i
    <3>1. CancelWaits(OnWay, i)
      BY <2>2 DEF CancelWaits
    <3>2. ~Stands(now, OnWay', i, u)
      BY <1>8, <2>2
    <3> QED
      BY <2>1, <3>1, <3>2 DEF now
  <2>3. CASE ~(e.type = "cancel" /\ e.order = i)
    <3>1. Stands(now, OnWay', i, u) <=> Stands(rows, OnWay, i, u)
      BY <1>7, <2>3
    <3>2. CancelWaits(OnWay', i) <=> CancelWaits(OnWay, i)
      BY <1>6, <2>3
    <3> QED
      BY <2>1, <3>1, <3>2 DEF now
  <2> QED
    BY <2>2, <2>3
<1> QED
  BY <1>10, <1>11, <1>12, <1>13 DEF OrdersInv

\* The next process starts from the database.
LEMMA ReloadedOrders ==
  ASSUME OrdersInv, Reload
  PROVE  OrdersInv' /\ CallsOK' /\ OnWay' = {}
<1>1. OnWay' = {}
  <2>1. queue' = <<>> /\ hand'[Worker] = <<>> /\ hand'[Main] = <<>>
    BY ConsumersAre DEF Reload
  <2>2. Contents(<<>>) = {}
    BY DEF Contents
  <2> QED
    BY <2>1, <2>2 DEF OnWay, Waiting
<1>2. calls' = [t \in AllThreads |-> Idle] /\ sent' = {} /\ db' = db
  BY DEF Reload
<1>3. CallsOK'
  <2>1. \A t \in AllThreads : calls'[t] = Idle
    BY <1>2
  <2>2. Idle = [x \in DOMAIN Idle |-> Idle[x]]
    BY DEF Idle
  <2>3. calls' = [t \in AllThreads |-> calls'[t]]
    BY <1>2
  <2> QED
    BY <2>1, <2>2, <2>3 DEF CallsOK
<1>4. \A t \in Threads : ~Bearing(t)' /\ ~Placing(t)'
  <2>1. \A t \in Threads : calls'[t].pc = "idle" /\ t \notin sent'
    BY <1>2, ThreadsAre DEF Idle
  <2> QED
    BY <2>1 DEF Bearing, Placing, Cancelling
<1> DEFINE pending == UNION {Pending(u) : u \in Users}
<1>5. /\ DOMAIN cached' = pending
      /\ \A i \in pending : cached'[i].user = db.orders[i].user
  <2>1. cached' = [i \in pending |-> [user |-> db.orders[i].user, cost |-> db.orders[i].cost,
                                       lev |-> db.orders[i].lev]]
    BY DEF Reload
  <2> HIDE DEF pending
  <2> QED
    BY <2>1
<1>6. \A i : i \in pending <=> /\ i \in DOMAIN db.orders /\ db.orders[i].user \in Users
                               /\ db.orders[i].status = "pending"
  BY DEF Pending
<1> HIDE DEF pending
<1>7. ASSUME NEW i, NEW u, Named(i, u)'
      PROVE  i \in DOMAIN db.orders /\ db.orders[i].user = u
  BY <1>1, <1>2, <1>4, <1>5, <1>6, <1>7 DEF Named
<1>8. NamesOK'
  <2>1. nextID \in Nat /\ DOMAIN db.orders \subseteq 1 .. nextID
    <3>1. \A i \in DOMAIN db.orders : Named(i, db.orders[i].user)
      BY DEF Named
    <3> QED
      BY <3>1 DEF OrdersInv, NamesOK
  <2>2. nextID' = Max({0} \cup DOMAIN db.orders)
    BY DEF Reload, CounterFrom
  <2>3. /\ nextID' \in 0 .. nextID
        /\ \A i \in DOMAIN db.orders : i <= nextID'
    BY <2>1, <2>2, LargestOf
  <2>4. nextID' \in Nat /\ \A i \in DOMAIN db.orders : i \in 1 .. nextID'
    BY <2>1, <2>3
  <2> QED
    BY <1>7, <2>4 DEF NamesOK
<1>9. RowsOK'
  BY <1>1, <1>2 DEF OrdersInv, RowsOK
<1>10. HoldersOK'
  BY <1>2, <1>4 DEF HoldersOK
<1>11. CachedOK'
  <2> SUFFICES ASSUME NEW i, NEW u \in Users
               PROVE  i \in DOMAIN cached' /\ cached'[i].user = u
                        <=> /\ Stands(db'.orders, OnWay', i, u) /\ ~CancelWaits(OnWay', i)
                            /\ \A r \in sent' : calls'[r].id # i
    BY DEF CachedOK
  <2>1. Stands(db'.orders, OnWay', i, u) <=> /\ i \in DOMAIN db.orders /\ db.orders[i].user = u
                                             /\ db.orders[i].status = "pending"
    BY <1>1, <1>2 DEF Stands
  <2>2. ~CancelWaits(OnWay', i)
    BY <1>1 DEF CancelWaits
  <2> QED
    BY <1>2, <1>5, <1>6, <2>1, <2>2
<1> QED
  BY <1>1, <1>3, <1>8, <1>9, <1>10, <1>11 DEF OrdersInv

-----------------------------------------------------------------------------
(* Positions: memory, the events that open them, and the database.         *)

PositionsInv ==
  /\ Sound(mem)
  /\ DOMAIN db.pos \subseteq 1 .. mem.lastPos
  /\ \A i \in DOMAIN db.pos : "user" \in DOMAIN db.pos[i]
  /\ \A e \in OnWay : e.type = "open" =>
       /\ e.pos \in 1 .. mem.lastPos
       /\ e.pos \notin DOMAIN db.pos
       /\ "user" \in DOMAIN e.row

LEMMA SamePositionsInv ==
  ASSUME PositionsInv, mem' = mem, db'.pos = db.pos,
         \A e \in OnWay' : e \in OnWay \/ e.type # "open"
  PROVE  PositionsInv'
  BY DEF PositionsInv

\* Memory goes on, and the settler hears of the positions opened.
LEMMA KeptPositions ==
  ASSUME PositionsInv, KeepsOwners(mem, mem'), db' = db,
         \A e \in OnWay' : \/ e \in OnWay
                           \/ e.type # "open"
                           \/ /\ e.pos \in DOMAIN mem'.pos \ DOMAIN mem.pos
                              /\ e.row = mem'.pos[e.pos]
  PROVE  /\ PositionsInv'
         /\ \A e \in OnWay, i \in DOMAIN mem'.pos \ DOMAIN mem.pos :
              e.type = "open" => e.pos # i
<1>1. /\ mem.lastPos \in Nat /\ mem'.lastPos \in Nat /\ mem'.lastPos >= mem.lastPos
      /\ DOMAIN mem'.pos \subseteq 1 .. mem'.lastPos
      /\ DOMAIN mem'.pos \cap 1 .. mem.lastPos \subseteq DOMAIN mem.pos
      /\ Sound(mem')
  BY DEF PositionsInv, Sound, KeepsOwners
<1>2. \A i \in DOMAIN mem'.pos \ DOMAIN mem.pos : i \notin 1 .. mem.lastPos
  BY <1>1
<1>3. 1 .. mem.lastPos \subseteq 1 .. mem'.lastPos
  BY <1>1
<1>4. ASSUME NEW e \in OnWay', e.type = "open"
      PROVE  /\ e.pos \in 1 .. mem'.lastPos
             /\ e.pos \notin DOMAIN db'.pos
             /\ "user" \in DOMAIN e.row
  <2>1. CASE e \in OnWay
    BY <1>3, <1>4, <2>1 DEF PositionsInv
  <2>2. CASE e \notin OnWay
    <3>1. e.pos \in DOMAIN mem'.pos \ DOMAIN mem.pos /\ e.row = mem'.pos[e.pos]
      BY <1>4, <2>2
    <3>2. e.pos \in 1 .. mem'.lastPos /\ "user" \in DOMAIN e.row
      BY <1>1, <3>1 DEF Sound
    <3> QED
      BY <1>2, <3>1, <3>2 DEF PositionsInv
  <2> QED
    BY <2>1, <2>2
<1>5. PositionsInv'
  BY <1>1, <1>3, <1>4 DEF PositionsInv
<1>6. \A e \in OnWay, i \in DOMAIN mem'.pos \ DOMAIN mem.pos : e.type = "open" => e.pos # i
  BY <1>2 DEF PositionsInv
<1> QED
  BY <1>5, <1>6

\* Steps that change the accounts only.
LEMMA AccountsKeep ==
  ASSUME NEW m, Sound(m), NEW n, DOMAIN n = DOMAIN m, n = [x \in DOMAIN n |-> n[x]],
         n.pos = m.pos, n.lastPos = m.lastPos
  PROVE  KeepsOwners(m, n)
  BY OwnersKept

LEMMA FreezeKeeps ==
  ASSUME NEW m, Sound(m), NEW u, NEW amount
  PROVE  /\ KeepsOwners(m, Freeze(m, u, amount))
         /\ KeepsOwners(m, Unfreeze(m, u, amount))
<1> DEFINE n == Freeze(m, u, amount)
           o == Unfreeze(m, u, amount)
<1>1. /\ DOMAIN n = DOMAIN m /\ n = [x \in DOMAIN n |-> n[x]]
      /\ n.pos = m.pos /\ n.lastPos = m.lastPos
  BY DEF Sound, Freeze
<1>2. /\ DOMAIN o = DOMAIN m /\ o = [x \in DOMAIN o |-> o[x]]
      /\ o.pos = m.pos /\ o.lastPos = m.lastPos
  BY DEF Sound, Unfreeze
<1> HIDE DEF n, o
<1>3. KeepsOwners(m, n) /\ KeepsOwners(m, o)
  BY <1>1, <1>2, AccountsKeep
<1> QED
  BY <1>3 DEF n, o

LEMMA StateKeeps ==
  ASSUME NEW m, Sound(m), NEW i, NEW state
  PROVE  KeepsOwners(m, SetState(m, i, state))
<1>1. CASE i \in DOMAIN m.pos
  BY <1>1, SetStateKeeps
<1>2. CASE i \notin DOMAIN m.pos
  <2>1. KeepsOwners(m, m)
    BY DEF Sound, KeepsOwners
  <2> QED
    BY <1>2, <2>1 DEF SetState
<1> QED
  BY <1>1, <1>2

\* What Settled does to the positions.
LEMMA SettledPositions ==
  ASSUME NEW d, NEW e,
         \A i \in DOMAIN d.pos : "user" \in DOMAIN d.pos[i],
         e.type = "open" => "user" \in DOMAIN e.row
  PROVE  LET n == Settled(d, e).pos
         IN  /\ DOMAIN n = IF e.type = "open" THEN DOMAIN d.pos \cup {e.pos} ELSE DOMAIN d.pos
             /\ \A i \in DOMAIN n : "user" \in DOMAIN n[i]
<1> DEFINE n == Settled(d, e).pos
<1>1. n = PositionsAfter(d, e)
  BY DEF Settled
<1>2. CASE e.type = "open"
  BY <1>1, <1>2 DEF PositionsAfter, Put
<1>3. CASE e.type = "reduce"
  <2>1. n = [d.pos EXCEPT ![e.pos].qty = e.row.qty, ![e.pos].margin = e.row.margin]
    BY <1>1, <1>3 DEF PositionsAfter
  <2>2. DOMAIN n = DOMAIN d.pos /\ \A i \in DOMAIN n : DOMAIN n[i] = DOMAIN d.pos[i]
    BY <2>1
  <2> QED
    BY <1>3, <2>2
<1>4. CASE e.type = "close"
  <2>1. n = [d.pos EXCEPT ![e.pos].state = e.row.state]
    BY <1>1, <1>4 DEF PositionsAfter
  <2>2. DOMAIN n = DOMAIN d.pos /\ \A i \in DOMAIN n : DOMAIN n[i] = DOMAIN d.pos[i]
    BY <2>1
  <2> QED
    BY <1>4, <2>2
<1>5. CASE e.type \notin {"open", "reduce", "close"}
  BY <1>1, <1>5 DEF PositionsAfter
<1> QED
  BY <1>2, <1>3, <1>4, <1>5

LEMMA SettledPositionsInv ==
  ASSUME PositionsInv, NEW e, e \in OnWay, OnWay' \subseteq OnWay,
         \A d \in OnWay' : ~Clash(e, d), mem' = mem, db' = Settled(db, e)
  PROVE  PositionsInv'
<1>1. e.type = "open" => "user" \in DOMAIN e.row /\ e.pos \in 1 .. mem.lastPos
  BY DEF PositionsInv
<1>2. /\ DOMAIN db'.pos = IF e.type = "open" THEN DOMAIN db.pos \cup {e.pos} ELSE DOMAIN db.pos
      /\ \A i \in DOMAIN db'.pos : "user" \in DOMAIN db'.pos[i]
  BY <1>1, SettledPositions DEF PositionsInv
<1>3. \A d \in OnWay' : d.type = "open" /\ e.type = "open" => d.pos # e.pos
  BY DEF Clash
<1> QED
  BY <1>1, <1>2, <1>3 DEF PositionsInv

LEMMA ReloadedPositions ==
  ASSUME PositionsInv, Reload, OnWay' = {}
  PROVE  PositionsInv'
<1> DEFINE held == UNION {Open(u) : u \in Users}
           bal == [u \in Traders |-> IF u \in Users THEN db.bal[u] ELSE InitMem.bal[u]]
           frozen == [u \in Traders |-> IF u \in Users THEN db.frozen[u] ELSE 0]
           pos == Restrict(db.pos, held)
           last == CounterFrom(db.pos)
<1>1. mem' = [InitMem EXCEPT !.bal = bal, !.frozen = frozen, !.pos = pos, !.lastPos = last]
  BY DEF Reload
<1>2. db' = db
  BY DEF Reload
<1> HIDE DEF bal, frozen, pos, last
<1>3. /\ mem'.pos = pos /\ mem'.lastPos = last
      /\ DOMAIN mem' = DOMAIN InitMem /\ mem' = [x \in DOMAIN mem' |-> mem'[x]]
      /\ {"bal", "pos", "lastPos", "bought", "paid", "fees", "lost"} \subseteq DOMAIN mem'
  BY <1>1 DEF InitMem
<1>4. last = Max({0} \cup DOMAIN db.pos)
  BY DEF last, CounterFrom
<1>5. mem.lastPos \in Nat /\ DOMAIN db.pos \subseteq 1 .. mem.lastPos
  BY DEF PositionsInv, Sound
<1>6. last \in 0 .. mem.lastPos /\ \A i \in DOMAIN db.pos : i <= last
  BY <1>4, <1>5, LargestOf
<1>7. last \in Nat /\ DOMAIN db.pos \subseteq 1 .. last
  BY <1>5, <1>6
<1>8. held \subseteq DOMAIN db.pos
  BY DEF Open
<1>9. DOMAIN pos = held /\ \A i \in held : pos[i] = db.pos[i]
  BY DEF pos, Restrict
<1> HIDE DEF held
<1>10. Sound(mem')
  BY <1>3, <1>7, <1>8, <1>9 DEF Sound, PositionsInv
<1> QED
  BY <1>2, <1>3, <1>7, <1>10 DEF PositionsInv

-----------------------------------------------------------------------------
(* The invariant, and the steps of the handlers.                           *)

SettlementInv ==
  /\ FlowOK(queue, hand)
  /\ NoClash(queue, hand)
  /\ CallsOK
  /\ OrdersInv
  /\ PositionsInv

\* The fields of a call that goes on.
LEMMA CallFields ==
  ASSUME NEW c, DOMAIN c = DOMAIN Idle, c = [x \in DOMAIN Idle |-> c[x]],
         NEW pc, NEW d, d = [c EXCEPT !.pc = pc]
  PROVE  /\ DOMAIN d = DOMAIN Idle /\ d = [x \in DOMAIN Idle |-> d[x]]
         /\ d.pc = pc /\ d.id = c.id /\ d.user = c.user /\ d.cost = c.cost /\ d.legs = c.legs
  BY DEF Idle

LEMMA LegsFields ==
  ASSUME NEW c, DOMAIN c = DOMAIN Idle, c = [x \in DOMAIN Idle |-> c[x]],
         NEW legs, NEW d, d = [c EXCEPT !.legs = legs]
  PROVE  /\ DOMAIN d = DOMAIN Idle /\ d = [x \in DOMAIN Idle |-> d[x]]
         /\ d.pc = c.pc /\ d.id = c.id /\ d.user = c.user /\ d.cost = c.cost /\ d.legs = legs
  BY DEF Idle

LEMMA IdleFields == /\ DOMAIN Idle = DOMAIN Idle /\ Idle = [x \in DOMAIN Idle |-> Idle[x]]
                    /\ Idle.pc = "idle" /\ Idle.legs = <<>>
  BY DEF Idle

LEMMA SameFlow ==
  ASSUME queue' = queue, hand' = hand
  PROVE  OnWay' = OnWay
  BY DEF OnWay

\* A thread that has told the settler of its order does nothing but register it.
LEMMA NotSent ==
  ASSUME OrdersInv, NEW t, calls[t].pc # "resting"
  PROVE  t \notin sent
  BY DEF OrdersInv, HoldersOK

\* A step without an event.
LEMMA QuietCall ==
  ASSUME SettlementInv, NEW t \in Threads, calls[t].pc # "resting",
         NEW d, DOMAIN d = DOMAIN Idle, d = [x \in DOMAIN Idle |-> d[x]],
         calls' = [calls EXCEPT ![t] = d], cached' = cached, KeepsOwners(mem, mem'),
         queue' = queue, hand' = hand, db' = db, sent' = sent, apart' = apart,
         nextID' \in {nextID, nextID + 1},
         \/ d.pc \in {"idle", "legs", "reopen"}
         \/ /\ d.pc \in {"market", "limit", "filled", "close", "resting"}
            /\ \/ Placing(t) /\ d.id = calls[t].id /\ d.user = calls[t].user
               \/ d.id = nextID + 1 /\ nextID' = nextID + 1
         \/ /\ d.pc \in {"cancel", "unfreeze", "uncache"}
            /\ \/ Cancelling(t) /\ d.id = calls[t].id /\ d.user = calls[t].user
               \/ d.id \in DOMAIN cached /\ d.user = cached[d.id].user
  PROVE  SettlementInv'
<1>1. OnWay' = OnWay
  BY SameFlow
<1>2. t \notin sent
  BY NotSent DEF SettlementInv
<1>3. nextID \in Nat /\ nextID' \in Nat /\ nextID' >= nextID
  <2>1. nextID \in Nat
    BY DEF SettlementInv, OrdersInv, NamesOK
  <2> QED
    BY <2>1
<1>4. OrdersInv'
  BY <1>1, <1>2, <1>3, CallOrders DEF SettlementInv
<1>5. CallsOK'
  BY CallsGo DEF SettlementInv
<1>6. PositionsInv'
  BY <1>1, KeptPositions DEF SettlementInv
<1> QED
  BY <1>4, <1>5, <1>6 DEF SettlementInv

LEMMA SilentKeeps ==
  ASSUME SettlementInv, NEW t \in Threads, SilentStep(t)
  PROVE  SettlementInv'
<1>1. /\ queue' = queue /\ hand' = hand /\ db' = db /\ sent' = sent /\ apart' = apart
  BY DEF SilentStep, flow, notes
<1>2. /\ Sound(mem) /\ nextID \in Nat /\ KeepsOwners(mem, mem)
      /\ t \in AllThreads
      /\ DOMAIN calls[t] = DOMAIN Idle /\ calls[t] = [x \in DOMAIN Idle |-> calls[t][x]]
  <2>1. Sound(mem)
    BY DEF SettlementInv, PositionsInv
  <2>2. KeepsOwners(mem, mem)
    BY <2>1 DEF Sound, KeepsOwners
  <2> QED
    BY <2>1, <2>2, ThreadsAre DEF SettlementInv, OrdersInv, NamesOK, CallsOK
<1>3. ASSUME NEW u, NEW s, NEW q, NEW lev, PlaceMarketOrder(t, u, s, q, lev)
      PROVE  SettlementInv'
  <2> DEFINE d == [[Idle EXCEPT !.user = u, !.side = s, !.lev = lev,
                                !.qty = q, !.id = nextID + 1] EXCEPT !.pc = "market"]
  <2>1. /\ calls[t].pc = "idle" /\ nextID' = nextID + 1 /\ mem' = mem /\ cached' = cached
        /\ calls' = [calls EXCEPT ![t] = d]
    BY <1>3 DEF PlaceMarketOrder, Start, DrawID, Goto
  <2>2. /\ DOMAIN d = DOMAIN Idle /\ d = [x \in DOMAIN Idle |-> d[x]]
        /\ d.pc = "market" /\ d.id = nextID + 1
    BY DEF Idle
  <2> HIDE DEF d
  <2> QED
    BY <1>1, <1>2, <2>1, <2>2, QuietCall
<1>4. ASSUME NEW u, NEW s, NEW q, NEW p, NEW lev, PlaceLimitOrder(t, u, s, q, p, lev)
      PROVE  SettlementInv'
  <2> DEFINE cost == LimitCost(q, p, lev)
             d == [[Idle EXCEPT !.user = u, !.side = s, !.lev = lev,
                       !.qty = q, !.id = nextID + 1, !.price = p,
                       !.cost = cost] EXCEPT !.pc = "limit"]
  <2>1. /\ calls[t].pc = "idle" /\ nextID' = nextID + 1 /\ cached' = cached
        /\ mem' = Freeze(mem, u, cost)
        /\ calls' = [calls EXCEPT ![t] = d]
    BY <1>4 DEF PlaceLimitOrder, Start, DrawID, Goto
  <2> HIDE DEF cost
  <2>2. /\ DOMAIN d = DOMAIN Idle /\ d = [x \in DOMAIN Idle |-> d[x]]
        /\ d.pc = "limit" /\ d.id = nextID + 1
    BY DEF Idle
  <2>3. KeepsOwners(mem, mem')
    BY <1>2, <2>1, FreezeKeeps
  <2> HIDE DEF d
  <2> QED
    BY <1>1, <2>1, <2>2, <2>3, QuietCall
<1>5. ASSUME NEW i, NEW q, ClosePosition(t, i, q)
      PROVE  SettlementInv'
  <2> DEFINE d == [[Idle EXCEPT !.user = mem.pos[i].user, !.side = -mem.pos[i].side,
                          !.lev = mem.pos[i].lev, !.qty = q,
                          !.id = nextID + 1, !.pos = i] EXCEPT !.pc = "close"]
  <2>1. /\ calls[t].pc = "idle" /\ nextID' = nextID + 1 /\ cached' = cached
        /\ mem' = SetState(mem, i, Closing)
        /\ calls' = [calls EXCEPT ![t] = d]
    BY <1>5 DEF ClosePosition, Start, DrawID, Goto
  <2>2. /\ DOMAIN d = DOMAIN Idle /\ d = [x \in DOMAIN Idle |-> d[x]]
        /\ d.pc = "close" /\ d.id = nextID + 1
    BY DEF Idle
  <2>3. KeepsOwners(mem, mem')
    BY <1>2, <2>1, StateKeeps
  <2> HIDE DEF d
  <2> QED
    BY <1>1, <2>1, <2>2, <2>3, QuietCall
<1>6. ASSUME NEW id \in DOMAIN cached, CancelOrder(t, id)
      PROVE  SettlementInv'
  <2> DEFINE d == [[Idle EXCEPT !.user = cached[id].user, !.id = id,
                                !.cost = cached[id].cost] EXCEPT !.pc = "cancel"]
  <2>1. /\ calls[t].pc = "idle" /\ nextID' = nextID /\ mem' = mem /\ cached' = cached
        /\ calls' = [calls EXCEPT ![t] = d]
    BY <1>6 DEF CancelOrder, Goto
  <2>2. /\ DOMAIN d = DOMAIN Idle /\ d = [x \in DOMAIN Idle |-> d[x]]
        /\ d.pc = "cancel" /\ d.id = id /\ d.user = cached[id].user
    BY DEF Idle
  <2> HIDE DEF d
  <2> QED
    BY <1>1, <1>2, <1>6, <2>1, <2>2, QuietCall
<1>7. ASSUME MatchLimit(t)
      PROVE  SettlementInv'
  <2> DEFINE c == calls[t]
             m    == Matching(c.side, c.price, c.qty)
             legs == Legs(m.trades, c.user, c.side, c.id)
  <2>1. calls[t].pc = "limit" /\ nextID' = nextID /\ cached' = cached
    BY <1>7 DEF MatchLimit
  <2>2. Placing(t)
    BY <2>1 DEF Placing
  <2>3. CASE m.left = 0
    <3> DEFINE b == [c EXCEPT !.legs = legs]
               d == [b EXCEPT !.pc = "filled"]
    <3>1. calls' = [calls EXCEPT ![t] = d] /\ mem' = mem
      BY <1>7, <2>3 DEF MatchLimit, Goto
    <3> HIDE DEF legs
    <3>0. b = [c EXCEPT !.legs = legs]
      OBVIOUS
    <3> HIDE DEF b
    <3>3. d = [b EXCEPT !.pc = "filled"]
      OBVIOUS
    <3>4. /\ DOMAIN b = DOMAIN Idle /\ b = [x \in DOMAIN Idle |-> b[x]]
          /\ b.id = c.id /\ b.user = c.user
      BY <1>2, <3>0, LegsFields
    <3> HIDE DEF d
    <3>2. /\ DOMAIN d = DOMAIN Idle /\ d = [x \in DOMAIN Idle |-> d[x]]
          /\ d.pc = "filled" /\ d.id = c.id /\ d.user = c.user
      BY <3>3, <3>4, CallFields
    <3> QED
      BY <1>1, <1>2, <2>1, <2>2, <3>1, <3>2, QuietCall
  <2>4. CASE m.left # 0
    <3> DEFINE d == [c EXCEPT !.pc = "resting"]
               lost == [u \in Traders |-> mem.lost[u] + LegSum(legs, u)]
    <3>1. calls' = [calls EXCEPT ![t] = d] /\ mem' = [mem EXCEPT !.lost = lost]
      BY <1>7, <2>4 DEF MatchLimit, Goto
    <3> HIDE DEF lost
    <3>0. d = [c EXCEPT !.pc = "resting"]
      OBVIOUS
    <3> HIDE DEF d
    <3>2. /\ DOMAIN d = DOMAIN Idle /\ d = [x \in DOMAIN Idle |-> d[x]]
          /\ d.pc = "resting" /\ d.id = c.id /\ d.user = c.user
      BY <1>2, <3>0, CallFields
    <3>3. KeepsOwners(mem, mem')
      <4>1. /\ DOMAIN mem' = DOMAIN mem /\ mem' = [x \in DOMAIN mem' |-> mem'[x]]
            /\ mem'.pos = mem.pos /\ mem'.lastPos = mem.lastPos
        BY <1>2, <3>1 DEF Sound
      <4> QED
        BY <1>2, <4>1, AccountsKeep
    <3> QED
      BY <1>1, <2>1, <2>2, <3>1, <3>2, <3>3, QuietCall
  <2> QED
    BY <2>3, <2>4
<1>8. ASSUME CancelInBook(t)
      PROVE  SettlementInv'
  <2> DEFINE d == [calls[t] EXCEPT !.pc = "unfreeze"]
  <2>1. /\ calls[t].pc = "cancel" /\ nextID' = nextID /\ mem' = mem /\ cached' = cached
        /\ calls' = [calls EXCEPT ![t] = d]
    BY <1>8 DEF CancelInBook, Goto
  <2>0. d = [calls[t] EXCEPT !.pc = "unfreeze"]
    OBVIOUS
  <2> HIDE DEF d
  <2>2. /\ DOMAIN d = DOMAIN Idle /\ d = [x \in DOMAIN Idle |-> d[x]]
        /\ d.pc = "unfreeze" /\ d.id = calls[t].id /\ d.user = calls[t].user
    BY <1>2, <2>0, CallFields
  <2>3. Cancelling(t)
    BY <2>1 DEF Cancelling
  <2> QED
    BY <1>1, <1>2, <2>1, <2>2, <2>3, QuietCall
<1>9. ASSUME UnfreezeCancelled(t)
      PROVE  SettlementInv'
  <2> DEFINE d == [calls[t] EXCEPT !.pc = "uncache"]
  <2>1. /\ calls[t].pc = "unfreeze" /\ nextID' = nextID /\ cached' = cached
        /\ mem' = Unfreeze(mem, calls[t].user, calls[t].cost)
        /\ calls' = [calls EXCEPT ![t] = d]
    BY <1>9 DEF UnfreezeCancelled, Goto
  <2>0. d = [calls[t] EXCEPT !.pc = "uncache"]
    OBVIOUS
  <2> HIDE DEF d
  <2>2. /\ DOMAIN d = DOMAIN Idle /\ d = [x \in DOMAIN Idle |-> d[x]]
        /\ d.pc = "uncache" /\ d.id = calls[t].id /\ d.user = calls[t].user
    BY <1>2, <2>0, CallFields
  <2>3. Cancelling(t) /\ KeepsOwners(mem, mem')
    BY <1>2, <2>1, FreezeKeeps DEF Cancelling
  <2> QED
    BY <1>1, <1>2, <2>1, <2>2, <2>3, QuietCall
<1>10. ASSUME Reopen(t)
       PROVE  SettlementInv'
  <2>1. /\ calls[t].pc = "reopen" /\ nextID' = nextID /\ cached' = cached
        /\ mem' = SetState(mem, calls[t].pos, Active)
        /\ calls' = [calls EXCEPT ![t] = Idle]
    BY <1>10 DEF Reopen, Finish
  <2>2. KeepsOwners(mem, mem')
    BY <1>2, <2>1, StateKeeps
  <2> QED
    BY <1>1, <2>1, <2>2, IdleFields, QuietCall
<1>11. ASSUME NEW i, NEW q, RefuseClose(t, i, q)
       PROVE  SettlementInv'
  <2> DEFINE d == [[Idle EXCEPT !.user = mem.pos[i].user, !.pos = i] EXCEPT !.pc = "reopen"]
  <2>1. /\ calls[t].pc = "idle" /\ nextID' = nextID /\ cached' = cached
        /\ mem' = SetState(mem, i, Closing)
        /\ calls' = [calls EXCEPT ![t] = d]
    BY <1>11 DEF RefuseClose, Goto
  <2>2. /\ DOMAIN d = DOMAIN Idle /\ d = [x \in DOMAIN Idle |-> d[x]]
        /\ d.pc = "reopen"
    BY DEF Idle
  <2>3. KeepsOwners(mem, mem')
    BY <1>2, <2>1, StateKeeps
  <2> HIDE DEF d
  <2> QED
    BY <1>1, <2>1, <2>2, <2>3, QuietCall
<1> QED
  BY <1>3, <1>4, <1>5, <1>6, <1>7, <1>8, <1>9, <1>10, <1>11 DEF SilentStep

\* One event goes into the queue.
LEMMA OneEvent ==
  ASSUME FlowOK(queue, hand), NoClash(queue, hand), NEW e,
         queue' = queue \o <<e>>, hand' = hand,
         e.type # "open", e.type = "create" => ~CreateWaits(OnWay, e.order)
  PROVE  /\ FlowOK(queue, hand)' /\ NoClash(queue, hand)'
         /\ OnWay' = OnWay \cup {e}
<1> DEFINE ev == <<e>>
<1>1. DOMAIN ev = {1} /\ ev[1] = e /\ ev \in Seq({e})
  OBVIOUS
<1> HIDE DEF ev
<1>2. Contents(ev) = {e} /\ ClashFree(ev) /\ ev \in Seq(Contents(ev))
  <2>1. Contents(ev) = {e}
    BY <1>1 DEF Contents
  <2> QED
    BY <1>1, <2>1 DEF ClashFree
<1>3. \A d \in Waiting(queue, hand), x \in Contents(ev) : ~Clash(d, x)
  BY <1>2 DEF CreateWaits, OnWay, Clash
<1>4. queue' = queue \o ev
  BY DEF ev
<1>5. /\ FlowOK(queue', hand) /\ NoClash(queue', hand)
      /\ Waiting(queue', hand) = Waiting(queue, hand) \cup {e}
  BY <1>2, <1>3, <1>4, AppendFlow
<1>6. FlowOK(queue', hand') /\ NoClash(queue', hand')
  BY <1>5
<1>7. OnWay' = OnWay \cup {e}
  BY <1>5 DEF OnWay
<1> QED
  BY <1>6, <1>7

\* What the steps do that submit the order of a call.
LEMMA FilledStep ==
  ASSUME SettlementInv, NEW t \in Threads,
         MatchMarket(t) \/ MatchClose(t) \/ UnfreezeFilled(t)
  PROVE  /\ \E d : /\ DOMAIN d = DOMAIN Idle /\ d = [x \in DOMAIN Idle |-> d[x]]
                   /\ d.pc \in {"idle", "legs", "reopen"}
                   /\ calls' = [calls EXCEPT ![t] = d]
         /\ Placing(t) /\ calls[t].pc # "resting"
         /\ KeepsOwners(mem, mem') /\ cached' = cached /\ nextID' = nextID
<1> DEFINE c == calls[t]
<1>1. /\ Sound(mem) /\ KeepsOwners(mem, mem)
      /\ DOMAIN c = DOMAIN Idle /\ c = [x \in DOMAIN Idle |-> c[x]]
  <2>1. Sound(mem)
    BY DEF SettlementInv, PositionsInv
  <2>2. KeepsOwners(mem, mem)
    BY <2>1 DEF Sound, KeepsOwners
  <2> QED
    BY <2>1, <2>2, ThreadsAre DEF SettlementInv, CallsOK
<1>2. ASSUME NEW legs, Goto(t, [c EXCEPT !.legs = legs], "legs")
      PROVE  \E d : /\ DOMAIN d = DOMAIN Idle /\ d = [x \in DOMAIN Idle |-> d[x]]
                    /\ d.pc \in {"idle", "legs", "reopen"}
                    /\ calls' = [calls EXCEPT ![t] = d]
  <2> DEFINE b == [c EXCEPT !.legs = legs]
             d == [b EXCEPT !.pc = "legs"]
  <2>1. calls' = [calls EXCEPT ![t] = d]
    BY <1>2 DEF Goto
  <2>2. b = [c EXCEPT !.legs = legs]
    OBVIOUS
  <2> HIDE DEF b
  <2>3. d = [b EXCEPT !.pc = "legs"]
    OBVIOUS
  <2>4. DOMAIN b = DOMAIN Idle /\ b = [x \in DOMAIN Idle |-> b[x]]
    BY <1>1, <2>2, LegsFields
  <2> HIDE DEF d
  <2>5. DOMAIN d = DOMAIN Idle /\ d = [x \in DOMAIN Idle |-> d[x]] /\ d.pc = "legs"
    BY <2>3, <2>4, CallFields
  <2> QED
    BY <2>1, <2>5
<1>3. ASSUME NEW pc \in {"legs", "reopen"}, Goto(t, c, pc)
      PROVE  \E d : /\ DOMAIN d = DOMAIN Idle /\ d = [x \in DOMAIN Idle |-> d[x]]
                    /\ d.pc \in {"idle", "legs", "reopen"}
                    /\ calls' = [calls EXCEPT ![t] = d]
  <2> DEFINE d == [c EXCEPT !.pc = pc]
  <2>1. calls' = [calls EXCEPT ![t] = d]
    BY <1>3 DEF Goto
  <2>2. d = [c EXCEPT !.pc = pc]
    OBVIOUS
  <2> HIDE DEF d
  <2>3. DOMAIN d = DOMAIN Idle /\ d = [x \in DOMAIN Idle |-> d[x]] /\ d.pc = pc
    BY <1>1, <2>2, CallFields
  <2> QED
    BY <2>1, <2>3
<1>4. CASE MatchMarket(t)
  <2> DEFINE legs == Legs(Matching(c.side, NoLimit, c.qty).trades, c.user, c.side, c.id)
  <2>1. /\ c.pc = "market" /\ mem' = mem /\ cached' = cached /\ nextID' = nextID
        /\ Finish(t) \/ Goto(t, [c EXCEPT !.legs = legs], "legs")
    BY <1>4 DEF MatchMarket, Process
  <2> HIDE DEF legs
  <2>2. CASE Finish(t)
    BY <1>1, <2>1, <2>2, IdleFields DEF Placing, Finish
  <2>3. CASE Goto(t, [c EXCEPT !.legs = legs], "legs")
    BY <1>1, <1>2, <2>1, <2>3 DEF Placing
  <2> QED
    BY <2>1, <2>2, <2>3
<1>5. CASE MatchClose(t)
  <2> DEFINE legs == Legs(Matching(c.side, NoLimit, c.qty).trades, c.user, c.side, c.id)
  <2>1. /\ c.pc = "close" /\ mem' = mem /\ cached' = cached /\ nextID' = nextID
        /\ Goto(t, c, "reopen") \/ Goto(t, [c EXCEPT !.legs = legs], "legs")
    BY <1>5 DEF MatchClose
  <2> HIDE DEF legs
  <2>2. CASE Goto(t, c, "reopen")
    BY <1>1, <1>3, <2>1, <2>2 DEF Placing
  <2>3. CASE Goto(t, [c EXCEPT !.legs = legs], "legs")
    BY <1>1, <1>2, <2>1, <2>3 DEF Placing
  <2> QED
    BY <2>1, <2>2, <2>3
<1>6. CASE UnfreezeFilled(t)
  <2>1. /\ c.pc = "filled" /\ cached' = cached /\ nextID' = nextID
        /\ mem' = Unfreeze(mem, c.user, c.cost)
        /\ Goto(t, c, "legs")
    BY <1>6 DEF UnfreezeFilled
  <2>2. KeepsOwners(mem, mem')
    BY <1>1, <2>1, FreezeKeeps
  <2> QED
    BY <1>1, <1>3, <2>1, <2>2 DEF Placing
<1> QED
  BY <1>4, <1>5, <1>6

LEMMA OrderEventFields ==
  ASSUME NEW c, NEW status, NEW cost
  PROVE  LET e == OrderEvent(c, status, cost)
         IN  /\ e.type = "create" /\ e.order = c.id /\ e.user = c.user
             /\ {"user", "status"} \subseteq DOMAIN e.row
             /\ e.row.user = c.user /\ e.row.status = status
  BY DEF OrderEvent

LEMMA SubmitFilledKeeps ==
  ASSUME SettlementInv, NEW t \in Threads, SubmitFilled(t)
  PROVE  SettlementInv'
<1>1. /\ hand' = hand /\ db' = db /\ sent' = sent /\ apart' = apart
      /\ queue' = queue \o FilledOrder(calls[t], calls'[t].legs)
      /\ MatchMarket(t) \/ MatchClose(t) \/ UnfreezeFilled(t)
  BY DEF SubmitFilled, Submit, notes
<1>2. PICK d : /\ DOMAIN d = DOMAIN Idle /\ d = [x \in DOMAIN Idle |-> d[x]]
               /\ d.pc \in {"idle", "legs", "reopen"}
               /\ calls' = [calls EXCEPT ![t] = d]
  BY <1>1, FilledStep
<1>3. /\ Placing(t) /\ calls[t].pc # "resting"
      /\ KeepsOwners(mem, mem') /\ cached' = cached /\ nextID' = nextID
  BY <1>1, FilledStep
<1>4. t \notin sent
  BY <1>3, NotSent DEF SettlementInv
<1>5. CallsOK'
  BY <1>2, CallsGo DEF SettlementInv
<1> DEFINE e == OrderEvent(calls[t], "filled", 0)
<1>6. /\ e.type = "create" /\ e.order = calls[t].id /\ e.user = calls[t].user
      /\ {"user", "status"} \subseteq DOMAIN e.row
      /\ e.row.user = calls[t].user /\ e.row.status = "filled"
  BY OrderEventFields
<1>7. queue' = queue \o <<>> \/ queue' = queue \o <<e>>
  BY <1>1 DEF FilledOrder
<1> HIDE DEF e
<1>8. CASE queue' = queue \o <<>>
  <2>1. queue' = queue
    BY <1>8 DEF SettlementInv, FlowOK
  <2> QED
    BY <1>1, <1>2, <1>3, <2>1, QuietCall
<1>9. CASE queue' = queue \o <<e>>
  <2>1. ~CreateWaits(OnWay, e.order)
    BY <1>3, <1>6 DEF SettlementInv, OrdersInv, HoldersOK
  <2>2. FlowOK(queue, hand)' /\ NoClash(queue, hand)' /\ OnWay' = OnWay \cup {e}
    BY <1>1, <1>6, <1>9, <2>1, OneEvent DEF SettlementInv
  <2>3. OrdersInv'
    BY <1>1, <1>2, <1>3, <1>4, <1>6, <2>2, FilledOrders DEF SettlementInv
  <2>4. PositionsInv'
    BY <1>1, <1>3, <1>6, <2>2, KeptPositions DEF SettlementInv
  <2> QED
    BY <1>5, <2>2, <2>3, <2>4 DEF SettlementInv
<1> QED
  BY <1>7, <1>8, <1>9

LEMMA SubmitRestingKeeps ==
  ASSUME SettlementInv, NEW t \in Threads, SubmitResting(t)
  PROVE  SettlementInv'
<1> DEFINE e == OrderEvent(calls[t], "pending", calls[t].cost)
<1>1. /\ calls[t].pc = "resting" /\ t \notin sent /\ sent' = sent \cup {t}
      /\ mem' = mem /\ cached' = cached /\ nextID' = nextID /\ calls' = calls
      /\ hand' = hand /\ db' = db /\ apart' = apart
      /\ queue' = queue \o <<e>>
  BY DEF SubmitResting, Submit, notes, vars
<1>2. /\ e.type = "create" /\ e.order = calls[t].id /\ e.user = calls[t].user
      /\ {"user", "status"} \subseteq DOMAIN e.row
      /\ e.row.user = calls[t].user /\ e.row.status = "pending"
  BY OrderEventFields
<1> HIDE DEF e
<1>3. Placing(t)
  BY <1>1 DEF Placing
<1>4. ~CreateWaits(OnWay, e.order)
  BY <1>2, <1>3 DEF SettlementInv, OrdersInv, HoldersOK
<1>5. FlowOK(queue, hand)' /\ NoClash(queue, hand)' /\ OnWay' = OnWay \cup {e}
  BY <1>1, <1>2, <1>4, OneEvent DEF SettlementInv
<1>6. OrdersInv'
  BY <1>1, <1>2, <1>5, SentOrders DEF SettlementInv
<1>7. PositionsInv'
  BY <1>1, <1>2, <1>5, SamePositionsInv DEF SettlementInv
<1>8. CallsOK'
  BY <1>1 DEF SettlementInv, CallsOK
<1> QED
  BY <1>5, <1>6, <1>7, <1>8 DEF SettlementInv

LEMMA RegisterSentKeeps ==
  ASSUME SettlementInv, NEW t \in Threads, RegisterSent(t)
  PROVE  SettlementInv'
<1> DEFINE c == calls[t]
           o == [user |-> c.user, cost |-> c.cost, lev |-> c.lev]
<1>1. /\ t \in sent /\ sent' = sent \ {t} /\ calls' = [calls EXCEPT ![t] = Idle]
      /\ mem' = mem /\ nextID' = nextID
      /\ hand' = hand /\ db' = db /\ apart' = apart /\ queue' = queue
      /\ cached' = [i \in DOMAIN cached \cup {c.id} |-> IF i = c.id THEN o ELSE cached[i]]
  BY DEF RegisterSent, Register, Finish, notes
<1>2. o.user = c.user
  OBVIOUS
<1> HIDE DEF o
<1>3. OnWay' = OnWay
  BY <1>1, SameFlow
<1>4. OrdersInv'
  BY <1>1, <1>2, <1>3, RegisteredOrders DEF SettlementInv
<1>5. CallsOK'
  BY <1>1, IdleFields, CallsGo DEF SettlementInv
<1>6. PositionsInv'
  BY <1>1, <1>3, SamePositionsInv DEF SettlementInv
<1> QED
  BY <1>1, <1>4, <1>5, <1>6 DEF SettlementInv

LEMMA SubmitCancelKeeps ==
  ASSUME SettlementInv, NEW t \in Threads, SubmitCancel(t)
  PROVE  SettlementInv'
<1> DEFINE c == calls[t]
           e == CancelEvent(c)
<1>1. /\ c.pc = "uncache" /\ sent' = sent /\ calls' = [calls EXCEPT ![t] = Idle]
      /\ mem' = mem /\ nextID' = nextID
      /\ hand' = hand /\ db' = db /\ apart' = apart
      /\ queue' = queue \o <<e>>
      /\ cached' = Restrict(cached, DOMAIN cached \ {c.id})
  BY DEF SubmitCancel, Uncache, Submit, Finish, notes
<1>2. /\ e.type = "cancel" /\ e.order = c.id /\ e.user = c.user
      /\ e.row.status = "canceled"
  BY DEF CancelEvent
<1> HIDE DEF e
<1>3. Cancelling(t) /\ t \notin sent
  BY <1>1, NotSent DEF Cancelling, SettlementInv
<1>4. FlowOK(queue, hand)' /\ NoClash(queue, hand)' /\ OnWay' = OnWay \cup {e}
  BY <1>1, <1>2, OneEvent DEF SettlementInv
<1>5. OrdersInv'
  BY <1>1, <1>2, <1>3, <1>4, CancelledOrders DEF SettlementInv
<1>6. CallsOK'
  BY <1>1, IdleFields, CallsGo DEF SettlementInv
<1>7. PositionsInv'
  BY <1>1, <1>2, <1>4, SamePositionsInv DEF SettlementInv
<1> QED
  BY <1>4, <1>5, <1>6, <1>7 DEF SettlementInv

LEMMA SubmitTradeKeeps ==
  ASSUME SettlementInv, NEW t \in Threads, SubmitTrade(t)
  PROVE  SettlementInv'
<1> DEFINE c  == calls[t]
           l  == Head(c.legs)
           id == IF l.user = c.user THEN c.id ELSE l.id
           ev == TradeEvents(mem, mem', l, id)
<1>1. /\ c.pc = "legs" /\ Process(t, c, Tail(c.legs))
      /\ mem' \in UpdatePosition(mem, l.user, l.side, l.qty, l.price,
                                 LeverageOf(c, l), l.user # c.user)
      /\ cached' = cached /\ nextID' = nextID /\ sent' = sent
      /\ hand' = hand /\ db' = db /\ apart' = apart
  BY DEF SubmitTrade, ApplyLeg
<1>2. queue' = queue \o ev
  BY DEF SubmitTrade, Submit
<1>3. Sound(mem) /\ DOMAIN c = DOMAIN Idle /\ c = [x \in DOMAIN Idle |-> c[x]]
  BY ThreadsAre DEF SettlementInv, CallsOK, PositionsInv
<1>4. KeepsOwners(mem, mem') /\ OwnOnly(mem, mem', l.user)
  BY <1>1, <1>3, UpdateKeepsOwners, UpdateOwn
<1>5. /\ ev \in Seq(Contents(ev)) /\ ClashFree(ev)
      /\ \A e \in Contents(ev) : TradeEvent(e, mem, mem', l, id)
  BY <1>3, <1>4, TradeEventsFacts
<1> HIDE DEF ev, id
<1>6. \A e \in Contents(ev) : /\ e.type \notin {"create", "cancel"}
                              /\ e.type = "open" => /\ e.pos \in DOMAIN mem'.pos \ DOMAIN mem.pos
                                                    /\ e.row = mem'.pos[e.pos]
  BY <1>5 DEF TradeEvent
<1>7. /\ FlowOK(queue', hand)
      /\ Waiting(queue', hand) = Waiting(queue, hand) \cup Contents(ev)
      /\ (\A d \in Waiting(queue, hand), e \in Contents(ev) : ~Clash(d, e)) => NoClash(queue', hand)
  BY <1>2, <1>5, AppendFlow DEF SettlementInv
<1>8. OnWay' = OnWay \cup Contents(ev)
  BY <1>1, <1>7 DEF OnWay
<1>9. /\ PositionsInv'
      /\ \A e \in OnWay, i \in DOMAIN mem'.pos \ DOMAIN mem.pos : e.type = "open" => e.pos # i
  BY <1>1, <1>4, <1>6, <1>8, KeptPositions DEF SettlementInv
<1>10. \A d \in Waiting(queue, hand), e \in Contents(ev) : ~Clash(d, e)
  BY <1>6, <1>9 DEF Clash, OnWay
<1>11. FlowOK(queue, hand)' /\ NoClash(queue, hand)'
  BY <1>1, <1>7, <1>10
<1>12. PICK d : /\ DOMAIN d = DOMAIN Idle /\ d = [x \in DOMAIN Idle |-> d[x]]
                /\ d.pc \in {"idle", "legs", "reopen"}
                /\ calls' = [calls EXCEPT ![t] = d]
  <2> DEFINE legs == Tail(c.legs)
             b == [c EXCEPT !.legs = legs]
             d == [b EXCEPT !.pc = "legs"]
  <2>1. calls' = [calls EXCEPT ![t] = Idle] \/ calls' = [calls EXCEPT ![t] = d]
    BY <1>1 DEF Process, Finish, Goto
  <2> HIDE DEF legs
  <2>2. b = [c EXCEPT !.legs = legs]
    OBVIOUS
  <2> HIDE DEF b
  <2>3. d = [b EXCEPT !.pc = "legs"]
    OBVIOUS
  <2>4. DOMAIN b = DOMAIN Idle /\ b = [x \in DOMAIN Idle |-> b[x]]
    BY <1>3, <2>2, LegsFields
  <2> HIDE DEF d
  <2>5. DOMAIN d = DOMAIN Idle /\ d = [x \in DOMAIN Idle |-> d[x]] /\ d.pc = "legs"
    BY <2>3, <2>4, CallFields
  <2> QED
    BY <2>1, <2>5, IdleFields
<1>13. CallsOK'
  BY <1>12, CallsGo DEF SettlementInv
<1>14. OrdersInv'
  <2>1. t \notin sent
    BY <1>1, NotSent DEF SettlementInv
  <2>2. nextID' \in Nat /\ nextID' >= nextID
    BY <1>1 DEF SettlementInv, OrdersInv, NamesOK
  <2>3. OnWay \subseteq OnWay' /\ \A e \in OnWay' : e \in OnWay \/ e.type \notin {"create", "cancel"}
    BY <1>6, <1>8
  <2> QED
    BY <1>1, <1>12, <2>1, <2>2, <2>3, CallOrders DEF SettlementInv
<1> QED
  BY <1>9, <1>11, <1>13, <1>14 DEF SettlementInv

-----------------------------------------------------------------------------
(* The steps of the settler, of the resets and of the process.             *)

LEMMA TakeKeeps ==
  ASSUME SettlementInv, NEW w \in Consumers, TakeEvent(w)
  PROVE  SettlementInv'
<1>1. /\ queue # <<>> /\ hand[w] = <<>> /\ hand' = [hand EXCEPT ![w] = <<Head(queue)>>]
      /\ queue' = Tail(queue)
      /\ mem' = mem /\ cached' = cached /\ nextID' = nextID /\ calls' = calls
      /\ db' = db /\ sent' = sent /\ apart' = apart
  BY DEF TakeEvent, vars, notes
<1>2. /\ FlowOK(queue', hand') /\ Waiting(queue', hand') = Waiting(queue, hand)
      /\ NoClash(queue', hand')
  <2>1. FlowOK(queue, hand) /\ NoClash(queue, hand)
    BY DEF SettlementInv
  <2> QED
    BY <1>1, <2>1, TakeFlow
<1>3. OnWay' = OnWay
  BY <1>2 DEF OnWay
<1>4. OrdersInv'
  BY <1>1, <1>3, SameOrders DEF SettlementInv, OrdersInv, RowsOK
<1>5. PositionsInv'
  BY <1>1, <1>3, SamePositionsInv DEF SettlementInv
<1>6. CallsOK'
  BY <1>1 DEF SettlementInv, CallsOK
<1>7. FlowOK(queue, hand)' /\ NoClash(queue, hand)'
  BY <1>2
<1> QED
  BY <1>4, <1>5, <1>6, <1>7 DEF SettlementInv

\* A consumer is done with an event, settled or not.
LEMMA Done ==
  ASSUME SettlementInv, NEW w \in Consumers, hand[w] # <<>>,
         hand' = [hand EXCEPT ![w] = <<>>], queue' = queue
  PROVE  LET e == Head(hand[w])
         IN  /\ FlowOK(queue, hand)' /\ NoClash(queue, hand)'
             /\ e \in OnWay /\ OnWay' \subseteq OnWay /\ OnWay \subseteq OnWay' \cup {e}
             /\ \A d \in OnWay' : ~Clash(e, d)
<1> DEFINE e == Head(hand[w])
<1>1. /\ FlowOK(queue, hand') /\ Waiting(queue, hand') \subseteq Waiting(queue, hand)
      /\ e = hand[w][1] /\ e \in Waiting(queue, hand)
      /\ NoClash(queue, hand') /\ \A d \in Waiting(queue, hand') : ~Clash(e, d)
  BY DropFlow DEF SettlementInv
<1>2. Waiting(queue, hand) \subseteq Waiting(queue, hand') \cup {e}
  <2>1. /\ \A v \in Consumers : v # w => hand'[v] = hand[v]
        /\ hand'[w] = <<>>
    BY DEF SettlementInv, FlowOK
  <2>2. Contents(hand[w]) = {e}
    <3>1. hand[w] = <<>> \/ hand[w] = <<hand[w][1]>>
      BY DEF SettlementInv, FlowOK
    <3> QED
      BY <1>1, <3>1, HandFacts
  <2> HIDE DEF e
  <2>3. CASE w = Worker
    BY <2>1, <2>2, <2>3, ConsumersAre DEF Waiting
  <2>4. CASE w = Main
    BY <2>1, <2>2, <2>4, ConsumersAre DEF Waiting
  <2> QED
    BY <2>3, <2>4, ConsumersAre
<1> HIDE DEF e
<1>3. /\ FlowOK(queue, hand)' /\ NoClash(queue, hand)'
      /\ e \in OnWay /\ OnWay' \subseteq OnWay /\ OnWay \subseteq OnWay' \cup {e}
      /\ \A d \in OnWay' : ~Clash(e, d)
  BY <1>1, <1>2 DEF OnWay
<1> QED
  BY <1>3 DEF e

LEMMA SettleKeeps ==
  ASSUME SettlementInv, NEW w \in Consumers, Settle(w)
  PROVE  SettlementInv'
<1> DEFINE e == Head(hand[w])
<1>1. /\ hand[w] # <<>> /\ hand' = [hand EXCEPT ![w] = <<>>] /\ queue' = queue
      /\ mem' = mem /\ cached' = cached /\ nextID' = nextID /\ calls' = calls /\ sent' = sent
      /\ \/ Accepts(db, e) /\ db' = Settled(db, e) /\ apart' = apart
         \/ apart' = apart \cup {e.user} /\ db' = db
  BY DEF Settle, vars, notes
<1>2. /\ FlowOK(queue, hand)' /\ NoClash(queue, hand)'
      /\ e \in OnWay /\ OnWay' \subseteq OnWay /\ OnWay \subseteq OnWay' \cup {e}
      /\ \A d \in OnWay' : ~Clash(e, d)
  BY <1>1, Done
<1> HIDE DEF e
<1>3. CallsOK'
  BY <1>1 DEF SettlementInv, CallsOK
<1>4. CASE Accepts(db, e) /\ db' = Settled(db, e) /\ apart' = apart
  <2>1. OrdersInv'
    BY <1>1, <1>2, <1>4, SettledOrders DEF SettlementInv
  <2>2. PositionsInv'
    BY <1>1, <1>2, <1>4, SettledPositionsInv DEF SettlementInv
  <2> QED
    BY <1>2, <1>3, <2>1, <2>2 DEF SettlementInv
<1>5. CASE apart' = apart \cup {e.user} /\ db' = db
  <2>1. OrdersInv'
    BY <1>1, <1>2, <1>5, LostOrders DEF SettlementInv
  <2>2. PositionsInv'
    BY <1>1, <1>2, <1>5, SamePositionsInv DEF SettlementInv
  <2> QED
    BY <1>2, <1>3, <2>1, <2>2 DEF SettlementInv
<1> QED
  BY <1>1, <1>4, <1>5

LEMMA FailKeeps ==
  ASSUME SettlementInv, NEW w \in Consumers, Fail(w)
  PROVE  SettlementInv'
<1> DEFINE e == Head(hand[w])
<1>1. /\ hand[w] # <<>> /\ hand' = [hand EXCEPT ![w] = <<>>] /\ queue' = queue
      /\ mem' = mem /\ cached' = cached /\ nextID' = nextID /\ calls' = calls /\ sent' = sent
      /\ apart' = apart \cup {e.user} /\ db' = db
  BY DEF Fail, vars
<1>2. /\ FlowOK(queue, hand)' /\ NoClash(queue, hand)'
      /\ e \in OnWay /\ OnWay' \subseteq OnWay /\ OnWay \subseteq OnWay' \cup {e}
      /\ \A d \in OnWay' : ~Clash(e, d)
  BY <1>1, Done
<1> HIDE DEF e
<1>3. CallsOK'
  BY <1>1 DEF SettlementInv, CallsOK
<1>4. OrdersInv'
  BY <1>1, <1>2, LostOrders DEF SettlementInv
<1>5. PositionsInv'
  BY <1>1, <1>2, SamePositionsInv DEF SettlementInv
<1> QED
  BY <1>2, <1>3, <1>4, <1>5 DEF SettlementInv

\* Steps that only change accounts, in memory or in the database.
LEMMA AccountStep ==
  ASSUME SettlementInv, KeepsOwners(mem, mem'), mem'.pos = mem.pos,
         db'.orders = db.orders, db'.pos = db.pos,
         {"bal", "frozen", "orders", "pos"} \subseteq DOMAIN db',
         queue' = queue, hand' = hand, cached' = cached, nextID' = nextID,
         calls' = calls, sent' = sent, apart' = apart
  PROVE  SettlementInv'
<1>1. OnWay' = OnWay
  BY SameFlow
<1>2. OrdersInv'
  BY <1>1, SameOrders DEF SettlementInv
<1>3. PositionsInv'
  <2>1. mem'.lastPos \in Nat /\ mem.lastPos \in Nat /\ mem'.lastPos >= mem.lastPos /\ Sound(mem')
    BY DEF KeepsOwners, Sound, SettlementInv, PositionsInv
  <2>2. 1 .. mem.lastPos \subseteq 1 .. mem'.lastPos
    BY <2>1
  <2> QED
    BY <1>1, <2>1, <2>2 DEF SettlementInv, PositionsInv
<1>4. CallsOK'
  BY DEF SettlementInv, CallsOK
<1>5. FlowOK(queue, hand)' /\ NoClash(queue, hand)'
  BY DEF SettlementInv
<1> QED
  BY <1>2, <1>3, <1>4, <1>5 DEF SettlementInv

LEMMA ResetKeeps ==
  ASSUME SettlementInv, NEW u \in Users, CheckReset(u) \/ ResetRow(u) \/ ResetMemory(u)
  PROVE  SettlementInv'
<1>1. /\ Sound(mem) /\ KeepsOwners(mem, mem)
      /\ {"bal", "frozen", "orders", "pos"} \subseteq DOMAIN db
  <2>1. Sound(mem)
    BY DEF SettlementInv, PositionsInv
  <2> QED
    BY <2>1 DEF Sound, KeepsOwners, SettlementInv, OrdersInv, RowsOK
<1>2. CASE CheckReset(u)
  <2>1. /\ mem' = mem /\ db' = db /\ queue' = queue /\ hand' = hand /\ cached' = cached
        /\ nextID' = nextID /\ calls' = calls /\ sent' = sent /\ apart' = apart
    BY <1>2 DEF CheckReset, vars, flow, notes
  <2> QED
    BY <1>1, <2>1, AccountStep
<1>3. CASE ResetRow(u)
  <2> DEFINE bal == [db.bal EXCEPT ![u] = InitialBalance]
             frozen == [db.frozen EXCEPT ![u] = 0]
  <2>1. /\ mem' = mem /\ queue' = queue /\ hand' = hand /\ cached' = cached
        /\ nextID' = nextID /\ calls' = calls /\ sent' = sent /\ apart' = apart
        /\ db' = [db EXCEPT !.bal = bal, !.frozen = frozen]
    BY <1>3 DEF ResetRow, vars, notes
  <2> HIDE DEF bal, frozen
  <2>2. db'.orders = db.orders /\ db'.pos = db.pos /\ DOMAIN db' = DOMAIN db
    BY <1>1, <2>1
  <2> QED
    BY <1>1, <2>1, <2>2, AccountStep
<1>4. CASE ResetMemory(u)
  <2> DEFINE bal == [mem.bal EXCEPT ![u] = InitialBalance]
             frozen == [mem.frozen EXCEPT ![u] = 0]
  <2>1. /\ queue' = queue /\ hand' = hand /\ cached' = cached /\ db' = db
        /\ nextID' = nextID /\ calls' = calls /\ sent' = sent /\ apart' = apart
        /\ mem' = [mem EXCEPT !.bal = bal, !.frozen = frozen]
    BY <1>4 DEF ResetMemory, flow
  <2> HIDE DEF bal, frozen
  <2>2. /\ DOMAIN mem' = DOMAIN mem /\ mem' = [x \in DOMAIN mem' |-> mem'[x]]
        /\ mem'.pos = mem.pos /\ mem'.lastPos = mem.lastPos
    BY <1>1, <2>1 DEF Sound
  <2>3. KeepsOwners(mem, mem')
    BY <1>1, <2>2, AccountsKeep
  <2> QED
    BY <1>1, <2>1, <2>2, <2>3, AccountStep
<1> QED
  BY <1>2, <1>3, <1>4

LEMMA StopKeeps ==
  ASSUME SettlementInv, Stop
  PROVE  SettlementInv'
<1>1. /\ mem' = mem /\ db' = db /\ queue' = queue /\ hand' = hand /\ cached' = cached
      /\ nextID' = nextID /\ calls' = calls /\ sent' = sent /\ apart' = apart
  BY DEF Stop, vars, notes
<1>2. /\ KeepsOwners(mem, mem) /\ {"bal", "frozen", "orders", "pos"} \subseteq DOMAIN db
  <2>1. Sound(mem)
    BY DEF SettlementInv, PositionsInv
  <2> QED
    BY <2>1 DEF Sound, KeepsOwners, SettlementInv, OrdersInv, RowsOK
<1> QED
  BY <1>1, <1>2, AccountStep

\* Nothing is on its way.
LEMMA EmptyFlow ==
  ASSUME NEW h, h = [w \in Consumers |-> <<>>]
  PROVE  FlowOK(<<>>, h) /\ NoClash(<<>>, h) /\ Waiting(<<>>, h) = {}
<1>1. \A w \in Consumers : h[w] = <<>>
  OBVIOUS
<1>2. h = [w \in Consumers |-> h[w]]
  OBVIOUS
<1>3. Contents(<<>>) = {} /\ <<>> \in Seq(Contents(<<>>)) /\ DOMAIN <<>> = {}
  BY DEF Contents
<1>4. ClashFree(<<>>)
  BY <1>3 DEF ClashFree
<1> QED
  BY <1>1, <1>2, <1>3, <1>4, ConsumersAre DEF FlowOK, NoClash, Waiting

LEMMA ReloadKeeps ==
  ASSUME SettlementInv, Reload
  PROVE  SettlementInv'
<1>1. OrdersInv' /\ CallsOK' /\ OnWay' = {}
  BY ReloadedOrders DEF SettlementInv
<1>2. PositionsInv'
  BY <1>1, ReloadedPositions DEF SettlementInv
<1>3. queue' = <<>> /\ hand' = [w \in Consumers |-> <<>>]
  BY DEF Reload
<1>4. FlowOK(queue, hand)' /\ NoClash(queue, hand)'
  BY <1>3, EmptyFlow
<1> QED
  BY <1>1, <1>2, <1>4 DEF SettlementInv

-----------------------------------------------------------------------------
(* The theorems.                                                           *)

LEMMA SettlementInit == SInit => SettlementInv
<1> SUFFICES ASSUME SInit PROVE SettlementInv
  OBVIOUS
<1>1. /\ queue = <<>> /\ hand = [w \in Consumers |-> <<>>]
      /\ sent = {} /\ nextID = 0 /\ cached = << >>
      /\ calls = [t \in AllThreads |-> Idle] /\ mem = InitMem
      /\ db = [bal |-> [u \in Users |-> InitialBalance], frozen |-> [u \in Users |-> 0],
               orders |-> << >>, pos |-> << >>]
  BY DEF SInit, Init
<1>2. FlowOK(queue, hand) /\ NoClash(queue, hand) /\ OnWay = {}
  BY <1>1, EmptyFlow DEF OnWay
<1>3. /\ DOMAIN cached = {} /\ DOMAIN db.orders = {} /\ DOMAIN db.pos = {}
      /\ {"bal", "frozen", "orders", "pos"} \subseteq DOMAIN db
  BY <1>1
<1>4. \A t \in AllThreads : calls[t] = Idle
  BY <1>1
<1>5. CallsOK
  <2>1. calls = [t \in AllThreads |-> calls[t]]
    BY <1>1
  <2> QED
    BY <1>4, <2>1, IdleFields DEF CallsOK
<1>6. \A t \in Threads : ~Bearing(t) /\ ~Placing(t)
  <2>1. \A t \in Threads : calls[t].pc = "idle" /\ t \notin sent
    BY <1>1, <1>4, IdleFields, ThreadsAre
  <2> QED
    BY <2>1 DEF Bearing, Placing, Cancelling
<1>7. \A i, u : ~Named(i, u) /\ ~Stands(db.orders, OnWay, i, u)
  BY <1>2, <1>3, <1>6 DEF Named, Stands
<1>8. OrdersInv
  <2>1. NamesOK
    BY <1>1, <1>7 DEF NamesOK
  <2>2. RowsOK
    BY <1>2, <1>3 DEF RowsOK
  <2>3. HoldersOK
    BY <1>1, <1>6 DEF HoldersOK
  <2>4. CachedOK
    BY <1>3, <1>7 DEF CachedOK
  <2> QED
    BY <2>1, <2>2, <2>3, <2>4 DEF OrdersInv
<1>9. PositionsInv
  <2>1. Sound(mem)
    <3>1. DOMAIN InitMem.pos = {} /\ InitMem.lastPos = 0
      BY DEF InitMem
    <3>2. /\ {"bal", "pos", "lastPos", "bought", "paid", "fees", "lost"} \subseteq DOMAIN InitMem
          /\ InitMem = [x \in DOMAIN InitMem |-> InitMem[x]]
      BY DEF InitMem
    <3> QED
      BY <1>1, <3>1, <3>2 DEF Sound
  <2> QED
    BY <1>2, <1>3, <2>1 DEF PositionsInv
<1> QED
  BY <1>2, <1>5, <1>8, <1>9 DEF SettlementInv

LEMMA SettlementStep == SettlementInv /\ [SNext]_svars => SettlementInv'
<1> SUFFICES ASSUME SettlementInv, [SNext]_svars
             PROVE  SettlementInv'
  OBVIOUS
<1>1. CASE UNCHANGED svars
  <2>1. /\ mem' = mem /\ db' = db /\ queue' = queue /\ hand' = hand /\ cached' = cached
        /\ nextID' = nextID /\ calls' = calls /\ sent' = sent /\ apart' = apart
    BY <1>1 DEF svars, vars, flow, notes
  <2>2. /\ KeepsOwners(mem, mem) /\ {"bal", "frozen", "orders", "pos"} \subseteq DOMAIN db
    <3>1. Sound(mem)
      BY DEF SettlementInv, PositionsInv
    <3> QED
      BY <3>1 DEF Sound, KeepsOwners, SettlementInv, OrdersInv, RowsOK
  <2> QED
    BY <2>1, <2>2, AccountStep
<1>2. ASSUME NEW t \in Threads,
             \/ SilentStep(t) \/ SubmitFilled(t) \/ SubmitResting(t)
             \/ RegisterSent(t) \/ SubmitCancel(t) \/ SubmitTrade(t)
      PROVE  SettlementInv'
  BY <1>2, SilentKeeps, SubmitFilledKeeps, SubmitRestingKeeps, RegisterSentKeeps,
     SubmitCancelKeeps, SubmitTradeKeeps
<1>3. ASSUME NEW w \in Consumers, TakeEvent(w) \/ Settle(w) \/ Fail(w)
      PROVE  SettlementInv'
  BY <1>3, TakeKeeps, SettleKeeps, FailKeeps
<1>4. ASSUME NEW u \in Users, CheckReset(u) \/ ResetRow(u) \/ ResetMemory(u)
      PROVE  SettlementInv'
  BY <1>4, ResetKeeps
<1>5. CASE Stop
  BY <1>5, StopKeeps
<1>6. CASE Crash \/ Halt
  BY <1>6, ReloadKeeps DEF Crash, Halt
<1> QED
  BY <1>1, <1>2, <1>3, <1>4, <1>5, <1>6 DEF SNext

LEMMA SettlementAlways == SSpec => []SettlementInv
  BY SettlementInit, SettlementStep, PTL DEF SSpec

\* NextOrderID and nextPosID, and the two counters LoadCachesFromDB starts from
\* the largest ID of a table: no insert of the settler ever meets a row that is
\* there, or another insert of the same row, whatever was lost when the process
\* ended, however often it ended and whatever transactions failed.
THEOREM IDsStayFresh == SSpec => []KeysFresh
<1>1. SettlementInv => KeysFresh
  <2> SUFFICES ASSUME SettlementInv PROVE KeysFresh
    OBVIOUS
  <2>1. Contents(Unsettled) = OnWay /\ ClashFree(Unsettled)
    BY UnsettledFacts DEF SettlementInv, OnWay
  <2>2. \A n \in DOMAIN Unsettled : Unsettled[n] \in OnWay
    BY <2>1 DEF Contents
  <2>3. \A n \in DOMAIN Unsettled :
          /\ Unsettled[n].type = "create" => Unsettled[n].order \notin DOMAIN db.orders
          /\ Unsettled[n].type = "open" => Unsettled[n].pos \notin DOMAIN db.pos
    BY <2>2 DEF SettlementInv, OrdersInv, RowsOK, PositionsInv
  <2>4. \A n, k \in DOMAIN Unsettled : Clash(Unsettled[n], Unsettled[k]) => n = k
    BY <2>1 DEF ClashFree
  <2> QED
    BY <2>3, <2>4 DEF KeysFresh, Clash
<1> QED
  BY <1>1, SettlementAlways, PTL

\* The order cache and the orders table (checkOrders of the reconciler would
\* compare them): once everything of a user has been settled and nothing of it
\* was rolled back, the orders he can cancel are those the database has pending,
\* with any number of users, cancels, restarts and resets.
THEOREM OrdersStayBackedUp == SSpec => []OrdersBackedUp
<1>1. SettlementInv => OrdersBackedUp
  <2> SUFFICES ASSUME SettlementInv, NEW u \in Users, Quiet(u)
               PROVE  {i \in DOMAIN cached : cached[i].user = u} = Pending(u)
    BY DEF OrdersBackedUp
  <2>1. Contents(Unsettled) = OnWay
    BY UnsettledFacts DEF SettlementInv, OnWay
  <2>2. \A e \in OnWay : e.user # u
    BY <2>1 DEF Contents, Quiet
  <2>3. u \notin apart /\ \A t \in Threads : calls[t].user # u
    BY DEF Quiet
  <2>4. ASSUME NEW i
        PROVE  i \in DOMAIN cached /\ cached[i].user = u <=> i \in Pending(u)
    <3>1. Stands(db.orders, OnWay, i, u) <=> i \in Pending(u)
      BY <2>2 DEF Stands, Pending
    <3>2. i \in Pending(u) => Named(i, u)
      BY DEF Pending, Named
    <3>3. Named(i, u) => ~CancelWaits(OnWay, i)
      <4>1. \A e \in OnWay : e.type = "cancel" /\ e.order = i => Named(i, e.user)
        BY DEF Named
      <4> QED
        BY <2>2, <4>1 DEF CancelWaits, SettlementInv, OrdersInv, NamesOK
    <3>4. Named(i, u) => \A t \in sent : calls[t].id # i
      <4>1. \A t \in sent : t \in Threads /\ Named(calls[t].id, calls[t].user)
        BY DEF SettlementInv, OrdersInv, HoldersOK, Named, Bearing
      <4> QED
        BY <2>3, <4>1 DEF SettlementInv, OrdersInv, NamesOK
    <3>5. i \in DOMAIN cached /\ cached[i].user = u
            <=> /\ Stands(db.orders, OnWay, i, u) /\ ~CancelWaits(OnWay, i)
                /\ \A t \in sent : calls[t].id # i
      BY <2>3 DEF SettlementInv, OrdersInv, CachedOK
    <3> QED
      BY <3>1, <3>2, <3>3, <3>4, <3>5
  <2>5. Pending(u) \subseteq DOMAIN db.orders
    BY DEF Pending
  <2> QED
    BY <2>4
<1> QED
  BY <1>1, SettlementAlways, PTL

-----------------------------------------------------------------------------
(* Everything UpdatePosition does to positions, the settler hears of.      *)

\* The events ev that tell how leg l took the positions from m to n.
TradeTells(ev, m, n, l) ==
  /\ \A e \in Contents(ev) :
       /\ e.type = "reduce" => /\ e.pos \in DOMAIN n.pos
                               /\ e.row.qty = n.pos[e.pos].qty
                               /\ e.row.margin = n.pos[e.pos].margin
       /\ e.type = "close" => e.pos \notin DOMAIN n.pos /\ e.row.state = "Closed"
  /\ \A i \in DOMAIN n.pos \ DOMAIN m.pos :
       \E e \in Contents(ev) : e.type = "open" /\ e.pos = i
  /\ \A i \in DOMAIN m.pos \ DOMAIN n.pos :
       m.pos[i].side # l.side => \E e \in Contents(ev) : e.type = "close" /\ e.pos = i
  /\ \A i \in DOMAIN m.pos \cap DOMAIN n.pos : n.pos[i] # m.pos[i] =>
       \E e \in Contents(ev) : /\ e.pos = i
                               /\ e.type = IF m.pos[i].side = l.side THEN "increase" ELSE "reduce"

LEMMA TradeIsTold ==
  ASSUME NEW m, Sound(m), NEW l, NEW n, KeepsOwners(m, n), NEW id, l.user \in Users
  PROVE  TradeTells(TradeEvents(m, n, l, id), m, n, l)
<1> DEFINE event(type, i, delta, row) ==
             [type |-> type, user |-> l.user, order |-> id, pos |-> i,
              delta |-> delta, row |-> row]
           total  == n.bal[l.user] - m.bal[l.user]
           opened == DOMAIN n.pos \ DOMAIN m.pos
           less   == {i \in DOMAIN m.pos : /\ m.pos[i].side # l.side
                                           /\ i \in DOMAIN n.pos => n.pos[i] # m.pos[i]}
           more   == {i \in DOMAIN m.pos \cap DOMAIN n.pos :
                        m.pos[i].side = l.side /\ n.pos[i] # m.pos[i]}
           back   == SumFunctionOnSet([i \in DOMAIN m.pos |->
                                    LET cr == CalcReduce(m.pos[i], l.price, l.qty)
                                    IN  cr.margin + cr.net], less)
           reduced(i) == IF i \in DOMAIN n.pos
                         THEN event("reduce", i, back,
                                    [qty |-> n.pos[i].qty, margin |-> n.pos[i].margin])
                         ELSE event("close", i, back, [state |-> "Closed"])
           increased(i) == event("increase", i, total, << >>)
           added(i) == event("open", i, total - back, n.pos[i])
           R == {reduced(i) : i \in less}
           I == {increased(i) : i \in more}
           O == {added(i) : i \in opened}
           ev == TradeEvents(m, n, l, id)
<1>1. ev = SetToSeq(R) \o SetToSeq(I) \o SetToSeq(O)
  BY Zenon DEF TradeEvents
<1>2. IsFiniteSet(less) /\ IsFiniteSet(more) /\ IsFiniteSet(opened)
  <2>1. /\ m.lastPos \in Nat /\ DOMAIN m.pos \subseteq 1 .. m.lastPos
        /\ n.lastPos \in Nat /\ DOMAIN n.pos \subseteq 1 .. n.lastPos
    BY DEF Sound, KeepsOwners
  <2>2. \A k \in Nat : k \in Int /\ 1 \in Int
    OBVIOUS
  <2>3. \A k \in Nat : IsFiniteSet(1 .. k)
    BY <2>2, FS_Interval
  <2> QED
    BY <2>1, <2>3, FS_Subset
<1>3. /\ \A i : /\ reduced(i).pos = i
                /\ i \in DOMAIN n.pos => /\ reduced(i).type = "reduce"
                                         /\ reduced(i).row.qty = n.pos[i].qty
                                         /\ reduced(i).row.margin = n.pos[i].margin
                /\ i \notin DOMAIN n.pos => /\ reduced(i).type = "close"
                                            /\ reduced(i).row.state = "Closed"
      /\ \A i : increased(i).pos = i /\ increased(i).type = "increase"
      /\ \A i : added(i).pos = i /\ added(i).type = "open"
  OBVIOUS
<1> HIDE DEF reduced, increased, added, total, back
<1>4. IsFiniteSet(R) /\ IsFiniteSet(I) /\ IsFiniteSet(O)
  <2> DEFINE fr == [i \in less |-> reduced(i)]
             fi == [i \in more |-> increased(i)]
             fo == [i \in opened |-> added(i)]
  <2>1. R = {fr[i] : i \in less} /\ I = {fi[i] : i \in more} /\ O = {fo[i] : i \in opened}
    OBVIOUS
  <2>2. /\ fr = [i \in less |-> fr[i]] /\ fi = [i \in more |-> fi[i]]
        /\ fo = [i \in opened |-> fo[i]]
    OBVIOUS
  <2> HIDE DEF fr, fi, fo, R, I, O, less, more, opened
  <2> QED
    BY <1>2, <2>1, <2>2, FiniteRange
<1> HIDE DEF R, I, O, ev
<1> DEFINE r == SetToSeq(R)
           i == SetToSeq(I)
           o == SetToSeq(O)
<1>5. /\ r \in Seq(Contents(r)) /\ i \in Seq(Contents(i)) /\ o \in Seq(Contents(o))
      /\ Contents(r) = R /\ Contents(i) = I /\ Contents(o) = O
  <2>1. r \in Seq(R) /\ i \in Seq(I) /\ o \in Seq(O)
    BY <1>4, SeqOfSet
  <2>2. Contents(r) = R /\ Contents(i) = I /\ Contents(o) = O
    BY <1>4, SeqOfSetAll DEF Contents
  <2> QED
    BY <2>1, <2>2
<1> HIDE DEF r, i, o
<1>6. Contents(ev) = R \cup I \cup O
  <2>1. r \o i \in Seq(Contents(r \o i)) /\ Contents(r \o i) = R \cup I
    BY <1>5, JoinedContents
  <2>2. Contents((r \o i) \o o) = (R \cup I) \cup O
    BY <1>5, <2>1, JoinedContents
  <2>3. ev = (r \o i) \o o
    BY <1>1 DEF r, i, o
  <2> QED
    BY <2>2, <2>3
<1>7. ASSUME NEW e \in R \cup I \cup O
      PROVE  /\ e.type = "reduce" => /\ e.pos \in DOMAIN n.pos
                                     /\ e.row.qty = n.pos[e.pos].qty
                                     /\ e.row.margin = n.pos[e.pos].margin
             /\ e.type = "close" => e.pos \notin DOMAIN n.pos /\ e.row.state = "Closed"
  BY <1>3, <1>7 DEF R, I, O
<1>8. ASSUME NEW j \in opened
      PROVE  \E e \in R \cup I \cup O : e.type = "open" /\ e.pos = j
  <2>1. added(j) \in O
    BY <1>8 DEF O
  <2> QED
    BY <1>3, <2>1
<1>9. ASSUME NEW j \in DOMAIN m.pos \ DOMAIN n.pos, m.pos[j].side # l.side
      PROVE  \E e \in R \cup I \cup O : e.type = "close" /\ e.pos = j
  <2>1. reduced(j) \in R
    BY <1>9 DEF R
  <2> QED
    BY <1>3, <1>9, <2>1
<1>10. ASSUME NEW j \in DOMAIN m.pos \cap DOMAIN n.pos, n.pos[j] # m.pos[j]
       PROVE  \E e \in R \cup I \cup O :
                /\ e.pos = j
                /\ e.type = IF m.pos[j].side = l.side THEN "increase" ELSE "reduce"
  <2>1. CASE m.pos[j].side = l.side
    <3>1. increased(j) \in I
      BY <1>10, <2>1 DEF I
    <3> QED
      BY <1>3, <2>1, <3>1
  <2>2. CASE m.pos[j].side # l.side
    <3>1. reduced(j) \in R
      BY <1>10, <2>2 DEF R
    <3> QED
      BY <1>3, <1>10, <2>2, <3>1
  <2> QED
    BY <2>1, <2>2
<1>11. TradeTells(ev, m, n, l)
  BY <1>6, <1>7, <1>8, <1>9, <1>10 DEF TradeTells
<1> QED
  BY <1>11 DEF ev

-----------------------------------------------------------------------------
(* The events in the order the worker settles them.                        *)

\* While the worker is the only consumer.
Stream == hand[Worker] \o queue

\* Event e says how much position i is.
Word(e, i) == e.type \in {"open", "reduce"} /\ e.pos = i

NoWord(s, i) == \A k \in DOMAIN s : ~Word(s[k], i)

\* e is the last word of s about i.
LastWord(s, i, e) ==
  \E k \in DOMAIN s : /\ s[k] = e /\ Word(e, i)
                      /\ \A j \in DOMAIN s : j > k => ~Word(s[j], i)

LEMMA JoinedWords ==
  ASSUME NEW s, s \in Seq(Contents(s)), NEW r, r \in Seq(Contents(r)), NEW i, NEW e
  PROVE  /\ NoWord(s \o r, i) <=> NoWord(s, i) /\ NoWord(r, i)
         /\ LastWord(s \o r, i, e) <=> \/ LastWord(r, i, e)
                                       \/ NoWord(r, i) /\ LastWord(s, i, e)
<1> DEFINE j == s \o r
           n == Len(s)
<1>1. /\ DOMAIN s = 1 .. n /\ DOMAIN r = 1 .. Len(r)
      /\ n \in Nat /\ Len(r) \in Nat
      /\ DOMAIN j = 1 .. n + Len(r)
      /\ \A k \in DOMAIN s : j[k] = s[k]
      /\ \A k \in DOMAIN r : j[n + k] = r[k]
  BY JoinedFacts DEF Contents
<1> HIDE DEF j, n
<1>2. /\ \A k \in DOMAIN s : k \in DOMAIN j /\ k \in Nat /\ k <= n
      /\ \A k \in DOMAIN r : n + k \in DOMAIN j /\ k \in Nat /\ n + k > n
      /\ \A k \in DOMAIN j : k \in Nat
      /\ \A k \in DOMAIN j : k > n => /\ k - n \in DOMAIN r /\ n + (k - n) = k
      /\ \A k \in DOMAIN j : k <= n => k \in DOMAIN s
  BY <1>1
<1>3. \A k \in DOMAIN j : k > n => j[k] = r[k - n]
  BY <1>1, <1>2
<1>4. NoWord(j, i) <=> NoWord(s, i) /\ NoWord(r, i)
  <2>1. ASSUME NoWord(j, i) PROVE NoWord(s, i) /\ NoWord(r, i)
    BY <1>1, <1>2, <2>1 DEF NoWord
  <2>2. ASSUME NoWord(s, i), NoWord(r, i), NEW k \in DOMAIN j PROVE ~Word(j[k], i)
    <3>1. k <= n \/ k > n
      BY <1>1, <1>2
    <3> QED
      BY <1>1, <1>2, <1>3, <2>2, <3>1 DEF NoWord
  <2> QED
    BY <2>1, <2>2 DEF NoWord
<1>5. ASSUME LastWord(r, i, e)
      PROVE  LastWord(j, i, e)
  <2>1. PICK k \in DOMAIN r : /\ r[k] = e /\ Word(e, i)
                              /\ \A l \in DOMAIN r : l > k => ~Word(r[l], i)
    BY <1>5 DEF LastWord
  <2>2. n + k \in DOMAIN j /\ j[n + k] = e /\ k \in Nat
    BY <1>1, <1>2, <2>1
  <2>3. ASSUME NEW l \in DOMAIN j, l > n + k
        PROVE  ~Word(j[l], i)
    <3>1. l > n /\ l - n > k
      BY <1>1, <1>2, <2>2, <2>3
    <3> QED
      BY <1>2, <1>3, <2>1, <3>1
  <2> QED
    BY <2>1, <2>2, <2>3 DEF LastWord
<1>6. ASSUME NoWord(r, i), LastWord(s, i, e)
      PROVE  LastWord(j, i, e)
  <2>1. PICK k \in DOMAIN s : /\ s[k] = e /\ Word(e, i)
                              /\ \A l \in DOMAIN s : l > k => ~Word(s[l], i)
    BY <1>6 DEF LastWord
  <2>2. ASSUME NEW l \in DOMAIN j, l > k
        PROVE  ~Word(j[l], i)
    <3>1. l <= n \/ l > n
      BY <1>1, <1>2
    <3> QED
      BY <1>1, <1>2, <1>3, <1>6, <2>1, <2>2, <3>1 DEF NoWord
  <2> QED
    BY <1>1, <1>2, <2>1, <2>2 DEF LastWord
<1>7. ASSUME LastWord(j, i, e)
      PROVE  LastWord(r, i, e) \/ (NoWord(r, i) /\ LastWord(s, i, e))
  <2>1. PICK k \in DOMAIN j : /\ j[k] = e /\ Word(e, i)
                              /\ \A l \in DOMAIN j : l > k => ~Word(j[l], i)
    BY <1>7 DEF LastWord
  <2>2. CASE k > n
    <3>1. k - n \in DOMAIN r /\ r[k - n] = e
      BY <1>2, <1>3, <2>1, <2>2
    <3>2. ASSUME NEW l \in DOMAIN r, l > k - n
          PROVE  ~Word(r[l], i)
      <4>1. n + l \in DOMAIN j /\ n + l > k /\ j[n + l] = r[l]
        BY <1>1, <1>2, <3>2
      <4> QED
        BY <2>1, <4>1
    <3> QED
      BY <2>1, <3>1, <3>2 DEF LastWord
  <2>3. CASE k <= n
    <3>1. k \in DOMAIN s /\ s[k] = e
      BY <1>1, <1>2, <2>1, <2>3
    <3>2. NoWord(r, i)
      <4> SUFFICES ASSUME NEW l \in DOMAIN r PROVE ~Word(r[l], i)
        BY DEF NoWord
      <4>1. n + l \in DOMAIN j /\ n + l > k /\ j[n + l] = r[l]
        BY <1>1, <1>2, <2>3
      <4> QED
        BY <2>1, <4>1
    <3>3. LastWord(s, i, e)
      BY <1>1, <1>2, <2>1, <3>1 DEF LastWord
    <3> QED
      BY <3>2, <3>3
  <2> QED
    BY <1>1, <1>2, <2>2, <2>3
<1> QED
  BY <1>4, <1>5, <1>6, <1>7 DEF j

LEMMA OneWord ==
  ASSUME NEW h, NEW i
  PROVE  /\ <<h>> \in Seq(Contents(<<h>>)) /\ Contents(<<h>>) = {h}
         /\ Word(h, i) => LastWord(<<h>>, i, h)
         /\ ~Word(h, i) => NoWord(<<h>>, i)
<1> DEFINE s == <<h>>
<1>1. DOMAIN s = {1} /\ s[1] = h /\ s \in Seq({h})
  OBVIOUS
<1> HIDE DEF s
<1>2. Contents(s) = {h}
  BY <1>1 DEF Contents
<1>3. Word(h, i) => LastWord(s, i, h)
  BY <1>1 DEF LastWord
<1>4. ~Word(h, i) => NoWord(s, i)
  BY <1>1 DEF NoWord
<1> QED
  BY <1>1, <1>2, <1>3, <1>4 DEF s

\* What is on its way while the worker is alone.
LEMMA StreamFacts ==
  ASSUME FlowOK(queue, hand), hand[Main] = <<>>
  PROVE  Stream \in Seq(Contents(Stream)) /\ Contents(Stream) = OnWay
<1>1. /\ hand[Worker] \in Seq(Contents(hand[Worker])) /\ Contents(hand[Main]) = {}
  BY HandFacts, ConsumersAre DEF FlowOK
<1>2. /\ Stream \in Seq(Contents(Stream))
      /\ Contents(Stream) = Contents(hand[Worker]) \cup Contents(queue)
  BY <1>1, JoinedContents DEF FlowOK, Stream
<1> QED
  BY <1>1, <1>2 DEF OnWay, Waiting

LEMMA StreamGrows ==
  ASSUME FlowOK(queue, hand), NEW ev, ev \in Seq(Contents(ev)),
         queue' = queue \o ev, hand' = hand
  PROVE  Stream' = Stream \o ev
<1>1. hand[Worker] \in Seq(Contents(hand[Worker])) /\ queue \in Seq(Contents(queue))
  BY HandFacts, ConsumersAre DEF FlowOK
<1> DEFINE S == Contents(hand[Worker]) \cup Contents(queue) \cup Contents(ev)
<1>2. hand[Worker] \in Seq(S) /\ queue \in Seq(S) /\ ev \in Seq(S)
  BY <1>1
<1> HIDE DEF S
<1>3. \A a, b, c \in Seq(S) : a \o (b \o c) = (a \o b) \o c
  OBVIOUS
<1> QED
  BY <1>2, <1>3 DEF Stream

\* The worker takes the next event.
LEMMA StreamStays ==
  ASSUME FlowOK(queue, hand), queue # <<>>, hand[Worker] = <<>>,
         hand' = [hand EXCEPT ![Worker] = <<Head(queue)>>], queue' = Tail(queue)
  PROVE  Stream' = Stream
<1>1. hand'[Worker] = <<Head(queue)>>
  BY ConsumersAre DEF FlowOK
<1>2. queue \in Seq(Contents(queue))
  BY DEF FlowOK
<1>3. <<Head(queue)>> \o Tail(queue) = queue /\ <<>> \o queue = queue
  BY <1>2
<1> QED
  BY <1>1, <1>3 DEF Stream

\* The worker is done with its event.
LEMMA StreamDrops ==
  ASSUME FlowOK(queue, hand), hand[Worker] # <<>>,
         hand' = [hand EXCEPT ![Worker] = <<>>], queue' = queue
  PROVE  /\ Stream = <<Head(hand[Worker])>> \o queue
         /\ Stream' = queue /\ queue \in Seq(Contents(queue))
<1>1. hand'[Worker] = <<>> /\ queue \in Seq(Contents(queue))
  BY ConsumersAre DEF FlowOK
<1>2. hand[Worker] = <<hand[Worker][1]>> /\ Head(hand[Worker]) = hand[Worker][1]
  BY HandFacts, ConsumersAre DEF FlowOK
<1>3. <<>> \o queue = queue
  BY <1>1
<1> QED
  BY <1>1, <1>2, <1>3 DEF Stream

-----------------------------------------------------------------------------
(* Positions: that the database will have those of memory.                 *)

TradeTypes == {"open", "increase", "reduce", "close"}

RowOK(r) == DOMAIN r = RowFields /\ r.side \in Sides

PosRowsOK ==
  /\ \A i \in DOMAIN mem.pos : RowOK(mem.pos[i])
  /\ \A i \in DOMAIN db.pos : RowOK(db.pos[i])
  /\ \A e \in OnWay : e.type = "open" =>
       RowOK(e.row) /\ e.row.user = e.user /\ e.row.state = Active
  /\ \A e \in OnWay : e.type = "close" => e.row.state = "Closed"

\* Position i is said to be of u.
PosOf(i, u) ==
  \/ i \in DOMAIN mem.pos /\ mem.pos[i].user = u
  \/ i \in DOMAIN db.pos /\ db.pos[i].user = u
  \/ \E e \in OnWay : e.type \in TradeTypes /\ e.pos = i /\ e.user = u

\* Everything said about a position names one user.
OwnersOK ==
  /\ \A i, u : PosOf(i, u) => i \in 1 .. mem.lastPos
  /\ \A i, u, v : PosOf(i, u) /\ PosOf(i, v) => u = v

\* The database has position i of u open once it has settled w.
StaysOpen(rows, w, i, u) ==
  /\ \/ i \in DOMAIN rows /\ rows[i].user = u /\ rows[i].state = Active
     \/ \E e \in w : e.type = "open" /\ e.pos = i /\ e.user = u
  /\ ~\E e \in w : e.type = "close" /\ e.pos = i

HeldOK ==
  \A i, u : u \in Users /\ u \notin apart =>
    (i \in HeldBy(mem, u) <=> StaysOpen(db.pos, OnWay, i, u))

Agree(r, p) == r.qty = p.qty /\ r.margin = p.margin

\* The last that is said about a position that was not increased, and nothing
\* said when it is the database that says it, is what memory has.
AmountsOK ==
  \A i \in DOMAIN mem.pos \ merged :
    mem.pos[i].user \in Users /\ mem.pos[i].user \notin apart =>
      /\ \A e : LastWord(Stream, i, e) => Agree(e.row, mem.pos[i])
      /\ NoWord(Stream, i) => Agree(db.pos[i], mem.pos[i])
      /\ i \in DOMAIN db.pos => db.pos[i].entry = mem.pos[i].entry
      /\ \A e \in OnWay : e.type = "open" /\ e.pos = i => e.row.entry = mem.pos[i].entry

PosSync ==
  /\ PosRowsOK /\ OwnersOK /\ HeldOK
  /\ ~stopping => hand[Main] = <<>> /\ AmountsOK

\* Owners, sides, entry prices and amounts stay what they are.
SameRows(m, n) ==
  /\ n.lastPos = m.lastPos /\ DOMAIN n.pos = DOMAIN m.pos
  /\ \A i \in DOMAIN m.pos :
       /\ DOMAIN n.pos[i] = DOMAIN m.pos[i]
       /\ n.pos[i].user = m.pos[i].user /\ n.pos[i].side = m.pos[i].side
       /\ n.pos[i].entry = m.pos[i].entry /\ Agree(n.pos[i], m.pos[i])

\* The settler hears of orders at most.
LEMMA QuietSync ==
  ASSUME SettlementInv, PosSync, SameRows(mem, mem'), db'.pos = db.pos,
         apart' = apart, merged' = merged, stopping' = stopping, hand' = hand,
         NEW ev, ev \in Seq(Contents(ev)), queue' = queue \o ev,
         \A e \in Contents(ev) : e.type \notin TradeTypes
  PROVE  PosSync'
<1>1. FlowOK(queue, hand)
  BY DEF SettlementInv
<1>2. OnWay' = OnWay \cup Contents(ev)
  BY <1>1, AppendFlow DEF OnWay
<1>3. \A e \in OnWay' : e.type \in TradeTypes => e \in OnWay
  BY <1>2
<1>4. OnWay \subseteq OnWay'
  BY <1>2
<1>5. \A i, u : PosOf(i, u)' <=> PosOf(i, u)
  BY <1>3, <1>4 DEF PosOf, SameRows
<1>6. PosRowsOK'
  <2>1. \A i \in DOMAIN mem'.pos : RowOK(mem'.pos[i])
    BY DEF PosSync, PosRowsOK, SameRows, RowOK
  <2> QED
    BY <1>3, <2>1 DEF PosSync, PosRowsOK, TradeTypes
<1>7. OwnersOK'
  BY <1>5 DEF PosSync, OwnersOK, SameRows
<1>8. HeldOK'
  <2>1. \A i, u : StaysOpen(db.pos, OnWay', i, u) <=> StaysOpen(db.pos, OnWay, i, u)
    BY <1>3, <1>4 DEF StaysOpen, TradeTypes
  <2>2. \A u : HeldBy(mem', u) = HeldBy(mem, u)
    BY DEF HeldBy, SameRows
  <2> QED
    BY <2>1, <2>2 DEF PosSync, HeldOK
<1>9. ASSUME ~stopping
      PROVE  hand'[Main] = <<>> /\ AmountsOK'
  <2>1. hand[Main] = <<>> /\ AmountsOK
    BY <1>9 DEF PosSync
  <2>2. Stream' = Stream \o ev
    BY <1>1, StreamGrows
  <2>3. Stream \in Seq(Contents(Stream))
    BY <1>1, <2>1, StreamFacts
  <2>4. \A i : NoWord(ev, i) /\ \A e : ~LastWord(ev, i, e)
    BY DEF NoWord, LastWord, Word, Contents, TradeTypes
  <2>5. \A i : /\ NoWord(Stream', i) <=> NoWord(Stream, i)
               /\ \A e : LastWord(Stream', i, e) <=> LastWord(Stream, i, e)
    BY <2>2, <2>3, <2>4, JoinedWords
  <2>6. AmountsOK'
    <3> SUFFICES ASSUME NEW i \in DOMAIN mem'.pos \ merged',
                        mem'.pos[i].user \in Users, mem'.pos[i].user \notin apart'
                 PROVE  /\ \A e : LastWord(Stream', i, e) => Agree(e.row, mem'.pos[i])
                        /\ NoWord(Stream', i) => Agree(db'.pos[i], mem'.pos[i])
                        /\ i \in DOMAIN db'.pos => db'.pos[i].entry = mem'.pos[i].entry
                        /\ \A e \in OnWay' : e.type = "open" /\ e.pos = i =>
                             e.row.entry = mem'.pos[i].entry
      BY DEF AmountsOK
    <3>1. /\ i \in DOMAIN mem.pos \ merged
          /\ mem.pos[i].user \in Users /\ mem.pos[i].user \notin apart
      BY DEF SameRows
    <3>2. /\ \A e : LastWord(Stream, i, e) => Agree(e.row, mem.pos[i])
          /\ NoWord(Stream, i) => Agree(db.pos[i], mem.pos[i])
          /\ i \in DOMAIN db.pos => db.pos[i].entry = mem.pos[i].entry
          /\ \A e \in OnWay : e.type = "open" /\ e.pos = i => e.row.entry = mem.pos[i].entry
      BY <2>1, <3>1 DEF AmountsOK
    <3>3. mem'.pos[i].entry = mem.pos[i].entry /\ \A r : Agree(r, mem.pos[i]) => Agree(r, mem'.pos[i])
      BY <3>1 DEF SameRows, Agree
    <3> QED
      BY <1>3, <2>5, <3>2, <3>3 DEF TradeTypes
  <2> QED
    BY <2>1, <2>6
<1> QED
  BY <1>6, <1>7, <1>8, <1>9 DEF PosSync

\* Nothing is said at all.
LEMMA StillSync ==
  ASSUME SettlementInv, PosSync, SameRows(mem, mem'), db'.pos = db.pos,
         apart' = apart, merged' = merged, stopping' = stopping, hand' = hand, queue' = queue
  PROVE  PosSync'
<1> DEFINE ev == <<>>
<1>1. ev \in Seq(Contents(ev)) /\ Contents(ev) = {}
  BY DEF Contents
<1>2. queue' = queue \o ev
  BY DEF SettlementInv, FlowOK
<1> HIDE DEF ev
<1> QED
  BY <1>1, <1>2, QuietSync

\* UpdatePosition, and the events that tell of it.
LEMMA TradeSync ==
  ASSUME SettlementInv, PosSync, NEW l, l.side \in Sides, NEW id,
         KeepsOwners(mem, mem'), OwnOnly(mem, mem', l.user), Legged(mem, mem', l.side),
         db' = db, apart' = apart, stopping' = stopping, hand' = hand,
         NEW ev, ev = TradeEvents(mem, mem', l, id), queue' = queue \o ev,
         merged' = merged \cup {ev[n].pos : n \in {n \in DOMAIN ev : ev[n].type = "increase"}}
  PROVE  PosSync'
<1>1. FlowOK(queue, hand) /\ Sound(mem)
  BY DEF SettlementInv, PositionsInv
<1>2. /\ ev \in Seq(Contents(ev))
      /\ \A e \in Contents(ev) : TradeEvent(e, mem, mem', l, id)
  BY <1>1, TradeEventsFacts
<1>3. OnWay' = OnWay \cup Contents(ev)
  BY <1>1, <1>2, AppendFlow DEF OnWay
<1>4. l.user \in Users => TradeTells(ev, mem, mem', l)
  BY <1>1, TradeIsTold
<1>5. \A e \in Contents(ev) : e.type = "increase" => e.pos \in merged'
  BY DEF Contents
<1>6. \A i \in DOMAIN mem'.pos \ DOMAIN mem.pos :
        /\ i \notin 1 .. mem.lastPos /\ i \in 1 .. mem'.lastPos
        /\ mem'.pos[i].user = l.user
        /\ RowOK(mem'.pos[i]) /\ mem'.pos[i].state = Active
  <2>1. \A i \in DOMAIN mem'.pos \ DOMAIN mem.pos :
          i \notin 1 .. mem.lastPos /\ i \in 1 .. mem'.lastPos
    BY DEF KeepsOwners, Sound
  <2>2. \A i \in DOMAIN mem'.pos \ DOMAIN mem.pos : mem'.pos[i].user = l.user
    BY DEF OwnOnly
  <2>3. \A i \in DOMAIN mem'.pos \ DOMAIN mem.pos :
          RowOK(mem'.pos[i]) /\ mem'.pos[i].state = Active
    BY DEF Legged, RowOK
  <2> QED
    BY <2>1, <2>2, <2>3
<1>7. \A i \in DOMAIN mem.pos \cap DOMAIN mem'.pos :
        /\ mem'.pos[i].user = mem.pos[i].user
        /\ RowOK(mem'.pos[i])
  BY DEF KeepsOwners, Legged, PosSync, PosRowsOK, RowOK
<1>8. \A e \in Contents(ev) :
        /\ e.user = l.user /\ e.type \in TradeTypes
        /\ e.type = "open" => /\ e.pos \in DOMAIN mem'.pos \ DOMAIN mem.pos
                              /\ e.row = mem'.pos[e.pos]
        /\ e.type # "open" => e.pos \in DOMAIN mem.pos /\ mem.pos[e.pos].user = l.user
        /\ l.user \in Users
  BY <1>2 DEF TradeEvent, TradeTypes
<1>9. PosRowsOK'
  <2>1. \A i \in DOMAIN mem'.pos : RowOK(mem'.pos[i])
    BY <1>6, <1>7
  <2>2. ASSUME NEW e \in OnWay', e.type = "open"
        PROVE  RowOK(e.row) /\ e.row.user = e.user /\ e.row.state = Active
    <3>1. CASE e \in OnWay
      BY <2>2, <3>1 DEF PosSync, PosRowsOK
    <3>2. CASE e \in Contents(ev)
      BY <1>6, <1>8, <2>2, <3>2
    <3> QED
      BY <1>3, <3>1, <3>2
  <2>3. \A e \in Contents(ev) : e.type = "close" => e.row.state = "Closed"
    BY <1>4, <1>8 DEF TradeTells
  <2>4. \A e \in OnWay' : e.type = "close" => e.row.state = "Closed"
    BY <1>3, <2>3 DEF PosSync, PosRowsOK
  <2> QED
    BY <2>1, <2>2, <2>4 DEF PosSync, PosRowsOK
<1>10. OwnersOK'
  <2>1. ASSUME NEW i, NEW u, PosOf(i, u)'
        PROVE  PosOf(i, u) \/ (i \in DOMAIN mem'.pos \ DOMAIN mem.pos /\ u = l.user)
    <3>1. CASE i \in DOMAIN mem'.pos /\ mem'.pos[i].user = u
      BY <1>6, <1>7, <3>1 DEF PosOf
    <3>2. CASE i \in DOMAIN db.pos /\ db.pos[i].user = u
      BY <3>2 DEF PosOf
    <3>3. ASSUME NEW e \in OnWay', e.type \in TradeTypes, e.pos = i, e.user = u
          PROVE  PosOf(i, u) \/ (i \in DOMAIN mem'.pos \ DOMAIN mem.pos /\ u = l.user)
      <4>1. CASE e \in OnWay
        BY <3>3, <4>1 DEF PosOf
      <4>2. CASE e \in Contents(ev)
        BY <1>8, <3>3, <4>2 DEF PosOf
      <4> QED
        BY <1>3, <4>1, <4>2
    <3> QED
      BY <2>1, <3>1, <3>2, <3>3 DEF PosOf
  <2>2. 1 .. mem.lastPos \subseteq 1 .. mem'.lastPos
    <3>1. mem.lastPos \in Nat /\ mem'.lastPos \in Nat /\ mem'.lastPos >= mem.lastPos
      BY <1>1 DEF Sound, KeepsOwners
    <3> QED
      BY <3>1
  <2>3. \A i, u : PosOf(i, u) => i \in 1 .. mem.lastPos
    BY DEF PosSync, OwnersOK
  <2>4. \A i, u, v : PosOf(i, u) /\ PosOf(i, v) => u = v
    BY DEF PosSync, OwnersOK
  <2>5. \A i, u : PosOf(i, u)' => i \in 1 .. mem'.lastPos
    BY <1>6, <2>1, <2>2, <2>3
  <2>6. \A i, u, v : PosOf(i, u)' /\ PosOf(i, v)' => u = v
    BY <1>6, <2>1, <2>3, <2>4
  <2> QED
    BY <2>5, <2>6 DEF OwnersOK
<1>11. \A e \in OnWay : e.type \in TradeTypes => e.pos \in 1 .. mem.lastPos
  BY DEF PosSync, OwnersOK, PosOf
<1>12. HeldOK'
  <2> SUFFICES ASSUME NEW i, NEW u \in Users, u \notin apart
               PROVE  i \in HeldBy(mem', u) <=> StaysOpen(db.pos, OnWay', i, u)
    BY DEF HeldOK
  <2>0. i \in HeldBy(mem, u) <=> StaysOpen(db.pos, OnWay, i, u)
    BY DEF PosSync, HeldOK
  <2>1. CASE u # l.user
    <3>1. i \in HeldBy(mem', u) <=> i \in HeldBy(mem, u)
      BY <2>1 DEF HeldBy, OwnOnly
    <3>2. ASSUME StaysOpen(db.pos, OnWay', i, u)
          PROVE  StaysOpen(db.pos, OnWay, i, u)
      BY <1>3, <1>8, <2>1, <3>2 DEF StaysOpen
    <3>3. ASSUME i \in HeldBy(mem, u), StaysOpen(db.pos, OnWay, i, u)
          PROVE  StaysOpen(db.pos, OnWay', i, u)
      <4>1. mem.pos[i].user # l.user
        BY <2>1, <3>3 DEF HeldBy
      <4>2. \A e \in Contents(ev) : e.type = "close" => e.pos # i
        BY <1>8, <4>1
      <4> QED
        BY <1>3, <3>3, <4>2 DEF StaysOpen
    <3> QED
      BY <2>0, <3>1, <3>2, <3>3
  <2>2. CASE u = l.user
    <3>1. TradeTells(ev, mem, mem', l)
      BY <1>4, <2>2
    <3>2. ASSUME i \in HeldBy(mem', u), i \notin DOMAIN mem.pos
          PROVE  StaysOpen(db.pos, OnWay', i, u)
      <4>1. i \in DOMAIN mem'.pos \ DOMAIN mem.pos
        BY <3>2 DEF HeldBy
      <4>2. \E e \in Contents(ev) : e.type = "open" /\ e.pos = i
        BY <3>1, <4>1 DEF TradeTells
      <4>3. \A e \in Contents(ev) : e.type = "close" => e.pos # i
        BY <1>8, <4>1
      <4>4. \A e \in OnWay : e.type = "close" => e.pos # i
        BY <1>6, <1>11, <4>1 DEF TradeTypes
      <4>5. \E e \in Contents(ev) : e.type = "open" /\ e.pos = i /\ e.user = u
        BY <1>8, <2>2, <4>2
      <4> QED
        BY <1>3, <4>3, <4>4, <4>5 DEF StaysOpen
    <3>3. ASSUME i \in HeldBy(mem', u), i \in DOMAIN mem.pos
          PROVE  StaysOpen(db.pos, OnWay', i, u)
      <4>1. i \in HeldBy(mem, u) /\ i \in DOMAIN mem'.pos
        BY <1>7, <3>3 DEF HeldBy
      <4>2. \A e \in Contents(ev) : e.type = "close" => e.pos # i
        BY <3>1, <4>1 DEF TradeTells
      <4> QED
        BY <1>3, <2>0, <4>1, <4>2 DEF StaysOpen
    <3>4. ASSUME StaysOpen(db.pos, OnWay', i, u), StaysOpen(db.pos, OnWay, i, u)
          PROVE  i \in HeldBy(mem', u)
      <4>1. i \in DOMAIN mem.pos /\ mem.pos[i].user = u
        BY <2>0, <3>4 DEF HeldBy
      <4>2. i \in DOMAIN mem'.pos
        <5> SUFFICES ASSUME i \notin DOMAIN mem'.pos PROVE FALSE
          OBVIOUS
        <5>1. mem.pos[i].side # l.side
          BY <4>1 DEF Legged
        <5>2. \E e \in Contents(ev) : e.type = "close" /\ e.pos = i
          BY <3>1, <4>1, <5>1 DEF TradeTells
        <5> QED
          BY <1>3, <3>4, <5>2 DEF StaysOpen
      <4> QED
        BY <1>7, <4>1, <4>2 DEF HeldBy
    <3>5. ASSUME StaysOpen(db.pos, OnWay', i, u), ~StaysOpen(db.pos, OnWay, i, u)
          PROVE  i \in HeldBy(mem', u)
      <4>1. PICK e \in Contents(ev) : e.type = "open" /\ e.pos = i
        BY <1>3, <3>5 DEF StaysOpen
      <4>2. i \in DOMAIN mem'.pos \ DOMAIN mem.pos
        BY <1>8, <4>1
      <4> QED
        BY <1>6, <2>2, <4>2 DEF HeldBy
    <3> QED
      BY <3>2, <3>3, <3>4, <3>5
  <2> QED
    BY <2>1, <2>2
<1>13. ASSUME ~stopping
       PROVE  hand'[Main] = <<>> /\ AmountsOK'
  <2>1. hand[Main] = <<>> /\ AmountsOK
    BY <1>13 DEF PosSync
  <2>2. Stream' = Stream \o ev
    BY <1>1, <1>2, StreamGrows
  <2>3. Stream \in Seq(Contents(Stream))
    BY <1>1, <2>1, StreamFacts
  <2>4. AmountsOK'
    <3> SUFFICES ASSUME NEW i \in DOMAIN mem'.pos \ merged',
                        mem'.pos[i].user \in Users, mem'.pos[i].user \notin apart
                 PROVE  /\ \A e : LastWord(Stream', i, e) => Agree(e.row, mem'.pos[i])
                        /\ NoWord(Stream', i) => Agree(db.pos[i], mem'.pos[i])
                        /\ i \in DOMAIN db.pos => db.pos[i].entry = mem'.pos[i].entry
                        /\ \A e \in OnWay' : e.type = "open" /\ e.pos = i =>
                             e.row.entry = mem'.pos[i].entry
      BY DEF AmountsOK
    <3>0. /\ NoWord(Stream', i) <=> NoWord(Stream, i) /\ NoWord(ev, i)
          /\ \A e : LastWord(Stream', i, e) <=> \/ LastWord(ev, i, e)
                                                \/ NoWord(ev, i) /\ LastWord(Stream, i, e)
      BY <1>2, <2>2, <2>3, JoinedWords
    <3>1. ASSUME NEW e \in Contents(ev), Word(e, i)
          PROVE  Agree(e.row, mem'.pos[i])
      <4>1. CASE e.type = "open"
        BY <1>8, <3>1, <4>1 DEF Agree, Word
      <4>2. CASE e.type = "reduce"
        BY <1>4, <1>8, <3>1, <4>2 DEF Agree, Word, TradeTells
      <4> QED
        BY <3>1, <4>1, <4>2 DEF Word
    <3>2. \A e : LastWord(ev, i, e) => Agree(e.row, mem'.pos[i])
      BY <3>1 DEF LastWord, Contents
    <3>3. ASSUME i \in DOMAIN mem.pos
          PROVE  /\ i \notin merged /\ mem.pos[i].user \in Users /\ mem.pos[i].user \notin apart
                 /\ mem'.pos[i].entry = mem.pos[i].entry
                 /\ NoWord(ev, i) => mem'.pos[i] = mem.pos[i]
      <4>1. mem.pos[i].user = mem'.pos[i].user
        BY <1>7, <3>3
      <4>2. CASE mem'.pos[i] = mem.pos[i]
        BY <4>1, <4>2
      <4>3. CASE mem'.pos[i] # mem.pos[i]
        <5>1. l.user \in Users
          BY <3>3, <4>1, <4>3 DEF OwnOnly
        <5>2. PICK e \in Contents(ev) :
                /\ e.pos = i
                /\ e.type = IF mem.pos[i].side = l.side THEN "increase" ELSE "reduce"
          BY <1>4, <3>3, <4>3, <5>1 DEF TradeTells
        <5>3. mem.pos[i].side # l.side /\ e.type = "reduce"
          BY <1>5, <5>2
        <5>4. Word(e, i)
          BY <5>2, <5>3 DEF Word
        <5>5. ~NoWord(ev, i)
          BY <5>4 DEF NoWord, Contents
        <5>6. mem'.pos[i].entry = mem.pos[i].entry
          BY <3>3, <5>3 DEF Legged
        <5> QED
          BY <4>1, <5>5, <5>6
      <4> QED
        BY <4>2, <4>3
    <3>4. ASSUME i \notin DOMAIN mem.pos
          PROVE  /\ ~NoWord(ev, i) /\ i \notin DOMAIN db.pos
                 /\ \A e \in OnWay : e.type = "open" => e.pos # i
      <4>1. i \in DOMAIN mem'.pos \ DOMAIN mem.pos
        BY <3>4
      <4>2. l.user \in Users /\ i \notin 1 .. mem.lastPos
        BY <1>6, <4>1
      <4>3. PICK e \in Contents(ev) : e.type = "open" /\ e.pos = i
        BY <1>4, <4>1, <4>2 DEF TradeTells
      <4>4. ~NoWord(ev, i)
        BY <4>3 DEF NoWord, Contents, Word
      <4>5. DOMAIN db.pos \subseteq 1 .. mem.lastPos
        BY DEF SettlementInv, PositionsInv
      <4> QED
        BY <1>11, <4>2, <4>4, <4>5 DEF TradeTypes
    <3>5. i \in DOMAIN mem.pos =>
            /\ \A e : LastWord(Stream, i, e) => Agree(e.row, mem.pos[i])
            /\ NoWord(Stream, i) => Agree(db.pos[i], mem.pos[i])
            /\ i \in DOMAIN db.pos => db.pos[i].entry = mem.pos[i].entry
            /\ \A e \in OnWay : e.type = "open" /\ e.pos = i => e.row.entry = mem.pos[i].entry
      BY <2>1, <3>3 DEF AmountsOK
    <3>6. \A e : LastWord(Stream', i, e) => Agree(e.row, mem'.pos[i])
      BY <3>0, <3>2, <3>3, <3>4, <3>5
    <3>7. NoWord(Stream', i) => Agree(db.pos[i], mem'.pos[i])
      BY <3>0, <3>3, <3>4, <3>5
    <3>8. i \in DOMAIN db.pos => db.pos[i].entry = mem'.pos[i].entry
      BY <3>3, <3>4, <3>5
    <3>9. \A e \in OnWay' : e.type = "open" /\ e.pos = i => e.row.entry = mem'.pos[i].entry
      BY <1>3, <1>8, <3>3, <3>4, <3>5
    <3> QED
      BY <3>6, <3>7, <3>8, <3>9
  <2> QED
    BY <2>1, <2>4
<1> QED
  BY <1>9, <1>10, <1>12, <1>13 DEF PosSync

LEMMA TakeSync ==
  ASSUME SettlementInv, PosSync, NEW w \in Consumers, TakeEvent(w)
  PROVE  PosSync'
<1>1. /\ queue # <<>> /\ hand[w] = <<>> /\ hand' = [hand EXCEPT ![w] = <<Head(queue)>>]
      /\ queue' = Tail(queue) /\ mem' = mem /\ db' = db /\ apart' = apart
      /\ merged' = merged /\ stopping' = stopping /\ (w = Main => stopping)
  BY DEF TakeEvent, vars, notes
<1>2. FlowOK(queue, hand) /\ NoClash(queue, hand)
  BY DEF SettlementInv
<1>3. OnWay' = OnWay
  BY <1>1, <1>2, TakeFlow DEF OnWay
<1>4. PosRowsOK'
  BY <1>1, <1>3 DEF PosSync, PosRowsOK
<1>5. \A i, u : PosOf(i, u)' <=> PosOf(i, u)
  BY <1>1, <1>3 DEF PosOf
<1>6. OwnersOK'
  BY <1>1, <1>5 DEF PosSync, OwnersOK
<1>7. HeldOK'
  BY <1>1, <1>3 DEF PosSync, HeldOK
<1>8. ASSUME ~stopping
      PROVE  hand'[Main] = <<>> /\ AmountsOK'
  <2>1. w = Worker /\ hand[Main] = <<>> /\ AmountsOK
    BY <1>1, <1>8, ConsumersAre DEF PosSync
  <2>2. Stream' = Stream
    BY <1>1, <1>2, <2>1, StreamStays
  <2>3. hand'[Main] = <<>>
    BY <1>1, <1>2, <2>1, ConsumersAre DEF FlowOK
  <2> QED
    BY <1>1, <1>3, <2>1, <2>2, <2>3 DEF AmountsOK
<1> QED
  BY <1>1, <1>4, <1>6, <1>7, <1>8 DEF PosSync

\* Row i of the positions after event e.
RowAfter(d, e, i, r) ==
  /\ RowOK(r)
  /\ r.user = d.pos[i].user /\ r.entry = d.pos[i].entry
  /\ r.state = IF e.type = "close" /\ e.pos = i THEN e.row.state ELSE d.pos[i].state
  /\ Agree(r, IF Word(e, i) THEN e.row ELSE d.pos[i])

LEMMA SettledRowsAre ==
  ASSUME NEW d, NEW e, \A i \in DOMAIN d.pos : RowOK(d.pos[i]), Accepts(d, e)
  PROVE  LET n == Settled(d, e).pos
         IN  /\ DOMAIN n = IF e.type = "open" THEN DOMAIN d.pos \cup {e.pos} ELSE DOMAIN d.pos
             /\ e.type = "open" => n[e.pos] = e.row
             /\ \A i \in DOMAIN d.pos : RowAfter(d, e, i, n[i])
<1> DEFINE n == Settled(d, e).pos
<1>1. n = PositionsAfter(d, e)
  BY DEF Settled
<1> HIDE DEF n
<1>2. CASE e.type = "open"
  <2>1. n = [x \in DOMAIN d.pos \cup {e.pos} |-> IF x = e.pos THEN e.row ELSE d.pos[x]]
    BY <1>1, <1>2 DEF PositionsAfter, Put
  <2>2. e.pos \notin DOMAIN d.pos
    BY <1>2 DEF Accepts
  <2>3. \A i \in DOMAIN d.pos : n[i] = d.pos[i] /\ ~Word(e, i)
    BY <2>1, <2>2 DEF Word
  <2> QED
    BY <1>2, <2>1, <2>3 DEF RowAfter, Agree, n
<1>3. CASE e.type = "reduce"
  <2> DEFINE r == [d.pos[e.pos] EXCEPT !.qty = e.row.qty, !.margin = e.row.margin]
  <2>1. n = [d.pos EXCEPT ![e.pos].qty = e.row.qty, ![e.pos].margin = e.row.margin]
    BY <1>1, <1>3 DEF PositionsAfter
  <2>2. e.pos \in DOMAIN d.pos
    BY <1>3 DEF Accepts
  <2>3. DOMAIN n = DOMAIN d.pos /\ n[e.pos] = r /\ \A i \in DOMAIN d.pos : i # e.pos => n[i] = d.pos[i]
    BY <2>1, <2>2
  <2>4. /\ RowOK(r) /\ r.user = d.pos[e.pos].user /\ r.entry = d.pos[e.pos].entry
        /\ r.state = d.pos[e.pos].state /\ r.qty = e.row.qty /\ r.margin = e.row.margin
    BY <2>2 DEF RowOK, RowFields
  <2> HIDE DEF r
  <2>5. \A i \in DOMAIN d.pos : RowAfter(d, e, i, n[i])
    BY <1>3, <2>3, <2>4 DEF RowAfter, Agree, Word
  <2> QED
    BY <1>3, <2>3, <2>5 DEF n
<1>4. CASE e.type = "close"
  <2> DEFINE r == [d.pos[e.pos] EXCEPT !.state = e.row.state]
  <2>1. n = [d.pos EXCEPT ![e.pos].state = e.row.state]
    BY <1>1, <1>4 DEF PositionsAfter
  <2>2. e.pos \in DOMAIN d.pos
    BY <1>4 DEF Accepts
  <2>3. DOMAIN n = DOMAIN d.pos /\ n[e.pos] = r /\ \A i \in DOMAIN d.pos : i # e.pos => n[i] = d.pos[i]
    BY <2>1, <2>2
  <2>4. /\ RowOK(r) /\ r.user = d.pos[e.pos].user /\ r.entry = d.pos[e.pos].entry
        /\ r.state = e.row.state /\ r.qty = d.pos[e.pos].qty /\ r.margin = d.pos[e.pos].margin
    BY <2>2 DEF RowOK, RowFields
  <2> HIDE DEF r
  <2>5. \A i \in DOMAIN d.pos : RowAfter(d, e, i, n[i])
    BY <1>4, <2>3, <2>4 DEF RowAfter, Agree, Word
  <2> QED
    BY <1>4, <2>3, <2>5 DEF n
<1>5. CASE e.type \notin {"open", "reduce", "close"}
  <2>1. n = d.pos
    BY <1>1, <1>5 DEF PositionsAfter
  <2> QED
    BY <1>5, <2>1 DEF RowAfter, Agree, Word, n
<1> QED
  BY <1>2, <1>3, <1>4, <1>5

\* Only the worker is done with events before Stop.
LEMMA WorkerAlone ==
  ASSUME SettlementInv, PosSync, ~stopping, NEW w \in Consumers, hand[w] # <<>>,
         hand' = [hand EXCEPT ![w] = <<>>], queue' = queue
  PROVE  /\ w = Worker /\ hand'[Main] = <<>> /\ AmountsOK
         /\ Stream \in Seq(Contents(Stream)) /\ Contents(Stream) = OnWay
         /\ Stream = <<Head(hand[w])>> \o queue /\ Stream' = queue
         /\ queue \in Seq(Contents(queue))
<1>1. hand[Main] = <<>> /\ AmountsOK /\ FlowOK(queue, hand)
  BY DEF PosSync, SettlementInv
<1>2. w = Worker
  BY <1>1, ConsumersAre
<1>3. hand'[Main] = <<>>
  BY <1>1, <1>2, ConsumersAre DEF FlowOK
<1> QED
  BY <1>1, <1>2, <1>3, StreamFacts, StreamDrops

\* A transaction commits.
LEMMA SettleSync ==
  ASSUME SettlementInv, PosSync, NEW w \in Consumers, hand[w] # <<>>,
         NEW e, e = Head(hand[w]), hand' = [hand EXCEPT ![w] = <<>>], queue' = queue,
         mem' = mem, merged' = merged, stopping' = stopping, apart' = apart,
         Accepts(db, e), db' = Settled(db, e)
  PROVE  PosSync'
<1>1. /\ e \in OnWay /\ OnWay' \subseteq OnWay /\ OnWay \subseteq OnWay' \cup {e}
      /\ \A d \in OnWay' : ~Clash(e, d)
  BY Done
<1>2. /\ DOMAIN db'.pos = IF e.type = "open" THEN DOMAIN db.pos \cup {e.pos} ELSE DOMAIN db.pos
      /\ e.type = "open" => db'.pos[e.pos] = e.row
      /\ \A i \in DOMAIN db.pos : RowAfter(db, e, i, db'.pos[i])
  BY SettledRowsAre DEF PosSync, PosRowsOK
<1>3. e.type = "open" => /\ RowOK(e.row) /\ e.row.user = e.user /\ e.row.state = Active
                         /\ e.pos \notin DOMAIN db.pos
                         /\ \A d \in OnWay' : d.type = "open" => d.pos # e.pos
  BY <1>1 DEF PosSync, PosRowsOK, Accepts, Clash
<1>4. e.type = "close" => /\ e.row.state = "Closed" /\ e.pos \in DOMAIN db.pos
                          /\ \A d \in OnWay : d.type = "open" => d.pos # e.pos
  BY <1>1 DEF PosSync, PosRowsOK, Accepts, SettlementInv, PositionsInv
<1>5. PosRowsOK'
  <2>1. \A i \in DOMAIN db'.pos : RowOK(db'.pos[i])
    BY <1>2, <1>3 DEF RowAfter
  <2> QED
    BY <1>1, <2>1 DEF PosSync, PosRowsOK
<1>6. OwnersOK'
  <2>1. ASSUME NEW i, NEW u, PosOf(i, u)' PROVE PosOf(i, u)
    <3>1. CASE i \in DOMAIN mem'.pos /\ mem'.pos[i].user = u
      BY <3>1 DEF PosOf
    <3>2. CASE i \in DOMAIN db'.pos /\ db'.pos[i].user = u
      <4>1. CASE i \in DOMAIN db.pos
        BY <1>2, <3>2, <4>1 DEF PosOf, RowAfter
      <4>2. CASE i \notin DOMAIN db.pos
        BY <1>1, <1>2, <1>3, <3>2, <4>2 DEF PosOf, TradeTypes
      <4> QED
        BY <4>1, <4>2
    <3>3. CASE \E d \in OnWay' : d.type \in TradeTypes /\ d.pos = i /\ d.user = u
      BY <1>1, <3>3 DEF PosOf
    <3> QED
      BY <2>1, <3>1, <3>2, <3>3 DEF PosOf
  <2> QED
    BY <2>1 DEF PosSync, OwnersOK
<1>7. ASSUME NEW i, NEW u
      PROVE  StaysOpen(db'.pos, OnWay', i, u) <=> StaysOpen(db.pos, OnWay, i, u)
  <2>1. CASE e.type = "open" /\ i = e.pos
    <3>1. StaysOpen(db'.pos, OnWay', i, u)
            <=> u = e.user /\ ~\E d \in OnWay' : d.type = "close" /\ d.pos = i
      BY <1>2, <1>3, <2>1 DEF StaysOpen
    <3>2. StaysOpen(db.pos, OnWay, i, u)
            <=> u = e.user /\ ~\E d \in OnWay : d.type = "close" /\ d.pos = i
      BY <1>1, <1>3, <2>1 DEF StaysOpen
    <3> QED
      BY <1>1, <2>1, <3>1, <3>2
  <2>2. CASE e.type = "close" /\ i = e.pos
    <3>1. ~StaysOpen(db.pos, OnWay, i, u)
      BY <1>1, <2>2 DEF StaysOpen
    <3>2. db'.pos[i].state # Active
      BY <1>2, <1>4, <2>2 DEF RowAfter, Active
    <3>3. ~StaysOpen(db'.pos, OnWay', i, u)
      BY <1>1, <1>4, <2>2, <3>2 DEF StaysOpen
    <3> QED
      BY <3>1, <3>3
  <2>3. CASE ~(e.type \in {"open", "close"} /\ i = e.pos)
    <3>1. i \in DOMAIN db'.pos <=> i \in DOMAIN db.pos
      BY <1>2, <2>3
    <3>2. i \in DOMAIN db.pos => /\ db'.pos[i].user = db.pos[i].user
                                 /\ db'.pos[i].state = db.pos[i].state
      BY <1>2, <2>3 DEF RowAfter
    <3>3. \A type \in {"open", "close"} :
            (\E d \in OnWay' : d.type = type /\ d.pos = i /\ d.user = u)
              <=> \E d \in OnWay : d.type = type /\ d.pos = i /\ d.user = u
      BY <1>1, <2>3
    <3>4. (\E d \in OnWay' : d.type = "close" /\ d.pos = i)
            <=> \E d \in OnWay : d.type = "close" /\ d.pos = i
      BY <1>1, <2>3
    <3> QED
      BY <3>1, <3>2, <3>3, <3>4 DEF StaysOpen
  <2> QED
    BY <2>1, <2>2, <2>3
<1>8. HeldOK'
  BY <1>7 DEF PosSync, HeldOK
<1>9. ASSUME ~stopping
      PROVE  hand'[Main] = <<>> /\ AmountsOK'
  <2>1. /\ hand'[Main] = <<>> /\ AmountsOK
        /\ Contents(Stream) = OnWay /\ Stream = <<e>> \o queue /\ Stream' = queue
        /\ queue \in Seq(Contents(queue))
    BY <1>9, WorkerAlone
  <2>2. \A i : /\ <<e>> \in Seq(Contents(<<e>>))
               /\ Word(e, i) => LastWord(<<e>>, i, e)
               /\ ~Word(e, i) => NoWord(<<e>>, i)
    BY OneWord
  <2>3. \A i : /\ NoWord(Stream, i) <=> NoWord(<<e>>, i) /\ NoWord(queue, i)
               /\ \A d : LastWord(Stream, i, d) <=> \/ LastWord(queue, i, d)
                                                    \/ NoWord(queue, i) /\ LastWord(<<e>>, i, d)
    BY <2>1, <2>2, JoinedWords
  <2>4. AmountsOK'
    <3> SUFFICES ASSUME NEW i \in DOMAIN mem.pos \ merged,
                        mem.pos[i].user \in Users, mem.pos[i].user \notin apart
                 PROVE  /\ \A d : LastWord(Stream', i, d) => Agree(d.row, mem.pos[i])
                        /\ NoWord(Stream', i) => Agree(db'.pos[i], mem.pos[i])
                        /\ i \in DOMAIN db'.pos => db'.pos[i].entry = mem.pos[i].entry
                        /\ \A d \in OnWay' : d.type = "open" /\ d.pos = i =>
                             d.row.entry = mem.pos[i].entry
      BY DEF AmountsOK
    <3>1. /\ \A d : LastWord(Stream, i, d) => Agree(d.row, mem.pos[i])
          /\ NoWord(Stream, i) => Agree(db.pos[i], mem.pos[i])
          /\ i \in DOMAIN db.pos => db.pos[i].entry = mem.pos[i].entry
          /\ \A d \in OnWay : d.type = "open" /\ d.pos = i => d.row.entry = mem.pos[i].entry
      BY <2>1 DEF AmountsOK
    <3>2. ASSUME NoWord(queue, i), Word(e, i)
          PROVE  Agree(db'.pos[i], mem.pos[i])
      <4>1. Agree(e.row, mem.pos[i])
        BY <2>2, <2>3, <3>1, <3>2
      <4>2. CASE e.type = "open"
        BY <1>2, <3>2, <4>1, <4>2 DEF Word
      <4>3. CASE e.type = "reduce"
        <5>1. i \in DOMAIN db.pos
          BY <3>2, <4>3 DEF Word, Accepts
        <5> QED
          BY <1>2, <3>2, <4>1, <5>1 DEF RowAfter, Agree
      <4> QED
        BY <3>2, <4>2, <4>3 DEF Word
    <3>3. ASSUME NoWord(queue, i), ~Word(e, i)
          PROVE  Agree(db'.pos[i], mem.pos[i])
      <4>1. NoWord(Stream, i)
        BY <2>2, <2>3, <3>3
      <4>2. \A d \in OnWay : d.type = "open" => d.pos # i
        BY <2>1, <4>1 DEF NoWord, Word, Contents
      <4>3. StaysOpen(db.pos, OnWay, i, mem.pos[i].user)
        BY DEF PosSync, HeldOK, HeldBy
      <4>4. i \in DOMAIN db.pos
        BY <4>2, <4>3 DEF StaysOpen
      <4> QED
        BY <1>2, <3>1, <3>3, <4>1, <4>4 DEF RowAfter, Agree
    <3>4. i \in DOMAIN db'.pos => db'.pos[i].entry = mem.pos[i].entry
      <4>1. CASE i \in DOMAIN db.pos
        BY <1>2, <3>1, <4>1 DEF RowAfter
      <4>2. CASE i \notin DOMAIN db.pos
        BY <1>1, <1>2, <3>1, <4>2
      <4> QED
        BY <4>1, <4>2
    <3> QED
      BY <1>1, <2>1, <2>3, <3>1, <3>2, <3>3, <3>4
  <2> QED
    BY <2>1, <2>4
<1> QED
  BY <1>5, <1>6, <1>8, <1>9 DEF PosSync

\* A transaction is rolled back: its user is apart.
LEMMA LoseSync ==
  ASSUME SettlementInv, PosSync, NEW w \in Consumers, hand[w] # <<>>,
         NEW e, e = Head(hand[w]), hand' = [hand EXCEPT ![w] = <<>>], queue' = queue,
         mem' = mem, merged' = merged, stopping' = stopping, apart' = apart \cup {e.user},
         db' = db
  PROVE  PosSync'
<1>1. /\ e \in OnWay /\ OnWay' \subseteq OnWay /\ OnWay \subseteq OnWay' \cup {e}
  BY Done
<1>2. PosRowsOK'
  BY <1>1 DEF PosSync, PosRowsOK
<1>3. \A i, u : PosOf(i, u)' => PosOf(i, u)
  BY <1>1 DEF PosOf
<1>4. OwnersOK'
  BY <1>3 DEF PosSync, OwnersOK
<1>5. ASSUME NEW i, NEW u, PosOf(i, u), u # e.user
      PROVE  e.type \in TradeTypes => e.pos # i
  <2>1. e.type \in TradeTypes /\ e.pos = i => PosOf(i, e.user)
    BY <1>1 DEF PosOf
  <2> QED
    BY <1>5, <2>1 DEF PosSync, OwnersOK
<1>6. HeldOK'
  <2> SUFFICES ASSUME NEW i, NEW u \in Users, u \notin apart, u # e.user
               PROVE  i \in HeldBy(mem, u) <=> StaysOpen(db.pos, OnWay', i, u)
    BY DEF HeldOK
  <2>1. i \in HeldBy(mem, u) <=> StaysOpen(db.pos, OnWay, i, u)
    BY DEF PosSync, HeldOK
  <2>2. StaysOpen(db.pos, OnWay, i, u) => PosOf(i, u)
    BY DEF StaysOpen, PosOf, TradeTypes
  <2>3. StaysOpen(db.pos, OnWay', i, u) => PosOf(i, u)
    BY <1>1 DEF StaysOpen, PosOf, TradeTypes
  <2>4. PosOf(i, u) => (StaysOpen(db.pos, OnWay', i, u) <=> StaysOpen(db.pos, OnWay, i, u))
    <3>1. PosOf(i, u) => \A d \in OnWay : d.type \in TradeTypes /\ d.pos = i => d \in OnWay'
      BY <1>1, <1>5
    <3> QED
      BY <1>1, <3>1 DEF StaysOpen, TradeTypes
  <2> QED
    BY <2>1, <2>2, <2>3, <2>4
<1>7. ASSUME ~stopping
      PROVE  hand'[Main] = <<>> /\ AmountsOK'
  <2>1. /\ hand'[Main] = <<>> /\ AmountsOK
        /\ Stream = <<e>> \o queue /\ Stream' = queue
        /\ queue \in Seq(Contents(queue))
    BY <1>7, WorkerAlone
  <2>2. \A i : /\ <<e>> \in Seq(Contents(<<e>>))
               /\ ~Word(e, i) => NoWord(<<e>>, i)
    BY OneWord
  <2>3. \A i : /\ NoWord(Stream, i) <=> NoWord(<<e>>, i) /\ NoWord(queue, i)
               /\ \A d : LastWord(queue, i, d) => LastWord(Stream, i, d)
    BY <2>1, <2>2, JoinedWords
  <2>4. \A i \in DOMAIN mem.pos : mem.pos[i].user # e.user => ~Word(e, i)
    BY <1>5 DEF PosOf, Word, TradeTypes
  <2>5. AmountsOK'
    BY <1>1, <2>1, <2>2, <2>3, <2>4 DEF AmountsOK
  <2> QED
    BY <2>1, <2>5
<1> QED
  BY <1>2, <1>4, <1>6, <1>7 DEF PosSync

\* The next process starts from the positions the database has open.
LEMMA ReloadSync ==
  ASSUME SettlementInv, PosSync, Reload
  PROVE  PosSync'
<1> DEFINE held == UNION {Open(u) : u \in Users}
           bal == [u \in Traders |-> IF u \in Users THEN db.bal[u] ELSE InitMem.bal[u]]
           frozen == [u \in Traders |-> IF u \in Users THEN db.frozen[u] ELSE 0]
           pos == Restrict(db.pos, held)
           last == CounterFrom(db.pos)
<1>1. mem' = [InitMem EXCEPT !.bal = bal, !.frozen = frozen, !.pos = pos, !.lastPos = last]
  BY DEF Reload
<1>2. /\ db' = db /\ queue' = <<>> /\ hand'[Worker] = <<>> /\ hand'[Main] = <<>>
  BY ConsumersAre DEF Reload
<1> HIDE DEF bal, frozen, pos, last
<1>3. mem'.pos = pos
  BY <1>1 DEF InitMem
<1>4. DOMAIN pos = held /\ \A i \in held : pos[i] = db.pos[i]
  BY DEF pos, Restrict
<1>5. held \subseteq DOMAIN db.pos
  BY DEF Open
<1>6. OnWay' = {} /\ DOMAIN db.pos \subseteq 1 .. mem'.lastPos
  BY <1>2, ReloadedOrders, ReloadKeeps DEF SettlementInv, PositionsInv
<1>7. \A u \in Users : HeldBy(mem', u) = Open(u)
  <2>1. \A i \in held : db.pos[i].state = Active
    BY DEF Open
  <2>2. \A u \in Users : Open(u) \subseteq held
    OBVIOUS
  <2>3. \A u \in Users : \A i \in Open(u) : db.pos[i].user = u
    BY DEF Open
  <2>4. \A u \in Users : \A i \in held : db.pos[i].user = u => i \in Open(u)
    BY <1>5, <2>1 DEF Open
  <2> HIDE DEF held
  <2> QED
    BY <1>3, <1>4, <2>2, <2>3, <2>4 DEF HeldBy
<1> HIDE DEF held
<1>8. PosRowsOK'
  BY <1>2, <1>3, <1>4, <1>5, <1>6 DEF PosSync, PosRowsOK
<1>9. OwnersOK'
  <2>1. \A i, u : PosOf(i, u)' => i \in DOMAIN db.pos /\ db.pos[i].user = u
    BY <1>2, <1>3, <1>4, <1>5, <1>6 DEF PosOf
  <2> QED
    BY <1>6, <2>1 DEF OwnersOK
<1>10. HeldOK'
  BY <1>2, <1>6, <1>7 DEF HeldOK, StaysOpen, Open
<1>11. AmountsOK'
  <2>1. Stream' = <<>> /\ DOMAIN <<>> = {}
    BY <1>2 DEF Stream
  <2>2. \A i, e : ~LastWord(Stream', i, e)
    BY <2>1 DEF LastWord
  <2> QED
    BY <1>2, <1>3, <1>4, <1>5, <1>6, <2>2 DEF AmountsOK, Agree
<1> QED
  BY <1>2, <1>8, <1>9, <1>10, <1>11 DEF PosSync

LEMMA InitSync == SInit => PosSync
<1> SUFFICES ASSUME SInit PROVE PosSync
  OBVIOUS
<1>1. /\ queue = <<>> /\ hand = [w \in Consumers |-> <<>>] /\ mem = InitMem
      /\ db.pos = << >>
  BY DEF SInit, Init
<1>2. OnWay = {} /\ hand[Main] = <<>>
  BY <1>1, EmptyFlow, ConsumersAre DEF OnWay
<1>3. DOMAIN mem.pos = {} /\ DOMAIN db.pos = {}
  BY <1>1 DEF InitMem
<1> QED
  BY <1>2, <1>3 DEF PosSync, PosRowsOK, PosOf, OwnersOK, HeldOK, HeldBy, StaysOpen, AmountsOK

\* A reset changes accounts, and Stop nothing yet.
LEMMA ResetSync ==
  ASSUME SettlementInv, PosSync, NEW u \in Users,
         CheckReset(u) \/ ResetRow(u) \/ ResetMemory(u)
  PROVE  PosSync'
<1>1. Sound(mem) /\ {"bal", "frozen", "orders", "pos"} \subseteq DOMAIN db
  BY DEF SettlementInv, PositionsInv, OrdersInv, RowsOK
<1>2. CASE CheckReset(u)
  <2>1. /\ mem' = mem /\ db' = db /\ queue' = queue /\ hand' = hand /\ stopping' = stopping
        /\ apart' = apart /\ merged' = merged
    BY <1>2 DEF CheckReset, vars, flow, notes
  <2> QED
    BY <2>1, StillSync DEF SameRows, Agree
<1>3. CASE ResetRow(u)
  <2> DEFINE bal == [db.bal EXCEPT ![u] = InitialBalance]
             frozen == [db.frozen EXCEPT ![u] = 0]
  <2>1. /\ mem' = mem /\ queue' = queue /\ hand' = hand /\ stopping' = stopping
        /\ apart' = apart /\ merged' = merged
        /\ db' = [db EXCEPT !.bal = bal, !.frozen = frozen]
    BY <1>3 DEF ResetRow, vars, notes
  <2> HIDE DEF bal, frozen
  <2>2. db'.pos = db.pos
    BY <1>1, <2>1
  <2> QED
    BY <2>1, <2>2, StillSync DEF SameRows, Agree
<1>4. CASE ResetMemory(u)
  <2> DEFINE bal == [mem.bal EXCEPT ![u] = InitialBalance]
             frozen == [mem.frozen EXCEPT ![u] = 0]
  <2>1. /\ db' = db /\ queue' = queue /\ hand' = hand /\ stopping' = stopping
        /\ apart' = apart /\ merged' = merged
        /\ mem' = [mem EXCEPT !.bal = bal, !.frozen = frozen]
    BY <1>4 DEF ResetMemory, flow
  <2> HIDE DEF bal, frozen
  <2>2. mem'.pos = mem.pos /\ mem'.lastPos = mem.lastPos
    BY <1>1, <2>1 DEF Sound
  <2> QED
    BY <2>1, <2>2, StillSync DEF SameRows, Agree
<1> QED
  BY <1>2, <1>3, <1>4

LEMMA StopSync ==
  ASSUME SettlementInv, PosSync, Stop
  PROVE  PosSync'
<1>1. /\ mem' = mem /\ db' = db /\ queue' = queue /\ hand' = hand /\ stopping' = TRUE
      /\ apart' = apart
  BY DEF Stop, vars, notes
<1>2. OnWay' = OnWay
  BY <1>1, SameFlow
<1>3. \A i, u : PosOf(i, u)' <=> PosOf(i, u)
  BY <1>1, <1>2 DEF PosOf
<1> QED
  BY <1>1, <1>2, <1>3 DEF PosSync, PosRowsOK, OwnersOK, HeldOK

LEMMA AccountsSameRows ==
  ASSUME Sound(mem), NEW u, NEW amount
  PROVE  /\ SameRows(mem, mem)
         /\ SameRows(mem, Freeze(mem, u, amount))
         /\ SameRows(mem, Unfreeze(mem, u, amount))
         /\ \A lost : SameRows(mem, [mem EXCEPT !.lost = lost])
<1>1. \A n : n.pos = mem.pos /\ n.lastPos = mem.lastPos => SameRows(mem, n)
  BY DEF SameRows, Agree
<1>2. Freeze(mem, u, amount).pos = mem.pos /\ Freeze(mem, u, amount).lastPos = mem.lastPos
  BY DEF Sound, Freeze
<1>3. Unfreeze(mem, u, amount).pos = mem.pos /\ Unfreeze(mem, u, amount).lastPos = mem.lastPos
  BY DEF Sound, Unfreeze
<1>4. \A lost : /\ [mem EXCEPT !.lost = lost].pos = mem.pos
                /\ [mem EXCEPT !.lost = lost].lastPos = mem.lastPos
  BY DEF Sound
<1> HIDE DEF Freeze, Unfreeze
<1> QED
  BY <1>1, <1>2, <1>3, <1>4

LEMMA StateSameRows ==
  ASSUME Sound(mem), \A i \in DOMAIN mem.pos : RowOK(mem.pos[i]), NEW i, NEW state
  PROVE  SameRows(mem, SetState(mem, i, state))
<1>1. CASE i \in DOMAIN mem.pos
  <2> DEFINE n == SetState(mem, i, state)
             r == [mem.pos[i] EXCEPT !.state = state]
  <2>1. /\ n.lastPos = mem.lastPos /\ DOMAIN n.pos = DOMAIN mem.pos /\ n.pos[i] = r
        /\ \A j \in DOMAIN mem.pos : j # i => n.pos[j] = mem.pos[j]
    BY <1>1 DEF Sound, SetState
  <2>2. /\ DOMAIN r = DOMAIN mem.pos[i] /\ r.user = mem.pos[i].user
        /\ r.side = mem.pos[i].side /\ r.entry = mem.pos[i].entry
        /\ r.qty = mem.pos[i].qty /\ r.margin = mem.pos[i].margin
    BY <1>1 DEF RowOK, RowFields
  <2> HIDE DEF n, r
  <2>3. SameRows(mem, n)
    BY <2>1, <2>2 DEF SameRows, Agree
  <2> QED
    BY <2>3 DEF n
<1>2. CASE i \notin DOMAIN mem.pos
  BY <1>2, AccountsSameRows DEF SetState
<1> QED
  BY <1>1, <1>2

\* No handler changes a position before its trades are processed.
LEMMA HandlersSameRows ==
  ASSUME SettlementInv, PosSync, NEW t \in Threads,
         SilentStep(t) \/ MatchMarket(t) \/ MatchClose(t) \/ UnfreezeFilled(t)
  PROVE  SameRows(mem, mem')
<1>1. Sound(mem) /\ \A i \in DOMAIN mem.pos : RowOK(mem.pos[i])
  BY DEF SettlementInv, PositionsInv, PosSync, PosRowsOK
<1>2. CASE MatchMarket(t) \/ MatchClose(t) \/ UnfreezeFilled(t)
  <2>1. mem' = mem \/ mem' = Unfreeze(mem, calls[t].user, calls[t].cost)
    BY <1>2 DEF MatchMarket, MatchClose, UnfreezeFilled
  <2> QED
    BY <1>1, <2>1, AccountsSameRows
<1>3. ASSUME NEW u, NEW s, NEW q, NEW lev, NEW p,
             PlaceMarketOrder(t, u, s, q, lev) \/ PlaceLimitOrder(t, u, s, q, p, lev)
      PROVE  SameRows(mem, mem')
  <2>1. mem' = mem \/ mem' = Freeze(mem, u, LimitCost(q, p, lev))
    BY <1>3 DEF PlaceMarketOrder, PlaceLimitOrder
  <2> QED
    BY <1>1, <2>1, AccountsSameRows
<1>4. ASSUME NEW i, NEW q, ClosePosition(t, i, q) \/ RefuseClose(t, i, q)
      PROVE  SameRows(mem, mem')
  <2>1. mem' = SetState(mem, i, Closing)
    BY <1>4 DEF ClosePosition, RefuseClose
  <2> QED
    BY <1>1, <2>1, StateSameRows
<1>5. ASSUME NEW id \in DOMAIN cached, CancelOrder(t, id)
      PROVE  SameRows(mem, mem')
  BY <1>1, <1>5, AccountsSameRows DEF CancelOrder
<1>6. ASSUME MatchLimit(t)
      PROVE  SameRows(mem, mem')
  <2>1. mem' = mem \/ \E lost : mem' = [mem EXCEPT !.lost = lost]
    BY <1>6 DEF MatchLimit
  <2> QED
    BY <1>1, <2>1, AccountsSameRows
<1>7. ASSUME CancelInBook(t) \/ UnfreezeCancelled(t)
      PROVE  SameRows(mem, mem')
  <2>1. mem' = mem \/ mem' = Unfreeze(mem, calls[t].user, calls[t].cost)
    BY <1>7 DEF CancelInBook, UnfreezeCancelled
  <2> QED
    BY <1>1, <2>1, AccountsSameRows
<1>8. ASSUME Reopen(t)
      PROVE  SameRows(mem, mem')
  <2>1. mem' = SetState(mem, calls[t].pos, Active)
    BY <1>8 DEF Reopen
  <2> QED
    BY <1>1, <2>1, StateSameRows
<1> QED
  BY <1>2, <1>3, <1>4, <1>5, <1>6, <1>7, <1>8 DEF SilentStep

\* One event of an order goes into the queue.
LEMMA OrderSync ==
  ASSUME SettlementInv, PosSync, SameRows(mem, mem'), db' = db,
         apart' = apart, merged' = merged, stopping' = stopping, hand' = hand,
         NEW e, queue' = queue \o <<e>>, e.type \in {"create", "cancel"}
  PROVE  PosSync'
<1> DEFINE ev == <<e>>
<1>1. ev \in Seq(Contents(ev)) /\ Contents(ev) = {e}
  BY OneWord
<1> HIDE DEF ev
<1>2. queue' = queue \o ev
  BY DEF ev
<1>3. \A d \in Contents(ev) : d.type \notin TradeTypes
  BY <1>1 DEF TradeTypes
<1> QED
  BY <1>1, <1>2, <1>3, QuietSync

LEMMA HandlersSync ==
  ASSUME SettlementInv, PosSync, NEW t \in Threads,
         \/ SilentStep(t) \/ SubmitFilled(t) \/ SubmitResting(t)
         \/ RegisterSent(t) \/ SubmitCancel(t)
  PROVE  PosSync'
<1>1. SameRows(mem, mem)
  BY DEF SameRows, Agree
<1>2. CASE SilentStep(t)
  <2>1. /\ queue' = queue /\ hand' = hand /\ db' = db /\ stopping' = stopping
        /\ apart' = apart /\ merged' = merged
    BY <1>2 DEF SilentStep, flow, notes
  <2>2. SameRows(mem, mem')
    BY <1>2, HandlersSameRows
  <2> QED
    BY <2>1, <2>2, StillSync
<1>3. CASE SubmitFilled(t)
  <2>1. /\ hand' = hand /\ db' = db /\ stopping' = stopping
        /\ apart' = apart /\ merged' = merged
        /\ queue' = queue \o FilledOrder(calls[t], calls'[t].legs)
        /\ MatchMarket(t) \/ MatchClose(t) \/ UnfreezeFilled(t)
    BY <1>3 DEF SubmitFilled, Submit, notes
  <2>2. SameRows(mem, mem')
    BY <2>1, HandlersSameRows
  <2> DEFINE e == OrderEvent(calls[t], "filled", 0)
  <2>3. e.type \in {"create", "cancel"}
    BY OrderEventFields
  <2>4. queue' = queue \o <<>> \/ queue' = queue \o <<e>>
    BY <2>1 DEF FilledOrder
  <2> HIDE DEF e
  <2>5. CASE queue' = queue \o <<>>
    <3>1. queue' = queue
      BY <2>5 DEF SettlementInv, FlowOK
    <3> QED
      BY <2>1, <2>2, <3>1, StillSync
  <2>6. CASE queue' = queue \o <<e>>
    BY <2>1, <2>2, <2>3, <2>6, OrderSync
  <2> QED
    BY <2>4, <2>5, <2>6
<1>4. CASE SubmitResting(t)
  <2> DEFINE e == OrderEvent(calls[t], "pending", calls[t].cost)
  <2>1. /\ hand' = hand /\ db' = db /\ stopping' = stopping /\ mem' = mem
        /\ apart' = apart /\ merged' = merged /\ queue' = queue \o <<e>>
    BY <1>4 DEF SubmitResting, Submit, notes, vars
  <2>2. e.type \in {"create", "cancel"}
    BY OrderEventFields
  <2> HIDE DEF e
  <2> QED
    BY <1>1, <2>1, <2>2, OrderSync
<1>5. CASE RegisterSent(t)
  <2>1. /\ queue' = queue /\ hand' = hand /\ db' = db /\ stopping' = stopping /\ mem' = mem
        /\ apart' = apart /\ merged' = merged
    BY <1>5 DEF RegisterSent, Register, notes
  <2> QED
    BY <1>1, <2>1, StillSync
<1>6. CASE SubmitCancel(t)
  <2> DEFINE e == CancelEvent(calls[t])
  <2>1. /\ hand' = hand /\ db' = db /\ stopping' = stopping /\ mem' = mem
        /\ apart' = apart /\ merged' = merged /\ queue' = queue \o <<e>>
    BY <1>6 DEF SubmitCancel, Uncache, Submit, notes
  <2>2. e.type \in {"create", "cancel"}
    BY DEF CancelEvent
  <2> HIDE DEF e
  <2> QED
    BY <1>1, <2>1, <2>2, OrderSync
<1> QED
  BY <1>2, <1>3, <1>4, <1>5, <1>6

-----------------------------------------------------------------------------
(* The book and the legs of trades: who is said to have placed what.       *)

\* A row of the book.
RestsOK(o) == {"id", "user", "side"} \subseteq DOMAIN o /\ o.side \in Sides

Alike(o, p) ==
  DOMAIN o = DOMAIN p /\ o.id = p.id /\ o.user = p.user /\ o.side = p.side

\* Each row of q is one of r, perhaps of another quantity.
RowsOf(q, r) ==
  /\ q \in Seq(Contents(q))
  /\ \A n \in DOMAIN q : \E k \in DOMAIN r : Alike(q[n], r[k])

LEMMA MadeSeq ==
  ASSUME NEW k \in Nat, NEW q, q = [n \in 1 .. k |-> q[n]]
  PROVE  q \in Seq(Contents(q)) /\ Len(q) = k /\ DOMAIN q = 1 .. k
<1>1. DOMAIN q = 1 .. k
  OBVIOUS
<1>2. q \in [1 .. k -> Contents(q)]
  BY <1>1 DEF Contents
<1> QED
  BY <1>1, <1>2, SeqDef

LEMMA SameButQuantity ==
  ASSUME NEW o, RestsOK(o), NEW q
  PROVE  Alike([o EXCEPT !.qty = q], o)
  BY DEF RestsOK, Alike

LEMMA SomeOf ==
  ASSUME NEW n \in Nat, NEW T \in SUBSET (1 .. n)
  PROVE  Cardinality(T) \in Nat /\ Cardinality(T) <= n
<1>1. IsFiniteSet(1 .. n) /\ Cardinality(1 .. n) = IF 1 > n THEN 0 ELSE n - 1 + 1
  BY FS_Interval
<1>2. Cardinality(1 .. n) = n
  BY <1>1
<1>3. IsFiniteSet(T) /\ Cardinality(T) <= n
  BY <1>1, <1>2, FS_Subset
<1> QED
  BY <1>3, FS_CardinalityType

LEMMA MatchingRows ==
  ASSUME NEW s \in Sides, book[-s] \in Seq(Contents(book[-s])),
         \A o \in Contents(book[-s]) : RestsOK(o), NEW limit, NEW qty \in Nat \ {0}
  PROVE  LET m == Matching(s, limit, qty)
         IN  /\ RowsOf(m.trades, book[-s]) /\ RowsOf(m.rest, book[-s])
             /\ m.left = 0 => m.trades # <<>>
<1> DEFINE r      == book[-s]
           T      == {n \in Reached(r, qty) : \A i \in 1 .. n : Acceptable(s, limit, r[i].price)}
           k      == Cardinality(T)
           over   == Ahead(r, k + 1) - qty
           others == SubSeq(r, k + 1, Len(r))
           trades == [n \in 1 .. k |-> [r[n] EXCEPT !.qty = Fill(r, qty, n)]]
           left   == IF over < 0 THEN -over ELSE 0
           last   == [r[k] EXCEPT !.qty = over]
           rest   == IF over > 0 THEN <<last>> \o others ELSE others
           m      == Matching(s, limit, qty)
<1>1. m.trades = trades /\ m.left = left /\ m.rest = rest
  <2>1. m = [trades |-> trades, left |-> left, rest |-> rest]
    BY Zenon DEF Matching
  <2> HIDE DEF m, trades, left, rest
  <2> QED
    BY <2>1
<1> HIDE DEF m
<1>2. /\ r \in Seq(Contents(r)) /\ DOMAIN r = 1 .. Len(r) /\ Len(r) \in Nat
      /\ \A n \in 1 .. Len(r) : RestsOK(r[n])
  BY DEF Contents
<1> HIDE DEF r
<1>3. k \in Nat /\ k <= Len(r)
  <2>1. T \in SUBSET (1 .. Len(r))
    BY <1>2 DEF Reached
  <2> HIDE DEF T
  <2> QED
    BY <1>2, <2>1, SomeOf
<1> HIDE DEF T, k
<1>4. k = 0 => ~(over > 0) /\ left # 0
  <2>1. Ahead(r, 0 + 1) = 0
    <3> DEFINE f == [i \in DOMAIN r |-> r[i].qty]
    <3>1. Ahead(r, 0 + 1) = SumFunctionOnSet(f, 1 .. (0 + 1 - 1))
      BY DEF Ahead
    <3>2. 1 .. (0 + 1 - 1) = {}
      OBVIOUS
    <3> HIDE DEF f
    <3> QED
      BY <3>1, <3>2, SumEmpty
  <2>2. ASSUME k = 0 PROVE over = 0 - qty
    BY <2>1, <2>2
  <2> QED
    BY <2>2
<1> HIDE DEF over, left
<1>5. RowsOf(trades, r) /\ (left = 0 => trades # <<>>)
  <2>1. trades = [n \in 1 .. k |-> trades[n]]
    OBVIOUS
  <2>0. \A n \in 1 .. k : n \in 1 .. Len(r)
    BY <1>2, <1>3
  <2>4. \A n \in 1 .. k : trades[n] = [r[n] EXCEPT !.qty = Fill(r, qty, n)]
    OBVIOUS
  <2>2. \A n \in 1 .. k : Alike(trades[n], r[n]) /\ n \in DOMAIN r
    BY <1>2, <2>0, <2>4, SameButQuantity
  <2> HIDE DEF trades
  <2>3. trades \in Seq(Contents(trades)) /\ Len(trades) = k /\ DOMAIN trades = 1 .. k
    BY <1>3, <2>1, MadeSeq
  <2> QED
    BY <1>4, <2>2, <2>3 DEF RowsOf
<1>6. others \in Seq(Contents(r)) /\ \A n \in DOMAIN others : \E j \in DOMAIN r : others[n] = r[j]
  <2>1. k \in 0 .. Len(r)
    BY <1>2, <1>3
  <2>2. /\ others \in Seq(Contents(r)) /\ Len(others) = Len(r) - k
        /\ \A n \in 1 .. Len(r) - k : others[n] = r[n + k]
    BY <1>2, <2>1, SubSeqTail
  <2> HIDE DEF others
  <2>3. \A n \in DOMAIN others : n + k \in DOMAIN r /\ others[n] = r[n + k]
    BY <1>2, <1>3, <2>2
  <2> QED
    BY <2>2, <2>3
<1> HIDE DEF others, trades
<1>7. \A o : Alike(o, o)
  BY DEF Alike
<1>8. RowsOf(rest, r)
  <2>1. CASE over > 0
    <3>1. k \in 1 .. Len(r)
      BY <1>2, <1>3, <1>4, <2>1
    <3>2. Alike(last, r[k]) /\ k \in DOMAIN r
      BY <1>2, <3>1, SameButQuantity
    <3>3. rest = <<last>> \o others
      BY <2>1
    <3> HIDE DEF last, rest
    <3> DEFINE S == Contents(r) \cup {last}
    <3>4. <<last>> \in Seq(S) /\ others \in Seq(S)
      BY <1>6
    <3> HIDE DEF S
    <3>5. /\ rest \in Seq(S) /\ DOMAIN rest = 1 .. Len(others) + 1
          /\ Len(others) \in Nat /\ DOMAIN others = 1 .. Len(others)
          /\ rest[1] = last
          /\ \A n \in DOMAIN rest : n # 1 => n - 1 \in DOMAIN others /\ rest[n] = others[n - 1]
      BY <3>3, <3>4
    <3>6. \A n \in DOMAIN rest : \E j \in DOMAIN r : Alike(rest[n], r[j])
      <4> SUFFICES ASSUME NEW n \in DOMAIN rest
                   PROVE  \E j \in DOMAIN r : Alike(rest[n], r[j])
        OBVIOUS
      <4>1. CASE n = 1
        BY <3>2, <3>5, <4>1
      <4>2. CASE n # 1
        BY <1>6, <1>7, <3>5, <4>2
      <4> QED
        BY <4>1, <4>2
    <3>7. rest \in Seq(Contents(rest))
      BY <3>5, SeqOfContents
    <3> QED
      BY <3>6, <3>7 DEF RowsOf
  <2>2. CASE ~(over > 0)
    <3>1. rest = others
      BY <2>2
    <3>2. others \in Seq(Contents(others))
      BY <1>6, SeqOfContents
    <3> QED
      BY <1>6, <1>7, <3>1, <3>2 DEF RowsOf
  <2> QED
    BY <2>1, <2>2
<1> HIDE DEF rest
<1> QED
  BY <1>1, <1>5, <1>8 DEF m, r

LEMMA LegsRows ==
  ASSUME NEW trades, trades \in Seq(Contents(trades)), \A n \in DOMAIN trades : RestsOK(trades[n]),
         NEW user, NEW s, NEW id
  PROVE  LET legs == Legs(trades, user, s, id)
         IN  /\ legs \in Seq(Contents(legs))
             /\ trades # <<>> => legs # <<>>
             /\ \A n \in DOMAIN legs :
                  /\ legs[n].side \in Sides
                  /\ \/ legs[n].user = user
                     \/ \E k \in DOMAIN trades : /\ legs[n].user = trades[k].user
                                                 /\ legs[n].id = trades[k].id
<1> DEFINE k == Len(trades)
           taker(n) == [side |-> -trades[n].side, user |-> user, qty |-> trades[n].qty,
                        price |-> trades[n].price, id |-> id]
           maker(n) == [side |-> trades[n].side, user |-> trades[n].user,
                        qty |-> trades[n].qty, price |-> trades[n].price,
                        id |-> trades[n].id]
           half(n) == (n + 1) \div 2
           buying(n) == n % 2 = 1
           legs == Legs(trades, user, s, id)
<1>1. /\ k \in Nat /\ DOMAIN trades = 1 .. k /\ 2 * k \in Nat
      /\ trades # <<>> => k # 0
      /\ \A n \in 1 .. k : trades[n].side \in Sides
  BY DEF RestsOK
<1>2. legs = [n \in 1 .. 2 * k |-> IF buying(n) = (s = Long) THEN taker(half(n))
                                                              ELSE maker(half(n))]
  BY Zenon DEF Legs
<1>3. \A n \in 1 .. 2 * k : half(n) \in 1 .. k
  BY <1>1
<1>4. \A n \in 1 .. k : /\ taker(n).side \in Sides /\ taker(n).user = user
                        /\ maker(n).side \in Sides /\ maker(n).user = trades[n].user
                        /\ maker(n).id = trades[n].id
  BY <1>1 DEF Sides, Long, Short
<1> HIDE DEF k, taker, maker
<1>5. \A n \in 1 .. 2 * k : legs[n] = taker(half(n)) \/ legs[n] = maker(half(n))
  BY <1>2
<1>6. legs = [n \in 1 .. 2 * k |-> legs[n]]
  BY <1>2
<1> HIDE DEF legs, half, buying
<1>7. legs \in Seq(Contents(legs)) /\ Len(legs) = 2 * k /\ DOMAIN legs = 1 .. 2 * k
  BY <1>1, <1>6, MadeSeq
<1>8. trades # <<>> => legs # <<>>
  <2>1. Len(<<>>) = 0
    OBVIOUS
  <2> QED
    BY <1>1, <1>7, <2>1
<1>9. \A n \in DOMAIN legs :
        /\ legs[n].side \in Sides
        /\ \/ legs[n].user = user
           \/ \E j \in DOMAIN trades : legs[n].user = trades[j].user /\ legs[n].id = trades[j].id
  <2> SUFFICES ASSUME NEW n \in 1 .. 2 * k
               PROVE  /\ legs[n].side \in Sides
                      /\ \/ legs[n].user = user
                         \/ \E j \in DOMAIN trades : /\ legs[n].user = trades[j].user
                                                    /\ legs[n].id = trades[j].id
    BY <1>7
  <2>1. half(n) \in DOMAIN trades /\ half(n) \in 1 .. k
    BY <1>1, <1>3
  <2>2. CASE legs[n] = taker(half(n))
    BY <1>4, <2>1, <2>2
  <2>3. CASE legs[n] = maker(half(n))
    BY <1>4, <2>1, <2>3
  <2> QED
    BY <1>5, <2>2, <2>3
<1> QED
  BY <1>7, <1>8, <1>9 DEF legs

LEMMA QueueRows ==
  ASSUME NEW r, r \in Seq(Contents(r)), NEW o
  PROVE  /\ Queue(r, o) \in Seq(Contents(Queue(r, o)))
         /\ Contents(Queue(r, o)) \subseteq Contents(r) \cup {o}
<1> DEFINE ahead == {i \in DOMAIN r : ~Better(o.side, o.price, r[i].price)}
           c == Cardinality(ahead) + 1
           q == Queue(r, o)
           S == Contents(r) \cup {o}
<1>1. Len(r) \in Nat /\ DOMAIN r = 1 .. Len(r)
  OBVIOUS
<1>2. c \in 1 .. Len(r) + 1
  <2>1. ahead \in SUBSET (1 .. Len(r))
    BY <1>1
  <2> HIDE DEF ahead
  <2>2. Cardinality(ahead) \in Nat /\ Cardinality(ahead) <= Len(r)
    BY <1>1, <2>1, SomeOf
  <2> QED
    BY <1>1, <2>2
<1>3. q = InsertAt(r, c, o)
  BY DEF Queue
<1>4. r \in Seq(S) /\ o \in S
  OBVIOUS
<1> HIDE DEF ahead, c, q, S
<1>5. q \in Seq(S)
  BY <1>2, <1>3, <1>4, InsertAtFacts
<1>6. Contents(q) \subseteq S
  BY <1>5, ElementIn DEF Contents
<1> QED
  BY <1>5, <1>6, SeqOfContents DEF q, S

LEMMA WithoutRows ==
  ASSUME NEW r, r \in Seq(Contents(r)), NEW id
  PROVE  /\ Without(r, id) \in Seq(Contents(Without(r, id)))
         /\ Contents(Without(r, id)) \subseteq Contents(r)
<1> DEFINE at == {n \in DOMAIN r : r[n].id = id}
           c == CHOOSE n \in at : TRUE
           q == Without(r, id)
<1>1. Len(r) \in Nat /\ DOMAIN r = 1 .. Len(r)
  OBVIOUS
<1>2. CASE at = {}
  <2>1. q = r
    BY <1>2 DEF Without
  <2> HIDE DEF q
  <2> QED
    BY <2>1 DEF q
<1>3. CASE at # {}
  <2>1. c \in 1 .. Len(r)
    BY <1>1, <1>3
  <2>2. q = RemoveAt(r, c)
    BY <1>3 DEF Without
  <2> HIDE DEF at, c, q
  <2>3. q \in Seq(Contents(r))
    BY <1>1, <2>1, <2>2, RemoveAtFacts
  <2>4. Contents(q) \subseteq Contents(r)
    BY <2>3, ElementIn DEF Contents
  <2> QED
    BY <2>3, <2>4, SeqOfContents DEF q
<1> QED
  BY <1>2, <1>3

-----------------------------------------------------------------------------
(* What is said of an order, the settler knows or is to hear.              *)

\* The settler has order o of u, will have it, is to hear of it from a thread
\* that has put it into the book, or u is apart.
Known(o, u) ==
  \/ u \in apart
  \/ o \in DOMAIN db.orders
  \/ \E e \in OnWay : e.type = "create" /\ e.order = o /\ e.user = u
  \/ \E t \in Threads : /\ calls[t].pc = "resting" /\ t \notin sent
                        /\ calls[t].id = o /\ calls[t].user = u

\* Order i was not filled at once, and the settler has it or will have it.
Cancellable(i) ==
  \/ i \in DOMAIN db.orders /\ db.orders[i].status \in {"pending", "canceled"}
  \/ \E e \in OnWay : e.type = "create" /\ e.order = i /\ e.row.status = "pending"

BookKnown ==
  /\ book = [s \in Sides |-> book[s]]
  /\ \A s \in Sides : /\ book[s] \in Seq(Contents(book[s]))
                      /\ \A o \in Contents(book[s]) : RestsOK(o) /\ Known(o.id, o.user)

LegsKnown(legs, u) ==
  /\ legs \in Seq(Contents(legs)) /\ legs # <<>>
  /\ \A l \in Contents(legs) : l.side \in Sides /\ (l.user = u \/ Known(l.id, l.user))

CallKnown(c) ==
  /\ c.pc \in {"market", "limit", "close"} => c.side \in Sides /\ c.qty \in Nat \ {0}
  /\ c.pc \in {"limit", "resting"} => c.user \in Users
  /\ c.pc \in {"filled", "legs"} => LegsKnown(c.legs, c.user)
  /\ c.pc = "legs" => Known(c.id, c.user)
  /\ c.pc \in {"cancel", "unfreeze", "uncache"} /\ c.user \notin apart => Cancellable(c.id)

EventsKnown ==
  \A e \in OnWay :
    /\ e.type \in TradeTypes => Known(e.order, e.user)
    /\ e.type = "cancel" /\ e.user \notin apart => Cancellable(e.order)

TradesInv ==
  /\ BookKnown
  /\ \A t \in Threads : CallKnown(calls[t])
  /\ EventsKnown
  /\ \A i \in DOMAIN cached : cached[i].user \in Users

LEMMA StillKnown ==
  ASSUME OnWay \subseteq OnWay', db' = db, apart' = apart,
         \A r \in Threads : calls[r].pc = "resting" /\ r \notin sent =>
           \/ calls'[r] = calls[r] /\ r \notin sent'
           \/ \E e \in OnWay' : /\ e.type = "create" /\ e.order = calls[r].id
                                /\ e.user = calls[r].user
  PROVE  /\ \A o, u : Known(o, u) => Known(o, u)'
         /\ \A i : Cancellable(i) => Cancellable(i)'
<1>1. ASSUME NEW o, NEW u, Known(o, u)
      PROVE  Known(o, u)'
  <2>1. CASE u \in apart \/ o \in DOMAIN db.orders
    BY <2>1 DEF Known
  <2>2. CASE \E e \in OnWay : e.type = "create" /\ e.order = o /\ e.user = u
    BY <2>2 DEF Known
  <2>3. CASE \E t \in Threads : /\ calls[t].pc = "resting" /\ t \notin sent
                                /\ calls[t].id = o /\ calls[t].user = u
    BY <2>3 DEF Known
  <2> QED
    BY <1>1, <2>1, <2>2, <2>3 DEF Known
<1>2. \A i : Cancellable(i) => Cancellable(i)'
  BY DEF Cancellable
<1> QED
  BY <1>1, <1>2

\* One thread goes on.
LEMMA OneCallKnown ==
  ASSUME CallsOK, \A r \in Threads : CallKnown(calls[r]),
         NEW t \in Threads, NEW d, calls' = [calls EXCEPT ![t] = d],
         \A o, u : Known(o, u) => Known(o, u)',
         \A i : Cancellable(i) => Cancellable(i)', apart' = apart,
         CallKnown(calls[t])'
  PROVE  \A r \in Threads : CallKnown(calls[r])'
<1> SUFFICES ASSUME NEW r \in Threads, r # t PROVE CallKnown(calls[r])'
  OBVIOUS
<1>1. calls'[r] = calls[r]
  BY ThreadsAre DEF CallsOK
<1>2. CallKnown(calls[r])
  OBVIOUS
<1>3. calls[r].pc \in {"filled", "legs"} => LegsKnown(calls[r].legs, calls[r].user)'
  BY <1>1, <1>2 DEF CallKnown, LegsKnown
<1> QED
  BY <1>1, <1>2, <1>3 DEF CallKnown

\* A step of a handler that leaves the book and the cache as they are.
LEMMA SameBookKnown ==
  ASSUME BookKnown, book' = book, \A o, u : Known(o, u) => Known(o, u)'
  PROVE  BookKnown'
  BY DEF BookKnown

\* The rows of a side change, and each is one of the old ones or known.
LEMMA BookStaysKnown ==
  ASSUME BookKnown, \A o, u : Known(o, u) => Known(o, u)', NEW s \in Sides, NEW q,
         book' = [book EXCEPT ![s] = q], q \in Seq(Contents(q)),
         \A o \in Contents(q) : \/ \E p \in Contents(book[s]) : Alike(o, p)
                                \/ RestsOK(o) /\ Known(o.id, o.user)'
  PROVE  BookKnown'
<1>1. \A p \in Contents(book[s]) : RestsOK(p) /\ Known(p.id, p.user)'
  BY DEF BookKnown
<1>2. ASSUME NEW o \in Contents(q)
      PROVE  RestsOK(o) /\ Known(o.id, o.user)'
  <2>1. CASE RestsOK(o) /\ Known(o.id, o.user)'
    BY <2>1
  <2>2. ASSUME NEW p \in Contents(book[s]), Alike(o, p)
        PROVE  RestsOK(o) /\ Known(o.id, o.user)'
    <3>1. RestsOK(p) /\ Known(p.id, p.user)' /\ o.id = p.id /\ o.user = p.user
      BY <1>1, <2>2 DEF Alike
    <3>2. RestsOK(o)
      BY <2>2, <3>1 DEF Alike, RestsOK
    <3> QED
      BY <3>1, <3>2
  <2> QED
    BY <1>2, <2>1, <2>2
<1>3. book' = [r \in Sides |-> book'[r]] /\ book'[s] = q /\ \A r \in Sides : r # s => book'[r] = book[r]
  BY DEF BookKnown
<1>4. \A r \in Sides : r # s => /\ book'[r] \in Seq(Contents(book'[r]))
                                /\ \A o \in Contents(book'[r]) : RestsOK(o) /\ Known(o.id, o.user)'
  BY <1>3 DEF BookKnown
<1> QED
  BY <1>2, <1>3, <1>4 DEF BookKnown

\* What matching leaves in the book was there, and its makers are known.
LEMMA MatchKnown ==
  ASSUME BookKnown, NEW s \in Sides, NEW qty \in Nat \ {0}, NEW limit, NEW user, NEW id
  PROVE  LET m == Matching(s, limit, qty)
             legs == Legs(m.trades, user, s, id)
         IN  /\ -s \in Sides /\ -s # s
             /\ m.rest \in Seq(Contents(m.rest))
             /\ \A o \in Contents(m.rest) : \E p \in Contents(book[-s]) : Alike(o, p)
             /\ m.left = 0 => legs # <<>>
             /\ legs # <<>> => LegsKnown(legs, user)
<1> DEFINE m == Matching(s, limit, qty)
           legs == Legs(m.trades, user, s, id)
<1>1. -s \in Sides /\ -s # s
  BY DEF Sides, Long, Short
<1>2. /\ book[-s] \in Seq(Contents(book[-s]))
      /\ \A o \in Contents(book[-s]) : RestsOK(o) /\ Known(o.id, o.user)
  BY <1>1 DEF BookKnown
<1>3. /\ RowsOf(m.trades, book[-s]) /\ RowsOf(m.rest, book[-s])
      /\ m.left = 0 => m.trades # <<>>
  BY <1>2, MatchingRows
<1> HIDE DEF m
<1>4. \A n \in DOMAIN m.trades : RestsOK(m.trades[n]) /\ Known(m.trades[n].id, m.trades[n].user)
  <2> SUFFICES ASSUME NEW n \in DOMAIN m.trades
               PROVE  RestsOK(m.trades[n]) /\ Known(m.trades[n].id, m.trades[n].user)
    OBVIOUS
  <2>1. PICK k \in DOMAIN book[-s] : Alike(m.trades[n], book[-s][k])
    BY <1>3 DEF RowsOf
  <2>2. RestsOK(book[-s][k]) /\ Known(book[-s][k].id, book[-s][k].user)
    BY <1>2 DEF Contents
  <2>3. /\ DOMAIN m.trades[n] = DOMAIN book[-s][k] /\ m.trades[n].side = book[-s][k].side
        /\ m.trades[n].id = book[-s][k].id /\ m.trades[n].user = book[-s][k].user
    BY <2>1 DEF Alike
  <2>4. RestsOK(m.trades[n])
    BY <2>2, <2>3 DEF RestsOK
  <2> QED
    BY <2>2, <2>3, <2>4
<1>5. /\ legs \in Seq(Contents(legs))
      /\ m.trades # <<>> => legs # <<>>
      /\ \A n \in DOMAIN legs :
           /\ legs[n].side \in Sides
           /\ \/ legs[n].user = user
              \/ \E k \in DOMAIN m.trades : /\ legs[n].user = m.trades[k].user
                                            /\ legs[n].id = m.trades[k].id
  BY <1>3, <1>4, LegsRows DEF RowsOf
<1> HIDE DEF legs
<1>6. \A n \in DOMAIN legs : /\ legs[n].side \in Sides
                             /\ legs[n].user = user \/ Known(legs[n].id, legs[n].user)
  BY <1>4, <1>5
<1>7. legs # <<>> => LegsKnown(legs, user)
  BY <1>5, <1>6 DEF LegsKnown, Contents
<1>8. /\ m.rest \in Seq(Contents(m.rest))
      /\ \A o \in Contents(m.rest) : \E p \in Contents(book[-s]) : Alike(o, p)
  BY <1>3 DEF RowsOf, Contents
<1> QED
  BY <1>1, <1>3, <1>5, <1>7, <1>8 DEF legs, m

\* What the handlers have in common: the database and the rolled back stay.
LEMMA HandlerKnown ==
  ASSUME SettlementInv, TradesInv, NEW t \in Threads, NEW d, calls' = [calls EXCEPT ![t] = d],
         calls[t].pc # "resting", OnWay \subseteq OnWay', db' = db, apart' = apart, sent' = sent
  PROVE  /\ \A o, u : Known(o, u) => Known(o, u)'
         /\ \A i : Cancellable(i) => Cancellable(i)'
         /\ CallKnown(calls[t])' => \A r \in Threads : CallKnown(calls[r])'
<1>1. CallsOK
  BY DEF SettlementInv
<1>2. \A r \in Threads : r # t => calls'[r] = calls[r]
  BY <1>1, ThreadsAre DEF CallsOK
<1>3. /\ \A o, u : Known(o, u) => Known(o, u)'
      /\ \A i : Cancellable(i) => Cancellable(i)'
  BY <1>2, StillKnown
<1>4. \A r \in Threads : CallKnown(calls[r])
  BY DEF TradesInv
<1> QED
  BY <1>1, <1>3, <1>4, OneCallKnown

\* The events on their way stay known when those of trades or cancels that
\* come are.
LEMMA EventsStayKnown ==
  ASSUME EventsKnown, \A o, u : Known(o, u) => Known(o, u)',
         \A i : Cancellable(i) => Cancellable(i)', apart' = apart,
         \A e \in OnWay' : \/ e \in OnWay
                           \/ /\ e.type \in TradeTypes => Known(e.order, e.user)'
                              /\ e.type = "cancel" /\ e.user \notin apart => Cancellable(e.order)'
  PROVE  EventsKnown'
  BY DEF EventsKnown

LEMMA SilentKnown ==
  ASSUME SettlementInv, PosSync, TradesInv, NEW t \in Threads, SilentStep(t)
  PROVE  TradesInv'
<1>1. /\ queue' = queue /\ hand' = hand /\ db' = db /\ sent' = sent /\ apart' = apart
  BY DEF SilentStep, flow, notes
<1>2. /\ OnWay' = OnWay /\ t \in AllThreads /\ BookKnown /\ CallKnown(calls[t])
      /\ DOMAIN calls[t] = DOMAIN Idle
      /\ EventsKnown /\ \A i \in DOMAIN cached : cached[i].user \in Users
  BY <1>1, SameFlow, ThreadsAre DEF TradesInv, SettlementInv, CallsOK
<1>3. ASSUME NEW d, calls' = [calls EXCEPT ![t] = d], calls[t].pc # "resting"
      PROVE  /\ calls'[t] = d
             /\ \A o, u : Known(o, u) => Known(o, u)'
             /\ \A i : Cancellable(i) => Cancellable(i)'
             /\ EventsKnown'
             /\ CallKnown(calls[t])' => \A r \in Threads : CallKnown(calls[r])'
  <2>1. calls'[t] = d
    BY <1>2, <1>3 DEF SettlementInv, CallsOK
  <2>2. /\ \A o, u : Known(o, u) => Known(o, u)'
        /\ \A i : Cancellable(i) => Cancellable(i)'
        /\ CallKnown(calls[t])' => \A r \in Threads : CallKnown(calls[r])'
    BY <1>1, <1>2, <1>3, HandlerKnown
  <2>3. EventsKnown'
    BY <1>1, <1>2, <2>2, EventsStayKnown
  <2> QED
    BY <2>1, <2>2, <2>3
<1>4. ASSUME NEW d, calls' = [calls EXCEPT ![t] = d], calls[t].pc # "resting",
             CallKnown(calls[t])', book' = book, cached' = cached
      PROVE  TradesInv'
  BY <1>2, <1>3, <1>4, SameBookKnown DEF TradesInv
<1>5. ASSUME NEW u \in Users, NEW s \in Sides, NEW q \in Quantities, NEW lev \in Leverages,
             PlaceMarketOrder(t, u, s, q, lev)
      PROVE  TradesInv'
  <2> DEFINE d == [[Idle EXCEPT !.user = u, !.side = s, !.lev = lev,
                                !.qty = q, !.id = nextID + 1] EXCEPT !.pc = "market"]
  <2>1. /\ calls[t].pc = "idle" /\ book' = book /\ cached' = cached
        /\ calls' = [calls EXCEPT ![t] = d]
    BY <1>5 DEF PlaceMarketOrder, Start, Goto
  <2>2. d.pc = "market" /\ d.side = s /\ d.qty = q
    BY DEF Idle
  <2> HIDE DEF d
  <2>3. calls'[t] = d
    BY <1>3, <2>1
  <2>4. CallKnown(calls[t])'
    BY <2>2, <2>3, SizesAssumption DEF CallKnown
  <2> QED
    BY <1>4, <2>1, <2>4
<1>6. ASSUME NEW u \in Users, NEW s \in Sides, NEW q \in Quantities, NEW lev \in Leverages,
             NEW p \in LimitPrices, PlaceLimitOrder(t, u, s, q, p, lev)
      PROVE  TradesInv'
  <2> DEFINE cost == LimitCost(q, p, lev)
             d == [[Idle EXCEPT !.user = u, !.side = s, !.lev = lev,
                       !.qty = q, !.id = nextID + 1, !.price = p,
                       !.cost = cost] EXCEPT !.pc = "limit"]
  <2>1. /\ calls[t].pc = "idle" /\ book' = book /\ cached' = cached
        /\ calls' = [calls EXCEPT ![t] = d]
    BY <1>6 DEF PlaceLimitOrder, Start, Goto
  <2> HIDE DEF cost
  <2>2. d.pc = "limit" /\ d.side = s /\ d.qty = q /\ d.user = u
    BY DEF Idle
  <2> HIDE DEF d
  <2>3. calls'[t] = d
    BY <1>3, <2>1
  <2>4. CallKnown(calls[t])'
    BY <2>2, <2>3, SizesAssumption DEF CallKnown
  <2> QED
    BY <1>4, <2>1, <2>4
<1>7. ASSUME NEW i, NEW q \in Quantities, ClosePosition(t, i, q)
      PROVE  TradesInv'
  <2> DEFINE d == [[Idle EXCEPT !.user = mem.pos[i].user, !.side = -mem.pos[i].side,
                          !.lev = mem.pos[i].lev, !.qty = q,
                          !.id = nextID + 1, !.pos = i] EXCEPT !.pc = "close"]
  <2>1. /\ calls[t].pc = "idle" /\ book' = book /\ cached' = cached /\ i \in DOMAIN mem.pos
        /\ calls' = [calls EXCEPT ![t] = d]
    BY <1>7 DEF ClosePosition, Start, Goto
  <2>2. d.pc = "close" /\ d.side = -mem.pos[i].side /\ d.qty = q
    BY DEF Idle
  <2> HIDE DEF d
  <2>3. calls'[t] = d
    BY <1>3, <2>1
  <2>4. -mem.pos[i].side \in Sides
    BY <2>1 DEF PosSync, PosRowsOK, RowOK, Sides, Long, Short
  <2>5. CallKnown(calls[t])'
    BY <2>2, <2>3, <2>4, SizesAssumption DEF CallKnown
  <2> QED
    BY <1>4, <2>1, <2>5
<1>8. ASSUME NEW id \in DOMAIN cached, CancelOrder(t, id)
      PROVE  TradesInv'
  <2> DEFINE d == [[Idle EXCEPT !.user = cached[id].user, !.id = id,
                                !.cost = cached[id].cost] EXCEPT !.pc = "cancel"]
  <2>1. /\ calls[t].pc = "idle" /\ book' = book /\ cached' = cached
        /\ calls' = [calls EXCEPT ![t] = d]
    BY <1>8 DEF CancelOrder, Goto
  <2>2. d.pc = "cancel" /\ d.id = id /\ d.user = cached[id].user
    BY DEF Idle
  <2> HIDE DEF d
  <2>3. calls'[t] = d /\ (Cancellable(id) => Cancellable(id)')
    BY <1>3, <2>1
  <2>4. cached[id].user \notin apart => Cancellable(id)
    <3>1. cached[id].user \in Users
      BY <1>2
    <3>2. cached[id].user \notin apart => Stands(db.orders, OnWay, id, cached[id].user)
      BY <3>1 DEF SettlementInv, OrdersInv, CachedOK
    <3> QED
      BY <3>2 DEF Stands, Cancellable
  <2>5. CallKnown(calls[t])'
    BY <1>1, <2>2, <2>3, <2>4 DEF CallKnown
  <2> QED
    BY <1>4, <2>1, <2>5
<1>9. ASSUME CancelInBook(t) \/ UnfreezeCancelled(t) \/ Reopen(t)
      PROVE  TradesInv'
  <2> DEFINE c == calls[t]
  <2>1. CASE CancelInBook(t)
    <3> DEFINE d == [c EXCEPT !.pc = "unfreeze"]
    <3>1. /\ c.pc = "cancel" /\ cached' = cached /\ calls' = [calls EXCEPT ![t] = d]
          /\ book' = [s \in Sides |-> Without(book[s], c.id)]
      BY <2>1 DEF CancelInBook, Goto, WithoutOrder
    <3>2. d.pc = "unfreeze" /\ d.id = c.id /\ d.user = c.user
      BY <1>2 DEF Idle
    <3> HIDE DEF d
    <3>3. /\ calls'[t] = d /\ \A i : Cancellable(i) => Cancellable(i)'
          /\ \A o, u : Known(o, u) => Known(o, u)'
          /\ EventsKnown'
          /\ CallKnown(calls[t])' => \A r \in Threads : CallKnown(calls[r])'
      BY <1>3, <3>1
    <3>4. CallKnown(calls[t])'
      BY <1>1, <1>2, <3>1, <3>2, <3>3 DEF CallKnown
    <3>5. \A s \in Sides : /\ book'[s] = Without(book[s], c.id)
                           /\ book[s] \in Seq(Contents(book[s]))
      BY <1>2, <3>1 DEF BookKnown
    <3>6. \A s \in Sides : /\ book'[s] \in Seq(Contents(book'[s]))
                           /\ Contents(book'[s]) \subseteq Contents(book[s])
      BY <3>5, WithoutRows
    <3>7. book' = [s \in Sides |-> book'[s]]
      BY <3>1
    <3>8. BookKnown'
      BY <1>2, <3>3, <3>6, <3>7 DEF BookKnown
    <3> QED
      BY <1>2, <3>1, <3>3, <3>4, <3>8 DEF TradesInv
  <2>2. CASE UnfreezeCancelled(t)
    <3> DEFINE d == [c EXCEPT !.pc = "uncache"]
    <3>1. /\ c.pc = "unfreeze" /\ book' = book /\ cached' = cached
          /\ calls' = [calls EXCEPT ![t] = d]
      BY <2>2 DEF UnfreezeCancelled, Goto
    <3>2. d.pc = "uncache" /\ d.id = c.id /\ d.user = c.user
      BY <1>2 DEF Idle
    <3> HIDE DEF d
    <3>3. calls'[t] = d /\ \A i : Cancellable(i) => Cancellable(i)'
      BY <1>3, <3>1
    <3>4. CallKnown(calls[t])'
      BY <1>1, <1>2, <3>1, <3>2, <3>3 DEF CallKnown
    <3> QED
      BY <1>4, <3>1, <3>4
  <2>3. CASE Reopen(t)
    <3>1. /\ c.pc = "reopen" /\ book' = book /\ cached' = cached
          /\ calls' = [calls EXCEPT ![t] = Idle]
      BY <2>3 DEF Reopen, Finish
    <3>2. calls'[t] = Idle
      BY <1>3, <3>1
    <3>3. CallKnown(calls[t])'
      BY <3>2 DEF CallKnown, Idle
    <3> QED
      BY <1>4, <3>1, <3>3
  <2> QED
    BY <1>9, <2>1, <2>2, <2>3
<1>10. ASSUME MatchLimit(t)
       PROVE  TradesInv'
  <2> DEFINE c == calls[t]
             m    == Matching(c.side, c.price, c.qty)
             legs == Legs(m.trades, c.user, c.side, c.id)
             rest == [id |-> c.id, user |-> c.user, side |-> c.side,
                      price |-> c.price, qty |-> m.left]
  <2>1. c.pc = "limit" /\ cached' = cached /\ c.side \in Sides /\ c.qty \in Nat \ {0} /\ c.user \in Users
    BY <1>2, <1>10 DEF MatchLimit, CallKnown
  <2>2. /\ -c.side \in Sides /\ -c.side # c.side
        /\ m.rest \in Seq(Contents(m.rest))
        /\ \A o \in Contents(m.rest) : \E p \in Contents(book[-c.side]) : Alike(o, p)
        /\ m.left = 0 => legs # <<>>
        /\ legs # <<>> => LegsKnown(legs, c.user)
    BY <1>2, <2>1, MatchKnown
  <2>3. CASE m.left = 0
    <3> DEFINE d == [[c EXCEPT !.legs = legs] EXCEPT !.pc = "filled"]
    <3>1. /\ book' = [book EXCEPT ![-c.side] = m.rest] /\ calls' = [calls EXCEPT ![t] = d]
      BY <1>10, <2>3 DEF MatchLimit, Goto
    <3> HIDE DEF m, legs
    <3>2. d.pc = "filled" /\ d.legs = legs /\ d.user = c.user
      BY <1>2 DEF Idle
    <3> HIDE DEF d
    <3>3. /\ calls'[t] = d
          /\ \A o, u : Known(o, u) => Known(o, u)'
          /\ EventsKnown'
          /\ CallKnown(calls[t])' => \A r \in Threads : CallKnown(calls[r])'
      BY <1>3, <2>1, <3>1
    <3>4. LegsKnown(legs, c.user)
      BY <2>2, <2>3
    <3>5. LegsKnown(calls[t].legs, calls[t].user)'
      BY <3>2, <3>3, <3>4 DEF LegsKnown
    <3>6. CallKnown(calls[t])'
      BY <3>2, <3>3, <3>5 DEF CallKnown
    <3>7. BookKnown'
      BY <1>2, <2>2, <3>1, <3>3, BookStaysKnown
    <3> QED
      BY <1>2, <2>1, <3>3, <3>6, <3>7 DEF TradesInv
  <2>4. CASE m.left # 0
    <3> DEFINE d == [c EXCEPT !.pc = "resting"]
    <3>1. /\ book' = [book EXCEPT ![-c.side] = m.rest, ![c.side] = Queue(@, rest)]
          /\ calls' = [calls EXCEPT ![t] = d]
      BY <1>10, <2>4 DEF MatchLimit, Goto
    <3>0. rest.id = c.id /\ rest.user = c.user /\ rest.side = c.side /\ {"id", "user", "side"} \subseteq DOMAIN rest
      OBVIOUS
    <3> HIDE DEF m, legs, rest
    <3>2. d.pc = "resting" /\ d.id = c.id /\ d.user = c.user
      BY <1>2 DEF Idle
    <3> HIDE DEF d
    <3>3. /\ calls'[t] = d
          /\ \A o, u : Known(o, u) => Known(o, u)'
          /\ EventsKnown'
          /\ CallKnown(calls[t])' => \A r \in Threads : CallKnown(calls[r])'
      BY <1>3, <2>1, <3>1
    <3>4. t \notin sent
      BY <2>1, NotSent DEF SettlementInv
    <3>5. Known(c.id, c.user)'
      BY <1>1, <3>2, <3>3, <3>4 DEF Known
    <3>6. RestsOK(rest)
      BY <2>1, <3>0 DEF RestsOK
    <3>7. CallKnown(calls[t])'
      BY <2>1, <3>2, <3>3 DEF CallKnown
    <3> DEFINE q == Queue(book[c.side], rest)
               b == [book EXCEPT ![-c.side] = m.rest]
    <3>8. q \in Seq(Contents(q)) /\ Contents(q) \subseteq Contents(book[c.side]) \cup {rest}
      BY <1>2, <2>1, QueueRows DEF BookKnown
    <3>9. book' = [b EXCEPT ![c.side] = q]
      BY <2>2, <3>1
    <3>10. /\ book' = [s \in Sides |-> book'[s]]
           /\ book'[c.side] = q /\ book'[-c.side] = m.rest
           /\ \A s \in Sides : s = c.side \/ s = -c.side
      BY <1>2, <2>1, <2>2, <3>9 DEF BookKnown, Sides, Long, Short
    <3> HIDE DEF q, b
    <3>11. \A o \in Contents(q) : RestsOK(o) /\ Known(o.id, o.user)'
      <4> SUFFICES ASSUME NEW o \in Contents(q) PROVE RestsOK(o) /\ Known(o.id, o.user)'
        OBVIOUS
      <4>1. CASE o = rest
        <5>1. /\ (c.id)' = o.id /\ (c.user)' = o.user
              /\ RestsOK(o)
          BY <3>0, <3>2, <3>3, <3>6, <4>1
        <5> QED
          BY <3>5, <5>1
      <4>2. CASE o \in Contents(book[c.side])
        <5>1. RestsOK(o) /\ Known(o.id, o.user)
          BY <1>2, <2>1, <4>2 DEF BookKnown
        <5> QED
          BY <3>3, <5>1
      <4> QED
        BY <3>8, <4>1, <4>2
    <3>12. \A o \in Contents(m.rest) : RestsOK(o) /\ Known(o.id, o.user)'
      <4> SUFFICES ASSUME NEW o \in Contents(m.rest) PROVE RestsOK(o) /\ Known(o.id, o.user)'
        OBVIOUS
      <4>1. PICK p \in Contents(book[-c.side]) : Alike(o, p)
        BY <2>2
      <4>2. RestsOK(p) /\ Known(p.id, p.user)'
        BY <1>2, <2>2, <3>3 DEF BookKnown
      <4>3. o.id = p.id /\ o.user = p.user
        BY <4>1 DEF Alike
      <4>4. RestsOK(o)
        BY <4>1, <4>2 DEF Alike, RestsOK
      <4> QED
        BY <4>2, <4>3, <4>4
    <3>13. BookKnown'
      BY <2>2, <3>8, <3>10, <3>11, <3>12 DEF BookKnown
    <3> QED
      BY <1>2, <2>1, <3>3, <3>7, <3>13 DEF TradesInv
  <2> QED
    BY <2>3, <2>4
<1>11. ASSUME NEW i, NEW q, RefuseClose(t, i, q)
       PROVE  TradesInv'
  <2> DEFINE d == [[Idle EXCEPT !.user = mem.pos[i].user, !.pos = i] EXCEPT !.pc = "reopen"]
  <2>1. /\ calls[t].pc = "idle" /\ book' = book /\ cached' = cached
        /\ calls' = [calls EXCEPT ![t] = d]
    BY <1>11 DEF RefuseClose, Goto
  <2>2. d.pc = "reopen"
    BY DEF Idle
  <2> HIDE DEF d
  <2>3. calls'[t] = d
    BY <1>3, <2>1
  <2>4. CallKnown(calls[t])'
    BY <2>2, <2>3 DEF CallKnown
  <2> QED
    BY <1>4, <2>1, <2>4
<1> QED
  BY <1>5, <1>6, <1>7, <1>8, <1>9, <1>10, <1>11 DEF SilentStep

\* The order of a call goes to the settler before its trades.
LEMMA FilledKnown ==
  ASSUME SettlementInv, TradesInv, NEW t \in Threads, SubmitFilled(t)
  PROVE  TradesInv'
<1> DEFINE e == OrderEvent(calls[t], "filled", 0)
<1>1. /\ hand' = hand /\ db' = db /\ sent' = sent /\ apart' = apart
      /\ queue' = queue \o FilledOrder(calls[t], calls'[t].legs)
      /\ MatchMarket(t) \/ MatchClose(t) \/ UnfreezeFilled(t)
  BY DEF SubmitFilled, Submit, notes
<1>2. /\ Placing(t) /\ calls[t].pc # "resting" /\ cached' = cached
  BY <1>1, FilledStep
<1>3. e.type = "create" /\ e.order = calls[t].id /\ e.user = calls[t].user
  BY OrderEventFields
<1>4. \/ calls'[t].legs = <<>> /\ queue' = queue
      \/ calls'[t].legs # <<>> /\ queue' = queue \o <<e>>
  <2>1. queue \o <<>> = queue
    BY DEF SettlementInv, FlowOK
  <2> QED
    BY <1>1, <2>1 DEF FilledOrder
<1> HIDE DEF e
<1>5. /\ OnWay \subseteq OnWay' /\ OnWay' \subseteq OnWay \cup {e}
      /\ calls'[t].legs # <<>> => e \in OnWay'
  <2>1. CASE calls'[t].legs = <<>> /\ queue' = queue
    BY <1>1, <2>1, SameFlow
  <2>2. CASE calls'[t].legs # <<>> /\ queue' = queue \o <<e>>
    <3>1. ~CreateWaits(OnWay, e.order)
      BY <1>2, <1>3 DEF SettlementInv, OrdersInv, HoldersOK
    <3>2. OnWay' = OnWay \cup {e}
      BY <1>1, <1>3, <2>2, <3>1, OneEvent DEF SettlementInv
    <3> QED
      BY <3>2
  <2> QED
    BY <1>4, <2>1, <2>2
<1>6. /\ t \in AllThreads /\ BookKnown /\ CallKnown(calls[t]) /\ DOMAIN calls[t] = DOMAIN Idle
      /\ EventsKnown /\ \A i \in DOMAIN cached : cached[i].user \in Users
  BY ThreadsAre DEF TradesInv, SettlementInv, CallsOK
<1>7. ASSUME NEW d, calls' = [calls EXCEPT ![t] = d]
      PROVE  /\ calls'[t] = d
             /\ \A o, u : Known(o, u) => Known(o, u)'
             /\ EventsKnown'
             /\ CallKnown(calls[t])' => \A r \in Threads : CallKnown(calls[r])'
  <2>1. calls'[t] = d
    BY <1>6, <1>7 DEF SettlementInv, CallsOK
  <2>2. /\ \A o, u : Known(o, u) => Known(o, u)'
        /\ \A i : Cancellable(i) => Cancellable(i)'
        /\ CallKnown(calls[t])' => \A r \in Threads : CallKnown(calls[r])'
    BY <1>1, <1>2, <1>5, <1>7, HandlerKnown
  <2>3. EventsKnown'
    BY <1>1, <1>3, <1>5, <1>6, <2>2, EventsStayKnown DEF TradeTypes
  <2> QED
    BY <2>1, <2>2, <2>3
\* There are trades.
<1>8. ASSUME NEW d, calls' = [calls EXCEPT ![t] = d], d.pc = "legs", LegsKnown(d.legs, d.user),
             d.id = calls[t].id, d.user = calls[t].user
      PROVE  CallKnown(calls[t])'
  <2>1. calls'[t] = d /\ \A o, u : Known(o, u) => Known(o, u)'
    BY <1>7, <1>8
  <2>2. d.legs # <<>>
    BY <1>8 DEF LegsKnown
  <2>3. e \in OnWay' /\ e.order = d.id /\ e.user = d.user
    BY <1>3, <1>5, <1>8, <2>1, <2>2
  <2>4. Known(d.id, d.user)'
    BY <1>3, <2>3 DEF Known
  <2>5. LegsKnown(d.legs, d.user)'
    BY <1>8, <2>1 DEF LegsKnown
  <2> QED
    BY <1>8, <2>1, <2>4, <2>5 DEF CallKnown
\* There are none.
<1>9. ASSUME NEW d, calls' = [calls EXCEPT ![t] = d], d.pc \in {"idle", "reopen"}
      PROVE  CallKnown(calls[t])'
  <2>1. calls'[t] = d
    BY <1>7, <1>9
  <2> QED
    BY <1>9, <2>1 DEF CallKnown
<1>10. ASSUME MatchMarket(t) \/ MatchClose(t)
       PROVE  TradesInv'
  <2> DEFINE c == calls[t]
             m    == Matching(c.side, NoLimit, c.qty)
             legs == Legs(m.trades, c.user, c.side, c.id)
             b    == [c EXCEPT !.legs = legs]
             d    == [b EXCEPT !.pc = "legs"]
             r    == [c EXCEPT !.pc = "reopen"]
  <2>1. /\ c.pc \in {"market", "close"} /\ book' = [book EXCEPT ![-c.side] = m.rest]
        /\ \/ calls' = [calls EXCEPT ![t] = Idle]
           \/ calls' = [calls EXCEPT ![t] = r]
           \/ legs # <<>> /\ calls' = [calls EXCEPT ![t] = d]
    BY <1>10 DEF MatchMarket, MatchClose, BookTrades, Process, Finish, Goto
  <2>2. c.side \in Sides /\ c.qty \in Nat \ {0}
    BY <1>6, <2>1 DEF CallKnown
  <2>3. /\ -c.side \in Sides
        /\ m.rest \in Seq(Contents(m.rest))
        /\ \A o \in Contents(m.rest) : \E p \in Contents(book[-c.side]) : Alike(o, p)
        /\ legs # <<>> => LegsKnown(legs, c.user)
    BY <1>6, <2>2, MatchKnown
  <2> HIDE DEF m, legs
  <2>4. d.pc = "legs" /\ d.legs = legs /\ d.id = c.id /\ d.user = c.user
    BY <1>6 DEF Idle
  <2>5. r.pc = "reopen" /\ Idle.pc = "idle"
    BY <1>6 DEF Idle
  <2> HIDE DEF b, d, r
  <2>6. CallKnown(calls[t])'
    <3>1. CASE calls' = [calls EXCEPT ![t] = Idle]
      BY <1>9, <2>5, <3>1
    <3>2. CASE calls' = [calls EXCEPT ![t] = r]
      BY <1>9, <2>5, <3>2
    <3>3. CASE legs # <<>> /\ calls' = [calls EXCEPT ![t] = d]
      BY <1>8, <2>3, <2>4, <3>3
    <3> QED
      BY <2>1, <3>1, <3>2, <3>3
  <2>7. /\ \A o, u : Known(o, u) => Known(o, u)' 
        /\ EventsKnown'
        /\ \A x \in Threads : CallKnown(calls[x])'
    BY <1>7, <2>1, <2>6
  <2>8. BookKnown'
    BY <1>6, <2>1, <2>3, <2>7, BookStaysKnown
  <2> QED
    BY <1>2, <1>6, <2>7, <2>8 DEF TradesInv
<1>11. ASSUME UnfreezeFilled(t)
       PROVE  TradesInv'
  <2> DEFINE c == calls[t]
             d == [c EXCEPT !.pc = "legs"]
  <2>1. c.pc = "filled" /\ book' = book /\ calls' = [calls EXCEPT ![t] = d]
    BY <1>11 DEF UnfreezeFilled, Goto
  <2>2. d.pc = "legs" /\ d.legs = c.legs /\ d.id = c.id /\ d.user = c.user
    BY <1>6 DEF Idle
  <2> HIDE DEF d
  <2>3. LegsKnown(d.legs, d.user)
    BY <1>6, <2>1, <2>2 DEF CallKnown
  <2>4. CallKnown(calls[t])'
    BY <1>8, <2>1, <2>2, <2>3
  <2>5. /\ \A o, u : Known(o, u) => Known(o, u)' 
        /\ EventsKnown'
        /\ \A x \in Threads : CallKnown(calls[x])'
    BY <1>7, <2>1, <2>4
  <2>6. BookKnown'
    BY <1>6, <2>1, <2>5, SameBookKnown
  <2> QED
    BY <1>2, <1>6, <2>5, <2>6 DEF TradesInv
<1> QED
  BY <1>1, <1>10, <1>11

\* A resting order goes to the settler: what was to come from the thread is on
\* its way.
LEMMA RestingKnown ==
  ASSUME SettlementInv, TradesInv, NEW t \in Threads, SubmitResting(t)
  PROVE  TradesInv'
<1> DEFINE e == OrderEvent(calls[t], "pending", calls[t].cost)
<1>1. /\ calls[t].pc = "resting" /\ t \notin sent /\ sent' = sent \cup {t}
      /\ book' = book /\ cached' = cached /\ calls' = calls
      /\ hand' = hand /\ db' = db /\ apart' = apart
      /\ queue' = queue \o <<e>>
  BY DEF SubmitResting, Submit, notes, vars
<1>2. e.type = "create" /\ e.order = calls[t].id /\ e.user = calls[t].user
  BY OrderEventFields
<1> HIDE DEF e
<1>3. ~CreateWaits(OnWay, e.order)
  BY <1>1, <1>2 DEF SettlementInv, OrdersInv, HoldersOK, Placing
<1>4. OnWay' = OnWay \cup {e}
  BY <1>1, <1>2, <1>3, OneEvent DEF SettlementInv
<1>5. /\ \A o, u : Known(o, u) => Known(o, u)'
      /\ \A i : Cancellable(i) => Cancellable(i)'
  BY <1>1, <1>2, <1>4, StillKnown
<1>6. EventsKnown'
  BY <1>1, <1>2, <1>4, <1>5, EventsStayKnown DEF TradesInv, TradeTypes
<1>7. BookKnown'
  BY <1>1, <1>5, SameBookKnown DEF TradesInv
<1>8. ASSUME NEW r \in Threads
      PROVE  CallKnown(calls[r])'
  <2>1. calls'[r] = calls[r] /\ CallKnown(calls[r])
    BY <1>1 DEF TradesInv
  <2>2. calls[r].pc \in {"filled", "legs"} => LegsKnown(calls[r].legs, calls[r].user)'
    BY <1>5, <2>1 DEF CallKnown, LegsKnown
  <2> QED
    BY <1>1, <1>5, <2>1, <2>2 DEF CallKnown
<1> QED
  BY <1>1, <1>6, <1>7, <1>8 DEF TradesInv

LEMMA RegisteredKnown ==
  ASSUME SettlementInv, TradesInv, NEW t \in Threads, RegisterSent(t)
  PROVE  TradesInv'
<1> DEFINE c == calls[t]
           o == [user |-> c.user, cost |-> c.cost, lev |-> c.lev]
<1>1. /\ t \in sent /\ sent' = sent \ {t} /\ calls' = [calls EXCEPT ![t] = Idle]
      /\ c.pc = "resting" /\ book' = book
      /\ hand' = hand /\ db' = db /\ apart' = apart /\ queue' = queue
      /\ cached' = [i \in DOMAIN cached \cup {c.id} |-> IF i = c.id THEN o ELSE cached[i]]
  BY DEF RegisterSent, Register, Finish, notes
<1>2. o.user = c.user
  OBVIOUS
<1> HIDE DEF o
<1>3. OnWay' = OnWay
  BY <1>1, SameFlow
<1>4. CallsOK /\ t \in AllThreads
  BY ThreadsAre DEF SettlementInv
<1>5. \A r \in Threads : r # t => calls'[r] = calls[r]
  BY <1>1, <1>4, ThreadsAre DEF CallsOK
<1>6. /\ \A x, u : Known(x, u) => Known(x, u)'
      /\ \A i : Cancellable(i) => Cancellable(i)'
  BY <1>1, <1>3, <1>5, StillKnown
<1>7. calls'[t] = Idle
  BY <1>1, <1>4 DEF CallsOK
<1>8. CallKnown(calls[t])'
  BY <1>7 DEF CallKnown, Idle
<1>9. \A r \in Threads : CallKnown(calls[r])'
  BY <1>1, <1>4, <1>6, <1>8, OneCallKnown DEF TradesInv
<1>10. EventsKnown' /\ BookKnown'
  BY <1>1, <1>3, <1>6, EventsStayKnown, SameBookKnown DEF TradesInv
<1>11. c.user \in Users
  BY <1>1 DEF TradesInv, CallKnown
<1>12. \A i \in DOMAIN cached' : cached'[i].user \in Users
  BY <1>1, <1>2, <1>11 DEF TradesInv
<1> QED
  BY <1>9, <1>10, <1>12 DEF TradesInv

LEMMA CancelKnown ==
  ASSUME SettlementInv, TradesInv, NEW t \in Threads, SubmitCancel(t)
  PROVE  TradesInv'
<1> DEFINE c == calls[t]
           e == CancelEvent(c)
<1>1. /\ c.pc = "uncache" /\ sent' = sent /\ calls' = [calls EXCEPT ![t] = Idle]
      /\ book' = book
      /\ hand' = hand /\ db' = db /\ apart' = apart
      /\ queue' = queue \o <<e>>
      /\ cached' = Restrict(cached, DOMAIN cached \ {c.id})
  BY DEF SubmitCancel, Uncache, Submit, Finish, notes
<1>2. e.type = "cancel" /\ e.order = c.id /\ e.user = c.user
  BY DEF CancelEvent
<1> HIDE DEF e
<1>3. OnWay' = OnWay \cup {e}
  BY <1>1, <1>2, OneEvent DEF SettlementInv
<1>4. CallsOK /\ t \in AllThreads
  BY ThreadsAre DEF SettlementInv
<1>5. /\ \A x, u : Known(x, u) => Known(x, u)'
      /\ \A i : Cancellable(i) => Cancellable(i)'
      /\ CallKnown(calls[t])' => \A r \in Threads : CallKnown(calls[r])'
  BY <1>1, <1>3, HandlerKnown
<1>6. calls'[t] = Idle
  BY <1>1, <1>4 DEF CallsOK
<1>7. CallKnown(calls[t])'
  BY <1>6 DEF CallKnown, Idle
<1>8. e.user \notin apart => Cancellable(e.order)
  BY <1>1, <1>2 DEF TradesInv, CallKnown
<1>9. EventsKnown' /\ BookKnown'
  BY <1>1, <1>2, <1>3, <1>5, <1>8, EventsStayKnown, SameBookKnown DEF TradesInv, TradeTypes
<1>10. \A i \in DOMAIN cached' : cached'[i].user \in Users
  BY <1>1 DEF TradesInv, Restrict
<1> QED
  BY <1>5, <1>7, <1>9, <1>10 DEF TradesInv

\* The legs of a call that are left once the first is applied.
LEMMA LegsLeft ==
  ASSUME NEW legs, legs \in Seq(Contents(legs)), legs # <<>>
  PROVE  /\ Head(legs) \in Contents(legs)
         /\ Tail(legs) \in Seq(Contents(Tail(legs)))
         /\ Contents(Tail(legs)) \subseteq Contents(legs)
<1> DEFINE tail == Tail(legs)
<1>1. /\ tail \in Seq(Contents(legs)) /\ Head(legs) \in Contents(legs)
  OBVIOUS
<1> HIDE DEF tail
<1>2. Contents(tail) \subseteq Contents(legs)
  BY <1>1 DEF Contents
<1>3. tail \in Seq(Contents(tail))
  BY <1>1, SeqOfContents
<1> QED
  BY <1>1, <1>2, <1>3 DEF tail

\* A trade is told in events of the order that its leg names.
LEMMA TradeKnown ==
  ASSUME SettlementInv, TradesInv, NEW t \in Threads, SubmitTrade(t)
  PROVE  TradesInv'
<1> DEFINE c  == calls[t]
           l  == Head(c.legs)
           id == IF l.user = c.user THEN c.id ELSE l.id
           ev == TradeEvents(mem, mem', l, id)
<1>1. /\ c.pc = "legs" /\ Process(t, c, Tail(c.legs))
      /\ mem' \in UpdatePosition(mem, l.user, l.side, l.qty, l.price,
                                 LeverageOf(c, l), l.user # c.user)
      /\ book' = book /\ cached' = cached /\ sent' = sent
      /\ hand' = hand /\ db' = db /\ apart' = apart
  BY DEF SubmitTrade, ApplyLeg
<1>2. queue' = queue \o ev
  BY DEF SubmitTrade, Submit
<1>3. Sound(mem) /\ CallsOK /\ t \in AllThreads /\ DOMAIN c = DOMAIN Idle
  BY ThreadsAre DEF SettlementInv, CallsOK, PositionsInv
<1>4. KeepsOwners(mem, mem') /\ OwnOnly(mem, mem', l.user)
  BY <1>1, <1>3, UpdateKeepsOwners, UpdateOwn
<1>5. ev \in Seq(Contents(ev)) /\ \A e \in Contents(ev) : TradeEvent(e, mem, mem', l, id)
  BY <1>3, <1>4, TradeEventsFacts
<1> HIDE DEF ev
<1>6. \A e \in Contents(ev) : e.type \in TradeTypes /\ e.order = id /\ e.user = l.user
  BY <1>5 DEF TradeEvent, TradeTypes
<1>7. OnWay' = OnWay \cup Contents(ev)
  BY <1>1, <1>2, <1>5, AppendFlow DEF OnWay, SettlementInv
<1>8. /\ LegsKnown(c.legs, c.user) /\ Known(c.id, c.user)
  BY <1>1 DEF TradesInv, CallKnown
<1>9. /\ l \in Contents(c.legs)
      /\ Tail(c.legs) \in Seq(Contents(Tail(c.legs)))
      /\ Contents(Tail(c.legs)) \subseteq Contents(c.legs)
  BY <1>8, LegsLeft DEF LegsKnown
<1>10. Known(id, l.user)
  BY <1>8, <1>9 DEF LegsKnown
<1> HIDE DEF l, id
<1> DEFINE tail == Tail(c.legs)
           b == [c EXCEPT !.legs = tail]
           d == [b EXCEPT !.pc = "legs"]
<1>11. \/ calls' = [calls EXCEPT ![t] = Idle]
       \/ tail # <<>> /\ calls' = [calls EXCEPT ![t] = d]
  BY <1>1 DEF Process, Finish, Goto
<1>12. tail # <<>> => LegsKnown(tail, c.user)
  BY <1>8, <1>9 DEF LegsKnown
<1> HIDE DEF tail
<1>13. d.pc = "legs" /\ d.legs = tail /\ d.id = c.id /\ d.user = c.user
  BY <1>3 DEF Idle
<1> HIDE DEF b, d
<1>14. PICK x : calls' = [calls EXCEPT ![t] = x] /\ (x = Idle \/ (tail # <<>> /\ x = d))
  BY <1>11
<1>15. /\ \A o, u : Known(o, u) => Known(o, u)'
       /\ \A i : Cancellable(i) => Cancellable(i)'
       /\ CallKnown(calls[t])' => \A r \in Threads : CallKnown(calls[r])'
  BY <1>1, <1>7, <1>14, HandlerKnown
<1>16. calls'[t] = x
  BY <1>3, <1>14 DEF CallsOK
<1>17. CallKnown(calls[t])'
  <2>1. CASE x = Idle
    BY <1>16, <2>1 DEF CallKnown, Idle
  <2>2. CASE tail # <<>> /\ x = d
    <3>1. LegsKnown(x.legs, x.user) /\ Known(x.id, x.user) /\ x.pc = "legs"
      BY <1>8, <1>12, <1>13, <2>2
    <3>2. LegsKnown(x.legs, x.user)' /\ Known(x.id, x.user)'
      BY <1>15, <3>1 DEF LegsKnown
    <3> QED
      BY <1>16, <3>1, <3>2 DEF CallKnown
  <2> QED
    BY <1>14, <2>1, <2>2
<1>18. \A e \in Contents(ev) : Known(e.order, e.user)' /\ e.type # "cancel"
  <2>1. \A o, u : o = id /\ u = l.user => Known(o, u)
    BY <1>10
  <2> QED
    BY <1>6, <1>15, <2>1 DEF TradeTypes
<1>19. EventsKnown' /\ BookKnown'
  BY <1>1, <1>7, <1>15, <1>18, EventsStayKnown, SameBookKnown DEF TradesInv
<1> QED
  BY <1>1, <1>15, <1>17, <1>19 DEF TradesInv

LEMMA SubmitTradeSync ==
  ASSUME SettlementInv, PosSync, TradesInv, NEW t \in Threads, SubmitTrade(t)
  PROVE  PosSync'
<1> DEFINE c  == calls[t]
           l  == Head(c.legs)
           id == IF l.user = c.user THEN c.id ELSE l.id
           ev == TradeEvents(mem, mem', l, id)
<1>1. /\ c.pc = "legs"
      /\ mem' \in UpdatePosition(mem, l.user, l.side, l.qty, l.price,
                                 LeverageOf(c, l), l.user # c.user)
      /\ hand' = hand /\ db' = db /\ apart' = apart /\ stopping' = stopping
      /\ queue' = queue \o ev
      /\ merged' = merged \cup {ev[n].pos : n \in {n \in DOMAIN ev : ev[n].type = "increase"}}
  BY DEF SubmitTrade, ApplyLeg, Submit
<1>2. Sound(mem) /\ Rowed(mem)
  BY DEF SettlementInv, PositionsInv, PosSync, PosRowsOK, RowOK, Rowed
<1>3. l.side \in Sides
  BY <1>1, LegsLeft DEF TradesInv, CallKnown, LegsKnown
<1>4. KeepsOwners(mem, mem') /\ OwnOnly(mem, mem', l.user) /\ Legged(mem, mem', l.side)
  BY <1>1, <1>2, <1>3, UpdateKeepsOwners, UpdateOwn, UpdateLegged
<1> HIDE DEF id, l
<1> QED
  BY <1>1, <1>3, <1>4, TradeSync

\* A consumer is done with an event: it is in the database, or its user is
\* apart.
LEMMA DoneKnown ==
  ASSUME SettlementInv, TradesInv, NEW w \in Consumers, hand[w] # <<>>,
         NEW e, e = Head(hand[w]), hand' = [hand EXCEPT ![w] = <<>>], queue' = queue,
         book' = book, calls' = calls, sent' = sent, cached' = cached,
         \/ Accepts(db, e) /\ db' = Settled(db, e) /\ apart' = apart
         \/ db' = db /\ apart' = apart \cup {e.user}
  PROVE  TradesInv'
<1>1. e \in OnWay /\ OnWay' \subseteq OnWay /\ OnWay \subseteq OnWay' \cup {e}
  BY Done
<1>2. apart \subseteq apart'
  OBVIOUS
<1>3. /\ DOMAIN db.orders \subseteq DOMAIN db'.orders
      /\ e.type = "create" /\ e.user \notin apart' =>
           e.order \in DOMAIN db'.orders /\ db'.orders[e.order] = e.row
      /\ \A i \in DOMAIN db.orders : db.orders[i].status \in {"pending", "canceled"} =>
           db'.orders[i].status \in {"pending", "canceled"}
  <2>1. CASE db' = db /\ apart' = apart \cup {e.user}
    BY <2>1
  <2>2. CASE Accepts(db, e) /\ db' = Settled(db, e) /\ apart' = apart
    <3>1. /\ \A i \in DOMAIN db.orders : {"user", "status"} \subseteq DOMAIN db.orders[i]
          /\ e.type = "cancel" => e.row.status = "canceled"
          /\ e.type = "create" => e.order \notin DOMAIN db.orders
      BY <1>1 DEF SettlementInv, OrdersInv, RowsOK
    <3> DEFINE n == Settled(db, e).orders
    <3>2. /\ e.type = "create" => /\ DOMAIN n = DOMAIN db.orders \cup {e.order}
                                  /\ n[e.order] = e.row
                                  /\ \A i \in DOMAIN db.orders \ {e.order} : n[i] = db.orders[i]
          /\ e.type = "cancel" =>
               /\ DOMAIN n = DOMAIN db.orders
               /\ \A i \in DOMAIN db.orders \ {e.order} : n[i] = db.orders[i]
               /\ e.order \in DOMAIN db.orders => n[e.order].status = e.row.status
          /\ e.type \notin {"create", "cancel"} => n = db.orders
      BY <3>1, SettledRows
    <3>3. n = db'.orders
      BY <2>2
    <3> HIDE DEF n
    <3>4. CASE e.type = "create"
      BY <3>1, <3>2, <3>3, <3>4
    <3>5. CASE e.type = "cancel"
      BY <3>1, <3>2, <3>3, <3>5
    <3>6. CASE e.type \notin {"create", "cancel"}
      BY <3>2, <3>3, <3>6
    <3> QED
      BY <3>4, <3>5, <3>6
  <2> QED
    BY <2>1, <2>2
<1>4. ASSUME NEW o, NEW u, Known(o, u)
      PROVE  Known(o, u)'
  <2>1. CASE u \in apart \/ o \in DOMAIN db.orders
    BY <1>2, <1>3, <2>1 DEF Known
  <2>2. CASE \E d \in OnWay : d.type = "create" /\ d.order = o /\ d.user = u
    BY <1>1, <1>3, <2>2 DEF Known
  <2>3. CASE \E t \in Threads : /\ calls[t].pc = "resting" /\ t \notin sent
                                /\ calls[t].id = o /\ calls[t].user = u
    BY <2>3 DEF Known
  <2> QED
    BY <1>4, <2>1, <2>2, <2>3 DEF Known
<1>5. ASSUME NEW i, NEW u, Named(i, u), u \notin apart', Cancellable(i)
      PROVE  Cancellable(i)'
  <2>1. CASE i \in DOMAIN db.orders /\ db.orders[i].status \in {"pending", "canceled"}
    BY <1>3, <2>1 DEF Cancellable
  <2>2. ASSUME NEW d \in OnWay, d.type = "create", d.order = i, d.row.status = "pending"
        PROVE  Cancellable(i)'
    <3>1. d.user = u
      <4>1. Named(i, d.user)
        BY <2>2 DEF Named
      <4> QED
        BY <1>5, <4>1 DEF SettlementInv, OrdersInv, NamesOK
    <3> QED
      BY <1>1, <1>3, <1>5, <2>2, <3>1 DEF Cancellable
  <2> QED
    BY <1>5, <2>1, <2>2 DEF Cancellable
<1>6. BookKnown'
  BY <1>4, SameBookKnown DEF TradesInv
<1>7. ASSUME NEW r \in Threads
      PROVE  CallKnown(calls[r])'
  <2>1. calls'[r] = calls[r] /\ CallKnown(calls[r])
    BY DEF TradesInv
  <2>2. calls[r].pc \in {"filled", "legs"} => LegsKnown(calls[r].legs, calls[r].user)'
    BY <1>4, <2>1 DEF CallKnown, LegsKnown
  <2>3. calls[r].pc \in {"cancel", "unfreeze", "uncache"} => Named(calls[r].id, calls[r].user)
    BY DEF Named, Bearing, Cancelling
  <2>4. calls[r].pc \in {"cancel", "unfreeze", "uncache"} /\ calls[r].user \notin apart' =>
          Cancellable(calls[r].id)'
    BY <1>2, <1>5, <2>1, <2>3 DEF CallKnown
  <2> QED
    BY <1>4, <2>1, <2>2, <2>4 DEF CallKnown
<1>8. ASSUME NEW d \in OnWay'
      PROVE  /\ d.type \in TradeTypes => Known(d.order, d.user)'
             /\ d.type = "cancel" /\ d.user \notin apart' => Cancellable(d.order)'
  <2>1. /\ d \in OnWay
        /\ d.type \in TradeTypes => Known(d.order, d.user)
        /\ d.type = "cancel" /\ d.user \notin apart => Cancellable(d.order)
    BY <1>1, <1>8 DEF TradesInv, EventsKnown
  <2>2. d.type = "cancel" => Named(d.order, d.user)
    BY <2>1 DEF Named
  <2> QED
    BY <1>2, <1>4, <1>5, <2>1, <2>2
<1> QED
  BY <1>6, <1>7, <1>8 DEF TradesInv, EventsKnown

\* Nothing happens to orders, calls and events.
LEMMA SteadyKnown ==
  ASSUME TradesInv, OnWay' = OnWay, db'.orders = db.orders, apart' = apart,
         book' = book, calls' = calls, sent' = sent, cached' = cached
  PROVE  TradesInv'
<1>1. /\ \A o, u : Known(o, u)' <=> Known(o, u)
      /\ \A i : Cancellable(i)' <=> Cancellable(i)
  BY DEF Known, Cancellable
<1>2. BookKnown' /\ EventsKnown'
  BY <1>1 DEF TradesInv, BookKnown, EventsKnown
<1>3. ASSUME NEW r \in Threads
      PROVE  CallKnown(calls[r])'
  BY <1>1 DEF TradesInv, CallKnown, LegsKnown
<1> QED
  BY <1>2, <1>3 DEF TradesInv

\* Nothing is under way, and the book is empty.
LEMMA EmptyKnown ==
  ASSUME OnWay = {}, book = [s \in Sides |-> <<>>],
         calls = [t \in AllThreads |-> Idle],
         \A i \in DOMAIN cached : cached[i].user \in Users
  PROVE  TradesInv
<1>1. Contents(<<>>) = {} /\ <<>> \in Seq(Contents(<<>>))
  BY DEF Contents
<1>2. BookKnown
  BY <1>1 DEF BookKnown
<1>3. \A t \in Threads : calls[t] = Idle
  BY ThreadsAre
<1>4. \A t \in Threads : CallKnown(calls[t])
  BY <1>3 DEF CallKnown, Idle
<1> QED
  BY <1>2, <1>4 DEF TradesInv, EventsKnown

LEMMA ReloadKnown ==
  ASSUME SettlementInv, Reload
  PROVE  TradesInv'
<1> DEFINE all == UNION {Pending(u) : u \in Users}
<1>1. /\ book' = [s \in Sides |-> <<>>] /\ calls' = [t \in AllThreads |-> Idle]
      /\ cached' = [i \in all |-> [user |-> db.orders[i].user, cost |-> db.orders[i].cost,
                                   lev |-> db.orders[i].lev]]
  BY DEF Reload
<1>2. OnWay' = {}
  BY ReloadedOrders DEF SettlementInv
<1>3. \A i \in all : db.orders[i].user \in Users
  BY DEF Pending
<1> HIDE DEF all
<1>4. \A i \in DOMAIN cached' : cached'[i].user \in Users
  BY <1>1, <1>3
<1>5. Contents(<<>>) = {} /\ <<>> \in Seq(Contents(<<>>))
  BY DEF Contents
<1>6. BookKnown'
  BY <1>1, <1>5 DEF BookKnown
<1>7. \A t \in Threads : calls'[t] = Idle
  BY <1>1, ThreadsAre
<1>8. \A t \in Threads : CallKnown(calls[t])'
  BY <1>7 DEF CallKnown, Idle
<1> QED
  BY <1>2, <1>4, <1>6, <1>8 DEF TradesInv, EventsKnown

-----------------------------------------------------------------------------
(* The invariant of positions, and its theorem.                            *)

SyncInv == SettlementInv /\ PosSync /\ TradesInv

LEMMA SyncInit == SInit => SyncInv
<1> SUFFICES ASSUME SInit PROVE SyncInv
  OBVIOUS
<1>1. /\ queue = <<>> /\ hand = [w \in Consumers |-> <<>>] /\ cached = << >>
      /\ calls = [t \in AllThreads |-> Idle] /\ book = [s \in Sides |-> <<>>]
  BY DEF SInit, Init
<1>2. OnWay = {}
  BY <1>1, EmptyFlow DEF OnWay
<1>3. TradesInv
  BY <1>1, <1>2, EmptyKnown
<1> QED
  BY <1>3, SettlementInit, InitSync DEF SyncInv

\* The steps of the handlers.
LEMMA SyncHandlers ==
  ASSUME SyncInv, NEW t \in Threads,
         \/ SilentStep(t) \/ SubmitFilled(t) \/ SubmitResting(t)
         \/ RegisterSent(t) \/ SubmitCancel(t) \/ SubmitTrade(t)
  PROVE  SyncInv'
<1>1. SettlementInv'
  BY SilentKeeps, SubmitFilledKeeps, SubmitRestingKeeps, RegisterSentKeeps,
     SubmitCancelKeeps, SubmitTradeKeeps DEF SyncInv
<1>2. PosSync'
  BY HandlersSync, SubmitTradeSync DEF SyncInv
<1>3. TradesInv'
  BY SilentKnown, FilledKnown, RestingKnown, RegisteredKnown, CancelKnown, TradeKnown
     DEF SyncInv
<1> QED
  BY <1>1, <1>2, <1>3 DEF SyncInv

\* The steps of the settler.
LEMMA SyncSettler ==
  ASSUME SyncInv, NEW w \in Consumers, TakeEvent(w) \/ Settle(w) \/ Fail(w)
  PROVE  SyncInv'
<1>1. SettlementInv'
  BY TakeKeeps, SettleKeeps, FailKeeps DEF SyncInv
<1>2. CASE TakeEvent(w)
  <2>1. /\ queue # <<>> /\ hand[w] = <<>> /\ hand' = [hand EXCEPT ![w] = <<Head(queue)>>]
        /\ queue' = Tail(queue)
        /\ db' = db /\ apart' = apart
        /\ book' = book /\ calls' = calls /\ sent' = sent /\ cached' = cached
    BY <1>2 DEF TakeEvent, vars, notes
  <2>2. OnWay' = OnWay
    <3>1. FlowOK(queue, hand) /\ NoClash(queue, hand)
      BY DEF SyncInv, SettlementInv
    <3> QED
      BY <2>1, <3>1, TakeFlow DEF OnWay
  <2> QED
    BY <1>1, <1>2, <2>1, <2>2, TakeSync, SteadyKnown DEF SyncInv
<1>3. CASE Settle(w) \/ Fail(w)
  <2> DEFINE e == Head(hand[w])
  <2>1. /\ hand[w] # <<>> /\ hand' = [hand EXCEPT ![w] = <<>>] /\ queue' = queue
        /\ mem' = mem /\ merged' = merged /\ stopping' = stopping
        /\ book' = book /\ calls' = calls /\ sent' = sent /\ cached' = cached
        /\ \/ Accepts(db, e) /\ db' = Settled(db, e) /\ apart' = apart
           \/ db' = db /\ apart' = apart \cup {e.user}
    BY <1>3 DEF Settle, Fail, vars
  <2> HIDE DEF e
  <2>2. e = Head(hand[w])
    BY DEF e
  <2>3. PosSync'
    BY <2>1, <2>2, SettleSync, LoseSync DEF SyncInv
  <2>4. TradesInv'
    BY <2>1, <2>2, DoneKnown DEF SyncInv
  <2> QED
    BY <1>1, <2>3, <2>4 DEF SyncInv
<1> QED
  BY <1>2, <1>3

LEMMA SyncResets ==
  ASSUME SyncInv, NEW u \in Users, CheckReset(u) \/ ResetRow(u) \/ ResetMemory(u)
  PROVE  SyncInv'
<1>1. /\ queue' = queue /\ hand' = hand /\ apart' = apart
      /\ book' = book /\ calls' = calls /\ sent' = sent /\ cached' = cached
  BY DEF CheckReset, ResetRow, ResetMemory, vars, flow, notes
<1>2. db'.orders = db.orders
  <2>1. CASE CheckReset(u) \/ ResetMemory(u)
    BY <2>1 DEF CheckReset, ResetMemory, flow
  <2>2. CASE ResetRow(u)
    <3> DEFINE bal == [db.bal EXCEPT ![u] = InitialBalance]
               frozen == [db.frozen EXCEPT ![u] = 0]
    <3>1. db' = [db EXCEPT !.bal = bal, !.frozen = frozen]
      BY <2>2 DEF ResetRow
    <3> HIDE DEF bal, frozen
    <3>2. {"bal", "frozen", "orders", "pos"} \subseteq DOMAIN db
      BY DEF SyncInv, SettlementInv, OrdersInv, RowsOK
    <3> QED
      BY <3>1, <3>2
  <2> QED
    BY <2>1, <2>2
<1>3. OnWay' = OnWay
  BY <1>1, SameFlow
<1>4. TradesInv'
  BY <1>1, <1>2, <1>3, SteadyKnown DEF SyncInv
<1> QED
  BY <1>4, ResetKeeps, ResetSync DEF SyncInv

LEMMA SyncStep == SyncInv /\ [SNext]_svars => SyncInv'
<1> SUFFICES ASSUME SyncInv, [SNext]_svars
             PROVE  SyncInv'
  OBVIOUS
<1>1. SettlementInv'
  BY SettlementStep DEF SyncInv
<1>2. CASE UNCHANGED svars
  <2>1. /\ mem' = mem /\ db' = db /\ queue' = queue /\ hand' = hand /\ cached' = cached
        /\ calls' = calls /\ sent' = sent /\ apart' = apart /\ book' = book
        /\ stopping' = stopping /\ merged' = merged
    BY <1>2 DEF svars, vars, flow, notes
  <2>2. SameRows(mem, mem')
    BY <2>1 DEF SameRows, Agree
  <2>3. PosSync'
    BY <2>1, <2>2, StillSync DEF SyncInv
  <2>4. OnWay' = OnWay
    BY <2>1, SameFlow
  <2>5. TradesInv'
    BY <2>1, <2>4, SteadyKnown DEF SyncInv
  <2> QED
    BY <1>1, <2>3, <2>5 DEF SyncInv
<1>3. ASSUME NEW t \in Threads,
             \/ SilentStep(t) \/ SubmitFilled(t) \/ SubmitResting(t)
             \/ RegisterSent(t) \/ SubmitCancel(t) \/ SubmitTrade(t)
      PROVE  SyncInv'
  BY <1>3, SyncHandlers
<1>4. ASSUME NEW w \in Consumers, TakeEvent(w) \/ Settle(w) \/ Fail(w)
      PROVE  SyncInv'
  BY <1>4, SyncSettler
<1>5. ASSUME NEW u \in Users, CheckReset(u) \/ ResetRow(u) \/ ResetMemory(u)
      PROVE  SyncInv'
  BY <1>5, SyncResets
<1>6. CASE Stop
  <2>1. /\ db' = db /\ queue' = queue /\ hand' = hand /\ cached' = cached
        /\ calls' = calls /\ sent' = sent /\ apart' = apart /\ book' = book
    BY <1>6 DEF Stop, vars, notes
  <2>2. OnWay' = OnWay
    BY <2>1, SameFlow
  <2>3. TradesInv'
    BY <2>1, <2>2, SteadyKnown DEF SyncInv
  <2> QED
    BY <1>1, <1>6, <2>3, StopSync DEF SyncInv
<1>7. CASE Crash \/ Halt
  BY <1>1, <1>7, ReloadSync, ReloadKnown DEF SyncInv, Crash, Halt
<1> QED
  BY <1>2, <1>3, <1>4, <1>5, <1>6, <1>7 DEF SNext

LEMMA SyncAlways == SSpec => []SyncInv
  BY SyncInit, SyncStep, PTL DEF SSpec

\* UpdatePosition, settleTrade and LoadCachesFromDB: of a user who has nothing
\* under way and of whom nothing was rolled back, the table has open exactly the
\* positions of memory, whatever was lost when the process ended; and while the
\* worker is the only consumer it has the quantity, the margin and the entry
\* price of each that handleIncrease did not touch.
THEOREM PositionsStayBackedUp == SSpec => []PositionsBackedUp
<1>1. SyncInv => PositionsBackedUp
  <2> SUFFICES ASSUME SyncInv, NEW u \in Users, Quiet(u), ~stopping
               PROVE  /\ HeldBy(mem, u) = Open(u)
                      /\ \A i \in HeldBy(mem, u) \ merged :
                           /\ mem.pos[i].qty    = db.pos[i].qty
                           /\ mem.pos[i].margin = db.pos[i].margin
                           /\ mem.pos[i].entry  = db.pos[i].entry
    BY DEF PositionsBackedUp
  <2>1. FlowOK(queue, hand) /\ PosSync /\ OwnersOK /\ HeldOK /\ AmountsOK /\ hand[Main] = <<>>
    BY DEF SyncInv, SettlementInv, PosSync
  <2>2. u \notin apart /\ \A e \in OnWay : e.user # u
    <3>1. Contents(Unsettled) = OnWay
      BY <2>1, UnsettledFacts DEF OnWay
    <3>2. \A e \in Contents(Unsettled) : e.user # u
      BY DEF Quiet, Contents
    <3> QED
      BY <3>1, <3>2 DEF Quiet
  \* Nothing is said about a position of u.
  <2>3. ASSUME NEW i, PosOf(i, u)
        PROVE  \A e \in OnWay : e.type \in TradeTypes => e.pos # i
    <3> SUFFICES ASSUME NEW e \in OnWay, e.type \in TradeTypes, e.pos = i PROVE FALSE
      OBVIOUS
    <3>1. PosOf(i, e.user)
      BY DEF PosOf
    <3> QED
      BY <2>1, <2>2, <2>3, <3>1 DEF OwnersOK
  <2>4. ASSUME NEW i
        PROVE  i \in HeldBy(mem, u) <=> i \in Open(u)
    <3>1. i \in HeldBy(mem, u) <=> StaysOpen(db.pos, OnWay, i, u)
      BY <2>1, <2>2 DEF HeldOK
    <3>2. StaysOpen(db.pos, OnWay, i, u) => i \in Open(u)
      BY <2>2 DEF StaysOpen, Open
    <3>3. i \in Open(u) => StaysOpen(db.pos, OnWay, i, u)
      <4> SUFFICES ASSUME i \in Open(u) PROVE StaysOpen(db.pos, OnWay, i, u)
        OBVIOUS
      <4>1. i \in DOMAIN db.pos /\ db.pos[i].user = u /\ db.pos[i].state = Active
        BY DEF Open
      <4>2. \A e \in OnWay : e.type \in TradeTypes => e.pos # i
        BY <2>3, <4>1 DEF PosOf
      <4> QED
        BY <4>1, <4>2 DEF StaysOpen, TradeTypes
    <3> QED
      BY <3>1, <3>2, <3>3
  <2>5. HeldBy(mem, u) = Open(u)
    <3>1. HeldBy(mem, u) \subseteq DOMAIN mem.pos /\ Open(u) \subseteq DOMAIN db.pos
      BY DEF HeldBy, Open
    <3> QED
      BY <2>4, <3>1
  <2>6. ASSUME NEW i \in HeldBy(mem, u) \ merged
        PROVE  /\ mem.pos[i].qty    = db.pos[i].qty
               /\ mem.pos[i].margin = db.pos[i].margin
               /\ mem.pos[i].entry  = db.pos[i].entry
    <3>1. i \in DOMAIN mem.pos \ merged /\ mem.pos[i].user = u
      BY DEF HeldBy
    <3>2. i \in DOMAIN db.pos
      BY <2>5 DEF Open
    <3>3. NoWord(Stream, i)
      <4>1. Contents(Stream) = OnWay
        BY <2>1, StreamFacts
      <4>2. \A e \in OnWay : ~Word(e, i)
        BY <2>3, <3>1 DEF Word, PosOf, TradeTypes
      <4>3. \A k \in DOMAIN Stream : Stream[k] \in OnWay
        BY <4>1 DEF Contents
      <4> QED
        BY <4>2, <4>3 DEF NoWord
    <3> QED
      BY <2>1, <2>2, <3>1, <3>2, <3>3 DEF AmountsOK, Agree
  <2> QED
    BY <2>5, <2>6
<1> QED
  BY <1>1, SyncAlways, PTL

-----------------------------------------------------------------------------
(* The order of events: what one changes, an earlier one has inserted.     *)

InTables(e, d) ==
  /\ e.type \in {"increase", "reduce", "close"} => e.pos \in DOMAIN d.pos
  /\ e.type = "cancel" => e.order \in DOMAIN d.orders

\* Event d inserts the row that e changes.
Inserts(d, e) ==
  \/ d.type = "open" /\ e.type \in {"increase", "reduce", "close"} /\ d.pos = e.pos
  \/ d.type = "create" /\ e.type = "cancel" /\ d.order = e.order

\* The row that an event of s changes is in the tables of d, or is inserted by
\* an earlier one, unless its user is among those apart.
Ordered(s, d, a) ==
  \A k \in DOMAIN s : s[k].user \notin a =>
    InTables(s[k], d) \/ \E j \in DOMAIN s : j < k /\ Inserts(s[j], s[k])

Fifo ==
  /\ \A e \in OnWay : e.type \in {"create", "cancel"} \cup TradeTypes
  /\ ~stopping => Ordered(Stream, db, apart)

LEMMA JoinedOrdered ==
  ASSUME NEW s, s \in Seq(Contents(s)), NEW r, r \in Seq(Contents(r)), NEW d, NEW a,
         Ordered(s, d, a),
         \A e \in Contents(r) : e.user \notin a =>
           InTables(e, d) \/ \E x \in Contents(s) : Inserts(x, e)
  PROVE  Ordered(s \o r, d, a)
<1> DEFINE j == s \o r
           n == Len(s)
<1>1. /\ DOMAIN s = 1 .. n /\ DOMAIN r = 1 .. Len(r)
      /\ n \in Nat /\ Len(r) \in Nat
      /\ DOMAIN j = 1 .. n + Len(r)
      /\ \A k \in DOMAIN s : j[k] = s[k]
      /\ \A k \in DOMAIN r : j[n + k] = r[k]
  BY JoinedFacts DEF Contents
<1> HIDE DEF j, n
<1>2. ASSUME NEW k \in DOMAIN j, j[k].user \notin a
      PROVE  InTables(j[k], d) \/ \E x \in DOMAIN j : x < k /\ Inserts(j[x], j[k])
  <2>1. CASE k <= n
    <3>1. k \in DOMAIN s /\ j[k] = s[k]
      BY <1>1, <2>1
    <3>2. InTables(s[k], d) \/ \E x \in DOMAIN s : x < k /\ Inserts(s[x], s[k])
      BY <1>2, <3>1 DEF Ordered
    <3>3. DOMAIN s \subseteq DOMAIN j
      BY <1>1
    <3>4. ASSUME NEW x \in DOMAIN s, x < k, Inserts(s[x], s[k])
          PROVE  x \in DOMAIN j /\ Inserts(j[x], j[k])
      BY <1>1, <3>1, <3>3, <3>4
    <3> QED
      BY <3>1, <3>2, <3>4
  <2>2. CASE k > n
    <3>1. k - n \in DOMAIN r /\ k = n + (k - n)
      BY <1>1, <2>2
    <3>2. j[k] = r[k - n] /\ r[k - n] \in Contents(r)
      BY <1>1, <3>1 DEF Contents
    <3>3. InTables(j[k], d) \/ \E x \in Contents(s) : Inserts(x, j[k])
      BY <1>2, <3>2
    <3>4. ASSUME NEW x \in Contents(s), Inserts(x, j[k])
          PROVE  \E y \in DOMAIN j : y < k /\ Inserts(j[y], j[k])
      <4>1. PICK y \in DOMAIN s : s[y] = x
        BY DEF Contents
      <4>2. y \in DOMAIN j /\ y < k /\ j[y] = x
        BY <1>1, <2>2, <4>1
      <4> QED
        BY <3>4, <4>2
    <3> QED
      BY <3>3, <3>4
  <2> QED
    BY <1>1, <2>1, <2>2
<1> QED
  BY <1>2 DEF j, Ordered

LEMMA JoinedAt ==
  ASSUME NEW s, s \in Seq(Contents(s)), NEW r, r \in Seq(Contents(r))
  PROVE  LET j == s \o r
         IN  /\ DOMAIN s = 1 .. Len(s) /\ DOMAIN r = 1 .. Len(r)
             /\ Len(s) \in Nat /\ Len(r) \in Nat
             /\ DOMAIN j = 1 .. Len(s) + Len(r)
             /\ \A k \in DOMAIN s : j[k] = s[k]
             /\ \A k \in DOMAIN r : j[Len(s) + k] = r[k]
  BY JoinedFacts DEF Contents

LEMMA PushedFacts ==
  ASSUME NEW e, NEW q, q \in Seq(Contents(q))
  PROVE  LET j == <<e>> \o q
         IN  /\ DOMAIN q = 1 .. Len(q) /\ Len(q) \in Nat
             /\ DOMAIN j = 1 .. 1 + Len(q)
             /\ j[1] = e
             /\ \A k \in DOMAIN q : j[1 + k] = q[k]
<1> DEFINE h == <<e>>
<1>1. h \in Seq(Contents(h))
  BY OneWord
<1>2. Len(h) = 1 /\ DOMAIN h = {1} /\ h[1] = e
  OBVIOUS
<1> HIDE DEF h
<1> DEFINE j == h \o q
<1>3. /\ DOMAIN q = 1 .. Len(q) /\ Len(q) \in Nat
      /\ DOMAIN j = 1 .. Len(h) + Len(q)
      /\ \A k \in DOMAIN h : j[k] = h[k]
      /\ \A k \in DOMAIN q : j[Len(h) + k] = q[k]
  BY <1>1, JoinedAt
<1> HIDE DEF j
<1>4. /\ DOMAIN q = 1 .. Len(q) /\ Len(q) \in Nat
      /\ DOMAIN j = 1 .. 1 + Len(q)
      /\ j[1] = e
      /\ \A k \in DOMAIN q : j[1 + k] = q[k]
  BY <1>2, <1>3
<1> QED
  BY <1>4 DEF j, h

\* The first event is settled, or lost.
LEMMA DroppedOrdered ==
  ASSUME NEW e, NEW q, q \in Seq(Contents(q)), NEW d, NEW a, NEW f, NEW b,
         Ordered(<<e>> \o q, d, a), a \subseteq b,
         \A x \in Contents(q) : InTables(x, d) => InTables(x, f),
         \A x \in Contents(q) : Inserts(e, x) => InTables(x, f) \/ x.user \in b
  PROVE  Ordered(q, f, b)
<1> DEFINE j == <<e>> \o q
<1>1. /\ DOMAIN q = 1 .. Len(q) /\ Len(q) \in Nat
      /\ DOMAIN j = 1 .. 1 + Len(q)
      /\ j[1] = e
      /\ \A k \in DOMAIN q : j[1 + k] = q[k]
  BY PushedFacts
<1>2. Ordered(j, d, a)
  OBVIOUS
<1> HIDE DEF j
<1>3. ASSUME NEW k \in DOMAIN q, q[k].user \notin b
      PROVE  InTables(q[k], f) \/ \E x \in DOMAIN q : x < k /\ Inserts(q[x], q[k])
  <2>1. 1 + k \in DOMAIN j /\ j[1 + k] = q[k] /\ q[k] \in Contents(q)
    BY <1>1 DEF Contents
  <2>2. InTables(q[k], d) \/ \E x \in DOMAIN j : x < 1 + k /\ Inserts(j[x], q[k])
    BY <1>2, <1>3, <2>1 DEF Ordered
  <2>3. ASSUME NEW x \in DOMAIN j, x < 1 + k, Inserts(j[x], q[k])
        PROVE  InTables(q[k], f) \/ \E y \in DOMAIN q : y < k /\ Inserts(q[y], q[k])
    <3>1. CASE x = 1
      BY <1>1, <1>3, <2>1, <2>3, <3>1
    <3>2. CASE x # 1
      <4>1. x - 1 \in DOMAIN q /\ x - 1 < k /\ x = 1 + (x - 1)
        BY <1>1, <2>3, <3>2
      <4>2. j[x] = q[x - 1]
        BY <1>1, <4>1
      <4> QED
        BY <2>3, <4>1, <4>2
    <3> QED
      BY <3>1, <3>2
  <2> QED
    BY <2>1, <2>2, <2>3
<1> QED
  BY <1>3 DEF Ordered

\* A step of a handler: events join those on their way.
LEMMA FifoGrows ==
  ASSUME SyncInv, Fifo, NEW ev, ev \in Seq(Contents(ev)),
         queue' = queue \o ev, hand' = hand, OnWay' = OnWay \cup Contents(ev),
         db' = db, apart' = apart, stopping' = stopping,
         \A e \in Contents(ev) :
           /\ e.type \in {"create", "cancel"} \cup TradeTypes
           /\ e.user \notin apart => InTables(e, db) \/ \E x \in OnWay : Inserts(x, e)
  PROVE  Fifo'
<1>1. \A e \in OnWay' : e.type \in {"create", "cancel"} \cup TradeTypes
  BY DEF Fifo
<1>2. ASSUME ~stopping
      PROVE  Ordered(Stream', db, apart)
  <2>1. FlowOK(queue, hand) /\ hand[Main] = <<>>
    BY <1>2 DEF SyncInv, SettlementInv, PosSync
  <2>2. /\ Stream \in Seq(Contents(Stream)) /\ Contents(Stream) = OnWay
        /\ Stream' = Stream \o ev
    BY <2>1, StreamFacts, StreamGrows
  <2> QED
    BY <1>2, <2>2, JoinedOrdered DEF Fifo
<1> QED
  BY <1>1, <1>2 DEF Fifo

LEMMA FifoStays ==
  ASSUME Fifo, OnWay' = OnWay, ~stopping' => ~stopping /\ Stream' = Stream,
         DOMAIN db'.pos = DOMAIN db.pos, DOMAIN db'.orders = DOMAIN db.orders,
         apart' = apart
  PROVE  Fifo'
<1>1. ASSUME ~stopping, NEW s, Ordered(s, db, apart)
      PROVE  Ordered(s, db', apart)
  BY <1>1 DEF Ordered, InTables
<1> QED
  BY <1>1 DEF Fifo

LEMMA FifoHandlers ==
  ASSUME SyncInv, Fifo, NEW t \in Threads,
         \/ SilentStep(t) \/ SubmitFilled(t) \/ SubmitResting(t)
         \/ RegisterSent(t) \/ SubmitCancel(t)
  PROVE  Fifo'
<1>1. /\ hand' = hand /\ db' = db /\ apart' = apart /\ stopping' = stopping
  BY DEF SilentStep, SubmitFilled, SubmitResting, RegisterSent, SubmitCancel, flow, notes
<1>2. CASE queue' = queue
  <2>1. OnWay' = OnWay /\ Stream' = Stream
    BY <1>1, <1>2, SameFlow DEF Stream
  <2> QED
    BY <1>1, <2>1, FifoStays
<1>3. ASSUME NEW e, queue' = queue \o <<e>>, e.type = "create" \/ (e.type = "cancel" /\ SubmitCancel(t) /\ e = CancelEvent(calls[t]))
      PROVE  Fifo'
  <2> DEFINE ev == <<e>>
  <2>1. ev \in Seq(Contents(ev)) /\ Contents(ev) = {e}
    BY OneWord
  <2> HIDE DEF ev
  <2>2. queue' = queue \o ev
    BY <1>3 DEF ev
  <2>3. OnWay' = OnWay \cup Contents(ev)
    BY <1>1, <2>1, <2>2, AppendFlow DEF OnWay, SyncInv, SettlementInv
  <2>4. e.user \notin apart => InTables(e, db) \/ \E x \in OnWay : Inserts(x, e)
    <3>1. CASE e.type = "create"
      BY <3>1 DEF InTables
    <3>2. CASE e.type = "cancel" /\ SubmitCancel(t) /\ e = CancelEvent(calls[t])
      <4>1. e.order = calls[t].id /\ e.user = calls[t].user /\ calls[t].pc = "uncache"
        BY <3>2 DEF CancelEvent, SubmitCancel, Uncache
      <4>2. e.user \notin apart => Cancellable(e.order)
        BY <4>1 DEF SyncInv, TradesInv, CallKnown
      <4> QED
        BY <3>2, <4>2 DEF Cancellable, InTables, Inserts
    <3> QED
      BY <1>3, <3>1, <3>2
  <2> QED
    BY <1>1, <1>3, <2>1, <2>2, <2>3, <2>4, FifoGrows
<1>4. CASE SilentStep(t) \/ RegisterSent(t)
  BY <1>2, <1>4 DEF SilentStep, RegisterSent, flow
<1>5. CASE SubmitFilled(t)
  <2> DEFINE e == OrderEvent(calls[t], "filled", 0)
  <2>1. queue' = queue \o <<>> \/ queue' = queue \o <<e>>
    BY <1>5 DEF SubmitFilled, Submit, FilledOrder
  <2>2. e.type = "create"
    BY OrderEventFields
  <2> HIDE DEF e
  <2>3. queue \o <<>> = queue
    BY DEF SyncInv, SettlementInv, FlowOK
  <2> QED
    BY <1>2, <1>3, <2>1, <2>2, <2>3
<1>6. CASE SubmitResting(t)
  <2> DEFINE e == OrderEvent(calls[t], "pending", calls[t].cost)
  <2>1. queue' = queue \o <<e>>
    BY <1>6 DEF SubmitResting, Submit
  <2>2. e.type = "create"
    BY OrderEventFields
  <2> HIDE DEF e
  <2> QED
    BY <1>3, <2>1, <2>2
<1>7. CASE SubmitCancel(t)
  <2> DEFINE e == CancelEvent(calls[t])
  <2>1. queue' = queue \o <<e>>
    BY <1>7 DEF SubmitCancel, Submit
  <2>2. e.type = "cancel" /\ e = CancelEvent(calls[t])
    BY DEF CancelEvent
  <2> HIDE DEF e
  <2> QED
    BY <1>3, <1>7, <2>1, <2>2
<1> QED
  BY <1>4, <1>5, <1>6, <1>7

\* A trade changes positions that memory has: the table has them, or is to.
LEMMA FifoTrade ==
  ASSUME SyncInv, Fifo, NEW t \in Threads, SubmitTrade(t)
  PROVE  Fifo'
<1> DEFINE c  == calls[t]
           l  == Head(c.legs)
           id == IF l.user = c.user THEN c.id ELSE l.id
           ev == TradeEvents(mem, mem', l, id)
<1>1. /\ mem' \in UpdatePosition(mem, l.user, l.side, l.qty, l.price,
                                 LeverageOf(c, l), l.user # c.user)
      /\ hand' = hand /\ db' = db /\ apart' = apart /\ stopping' = stopping
      /\ queue' = queue \o ev
  BY DEF SubmitTrade, ApplyLeg, Submit
<1>2. Sound(mem) /\ FlowOK(queue, hand) /\ HeldOK
  BY DEF SyncInv, SettlementInv, PositionsInv, PosSync
<1>3. KeepsOwners(mem, mem') /\ OwnOnly(mem, mem', l.user)
  BY <1>1, <1>2, UpdateKeepsOwners, UpdateOwn
<1>4. ev \in Seq(Contents(ev)) /\ \A e \in Contents(ev) : TradeEvent(e, mem, mem', l, id)
  BY <1>2, <1>3, TradeEventsFacts
<1> HIDE DEF ev, id, l
<1>5. OnWay' = OnWay \cup Contents(ev)
  BY <1>1, <1>2, <1>4, AppendFlow DEF OnWay
<1>6. ASSUME NEW e \in Contents(ev)
      PROVE  /\ e.type \in {"create", "cancel"} \cup TradeTypes
             /\ e.user \notin apart => InTables(e, db) \/ \E x \in OnWay : Inserts(x, e)
  <2>1. /\ e.type \in TradeTypes /\ e.user \in Users /\ e.user = l.user
        /\ e.type # "open" => e.pos \in DOMAIN mem.pos /\ mem.pos[e.pos].user = l.user
    BY <1>4, <1>6 DEF TradeEvent, TradeTypes
  <2>2. CASE e.type = "open"
    BY <2>1, <2>2 DEF InTables
  <2>3. CASE e.type # "open" /\ e.user \notin apart
    <3>1. e.pos \in HeldBy(mem, e.user)
      BY <2>1, <2>3 DEF HeldBy
    <3>2. StaysOpen(db.pos, OnWay, e.pos, e.user)
      BY <1>2, <2>1, <2>3, <3>1 DEF HeldOK
    <3> QED
      BY <2>1, <2>3, <3>2 DEF StaysOpen, InTables, Inserts, TradeTypes
  <2> QED
    BY <2>1, <2>2, <2>3
<1> QED
  BY <1>1, <1>4, <1>5, <1>6, FifoGrows

\* The worker is done with the first event.
LEMMA FifoDone ==
  ASSUME SyncInv, Fifo, NEW w \in Consumers, hand[w] # <<>>,
         NEW e, e = Head(hand[w]), hand' = [hand EXCEPT ![w] = <<>>], queue' = queue,
         stopping' = stopping,
         \/ Accepts(db, e) /\ db' = Settled(db, e) /\ apart' = apart
         \/ db' = db /\ apart' = apart \cup {e.user}
  PROVE  Fifo'
<1>1. /\ SettlementInv /\ PosSync
      /\ e \in OnWay /\ OnWay' \subseteq OnWay
  BY Done DEF SyncInv
<1>2. \A d \in OnWay' : d.type \in {"create", "cancel"} \cup TradeTypes
  BY <1>1 DEF Fifo
<1>3. /\ DOMAIN db.pos \subseteq DOMAIN db'.pos /\ DOMAIN db.orders \subseteq DOMAIN db'.orders
      /\ Accepts(db, e) /\ db' = Settled(db, e) =>
           /\ e.type = "open" => e.pos \in DOMAIN db'.pos
           /\ e.type = "create" => e.order \in DOMAIN db'.orders
  <2>1. CASE db' = db /\ ~(Accepts(db, e) /\ db' = Settled(db, e))
    BY <2>1
  <2>2. CASE Accepts(db, e) /\ db' = Settled(db, e)
    <3>1. \A i \in DOMAIN db.orders : {"user", "status"} \subseteq DOMAIN db.orders[i]
      BY <1>1 DEF SettlementInv, OrdersInv, RowsOK
    <3> DEFINE n == Settled(db, e).orders
               r == Settled(db, e).pos
    <3>2. /\ e.type = "create" => DOMAIN n = DOMAIN db.orders \cup {e.order}
          /\ e.type # "create" => DOMAIN n = DOMAIN db.orders
      BY <3>1, SettledRows
    <3>3. DOMAIN r = IF e.type = "open" THEN DOMAIN db.pos \cup {e.pos} ELSE DOMAIN db.pos
      BY <1>1, <2>2, SettledRowsAre DEF PosSync, PosRowsOK
    <3>4. n = db'.orders /\ r = db'.pos
      BY <2>2
    <3> HIDE DEF n, r
    <3> QED
      BY <3>2, <3>3, <3>4
  <2> QED
    BY <2>1, <2>2
<1>4. ASSUME ~stopping
      PROVE  Ordered(Stream', db', apart')
  <2>1. /\ Contents(Stream) = OnWay /\ Stream = <<e>> \o queue /\ Stream' = queue
        /\ queue \in Seq(Contents(queue)) /\ Contents(queue) \subseteq OnWay
    <3>1. Contents(queue) \subseteq OnWay
      BY DEF OnWay, Waiting
    <3> QED
      BY <1>1, <1>4, <3>1, WorkerAlone
  <2>2. Ordered(<<e>> \o queue, db, apart)
    BY <1>4, <2>1 DEF Fifo
  <2>3. \A x \in Contents(queue) : InTables(x, db) => InTables(x, db')
    BY <1>3 DEF InTables
  <2>4. ASSUME NEW x \in Contents(queue), Inserts(e, x)
        PROVE  InTables(x, db') \/ x.user \in apart'
    <3>1. x \in OnWay
      BY <2>1
    <3>2. x.user = e.user
      <4>1. CASE e.type = "open" /\ x.type \in {"increase", "reduce", "close"} /\ e.pos = x.pos
        <5>1. PosOf(e.pos, e.user) /\ PosOf(e.pos, x.user)
          BY <1>1, <3>1, <4>1 DEF PosOf, TradeTypes
        <5> QED
          BY <1>1, <5>1 DEF PosSync, OwnersOK
      <4>2. CASE e.type = "create" /\ x.type = "cancel" /\ e.order = x.order
        <5>1. Named(e.order, e.user) /\ Named(e.order, x.user)
          BY <1>1, <3>1, <4>2 DEF Named
        <5> QED
          BY <1>1, <5>1 DEF SettlementInv, OrdersInv, NamesOK
      <4> QED
        BY <2>4, <4>1, <4>2 DEF Inserts
    <3>3. CASE apart' = apart \cup {e.user}
      BY <3>2, <3>3
    <3>4. CASE Accepts(db, e) /\ db' = Settled(db, e) /\ apart' = apart
      <4>1. /\ e.type = "open" => e.pos \in DOMAIN db'.pos
            /\ e.type = "create" => e.order \in DOMAIN db'.orders
        BY <1>3, <3>4
      <4> QED
        BY <2>4, <4>1 DEF Inserts, InTables
    <3> QED
      BY <3>3, <3>4
  <2>5. apart \subseteq apart'
    OBVIOUS
  <2> QED
    BY <2>1, <2>2, <2>3, <2>4, <2>5, DroppedOrdered
<1> QED
  BY <1>2, <1>4 DEF Fifo

\* The invariant of the order of events.
FifoInv == SyncInv /\ Fifo

LEMMA FifoInit == SInit => FifoInv
<1> SUFFICES ASSUME SInit PROVE FifoInv
  OBVIOUS
<1>1. queue = <<>> /\ hand = [w \in Consumers |-> <<>>]
  BY DEF SInit
<1>2. OnWay = {}
  BY <1>1, EmptyFlow DEF OnWay
<1>3. Stream = <<>> /\ DOMAIN <<>> = {}
  BY <1>1, ConsumersAre DEF Stream
<1>4. Fifo
  BY <1>2, <1>3 DEF Fifo, Ordered
<1> QED
  BY <1>4, SyncInit DEF FifoInv

LEMMA FifoStep == FifoInv /\ [SNext]_svars => FifoInv'
<1> SUFFICES ASSUME FifoInv, [SNext]_svars
             PROVE  Fifo'
  BY SyncStep DEF FifoInv
<1>1. SyncInv /\ Fifo /\ SettlementInv
  BY DEF FifoInv, SyncInv
<1>2. CASE UNCHANGED svars
  <2>1. db' = db /\ queue' = queue /\ hand' = hand /\ apart' = apart /\ stopping' = stopping
    BY <1>2 DEF svars, flow, notes
  <2>2. OnWay' = OnWay /\ Stream' = Stream
    BY <2>1, SameFlow DEF Stream
  <2> QED
    BY <1>1, <2>1, <2>2, FifoStays
<1>3. ASSUME NEW t \in Threads,
             \/ SilentStep(t) \/ SubmitFilled(t) \/ SubmitResting(t)
             \/ RegisterSent(t) \/ SubmitCancel(t) \/ SubmitTrade(t)
      PROVE  Fifo'
  BY <1>1, <1>3, FifoHandlers, FifoTrade
<1>4. ASSUME NEW w \in Consumers, TakeEvent(w)
      PROVE  Fifo'
  <2>1. /\ w = Main => stopping
        /\ queue # <<>> /\ hand[w] = <<>> /\ hand' = [hand EXCEPT ![w] = <<Head(queue)>>]
        /\ queue' = Tail(queue) /\ stopping' = stopping
        /\ db' = db /\ apart' = apart
    BY <1>4 DEF TakeEvent, vars, notes
  <2>2. OnWay' = OnWay
    BY <1>1, <2>1, TakeFlow DEF OnWay, SettlementInv
  <2>3. ~stopping' => ~stopping /\ Stream' = Stream
    <3>1. ~stopping => w = Worker
      BY <2>1, ConsumersAre
    <3> QED
      BY <1>1, <2>1, <3>1, StreamStays DEF SettlementInv
  <2> QED
    BY <1>1, <2>1, <2>2, <2>3, FifoStays
<1>5. ASSUME NEW w \in Consumers, Settle(w) \/ Fail(w)
      PROVE  Fifo'
  <2> DEFINE e == Head(hand[w])
  <2>1. /\ hand[w] # <<>> /\ hand' = [hand EXCEPT ![w] = <<>>] /\ queue' = queue
        /\ stopping' = stopping
        /\ \/ Accepts(db, e) /\ db' = Settled(db, e) /\ apart' = apart
           \/ db' = db /\ apart' = apart \cup {e.user}
    BY <1>5 DEF Settle, Fail
  <2> HIDE DEF e
  <2>2. e = Head(hand[w])
    BY DEF e
  <2> QED
    BY <1>1, <2>1, <2>2, FifoDone
<1>6. ASSUME NEW u \in Users, CheckReset(u) \/ ResetRow(u) \/ ResetMemory(u)
      PROVE  Fifo'
  <2>1. queue' = queue /\ hand' = hand /\ apart' = apart /\ stopping' = stopping
    BY <1>6 DEF CheckReset, ResetRow, ResetMemory, flow, notes
  <2>2. db'.orders = db.orders /\ db'.pos = db.pos
    <3>1. CASE CheckReset(u) \/ ResetMemory(u)
      BY <3>1 DEF CheckReset, ResetMemory, flow
    <3>2. CASE ResetRow(u)
      <4> DEFINE bal == [db.bal EXCEPT ![u] = InitialBalance]
                 frozen == [db.frozen EXCEPT ![u] = 0]
      <4>1. db' = [db EXCEPT !.bal = bal, !.frozen = frozen]
        BY <3>2 DEF ResetRow
      <4> HIDE DEF bal, frozen
      <4>2. {"bal", "frozen", "orders", "pos"} \subseteq DOMAIN db
        BY <1>1 DEF SettlementInv, OrdersInv, RowsOK
      <4> QED
        BY <4>1, <4>2
    <3> QED
      BY <1>6, <3>1, <3>2
  <2>3. OnWay' = OnWay /\ Stream' = Stream
    BY <2>1, SameFlow DEF Stream
  <2> QED
    BY <1>1, <2>1, <2>2, <2>3, FifoStays
<1>7. CASE Stop
  <2>1. db' = db /\ queue' = queue /\ hand' = hand /\ apart' = apart /\ stopping'
    BY <1>7 DEF Stop, notes
  <2>2. OnWay' = OnWay
    BY <2>1, SameFlow
  <2> QED
    BY <1>1, <2>1, <2>2, FifoStays
<1>8. CASE Crash \/ Halt
  <2>1. queue' = <<>> /\ hand'[Worker] = <<>> /\ Reload
    BY <1>8, ConsumersAre DEF Reload, Crash, Halt
  <2>2. OnWay' = {}
    BY <1>1, <2>1, ReloadedOrders DEF SettlementInv
  <2>3. Stream' = <<>> /\ DOMAIN <<>> = {}
    BY <2>1 DEF Stream
  <2> QED
    BY <2>2, <2>3 DEF Fifo, Ordered
<1> QED
  BY <1>2, <1>3, <1>4, <1>5, <1>6, <1>7, <1>8 DEF SNext

LEMMA FifoAlways == SSpec => []FifoInv
  BY FifoInit, FifoStep, PTL DEF SSpec

\* processLoop and execTx: while the worker is the only consumer, the first event
\* of a user that a constraint refuses is a second cancel of the same order, or
\* a trade of an order in the book that PlaceLimitOrder has not submitted yet,
\* or has submitted after the trade.  No other order of the handlers' steps
\* makes the database refuse a change that memory made.
THEOREM OnlyRacesAreRefused == SSpec => []RefusedOnlyByRace
<1>1. FifoInv => RefusedOnlyByRace
  <2> DEFINE late(e) == \/ \E k \in DOMAIN queue : /\ queue[k].type = "create"
                                                   /\ queue[k].order = e.order
                        \/ \E t \in Threads : /\ calls[t].pc = "resting"
                                              /\ calls[t].id = e.order
                                              /\ t \notin sent
  <2>1. ASSUME FifoInv, NEW n \in DOMAIN hand[Worker], NEW e, e = hand[Worker][n],
               ~stopping, e.user \notin apart, ~Accepts(db, e)
        PROVE  \/ e.type = "cancel" /\ db.orders[e.order].status = "canceled"
               \/ e.type \in {"open", "increase", "reduce", "close"} /\ late(e)
    <3>1. /\ SettlementInv /\ PosSync /\ TradesInv /\ Fifo
          /\ FlowOK(queue, hand) /\ hand[Main] = <<>>
      BY <2>1 DEF FifoInv, SyncInv, SettlementInv, PosSync
    <3>2. hand[Worker] = <<e>>
      <4>1. DOMAIN <<>> = {}
        OBVIOUS
      <4>2. hand[Worker] = <<hand[Worker][1]>>
        BY <2>1, <3>1, <4>1, ConsumersAre DEF FlowOK
      <4>3. \A x : DOMAIN <<x>> = {1}
        OBVIOUS
      <4>4. n = 1
        BY <2>1, <4>2, <4>3
      <4> QED
        BY <2>1, <4>2, <4>4
    <3>3. queue \in Seq(Contents(queue)) /\ e \in OnWay
          /\ OnWay \subseteq {e} \cup Contents(queue)
      <4>1. Contents(<<e>>) = {e} /\ Contents(<<>>) = {}
        BY OneWord DEF Contents
      <4> QED
        BY <3>1, <3>2, <4>1 DEF FlowOK, OnWay, Waiting
    <3>4. InTables(e, db)
      <4> DEFINE s == <<e>> \o queue
      <4>1. /\ Len(queue) \in Nat /\ DOMAIN s = 1 .. 1 + Len(queue) /\ s[1] = e
        BY <3>3, PushedFacts
      <4>2. Ordered(s, db, apart)
        BY <2>1, <3>1, <3>2 DEF Fifo, Stream
      <4> HIDE DEF s
      <4>3. 1 \in DOMAIN s /\ \A j \in DOMAIN s : ~(j < 1)
        BY <4>1
      <4> QED
        BY <2>1, <4>1, <4>2, <4>3 DEF Ordered
    <3>5. e.type \in {"create", "cancel"} \cup TradeTypes
      BY <3>1, <3>3 DEF Fifo
    <3>6. e.type # "create"
      BY <2>1, <3>1, <3>3 DEF Accepts, SettlementInv, OrdersInv, RowsOK
    <3>7. CASE e.type = "cancel"
      <4>1. e.order \in DOMAIN db.orders /\ Cancellable(e.order)
        BY <2>1, <3>1, <3>3, <3>4, <3>7 DEF InTables, TradesInv, EventsKnown
      <4>2. \A d \in OnWay : d.type = "create" => d.order # e.order
        BY <3>1, <4>1 DEF SettlementInv, OrdersInv, RowsOK
      <4>3. db.orders[e.order].status \in {"pending", "canceled"}
        BY <4>1, <4>2 DEF Cancellable
      <4> QED
        BY <2>1, <3>7, <4>1, <4>3 DEF Accepts
    <3>8. CASE e.type \in TradeTypes
      <4>1. e.type = "open" => e.pos \notin DOMAIN db.pos
        BY <3>1, <3>3 DEF SettlementInv, PositionsInv
      <4>2. e.order \notin DOMAIN db.orders
        BY <2>1, <3>4, <3>8, <4>1 DEF Accepts, InTables, TradeTypes
      <4>3. Known(e.order, e.user)
        BY <3>1, <3>3, <3>8 DEF TradesInv, EventsKnown
      <4>4. ASSUME NEW d \in OnWay, d.type = "create", d.order = e.order
            PROVE  late(e)
        <5>1. d # e
          BY <3>6, <4>4
        <5>2. d \in Contents(queue)
          BY <3>3, <5>1
        <5> QED
          BY <4>4, <5>2 DEF Contents
      <4>5. late(e)
        BY <2>1, <4>2, <4>3, <4>4 DEF Known
      <4> QED
        BY <3>8, <4>5 DEF TradeTypes
    <3> QED
      BY <3>5, <3>6, <3>7, <3>8
  <2> QED
    BY <2>1 DEF RefusedOnlyByRace
<1> QED
  BY <1>1, FifoAlways, PTL
=============================================================================
