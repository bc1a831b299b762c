----------------------------- MODULE HubProofs -----------------------------
(* Proofs about Hub, for any users, connections, senders and capacities.    *)
EXTENDS Hub, TLAPS

\* What Run holds between two of its steps is in nobody else's hands.
Registered(c) == clients[Owner(c)] = c

\* The local variables of Run fit where it is.
RunFits ==
  /\ run.pc = "close" <=> run.victim # NoClient
  /\ run.new # NoClient <=>
       run.pc = "store" \/ (run.pc = "close" /\ run.next = "store")
  /\ run.left # {} =>
       run.pc = "range" \/ (run.pc = "close" /\ run.next = "range")

\* Whoever is about to be closed is still open and no longer in the map.
VictimOpen == run.victim # NoClient =>
  run.victim \notin closed /\ ~Registered(run.victim)

\* Whoever is about to be stored is open and not the victim, and the map has
\* nobody else for the user.
NewOpen == run.new # NoClient =>
  /\ run.new \notin closed /\ run.new # run.victim
  /\ clients[Owner(run.new)] = NoClient
  /\ reader[run.new] # "none" /\ run.new \notin waiting

\* A client that Run has not met yet is open and in no one's hands.
UnmetOpen ==
  \A c \in Clients : c \in waiting \/ reader[c] = "none" =>
    c \notin closed /\ ~Registered(c) /\ c # run.victim /\ reader[c] = "none"

\* Who is still to get a broadcast is in the map.
LeftRegistered == \A c \in run.left : Registered(c)

Inv ==
  /\ TypeOK
  /\ RunNeverPanics
  /\ RegisteredOpen
  /\ RunFits
  /\ VictimOpen
  /\ NewOpen
  /\ UnmetOpen
  /\ LeftRegistered

-----------------------------------------------------------------------------
LEMMA OwnerIsUser == ASSUME NEW c \in Clients PROVE Owner(c) \in Users
  BY ClientsAssumption DEF Owner

LEMMA InitInv == Init => Inv
  <1> SUFFICES ASSUME Init PROVE Inv
    OBVIOUS
  <1> USE NamesAssumption, SizesAssumption, OwnerIsUser DEF Init
  <1>1. TypeOK
    BY DEF TypeOK, RunStates, Selecting
  <1>2. RunNeverPanics /\ RegisteredOpen /\ RunFits
    BY DEF RunNeverPanics, RegisteredOpen, RunFits, Selecting
  <1>3. VictimOpen /\ NewOpen /\ UnmetOpen /\ LeftRegistered
    BY DEF VictimOpen, NewOpen, UnmetOpen, LeftRegistered, Registered, Selecting
  <1> QED
    BY <1>1, <1>2, <1>3 DEF Inv

\* Connections come, break and write without touching what Run relies on.
LEMMA ConnectionSteps ==
  ASSUME Inv, NEW c \in Clients, Connect(c) \/ Break(c) \/ ReadTimesOut(c) \/ Pumps(c)
  PROVE  Inv'
<1> USE DEF Inv, Connect, Break, ReadTimesOut, Pumps, ReadFails, WriteMessage, WriteEnds
<1>1. TypeOK'
  BY SizesAssumption DEF TypeOK
<1>2. UNCHANGED <<clients, closed, run, panicked>>
  OBVIOUS
<1>3. /\ waiting' \subseteq waiting \cup {c}
      /\ \A d \in Clients : reader'[d] = "none" <=> reader[d] = "none"
      /\ waiting' # waiting => reader[c] = "none"
  BY DEF TypeOK
<1>4. RunNeverPanics' /\ RegisteredOpen' /\ RunFits' /\ VictimOpen' /\ LeftRegistered'
  BY <1>2 DEF RunNeverPanics, RegisteredOpen, RunFits, VictimOpen, LeftRegistered,
              Registered
<1>5. NewOpen' /\ UnmetOpen'
  BY <1>2, <1>3 DEF NewOpen, UnmetOpen, Registered, TypeOK, RunStates
<1> QED
  BY <1>1, <1>4, <1>5

\* The older client of the user is out of the map before it is the victim.
LEMMA RegisterStep ==
  ASSUME Inv, NEW c \in Clients, TakeRegister(c)
  PROVE  Inv'
<1> USE NamesAssumption DEF Inv
<1>1. Owner(c) \in Users
  BY OwnerIsUser
<1>2. /\ run'.pc = (IF clients[Owner(c)] = NoClient THEN "store" ELSE "close")
      /\ run'.new = c /\ run'.victim = clients[Owner(c)]
      /\ run'.next = "store" /\ run'.left = {}
  BY DEF TakeRegister, Selecting
<1>3. run' \in RunStates
  BY <1>1 DEF TakeRegister, Selecting, RunStates, TypeOK
<1>4. /\ c \in waiting /\ waiting' = waiting \ {c}
      /\ reader'  = [reader EXCEPT ![c] = "reading"]
      /\ clients' = [clients EXCEPT ![Owner(c)] = NoClient]
      /\ UNCHANGED <<closed, panicked>>
  BY DEF TakeRegister
<1>5. TypeOK'
  BY <1>1, <1>3, <1>4 DEF TypeOK, TakeRegister
<1>6. RunNeverPanics' /\ RegisteredOpen'
  BY <1>1, <1>4 DEF RunNeverPanics, RegisteredOpen, TypeOK
<1>7. RunFits'
  BY <1>2 DEF RunFits
<1>8. VictimOpen' /\ NewOpen'
  BY <1>1, <1>2, <1>4 DEF VictimOpen, NewOpen, RegisteredOpen, UnmetOpen, Registered, TypeOK
<1>9. UnmetOpen'
  BY <1>1, <1>2, <1>4 DEF UnmetOpen, RegisteredOpen, Registered, TypeOK
<1>10. LeftRegistered'
  BY <1>2 DEF LeftRegistered
<1> QED
  BY <1>5, <1>6, <1>7, <1>8, <1>9, <1>10

\* Only the client that is in the map becomes the victim.
LEMMA UnregisterStep ==
  ASSUME Inv, NEW c \in Clients, TakeUnregister(c)
  PROVE  Inv'
<1> USE NamesAssumption DEF Inv
<1>1. Owner(c) \in Users
  BY OwnerIsUser
<1>2. /\ run.pc = "select" /\ run.new = NoClient /\ run.victim = NoClient /\ run.left = {}
      /\ reader[c] = "leaving" /\ reader' = [reader EXCEPT ![c] = "done"]
      /\ UNCHANGED <<waiting, closed, panicked>>
  BY DEF TakeUnregister, RunFits
<1>3. CASE Registered(c)
  <2>1. /\ run'.pc = "close" /\ run'.new = NoClient /\ run'.victim = c
        /\ run'.next = "select" /\ run'.left = {} /\ run' \in RunStates
        /\ clients' = [clients EXCEPT ![Owner(c)] = NoClient]
    BY <1>3 DEF TakeUnregister, Selecting, Registered, RunStates
  <2>2. TypeOK'
    BY <1>1, <2>1 DEF TypeOK, TakeUnregister
  <2>3. RunNeverPanics' /\ RegisteredOpen'
    BY <1>1, <1>2, <2>1 DEF RunNeverPanics, RegisteredOpen, TypeOK
  <2>4. RunFits' /\ NewOpen' /\ LeftRegistered'
    BY <2>1 DEF RunFits, NewOpen, LeftRegistered
  <2>5. VictimOpen'
    BY <1>1, <1>2, <1>3, <2>1 DEF VictimOpen, RegisteredOpen, Registered, TypeOK
  <2>6. UnmetOpen'
    BY <1>1, <1>2, <2>1 DEF UnmetOpen, Registered, TypeOK
  <2> QED
    BY <2>2, <2>3, <2>4, <2>5, <2>6
<1>4. CASE ~Registered(c)
  <2>1. UNCHANGED <<clients, run>>
    BY <1>4 DEF TakeUnregister, Registered
  <2>2. TypeOK'
    BY <2>1 DEF TypeOK, TakeUnregister
  <2>3. /\ RunNeverPanics' /\ RegisteredOpen' /\ RunFits' /\ VictimOpen'
        /\ NewOpen' /\ LeftRegistered'
    BY <1>2, <2>1 DEF RunNeverPanics, RegisteredOpen, RunFits, VictimOpen, NewOpen,
                      LeftRegistered, Registered
  <2>4. UnmetOpen'
    BY <1>2, <2>1 DEF UnmetOpen, Registered, TypeOK
  <2> QED
    BY <2>2, <2>3, <2>4
<1> QED
  BY <1>3, <1>4

\* The victim is open, and nobody relies on it.
LEMMA CloseStep ==
  ASSUME Inv, CloseVictim
  PROVE  Inv'
<1> USE NamesAssumption DEF Inv
<1>1. run.pc = "close" /\ run.victim \in Clients /\ run.victim \notin closed
  BY DEF CloseVictim, RunFits, VictimOpen, TypeOK, RunStates
<1>2. /\ closed' = closed \cup {run.victim}
      /\ UNCHANGED <<panicked, clients, waiting, reader>>
  BY <1>1 DEF CloseVictim
<1>3. /\ run'.pc = run.next /\ run'.new = run.new /\ run'.victim = NoClient
      /\ run'.next = "select" /\ run'.left = run.left /\ run' \in RunStates
  <2>1. run' = [run EXCEPT !.pc = run.next, !.victim = NoClient, !.next = "select"]
    BY <1>1 DEF CloseVictim
  <2>2. run \in RunStates
    BY DEF TypeOK
  <2> QED
    BY <2>1, <2>2 DEF RunStates
<1>4. TypeOK'
  BY <1>1, <1>2, <1>3 DEF TypeOK, CloseVictim
<1>5. RunNeverPanics'
  BY <1>2 DEF RunNeverPanics
<1>6. RegisteredOpen'
  BY <1>2 DEF RegisteredOpen, VictimOpen, Registered
<1>7. RunFits'
  BY <1>1, <1>3 DEF RunFits, TypeOK, RunStates
<1>8. VictimOpen' /\ NewOpen' /\ UnmetOpen' /\ LeftRegistered'
  BY <1>2, <1>3 DEF VictimOpen, NewOpen, UnmetOpen, LeftRegistered, Registered
<1> QED
  BY <1>4, <1>5, <1>6, <1>7, <1>8

\* Who is stored is open, and belongs to his user.
LEMMA StoreStep ==
  ASSUME Inv, Store
  PROVE  Inv'
<1> USE NamesAssumption DEF Inv
<1> DEFINE new == run.new
<1>1. run.pc = "store" /\ new \in Clients /\ new \notin closed /\ run.victim = NoClient
  BY DEF Store, RunFits, NewOpen, TypeOK, RunStates
<1>2. Owner(new) \in Users
  BY <1>1, OwnerIsUser
<1>3. /\ run'.pc = "select" /\ run'.new = NoClient /\ run'.victim = NoClient
      /\ run'.next = "select" /\ run'.left = {} /\ run' \in RunStates
      /\ clients' = [clients EXCEPT ![Owner(new)] = new]
      /\ UNCHANGED <<closed, panicked, waiting, reader>>
  BY DEF Store, RunStates, Selecting
<1>4. TypeOK'
  BY <1>1, <1>2, <1>3 DEF TypeOK, Store
<1>5. RunNeverPanics' /\ RegisteredOpen'
  BY <1>1, <1>2, <1>3 DEF RunNeverPanics, RegisteredOpen, TypeOK
<1>6. RunFits' /\ VictimOpen' /\ NewOpen' /\ LeftRegistered'
  BY <1>3 DEF RunFits, VictimOpen, NewOpen, LeftRegistered
<1>7. UnmetOpen'
  <2>1. reader[new] # "none" /\ new \notin waiting
    BY <1>1 DEF NewOpen
  <2>2. \A c \in Clients : c # new => (Registered(c)' => Registered(c))
    BY <1>2, <1>3 DEF Registered, TypeOK
  <2> QED
    BY <1>3, <2>1, <2>2 DEF UnmetOpen
<1> QED
  BY <1>4, <1>5, <1>6, <1>7

\* A broadcast is for those in the map.
LEMMA BroadcastStep ==
  ASSUME Inv, TakeBroadcast
  PROVE  Inv'
<1> USE NamesAssumption DEF Inv
<1>1. run.new = NoClient /\ run.victim = NoClient
  BY DEF TakeBroadcast, RunFits
<1>2. /\ run'.pc = "range" /\ run'.new = NoClient /\ run'.victim = NoClient
      /\ run'.next = "select" /\ run'.left = {clients[u] : u \in Users} \ {NoClient}
      /\ UNCHANGED <<clients, closed, panicked, waiting, reader>>
  BY DEF TakeBroadcast, Selecting
<1>3. run' \in RunStates
  <2>1. {clients[u] : u \in Users} \ {NoClient} \subseteq Clients
    BY DEF TypeOK
  <2> QED
    BY <2>1 DEF TakeBroadcast, RunStates, Selecting
<1>4. broadcast' \in 0 .. QueueSize
  BY SizesAssumption DEF TakeBroadcast, TypeOK
<1>5. TypeOK'
  BY <1>3, <1>4 DEF TypeOK, TakeBroadcast
<1>6. RunNeverPanics' /\ RegisteredOpen'
  BY <1>2 DEF RunNeverPanics, RegisteredOpen
<1>7. RunFits' /\ VictimOpen' /\ NewOpen'
  BY <1>2 DEF RunFits, VictimOpen, NewOpen
<1>8. UnmetOpen'
  BY <1>1, <1>2 DEF UnmetOpen, Registered
<1>9. LeftRegistered'
  BY <1>2 DEF LeftRegistered, RegisteredOpen, Registered
<1> QED
  BY <1>5, <1>6, <1>7, <1>8, <1>9

\* Who is offered the broadcast is in the map, hence open.
LEMMA OfferStep ==
  ASSUME Inv, NEW c \in Clients, Offer(c)
  PROVE  Inv'
<1> USE NamesAssumption DEF Inv
<1>1. Owner(c) \in Users
  BY OwnerIsUser
<1>2. Registered(c) /\ c \notin closed
  BY <1>1 DEF Offer, LeftRegistered, RegisteredOpen, Registered
<1>3. run.pc = "range" /\ run.new = NoClient /\ run.victim = NoClient /\ run \in RunStates
  BY DEF Offer, RunFits, TypeOK
<1>4. UNCHANGED <<waiting, reader, writer, up, closed, broadcast, loaded>>
  BY DEF Offer
<1>5. CASE HasRoom(c)
  <2>1. /\ UNCHANGED <<clients, panicked>>
        /\ run' = [run EXCEPT !.left = @ \ {c}]
        /\ send' = [send EXCEPT ![c] = @ + 1]
    BY <1>2, <1>5 DEF Offer, Put
  <2>2. /\ run'.pc = "range" /\ run'.new = NoClient /\ run'.victim = NoClient
        /\ run'.left = run.left \ {c} /\ run' \in RunStates
    BY <1>3, <2>1 DEF RunStates
  <2>3. send' \in [Clients -> 0 .. BufferSize]
    BY <1>5, <2>1, SizesAssumption DEF HasRoom, TypeOK
  <2>4. TypeOK'
    BY <1>4, <2>1, <2>2, <2>3 DEF TypeOK
  <2>5. RunNeverPanics' /\ RegisteredOpen' /\ RunFits' /\ VictimOpen' /\ NewOpen'
    BY <1>4, <2>1, <2>2 DEF RunNeverPanics, RegisteredOpen, RunFits, VictimOpen, NewOpen
  <2>6. UnmetOpen' /\ LeftRegistered'
    BY <1>3, <1>4, <2>1, <2>2 DEF UnmetOpen, LeftRegistered, Registered
  <2> QED
    BY <2>4, <2>5, <2>6
<1>6. CASE ~HasRoom(c)
  <2>1. /\ UNCHANGED <<send, panicked>>
        /\ clients' = [clients EXCEPT ![Owner(c)] = NoClient]
        /\ run' = [run EXCEPT !.pc = "close", !.victim = c, !.next = "range",
                              !.left = @ \ {c}]
    BY <1>2, <1>6 DEF Offer
  <2>2. /\ run'.pc = "close" /\ run'.new = NoClient /\ run'.victim = c
        /\ run'.next = "range" /\ run'.left = run.left \ {c} /\ run' \in RunStates
    BY <1>3, <2>1 DEF RunStates
  <2>3. TypeOK'
    BY <1>1, <1>4, <2>1, <2>2 DEF TypeOK
  <2>4. RunNeverPanics' /\ RegisteredOpen' /\ RunFits' /\ NewOpen'
    BY <1>1, <1>4, <2>1, <2>2 DEF RunNeverPanics, RegisteredOpen, RunFits, NewOpen, TypeOK
  <2>5. VictimOpen'
    BY <1>1, <1>2, <1>4, <2>1, <2>2 DEF VictimOpen, Registered, TypeOK
  <2>6. UnmetOpen'
    BY <1>1, <1>2, <1>4, <2>1, <2>2 DEF UnmetOpen, Registered, TypeOK
  <2>7. LeftRegistered'
    <3> SUFFICES ASSUME NEW d \in run.left, d # c PROVE Registered(d)'
      BY <2>2 DEF LeftRegistered
    <3>1. Registered(d) /\ d \in Clients
      BY <1>3 DEF LeftRegistered, RunStates
    <3>2. Owner(d) # Owner(c)
      BY <1>2, <3>1 DEF Registered
    <3> QED
      BY <1>1, <2>1, <3>1, <3>2, OwnerIsUser DEF Registered, TypeOK
  <2> QED
    BY <2>3, <2>4, <2>5, <2>6, <2>7
<1> QED
  BY <1>5, <1>6

\* Nothing is in hand when a broadcast is over.
LEMMA RangeEndsStep ==
  ASSUME Inv, RangeEnds
  PROVE  Inv'
<1> USE NamesAssumption DEF Inv
<1>1. run.new = NoClient /\ run.victim = NoClient
  BY DEF RangeEnds, RunFits
<1>2. /\ run'.pc = "select" /\ run'.new = NoClient /\ run'.victim = NoClient
      /\ run'.next = "select" /\ run'.left = {} /\ run' \in RunStates
      /\ UNCHANGED <<clients, closed, panicked, waiting, reader>>
  BY DEF RangeEnds, RunStates, Selecting
<1>3. TypeOK'
  BY <1>2 DEF TypeOK, RangeEnds
<1>4. RunNeverPanics' /\ RegisteredOpen' /\ RunFits' /\ VictimOpen' /\ NewOpen'
  BY <1>2 DEF RunNeverPanics, RegisteredOpen, RunFits, VictimOpen, NewOpen
<1>5. UnmetOpen' /\ LeftRegistered'
  BY <1>1, <1>2 DEF UnmetOpen, LeftRegistered, Registered
<1> QED
  BY <1>3, <1>4, <1>5

\* The engines fill queues and channels, and panic on their own account.
LEMMA EngineSteps ==
  ASSUME Inv,
         Broadcast \/ \E s \in Senders : SendLoaded(s) \/ \E u \in Users : LoadClient(s, u)
  PROVE  Inv'
<1> USE DEF Inv, Broadcast, SendLoaded, LoadClient
<1>1. TypeOK'
  BY SizesAssumption DEF TypeOK, HasRoom, Put
<1>2. UNCHANGED <<clients, closed, run, waiting, reader>>
  OBVIOUS
<1>3. RunNeverPanics'
  BY NamesAssumption DEF RunNeverPanics
<1>4. RegisteredOpen' /\ RunFits' /\ VictimOpen' /\ LeftRegistered' /\ NewOpen' /\ UnmetOpen'
  BY <1>2 DEF RegisteredOpen, RunFits, VictimOpen, LeftRegistered, NewOpen, UnmetOpen,
              Registered
<1> QED
  BY <1>1, <1>3, <1>4

LEMMA StutterStep == ASSUME Inv, UNCHANGED vars PROVE Inv'
  BY DEF Inv, vars, TypeOK, RunNeverPanics, RegisteredOpen, RunFits, VictimOpen, NewOpen,
         UnmetOpen, LeftRegistered, Registered

\* The inductive invariant of the hub.

THEOREM Invariance == Spec => []Inv
<1>1. Inv /\ [Next]_vars => Inv'
  <2> SUFFICES ASSUME Inv, [Next]_vars PROVE Inv'
    OBVIOUS
  <2>1. CASE RunStep
    BY <2>1, CloseStep, StoreStep, BroadcastStep, OfferStep, RangeEndsStep DEF RunStep
  <2>2. CASE \E c \in Clients : Connect(c) \/ Break(c) \/ ReadTimesOut(c) \/ Pumps(c)
    BY <2>2, ConnectionSteps
  <2>3. CASE \E c \in Clients : TakeRegister(c) \/ TakeUnregister(c)
    BY <2>3, RegisterStep, UnregisterStep
  <2>4. CASE Broadcast \/ \E s \in Senders : SendLoaded(s) \/ \E u \in Users : LoadClient(s, u)
    BY <2>4, EngineSteps
  <2>5. CASE UNCHANGED vars
    BY <2>5, StutterStep
  <2> QED
    BY <2>1, <2>2, <2>3, <2>4, <2>5 DEF Next
<1> QED
  BY InitInv, <1>1, PTL DEF Spec

\* The state keeps its types: no channel and no queue ever holds more than its
\* capacity.
THEOREM TypeCorrect == Spec => []TypeOK
  BY Invariance, PTL DEF Inv

\* hub.go:22-54: Run never closes a closed channel and never sends on one, for
\* any number of users and connections and any sizes of the channels.
THEOREM RunSafe == Spec => []RunNeverPanics
  BY Invariance, PTL DEF Inv

\* hub.go:25-39: the clients in the map are open and filed under their users.
THEOREM MapOpen == Spec => []RegisteredOpen
  BY Invariance, PTL DEF Inv

\* hub.go:34-36: nobody leaves the map for somebody else's sake, in particular
\* not because an older connection of the same user ends late.
THEOREM NobodyEvictedByOthers == Spec => OwnReasonToLeave
<1> DEFINE Fair(u) == LET c == clients[u]
                      IN  c # NoClient /\ clients'[u] # c =>
                            \/ run'.new # NoClient /\ run'.new # c /\ Owner(run'.new) = u
                            \/ reader[c] = "leaving"
                            \/ run.pc = "range" /\ ~HasRoom(c)
<1>1. Inv /\ [Next]_vars => [\A u \in Users : Fair(u)]_vars
  <2> SUFFICES ASSUME Inv, Next, NEW u \in Users PROVE Fair(u)
    OBVIOUS
  <2> USE NamesAssumption DEF Inv
  <2>1. CASE \E c \in Clients : TakeRegister(c)
    <3>1. PICK c \in Clients : TakeRegister(c)
      BY <2>1
    <3>2. run'.new = c /\ clients' = [clients EXCEPT ![Owner(c)] = NoClient] /\ ~Registered(c)
      BY <3>1 DEF TakeRegister, Selecting, UnmetOpen
    <3> QED
      BY <3>2 DEF TypeOK, Registered
  <2>2. CASE \E c \in Clients : TakeUnregister(c)
    BY <2>2 DEF TakeUnregister, TypeOK
  <2>3. CASE \E c \in Clients : Offer(c)
    <3>1. PICK c \in Clients : Offer(c)
      BY <2>3
    <3>2. Registered(c) /\ run.pc = "range"
      BY <3>1 DEF Offer, LeftRegistered
    <3>3. \/ clients' = clients
          \/ clients' = [clients EXCEPT ![Owner(c)] = NoClient] /\ ~HasRoom(c)
      BY <3>1 DEF Offer
    <3> QED
      BY <3>2, <3>3 DEF TypeOK, Registered
  <2>4. CASE Store
    BY <2>4 DEF Store, RunFits, NewOpen, TypeOK
  <2>5. CASE UNCHANGED clients
    BY <2>5
  <2> QED
    BY <2>1, <2>2, <2>3, <2>4, <2>5
    DEF Next, RunStep, CloseVictim, TakeBroadcast, RangeEnds, Connect, Break, ReadTimesOut,
        Pumps, ReadFails, WriteMessage, WriteEnds, Broadcast, SendLoaded, LoadClient
<1> QED
  BY Invariance, <1>1, PTL DEF Spec, OwnReasonToLeave


\* hub.go:41-51: who leaves the range of a broadcast has got the message or is
\* out of the map.  Only its own turn takes a client from the range: none of the
\* other cases of Run begins while somebody is still to get the broadcast.
THEOREM NoBroadcastMissed == Spec => NoGaps
<1> DEFINE Served(c) == send'[c] = send[c] + 1 \/ clients'[Owner(c)] # c
<1>1. Inv /\ [Next]_vars => [\A c \in run.left \ run'.left : Served(c)]_vars
  <2> SUFFICES ASSUME Inv, Next, NEW c \in run.left \ run'.left PROVE Served(c)
    OBVIOUS
  <2> USE NamesAssumption DEF Inv
  <2>1. c \in Clients /\ Owner(c) \in Users /\ run.pc # "select" /\ run.pc # "store"
    BY OwnerIsUser DEF TypeOK, RunStates, RunFits
  <2>2. CASE \E d \in Clients : Offer(d)
    <3>1. PICK d \in Clients : Offer(d)
      BY <2>2
    <3>2. d \notin closed
      BY <3>1, OwnerIsUser DEF Offer, LeftRegistered, RegisteredOpen, Registered
    <3>3. run'.left = run.left \ {d}
      BY <3>1, <3>2 DEF Offer, TypeOK, RunStates
    <3>4. \/ send' = [send EXCEPT ![d] = @ + 1]
          \/ clients' = [clients EXCEPT ![Owner(d)] = NoClient]
      BY <3>1, <3>2 DEF Offer, Put
    <3>5. c = d
      BY <3>3
    <3> QED
      BY <2>1, <3>4, <3>5 DEF TypeOK
  <2>3. CASE CloseVictim
    BY <2>3 DEF CloseVictim, TypeOK, RunStates
  <2>4. CASE RangeEnds
    BY <2>4 DEF RangeEnds
  <2>5. CASE UNCHANGED run
    BY <2>5
  <2> QED
    BY <2>1, <2>2, <2>3, <2>4, <2>5
    DEF Next, RunStep, Store, TakeBroadcast, TakeRegister, TakeUnregister, Connect, Break,
        ReadTimesOut, Pumps, ReadFails, WriteMessage, WriteEnds, Broadcast, SendLoaded,
        LoadClient
<1> QED
  BY Invariance, <1>1, PTL DEF Spec, NoGaps
=============================================================================
