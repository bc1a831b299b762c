-------------------------------- MODULE Hub --------------------------------
(***************************************************************************)
(* The websocket hub (ws/hub.go), the two goroutines of each connection    *)
(* (ws/client.go) and the handler that starts them (handler/ws_handler.go).*)
(*                                                                         *)
(* Run is the only goroutine that changes the map of clients and closes    *)
(* channels; SendToUser, called by the risk monitor and by the funding     *)
(* scheduler, reads the map and sends beside it.  A goroutine that closes  *)
(* a closed channel or sends on one panics, and the process ends.          *)
(***************************************************************************)
EXTENDS Integers

CONSTANTS
  Users,
  Clients,        \* bound: a user and a number for each connection
  Senders,        \* goroutines that call SendToUser
  Run,            \* the goroutine of Hub.Run
  NoClient,
  BufferSize,     \* capacity of Client.send
  QueueSize       \* capacity of Hub.broadcast

ASSUME ClientsAssumption == Clients \subseteq Users \X Nat
ASSUME NamesAssumption   == NoClient \notin Clients /\ Run \notin Senders
ASSUME SizesAssumption   ==
  /\ BufferSize \in Nat \ {0}
  /\ QueueSize \in Nat \ {0}

\* The connections of a user are numbered in the order he opens them.
Owner(c) == c[1]
Earlier(c, d) == Owner(c) = Owner(d) /\ c[2] < d[2]

VARIABLES
  clients,    \* Hub.clients: the client of each user, or NoClient
  waiting,    \* clients whose handler waits in Register
  reader,     \* where ReadPump of each client is
  writer,     \* where WritePump of each client is
  up,         \* clients whose connection works
  send,       \* number of messages in each Client.send
  closed,     \* clients whose channel has been closed
  broadcast,  \* number of messages in Hub.broadcast
  run,        \* where Run is, with the local variables of the case it is in
  loaded,     \* the client that SendToUser of each sender has loaded
  panicked    \* goroutines that have panicked

vars == <<clients, waiting, reader, writer, up, send, closed, broadcast,
          run, loaded, panicked>>

\* Run in its select.  new is the client to be stored, victim the one whose
\* channel is to be closed and next what follows that, and left who has still to
\* get the broadcast that is being sent.
Selecting == [pc |-> "select", new |-> NoClient, victim |-> NoClient,
              next |-> "select", left |-> {}]

Init ==
  /\ clients   = [u \in Users |-> NoClient]
  /\ waiting   = {}
  /\ reader    = [c \in Clients |-> "none"]
  /\ writer    = [c \in Clients |-> "none"]
  /\ up        = {}
  /\ send      = [c \in Clients |-> 0]
  /\ closed    = {}
  /\ broadcast = 0
  /\ run       = Selecting
  /\ loaded    = [s \in Senders |-> NoClient]
  /\ panicked  = {}

\* A send on the channel of c would not block.
HasRoom(c) == send[c] < BufferSize

Put(c) == send' = [send EXCEPT ![c] = @ + 1]

-----------------------------------------------------------------------------
(* A connection.                                                           *)

\* WebSocketHandler, up to Register.
Connect(c) ==
  /\ reader[c] = "none"
  /\ c \notin waiting
  /\ \A d \in Clients : Earlier(d, c) => d \in waiting \/ reader[d] # "none"
  /\ waiting' = waiting \cup {c}
  /\ up'      = up \cup {c}
  /\ UNCHANGED <<clients, reader, writer, send, closed, broadcast, run,
                 loaded, panicked>>

\* The peer goes away, or no longer takes what is written.
Break(c) ==
  /\ c \in up
  /\ up' = up \ {c}
  /\ UNCHANGED <<clients, waiting, reader, writer, send, closed, broadcast,
                 run, loaded, panicked>>

\* ReadMessage fails for a reason of its own: too long a message, no pong.
ReadTimesOut(c) ==
  /\ reader[c] = "reading"
  /\ c \in up
  /\ reader' = [reader EXCEPT ![c] = "leaving"]
  /\ UNCHANGED <<clients, waiting, writer, up, send, closed, broadcast, run,
                 loaded, panicked>>

\* ReadMessage fails because the connection is gone: on to Unregister.
ReadFails(c) ==
  /\ reader[c] = "reading"
  /\ c \notin up
  /\ reader' = [reader EXCEPT ![c] = "leaving"]
  /\ UNCHANGED <<clients, waiting, writer, up, send, closed, broadcast, run,
                 loaded, panicked>>

\* WritePump takes a message, also from a closed channel that still has some,
\* and ends when it cannot be written.
WriteMessage(c) ==
  /\ writer[c] = "writing"
  /\ send[c] > 0
  /\ send'   = [send EXCEPT ![c] = @ - 1]
  /\ writer' = IF c \in up THEN writer ELSE [writer EXCEPT ![c] = "done"]
  /\ UNCHANGED <<clients, waiting, reader, up, closed, broadcast, run,
                 loaded, panicked>>

\* WritePump finds the channel closed, or a ping cannot be written.
WriteEnds(c) ==
  /\ writer[c] = "writing"
  /\ c \notin up \/ (c \in closed /\ send[c] = 0)
  /\ writer' = [writer EXCEPT ![c] = "done"]
  /\ up'     = up \ {c}
  /\ UNCHANGED <<clients, waiting, reader, send, closed, broadcast, run,
                 loaded, panicked>>

-----------------------------------------------------------------------------
(* Run.                                                                    *)

\* Mistake: the older client is forgotten, its channel stays open.
RegisterForgettingOld(c) ==
  /\ run.pc = "select"
  /\ c \in waiting
  /\ waiting' = waiting \ {c}
  /\ reader'  = [reader EXCEPT ![c] = "reading"]
  /\ writer'  = [writer EXCEPT ![c] = "writing"]
  /\ clients' = [clients EXCEPT ![Owner(c)] = NoClient]
  /\ run'     = [Selecting EXCEPT !.pc = "store", !.new = c]
  /\ UNCHANGED <<up, send, closed, broadcast, loaded, panicked>>

\* Mistake: no look at whether there is an older client to close.
RegisterUnchecked(c) ==
  /\ run.pc = "select"
  /\ c \in waiting
  /\ waiting' = waiting \ {c}
  /\ reader'  = [reader EXCEPT ![c] = "reading"]
  /\ writer'  = [writer EXCEPT ![c] = "writing"]
  /\ clients' = [clients EXCEPT ![Owner(c)] = NoClient]
  /\ run'     = [Selecting EXCEPT !.pc = "close", !.new = c,
                                  !.victim = clients[Owner(c)], !.next = "store"]
  /\ UNCHANGED <<up, send, closed, broadcast, loaded, panicked>>

\* The case of register, which lets the handler go on to start the pumps, and
\* LoadAndDelete.
TakeRegister(c) ==
  /\ run.pc = "select"
  /\ c \in waiting
  /\ waiting' = waiting \ {c}
  /\ reader'  = [reader EXCEPT ![c] = "reading"]
  /\ writer'  = [writer EXCEPT ![c] = "writing"]
  /\ clients' = [clients EXCEPT ![Owner(c)] = NoClient]
  /\ run'     = [Selecting EXCEPT !.pc     = IF clients[Owner(c)] = NoClient
                                             THEN "store" ELSE "close",
                                  !.new    = c,
                                  !.victim = clients[Owner(c)],
                                  !.next   = "store"]
  /\ UNCHANGED <<up, send, closed, broadcast, loaded, panicked>>

\* close(victim.send), then on with the case it belongs to.
CloseVictim ==
  /\ run.pc = "close"
  /\ IF run.victim \in closed
     THEN panicked' = panicked \cup {Run} /\ UNCHANGED <<closed, run>>
     ELSE /\ closed' = closed \cup {run.victim}
          /\ run'    = [run EXCEPT !.pc = run.next, !.victim = NoClient, !.next = "select"]
          /\ UNCHANGED panicked
  /\ UNCHANGED <<clients, waiting, reader, writer, up, send, broadcast,
                 loaded>>

\* clients.Store
Store ==
  /\ run.pc = "store"
  /\ clients' = [clients EXCEPT ![Owner(run.new)] = run.new]
  /\ run'     = Selecting
  /\ UNCHANGED <<waiting, reader, writer, up, send, closed, broadcast,
                 loaded, panicked>>

\* Mistake: whoever is registered for the user goes.
UnregisterUser(c) ==
  /\ run.pc = "select"
  /\ reader[c] = "leaving"
  /\ reader' = [reader EXCEPT ![c] = "done"]
  /\ up'     = up \ {c}
  /\ clients' = [clients EXCEPT ![Owner(c)] = NoClient]
  /\ run' = IF clients[Owner(c)] = NoClient THEN run
            ELSE [Selecting EXCEPT !.pc = "close", !.victim = clients[Owner(c)]]
  /\ UNCHANGED <<waiting, writer, send, closed, broadcast, loaded, panicked>>

\* Mistake: the channel is closed whoever is registered for the user.
UnregisterTwice(c) ==
  /\ run.pc = "select"
  /\ reader[c] = "leaving"
  /\ reader' = [reader EXCEPT ![c] = "done"]
  /\ up'     = up \ {c}
  /\ clients' = IF clients[Owner(c)] = c THEN [clients EXCEPT ![Owner(c)] = NoClient]
                                         ELSE clients
  /\ run' = [Selecting EXCEPT !.pc = "close", !.victim = c]
  /\ UNCHANGED <<waiting, writer, send, closed, broadcast, loaded, panicked>>

\* The case of unregister; ReadPump closes the connection and ends.
TakeUnregister(c) ==
  /\ run.pc = "select"
  /\ reader[c] = "leaving"
  /\ reader' = [reader EXCEPT ![c] = "done"]
  /\ up'     = up \ {c}
  /\ IF clients[Owner(c)] = c
     THEN /\ clients' = [clients EXCEPT ![Owner(c)] = NoClient]
          /\ run'     = [Selecting EXCEPT !.pc = "close", !.victim = c]
     ELSE UNCHANGED <<clients, run>>
  /\ UNCHANGED <<waiting, writer, send, closed, broadcast, loaded, panicked>>

\* The case of broadcast.
TakeBroadcast ==
  /\ run.pc = "select"
  /\ broadcast > 0
  /\ broadcast' = broadcast - 1
  /\ run' = [Selecting EXCEPT !.pc = "range",
                              !.left = {clients[u] : u \in Users} \ {NoClient}]
  /\ UNCHANGED <<clients, waiting, reader, writer, up, send, closed, loaded,
                 panicked>>

\* Mistake: a client that is behind misses the message and stays.
OfferOrSkip(c) ==
  /\ run.pc = "range"
  /\ c \in run.left
  /\ IF HasRoom(c)
     THEN Put(c)
     ELSE UNCHANGED send
  /\ run' = [run EXCEPT !.left = @ \ {c}]
  /\ UNCHANGED <<clients, waiting, reader, writer, up, closed, broadcast,
                 loaded, panicked>>

\* Mistake: a client that is behind is closed but stays in the map.
OfferOrClose(c) ==
  /\ run.pc = "range"
  /\ c \in run.left
  /\ IF HasRoom(c)
     THEN /\ Put(c)
          /\ run'  = [run EXCEPT !.left = @ \ {c}]
     ELSE /\ run' = [run EXCEPT !.pc = "close", !.victim = c, !.next = "range",
                                !.left = @ \ {c}]
          /\ UNCHANGED send
  /\ UNCHANGED <<clients, waiting, reader, writer, up, closed, broadcast,
                 loaded, panicked>>

\* One client of Range: the message, or out with who is behind.
Offer(c) ==
  /\ run.pc = "range"
  /\ c \in run.left
  /\ CASE c \in closed ->
            /\ panicked' = panicked \cup {Run}
            /\ UNCHANGED <<clients, send, run>>
       [] c \notin closed /\ HasRoom(c) ->
            /\ Put(c)
            /\ run'  = [run EXCEPT !.left = @ \ {c}]
            /\ UNCHANGED <<clients, panicked>>
       [] OTHER ->
            /\ clients' = [clients EXCEPT ![Owner(c)] = NoClient]
            /\ run' = [run EXCEPT !.pc = "close", !.victim = c, !.next = "range",
                                !.left = @ \ {c}]
            /\ UNCHANGED <<send, panicked>>
  /\ UNCHANGED <<waiting, reader, writer, up, closed, broadcast, loaded>>

RangeEnds ==
  /\ run.pc = "range"
  /\ run.left = {}
  /\ run' = Selecting
  /\ UNCHANGED <<clients, waiting, reader, writer, up, send, closed,
                 broadcast, loaded, panicked>>

-----------------------------------------------------------------------------
(* The engines.                                                            *)

\* Broadcast, which waits while the queue is full.
Broadcast ==
  /\ broadcast < QueueSize
  /\ broadcast' = broadcast + 1
  /\ UNCHANGED <<clients, waiting, reader, writer, up, send, closed, run, loaded,
                 panicked>>

\* SendToUser: Load, for a user who is there.
LoadClient(s, u) ==
  /\ loaded[s] = NoClient
  /\ clients[u] # NoClient
  /\ loaded' = [loaded EXCEPT ![s] = clients[u]]
  /\ UNCHANGED <<clients, waiting, reader, writer, up, send, closed,
                 broadcast, run, panicked>>

\* SendToUser: the send, of a message that is dropped when there is no room.
SendLoaded(s) ==
  /\ loaded[s] # NoClient
  /\ LET c == loaded[s]
     IN  IF c \in closed
         THEN panicked' = panicked \cup {s} /\ UNCHANGED <<send, loaded>>
         ELSE /\ IF HasRoom(c) THEN Put(c) ELSE UNCHANGED send
              /\ loaded' = [loaded EXCEPT ![s] = NoClient]
              /\ UNCHANGED panicked
  /\ UNCHANGED <<clients, waiting, reader, writer, up, closed, broadcast,
                 run>>

-----------------------------------------------------------------------------
\* The process runs.
Alive == panicked = {}

RunStep ==
  \/ CloseVictim
  \/ Store
  \/ TakeBroadcast
  \/ \E c \in Clients : Offer(c)
  \/ RangeEnds

Pumps(c) == ReadFails(c) \/ WriteMessage(c) \/ WriteEnds(c)

Next ==
  /\ Alive
  /\ \/ RunStep
     \/ \E c \in Clients :
          \/ Connect(c)
          \/ Break(c)
          \/ ReadTimesOut(c)
          \/ Pumps(c)
          \/ TakeRegister(c)
          \/ TakeUnregister(c)
     \/ Broadcast
     \/ \E s \in Senders : SendLoaded(s) \/ \E u \in Users : LoadClient(s, u)

\* Run and the pumps are goroutines that go on while they can.  The select of
\* Run chooses at random among the cases that are ready, and those who wait to
\* send on one channel are served in turn, so nobody is passed over for ever.
Fairness ==
  /\ WF_vars(Alive /\ RunStep)
  /\ \A c \in Clients :
       /\ WF_vars(Alive /\ ReadFails(c))
       /\ WF_vars(Alive /\ (WriteMessage(c) \/ WriteEnds(c)))
       /\ SF_vars(Alive /\ TakeRegister(c))
       /\ SF_vars(Alive /\ TakeUnregister(c))

Spec == Init /\ [][Next]_vars /\ Fairness

-----------------------------------------------------------------------------
RunStates ==
  [pc : {"select", "close", "store", "range"}, new : Clients \cup {NoClient},
   victim : Clients \cup {NoClient}, next : {"select", "store", "range"}, left : SUBSET Clients]

TypeOK ==
  /\ clients \in [Users -> Clients \cup {NoClient}]
  /\ waiting \in SUBSET Clients
  /\ reader \in [Clients -> {"none", "reading", "leaving", "done"}]
  /\ writer \in [Clients -> {"none", "writing", "done"}]
  /\ up \in SUBSET Clients
  /\ send \in [Clients -> 0 .. BufferSize]
  /\ closed \in SUBSET Clients
  /\ broadcast \in 0 .. QueueSize
  /\ run \in RunStates
  /\ loaded \in [Senders -> Clients \cup {NoClient}]
  /\ panicked \in SUBSET (Senders \cup {Run})

\* hub.go:22-54: whatever connects, leaves, falls behind or is replaced, in any
\* order, Run never closes a closed channel and never sends on one.
RunNeverPanics == Run \notin panicked

\* hub.go:25-39: a client in the map belongs to the user it is registered for,
\* and its channel is open: Run takes a client out before it closes it.
RegisteredOpen ==
  \A u \in Users : clients[u] # NoClient =>
    Owner(clients[u]) = u /\ clients[u] \notin closed

\* hub.go:34-36: a client leaves the map because a newer one of the same user
\* takes its place, because its own connection has ended, or because it fell
\* behind; the late Unregister of an older connection never takes it out.
OwnReasonToLeave ==
  [][ \A u \in Users :
        LET c == clients[u]
        IN  c # NoClient /\ clients'[u] # c =>
              \/ run'.new # NoClient /\ run'.new # c /\ Owner(run'.new) = u
              \/ reader[c] = "leaving"
              \/ run.pc = "range" /\ ~HasRoom(c) ]_vars

\* hub.go:41-51: a client gets every broadcast from its registration on; one
\* that cannot take it is out, so that what it got has no gaps.
NoGaps ==
  [][ \A c \in run.left \ run'.left :
        send'[c] = send[c] + 1 \/ clients'[Owner(c)] # c ]_vars

\* client.go:34-78: a connection that broke, even while its handler waited in
\* Register, or whose channel was closed, is cleared away: both its goroutines
\* end and its channel is closed.
Begun(c)   == c \in waiting \/ reader[c] # "none"
Cleared(c) == reader[c] = "done" /\ writer[c] = "done" /\ c \in closed

NoLeak ==
  \A c \in Clients : (Begun(c) /\ c \notin up) \/ c \in closed ~> Cleared(c) \/ ~Alive

-----------------------------------------------------------------------------
\* A newer connection of the same user has taken the place of c.
Replaced(c) ==
  \E d \in Clients : Earlier(c, d) /\ d \in {clients[Owner(c)], run.new}

\* hub.go:26, "Close existing connection for same user": the newer connection
\* takes over and nobody else notices, not even a goroutine in SendToUser that
\* has loaded the older client while that was still connected.
ReconnectsHarmless ==
  \A s \in panicked \ {Run} :
    reader[loaded[s]] = "reading" => ~Replaced(loaded[s])

=============================================================================
