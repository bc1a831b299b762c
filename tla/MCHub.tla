-------------------------------- MODULE MCHub -------------------------------
(* An instance of Hub for TLC.                                             *)
EXTENDS Hub

\* One user connects twice, the other once and for good.
Returning == CHOOSE u \in Users : TRUE
OneReturns == {c \in Users \X (1 .. 2) : c[2] = 1 \/ c[1] = Returning}

\* Fewer interleavings: the other user's connection is there first and lasts,
\* SendToUser is not for him, and his messages are written before Run goes on.
OneLasts ==
  \A c \in Clients : Owner(c) # Returning =>
    /\ c \in up => c \in up'
    /\ reader'[c] # "leaving"
    /\ \A s \in Senders : loaded'[s] # c
    /\ send[c] > 0 /\ run.pc = "select" => send'[c] = 0
    /\ waiting' \subseteq waiting \cup {c} \/ clients[Owner(c)] = c

=============================================================================
