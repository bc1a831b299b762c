----------------------------- MODULE MCTrading -----------------------------
(* Instances of Trading for TLC.                                           *)
EXTENDS Trading

\* Users are interchangeable, and so are the threads that serve them.
Symmetry == Permutations(Users) \cup Permutations(Threads)

\* Fewer interleavings to look for a race in: one user trades at market, the
\* other places limit orders, and nobody cancels.
Trader == CHOOSE u \in Users : TRUE

Roles ==
  \A t \in Threads :
    /\ calls'[t].pc = "market" => calls'[t].user = Trader
    /\ calls'[t].pc = "limit"  => calls'[t].user # Trader
    /\ calls'[t].pc # "cancel"

RolesSpec == Init /\ [][Next /\ Roles]_vars

ThreadSymmetry == Permutations(Threads)

FeedA == <<144>>
FeedB == <<144, 216>>

=============================================================================
