---------------------------- MODULE MCSettlement ----------------------------
(* Instances of Settlement for TLC.                                        *)
EXTENDS Settlement

\* Fewer interleavings: one user trades at market and closes on one thread,
\* the other places limit orders on the other.  The first two orders are for
\* two, so that they can fill in parts, and sell at market what the limit buys;
\* later ones are for one and go the other way.  Orders are cancelled on the
\* second thread, and on the first only when the second is cancelling the same
\* order.  The third call starts when the first two have ended.  The database
\* fails early or not at all, and the process ends late.  The account of the
\* second user is reset when no call is under way, before the third call or
\* after a restart behind the last one, and when the database has not failed.
Taker  == CHOOSE u \in Users : TRUE
Taking == CHOOSE t \in Threads : TRUE

Roles ==
  /\ \A t \in Threads :
       LET c == calls'[t]
       IN  /\ c.pc \in {"market", "close", "reopen"} => t = Taking /\ c.user = Taker
           /\ c.pc = "limit" => t # Taking /\ c.user # Taker
           /\ c.pc \in {"market", "limit"} /\ calls[t].pc = "idle" =>
                /\ c.side = IF (c.pc = "limit") = (started <= 1) THEN Long ELSE Short
                /\ c.qty  = IF started <= 1 THEN 2 ELSE 1
           /\ c.pc = "cancel" /\ t = Taking =>
                \E other \in Threads \ {t} : calls[other].id = c.id
  /\ started' # started /\ started >= 2 => failures = 0 /\ (started = 2 => AllIdle)
  /\ failures' # failures => started <= 1
  /\ resets' # resets => /\ AllIdle
                         /\ failures = 0
                         /\ started \in 1..2 \/ (restarts > 0 /\ started = MaxCalls)
                         /\ reset'[Taker] = "none"
  /\ started' # started /\ resets > 0 => started <= 2
  /\ stopping' # stopping \/ restarts' # restarts => started >= MaxCalls - 1

OnePrice == <<144>>

=============================================================================
