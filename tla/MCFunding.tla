------------------------------ MODULE MCFunding -----------------------------
(* An instance of Funding for TLC.                                         *)
EXTENDS Funding

BothSigns == {-1, 1}

\* Fewer interleavings: the first trade is for two and the user is long; the
\* last is for one and comes during a settlement.  The second settlement has
\* the other rate and begins between trades; only that hour may be skipped.
\* The database fails before the last trade.
Roles ==
  /\ legs = <<>> /\ legs' # <<>> =>
       /\ counts.trades = 0 => legs'[1].qty = 2 /\ legs'[1].user \in Users
       /\ counts.trades >= 2 => sched.pc # "idle" /\ legs'[1].qty = 1
  /\ sched.pc = "idle" /\ sched'.pc # "idle" =>
       /\ counts.trades > 0
       /\ IF counts.settlements = 0 THEN sched'.rate = 1 ELSE sched'.rate = -1 /\ legs = <<>>
  /\ counts'.failures # counts.failures => counts.settlements <= 1 /\ counts.trades <= 2
  /\ sched.pc = "idle" /\ counts'.settlements # counts.settlements /\ sched'.pc = "idle" =>
       counts.settlements = 1

=============================================================================
