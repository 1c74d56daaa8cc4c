------------------------------ MODULE MCFutex ------------------------------
(* Futexes and the scheduler with a few tasks. *)
EXTENDS Futex, TLC

Symmetry == Permutations(Tasks) \cup Permutations(Addrs)

(* Tasks differ in nothing: what holds of one of them holds of all.         *)
One == CHOOSE t \in Tasks : TRUE

(* A ready task gets the processor (scheduler_switch takes the oldest).     *)
ReadyRuns == Served(One)

(* A blocked task with a deadline comes back (clock_ticks).                 *)
TimedWaitEnds == ComesBack(One)

WakesOnly == {<<1, 0>>}
WakesAndMoves == {<<1, 0>>, <<1, Cardinality(Tasks)>>}
=============================================================================
