----------------------------- MODULE MCScheduler -----------------------------
(* Small instances of Scheduler for TLC. *)
EXTENDS Scheduler, TLC

\* Thread structures are interchangeable: the code picks whatever the heap
\* returns.
ThreadSymmetry == Permutations(Threads)
=============================================================================
