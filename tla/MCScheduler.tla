----------------------------- MODULE MCScheduler -----------------------------
(* Instances of Scheduler for TLC. *)
EXTENDS SchedulerInv, TLC

\* Task and thread structures and CPUs are interchangeable.
Symmetry == Permutations(Task) \cup Permutations(Thread) \cup Permutations(Cpu)
=============================================================================
