----------------------------- MODULE MCRunQueue -----------------------------
(* An instance of RunQueue for TLC: thread structures are interchangeable. *)
EXTENDS RunQueue, TLC

Symmetry == Permutations(Thread)
=============================================================================
