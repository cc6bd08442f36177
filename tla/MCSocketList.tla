----------------------------- MODULE MCSocketList -----------------------------
(* Instances of SocketList for TLC. *)
EXTENDS SocketList, TLC

\* Descriptor structures are interchangeable.
Symmetry == Permutations(Desc)
=============================================================================
