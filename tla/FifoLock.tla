------------------------------- MODULE FifoLock -------------------------------
(***************************************************************************)
(* What a fair lock promises: those who ask for it form a queue, and only  *)
(* the one at the front may hold it.                                       *)
(***************************************************************************)
EXTENDS Sequences

CONSTANT Proc

VARIABLES
  line,    \* who holds or wants the lock, in the order in which they asked
  holding  \* who is inside

vars == <<line, holding>>

Init == line = <<>> /\ holding = {}

InLine(p) == \E i \in DOMAIN line : line[i] = p

Ask(p) ==
  /\ ~InLine(p)
  /\ line' = Append(line, p)
  /\ UNCHANGED holding

\* A free lock is taken at once.
AskFree(p) ==
  /\ line = <<>>
  /\ line' = <<p>>
  /\ holding' = {p}

Enter(p) ==
  /\ line # <<>> /\ Head(line) = p /\ p \notin holding
  /\ holding' = {p}
  /\ UNCHANGED line

Leave(p) ==
  /\ p \in holding
  /\ line' = Tail(line)
  /\ holding' = {}

Next == \E p \in Proc : Ask(p) \/ AskFree(p) \/ Enter(p) \/ Leave(p)

Spec == Init /\ [][Next]_vars
=============================================================================
