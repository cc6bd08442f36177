------------------------------- MODULE RunLoop -------------------------------
(***************************************************************************)
(* What the run loop promises: a queue of threads, taken from the front in *)
(* the order in which they were pushed; a thread at the front may be sent  *)
(* to the back instead, and any thread may be deleted.                     *)
(***************************************************************************)
EXTENDS Sequences, SequencesExt

CONSTANT Thread

VARIABLE line

Init == line = <<>>

Push(x) ==
  /\ \A i \in DOMAIN line : line[i] # x
  /\ line' = Append(line, x)

Take == line # <<>> /\ line' = Tail(line)

Postpone == line # <<>> /\ line' = Append(Tail(line), Head(line))

Delete(x) == \E i \in DOMAIN line : line[i] = x /\ line' = RemoveAt(line, i)

Next == (\E x \in Thread : Push(x) \/ Delete(x)) \/ Take \/ Postpone

Spec == Init /\ [][Next]_line
=============================================================================
