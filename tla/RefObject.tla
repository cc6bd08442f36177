------------------------------ MODULE RefObject ------------------------------
(***************************************************************************)
(* What a reference counted object that can be killed promises its users:  *)
(* a reference can be taken only while the object has not been killed, and *)
(* its memory is reclaimed only after it has been killed and every         *)
(* reference that was ever taken has been given back.  The number of       *)
(* references is that of the users, not a counter kept in the object.      *)
(***************************************************************************)
EXTENDS Naturals

CONSTANT Obj

VARIABLES
  state,  \* "free", "live" or "killed"
  refs    \* how many references users hold

vars == <<state, refs>>

Init ==
  /\ state = [o \in Obj |-> "free"]
  /\ refs = [o \in Obj |-> 0]

\* The creator gets the first reference.
Create(o) ==
  /\ state[o] = "free"
  /\ state' = [state EXCEPT ![o] = "live"]
  /\ refs' = [refs EXCEPT ![o] = 1]

Acquire(o) ==
  /\ state[o] = "live"
  /\ refs' = [refs EXCEPT ![o] = @ + 1]
  /\ UNCHANGED state

Release(o) ==
  /\ refs[o] > 0
  /\ refs' = [refs EXCEPT ![o] = @ - 1]
  /\ UNCHANGED state

\* Only a user that holds a reference may kill the object.
Kill(o) ==
  /\ state[o] = "live" /\ refs[o] > 0
  /\ state' = [state EXCEPT ![o] = "killed"]
  /\ UNCHANGED refs

Reclaim(o) ==
  /\ state[o] = "killed" /\ refs[o] = 0
  /\ state' = [state EXCEPT ![o] = "free"]
  /\ UNCHANGED refs

Next ==
  \E o \in Obj : Create(o) \/ Acquire(o) \/ Release(o) \/ Kill(o) \/ Reclaim(o)

Spec == Init /\ [][Next]_vars
=============================================================================
