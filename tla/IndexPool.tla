------------------------------ MODULE IndexPool -------------------------------
(***************************************************************************)
(* What a pool of numbers promises its users (PIDs, descriptors, stacks):  *)
(* a number is never handed out while somebody still has it.               *)
(***************************************************************************)
EXTENDS Naturals

CONSTANT Index

VARIABLE users  \* how many have each number

Init == users = [i \in Index |-> 0]

Get(i) == users[i] = 0 /\ users' = [users EXCEPT ![i] = 1]

Put(i) == users[i] = 1 /\ users' = [users EXCEPT ![i] = 0]

Next == \E i \in Index : Get(i) \/ Put(i)

Spec == Init /\ [][Next]_users
=============================================================================
