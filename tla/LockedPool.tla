------------------------------ MODULE LockedPool ------------------------------
(***************************************************************************)
(* A pool of numbers as the scheduler uses it: every call of lib/anidxset  *)
(* is made between a lock and an unlock of the spin lock of lib/anlock     *)
(* (ppLock for PIDs, stacksLock for stacks, descriptorsLock for sockets).  *)
(***************************************************************************)
EXTENDS AnLock, AnIdxSet

poolVars == <<vars, setVars>>

PoolInit == Init /\ SetInit

Acquire(p) == (Lock(p) \/ SpinDone(p)) /\ UNCHANGED setVars

Release(p) == Unlock(p) /\ UNCHANGED setVars

\* The body of anscheduler_pidmap_alloc_pid and anscheduler_pidmap_free_pid,
\* and their like in thread.c, socket.c and socketlist.c
Call(p) == pc[p] = "in" /\ SetNext /\ UNCHANGED vars

PoolNext == \E p \in Proc : Acquire(p) \/ Call(p) \/ Release(p)

\* A CPU that spins keeps reading, and critical sections end.
PoolFairness ==
  \A p \in Proc : /\ WF_poolVars(SpinDone(p) /\ UNCHANGED setVars)
                  /\ WF_poolVars(Release(p))

PoolSpec == PoolInit /\ [][PoolNext]_poolVars /\ PoolFairness
=============================================================================
