-------------------------------- MODULE PidMap --------------------------------
(***************************************************************************)
(* The PID hash map of pidmap.c: buckets of doubly linked tasks under      *)
(* pmLock, and the PIDs themselves, drawn from a pool under ppLock.  The   *)
(* pool is what AnIdxSet implements, an IndexPool.  Tasks are created,     *)
(* launched, looked up, killed and freed in the order task.c does it; each *)
(* call of pidmap.c is one step.  Task structures are used again.          *)
(***************************************************************************)
EXTENDS Naturals, FiniteSets, FiniteSetsExt

CONSTANTS
  Task,           \* task structures
  NULL,           \* the null pointer
  MaxPid,         \* bound on the PIDs
  Buckets,        \* the size of pidHashmap, 256 in the code
  MaxRefs,        \* bound on the references to one task
  MaxLost         \* bound on the PIDs lost by a failing anidxset_put

ASSUME PidMapAssumption ==
  /\ IsFiniteSet(Task) /\ NULL \notin Task
  /\ MaxPid \in Nat /\ Buckets \in Nat \ {0}
  /\ MaxRefs \in Nat \ {0}

VARIABLES
  phase,       \* how far each task structure has come
  pid,         \* task->pid
  refCount,    \* task->refCount
  isKilled,    \* task->isKilled
  pidHashmap,  \* the first task of each bucket
  next, last,  \* task->next and task->last
  users        \* which PIDs are not in pidPool, as in IndexPool

taskVars == <<phase, pid, refCount, isKilled>>
mapVars == <<pidHashmap, next, last>>
vars == <<taskVars, mapVars, users>>

Pid == 0 .. MaxPid
Pool == INSTANCE IndexPool WITH Index <- Pid

\* "dying": its kill job has been made; "unset": the job has taken it out of
\* the map and goes on to free its threads, its PID and the structure.
Phase == {"free", "created", "launched", "dying", "unset"}

_hash_pid(p) == p % Buckets

Init ==
  /\ phase = [t \in Task |-> "free"]
  /\ pid = [t \in Task |-> 0]
  /\ refCount = [t \in Task |-> 0]
  /\ isKilled = [t \in Task |-> FALSE]
  /\ pidHashmap = [h \in 0 .. Buckets - 1 |-> NULL]
  /\ next = [t \in Task |-> NULL]
  /\ last = [t \in Task |-> NULL]
  /\ users = [p \in Pid |-> 0]

-----------------------------------------------------------------------------
(* The PIDs.                                                               *)

\* anscheduler_pidmap_alloc_pid
PidmapAllocPid(t) == \E p \in Pid : Pool!Get(p) /\ pid' = [pid EXCEPT ![t] = p]

\* PIDs that nobody has and nobody will get
Lost == {p \in Pid : users[p] = 1} \ {pid[t] : t \in {u \in Task : phase[u] # "free"}}

\* anscheduler_pidmap_free_pid, which does not look at whether anidxset_put
\* took the PID back
PidmapFreePid(p) ==
  \/ Pool!Put(p)
  \/ Cardinality(Lost) < MaxLost /\ UNCHANGED users

-----------------------------------------------------------------------------
(* The map.                                                                *)

\* Seeded fault: the old head does not learn of its new predecessor.
PidmapSetOneWay(t) ==
  LET h == _hash_pid(pid[t]) IN
    /\ pidHashmap' = [pidHashmap EXCEPT ![h] = t]
    /\ next' = [next EXCEPT ![t] = pidHashmap[h]]
    /\ last' = [last EXCEPT ![t] = NULL]

\* anscheduler_pidmap_set
PidmapSet(t) ==
  LET h == _hash_pid(pid[t]) IN
    /\ pidHashmap' = [pidHashmap EXCEPT ![h] = t]
    /\ next' = [next EXCEPT ![t] = pidHashmap[h]]
    /\ last' = [u \in Task |-> IF u = t THEN NULL
                               ELSE IF u = pidHashmap[h] THEN t ELSE last[u]]

\* anscheduler_pidmap_unset: a task without predecessor is taken for the
\* first of its bucket.
PidmapUnset(t) ==
  /\ pidHashmap' = IF last[t] = NULL
                     THEN [pidHashmap EXCEPT ![_hash_pid(pid[t])] = next[t]]
                     ELSE pidHashmap
  /\ next' = [u \in Task |-> IF u = t THEN NULL
                             ELSE IF u = last[t] THEN next[t] ELSE next[u]]
  /\ last' = [u \in Task |-> IF u = t THEN NULL
                             ELSE IF u = next[t] THEN last[t] ELSE last[u]]

\* The n-th task that the walk of a bucket visits; as many steps as there
\* are tasks take the walk to the end of any list without a cycle.
Visited(h) ==
  LET at[n \in 0 .. Cardinality(Task)] ==
        IF n = 0 THEN pidHashmap[h]
        ELSE IF at[n - 1] = NULL THEN NULL ELSE next[at[n - 1]]
  IN at

\* The task at which the loop of anscheduler_pidmap_get stops
Found(p) ==
  LET at == Visited(_hash_pid(p))
      hits == {n \in DOMAIN at : at[n] # NULL /\ pid[at[n]] = p}
  IN IF hits = {} THEN NULL ELSE at[Min(hits)]

-----------------------------------------------------------------------------
(* The operations of task.c that use it.                                   *)

\* anscheduler_task_create, which zeroes the structure and draws a PID
Create(t) ==
  /\ phase[t] = "free"
  /\ PidmapAllocPid(t)
  /\ phase' = [phase EXCEPT ![t] = "created"]
  /\ refCount' = [refCount EXCEPT ![t] = 1]
  /\ isKilled' = [isKilled EXCEPT ![t] = FALSE]
  /\ next' = [next EXCEPT ![t] = NULL]
  /\ last' = [last EXCEPT ![t] = NULL]
  /\ UNCHANGED pidHashmap

\* anscheduler_task_launch, by the creator, who still has its reference
Launch(t) ==
  /\ phase[t] = "created"
  /\ PidmapSet(t)
  /\ phase' = [phase EXCEPT ![t] = "launched"]
  /\ UNCHANGED <<pid, refCount, isKilled, users>>

\* anscheduler_task_for_pid, when it returns a task
ForPid(p) ==
  LET t == Found(p) IN
    /\ t # NULL /\ ~isKilled[t]
    /\ refCount[t] < MaxRefs
    /\ refCount' = [refCount EXCEPT ![t] = @ + 1]
    /\ UNCHANGED <<phase, pid, isKilled, mapVars, users>>

\* anscheduler_task_kill, by somebody with a reference.  A task that was never
\* launched is not killed: anscheduler_pidmap_unset would take it for the head
\* of its bucket.
Kill(t) ==
  /\ refCount[t] > 0 /\ ~isKilled[t]
  /\ phase[t] = "launched"
  /\ isKilled' = [isKilled EXCEPT ![t] = TRUE]
  /\ UNCHANGED <<phase, pid, refCount, mapVars, users>>

\* anscheduler_task_dereference; the creator launches the task first.
Dereference(t) ==
  /\ refCount[t] > 0 /\ phase[t] = "launched"
  /\ refCount' = [refCount EXCEPT ![t] = @ - 1]
  /\ phase' = IF refCount[t] = 1 /\ isKilled[t]
                THEN [phase EXCEPT ![t] = "dying"] ELSE phase
  /\ UNCHANGED <<pid, isKilled, mapVars, users>>

\* The start of _free_task_method
FreeTaskUnset(t) ==
  /\ phase[t] = "dying"
  /\ PidmapUnset(t)
  /\ phase' = [phase EXCEPT ![t] = "unset"]
  /\ UNCHANGED <<pid, refCount, isKilled, users>>

\* Seeded fault: the task is freed while it is still in the map.
FreeTaskPidEarly(t) ==
  /\ phase[t] \in {"dying", "unset"}
  /\ PidmapFreePid(pid[t])
  /\ phase' = [phase EXCEPT ![t] = "free"]
  /\ UNCHANGED <<pid, refCount, isKilled, mapVars>>

\* Its end: the PID and the structure are freed.
FreeTaskPid(t) ==
  /\ phase[t] = "unset"
  /\ PidmapFreePid(pid[t])
  /\ phase' = [phase EXCEPT ![t] = "free"]
  /\ UNCHANGED <<pid, refCount, isKilled, mapVars>>

Next ==
  \/ \E t \in Task :
       \/ Create(t) \/ Launch(t) \/ Kill(t) \/ Dereference(t)
       \/ FreeTaskUnset(t) \/ FreeTaskPid(t)
  \/ \E p \in Pid : ForPid(p)

Spec == Init /\ [][Next]_vars

-----------------------------------------------------------------------------
\* The tasks that the map should have: launched, and not yet taken out
Mapped == {t \in Task : phase[t] \in {"launched", "dying"}}

\* Types; and a task outside the map has no links, so that taking one out
\* leaves nothing behind that points into the map.
TypeOK ==
  /\ phase \in [Task -> Phase]
  /\ pid \in [Task -> Pid]
  /\ refCount \in [Task -> 0 .. MaxRefs]
  /\ isKilled \in [Task -> BOOLEAN]
  /\ pidHashmap \in [0 .. Buckets - 1 -> Task \cup {NULL}]
  /\ next \in [Task -> Task \cup {NULL}]
  /\ last \in [Task -> Task \cup {NULL}]
  /\ users \in [Pid -> 0 .. 1]
  /\ \A t \in Task \ Mapped : next[t] = NULL /\ last[t] = NULL

\* Every bucket is a doubly linked list: heads have no predecessor, the two
\* links are inverse to each other, and a walk from the head comes to an end,
\* whatever order of launches and frees led there.
WellFormed ==
  /\ TypeOK
  /\ \A h \in DOMAIN pidHashmap :
       /\ pidHashmap[h] # NULL => last[pidHashmap[h]] = NULL
       /\ Visited(h)[Cardinality(Task)] = NULL
  /\ \A t, u \in Task : next[t] = u <=> last[u] = t

\* anscheduler_task_for_pid finds a task exactly if it has been launched and
\* not yet taken out of the map: whatever is created, launched and freed
\* around it, no task hides another and no freed task is found.
LookupExact ==
  \A p \in Pid : {Found(p)} \ {NULL} = {t \in Mapped : pid[t] = p}
=============================================================================
