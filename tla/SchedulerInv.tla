---------------------------- MODULE SchedulerInv -----------------------------
(***************************************************************************)
(* An inductive invariant of Scheduler, for a system in which nobody adds  *)
(* a thread to a task while it is being launched, and the interrupt daemon *)
(* is not replaced while an interrupt is on its way to it.  It says what   *)
(* the code never writes down: which of a CPU's variables carry a          *)
(* reference at each point of the code, and that nothing is ever in two    *)
(* places.                                                                 *)
(***************************************************************************)
EXTENDS Scheduler

\* Where a push, a dereference or a kill job can return to, and what the
\* CPU's current thread and the locals that survive the call are there.
Returns == {"user", "job", "boot", "idle", "loop", "created", "switch"}

Ready(c, p) ==
  /\ p \in Returns
  /\ p = "user" => cpuThread[c] \in Thread
  /\ p = "job" => cpuThread[c] \in Task
  /\ p \in {"boot", "idle", "loop", "switch"} => cpuThread[c] = NULL
  /\ p = "created" => cpuThread[c] \notin Task
  /\ hold[c] # NULL <=> p \in {"created", "switch"}
  /\ nx[c] # NULL <=> p = "switch"

Calling == {"check", "push", "deref", "reap"}

\* Which locals are in use at each program point
Locals(c) ==
  /\ cpuTask[c] # NULL <=> cpuThread[c] \in Thread
  /\ pc[c] \in Returns => Ready(c, pc[c])
  /\ pc[c] \in Calling => Ready(c, next[c])
  /\ pc[c] \in {"polled", "held"} => cpuThread[c] \in Thread
  /\ pc[c] \in {"launch", "launched", "pushall"} => cpuThread[c] \notin Task
  /\ pc[c] \in {"launch", "launched", "pushall", "held", "irq"} => hold[c] # NULL
  /\ pc[c] = "polled" => hold[c] = NULL
  /\ pc[c] \in {"polled", "launch", "launched", "pushall", "held", "irq"} => nx[c] = NULL
  /\ pc[c] \in {"launched", "pushall"} => drop[c] = hold[c]
  /\ pc[c] = "deref" => drop[c] # NULL
  /\ pc[c] \notin {"launched", "pushall", "deref", "check", "push"} => drop[c] = NULL
  /\ th[c] # NULL <=> pc[c] \in {"check", "push", "reap"}
  /\ pc[c] = "reap" => th[c] \in Task
  /\ pc[c] # "reap" => todo[c] = {}
  /\ pc[c] = "irq" => intd # NULL

\* CPU c has x in hand: it runs it, pushes it or is about to switch to it.
Owns(c, x) ==
  \/ th[c] = x
  \/ nx[c] = x
  \/ cpuThread[c] = x /\ pc[c] # "polled"
  \/ pc[c] = "irq" /\ intd = x

\* A CPU holds a reference to the task of every thread it has in hand.
Referenced(c) ==
  /\ cpuThread[c] \in Thread /\ pc[c] # "polled" => thTask[cpuThread[c]] = cpuTask[c]
  /\ th[c] \in Thread => /\ thTask[th[c]] # NULL
                         /\ thTask[th[c]] \in {drop[c], cpuTask[c]}
  /\ nx[c] # NULL => thTask[nx[c]] = hold[c]
  /\ pc[c] = "irq" => thTask[intd] = hold[c]

\* What is reachable is allocated.
Allocated ==
  /\ pidmap \subseteq tasks
  /\ \A x \in Thread : thTask[x] \in tasks \cup {NULL}
  /\ \A i \in DOMAIN queue : queue[i] \in Thread => thTask[queue[i]] # NULL
  /\ intd # NULL => thTask[intd] # NULL /\ intd \notin exiting
  /\ \A x \in polling : thTask[x] # NULL
  /\ \A c \in Cpu : {cpuTask[c], hold[c], drop[c]} \subseteq tasks \cup {NULL}

\* Nothing is in two places: the queue has no duplicates, and shares no entry
\* with the polling threads or with what CPUs have in hand.
QueueOnce == \A i, j \in DOMAIN queue : queue[i] = queue[j] => i = j
QueueFree == \A i \in DOMAIN queue : /\ queue[i] \notin polling
                                     /\ \A c \in Cpu : ~Owns(c, queue[i])
PollFree == \A x \in polling, c \in Cpu : ~Owns(c, x)
OneOwner == \A c, d \in Cpu, x \in Schedulable : Owns(c, x) /\ Owns(d, x) => c = d
OneRole == \A c \in Cpu : /\ th[c] # NULL => th[c] \notin {nx[c], cpuThread[c]}
                          /\ pc[c] = "irq" => intd # cpuThread[c]
Unique == QueueOnce /\ QueueFree /\ PollFree /\ OneOwner /\ OneRole

\* A task with a kill job is dead, its kill job is where its stage says, and
\* its threads leave the queue before the kill job enters it.
JobDead ==
  \A t \in Task :
    /\ job[t] # "none" => t \in tasks /\ isKilled[t] /\ refCount[t] = 0
    /\ job[t] = "free" => t \notin pidmap
JobQueued == \A i \in DOMAIN queue : queue[i] \in Task => job[queue[i]] \in {"pid", "free"}
JobInHand ==
  \A c \in Cpu :
    /\ cpuThread[c] \in Task => job[cpuThread[c]] \in {"pid", "free"}
    /\ th[c] \in Task => job[th[c]] \in (IF pc[c] = "reap" THEN {"reap"} ELSE {"pid", "free"})
    /\ \A x \in todo[c] : thTask[x] = th[c]
JobLast ==
  \A i \in DOMAIN queue :
    queue[i] \in Thread /\ job[thTask[queue[i]]] # "none" =>
      \E c \in Cpu : th[c] = thTask[queue[i]] /\ queue[i] \in todo[c]
Jobs == JobDead /\ JobQueued /\ JobInHand /\ JobLast

\* A CPU that has created a task and not yet given it a thread of its own
Creating(c) ==
  \/ pc[c] \in {"launch", "launched", "pushall", "created"}
  \/ pc[c] \in Calling /\ next[c] = "created"

\* A CPU whose anscheduler_task_launch has not walked the threads yet
Walking(c) == pc[c] \in {"launch", "launched", "pushall"}

\* Until it is launched only its creator knows a task, and until the walk of
\* anscheduler_task_launch is over it has no thread.
LaunchPrivate ==
  \A c \in Cpu : pc[c] = "launch" =>
    /\ hold[c] \notin pidmap /\ ~isKilled[hold[c]]
    /\ \A d \in Cpu \ {c} : hold[c] \notin {cpuTask[d], hold[d], drop[d]}
NoThreadYet == \A c \in Cpu : Walking(c) => \A x \in Thread : thTask[x] # hold[c]
OneCreator == \A c, d \in Cpu : Creating(c) /\ Creating(d) /\ hold[c] = hold[d] => c = d
Launching == LaunchPrivate /\ NoThreadYet /\ OneCreator

\* What every step of every CPU preserves: the locals of a CPU fit its place
\* in the code, what it has in hand is referenced, counted and allocated,
\* nothing is in two places, and kill jobs and launches are where they can
\* do no harm.  TypeOK, RefCountExact and NoUseAfterFree follow from it.
IInv ==
  /\ TypeOK
  /\ \A c \in Cpu : Locals(c)
  /\ \A c \in Cpu : Referenced(c)
  /\ Allocated
  /\ RefCountExact
  /\ Unique
  /\ Jobs
  /\ Launching

=============================================================================
