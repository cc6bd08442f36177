------------------------------ MODULE Scheduler ------------------------------
(***************************************************************************)
(* The heart of anscheduler: tasks and their reference counts (task.c),    *)
(* the run loop (loop.c), threads that are added, poll and exit            *)
(* (thread.c), and the interrupt daemon (interrupts.c), executed by        *)
(* several CPUs at once.                                                   *)
(*                                                                         *)
(* One step of a CPU is one critical region of the code: the section       *)
(* between anscheduler_lock and anscheduler_unlock, or an atomic builtin,  *)
(* together with the CPU-local assignments next to it.  Everything between *)
(* two such sections interleaves with the other CPUs.                      *)
(*                                                                         *)
(* A task_t is an element of Task, a user thread_t an element of Thread;   *)
(* the kernel thread that runs _free_task_method(t) is denoted by t        *)
(* itself.  A pointer to a structure that is not allocated is a use after  *)
(* free; structures may be allocated again after they have been freed.     *)
(* Sockets, page faults and memory layout are left to other modules.       *)
(***************************************************************************)
EXTENDS Naturals, Sequences, FiniteSets, SequencesExt

CONSTANTS
  Task,            \* task structures
  Thread,          \* user thread structures
  Cpu,             \* processors
  Irq,             \* interrupt lines
  NULL,            \* the null pointer
  EarlyThreads,    \* may a thread be added to a task that is being launched?
  ReplaceIntd      \* may anscheduler_intd_set come between anscheduler_irq's
                   \* claim of the daemon and its switch to it?

ASSUME ConstantsAssumption ==
  /\ Task \cap Thread = {}
  /\ NULL \notin Task \cup Thread
  /\ IsFiniteSet(Cpu)
  /\ EarlyThreads \in BOOLEAN
  /\ ReplaceIntd \in BOOLEAN

VARIABLES
  tasks,      \* the allocated task structures
  refCount,   \* task->refCount
  isKilled,   \* task->isKilled
  pidmap,     \* tasks in the PID hash map
  job,        \* progress of the task's kill job
  thTask,     \* thread->task; NULL for a structure that is not allocated
  exiting,    \* threads past the start of anscheduler_thread_exit
  polling,    \* threads with isPolling set
  queue,      \* the run loop, firstThread .. lastThread
  intd,       \* interruptThread
  irqMask,    \* irqMask, as the set of its bits
  cpuTask,    \* anscheduler_cpu_get_task of each CPU
  cpuThread,  \* anscheduler_cpu_get_thread of each CPU
  pc,         \* where each CPU is
  next,       \* where it continues after a push or a dereference
  th,         \* local: the thread in hand (pushed, or kill job being made)
  hold,       \* local: a task reference in hand
  drop,       \* local: the task reference about to be dropped
  todo,       \* local: threads of a list still to be visited
  nx          \* local: the thread to switch to

taskVars == <<tasks, refCount, isKilled, pidmap, job>>
threadVars == <<thTask, exiting, polling>>
intdVars == <<intd, irqMask>>
curVars == <<cpuTask, cpuThread>>
localVars == <<next, th, hold, drop, todo, nx>>
vars == <<taskVars, threadVars, queue, intdVars, curVars, pc, localVars>>

Schedulable == Thread \cup Task

(***************************************************************************)
(* Program points.  At "boot", "user", "job" and "idle" the CPU is outside *)
(* the scheduler, at the others inside it with interrupts off.             *)
(***************************************************************************)
Interruptible == {"user", "job", "idle"}
Points == Interruptible \cup
  {"boot", "launch", "launched", "pushall", "created", "held", "check", "push",
   "deref", "reap", "loop", "polled", "irq", "switch"}

\* "none": no kill job; "reap": in _generate_kill_job; then what the kernel
\* thread does next: leave the PID map, free the threads and the task.
JobStage == {"none", "reap", "pid", "free"}

\* task->firstThread and its successors
threads(t) == {x \in Thread : thTask[x] = t}

Init ==
  /\ tasks = {} /\ pidmap = {}
  /\ refCount = [t \in Task |-> 0]
  /\ isKilled = [t \in Task |-> FALSE]
  /\ job = [t \in Task |-> "none"]
  /\ thTask = [x \in Thread |-> NULL]
  /\ exiting = {} /\ polling = {}
  /\ queue = <<>>
  /\ intd = NULL /\ irqMask = {}
  /\ cpuTask = [c \in Cpu |-> NULL]
  /\ cpuThread = [c \in Cpu |-> NULL]
  /\ pc = [c \in Cpu |-> "boot"]
  /\ next = [c \in Cpu |-> "loop"]
  /\ th = [c \in Cpu |-> NULL]
  /\ hold = [c \in Cpu |-> NULL]
  /\ drop = [c \in Cpu |-> NULL]
  /\ todo = [c \in Cpu |-> {}]
  /\ nx = [c \in Cpu |-> NULL]

-----------------------------------------------------------------------------
(* Pieces that several operations share.                                   *)

Goto(c, p) == pc' = [pc EXCEPT ![c] = p]

\* anscheduler_cpu_set_task and anscheduler_cpu_set_thread
SetCurrent(c, t, x) ==
  /\ cpuTask' = [cpuTask EXCEPT ![c] = t]
  /\ cpuThread' = [cpuThread EXCEPT ![c] = x]

\* The CPU forgets its current thread and calls anscheduler_loop_push(x)
\* for it; the thread's task reference is dropped afterwards.
PushCurrent(c, cont) ==
  /\ SetCurrent(c, NULL, NULL)
  /\ th' = [th EXCEPT ![c] = cpuThread[c]]
  /\ drop' = [drop EXCEPT ![c] = cpuTask[c]]
  /\ next' = [next EXCEPT ![c] = cont]
  /\ Goto(c, "check")

\* Seeded fault: the reference that running it held is kept.
LeaveCurrentLeaky(c) ==
  /\ SetCurrent(c, NULL, NULL)
  /\ Goto(c, "loop")
  /\ UNCHANGED <<drop, next>>

\* The CPU forgets its current thread without pushing it and drops the
\* reference that running it held.
LeaveCurrent(c) ==
  /\ SetCurrent(c, NULL, NULL)
  /\ drop' = [drop EXCEPT ![c] = cpuTask[c]]
  /\ next' = [next EXCEPT ![c] = "loop"]
  /\ Goto(c, "deref")

\* Seeded faults: the task may have been killed; the reference is not counted.
ReferenceKilled(t) == refCount' = [refCount EXCEPT ![t] = @ + 1]
ReferenceUncounted(t) == ~isKilled[t] /\ refCount' = refCount

\* anscheduler_task_reference, when it succeeds
Reference(t) == ~isKilled[t] /\ refCount' = [refCount EXCEPT ![t] = @ + 1]

\* The reference in hand becomes the one to drop.
Release(c, cont) ==
  /\ drop' = [drop EXCEPT ![c] = hold[c]]
  /\ hold' = [hold EXCEPT ![c] = NULL]
  /\ next' = [next EXCEPT ![c] = cont]

\* Where a CPU goes back to when a system call of its thread returns.
Caller(c) == IF cpuThread[c] = NULL THEN "boot" ELSE "user"

\* task->threadsLock is held by an anscheduler_task_launch that is walking
\* the thread list.
ThreadsLocked(t) ==
  \E c \in Cpu : /\ drop[c] = t
                 /\ \/ pc[c] = "pushall"
                    \/ pc[c] \in {"check", "push"} /\ next[c] = "pushall"

\* A thread outside anscheduler_thread_exit runs and makes a system call.
Calls(c) == pc[c] = "user" /\ cpuThread[c] \notin exiting

-----------------------------------------------------------------------------
(* anscheduler_loop_push, anscheduler_task_dereference, the kill job.       *)

\* The call returns to where its caller goes on.
Continue(c) ==
  /\ Goto(c, next[c])
  /\ next' = [next EXCEPT ![c] = "loop"]

\* After a push the reference of the thread that was pushed is dropped; the
\* walk of anscheduler_task_launch keeps its reference.
AfterPush(c) ==
  /\ th' = [th EXCEPT ![c] = NULL]
  /\ IF next[c] = "pushall" \/ drop[c] = NULL
       THEN Continue(c)
       ELSE Goto(c, "deref") /\ next' = next

\* The isKilled test under killLock; a kernel thread has no task to test.
LoopPushCheck(c) ==
  /\ pc[c] = "check"
  /\ IF th[c] \in Thread /\ isKilled[thTask[th[c]]]
       THEN AfterPush(c)
       ELSE Goto(c, "push") /\ UNCHANGED <<th, next>>
  /\ UNCHANGED <<taskVars, threadVars, queue, intdVars, curVars, hold, drop,
                 todo, nx>>

\* Seeded fault: insertion at the wrong end of the list.
LoopPushFront(c) ==
  /\ pc[c] = "push"
  /\ queue' = <<th[c]>> \o queue
  /\ AfterPush(c)
  /\ UNCHANGED <<taskVars, threadVars, intdVars, curVars, hold, drop, todo, nx>>

\* The insertion under loopLock.
LoopPush(c) ==
  /\ pc[c] = "push"
  /\ queue' = Append(queue, th[c])
  /\ AfterPush(c)
  /\ UNCHANGED <<taskVars, threadVars, intdVars, curVars, hold, drop, todo, nx>>

TaskDereference(c) ==
  /\ pc[c] = "deref"
  /\ LET t == drop[c] IN
       /\ refCount' = [refCount EXCEPT ![t] = @ - 1]
       /\ drop' = [drop EXCEPT ![c] = NULL]
       /\ IF refCount[t] = 1 /\ isKilled[t]
            THEN /\ job' = [job EXCEPT ![t] = "reap"]
                 /\ th' = [th EXCEPT ![c] = t]
                 /\ todo' = [todo EXCEPT ![c] = threads(t)]
                 /\ Goto(c, "reap")
                 /\ next' = next
            ELSE Continue(c) /\ UNCHANGED <<job, th, todo>>
  /\ UNCHANGED <<tasks, isKilled, pidmap, threadVars, queue, intdVars, curVars,
                 hold, nx>>

\* Seeded fault: the threads are visited but stay in the run loop.
LoopDeleteForgotten(c) ==
  /\ pc[c] = "reap"
  /\ \E x \in todo[c] : todo' = [todo EXCEPT ![c] = @ \ {x}]
  /\ UNCHANGED <<taskVars, threadVars, queue, intdVars, curVars, pc, next, th,
                 hold, drop, nx>>

\* anscheduler_loop_delete of one thread of the dead task
LoopDelete(c) ==
  /\ pc[c] = "reap"
  /\ \E x \in todo[c] :
       /\ todo' = [todo EXCEPT ![c] = @ \ {x}]
       /\ \/ \E i \in DOMAIN queue : queue[i] = x /\ queue' = RemoveAt(queue, i)
          \/ (\A i \in DOMAIN queue : queue[i] # x) /\ queue' = queue
  /\ UNCHANGED <<taskVars, threadVars, intdVars, curVars, pc, next, th, hold,
                 drop, nx>>

\* anscheduler_loop_push_kernel for _free_task_method
PushKillJob(c) ==
  /\ pc[c] = "reap" /\ todo[c] = {}
  /\ job' = [job EXCEPT ![th[c]] = "pid"]
  /\ Goto(c, "push")
  /\ UNCHANGED <<tasks, refCount, isKilled, pidmap, threadVars, queue, intdVars,
                 curVars, localVars>>

-----------------------------------------------------------------------------
(* The run loop.                                                           *)

\* Does anscheduler_task_reference succeed for this entry of the queue?
Startable(x) == x \in Thread => ~isKilled[thTask[x]]

\* _next_thread finds the first startable entry and drops the ones before it.
RunNext(c) ==
  /\ pc[c] = "loop"
  /\ \E i \in DOMAIN queue :
       /\ Startable(queue[i])
       /\ \A j \in 1 .. i - 1 : ~Startable(queue[j])
       /\ queue' = SubSeq(queue, i + 1, Len(queue))
       /\ IF queue[i] \in Task
            THEN /\ SetCurrent(c, NULL, queue[i])
                 /\ Goto(c, "job")
                 /\ refCount' = refCount
            ELSE /\ SetCurrent(c, thTask[queue[i]], queue[i])
                 /\ Goto(c, "user")
                 /\ Reference(thTask[queue[i]])
  /\ UNCHANGED <<tasks, isKilled, pidmap, job, threadVars, intdVars, localVars>>

\* Nothing to run: the CPU halts.
RunIdle(c) ==
  /\ pc[c] = "loop"
  /\ \A i \in DOMAIN queue : ~Startable(queue[i])
  /\ queue' = <<>>
  /\ Goto(c, "idle")
  /\ UNCHANGED <<taskVars, threadVars, intdVars, curVars, localVars>>

\* Timer interrupt, or anscheduler_loop_resign / _save_and_resign.
Resign(c) ==
  /\ pc[c] \in {"user", "job"}
  /\ PushCurrent(c, "loop")
  /\ UNCHANGED <<taskVars, threadVars, queue, intdVars, hold, todo, nx>>

\* Timer interrupt of a halted CPU, or a booting CPU that enters the loop.
EnterLoop(c) ==
  /\ pc[c] \in {"idle", "boot"}
  /\ Goto(c, "loop")
  /\ UNCHANGED <<taskVars, threadVars, queue, intdVars, curVars, localVars>>

\* The end of _switch_to_thread
SwitchToThread(c) ==
  /\ pc[c] = "switch"
  /\ SetCurrent(c, thTask[nx[c]], nx[c])
  /\ hold' = [hold EXCEPT ![c] = NULL]
  /\ nx' = [nx EXCEPT ![c] = NULL]
  /\ Goto(c, "user")
  /\ UNCHANGED <<taskVars, threadVars, queue, intdVars, next, th, drop, todo>>

-----------------------------------------------------------------------------
(* Creating and launching a task.                                          *)

TaskCreate(c) ==
  /\ pc[c] = "boot" \/ Calls(c)
  /\ \E t \in Task \ tasks :
       /\ tasks' = tasks \cup {t}
       /\ refCount' = [refCount EXCEPT ![t] = 1]
       /\ isKilled' = [isKilled EXCEPT ![t] = FALSE]
       /\ hold' = [hold EXCEPT ![c] = t]
  /\ Goto(c, "launch")
  /\ UNCHANGED <<pidmap, job, threadVars, queue, intdVars, curVars, next, th,
                 drop, todo, nx>>

\* anscheduler_task_launch up to anscheduler_pidmap_set
TaskLaunch(c) ==
  /\ pc[c] = "launch"
  /\ LET t == hold[c] IN
       /\ IF isKilled[t] THEN refCount' = refCount ELSE Reference(t)
       /\ drop' = [drop EXCEPT ![c] = t]
       /\ pidmap' = pidmap \cup {t}
  /\ Goto(c, "launched")
  /\ UNCHANGED <<tasks, isKilled, job, threadVars, queue, intdVars, curVars,
                 next, th, hold, todo, nx>>

\* threadsLock is taken and the walk over the threads begins.
LaunchWalk(c) ==
  /\ pc[c] = "launched" /\ ~ThreadsLocked(drop[c])
  /\ todo' = [todo EXCEPT ![c] = threads(drop[c])]
  /\ Goto(c, "pushall")
  /\ UNCHANGED <<taskVars, threadVars, queue, intdVars, curVars, next, th, hold,
                 drop, nx>>

LaunchPush(c) ==
  /\ pc[c] = "pushall"
  /\ IF todo[c] = {}
       THEN /\ next' = [next EXCEPT ![c] = "created"]
            /\ Goto(c, "deref")
            /\ UNCHANGED <<th, todo>>
       ELSE \E x \in todo[c] :
              /\ th' = [th EXCEPT ![c] = x]
              /\ todo' = [todo EXCEPT ![c] = @ \ {x}]
              /\ next' = [next EXCEPT ![c] = "pushall"]
              /\ Goto(c, "check")
  /\ UNCHANGED <<taskVars, threadVars, queue, intdVars, curVars, hold, drop, nx>>

-----------------------------------------------------------------------------
(* Threads.                                                                *)

\* anscheduler_thread_create and the linking half of anscheduler_thread_add
NewThread(c, t) ==
  /\ ~ThreadsLocked(t)
  /\ \E x \in Thread :
       /\ thTask[x] = NULL
       /\ thTask' = [thTask EXCEPT ![x] = t]
       /\ th' = [th EXCEPT ![c] = x]
  /\ Goto(c, "check")
  /\ UNCHANGED <<taskVars, exiting, polling, queue, intdVars, curVars, todo, nx>>

\* A running thread adds a thread to its own task.
ThreadAdd(c) ==
  /\ Calls(c)
  /\ next' = [next EXCEPT ![c] = "user"]
  /\ NewThread(c, cpuTask[c])
  /\ UNCHANGED <<hold, drop>>

\* The creator of a task adds its first thread and dereferences the task.
CreatorAdd(c) ==
  /\ pc[c] = "created"
  /\ Release(c, Caller(c))
  /\ NewThread(c, hold[c])

\* anscheduler_thread_create failed; the creator dereferences the task.
CreatorGivesUp(c) ==
  /\ pc[c] = "created"
  /\ Release(c, Caller(c))
  /\ Goto(c, "deref")
  /\ UNCHANGED <<taskVars, threadVars, queue, intdVars, curVars, th, todo, nx>>

\* Seeded fault: waiting interrupts are not looked at.
ThreadPollBlind(c) ==
  /\ Calls(c)
  /\ polling' = polling \cup {cpuThread[c]}
  /\ Goto(c, "polled")
  /\ UNCHANGED <<taskVars, thTask, exiting, queue, intdVars, curVars, localVars>>

\* anscheduler_thread_poll; a thread that must not wait just returns.
ThreadPoll(c) ==
  /\ Calls(c)
  /\ cpuThread[c] = intd => irqMask = {}
  /\ polling' = polling \cup {cpuThread[c]}
  /\ Goto(c, "polled")
  /\ UNCHANGED <<taskVars, thTask, exiting, queue, intdVars, curVars, localVars>>

\* Seeded fault: the polling thread is pushed, as if it had resigned.
PollBreakPush(c) ==
  /\ pc[c] = "polled"
  /\ PushCurrent(c, "loop")
  /\ UNCHANGED <<taskVars, threadVars, queue, intdVars, hold, todo, nx>>

\* The polling system call gives up the CPU on the CPU's own stack.
PollBreak(c) ==
  /\ pc[c] = "polled"
  /\ LeaveCurrent(c)
  /\ UNCHANGED <<taskVars, threadVars, queue, intdVars, th, hold, todo, nx>>

\* anscheduler_thread_exit: anscheduler_thread_deallocate, interruptible
ThreadExit(c) ==
  /\ Calls(c)
  /\ exiting' = exiting \cup {cpuThread[c]}
  /\ intd' = IF intd = cpuThread[c] THEN NULL ELSE intd
  /\ UNCHANGED <<taskVars, thTask, polling, queue, irqMask, curVars, pc,
                 localVars>>

\* _finalize_thread_exit, on the CPU's own stack
FinalizeThreadExit(c) ==
  /\ pc[c] = "user" /\ cpuThread[c] \in exiting
  /\ ~ThreadsLocked(cpuTask[c])
  /\ thTask' = [thTask EXCEPT ![cpuThread[c]] = NULL]
  /\ exiting' = exiting \ {cpuThread[c]}
  /\ LeaveCurrent(c)
  /\ UNCHANGED <<taskVars, polling, queue, intdVars, th, hold, todo, nx>>

-----------------------------------------------------------------------------
(* Finding, killing and leaving tasks.                                     *)

\* anscheduler_task_for_pid
TaskForPid(c) ==
  /\ Calls(c)
  /\ \E t \in pidmap :
       /\ Reference(t)
       /\ hold' = [hold EXCEPT ![c] = t]
  /\ Goto(c, "held")
  /\ UNCHANGED <<tasks, isKilled, pidmap, job, threadVars, queue, intdVars,
                 curVars, next, th, drop, todo, nx>>

\* anscheduler_task_kill of the task in hand, which is then dereferenced
TaskKill(c) ==
  /\ pc[c] = "held"
  /\ isKilled' = [isKilled EXCEPT ![hold[c]] = TRUE]
  /\ Release(c, "user")
  /\ Goto(c, "deref")
  /\ UNCHANGED <<tasks, refCount, pidmap, job, threadVars, queue, intdVars,
                 curVars, th, todo, nx>>

\* A task that was only looked at is dereferenced.
HeldRelease(c) ==
  /\ pc[c] = "held"
  /\ Release(c, "user")
  /\ Goto(c, "deref")
  /\ UNCHANGED <<taskVars, threadVars, queue, intdVars, curVars, th, todo, nx>>

\* The end of _wakeup_endpoint (socket.c) for the task in hand: a polling
\* thread is claimed under threadsLock and switched to.
WakeupEndpoint(c) ==
  /\ pc[c] = "held" /\ ~ThreadsLocked(hold[c])
  /\ \E x \in threads(hold[c]) \cap polling :
       /\ polling' = polling \ {x}
       /\ nx' = [nx EXCEPT ![c] = x]
  /\ PushCurrent(c, "switch")
  /\ UNCHANGED <<taskVars, thTask, exiting, queue, intdVars, hold, todo>>

\* anscheduler_thread_add to the task that was found by its PID; "make sure
\* the task has already been launched when you call this" (thread.h).
HeldAdd(c) ==
  /\ pc[c] = "held"
  /\ EarlyThreads \/ \A d \in Cpu : pc[d] = "launched" => hold[d] # hold[c]
  /\ Release(c, "user")
  /\ NewThread(c, hold[c])

\* anscheduler_task_exit
TaskExit(c) ==
  /\ Calls(c)
  /\ isKilled' = [isKilled EXCEPT ![cpuTask[c]] = TRUE]
  /\ LeaveCurrent(c)
  /\ UNCHANGED <<tasks, refCount, pidmap, job, threadVars, queue, intdVars, th,
                 hold, todo, nx>>

-----------------------------------------------------------------------------
(* _free_task_method, in a kernel thread that can be interrupted.          *)

RunsJob(c, stage) == pc[c] = "job" /\ job[cpuThread[c]] = stage

JobUnsetPid(c) ==
  /\ RunsJob(c, "pid")
  /\ pidmap' = pidmap \ {cpuThread[c]}
  /\ job' = [job EXCEPT ![cpuThread[c]] = "free"]
  /\ UNCHANGED <<tasks, refCount, isKilled, threadVars, queue, intdVars, curVars,
                 pc, localVars>>

JobFreeThread(c) ==
  /\ RunsJob(c, "free")
  /\ \E x \in threads(cpuThread[c]) :
       /\ thTask' = [thTask EXCEPT ![x] = NULL]
       /\ exiting' = exiting \ {x}
       /\ polling' = polling \ {x}
       /\ intd' = IF intd = x THEN NULL ELSE intd
  /\ UNCHANGED <<taskVars, queue, irqMask, curVars, pc, localVars>>

\* The task is freed and the kernel thread deletes itself.
JobFreeTask(c) ==
  /\ RunsJob(c, "free") /\ threads(cpuThread[c]) = {}
  /\ tasks' = tasks \ {cpuThread[c]}
  /\ job' = [job EXCEPT ![cpuThread[c]] = "none"]
  /\ SetCurrent(c, NULL, NULL)
  /\ Goto(c, "loop")
  /\ UNCHANGED <<refCount, isKilled, pidmap, threadVars, queue, intdVars,
                 localVars>>

-----------------------------------------------------------------------------
(* The interrupt daemon.                                                   *)

\* anscheduler_intd_set, by a thread that registers itself, or nobody.
\* (The code takes any thread.)
IntdSet(c) ==
  /\ Calls(c)
  /\ ReplaceIntd \/ \A d \in Cpu : pc[d] # "irq"
  /\ intd' \in {cpuThread[c], NULL}
  /\ UNCHANGED <<taskVars, threadVars, queue, irqMask, curVars, pc, localVars>>

IntdRead(c) ==
  /\ Calls(c) /\ cpuThread[c] = intd
  /\ irqMask' = {}
  /\ UNCHANGED <<taskVars, threadVars, queue, intd, curVars, pc, localVars>>

\* anscheduler_irq, the section under intdLock
DeliverIrq(c) ==
  /\ pc[c] \in Interruptible
  /\ intd # NULL
  /\ LET t == thTask[intd] IN
       /\ Reference(t)
       /\ \E i \in Irq : irqMask' = irqMask \cup {i}
       /\ polling' = polling \ {intd}
       /\ IF intd \in polling
            THEN /\ hold' = [hold EXCEPT ![c] = t]
                 /\ Goto(c, "irq")
                 /\ UNCHANGED <<drop, next>>
            ELSE /\ drop' = [drop EXCEPT ![c] = t]
                 /\ next' = [next EXCEPT ![c] = pc[c]]
                 /\ Goto(c, "deref")
                 /\ UNCHANGED hold
  /\ UNCHANGED <<tasks, isKilled, pidmap, job, thTask, exiting, queue, intd,
                 curVars, th, todo, nx>>

\* anscheduler_loop_switch(task, interruptThread): the global is read again,
\* now without intdLock, and the interrupted thread is pushed.
IrqSwitch(c) ==
  /\ pc[c] = "irq"
  /\ nx' = [nx EXCEPT ![c] = intd]
  /\ IF cpuThread[c] = NULL
       THEN Goto(c, "switch") /\ UNCHANGED <<curVars, th, drop, next>>
       ELSE PushCurrent(c, "switch")
  /\ UNCHANGED <<taskVars, threadVars, queue, intdVars, hold, todo>>

-----------------------------------------------------------------------------
\* What a CPU does inside the scheduler, where it runs without interruption.
KernelStep(c) ==
  \/ LoopPushCheck(c) \/ LoopPush(c) \/ TaskDereference(c)
  \/ LoopDelete(c) \/ PushKillJob(c) \/ RunNext(c) \/ RunIdle(c)
  \/ SwitchToThread(c) \/ TaskLaunch(c) \/ LaunchWalk(c) \/ LaunchPush(c)
  \/ CreatorAdd(c) \/ CreatorGivesUp(c) \/ PollBreak(c)
  \/ TaskKill(c) \/ HeldRelease(c) \/ HeldAdd(c) \/ WakeupEndpoint(c)
  \/ IrqSwitch(c)

JobStep(c) == JobUnsetPid(c) \/ JobFreeThread(c) \/ JobFreeTask(c)

\* What the running thread asks for, at its own discretion.
SystemCall(c) ==
  \/ TaskCreate(c) \/ ThreadAdd(c) \/ ThreadPoll(c) \/ ThreadExit(c)
  \/ TaskForPid(c) \/ TaskExit(c) \/ IntdSet(c) \/ IntdRead(c)

Next ==
  \E c \in Cpu :
    \/ KernelStep(c) \/ JobStep(c) \/ SystemCall(c)
    \/ Resign(c) \/ EnterLoop(c) \/ FinalizeThreadExit(c) \/ DeliverIrq(c)

Spec == Init /\ [][Next]_vars

(***************************************************************************)
(* A CPU inside the scheduler keeps executing.  The timer that loop_run    *)
(* arms is delivered when the CPU next leaves a critical section, however  *)
(* often it enters one: strong fairness.  A kernel thread that is given    *)
(* the CPU again and again gets its work done.  Nothing is assumed of      *)
(* what user threads or devices do.                                        *)
(***************************************************************************)
Fairness ==
  \A c \in Cpu : /\ WF_vars(KernelStep(c))
                 /\ SF_vars(EnterLoop(c))
                 /\ SF_vars(Resign(c))
                 /\ SF_vars(JobStep(c))

FairSpec == Spec /\ Fairness

-----------------------------------------------------------------------------
(* Properties.                                                             *)

TypeOK ==
  /\ tasks \subseteq Task /\ pidmap \subseteq Task
  /\ refCount \in [Task -> Nat]
  /\ isKilled \in [Task -> BOOLEAN]
  /\ job \in [Task -> JobStage]
  /\ thTask \in [Thread -> Task \cup {NULL}]
  /\ exiting \subseteq Thread /\ polling \subseteq Thread
  /\ queue \in Seq(Schedulable)
  /\ intd \in Thread \cup {NULL} /\ irqMask \subseteq Irq
  /\ cpuTask \in [Cpu -> Task \cup {NULL}]
  /\ cpuThread \in [Cpu -> Schedulable \cup {NULL}]
  /\ pc \in [Cpu -> Points] /\ next \in [Cpu -> Points]
  /\ th \in [Cpu -> Schedulable \cup {NULL}]
  /\ hold \in [Cpu -> Task \cup {NULL}]
  /\ drop \in [Cpu -> Task \cup {NULL}]
  /\ todo \in [Cpu -> SUBSET Thread]
  /\ nx \in [Cpu -> Thread \cup {NULL}]

Slots(f, v) == Cardinality({c \in Cpu : f[c] = v})

\* The references to t that CPUs really hold.
HeldRefs(t) == Slots(cpuTask, t) + Slots(hold, t) + Slots(drop, t)

\* task->refCount is exactly the number of references in use: every
\* anscheduler_task_reference is matched by one dereference, on every path.
RefCountExact == \A t \in tasks : refCount[t] = HeldRefs(t)

Alive(x) == x \in tasks \/ (x \in Thread /\ thTask[x] \in tasks)

\* Every structure that some CPU, the run loop, the PID map or the interrupt
\* code can still reach is allocated.  (A CPU in the middle of a poll may
\* keep a stale current thread; it only forgets it.)
NoUseAfterFree ==
  /\ pidmap \subseteq tasks
  /\ \A x \in Thread : thTask[x] \in tasks \cup {NULL}
  /\ \A i \in DOMAIN queue : Alive(queue[i])
  /\ intd # NULL => Alive(intd)
  /\ \A c \in Cpu :
       /\ {cpuTask[c], hold[c], drop[c]} \subseteq tasks \cup {NULL}
       /\ pc[c] = "polled" \/ cpuThread[c] = NULL \/ Alive(cpuThread[c])
       /\ \A x \in todo[c] \cup {th[c], nx[c]} : x = NULL \/ Alive(x)

\* Occurrences of x in the run loop
Queued(x) == Cardinality({i \in DOMAIN queue : queue[i] = x})

\* Where thread x can be picked up from: the queue, a CPU that pushes it, runs
\* it or is about to switch to it, or the poll state.
Places(x) ==
  Queued(x) + Slots(th, x) + Slots(nx, x)
  + Cardinality({c \in Cpu : cpuThread[c] = x /\ pc[c] # "polled"})
  + Cardinality({c \in Cpu : pc[c] = "irq" /\ intd = x})
  + (IF x \in polling THEN 1 ELSE 0)

\* A thread is never run, queued or woken twice, and a thread of a task that
\* has not been killed is never lost.
OnePlace ==
  \A x \in Thread :
    thTask[x] # NULL => /\ Places(x) <= 1
                        /\ ~isKilled[thTask[x]] => Places(x) = 1

\* The comment in _generate_kill_job: once a task is being reaped nothing runs
\* it or ever will; its threads leave the queue before the kill job enters
\* it, and there is exactly one kill job.
ReapedAlone ==
  \A t \in tasks : job[t] # "none" =>
    /\ isKilled[t] /\ refCount[t] = 0
    /\ Queued(t) + Slots(cpuThread, t) + Slots(th, t) = 1
    /\ \A x \in threads(t) :
         /\ x \notin {th[c] : c \in Cpu} \cup {nx[c] : c \in Cpu}
         /\ \A c \in Cpu : cpuThread[c] = x => pc[c] = "polled"
         /\ Queued(x) > 0 => \E c \in Cpu : th[c] = t /\ x \in todo[c]


\* The interrupt daemon never sleeps on an interrupt that is already in
\* irqMask: the test in anscheduler_thread_poll and the isPolling exchange in
\* anscheduler_irq exclude each other.
NoLostIrq == intd \in polling => irqMask = {}

\* Tasks are reference counted objects: the references that CPUs hold are
\* taken and given back, and tasks killed and freed, as RefObject allows.
RefSpec ==
  INSTANCE RefObject WITH
    Obj <- Task,
    state <- [t \in Task |-> IF t \notin tasks THEN "free"
                             ELSE IF isKilled[t] THEN "killed" ELSE "live"],
    refs <- [t \in Task |-> HeldRefs(t)]

TasksAreRefObjects == RefSpec!Spec

\* A killed task is eventually freed, whatever its threads do with the calls
\* modelled here (a kill job that waits for a socket is in Sockets).
KilledIsFreed == \A t \in Task : (t \in tasks /\ isKilled[t]) ~> (t \notin tasks)

\* No thread and no kernel thread waits in the run loop forever.
NoStarvation == \A x \in Schedulable : (Queued(x) > 0) ~> (Queued(x) = 0)
=============================================================================
