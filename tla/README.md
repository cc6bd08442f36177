# Verification of anscheduler

anscheduler is the scheduler of a multiprocessor kernel: tasks and threads, a
run loop shared by all CPUs, sockets for messages between tasks, page faults
handled by a user-space pager, and an interrupt daemon. It is a library; the
operating system around it supplies memory, page tables, timers and the current
task and thread of each CPU (`include/anscheduler/functions.h`). This directory
models its concurrent core in TLA+, checks the models with TLC and proves the
central safety properties with TLAPS.

Contents: 1 inventory, 2 modules and how they correspond to the code, 3 runs,
bounds and fairness, 4 proofs, 5 disagreements found, 6 what is left out,
7 plan.

## 1. Inventory

All CPUs execute the same code on shared memory. Kernel code runs with
interrupts off ("critical sections" in the header comments) and protects data
with spin locks. Code outside critical sections can be preempted by the timer.

| Part | State | Operations | Interacts with |
|---|---|---|---|
| Tasks (`src/task.c`) | `refCount`, `isKilled`, thread list, PID, stage of the kill job | create, launch, reference, dereference, kill, exit, `_free_task_method` | everything holds task references; the last dereference of a killed task makes a kernel thread that frees it |
| Run loop (`src/loop.c`) | linked list of threads, `queueCount`; current thread per CPU | push, delete, run, resign, switch, push_kernel | takes a task reference for each thread it starts, drops it when the thread leaves the CPU |
| Threads (`src/thread.c`) | task, `isPolling`, links, stack index | create, add, poll, exit | wake-ups come from sockets, interrupts and page faults |
| Interrupt daemon (`src/interrupts.c`) | `interruptThread`, `irqMask` | set, read, `anscheduler_irq`, reset at thread death | claims a polling thread and switches to it |
| PID map (`src/pidmap.c`) | 256 buckets of linked tasks, pool of PIDs | alloc, free, set, unset, get | launch and kill job; lookups take task references |
| Index set (`lib/anidxset`) | pages of free indexes, `used` | initialize, get, put | PIDs, descriptors, stacks |
| Ticket lock (`lib/anlock`) | one 64 bit word | lock, unlock | everything |
| Sockets (`src/socket.c`) | two descriptors and two bounded message lists per socket, reference counts, close state | new, connect, msg, msg_async, read, close, hangup | wakes threads; keeps tasks alive until its descriptors are gone |
| Descriptor table, pending list (`src/socketlist.c`) | 16 buckets per task, list of descriptors with messages | set, delete, find, pending, not_pending, pop | sockets, kill job |
| Page faults (`src/paging.c`) | pager thread, fault queue | set/get/lock pager, page_fault, fault_read | suspends the faulting thread, wakes the pager |
| Platform (`functions.h`) | | supplied by the embedding system | |

What makes it hard:

* **Interleaving.** A thread can be reached from the queue, a CPU, the poll
  state (twice: messages and interrupts), `interruptThread` and its task's
  thread list. Each hand-over is a few separately locked steps.
* **Stale knowledge.** `anscheduler_loop_push` tests `isKilled` and inserts
  under another lock; `anscheduler_irq` reads `interruptThread` again after its
  lock; `_wakeup_endpoint` uses a descriptor after giving its reference back.
* **Reclamation.** A killed task is freed by a kernel thread only when its
  reference count reaches zero, and memory is used again at once.
* **Liveness.** Killing only sets a flag. That the task goes away depends on the
  timer, on the queue being fair and on every path dropping its reference.
* **Boundaries.** Half words of the lock wrap, pages of the index set fill and
  empty, the scan of the run loop runs `queueCount` steps while tasks are killed.

What makes each part correct:

* tasks: the count equals the references in use; nothing reachable is freed; a
  killed task is eventually freed, once;
* run loop: a thread is in one place; order of pushing is kept; a CPU halts only
  when nothing can run, and not for too long;
* threads and interrupts: a wake-up is given to exactly one thread and is not lost;
* PID map: a lookup finds exactly the launched tasks;
* index set: no number is given out twice, none is lost but by failed allocation;
* lock: exclusion, order, no starvation;
* descriptors: a number names one descriptor, a lookup ends; the pending list
  has exactly the descriptors with messages;
* sockets: the shared socket is freed once, after both ends; message lists keep
  their bound; the other end learns of a hangup; nobody sleeps on a message; a
  task outlives its descriptors;
* stacks and page faults: stacks are not shared, every page is owned once and
  freed with its task; a queued fault keeps its thread still and its task alive,
  and is answered.

The hazards with their source lines are listed in `PROJECT.json`.

## 2. Modules

| Module | Models | Kind |
|---|---|---|
| `Scheduler` | tasks, run loop, threads, interrupt daemon, executed by several CPUs | composed core |
| `RefObject` | what a reference counted, killable object promises | abstract |
| `SchedulerInv` | inductive invariant of `Scheduler` | definitions |
| `SchedulerProofs` | proofs about `Scheduler`: `IInv`, that no thread is lost, and what follows from both | proofs |
| `MCScheduler` | symmetry for TLC | model |
| `RunQueue` | the linked list, counter and timed scan of `loop.c` | component |
| `RunLoop` | a queue that can postpone and delete | abstract |
| `MCRunQueue` | symmetry for TLC | model |
| `RunQueueProofs` | inductive invariant of `RunQueue` and proofs | proofs |
| `AnLock`, `FifoLock`, `AnLockProofs` | `lib/anlock`; what a fair lock promises; proofs | component, abstract, proofs |
| `AnIdxSet`, `IndexPool`, `AnIdxSetProofs` | `lib/anidxset`; what a pool of numbers promises; proofs | component, abstract, proofs |
| `LockedPool` | an index set used under its spin lock, as for PIDs, stacks and descriptors | composed |
| `SocketList` | a task's socket descriptors: table, numbers, references, lookup, list of those with messages (`socketlist.c`, parts of `socket.c`); draws numbers from an `IndexPool` | component |
| `MCSocketList` | symmetry for TLC | model |
| `SocketListProofs` | inductive invariants of the table and of the pending list, and proofs | proofs |
| `PidMap` | buckets and PIDs of `pidmap.c`, in the order `task.c` uses them; draws PIDs from an `IndexPool` | component |
| `PidMapProofs` | inductive invariant of `PidMap` and proofs | proofs |
| `Sockets` | the two ends of a socket, messages, wake-ups (`socket.c`) and the part of the kill job that closes sockets (`task.c`) | composed |
| `MCSockets` | which thread belongs to which task, for TLC | model |
| `SocketsInv`, `SocketsProofs` | inductive invariant of `Sockets`; proofs | definitions, proofs |
| `Memory` | stack indexes, kernel and user stacks (`thread.c`), page faults and the pager's queue (`paging.c`), end of the task | composed |
| `MemoryProofs` | inductive invariant of `Memory` and proofs | proofs |

Definitions named "Seeded fault" are wrong variants of the definition that
follows them; they are not part of any specification and serve to show that the
properties are able to fail.

### Scheduler

One step of a CPU is one critical region: the section between a lock and its
unlock (or an atomic builtin) with the CPU-local code around it. `pc[c]` says
between which regions CPU `c` is; `next`, `th`, `hold`, `drop`, `todo` and `nx`
are the locals that live across regions:

* `hold` is a task reference in a local variable, `drop` one that the code is
  about to give to `anscheduler_task_dereference`, `cpuTask` the one that comes
  with running a thread;
* `th` is the thread passed to `anscheduler_loop_push`, or the task whose kill
  job is being made; `nx` is the thread to switch to; `todo` the rest of a
  thread list being walked.

`pc` values: `boot`, `user`, `job`, `idle` are outside the kernel; `check` and
`push` are the two halves of `anscheduler_loop_push`; `deref` is before
`anscheduler_task_dereference`; `reap` is in `_generate_kill_job`; `loop` is in
`anscheduler_loop_run`; `polled` is between setting `isPolling` and leaving the
CPU; `irq` is after `intdLock` in `anscheduler_irq`; `switch` is before
`_switch_to_thread`; `launch`, `launched`, `pushall`, `created` are stages of
creating a task; `held` is a caller with a task it found by PID. A kernel thread
that runs `_free_task_method(t)` is represented by `t`; its progress is `job[t]`.

Abstractions:

* timestamps are left to `RunQueue`: in `Scheduler` every queued thread wants to
  run; the list is a sequence, as `RunQueue` shows of the linked list;
* the PID map is a set, as `PidMap` shows; stacks, page tables and sockets are
  absent, except that a thread can be woken by a message (`WakeupEndpoint`);
* no pager is registered, so `anscheduler_task_kill` has no exemption;
* `anscheduler_thread_poll` sets `isPolling` of the interrupt daemon under
  `intdLock`; of other threads without it. Both are one step here;
* a section under a nested lock (`killLock` inside `loopLock`, `intdLock` or
  `pmLock`) is part of the outer section. The nesting `threadsLock` over
  `loopLock` in `anscheduler_task_launch` is modelled: `ThreadsLocked` blocks
  others while the walk pushes. All nestings go from `threadsLock`, `loopLock`,
  `intdLock` and `pmLock` down to `killLock`, and from `threadsLock` to
  `loopLock`, so that they cannot deadlock; TLC also checks for deadlock.

The constants `EarlyThreads` and `ReplaceIntd` switch on two uses of the
interface under which the code fails (section 5). Without `ReplaceIntd` no
daemon is registered or taken off while a CPU is between `anscheduler_irq`'s
claim of the daemon and its switch to it; at any other time the registered
daemon may be replaced. `IntdSet` is narrower than `anscheduler_intd_set` in one
more way: a thread registers itself or nobody, while the code takes any thread.
If a thread that already sleeps in poll, or is about to, were registered by
another, it would not have looked at `irqMask`, and `NoLostIrq` would not hold
of it. Without `EarlyThreads` a CPU
that found a task by its PID may add threads to it (`HeldAdd`), but not while
the creator is between publishing the PID and the end of its walk. The walk of
`anscheduler_task_launch` meets threads only under `EarlyThreads`, as callers
in this repository launch a task before they add its first thread.

### RunQueue

`firstThread`, `lastThread`, `queueCount` and the links are those of `loop.c`.
Everything happens under `loopLock`. The scan of `_next_thread` is modelled
iteration by iteration because `isKilled` can change during it. `status` stands
for the rest of the system. Stale links left by `anscheduler_loop_delete` are
kept until the structure is allocated again.

### AnLock, AnIdxSet, LockedPool, PidMap

`AnLock` has the two halves of the lock word with carry and wrap-around at
`Base` (2^32). `AnIdxSet` has the stack of pages of `Capacity` (510) indexes,
one step per call, with a failing allocation as an outcome of `anidxset_put`.
`PidMap` has heads and links of the buckets, one step per call of `pidmap.c`;
tasks go through created, launched, killed, out of the map, freed, and are used
again. `LockedPool` puts lock and index set together: a CPU calls `anidxset_get`
and `anidxset_put` between its lock and its unlock.

### SocketList

Follows one task's descriptors from `_create_descriptor` to the end of
`_socket_hangup`. The two loops, the lookup (`search`, under `socketsLock`) and
the pop of the pending list (`popping`, under `pendingLock`), are sequences of
steps; the other operations are one step each. A caller that sends, closes or
dereferences has a reference (`Held`); while a descriptor is not yet in the
table one reference is that of `_create_descriptor`. The variable `waiting` is
not in the code: it is the set of descriptors that have messages of which the
task has not been told. `StaleHead(d)` is the state that
a pop leaves behind: the new head of the pending list still has a link back. If
such a descriptor dies, `NotPending` does with it what the code does, which is
not to take it out (section 5).

### Sockets

An activity is a thread in a system call, a kernel thread in `_async_msg`, the
kernel thread of `_socket_hangup(d)` (named `d`) or that of
`_free_task_method(t)` (named `t`). `act[a]` has its program point and locals:
`own` and `peer` are descriptors it has references to, `ref` a referenced task,
`msg` the message it is about to push, `drop` the descriptor it passes to
`anscheduler_socket_dereference` and `next` where it goes on after that.

| `pc` | in the code |
|---|---|
| `idle`, `have` | outside, without and with a descriptor |
| `deref`, `delete` | `anscheduler_socket_dereference`, before `closeLock` and after it when the last reference is gone |
| `async`, `push`, `wake`, `scan` | `_async_msg`, `_push_message`, `_wakeup_endpoint` before and after the descriptor is let go |
| `remote`, `remotetask` | `anscheduler_socket_remote` before and after the task is referenced |
| `insert`, `greet` | `anscheduler_socket_connect`: the new end is made; it is in the table |
| `hangup`, `unhook`, `free`, `freeboth`, `freesock` | `_socket_hangup` |
| `pick`, `close`, `await`, `spin`, `freetask` | the kill job; `spin` wants `socketsLock` that it holds itself |
| `abort` | the kernel has aborted, because a connect message could not be sent |
| `wild` | the late read of `dest->task` has found another task (section 5) |

In `abort` and `wild` the model stops: what the machine does next is not
determined by the code. Properties are checked up to and including that state.
The late read (`LateRead`) is the one access to a descriptor that
`NoUseAfterFree` leaves out: the code has no reference to it any more, and does
read freed memory. Where the descriptor is gone both outcomes are taken, the
value that was there before and any other.

Abstractions: a task's table is one bucket, newest first, and the pending list a
set, as `SocketList` has both in detail; a message is a unit of `count`; a task
is reaped when it is killed and nobody holds it (`TaskRefs`), as `Scheduler`
shows. Creation of a socket is one step, since nobody else can know the
structure before it is in the table; so are the removal from the pending list
and from the table after the last dereference, since nobody can get a reference
to that descriptor in between, and being in either has no other effect.
`told` and `lost` are history: which descriptors need no further close message,
and which sockets a failed `anscheduler_socket_new` has left behind. `Mortal`
restricts which tasks are killed. A task may connect to itself, and a task is
reaped as soon as nobody holds it, whoever holds or has closed its descriptors.
`stuck` has the tasks whose kill job has resigned with `socketsLock` held
(`spin`); nobody gets that lock any more.

### Memory

Threads of one task are created (with each failure that
`anscheduler_thread_create` undoes), run, fault on their own and each other's
stacks, exit, and are stopped wherever they are when the task is killed; the
kill job then frees what is left. `thr[th]` has the program point, the stack
index, the frame of its kernel stack, and the page and kind of its fault.
`kern[i]` is the frame mapped at the kernel stack of index `i`, which stays
mapped after it is freed, as in the code; `user[i]` is the page table entry of
the user stack: `none`, `lazy` (to be allocated by the first fault), `present`,
or `dead` (unmapped, to be freed by the second loop of
`anscheduler_thread_deallocate`). `claims` counts the CPUs that have queued a
fault and are about to look at `isPolling`. Where the code frees the kernel stack
of another thread (`FreeKernelStack`) or loses a frame (`FreeStack`), the model
does the same and goes on; it stops (`wild`) only where the code writes through a
null pointer (section 5).

Abstractions: a user stack is one page, because the loops treat their pages
independently; which frame is allocated makes no difference (`NewFrame`); the
pager is registered at most once; it answers a fault by having the thread run
again or by killing the task; `anscheduler_pager_peek`, `_shift` and the pager's
decision are one step, as only the pager takes faults from the queue. A
reference to the task is represented by the places where a thread can be, since
each running or suspended thread has exactly one (`Scheduler`).

## 3. Runs

| Run | Instance | Shows |
|---|---|---|
| `scheduler_safety` | 3 CPUs, 2 tasks, 2 threads, 1 interrupt line | reference counts exact, no use after free, each thread in one place, a reaped task is nowhere, interrupts not lost; the inductive invariant `IInv` of the proofs is true of the model; tasks implement `RefObject` |
| `scheduler_liveness` | 2 CPUs, 1 task, 2 threads | a killed task is freed; nothing waits in the run loop forever |
| `run_queue` | 3 threads, time 0..3, time slice 2 | list well formed, is a queue, CPUs halt only when they may |
| `locked_pool` | 3 CPUs, base 4, pages of 2, up to 5 indexes | exclusion, order, no starvation, over both wraps; indexes partitioned, pages behind the first full, is a pool |
| `pid_map` | 3 tasks, 2 buckets, 5 PIDs, 2 references, 1 lost PID | buckets well formed, lookups exact |
| `socket_list` | 2 descriptors, 1 bucket, 3 numbers, 2 references, 1 lost number | buckets exact, numbers unambiguous, the pending list exact until a descriptor dies that a pop has made its head |
| `socket_find` | 3 descriptors, 2 buckets | counterexample: a lookup spins |
| `sockets` | 2 tasks, one of them killed, 1 thread, 1 socket, 1 asynchronous message, lists of 1 | references exact, descriptors implement `RefObject`, no use after free, the socket is freed once, connect and close messages are delivered, nothing comes after a close message, lists keep their bound, no lost wake-up, closed descriptors are freed unless a kill job keeps `socketsLock` |
| `socket_kill` | same with a thread in each task | counterexample: a task is freed before its socket |
| `socket_reap` | same without asynchronous messages | counterexample: a kill job waits for ever |
| `intd` | 2 CPUs, 2 tasks, 2 threads, `ReplaceIntd` | counterexample: a CPU switches to a thread whose task it has not referenced |
| `memory` | 2 threads, 2 stack indexes, 3 frames, 1 CPU that wakes the pager | stacks owned, frames exact but for two races, faults kept and answered, killed tasks freed |

Each module has one type invariant. In `RunQueue`, `PidMap`, `SocketList`,
`AnIdxSet` and `Memory` it is a conjunct of the structural invariant
(`WellFormed`, `Partition`, `StacksOwned`), in `Scheduler` of `IInv`.

**Bounds.** The races of the scheduler involve at most one CPU that uses a
thread, one that wakes or takes it and one that reaps its task: three CPUs. Two
tasks are needed so that one outlives and reuses the other's threads; two
threads so that one is reaped while the other is in the queue. Structures are
allocated again after being freed, so histories are unbounded; reference counts
are bounded by the number of CPUs. In `run_queue` three threads give first,
middle and last; times up to 3 with a slice of 2 give sleeps shorter, equal to
and longer than the slice. In `locked_pool` base 4 is the smallest that three
CPUs may use, and it makes both halves wrap; two pages of two give an empty, a
partial and a full page, with and without a page behind it. In
`pid_map` the even PIDs 0, 2 and 4 give one bucket a head, a middle and an end,
the odd ones a bucket beside it. `socket_list` has
all numbers in one bucket, and two descriptors, so that the one that a pop makes
the head can die. Once that has happened the lists are arbitrary graphs, and a
third descriptor is out of TLC's reach; what the run checks is proved for any
number of descriptors and buckets (section 4). A lookup that has begun may raise
a count one above `MaxRefs`.
In `sockets` one socket has all interactions of its two ends, as sockets share
only the table and the pending list, which `socket_list` covers. The thread and
the asynchronous message are two users of the same descriptors, beside the
hangup thread of each end and the kill job; the thread's task is the one that is
killed, and it may connect to the other task or to its own. The safety
properties of the run are proved for any number of threads and tasks. Lists of
one message reach the limit at once, and connect and close messages then go over
it. In `memory` two threads can share an index in turn, fault on the same page,
and be one exiting while the other is created; three frames are a kernel stack
for each and a user page, so that memory runs out at either, and a frame that
was freed too early is allocated again.
`MaxTime`, `MaxUsed`, `MaxRefs`, `MaxLost`, `MsgMax`, `StackMax` and `MaxClaims`
are bounds of the models, in the guards of the actions that would exceed them.

Symmetry under permutations of tasks, threads and CPUs is used
for safety only; the runs with liveness use none. Every run checks deadlock
except those of `Sockets`, where a kill job can really stop for ever with the
lock that everybody else waits for (`socket_reap`).

**Fairness.** `KernelStep` is weakly fair: a CPU with interrupts off executes
on. `Resign` and `EnterLoop` are strongly fair: `anscheduler_loop_run` arms a
timer before it starts a thread or halts, and an interrupt that arrives in a
critical section is delivered at its end, so a thread cannot keep the CPU by
making system calls. `JobStep` is strongly fair: a kernel thread that gets CPU
time again and again executes its next instructions. Nothing is assumed about
user threads, devices or `FinalizeThreadExit`. For the lock: a spinning CPU
keeps reading and critical sections end. For a descriptor lookup: a CPU that
holds `socketsLock` executes on. In `Sockets` each activity is weakly fair
inside the kernel: critical sections go on and the run loop comes back to kernel
threads (`NoStarvation`); nothing is assumed about what a thread does with a
descriptor, so a thread may keep it for ever. In `Memory` critical sections, the
kill job and the wake-up of the pager are weakly fair, the pager answers
what it finds (it is a user program; without it no fault can be answered), and
`ThreadStop` is strongly fair: the timer comes however often the thread enters
the kernel. Creating threads, faulting and exiting are not fair.

## 4. Proofs

Each theorem holds for every value of the constants that satisfies the named
assumptions; each inductive invariant was checked with TLC on the instances of
section 3 before it was proved.

### Ticket lock (`AnLockProofs`)

For every number of CPUs below `Base` (`LockAssumption`):

* `Exclusion`: at most one CPU has the lock; `TypeCorrect`: the halves stay half
  words. The invariant says that those who hold or want the lock are as many as
  the lower half counts, and that their tickets are distinct and less than
  `lower` ahead of `upper`. Exclusion alone is not inductive: it needs that
  tickets do not collide, which needs the count, which needs `Cardinality(Proc) <
  Base`.
* `Refinement`: the lock implements `FifoLock`. The line of `FifoLock` is the CPU
  with each of the distances 0, 1, ... from `upper`; as there are as many
  contenders as the lower half counts and their tickets are distinct, each
  distance below `lower` is taken by one CPU (`Lined`), so drawing a ticket
  appends to the line and unlocking takes off its head.

### Scheduler (`SchedulerInv`, `SchedulerProofs`)

For all sets of tasks, threads and interrupt lines and every finite set of CPUs
(`ConstantsAssumption`), as long as threads are not added to a task that is
being launched and no daemon is registered while a CPU is between the two
readings of `interruptThread` (`~EarlyThreads`, `~ReplaceIntd`; without either
the statements are false on two CPUs, and the code makes neither sure):

* `Invariance`: `Spec => []IInv`;
* `TypeCorrect`, `CountsExact`, `MemorySafe`: its consequences `TypeOK`,
  `RefCountExact`, `NoUseAfterFree`;
* `IrqNeverLost`: `NoLostIrq`, by a second induction that uses `IInv`;
* `NothingLost`: `Spec => []Kept`, a third induction;
* `ThreadsInOnePlace`, `ReapedTasksAlone`: `OnePlace` and `ReapedAlone`, from
  `IInv` and `Kept` together;
* `Refinement`: tasks implement `RefObject`.

Why `IInv` has its parts. Memory safety rests on counting: a task is reaped when
its count is zero, and the count is exact (`RefCountExact`), so nobody has it.
For that to cover threads, a CPU must have a reference to the task of each
thread in its hands (`Referenced`), and for that to be kept when a step moves a
thread, the locals must be known at each point of the code (`Locals`) and a
thread must not be in two hands (`Unique`): otherwise one CPU could drop the
reference on which another relies. A queue entry has no reference; it is safe
because the entries of a dead task are removed before its kill job is queued,
by the CPU that has them in `todo` (`Jobs`), and nobody can add one, as no one
has a reference. `Launching` says that a task has no thread until its creator's
walk is over (`NoThreadYet`, `Walking`), and that nobody else knows a task that
is not launched. `Allocated` closes the circle for what is shared.

`IInv` says that a thread is in no two places; `Kept` says that one which is
needed, a thread of a task that has not been killed or a kill job, is in some
place. The two are separate because `Kept` holds for a different reason: the
only steps that drop a thread do so after they have seen the task killed.

The module begins with facts about sequences (removing and appending keep
entries distinct) and about counting CPUs (changing one CPU's variable changes
`Slots` by one); then there is one lemma per action. In the refinement `refs` of
`RefObject` are the references held, which `IInv` equates with `refCount`, so
each action is shown to change the count of at most one task, by one, or to
leave all counts.

### Sockets (`SocketsInv`, `SocketsProofs`)

For every finite set of activities (threads, asynchronous messages, descriptors,
tasks; different kinds disjoint: `ActivityAssumption`), every assignment of
threads to tasks and every limit of a message list (`SocketsAssumption`):

* `Invariance`: `Spec => []IInv`;
* `Typed`, `CountersExact`, `UseSafe`, `SocketsFreedOnce`, `ControlArrives`,
  `WakeupsArrive`: `TypeOK`, `RefsExact`, `NoUseAfterFree`, `FreedOnce`,
  `ControlDelivered`, `NoLostWakeup`;
* `CloseIsLast`: the action property `NothingAfterClose`;
* `Refinement`: descriptors implement `RefObject`, with the references that
  activities have as its `refs`.

Nothing is assumed about the kill job: descriptors of a task that is torn down
may be in use. What then goes wrong is in `socket_kill` and `socket_reap`.

Why `IInv` has its parts. `RefsExact` counts activities by their locals, so each
program point must say which locals are set (`Shapes`), and a step that moves a
reference from one local to another must not count it twice. Freeing is decided
by `closeLock` (the last reference of a closed descriptor) and by `connRecLock`
(the last end of a socket): `Refs` says that the deletion of a descriptor is
begun by one activity and only when no reference is left, `Life` which stage of
`_socket_hangup` goes with which state of the two ends, so that exactly one
hangup frees the socket. `Told` relates the close message to the hangup of the
other end; it gives `ControlDelivered` and, with `Refused`, that nothing follows
the close message. `Counts` bounds a list by the control messages that can have
been sent (`Extra`); it needs that a socket is connected by one thread, once.
`Tasks` and `Lists` say that a referenced or listed task is not freed and that a
table has each idle descriptor of its task at most once. `NoLostWakeup` is
inductive once these are known: a sender that puts a descriptor on the pending
list goes on to scan, with a reference to the task.

### Stacks and page faults (`MemoryProofs`)

For every set of threads and frames and all `StackMax`, `MaxClaims` above zero
(`MemoryAssumption`):

* `Invariance`: `Spec => []IInv`;
* `StacksSafe`, `FaultsSafe`: `StacksOwned`, `FaultsKept`, in every state;
* `RacesAlone`: the property `FramesLostOnlyByRaces`.

`FaultsKept` is inductive with the types. For `StacksOwned` a thread's index must
be its own (`Indexes`), the kernel stack made for it must stay mapped at its
index (`KernelStacks`), and its user stack until it is unmapped (`UserStacks`);
the kill job may take threads down only because nobody of the task is in the
kernel any more (`Quiet`). None of these mentions which frames are allocated, so
the two races of an exit do not disturb them. `FramesExact` is not an invariant
of the code. Every step keeps it if it held before (`Keeps`), except
`FreeKernelStack` when the index now has another thread's kernel stack
(`FreesOther`) and `FreeStack` when a fault has allocated the page since the
first loop (`LosesPage`): `RacesAlone` says so of every step from any reachable
state, and both steps are taken in the run `memory`.

### Index set (`AnIdxSetProofs`)

For every capacity of a page (`CapacityAssumption`): `Invariance`,
`IndexesInOnePlace` (`Partition`) and `Refinement` (`IsIndexPool`). `Partition`
counts the slots that have an index; the inductive invariant says the same
without counting, that entries of the pages are different and the made indexes
that are in no page are gone, once each. The lemmas say what pushing to and
popping from the stack of pages does to the set of its entries.

### Linked lists (`RunQueueProofs`, `PidMapProofs`, `SocketListProofs`)

The run loop, the PID buckets, the descriptor buckets and the pending list are
lists that the code reaches only by following links. Each proof has the same
three layers:

1. Lemmas about lists without state. `IsList` (`IsChain` in the other two
   modules) says that a sequence `s` of length `k` has no entry twice, begins at
   the head and has the given links. One lemma per way in which the code changes
   a list says which sequence describes it afterwards: pushing in front or
   behind, taking the first, cutting out any entry with the `last == NULL` test
   that the code uses for "is the head", clearing links of entries outside.
2. Steps: the inductive invariant says that for the present links such a list
   exists, and that its entries are exactly the threads, tasks or descriptors
   whose state says that they should be in it. One lemma per action picks the
   list before the step and gives the one after it. (In `RunQueueProofs` the list
   is the walk itself, as the refinement needs it by name.)
3. What the runs check is stated with a walk, a recursive function that follows
   links for a bounded number of steps. A lemma per module shows that the walk
   visits the list in its order and then stays at NULL; as the prover cannot
   apply an induction theorem, it takes the least place where the walk and the
   list differ (`NatMin`, from the well-foundedness of <). A finite set of nodes
   bounds the length of the list, so the walk reaches its end; the sets `Thread`,
   `Task` and `Desc` are finite by assumption for that reason, as memory is.

*Run loop*, for every finite set of threads (`QueueAssumption`): `Invariance`,
`LinksDescribeOneList` (`WellFormed`), `HaltsOnlyInTime` (`HaltsInTime`) and
`Refinement` (`IsRunLoop`, with the walk as the abstract `line`). Beside the list
(`Linked`) the invariant needs `Clean`, since `anscheduler_loop_delete` tells
from the links whether a thread is queued, and `Scanned`: the threads behind the
ones that a scan has still to look at sleep, and its timeout is not later than
any of them. `HaltsInTime` is the case of `Scanned` in which nothing is left to
look at.

*PID map*, for every finite set of tasks and every number of PIDs and buckets
(`PidMapAssumption`): `Invariance`, `BucketsAreLists` (`WellFormed`) and
`LookupsExact` (`LookupExact`). The invariant adds to the lists that a PID in use
belongs to one task (`Owned`); a lookup walks the whole bucket, so it finds the
task, and by `Owned` no other hides it.

*Descriptors*, for every finite set of descriptors and every number of buckets
and numbers (`SocketListAssumption`): `TableInvariance`, `NumbersNameOne`
(`NumberNamesOne`), `BucketsAreLists` and `DescriptorTable` (`WellFormed`), and
`PendingListKept` (`OnlyStaleHeads`) hold without more. The table's invariant (`TableInv`) does not
mention the pending list, which is why it holds whatever happens to that list.
`Searching` is in it because a lookup in progress relies on the room for a
reference that it saw when it began. `PendingExact` is not an invariant of the
code; it is equivalent to `PendingInv`, which every step but one preserves. The
lists of `IsChain` leave open where the head leads back to, because a pop leaves
a stale link there; the lemma about cutting then needs that a head that is cut
has no link back, which is the case of `NotPending` without `StaleHead`.
`Unwaiting` and the list together show that the code's test for membership,
which looks at both links and the head, is right (`PendingTest`), and `Alive`
that a descriptor whose structure is used again is in no list.

### Only model-checked

* Liveness (`KilledIsFreed`, `NoStarvation`, `StarvationFree`, `FindEnds`,
  `ClosedIsFreed`, `FaultAnswered`, `KilledIsFreed` of `Memory`), since it rests on fairness,
  which the prover does not handle.

Every safety invariant, action property and refinement that a passing run checks
is also stated by a theorem.

## 5. Disagreements found

Shown by runs:

* **`socket_find`**: `anscheduler_descriptor_find` never moves on in a
  bucket; a lookup that does not find its number at the head of a bucket that is
  not empty spins forever with `socketsLock` held. That includes a number that
  is not in use.
* **`socket_kill`**: `_close_task_sockets_async` takes a first descriptor that is
  already closed for an empty bucket, and the task is freed although the
  descriptor is not. A comment in `anscheduler_socket_dereference` relies on the
  opposite.
* **`socket_reap`**: if the descriptor that the kill job has closed is still
  referenced, the job resigns and tries again with `socketsLock` held, and the
  removal it waits for needs that lock (`task.c:245-255`). Two comments there say
  that it waits for the socket to die and to disappear from the list.
* **`intd`**: `anscheduler_irq` claims the polling daemon under `intdLock` but
  switches to `interruptThread` as it is later. If another thread has been
  registered in between, that one is run without being claimed or referenced,
  which a comment there excludes.

Named in a property that passes, as the only exceptions to it (each step is taken
in the run):

* **pop** (`OnlyStaleHeads`, `socket_list`): `anscheduler_task_pop_pending`
  leaves a stale predecessor in the new head; when that descriptor dies it is not
  taken out of the list, is freed in it, and descriptors behind it are cut off.
  Two pending descriptors, a pop of one and the close of the other are enough.
  `PendingExact` by itself is therefore no invariant, and a pop may return NULL
  although sockets are pending, contrary to `socket.h:25`.
* **stack index** (`FramesLostOnlyByRaces`, `memory`): `thread.c:299-304` gives
  the stack index back before it looks up the kernel stack by that index; if a
  new thread has taken the index, its kernel stack is freed while it uses it.
* **stack page** (the same property): a page that another thread's fault allocates
  between the two loops of `anscheduler_thread_deallocate` (`thread.c:154-190`)
  is unmapped and its frame never freed, where `thread.h:43-44` says that no
  memory is leaked. `FramesExact` by itself is no invariant for these two reasons.
* **kill job and closing** (`ClosedIsFreed`, `sockets`): a closed descriptor
  without references stays if a kill job waits with `socketsLock` held.

Reproduced by setting a constant to TRUE in the cfg of the run named:

* **launch** (`EarlyThreads`, `scheduler_safety`, breaks `OnePlace`):
  `anscheduler_task_launch` publishes the task by PID before it walks the
  threads. A thread added in between, by a caller who found the task and so may
  take it for launched (`thread.h:16-17`), enters the run loop twice.

Places where a model stops because the code has no defined continuation:

* `socket.c:406` reads `dest->task` after the reference to `dest` is gone; the
  task that is dereferenced may not be the one that was referenced (`Sockets`,
  `wild`).
* `socket.c:221` aborts the kernel when the new end was closed before the connect
  message could be sent, which the task that was connected to can do (`Sockets`,
  `abort`).
* `paging.c:59` uses an allocated page without testing for failure (`Memory`,
  `wild`).

Modelled as they are, without harm to the properties: `paging.c:46` retries the
read where it means the write, so a write that finds the page already present
goes to the pager; `socket.c:60` leaves the socket when its descriptor cannot be
made (`lost`); `thread.c:161` tests `!page` for `!phyPage`, so a page that was
never allocated stays to the second loop.

## 6. Not modelled

Contents and order of messages, and the copying in
`anscheduler_socket_msg_data`; page tables beyond stacks; failing allocations of
messages and of kernel threads, at which the code aborts or drops the message;
page faults of kernel threads, at which it aborts; the exemption of the pager's
task in `anscheduler_task_kill`; unsetting or replacing the pager (a pager that
is unset between two reads of `pagerThread` in `paging.c:154` would be a null
pointer; nothing in the repository does that). The platform functions appear as
far as the scheduler uses them. `src/test` simulates CPUs with POSIX threads and
is not part of the scheduler; it was read for the order in which its interface
is used. Failed allocations inside `anscheduler_task_create` undo everything and
return NULL: for the rest of the system nothing has happened. A task that is
killed before it is launched is not in `PidMap`, as nothing in the repository
does that; `anscheduler_pidmap_unset` would take a task without predecessor for
the head of its bucket and empty it.

## 7. Plan

Order: the protocol on which every other part rests first, then the structures
it takes for granted, then the parts that use it.

1. Done: `Scheduler` with `RefObject`; `AnLock` with `FifoLock`; `RunQueue` with
   `RunLoop`; `AnIdxSet` with `IndexPool`; `PidMap`; `SocketList`; proofs for
   `AnLock` and `Scheduler`.
2. Done: `Sockets` (two ends, messages, hangup, wake-up, teardown by the kill
   job, refinement of `RefObject`) and `Memory` (stacks, page faults, pager).
3. Done: proofs of the safety properties and refinements of `Scheduler`,
   `Sockets`, `Memory`, `AnIdxSet` and `AnLock`.
4. Done: the linked lists: `RunQueue` with its refinement of `RunLoop`, `PidMap`
   and `SocketList`.
5. Done: `LockedPool`; the steps in which the code breaks its own structures
   (registration of a daemon, dying heads of the pending list, kill jobs with
   busy sockets, the races of an exit) are in the models, shown by runs that
   expect a violation or as the exact exceptions of properties that hold.
6. Left: liveness, which the prover does not handle and TLC checks on the
   instances of section 3; and the parts named in section 6.
