------------------------------- MODULE Memory -------------------------------
(***************************************************************************)
(* Thread stacks and page faults (thread.c, paging.c): the stack indexes   *)
(* of one task, the kernel stack mapped at each index, the user stack that *)
(* is allocated by the first fault on it, the exit of a thread, the end of *)
(* the task, and the queue of faults for the system pager.                 *)
(*                                                                         *)
(* A step is one locked section.  A user stack is one page: the loops of   *)
(* anscheduler_thread_deallocate treat their 0x100 pages independently.    *)
(* The stack indexes are those of IndexPool below the limit; the pager is  *)
(* a thread of another task.                                               *)
(***************************************************************************)
EXTENDS Naturals, Sequences, FiniteSets, SequencesExt

CONSTANTS
  Thread,     \* thread structures of the task
  Frame,      \* physical pages
  NULL,       \* the null pointer
  StackMax,   \* number of stack indexes (0x100000)
  MaxClaims   \* bound on CPUs that are about to wake the pager

ASSUME MemoryAssumption ==
  /\ StackMax \in Nat \ {0} /\ MaxClaims \in Nat \ {0}
  /\ NULL \notin Frame /\ NULL \notin Nat

Stack == 0 .. StackMax - 1

VARIABLES
  state,       \* of the task: "live", "killed", "reaping" or "free"
  thr,         \* each thread: where it is, its stack index, the frame of its
               \* kernel stack, the page it faults on, and if that is a write
  stacks,      \* stack indexes in use
  kern,        \* frame that is mapped as kernel stack at each index
  user,        \* flags and frame of the user stack page at each index
  frames,      \* allocated frames
  faults,      \* threads whose page faults wait for the pager
  claims,      \* CPUs that queued a fault and did not yet look at isPolling
  polling,     \* isPolling of the pager
  pagerThread  \* is a pager set?

vmVars == <<stacks, kern, user, frames>>
pagerVars == <<faults, claims, polling, pagerThread>>
vars == <<state, thr, vmVars, pagerVars>>

NoThread == [pc |-> "none", stack |-> NULL, frame |-> NULL, page |-> NULL, write |-> FALSE]
NoPage == [flag |-> "none", frame |-> NULL]

Init ==
  /\ state = "live"
  /\ thr = [th \in Thread |-> NoThread]
  /\ stacks = {} /\ frames = {}
  /\ kern = [i \in Stack |-> NULL] /\ user = [i \in Stack |-> NoPage]
  /\ faults = <<>> /\ claims = 0 /\ polling = FALSE /\ pagerThread = FALSE

At(th, p) == thr[th].pc = p
Become(th, l) == thr' = [thr EXCEPT ![th] = l]
Goto(th, p) == Become(th, [thr[th] EXCEPT !.pc = p])

\* anscheduler_alloc of a page; which one it is makes no difference.
HasFrame == frames # Frame
NewFrame == CHOOSE f \in Frame : f \notin frames

-----------------------------------------------------------------------------
(* anscheduler_thread_create and anscheduler_thread_add; the caller has a  *)
(* reference to the task.                                                  *)

\* Once the task is killed only a thread that still runs has a reference to
\* call this with.  At the limit the call fails.
ThreadCreate(th) ==
  /\ \/ state = "live"
     \/ state = "killed" /\ \E o \in Thread : At(o, "run")
  /\ At(th, "none")
  /\ \E i \in Stack \ stacks :
       /\ stacks' = stacks \cup {i}
       /\ Become(th, [NoThread EXCEPT !.pc = "new", !.stack = i])
  /\ UNCHANGED <<state, kern, user, frames, pagerVars>>

\* _alloc_kernel_stack; what was mapped at the index before is replaced.
AllocKernelStack(th) ==
  /\ At(th, "new") /\ HasFrame
  /\ frames' = frames \cup {NewFrame}
  /\ kern' = [kern EXCEPT ![thr[th].stack] = NewFrame]
  /\ Become(th, [thr[th] EXCEPT !.pc = "kstack", !.frame = NewFrame])
  /\ UNCHANGED <<state, stacks, user, pagerVars>>

\* The page, or the memory for mapping it, cannot be allocated.
AllocKernelStackFails(th) ==
  /\ At(th, "new")
  /\ Goto(th, "giveback")
  /\ UNCHANGED <<state, vmVars, pagerVars>>

\* _map_user_stack, and the new thread is queued unless the task was killed.
MapUserStack(th) ==
  /\ At(th, "kstack")
  /\ user' = [user EXCEPT ![thr[th].stack] = [flag |-> "lazy", frame |-> NULL]]
  /\ Goto(th, IF state = "live" THEN "run" ELSE "stop")
  /\ UNCHANGED <<state, stacks, kern, frames, pagerVars>>

\* _map_user_stack fails and unmaps what it mapped; _dealloc_kernel_stack
MapUserStackFails(th) ==
  LET i == thr[th].stack IN
    /\ At(th, "kstack")
    /\ kern' = [kern EXCEPT ![i] = NULL]
    /\ frames' = frames \ {kern[i]}
    /\ Become(th, [thr[th] EXCEPT !.pc = "giveback", !.frame = NULL])
    /\ UNCHANGED <<state, stacks, user, pagerVars>>

GiveBackStack(th) ==
  /\ At(th, "giveback")
  /\ stacks' = stacks \ {thr[th].stack}
  /\ Become(th, NoThread)
  /\ UNCHANGED <<state, kern, user, frames, pagerVars>>

-----------------------------------------------------------------------------
(* anscheduler_thread_exit, and _free_task_method for the threads that are *)
(* left; both free the user stack with anscheduler_thread_deallocate.      *)

\* Seeded fault: the index is given back first of all.
ThreadExitHasty(th) ==
  /\ At(th, "run") /\ state \in {"live", "killed"}
  /\ stacks' = stacks \ {thr[th].stack}
  /\ Goto(th, "exit")
  /\ UNCHANGED <<state, kern, user, frames, pagerVars>>

ThreadExit(th) ==
  /\ At(th, "run") /\ state \in {"live", "killed"}
  /\ Goto(th, "exit")
  /\ UNCHANGED <<state, vmVars, pagerVars>>

\* Seeded fault: a thread that was stopped in its exit is passed over.
ReapableStopped(th) == At(th, "stop")
Reapable(th) == thr[th].pc \in {"stop", "exit", "exit2"}

\* The kill job takes a thread, which may have been stopped in its exit.
KillThread(th) ==
  /\ state = "reaping" /\ Reapable(th)
  /\ \A o \in Thread : thr[o].pc \notin {"reap", "reap2", "reap3"}
  /\ Goto(th, "reap")
  /\ UNCHANGED <<state, vmVars, pagerVars>>

\* An exiting thread can be stopped for ever once its task is killed.
Deallocates(th, p, q) ==
  \/ At(th, p) /\ state \in {"live", "killed"}
  \/ At(th, q)

\* Seeded fault: a page is unmapped at once, and its frame forgotten.
UnmappedForgotten(p) == NoPage
\* The first loop: a present page is marked to be freed next.  A page that was
\* never allocated stays, because the test there reads !page for !phyPage.
Unmapped(p) == IF p.flag = "present" THEN [p EXCEPT !.flag = "dead"] ELSE p

UnmapStack(th) ==
  LET i == thr[th].stack IN
    /\ Deallocates(th, "exit", "reap")
    /\ user' = [user EXCEPT ![i] = Unmapped(@)]
    /\ Goto(th, IF At(th, "exit") THEN "exit2" ELSE "reap2")
    /\ UNCHANGED <<state, stacks, kern, frames, pagerVars>>

\* The second loop: unmap, and free the frame if the page was marked.  Nobody
\* has the frame of a page that another thread's fault allocated in between.
FreeStack(th) ==
  LET i == thr[th].stack
      p == user[i] IN
    /\ Deallocates(th, "exit2", "reap2")
    /\ user' = [user EXCEPT ![i] = NoPage]
    /\ \/ p.flag = "dead" /\ frames' = frames \ {p.frame}
       \/ p.flag = "lazy" /\ frames' = frames
       \/ p.flag = "present" /\ frames' = frames
    /\ Goto(th, IF At(th, "exit2") THEN "unlink" ELSE "reap3")
    /\ UNCHANGED <<state, stacks, kern, pagerVars>>

\* anscheduler_thread_kernel_stack
KernelStack(th) == kern[thr[th].stack]

\* _finalize_thread_exit: the stack index is given back, ...
FinalizeThreadExit(th) ==
  /\ At(th, "unlink")
  /\ stacks' = stacks \ {thr[th].stack}
  /\ Goto(th, "final")
  /\ UNCHANGED <<state, kern, user, frames, pagerVars>>

\* ... and then the kernel stack is looked up by that index and freed.  By now
\* it may be that of a new thread with the index, or none; it stays mapped.
FreeKernelStack(th) ==
  LET f == KernelStack(th) IN
    /\ thr[th].pc \in {"final", "reap3"}
    /\ \/ f = thr[th].frame /\ frames' = frames \ {f}
       \/ f \notin {thr[th].frame, NULL} /\ frames' = frames \ {f}
       \/ f = NULL /\ frames' = frames
    /\ Become(th, NoThread)
    /\ UNCHANGED <<state, stacks, kern, user, pagerVars>>

-----------------------------------------------------------------------------
(* anscheduler_page_fault.                                                 *)

\* The processor finds page i not present; the handler comes later.
Fault(th) ==
  /\ At(th, "run") /\ state \in {"live", "killed"}
  /\ \E i \in Stack, w \in BOOLEAN :
       /\ user[i].flag # "present"
       /\ Become(th, [thr[th] EXCEPT !.pc = "fault", !.page = i, !.write = w])
  /\ UNCHANGED <<state, vmVars, pagerVars>>

\* An access that the mapping does not allow is up to the pager.
ProtectionFault(th) ==
  /\ At(th, "run") /\ state \in {"live", "killed"}
  /\ Goto(th, "push")
  /\ UNCHANGED <<state, vmVars, pagerVars>>

\* The fault is dealt with here: go on at p.
Handled(th, p) == Become(th, [thr[th] EXCEPT !.pc = p, !.page = NULL, !.write = FALSE])

\* The handler, under vmLock: allocate the page, which goes wrong if there is
\* no memory, try again when another thread has done so, or leave it to the
\* pager.  All user pages are writable, and it is the read, not the write, that
\* is tried again.
PageFault(th) ==
  LET i == thr[th].page IN
    /\ At(th, "fault")
    /\ \/ /\ user[i].flag = "lazy" /\ HasFrame
          /\ frames' = frames \cup {NewFrame}
          /\ user' = [user EXCEPT ![i] = [flag |-> "present", frame |-> NewFrame]]
          /\ Handled(th, "run")
       \/ /\ user[i].flag = "lazy"
          /\ Handled(th, "wild")
          /\ UNCHANGED <<user, frames>>
       \/ /\ user[i].flag # "lazy"
          /\ Handled(th, IF user[i].flag = "present" /\ ~thr[th].write THEN "run" ELSE "push")
          /\ UNCHANGED <<user, frames>>
    /\ UNCHANGED <<state, stacks, kern, pagerVars>>

\* Seeded fault: the CPU keeps the thread.
SuspendedNot == "run"
\* The CPU has let go of the thread.
Suspended == "queued"

\* _push_page_fault: without a pager the task exits.  Otherwise the CPU lets go
\* of the thread, whose reference to the task stays with the queued fault.
PushPageFault(th) ==
  /\ At(th, "push")
  /\ IF pagerThread
       THEN /\ claims < MaxClaims
            /\ faults' = Append(faults, th) /\ claims' = claims + 1
            /\ Goto(th, Suspended) /\ UNCHANGED state
       ELSE /\ state' = "killed"
            /\ Goto(th, "stop") /\ UNCHANGED <<faults, claims>>
  /\ UNCHANGED <<vmVars, polling, pagerThread>>

\* The CPU clears isPolling and runs the pager if it was set.
ClaimPager ==
  /\ claims > 0
  /\ claims' = claims - 1 /\ polling' = FALSE
  /\ UNCHANGED <<state, thr, vmVars, faults, pagerThread>>

-----------------------------------------------------------------------------
(* The system pager.                                                       *)

\* anscheduler_pager_set, once: "system pager may never die".
PagerSet ==
  /\ ~pagerThread
  /\ pagerThread' = TRUE
  /\ UNCHANGED <<state, thr, vmVars, faults, claims, polling>>

\* Seeded fault: the pager goes to sleep without looking at the queue.
PagerIdleUnseen == TRUE
PagerIdle == faults = <<>>

\* anscheduler_thread_poll, under the pager's lock
PagerPoll ==
  /\ pagerThread /\ ~polling /\ PagerIdle
  /\ polling' = TRUE
  /\ UNCHANGED <<state, thr, vmVars, faults, claims, pagerThread>>

\* anscheduler_pager_peek and anscheduler_pager_shift; the pager then has the
\* thread run again, or kills the task.
PagerShift ==
  /\ pagerThread /\ ~polling /\ faults # <<>>
  /\ faults' = Tail(faults)
  /\ state' \in {state, "killed"}
  /\ Goto(Head(faults), IF state' = "live" THEN "run" ELSE "stop")
  /\ UNCHANGED <<vmVars, claims, polling, pagerThread>>

-----------------------------------------------------------------------------
(* The task.                                                               *)

TaskKill ==
  /\ state = "live"
  /\ state' = "killed"
  /\ UNCHANGED <<thr, vmVars, pagerVars>>

\* A thread of a killed task is not run again after the next interrupt.
ThreadStop(th) ==
  /\ state = "killed" /\ At(th, "run")
  /\ Goto(th, "stop")
  /\ UNCHANGED <<state, vmVars, pagerVars>>

\* Nobody has a reference: no thread runs or is in a critical section, and none
\* waits for the pager.
GenerateKillJob ==
  /\ state = "killed"
  /\ \A th \in Thread : thr[th].pc \in {"none", "stop", "exit", "exit2"}
  /\ state' = "reaping"
  /\ UNCHANGED <<thr, vmVars, pagerVars>>

\* The address space and the task are freed, but no frame that is mapped.
FreeTask ==
  /\ state = "reaping" /\ \A th \in Thread : At(th, "none")
  /\ state' = "free"
  /\ stacks' = {} /\ kern' = [i \in Stack |-> NULL] /\ user' = [i \in Stack |-> NoPage]
  /\ UNCHANGED <<thr, frames, pagerVars>>

TaskCreate ==
  /\ state = "free"
  /\ state' = "live"
  /\ UNCHANGED <<thr, vmVars, pagerVars>>

-----------------------------------------------------------------------------
\* The page fault handler has not written to a null pointer.
Running == \A th \in Thread : ~At(th, "wild")

\* What a thread, or the kernel on its behalf, goes on with by itself
Proceed(th) ==
  \/ AllocKernelStack(th) \/ AllocKernelStackFails(th) \/ MapUserStack(th)
  \/ MapUserStackFails(th) \/ GiveBackStack(th) \/ FinalizeThreadExit(th)
  \/ FreeKernelStack(th) \/ PageFault(th) \/ PushPageFault(th)

KillJob ==
  \/ FreeTask
  \/ \E th \in Thread :
       KillThread(th) \/ (state = "reaping" /\ (UnmapStack(th) \/ FreeStack(th)))

Next ==
  \/ /\ Running
     /\ \/ \E th \in Thread :
             \/ ThreadCreate(th) \/ ThreadExit(th) \/ Fault(th) \/ ProtectionFault(th) \/ Proceed(th)
             \/ ThreadStop(th) \/ KillThread(th) \/ UnmapStack(th) \/ FreeStack(th)
        \/ ClaimPager \/ PagerSet \/ PagerPoll \/ PagerShift
        \/ TaskKill \/ GenerateKillJob \/ FreeTask \/ TaskCreate
  \/ ~Running /\ UNCHANGED vars

Spec == Init /\ [][Next]_vars

\* Critical sections go on, a timer interrupt comes however often the thread
\* faults before it, the run loop comes back to the kill job and to the
\* pager (Scheduler), and the pager answers the faults it finds.
Fairness ==
  /\ \A th \in Thread : WF_vars(Running /\ Proceed(th)) /\ SF_vars(Running /\ ThreadStop(th))
  /\ WF_vars(Running /\ KillJob) /\ WF_vars(Running /\ GenerateKillJob)
  /\ WF_vars(Running /\ ClaimPager) /\ WF_vars(Running /\ PagerShift)

FairSpec == Spec /\ Fairness

-----------------------------------------------------------------------------
(* Properties.                                                             *)

Phase == {"none", "new", "kstack", "giveback", "run", "stop", "exit", "exit2", "unlink", "final",
          "reap", "reap2", "reap3", "fault", "push", "queued", "wild"}

ThreadState ==
  [pc : Phase, stack : Stack \cup {NULL}, frame : Frame \cup {NULL},
   page : Stack \cup {NULL}, write : BOOLEAN]

\* Every variable has its type.
TypeOK ==
  /\ state \in {"live", "killed", "reaping", "free"}
  /\ thr \in [Thread -> ThreadState]
  /\ stacks \subseteq Stack /\ frames \subseteq Frame
  /\ kern \in [Stack -> Frame \cup {NULL}]
  /\ user \in [Stack -> [flag : {"none", "lazy", "present", "dead"}, frame : Frame \cup {NULL}]]
  /\ faults \in Seq(Thread) /\ claims \in 0 .. MaxClaims
  /\ polling \in BOOLEAN /\ pagerThread \in BOOLEAN

\* A thread that can run has a stack index that no other thread uses but one
\* at the end of its exit, the kernel stack made for it mapped there, and a
\* user stack page that is there or will be.  (That the frame of the kernel
\* stack is still allocated is in FramesExact, with its exceptions.)
StacksOwned ==
  /\ TypeOK
  /\ \A th \in Thread : thr[th].pc \in {"run", "fault", "push", "queued"} =>
       LET i == thr[th].stack IN
         /\ i \in stacks
         /\ \A o \in Thread \ {th} : thr[o].stack = i => At(o, "final")
         /\ kern[i] = thr[th].frame
         /\ user[i].flag \in {"lazy", "present"}

\* Every allocated frame is in exactly one place, a kernel stack or a user
\* page, and no place has a frame that was freed: nothing is leaked, wherever
\* a thread was stopped, and nobody's stack is given to somebody else.
FramesExact ==
  LET K == {th \in Thread : thr[th].frame # NULL}
      U == {i \in Stack : user[i].frame # NULL} IN
    /\ frames = {thr[th].frame : th \in K} \cup {user[i].frame : i \in U}
    /\ \A th, o \in K : thr[th].frame = thr[o].frame => th = o
    /\ \A i, j \in U : user[i].frame = user[j].frame => i = j
    /\ \A th \in K, i \in U : thr[th].frame # user[i].frame

\* _finalize_thread_exit frees what is mapped at an index it no longer has,
\* and anscheduler_thread_deallocate unmaps a page it has not marked.
FreesOther == \E th \in Thread : FreeKernelStack(th) /\ KernelStack(th) # thr[th].frame
LosesPage == \E th \in Thread : FreeStack(th) /\ user[thr[th].stack].flag = "present"

\* These two are the only steps of the code that break FramesExact: creation,
\* exit, fault, kill and their failures keep it however they interleave.
FramesLostOnlyByRaces ==
  FramesExact /\ [][FramesExact => FramesExact' \/ FreesOther \/ LosesPage]_vars

\* A thread whose fault is queued is suspended, queued once, and its task is
\* neither freed nor being freed: the reference went into the queue with it.
\* And the pager does not sleep on a fault: if one is queued and the pager
\* polls, a CPU is on its way to wake it.
FaultsKept ==
  /\ \A th \in ToSet(faults) : At(th, "queued") /\ state \in {"live", "killed"}
  /\ IsInjective(faults)
  /\ polling /\ faults # <<>> => claims > 0

\* Every queued fault is answered: no thread waits for a pager that polls.
FaultAnswered == \A th \in Thread : At(th, "queued") ~> ~At(th, "queued") \/ ~Running

\* A killed task is freed with all its threads, wherever they were stopped: in
\* an exit, in a fault, or waiting for the pager.
KilledIsFreed == state = "killed" ~> state = "free" \/ ~Running
=============================================================================
