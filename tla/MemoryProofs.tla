---------------------------- MODULE MemoryProofs ----------------------------
(***************************************************************************)
(* Stacks, frames and queued faults of Memory, for any number of threads,  *)
(* frames and stack indexes: the inductive invariant and the three safety  *)
(* properties that follow from it.                                         *)
(***************************************************************************)
EXTENDS Memory, TLAPS

\* Where a thread has a user stack: it can run, or ran when it was stopped
Runnable == {"run", "fault", "push", "queued", "stop", "exit", "wild"}
\* ... or is being taken down and its user stack is still mapped
UserMapped == Runnable \cup {"exit2", "reap", "reap2"}
\* Where the kernel stack of its index is its own
KernelMapped == UserMapped \cup {"kstack", "unlink", "reap3"}
\* Where its stack index is its own
Indexed == KernelMapped \cup {"new", "giveback"}

\* A stack index belongs to one thread, until anscheduler_thread_exit or a
\* failed creation gives it back, and a thread faults on a page of some index.
Indexes ==
  /\ \A th \in Thread : /\ thr[th].pc \in Indexed => thr[th].stack \in stacks
                        /\ At(th, "final") => thr[th].stack \in Stack
                        /\ At(th, "none") => thr[th] = NoThread
                        /\ At(th, "fault") => thr[th].page \in Stack
  /\ \A th, o \in Thread : /\ thr[th].pc \in Indexed /\ thr[o].pc \in Indexed
                           /\ thr[th].stack = thr[o].stack
                           => th = o

\* A thread knows the frame of its kernel stack, and as long as it has its
\* index that frame is mapped there.
KernelStacks ==
  \A th \in Thread :
    /\ thr[th].pc \in KernelMapped \cup {"final"} => thr[th].frame \in Frame
    /\ thr[th].pc \in KernelMapped => kern[thr[th].stack] = thr[th].frame
    /\ thr[th].pc \in {"none", "new", "giveback"} => thr[th].frame = NULL

\* A user stack page is mapped exactly for the threads that have one, and has
\* a frame exactly if it was allocated.
UserStacks ==
  /\ \A th \in Thread :
       /\ thr[th].pc \in UserMapped => user[thr[th].stack].flag # "none"
       /\ thr[th].pc \in Runnable => user[thr[th].stack].flag # "dead"
  /\ \A i \in Stack :
       /\ user[i].frame # NULL <=> user[i].flag \in {"present", "dead"}
       /\ user[i].flag # "none" => \E th \in Thread : thr[th].pc \in UserMapped /\ thr[th].stack = i

\* Once the kill job exists no thread is in the kernel but to be taken down.
Quiet ==
  \A th \in Thread :
    /\ state = "reaping" => thr[th].pc \in {"none", "stop", "exit", "exit2", "reap", "reap2", "reap3"}
    /\ state = "free" => At(th, "none")

\* Nothing is said of frames here: this holds whether or not one was lost.
IInv == TypeOK /\ FaultsKept /\ Indexes /\ KernelStacks /\ UserStacks /\ Quiet

\* What a step does that breaks nothing
Keeps == IInv' /\ (FramesExact => FramesExact')

-----------------------------------------------------------------------------
(* Helpers.                                                                *)

\* What a step writes into a thread has the type of a thread.
LEMMA ThreadStates ==
  /\ NoThread \in ThreadState
  /\ \A i \in Stack : [NoThread EXCEPT !.pc = "new", !.stack = i] \in ThreadState
  /\ \A r \in ThreadState, p \in Phase : [r EXCEPT !.pc = p] \in ThreadState
  /\ \A r \in ThreadState, p \in Phase, f \in Frame \cup {NULL} :
       [r EXCEPT !.pc = p, !.frame = f] \in ThreadState
  /\ \A r \in ThreadState, p \in Phase, i \in Stack \cup {NULL}, w \in BOOLEAN :
       [r EXCEPT !.pc = p, !.page = i, !.write = w] \in ThreadState
<1>1. NoThread \in ThreadState
  BY DEF ThreadState, NoThread, Phase
<1>2. ASSUME NEW i \in Stack PROVE [NoThread EXCEPT !.pc = "new", !.stack = i] \in ThreadState
  BY DEF ThreadState, NoThread, Phase
<1> QED
  BY <1>1, <1>2 DEF ThreadState

\* Some frame is free when the allocation of a page succeeds.
LEMMA FrameIsNew == TypeOK /\ HasFrame => NewFrame \in Frame /\ NewFrame \notin frames
BY DEF TypeOK, HasFrame, NewFrame

\* A step that leaves every frame where it is
LEMMA SameFrames ==
  ASSUME FramesExact, frames' = frames,
         \A th \in Thread : thr'[th].frame = thr[th].frame,
         \A i \in Stack : user'[i].frame = user[i].frame
  PROVE  FramesExact'
BY DEF FramesExact

\* Most steps only move a thread from one place to another where it has the
\* same stacks.
LEMMA Moves ==
  ASSUME IInv, NEW th \in Thread, NEW l \in ThreadState, Become(th, l),
         l.stack = thr[th].stack, l.frame = thr[th].frame,
         thr[th].pc \in UserMapped, l.pc \in UserMapped,
         l.pc \in Runnable => thr[th].pc \in Runnable,
         l.pc = "fault" => l.page \in Stack,
         UNCHANGED vmVars
  PROVE  Indexes' /\ KernelStacks' /\ UserStacks' /\ (FramesExact => FramesExact')
<1> USE DEF IInv, Become, vmVars
<1> thr \in [Thread -> ThreadState]
  BY DEF TypeOK
<1>1. Indexes'
  BY DEF Indexes, At, UserMapped, KernelMapped, Indexed, Runnable
<1>2. KernelStacks'
  BY DEF KernelStacks, UserMapped, KernelMapped, Runnable
<1>3. UserStacks'
  BY DEF UserStacks, UserMapped, Runnable
<1>4. FramesExact => FramesExact'
  BY SameFrames
<1> QED
  BY <1>1, <1>2, <1>3, <1>4

\* A fault that is queued last: the queue has one more member.
LEMMA AppendIsInjective ==
  ASSUME NEW S, NEW s \in Seq(S), NEW e \in S, e \notin ToSet(s), IsInjective(s)
  PROVE  ToSet(Append(s, e)) = ToSet(s) \cup {e} /\ IsInjective(Append(s, e))
<1> DEFINE t == Append(s, e)
<1>1. /\ t \in Seq(S) /\ Len(t) = Len(s) + 1 /\ Len(s) \in Nat
      /\ \A i \in 1 .. Len(s) : t[i] = s[i]
      /\ t[Len(s) + 1] = e
  OBVIOUS
<1>2. DOMAIN t = 1 .. Len(s) + 1 /\ DOMAIN s = 1 .. Len(s)
  BY <1>1
<1> HIDE DEF t
<1>3. \A i \in 1 .. Len(s) + 1 : i \in 1 .. Len(s) \/ i = Len(s) + 1
  BY <1>1
<1>3a. 1 .. Len(s) \subseteq 1 .. Len(s) + 1 /\ Len(s) + 1 \in 1 .. Len(s) + 1
  BY <1>1
<1>4. ToSet(t) = ToSet(s) \cup {e}
  BY <1>1, <1>2, <1>3, <1>3a DEF ToSet
<1>5. \A i \in 1 .. Len(s) : s[i] # e
  BY <1>2 DEF ToSet
<1>6. IsInjective(t)
  BY <1>1, <1>2, <1>3, <1>5 DEF IsInjective
<1> QED
  BY <1>4, <1>6 DEF t

\* A fault that is taken from the head: the rest of the queue stays.
LEMMA TailIsInjective ==
  ASSUME NEW S, NEW s \in Seq(S), s # <<>>, IsInjective(s)
  PROVE  /\ Tail(s) \in Seq(S) /\ IsInjective(Tail(s))
         /\ ToSet(Tail(s)) \subseteq ToSet(s) \ {Head(s)}
<1> DEFINE t == Tail(s)
<1>1. /\ t \in Seq(S) /\ Len(t) = Len(s) - 1 /\ Len(s) \in Nat /\ Len(s) > 0
      /\ \A i \in 1 .. Len(t) : t[i] = s[i + 1]
      /\ Head(s) = s[1]
  OBVIOUS
<1>2. DOMAIN t = 1 .. Len(t) /\ DOMAIN s = 1 .. Len(s)
  BY <1>1
<1> HIDE DEF t
<1>3. \A i \in DOMAIN t : i + 1 \in DOMAIN s /\ i + 1 # 1 /\ t[i] = s[i + 1]
  BY <1>1, <1>2
<1>4. 1 \in DOMAIN s
  BY <1>1, <1>2
<1>5. IsInjective(t)
  <2> SUFFICES ASSUME NEW i \in DOMAIN t, NEW j \in DOMAIN t, t[i] = t[j] PROVE i = j
    BY DEF IsInjective
  <2>1. i + 1 = j + 1
    BY <1>3 DEF IsInjective
  <2> QED
    BY <1>1, <1>2, <2>1
<1>6. ToSet(t) \subseteq ToSet(s) \ {s[1]}
  BY <1>3, <1>4 DEF ToSet, IsInjective
<1> QED
  BY <1>1, <1>5, <1>6 DEF t

-----------------------------------------------------------------------------
(* One lemma per action.                                                   *)

\* anscheduler_thread_create takes an index that is free, so nobody else has it.
LEMMA ThreadCreateStep ==
  ASSUME IInv, NEW th \in Thread, ThreadCreate(th)
  PROVE  Keeps
<1> USE MemoryAssumption DEF MemoryAssumption, IInv, Keeps, At, Become, Goto, vmVars, pagerVars,
        ThreadCreate
<1>1. TypeOK'
  BY ThreadStates, ZenonT(30) DEF TypeOK, Phase
<1>2. FaultsKept'
  BY DEF TypeOK, FaultsKept, ToSet, IsInjective, ThreadState
<1>3. Indexes'
  BY DEF TypeOK, Indexes, NoThread, Indexed, KernelMapped, UserMapped, Runnable
<1>4. KernelStacks'
  BY DEF TypeOK, KernelStacks, Indexes, NoThread, Indexed, KernelMapped, UserMapped, Runnable
<1>5. UserStacks'
  BY DEF TypeOK, UserStacks, Indexes, NoPage, NoThread, Indexed, KernelMapped, UserMapped, Runnable
<1>6. FramesExact => FramesExact'
  BY SameFrames DEF TypeOK, NoPage, KernelStacks, UserStacks, NoThread, Indexed, KernelMapped,
      UserMapped, Runnable
<1>7. Quiet'
  BY DEF TypeOK, Quiet
<1> QED
  BY <1>1, <1>2, <1>3, <1>4, <1>5, <1>6, <1>7

\* The frame of a new kernel stack is one that nobody had.
LEMMA AllocKernelStackStep ==
  ASSUME IInv, NEW th \in Thread, AllocKernelStack(th)
  PROVE  Keeps
<1> USE MemoryAssumption DEF MemoryAssumption, IInv, Keeps, At, Become, Goto, vmVars, pagerVars,
        AllocKernelStack
<1>0. NewFrame \in Frame /\ NewFrame \notin frames
  BY FrameIsNew
<1> DEFINE f == NewFrame
<1> HIDE DEF f
<1>1. TypeOK'
  BY <1>0, ThreadStates DEF TypeOK, Phase, f
<1>2. FaultsKept'
  BY DEF TypeOK, FaultsKept, ToSet, IsInjective, ThreadState
<1>3. Indexes'
  BY DEF TypeOK, Indexes, NoThread, Indexed, KernelMapped, UserMapped, Runnable
<1>4. KernelStacks'
  BY <1>0 DEF TypeOK, KernelStacks, Indexes, f, NoThread, Indexed, KernelMapped, UserMapped,
      Runnable
<1>5. UserStacks'
  BY SMTT(30) DEF TypeOK, UserStacks, Indexes, NoPage, NoThread, Indexed, KernelMapped, UserMapped, Runnable
<1>6. FramesExact => FramesExact'
  BY <1>0 DEF TypeOK, FramesExact, KernelStacks, NoThread, Indexed, KernelMapped, UserMapped,
      Runnable
<1>7. Quiet'
  BY DEF TypeOK, Quiet
<1> QED
  BY <1>1, <1>2, <1>3, <1>4, <1>5, <1>6, <1>7

\* A thread without a kernel stack only has its index to give back.
LEMMA AllocKernelStackFailsStep ==
  ASSUME IInv, NEW th \in Thread, AllocKernelStackFails(th)
  PROVE  Keeps
<1> USE MemoryAssumption DEF MemoryAssumption, IInv, Keeps, At, Become, Goto, vmVars, pagerVars,
        AllocKernelStackFails
<1>1. TypeOK'
  BY ThreadStates DEF TypeOK, Phase
<1>2. FaultsKept'
  BY DEF TypeOK, FaultsKept, ToSet, IsInjective, ThreadState
<1>3. Indexes'
  BY DEF TypeOK, Indexes, NoThread, Indexed, KernelMapped, UserMapped, Runnable
<1>4. KernelStacks'
  BY DEF TypeOK, KernelStacks, Indexes, NoThread, Indexed, KernelMapped, UserMapped, Runnable
<1>5. UserStacks'
  BY DEF TypeOK, UserStacks, Indexes, NoPage, NoThread, Indexed, KernelMapped, UserMapped, Runnable
<1>6. FramesExact => FramesExact'
  BY SameFrames DEF TypeOK, NoPage, KernelStacks, UserStacks, NoThread, Indexed, KernelMapped,
      UserMapped, Runnable
<1>7. Quiet'
  BY DEF TypeOK, Quiet
<1> QED
  BY <1>1, <1>2, <1>3, <1>4, <1>5, <1>6, <1>7

\* The new user stack page is mapped at an index where there was none.
LEMMA MapUserStackStep ==
  ASSUME IInv, NEW th \in Thread, MapUserStack(th)
  PROVE  Keeps
<1> USE MemoryAssumption DEF MemoryAssumption, IInv, Keeps, At, Become, Goto, vmVars, pagerVars,
        MapUserStack
<1>1. TypeOK'
  BY ThreadStates DEF TypeOK, Phase
<1>2. FaultsKept'
  BY DEF TypeOK, FaultsKept, ToSet, IsInjective, ThreadState
<1>3. Indexes'
  BY DEF TypeOK, Indexes, NoThread, Indexed, KernelMapped, UserMapped, Runnable
<1>4. KernelStacks'
  BY DEF TypeOK, KernelStacks, Indexes, NoThread, Indexed, KernelMapped, UserMapped, Runnable
<1>5. UserStacks'
  BY DEF TypeOK, UserStacks, Indexes, NoPage, NoThread, Indexed, KernelMapped, UserMapped, Runnable
<1>6. FramesExact => FramesExact'
  <2>1. user[thr[th].stack].frame = NULL
    <3>1. thr[th].stack \in Stack
      BY DEF TypeOK, Indexes, Indexed, KernelMapped
    <3> QED
      BY <3>1 DEF TypeOK, UserStacks, Indexes, Indexed, KernelMapped, UserMapped, Runnable
  <2> QED
    BY <2>1, SameFrames DEF TypeOK
<1>7. Quiet'
  BY DEF TypeOK, Quiet
<1> QED
  BY <1>1, <1>2, <1>3, <1>4, <1>5, <1>6, <1>7

\* Giving up a new thread frees the frame of its kernel stack and no other.
LEMMA MapUserStackFailsStep ==
  ASSUME IInv, NEW th \in Thread, MapUserStackFails(th)
  PROVE  Keeps
<1> USE MemoryAssumption DEF MemoryAssumption, IInv, Keeps, At, Become, Goto, vmVars, pagerVars,
        MapUserStackFails
<1>1. TypeOK'
  BY ThreadStates DEF TypeOK, Phase
<1>2. FaultsKept'
  BY DEF TypeOK, FaultsKept, ToSet, IsInjective, ThreadState
<1>3. Indexes'
  BY DEF TypeOK, Indexes, NoThread, Indexed, KernelMapped, UserMapped, Runnable
<1>4. KernelStacks'
  BY DEF TypeOK, KernelStacks, Indexes, NoThread, Indexed, KernelMapped, UserMapped, Runnable
<1>5. UserStacks'
  BY DEF TypeOK, UserStacks, Indexes, NoPage, NoThread, Indexed, KernelMapped, UserMapped, Runnable
<1>6. FramesExact => FramesExact'
  BY DEF TypeOK, FramesExact, KernelStacks, NoThread, Indexed, KernelMapped, UserMapped, Runnable
<1>7. Quiet'
  BY DEF TypeOK, Quiet
<1> QED
  BY <1>1, <1>2, <1>3, <1>4, <1>5, <1>6, <1>7

\* A failed creation gives back an index that nobody else has.
LEMMA GiveBackStackStep ==
  ASSUME IInv, NEW th \in Thread, GiveBackStack(th)
  PROVE  Keeps
<1> USE MemoryAssumption DEF MemoryAssumption, IInv, Keeps, At, Become, Goto, vmVars, pagerVars,
        GiveBackStack
<1>1. TypeOK'
  BY ThreadStates DEF TypeOK, Phase
<1>2. FaultsKept'
  BY DEF TypeOK, FaultsKept, ToSet, IsInjective, ThreadState
<1>3. Indexes'
  BY DEF TypeOK, Indexes, NoThread, Indexed, KernelMapped, UserMapped, Runnable
<1>4. KernelStacks'
  BY DEF TypeOK, KernelStacks, Indexes, NoThread, Indexed, KernelMapped, UserMapped, Runnable
<1>5. UserStacks'
  BY DEF TypeOK, UserStacks, NoThread, UserMapped, Runnable
<1>6. FramesExact => FramesExact'
  BY SameFrames DEF TypeOK, NoPage, KernelStacks, UserStacks, NoThread, Indexed, KernelMapped,
      UserMapped, Runnable
<1>7. Quiet'
  BY DEF TypeOK, Quiet
<1> QED
  BY <1>1, <1>2, <1>3, <1>4, <1>5, <1>6, <1>7

\* An exiting thread keeps its stacks for now.
LEMMA ThreadExitStep ==
  ASSUME IInv, NEW th \in Thread, ThreadExit(th)
  PROVE  Keeps
<1> USE MemoryAssumption DEF MemoryAssumption, IInv, Keeps, At, Become, Goto, vmVars, pagerVars,
        ThreadExit
<1> DEFINE l == [thr[th] EXCEPT !.pc = "exit"]
<1>a. thr[th] \in ThreadState
  BY DEF TypeOK
<1>b. l \in ThreadState
  BY <1>a, ThreadStates DEF Phase
<1>c. /\ l.stack = thr[th].stack /\ l.frame = thr[th].frame
      /\ thr[th].pc \in UserMapped /\ l.pc \in UserMapped
      /\ l.pc \in Runnable => thr[th].pc \in Runnable
      /\ l.pc = "fault" => l.page \in Stack
  BY <1>a DEF ThreadState, UserMapped, Runnable
<1>1. TypeOK'
  BY <1>b DEF TypeOK
<1>2. FaultsKept'
  BY DEF TypeOK, FaultsKept, ToSet, IsInjective, ThreadState
<1>3. Indexes' /\ KernelStacks' /\ UserStacks' /\ (FramesExact => FramesExact')
  <2>1. Become(th, l)
    OBVIOUS
  <2> HIDE DEF l, Become
  <2> QED
    BY <1>b, <1>c, <2>1, Moves
<1>4. Quiet'
  BY DEF TypeOK, Quiet
<1> QED
  BY <1>1, <1>2, <1>3, <1>4

\* The kill job takes a thread with the stacks it was stopped with.
LEMMA KillThreadStep ==
  ASSUME IInv, NEW th \in Thread, KillThread(th)
  PROVE  Keeps
<1> USE MemoryAssumption DEF MemoryAssumption, IInv, Keeps, At, Become, Goto, vmVars, pagerVars,
        KillThread, Reapable
<1> DEFINE l == [thr[th] EXCEPT !.pc = "reap"]
<1>a. thr[th] \in ThreadState
  BY DEF TypeOK
<1>b. l \in ThreadState
  BY <1>a, ThreadStates DEF Phase
<1>c. /\ l.stack = thr[th].stack /\ l.frame = thr[th].frame
      /\ thr[th].pc \in UserMapped /\ l.pc \in UserMapped
      /\ l.pc \in Runnable => thr[th].pc \in Runnable
      /\ l.pc = "fault" => l.page \in Stack
  BY <1>a DEF ThreadState, UserMapped, Runnable
<1>1. TypeOK'
  BY <1>b DEF TypeOK
<1>2. FaultsKept'
  BY DEF TypeOK, FaultsKept, ToSet, IsInjective, ThreadState
<1>3. Indexes' /\ KernelStacks' /\ UserStacks' /\ (FramesExact => FramesExact')
  <2>1. Become(th, l)
    OBVIOUS
  <2> HIDE DEF l, Become
  <2> QED
    BY <1>b, <1>c, <2>1, Moves
<1>4. Quiet'
  BY DEF TypeOK, Quiet
<1> QED
  BY <1>1, <1>2, <1>3, <1>4

\* A present page is marked, and its frame stays with it.
LEMMA UnmapStackStep ==
  ASSUME IInv, NEW th \in Thread, UnmapStack(th)
  PROVE  Keeps
<1> USE MemoryAssumption DEF MemoryAssumption, IInv, Keeps, At, Become, Goto, vmVars, pagerVars,
        UnmapStack, Deallocates, Unmapped
<1>1. TypeOK'
  BY ThreadStates, ZenonT(30) DEF TypeOK, Phase
<1>2. FaultsKept'
  BY DEF TypeOK, FaultsKept, ToSet, IsInjective, ThreadState
<1>3. Indexes'
  BY DEF TypeOK, Indexes, NoThread, Indexed, KernelMapped, UserMapped, Runnable
<1>4. KernelStacks'
  BY DEF TypeOK, KernelStacks, Indexes, NoThread, Indexed, KernelMapped, UserMapped, Runnable
<1>5. UserStacks'
  BY DEF TypeOK, UserStacks, Indexes, NoPage, NoThread, Indexed, KernelMapped, UserMapped, Runnable
<1>6. FramesExact => FramesExact'
  BY SameFrames DEF TypeOK, NoPage, KernelStacks, UserStacks, NoThread, Indexed, KernelMapped,
      UserMapped, Runnable
<1>7. Quiet'
  BY DEF TypeOK, Quiet
<1> QED
  BY <1>1, <1>2, <1>3, <1>4, <1>5, <1>6, <1>7

\* The user stack page of the thread is unmapped.  Its frame is freed if it was
\* marked, and lost if it was allocated in between.
LEMMA FreeStackStep ==
  ASSUME IInv, NEW th \in Thread, FreeStack(th)
  PROVE  IInv' /\ (FramesExact => FramesExact' \/ LosesPage)
<1> USE MemoryAssumption DEF MemoryAssumption, IInv, At, Become, Goto, vmVars, pagerVars
<1> DEFINE i == thr[th].stack
           p == user[i]
           q == IF At(th, "exit2") THEN "unlink" ELSE "reap3"
           l == [thr[th] EXCEPT !.pc = q]
<1>a. /\ thr[th] \in ThreadState /\ thr[th].pc \in {"exit2", "reap2"}
      /\ thr' = [thr EXCEPT ![th] = l] /\ user' = [user EXCEPT ![i] = NoPage]
      /\ UNCHANGED <<state, stacks, kern, pagerVars>>
      /\ thr[th].pc = "exit2" => state \in {"live", "killed"}
  BY DEF TypeOK, FreeStack, Deallocates
<1>b. /\ q \in {"unlink", "reap3"} /\ (q = "reap3" <=> ~At(th, "exit2"))
      /\ l \in ThreadState /\ l.pc = q /\ l.stack = i /\ l.frame = thr[th].frame
  <2>1. q \in {"unlink", "reap3"} /\ (q = "reap3" <=> ~At(th, "exit2"))
    OBVIOUS
  <2> HIDE DEF q
  <2>2. q \in Phase
    BY <2>1 DEF Phase
  <2>3. l \in ThreadState
    BY <1>a, <2>2, ThreadStates
  <2>4. l.pc = q /\ l.stack = i /\ l.frame = thr[th].frame
    BY <1>a DEF ThreadState
  <2> QED
    BY <2>1, <2>3, <2>4
<1>c. i \in Stack /\ i \in stacks
  BY <1>a DEF TypeOK, Indexes, Indexed, KernelMapped, UserMapped
<1>d. frames' = IF p.flag = "dead" THEN frames \ {p.frame} ELSE frames
  BY DEF FreeStack
<1> HIDE DEF l, q
<1>1. TypeOK'
  BY <1>a, <1>b, <1>c, <1>d DEF TypeOK, NoPage
<1>2. FaultsKept'
  BY <1>a DEF TypeOK, FaultsKept, ToSet, IsInjective
<1>3. Indexes'
  BY <1>a, <1>b DEF TypeOK, Indexes, Indexed, KernelMapped, UserMapped, Runnable
<1>4. KernelStacks'
  BY <1>a, <1>b DEF TypeOK, KernelStacks, KernelMapped, UserMapped, Runnable
<1>5. UserStacks'
  BY <1>a, <1>b, <1>c DEF TypeOK, UserStacks, Indexes, NoPage, Indexed, KernelMapped,
      UserMapped, Runnable
<1>6. Quiet'
  BY <1>a, <1>b DEF TypeOK, Quiet
<1>7. CASE p.flag = "present"
  BY <1>1, <1>2, <1>3, <1>4, <1>5, <1>6, <1>7 DEF LosesPage
<1>8. CASE p.flag # "present"
  <2>1. frames' = frames \ {p.frame}
    BY <1>c, <1>d, <1>8 DEF UserStacks, TypeOK
  <2>2. \A o \in Thread : thr'[o].frame = thr[o].frame
    BY <1>a, <1>b DEF TypeOK
  <2>3. user'[i].frame = NULL /\ \A j \in Stack \ {i} : user'[j] = user[j]
    BY <1>a, <1>c DEF TypeOK, NoPage
  <2>4. FramesExact => FramesExact'
    BY <1>c, <2>1, <2>2, <2>3 DEF FramesExact
  <2> QED
    BY <1>1, <1>2, <1>3, <1>4, <1>5, <1>6, <2>4
<1> QED
  BY <1>7, <1>8

\* The index is free before the kernel stack is: the thread is then the only one
\* that may share its index with another.
LEMMA FinalizeThreadExitStep ==
  ASSUME IInv, NEW th \in Thread, FinalizeThreadExit(th)
  PROVE  Keeps
<1> USE MemoryAssumption DEF MemoryAssumption, IInv, Keeps, At, Become, Goto, vmVars, pagerVars,
        FinalizeThreadExit
<1>1. TypeOK'
  BY ThreadStates DEF TypeOK, Phase
<1>2. FaultsKept'
  BY DEF TypeOK, FaultsKept, ToSet, IsInjective, ThreadState
<1>3. Indexes'
  BY DEF TypeOK, Indexes, NoThread, Indexed, KernelMapped, UserMapped, Runnable
<1>4. KernelStacks'
  BY DEF TypeOK, KernelStacks, Indexes, NoThread, Indexed, KernelMapped, UserMapped, Runnable
<1>5. UserStacks'
  BY DEF TypeOK, UserStacks, Indexes, NoPage, NoThread, Indexed, KernelMapped, UserMapped, Runnable
<1>6. FramesExact => FramesExact'
  BY SameFrames DEF TypeOK, NoPage, KernelStacks, UserStacks, NoThread, Indexed, KernelMapped,
      UserMapped, Runnable
<1>7. Quiet'
  BY DEF TypeOK, Quiet
<1> QED
  BY <1>1, <1>2, <1>3, <1>4, <1>5, <1>6, <1>7

\* The thread is gone, and with it the kernel stack that is found by its index:
\* its own, or one that another thread has mapped there.
LEMMA FreeKernelStackStep ==
  ASSUME IInv, NEW th \in Thread, FreeKernelStack(th)
  PROVE  IInv' /\ (FramesExact => FramesExact' \/ FreesOther)
<1> USE MemoryAssumption DEF MemoryAssumption, IInv, At, Become, Goto, vmVars, pagerVars
<1> DEFINE f == KernelStack(th)
<1>a. /\ thr[th] \in ThreadState /\ thr[th].pc \in {"final", "reap3"}
      /\ thr' = [thr EXCEPT ![th] = NoThread] /\ frames' \subseteq frames
      /\ UNCHANGED <<state, stacks, kern, user, pagerVars>>
  BY DEF TypeOK, FreeKernelStack
<1>1. TypeOK'
  <2>1. thr' \in [Thread -> ThreadState]
    BY <1>a, ThreadStates DEF TypeOK
  <2> QED
    BY <1>a, <2>1 DEF TypeOK
<1>2. FaultsKept'
  BY <1>a DEF TypeOK, FaultsKept, ToSet, IsInjective
<1>3. Indexes'
  BY <1>a DEF TypeOK, Indexes, NoThread, Indexed, KernelMapped, UserMapped, Runnable
<1>4. KernelStacks'
  BY <1>a DEF TypeOK, KernelStacks, NoThread, KernelMapped, UserMapped, Runnable
<1>5. UserStacks'
  BY <1>a DEF TypeOK, UserStacks, NoThread, UserMapped, Runnable
<1>6. Quiet'
  BY <1>a DEF TypeOK, Quiet, NoThread
<1>7. CASE f = thr[th].frame
  <2>1. thr[th].frame # NULL
    BY <1>a DEF TypeOK, KernelStacks, KernelMapped
  <2>2. frames' = frames \ {thr[th].frame}
    BY <1>7, <2>1 DEF FreeKernelStack
  <2>3. \A o \in Thread \ {th} : thr'[o].frame = thr[o].frame
    BY <1>a DEF TypeOK
  <2>4. thr'[th].frame = NULL
    BY <1>a DEF TypeOK, NoThread
  <2>5. FramesExact => FramesExact'
    BY <1>a, <2>1, <2>2, <2>3, <2>4 DEF FramesExact
  <2> QED
    BY <1>1, <1>2, <1>3, <1>4, <1>5, <1>6, <2>5
<1>8. CASE f # thr[th].frame
  BY <1>1, <1>2, <1>3, <1>4, <1>5, <1>6, <1>8 DEF FreesOther
<1> QED
  BY <1>7, <1>8

\* A fault leaves all stacks as they are.
LEMMA FaultStep ==
  ASSUME IInv, NEW th \in Thread, Fault(th)
  PROVE  Keeps
<1> USE MemoryAssumption DEF MemoryAssumption, IInv, Keeps, At, Become, Goto, vmVars, pagerVars,
        Fault
<1> PICK i \in Stack, w \in BOOLEAN :
       thr' = [thr EXCEPT ![th] = [thr[th] EXCEPT !.pc = "fault", !.page = i, !.write = w]]
  OBVIOUS
<1> DEFINE l == [thr[th] EXCEPT !.pc = "fault", !.page = i, !.write = w]
<1>a. thr[th] \in ThreadState
  BY DEF TypeOK
<1>b. l \in ThreadState
  BY <1>a, ThreadStates DEF Phase
<1>c. /\ l.stack = thr[th].stack /\ l.frame = thr[th].frame
      /\ thr[th].pc \in UserMapped /\ l.pc \in UserMapped
      /\ l.pc \in Runnable => thr[th].pc \in Runnable
      /\ l.pc = "fault" => l.page \in Stack
  BY <1>a DEF ThreadState, UserMapped, Runnable
<1>1. TypeOK'
  BY <1>b DEF TypeOK
<1>2. FaultsKept'
  BY DEF TypeOK, FaultsKept, ToSet, IsInjective, ThreadState
<1>3. Indexes' /\ KernelStacks' /\ UserStacks' /\ (FramesExact => FramesExact')
  <2>1. Become(th, l)
    OBVIOUS
  <2> HIDE DEF l, Become
  <2> QED
    BY <1>b, <1>c, <2>1, Moves
<1>4. Quiet'
  BY DEF TypeOK, Quiet
<1> QED
  BY <1>1, <1>2, <1>3, <1>4

\* A protection fault leaves all stacks as they are.
LEMMA ProtectionFaultStep ==
  ASSUME IInv, NEW th \in Thread, ProtectionFault(th)
  PROVE  Keeps
<1> USE MemoryAssumption DEF MemoryAssumption, IInv, Keeps, At, Become, Goto, vmVars, pagerVars,
        ProtectionFault
<1> DEFINE l == [thr[th] EXCEPT !.pc = "push"]
<1>a. thr[th] \in ThreadState
  BY DEF TypeOK
<1>b. l \in ThreadState
  BY <1>a, ThreadStates DEF Phase
<1>c. /\ l.stack = thr[th].stack /\ l.frame = thr[th].frame
      /\ thr[th].pc \in UserMapped /\ l.pc \in UserMapped
      /\ l.pc \in Runnable => thr[th].pc \in Runnable
      /\ l.pc = "fault" => l.page \in Stack
  BY <1>a DEF ThreadState, UserMapped, Runnable
<1>1. TypeOK'
  BY <1>b DEF TypeOK
<1>2. FaultsKept'
  BY DEF TypeOK, FaultsKept, ToSet, IsInjective, ThreadState
<1>3. Indexes' /\ KernelStacks' /\ UserStacks' /\ (FramesExact => FramesExact')
  <2>1. Become(th, l)
    OBVIOUS
  <2> HIDE DEF l, Become
  <2> QED
    BY <1>b, <1>c, <2>1, Moves
<1>4. Quiet'
  BY DEF TypeOK, Quiet
<1> QED
  BY <1>1, <1>2, <1>3, <1>4

\* The handler of a page fault gives the page a frame that nobody had, or none.
LEMMA PageFaultStep ==
  ASSUME IInv, NEW th \in Thread, PageFault(th)
  PROVE  Keeps
<1> USE MemoryAssumption DEF MemoryAssumption, IInv, Keeps, At, vmVars, pagerVars
<1> DEFINE i == thr[th].page
           l(p) == [thr[th] EXCEPT !.pc = p, !.page = NULL, !.write = FALSE]
<1>a. thr[th] \in ThreadState /\ thr[th].pc = "fault"
  BY DEF TypeOK, PageFault
<1>b. \A p \in Phase : /\ l(p) \in ThreadState /\ l(p).pc = p
                       /\ l(p).stack = thr[th].stack /\ l(p).frame = thr[th].frame
  BY <1>a, ThreadStates, ZenonT(30) DEF ThreadState
<1>c. UNCHANGED <<state, stacks, kern, pagerVars>>
  BY DEF PageFault
<1> HIDE DEF l
<1>1. CASE /\ user[i].flag = "lazy" /\ HasFrame
           /\ frames' = frames \cup {NewFrame}
           /\ user' = [user EXCEPT ![i] = [flag |-> "present", frame |-> NewFrame]]
           /\ Handled(th, "run")
  <2> DEFINE f == NewFrame
             r == l("run")
  <2>1. f \in Frame /\ f \notin frames
    BY <1>1, FrameIsNew
  <2>2. /\ frames' = frames \cup {f}
        /\ user' = [user EXCEPT ![i] = [flag |-> "present", frame |-> f]]
        /\ thr' = [thr EXCEPT ![th] = r]
    BY <1>1 DEF Handled, Become, l
  <2>3. r \in ThreadState /\ r.pc = "run" /\ r.stack = thr[th].stack /\ r.frame = thr[th].frame
    BY <1>b DEF Phase
  <2>4. thr[th].stack \in stacks
    BY <1>a DEF TypeOK, Indexes, Indexed, KernelMapped, UserMapped, Runnable
  <2> HIDE DEF r, f
  <2>5. TypeOK'
    <3>1. thr' \in [Thread -> ThreadState]
      BY <2>2, <2>3 DEF TypeOK
    <3>2. user' \in [Stack -> [flag : {"none", "lazy", "present", "dead"}, frame : Frame \cup {NULL}]]
      BY <2>1, <2>2 DEF TypeOK
    <3>3. frames' \subseteq Frame
      BY <2>1, <2>2 DEF TypeOK
    <3> QED
      BY <1>c, <3>1, <3>2, <3>3 DEF TypeOK
  <2>6. FaultsKept'
    BY <1>a, <1>c, <2>2 DEF TypeOK, FaultsKept, ToSet, IsInjective
  <2>7. Indexes'
    BY <1>a, <1>c, <2>2, <2>3 DEF TypeOK, Indexes, Indexed, KernelMapped, UserMapped, Runnable
  <2>8. KernelStacks'
    BY <1>a, <1>c, <2>2, <2>3 DEF TypeOK, KernelStacks, KernelMapped, UserMapped, Runnable
  <2>9. UserStacks'
    <3>1. \A j \in Stack : j # i => user'[j] = user[j]
      BY <2>2 DEF TypeOK
    <3>2. i \in Stack => user'[i].flag = "present" /\ user'[i].frame = f
      BY <2>2 DEF TypeOK
    <3>3. \A o \in Thread : thr'[o].stack = thr[o].stack /\ (o # th => thr'[o].pc = thr[o].pc)
      BY <2>2, <2>3 DEF TypeOK
    <3>4. thr'[th].pc = "run"
      BY <2>2, <2>3 DEF TypeOK
    <3>5. \A o \in Thread : thr'[o].pc \in UserMapped <=> thr[o].pc \in UserMapped
      BY <1>a, <3>3, <3>4 DEF UserMapped, Runnable
    <3>6. \A o \in Thread : thr'[o].pc \in Runnable => thr[o].pc \in Runnable
      BY <1>a, <3>3, <3>4 DEF Runnable
    <3>7. i \in Stack /\ user[i].flag = "lazy" /\ f # NULL
      BY <1>1, <1>a, <2>1 DEF Indexes
    <3>8. \A j \in Stack \cup {NULL} : /\ user[j].flag # "none" => user'[j].flag # "none"
                                       /\ user[j].flag # "dead" => user'[j].flag # "dead"
      BY <3>2, <3>7, <2>2 DEF TypeOK
    <3>9. ASSUME NEW o \in Thread
          PROVE  /\ thr'[o].pc \in UserMapped => user'[thr'[o].stack].flag # "none"
                 /\ thr'[o].pc \in Runnable => user'[thr'[o].stack].flag # "dead"
      <4>1. thr[o].stack \in Stack \cup {NULL}
        BY DEF TypeOK, ThreadState
      <4>2. thr'[o].stack = thr[o].stack
        BY <3>3
      <4>3. /\ thr[o].pc \in UserMapped => user[thr[o].stack].flag # "none"
            /\ thr[o].pc \in Runnable => user[thr[o].stack].flag # "dead"
        BY DEF UserStacks
      <4> QED
        BY <3>5, <3>6, <3>8, <4>1, <4>2, <4>3
    <3>10. ASSUME NEW j \in Stack
           PROVE  /\ user'[j].frame # NULL <=> user'[j].flag \in {"present", "dead"}
                  /\ user'[j].flag # "none" => \E o \in Thread : thr'[o].pc \in UserMapped /\ thr'[o].stack = j
      <4>1. user'[j].flag # "none" => user[j].flag # "none"
        BY <3>1, <3>7
      <4>2. user'[j].frame # NULL <=> user'[j].flag \in {"present", "dead"}
        BY <3>1, <3>2, <3>7 DEF UserStacks
      <4> QED
        BY <3>3, <3>5, <4>1, <4>2 DEF UserStacks
    <3> QED
      BY <3>9, <3>10 DEF UserStacks
  <2>10. FramesExact => FramesExact'
    <3>1. \A o \in Thread : thr'[o].frame = thr[o].frame
      BY <2>2, <2>3 DEF TypeOK
    <3>2. \A j \in Stack : j # i => user'[j].frame = user[j].frame
      BY <2>2 DEF TypeOK
    <3>3. i \in Stack
      BY <1>a DEF Indexes
    <3>4. user[i].frame = NULL /\ user'[i].frame = f /\ f # NULL
      <4>1. user[i].frame = NULL
        BY <1>1, <3>3 DEF UserStacks
      <4>2. user'[i].frame = f
        BY <2>2, <3>3 DEF TypeOK
      <4> QED
        BY <2>1, <4>1, <4>2
    <3> QED
      BY <2>1, <2>2, <3>1, <3>2, <3>3, <3>4 DEF FramesExact
  <2>11. Quiet'
    BY <1>a, <1>c, <2>2, <2>3 DEF TypeOK, Quiet
  <2> QED
    BY <2>5, <2>6, <2>7, <2>8, <2>9, <2>10, <2>11
<1>2. ASSUME NEW p \in {"run", "push", "wild"}, Handled(th, p), UNCHANGED <<user, frames>>
      PROVE  Keeps
  <2> DEFINE r == l(p)
  <2>1. Become(th, r)
    BY <1>2 DEF Handled, l
  <2>3. r \in ThreadState /\ r.pc = p /\ r.stack = thr[th].stack /\ r.frame = thr[th].frame
    BY <1>b DEF Phase
  <2> HIDE DEF r
  <2>4. TypeOK'
    BY <1>2, <1>c, <2>1, <2>3 DEF TypeOK, Become
  <2>5. FaultsKept'
    BY <1>a, <1>c, <2>1 DEF TypeOK, FaultsKept, ToSet, IsInjective, Become
  <2>6. Indexes' /\ KernelStacks' /\ UserStacks' /\ (FramesExact => FramesExact')
    <3>1. thr[th].pc \in Runnable /\ r.pc \in Runnable /\ r.pc # "fault"
      BY <1>a, <2>3 DEF Runnable
    <3>2. thr[th].pc \in UserMapped /\ r.pc \in UserMapped
      BY <3>1 DEF UserMapped
    <3> QED
      BY <1>2, <1>c, <2>1, <2>3, <3>1, <3>2, Moves
  <2>7. Quiet'
    BY <1>a, <1>c, <2>1, <2>3 DEF TypeOK, Quiet, Become
  <2> QED
    BY <2>4, <2>5, <2>6, <2>7
<1> QED
  <2>1. CASE user[i].flag = "lazy"
    BY <2>1, <1>1, <1>2 DEF PageFault
  <2>2. CASE user[i].flag # "lazy"
    <3> DEFINE p == IF user[i].flag = "present" /\ ~thr[th].write THEN "run" ELSE "push"
    <3>1. p \in {"run", "push", "wild"} /\ Handled(th, p) /\ UNCHANGED <<user, frames>>
      BY <2>2 DEF PageFault
    <3> HIDE DEF p
    <3> QED
      BY <3>1, <1>2
  <2> QED
    BY <2>1, <2>2

\* A fault is queued behind the others, by a thread that was not in the queue; or
\* the task is killed.
LEMMA PushPageFaultStep ==
  ASSUME IInv, NEW th \in Thread, PushPageFault(th)
  PROVE  Keeps
<1> USE MemoryAssumption DEF MemoryAssumption, IInv, Keeps, At, vmVars, pagerVars
<1> DEFINE l(p) == [thr[th] EXCEPT !.pc = p]
<1>a. thr[th] \in ThreadState /\ thr[th].pc = "push"
  BY DEF TypeOK, PushPageFault
<1>b. \A p \in Phase : /\ l(p) \in ThreadState /\ l(p).pc = p
                       /\ l(p).stack = thr[th].stack /\ l(p).frame = thr[th].frame
  BY <1>a, ThreadStates DEF ThreadState
<1>c. UNCHANGED <<vmVars, polling, pagerThread>> /\ state \in {"live", "killed"}
  BY <1>a DEF PushPageFault, Quiet, TypeOK
<1> HIDE DEF l
<1>d. ASSUME NEW p \in {"queued", "stop"}, Become(th, l(p))
      PROVE  /\ Indexes' /\ KernelStacks' /\ UserStacks' /\ (FramesExact => FramesExact')
             /\ thr' \in [Thread -> ThreadState]
             /\ \A o \in Thread : thr'[o].pc = IF o = th THEN p ELSE thr[o].pc
  <2> DEFINE r == l(p)
  <2>1. r \in ThreadState /\ r.pc = p /\ r.stack = thr[th].stack /\ r.frame = thr[th].frame
    BY <1>b DEF Phase
  <2>2. Become(th, r)
    BY <1>d
  <2> HIDE DEF r
  <2>3. thr[th].pc \in Runnable /\ r.pc \in Runnable
    BY <1>a, <2>1 DEF Runnable
  <2>4. thr[th].pc \in UserMapped /\ r.pc \in UserMapped
    BY <2>3 DEF UserMapped
  <2>5. Indexes' /\ KernelStacks' /\ UserStacks' /\ (FramesExact => FramesExact')
    BY <1>c, <2>1, <2>2, <2>3, <2>4, Moves
  <2>6. thr' \in [Thread -> ThreadState]
    BY <2>1, <2>2 DEF TypeOK, Become
  <2>7. \A o \in Thread : thr'[o].pc = IF o = th THEN p ELSE thr[o].pc
    BY <2>1, <2>2 DEF TypeOK, Become
  <2> QED
    BY <2>5, <2>6, <2>7
<1>1. CASE pagerThread
  <2>1. /\ faults' = Append(faults, th) /\ claims' = claims + 1 /\ claims < MaxClaims /\ state' = state
        /\ Become(th, l("queued"))
    BY <1>1 DEF PushPageFault, Suspended, Goto, l
  <2>2. /\ Indexes' /\ KernelStacks' /\ UserStacks' /\ (FramesExact => FramesExact')
        /\ thr' \in [Thread -> ThreadState]
        /\ \A o \in Thread : thr'[o].pc = IF o = th THEN "queued" ELSE thr[o].pc
    BY <1>d, <2>1
  <2>3. TypeOK'
    <3>1. faults' \in Seq(Thread)
      BY <2>1 DEF TypeOK
    <3>2. claims' \in 0 .. MaxClaims
      BY <2>1 DEF TypeOK
    <3> QED
      BY <1>c, <2>1, <2>2, <3>1, <3>2 DEF TypeOK
  <2>4. FaultsKept'
    <3>1. th \notin ToSet(faults)
      BY <1>a DEF FaultsKept
    <3>2. ToSet(faults') = ToSet(faults) \cup {th} /\ IsInjective(faults')
      BY <2>1, <3>1, AppendIsInjective DEF TypeOK, FaultsKept
    <3>3. \A o \in ToSet(faults) : o \in Thread
      BY DEF TypeOK, ToSet
    <3>4. claims' > 0
      BY <2>1 DEF TypeOK
    <3> QED
      BY <1>c, <2>1, <2>2, <3>2, <3>3, <3>4 DEF FaultsKept
  <2>5. Quiet'
    BY <1>c, <2>1 DEF Quiet
  <2> QED
    BY <2>2, <2>3, <2>4, <2>5
<1>2. CASE ~pagerThread
  <2>1. UNCHANGED <<faults, claims>> /\ state' = "killed" /\ Become(th, l("stop"))
    BY <1>2 DEF PushPageFault, Goto, l
  <2>2. /\ Indexes' /\ KernelStacks' /\ UserStacks' /\ (FramesExact => FramesExact')
        /\ thr' \in [Thread -> ThreadState]
        /\ \A o \in Thread : thr'[o].pc = IF o = th THEN "stop" ELSE thr[o].pc
    BY <1>d, <2>1
  <2>3. TypeOK'
    BY <1>c, <2>1, <2>2 DEF TypeOK
  <2>4. FaultsKept'
    BY <1>a, <1>c, <2>1, <2>2 DEF TypeOK, FaultsKept, ToSet
  <2>5. Quiet'
    BY <2>1 DEF Quiet
  <2> QED
    BY <2>2, <2>3, <2>4, <2>5
<1> QED
  BY <1>1, <1>2

\* A thread of a killed task is stopped with its stacks.
LEMMA ThreadStopStep ==
  ASSUME IInv, NEW th \in Thread, ThreadStop(th)
  PROVE  Keeps
<1> USE MemoryAssumption DEF MemoryAssumption, IInv, Keeps, At, Become, Goto, vmVars, pagerVars,
        ThreadStop
<1> DEFINE l == [thr[th] EXCEPT !.pc = "stop"]
<1>a. thr[th] \in ThreadState
  BY DEF TypeOK
<1>b. l \in ThreadState
  BY <1>a, ThreadStates DEF Phase
<1>c. /\ l.stack = thr[th].stack /\ l.frame = thr[th].frame
      /\ thr[th].pc \in UserMapped /\ l.pc \in UserMapped
      /\ l.pc \in Runnable => thr[th].pc \in Runnable
      /\ l.pc = "fault" => l.page \in Stack
  BY <1>a DEF ThreadState, UserMapped, Runnable
<1>1. TypeOK'
  BY <1>b DEF TypeOK
<1>2. FaultsKept'
  BY DEF TypeOK, FaultsKept, ToSet, IsInjective, ThreadState
<1>3. Indexes' /\ KernelStacks' /\ UserStacks' /\ (FramesExact => FramesExact')
  <2>1. Become(th, l)
    OBVIOUS
  <2> HIDE DEF l, Become
  <2> QED
    BY <1>b, <1>c, <2>1, Moves
<1>4. Quiet'
  BY DEF TypeOK, Quiet
<1> QED
  BY <1>1, <1>2, <1>3, <1>4

\* A CPU that claims the pager leaves it awake.
LEMMA ClaimPagerStep ==
  ASSUME IInv, ClaimPager
  PROVE  Keeps
<1> USE MemoryAssumption DEF MemoryAssumption, IInv, Keeps, vmVars, ClaimPager
<1>1. TypeOK'
  <2>1. claims' \in 0 .. MaxClaims
    BY DEF TypeOK
  <2>2. polling' \in BOOLEAN /\ pagerThread' \in BOOLEAN
    BY Zenon DEF TypeOK
  <2> QED
    BY <2>1, <2>2 DEF TypeOK
<1>2. FaultsKept'
  BY DEF FaultsKept, At
<1>3. Indexes' /\ KernelStacks' /\ UserStacks' /\ Quiet' /\ (FramesExact => FramesExact')
  BY DEF At, Indexes, KernelStacks, UserStacks, FramesExact, Quiet
<1> QED
  BY <1>1, <1>2, <1>3

\* A new pager finds the faults as they are.
LEMMA PagerSetStep ==
  ASSUME IInv, PagerSet
  PROVE  Keeps
<1> USE MemoryAssumption DEF MemoryAssumption, IInv, Keeps, vmVars, pagerVars, PagerSet
<1>1. TypeOK'
  BY DEF TypeOK
<1>2. FaultsKept'
  BY DEF FaultsKept, At
<1>3. Indexes' /\ KernelStacks' /\ UserStacks' /\ Quiet' /\ (FramesExact => FramesExact')
  BY DEF At, Indexes, KernelStacks, UserStacks, FramesExact, Quiet
<1> QED
  BY <1>1, <1>2, <1>3

\* The pager goes to sleep only if no fault is queued.
LEMMA PagerPollStep ==
  ASSUME IInv, PagerPoll
  PROVE  Keeps
<1> USE MemoryAssumption DEF MemoryAssumption, IInv, Keeps, vmVars, pagerVars, PagerPoll
<1>1. TypeOK'
  BY DEF TypeOK
<1>2. FaultsKept'
  BY DEF FaultsKept, At, PagerIdle
<1>3. Indexes' /\ KernelStacks' /\ UserStacks' /\ Quiet' /\ (FramesExact => FramesExact')
  BY DEF At, Indexes, KernelStacks, UserStacks, FramesExact, Quiet
<1> QED
  BY <1>1, <1>2, <1>3

\* The pager takes the first fault, and the thread goes on or stops.
LEMMA PagerShiftStep ==
  ASSUME IInv, PagerShift
  PROVE  Keeps
<1> USE MemoryAssumption DEF MemoryAssumption, IInv, Keeps, At, vmVars, pagerVars
<1> DEFINE th == Head(faults)
           p == IF state' = "live" THEN "run" ELSE "stop"
           l == [thr[th] EXCEPT !.pc = p]
<1>a. faults # <<>> /\ faults' = Tail(faults) /\ state' \in {state, "killed"}
      /\ UNCHANGED <<vmVars, claims, polling, pagerThread>> /\ ~polling
  BY DEF PagerShift
<1>b. th \in Thread /\ th \in ToSet(faults)
  BY <1>a DEF TypeOK, ToSet
<1>c. thr[th].pc = "queued" /\ state \in {"live", "killed"} /\ thr[th] \in ThreadState
  BY <1>b DEF FaultsKept, TypeOK
<1>d. ToSet(faults') \subseteq ToSet(faults) \ {th} /\ IsInjective(faults') /\ faults' \in Seq(Thread)
  BY <1>a, TailIsInjective DEF TypeOK, FaultsKept
<1>e. Become(th, l) /\ p \in {"run", "stop"}
  BY DEF PagerShift, Goto
<1> HIDE DEF p, th
<1>f. l \in ThreadState /\ l.pc = p /\ l.stack = thr[th].stack /\ l.frame = thr[th].frame
  <2>1. l \in ThreadState
    BY <1>c, <1>e, ThreadStates DEF Phase
  <2> QED
    BY <1>c, <2>1 DEF ThreadState
<1> HIDE DEF l
<1>1. TypeOK'
  BY <1>a, <1>b, <1>c, <1>d, <1>e, <1>f DEF TypeOK, Become
<1>2. FaultsKept'
  <2>1. \A o \in ToSet(faults') : o \in Thread /\ thr'[o].pc = thr[o].pc
    <3>1. ToSet(faults') \subseteq Thread
      BY <1>d DEF ToSet
    <3> QED
      BY <1>b, <1>d, <1>e, <3>1 DEF TypeOK, Become
  <2> QED
    BY <1>a, <1>c, <1>d, <2>1 DEF FaultsKept
<1>3. Indexes' /\ KernelStacks' /\ UserStacks' /\ (FramesExact => FramesExact')
  <2>1. thr[th].pc \in Runnable /\ l.pc \in Runnable
    BY <1>c, <1>e, <1>f DEF Runnable
  <2>2. thr[th].pc \in UserMapped /\ l.pc \in UserMapped
    BY <2>1 DEF UserMapped
  <2> QED
    BY <1>a, <1>b, <1>e, <1>f, <2>1, <2>2, Moves
<1>4. Quiet'
  BY <1>a, <1>c DEF Quiet
<1> QED
  BY <1>1, <1>2, <1>3, <1>4

\* A killed task keeps its threads.
LEMMA TaskKillStep ==
  ASSUME IInv, TaskKill
  PROVE  Keeps
<1> USE MemoryAssumption DEF MemoryAssumption, IInv, Keeps, vmVars, pagerVars, TaskKill
<1>1. TypeOK'
  BY DEF TypeOK
<1>2. FaultsKept'
  BY DEF FaultsKept, At
<1>3. Indexes' /\ KernelStacks' /\ UserStacks' /\ Quiet' /\ (FramesExact => FramesExact')
  BY DEF At, Indexes, KernelStacks, UserStacks, FramesExact, Quiet
<1> QED
  BY <1>1, <1>2, <1>3

\* There is a kill job only when no thread waits for the pager or is in the kernel.
LEMMA GenerateKillJobStep ==
  ASSUME IInv, GenerateKillJob
  PROVE  Keeps
<1> USE MemoryAssumption DEF MemoryAssumption, IInv, Keeps, vmVars, pagerVars, GenerateKillJob
<1>1. TypeOK'
  BY DEF TypeOK
<1>2. FaultsKept'
  BY DEF TypeOK, FaultsKept, At, ToSet
<1>3. Indexes' /\ KernelStacks' /\ UserStacks' /\ Quiet' /\ (FramesExact => FramesExact')
  BY DEF At, Indexes, KernelStacks, UserStacks, FramesExact, Quiet
<1> QED
  BY <1>1, <1>2, <1>3

\* When the last thread is gone no user page is mapped, so no frame is lost with
\* the address space.
LEMMA FreeTaskStep ==
  ASSUME IInv, FreeTask
  PROVE  Keeps
<1> USE MemoryAssumption DEF MemoryAssumption, IInv, Keeps, pagerVars, FreeTask
<1>1. TypeOK'
  BY DEF TypeOK, NoPage
<1>2. FaultsKept'
  BY DEF TypeOK, FaultsKept, At, ToSet
<1>3. \A th \in Thread : thr'[th] = NoThread
  BY DEF Indexes, At
<1>4. \A i \in Stack : user[i].flag = "none" /\ user[i].frame = NULL
  BY DEF TypeOK, UserStacks, At, UserMapped, Runnable
<1>5. Indexes'
  BY <1>3 DEF Indexes, At, NoThread, Indexed, KernelMapped, UserMapped, Runnable
<1>6. KernelStacks'
  BY <1>3 DEF KernelStacks, NoThread, KernelMapped, UserMapped, Runnable
<1>7. UserStacks'
  BY <1>3 DEF UserStacks, NoThread, NoPage, UserMapped, Runnable
<1>8. FramesExact => FramesExact'
  BY <1>4, SameFrames DEF NoPage
<1>9. Quiet'
  BY DEF Quiet, At
<1> QED
  BY <1>1, <1>2, <1>5, <1>6, <1>7, <1>8, <1>9

\* A new task has no threads.
LEMMA TaskCreateStep ==
  ASSUME IInv, TaskCreate
  PROVE  Keeps
<1> USE MemoryAssumption DEF MemoryAssumption, IInv, Keeps, vmVars, pagerVars, TaskCreate
<1>1. TypeOK'
  BY DEF TypeOK
<1>2. FaultsKept'
  BY DEF FaultsKept, At
<1>3. Indexes' /\ KernelStacks' /\ UserStacks' /\ Quiet' /\ (FramesExact => FramesExact')
  BY DEF At, Indexes, KernelStacks, UserStacks, FramesExact, Quiet
<1> QED
  BY <1>1, <1>2, <1>3

-----------------------------------------------------------------------------
(* The invariant, and what follows from it.                                *)

\* The invariant holds before the first thread is created.
LEMMA InitIInv == Init => IInv
<1> SUFFICES ASSUME Init PROVE IInv
  OBVIOUS
<1> USE MemoryAssumption DEF MemoryAssumption, Init
<1>1. TypeOK
  <2>1. thr \in [Thread -> ThreadState]
    BY ThreadStates
  <2>2. claims \in 0 .. MaxClaims
    OBVIOUS
  <2>3. kern \in [Stack -> Frame \cup {NULL}]
    OBVIOUS
  <2>4. user \in [Stack -> [flag : {"none", "lazy", "present", "dead"}, frame : Frame \cup {NULL}]]
    BY DEF NoPage
  <2>5. polling \in BOOLEAN /\ pagerThread \in BOOLEAN
    OBVIOUS
  <2>6. faults \in Seq(Thread)
    OBVIOUS
  <2> QED
    BY <2>1, <2>2, <2>3, <2>4, <2>5, <2>6 DEF TypeOK
<1>2. FaultsKept
  BY DEF FaultsKept, ToSet, IsInjective
<1>3. \A th \in Thread : thr[th] = NoThread
  OBVIOUS
<1>4. Indexes
  BY <1>3 DEF Indexes, At, NoThread, Indexed, KernelMapped, UserMapped, Runnable
<1>5. KernelStacks
  BY <1>3 DEF KernelStacks, NoThread, KernelMapped, UserMapped, Runnable
<1>6. UserStacks
  BY <1>3 DEF UserStacks, NoThread, NoPage, UserMapped, Runnable
<1>7. FramesExact
  BY <1>3 DEF FramesExact, NoThread, NoPage
<1>8. Quiet
  BY <1>3 DEF Quiet, At, NoThread
<1> QED
  BY <1>1, <1>2, <1>4, <1>5, <1>6, <1>7, <1>8 DEF IInv

\* A step that changes nothing keeps everything.
LEMMA StutterIInv == ASSUME IInv, UNCHANGED vars PROVE Keeps
BY DEF Keeps, IInv, vars, vmVars, pagerVars, TypeOK, FaultsKept, At, Indexes, KernelStacks,
       UserStacks, FramesExact, Quiet

\* Every step keeps the invariant, and all but two kinds keep the frames exact.
LEMMA NextKeeps ==
  ASSUME IInv, [Next]_vars
  PROVE  IInv' /\ (FramesExact => FramesExact' \/ FreesOther \/ LosesPage)
<1>1. CASE UNCHANGED vars
  BY <1>1, StutterIInv DEF Keeps
<1>2. ASSUME NEW th \in Thread,
             \/ ThreadCreate(th) \/ ThreadExit(th) \/ Fault(th) \/ ProtectionFault(th) \/ Proceed(th)
             \/ ThreadStop(th) \/ KillThread(th) \/ UnmapStack(th) \/ FreeStack(th)
      PROVE  Keeps \/ FreeStack(th) \/ FreeKernelStack(th)
  BY <1>2, ThreadCreateStep, ThreadExitStep, FaultStep, ProtectionFaultStep, ThreadStopStep, KillThreadStep,
     UnmapStackStep, AllocKernelStackStep, AllocKernelStackFailsStep, MapUserStackStep,
     MapUserStackFailsStep, GiveBackStackStep, FinalizeThreadExitStep, PageFaultStep, PushPageFaultStep
     DEF Proceed
<1>3. ASSUME \/ ClaimPager \/ PagerSet \/ PagerPoll \/ PagerShift
             \/ TaskKill \/ GenerateKillJob \/ FreeTask \/ TaskCreate
      PROVE  Keeps
  BY <1>3, ClaimPagerStep, PagerSetStep, PagerPollStep, PagerShiftStep, TaskKillStep, GenerateKillJobStep,
     FreeTaskStep, TaskCreateStep
<1>4. CASE Keeps
  BY <1>4 DEF Keeps
<1>5. CASE \E th \in Thread : FreeStack(th) \/ FreeKernelStack(th)
  BY <1>5, FreeStackStep, FreeKernelStackStep
<1> QED
  BY <1>1, <1>2, <1>3, <1>4, <1>5 DEF Next

\* The invariant holds in every reachable state, for any number of threads, frames
\* and stack indexes.
THEOREM Invariance == Spec => []IInv
<1>1. IInv /\ [Next]_vars => IInv'
  BY NextKeeps
<1> QED
  BY InitIInv, <1>1, PTL DEF Spec

\* A thread that can run has a stack index of its own and its own kernel and user
\* stack mapped there (anscheduler_thread_create, anscheduler_thread_exit), also
\* after a frame was lost or freed under another thread.
THEOREM StacksSafe == Spec => []StacksOwned
<1>1. IInv => StacksOwned
  <2> SUFFICES ASSUME IInv, NEW th \in Thread, thr[th].pc \in {"run", "fault", "push", "queued"}
               PROVE  LET i == thr[th].stack IN
                        /\ i \in stacks
                        /\ \A o \in Thread \ {th} : thr[o].stack = i => At(o, "final")
                        /\ kern[i] = thr[th].frame
                        /\ user[i].flag \in {"lazy", "present"}
    BY DEF IInv, StacksOwned
  <2> USE DEF IInv
  <2>1. thr[th].pc \in Runnable /\ thr[th].pc \in UserMapped /\ thr[th].pc \in KernelMapped /\ thr[th].pc \in Indexed
    BY DEF Runnable, UserMapped, KernelMapped, Indexed
  <2>2. thr[th].stack \in stacks /\ thr[th].stack \in Stack
    BY <2>1 DEF Indexes, TypeOK
  <2>3. ASSUME NEW o \in Thread \ {th}, thr[o].stack = thr[th].stack PROVE At(o, "final")
    <3>1. thr[o].pc \notin Indexed
      BY <2>1, <2>3 DEF Indexes
    <3>2. thr[o].pc \in Phase
      BY DEF TypeOK, ThreadState
    <3>3. ~At(o, "none")
      BY <2>2, <2>3, MemoryAssumption DEF Indexes, NoThread, MemoryAssumption, Stack
    <3> QED
      BY <3>1, <3>2, <3>3 DEF At, Phase, Indexed, KernelMapped, UserMapped, Runnable
  <2>4. kern[thr[th].stack] = thr[th].frame
    BY <2>1 DEF KernelStacks
  <2>5. user[thr[th].stack].flag \in {"lazy", "present"}
    BY <2>1, <2>2 DEF UserStacks, TypeOK
  <2> QED
    BY <2>2, <2>3, <2>4, <2>5
<1> QED
  BY Invariance, <1>1, PTL

\* Frames are exact at first, and no step but the two races of thread.c ends that:
\* the kernel stack that is looked up after its index was given back, and the user
\* page that is allocated between the two loops of anscheduler_thread_deallocate.
THEOREM RacesAlone == Spec => FramesLostOnlyByRaces
<1>1. Init => FramesExact
  BY DEF Init, FramesExact, NoThread, NoPage
<1>2. IInv /\ [Next]_vars => [FramesExact => FramesExact' \/ FreesOther \/ LosesPage]_vars
  BY NextKeeps
<1> QED
  BY Invariance, <1>1, <1>2, PTL DEF Spec, FramesLostOnlyByRaces

\* A queued fault keeps its thread and its task, and the pager does not sleep on it
\* (_push_page_fault, anscheduler_pager_shift).
THEOREM FaultsSafe == Spec => []FaultsKept
<1>1. IInv => FaultsKept
  BY DEF IInv
<1> QED
  BY Invariance, <1>1, PTL
=============================================================================
