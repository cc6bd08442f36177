--------------------------- MODULE SchedulerProofs ---------------------------
(***************************************************************************)
(* The proofs about Scheduler, for every number of tasks, threads and      *)
(* CPUs.  First the facts they rest on: how the run loop changes as a      *)
(* sequence, how a step of one CPU changes the number of references, and   *)
(* what the invariant of SchedulerInv says of tasks that are held or       *)
(* reaped.  Then one lemma per action, and in it one step per conjunct of  *)
(* that invariant, and the safety properties that follow.  Last a second   *)
(* invariant on top of the first: no thread and no kill job is lost, and   *)
(* the scheduler implements RefObject.                                     *)
(***************************************************************************)
EXTENDS SchedulerInv, FiniteSetTheorems, SequenceTheorems, TLAPS

-----------------------------------------------------------------------------
(* The run loop as a sequence.                                             *)

\* r consists of entries of s other than the i-th, each at most once: the k-th
\* of r is the one at e[k] in s.
Picks(e, r, s, i) ==
  /\ e \in [DOMAIN r -> DOMAIN s]
  /\ \A k \in DOMAIN r : r[k] = s[e[k]] /\ e[k] # i
  /\ \A j, k \in DOMAIN r : e[j] = e[k] => j = k

\* What _push_unconditional leaves in the list: the old entries and x.
LEMMA AppendEntries ==
  ASSUME NEW S, NEW s \in Seq(S), NEW x \in S
  PROVE  /\ Append(s, x) \in Seq(S)
         /\ \A k \in DOMAIN Append(s, x) :
              \/ k \in DOMAIN s /\ Append(s, x)[k] = s[k]
              \/ k = Len(s) + 1 /\ k \notin DOMAIN s /\ Append(s, x)[k] = x
  OBVIOUS

\* What _next_thread leaves in the list: the entries behind the i-th.
LEMMA TailEntries ==
  ASSUME NEW S, NEW s \in Seq(S), NEW i \in DOMAIN s
  PROVE  /\ SubSeq(s, i + 1, Len(s)) \in Seq(S)
         /\ \E e : Picks(e, SubSeq(s, i + 1, Len(s)), s, i)
<1> DEFINE r == SubSeq(s, i + 1, Len(s))
           e == [k \in DOMAIN r |-> k + i]
<1>1. r \in Seq(S) /\ Len(r) = Len(s) - i /\ \A k \in 1 .. Len(s) - i : r[k] = s[k + i]
  OBVIOUS
<1>2. Picks(e, r, s, i)
  BY <1>1 DEF Picks
<1> QED
  BY <1>1, <1>2

\* What anscheduler_loop_delete leaves in the list: all but the i-th entry.
LEMMA RemoveEntries ==
  ASSUME NEW S, NEW s \in Seq(S), NEW i \in DOMAIN s
  PROVE  /\ RemoveAt(s, i) \in Seq(S)
         /\ \E e : Picks(e, RemoveAt(s, i), s, i)
<1> DEFINE a == SubSeq(s, 1, i - 1)
           b == SubSeq(s, i + 1, Len(s))
           r == a \o b
           e == [k \in DOMAIN r |-> IF k < i THEN k ELSE k + 1]
<1>1. a \in Seq(S) /\ Len(a) = i - 1 /\ \A k \in 1 .. i - 1 : a[k] = s[k]
  OBVIOUS
<1>2. b \in Seq(S) /\ Len(b) = Len(s) - i /\ \A k \in 1 .. Len(s) - i : b[k] = s[k + i]
  OBVIOUS
<1> HIDE DEF a, b
<1>3. r \in Seq(S) /\ Len(r) = Len(s) - 1
  BY <1>1, <1>2
<1>4. ASSUME NEW k \in DOMAIN r PROVE r[k] = s[e[k]]
  <2>1. CASE k < i
    BY <2>1, <1>1, <1>2, <1>3
  <2>2. CASE k >= i
    <3>1. r[k] = b[k - (i - 1)] /\ k - (i - 1) \in 1 .. Len(s) - i
      BY <2>2, <1>1, <1>2, <1>3
    <3> QED
      BY <3>1, <2>2, <1>2, <1>3, SMTT(30)
  <2> QED
    BY <2>1, <2>2, <1>3
<1>5. Picks(e, r, s, i)
  BY <1>3, <1>4 DEF Picks
<1> QED
  BY <1>3, <1>5 DEF RemoveAt, a, b

-----------------------------------------------------------------------------
(* Counting references.                                                    *)

One(a, b) == IF a = b THEN 1 ELSE 0

\* Slots(f, v) counts the CPUs whose variable f has the value v.
LEMMA SlotsType ==
  ASSUME NEW f, NEW v
  PROVE  /\ Slots(f, v) \in Nat
         /\ \A c \in Cpu : f[c] = v => Slots(f, v) > 0
         /\ Slots(f, v) = 0 => \A c \in Cpu : f[c] # v
         /\ (\A c \in Cpu : f[c] # v) => Slots(f, v) = 0
<1> DEFINE S == {c \in Cpu : f[c] = v}
<1>1. IsFiniteSet(S) /\ Cardinality(S) \in Nat
  BY ConstantsAssumption, FS_Subset, FS_CardinalityType DEF ConstantsAssumption
<1>2. Cardinality(S) = 0 <=> S = {}
  BY <1>1, FS_EmptySet
<1> QED
  BY <1>1, <1>2 DEF Slots

\* f and g differ at c only.
SameElsewhere(f, g, c) == \A d \in Cpu \ {c} : g[d] = f[d]

\* How the count moves when one CPU changes its variable.
LEMMA SlotsUpdate ==
  ASSUME NEW f, NEW g, NEW c \in Cpu, NEW v, SameElsewhere(f, g, c)
  PROVE  Slots(g, v) = Slots(f, v) + One(g[c], v) - One(f[c], v)
<1> DEFINE S == {d \in Cpu : f[d] = v}
           T == {d \in Cpu : g[d] = v}
<1> USE DEF SameElsewhere
<1>1. IsFiniteSet(S) /\ IsFiniteSet(T) /\ Cardinality(S) \in Nat
  BY ConstantsAssumption, FS_Subset, FS_CardinalityType DEF ConstantsAssumption
<1>2. CASE g[c] = v /\ f[c] # v
  <2>1. T = S \cup {c} /\ c \notin S
    BY <1>2
  <2> QED
    BY <2>1, <1>1, <1>2, FS_AddElement DEF Slots, One
<1>3. CASE f[c] = v /\ g[c] # v
  <2>1. T = S \ {c} /\ c \in S
    BY <1>3
  <2>2. Cardinality(T) = Cardinality(S) - 1
    BY <2>1, <1>1, FS_RemoveElement
  <2> QED
    BY <2>2, <1>1, <1>3 DEF Slots, One
<1>4. CASE (g[c] = v) <=> (f[c] = v)
  <2>1. T = S
    BY <1>4
  <2>2. Slots(g, v) = Slots(f, v) /\ Slots(f, v) \in Nat
    BY <2>1, <1>1 DEF Slots
  <2>3. One(g[c], v) = One(f[c], v) /\ One(f[c], v) \in Nat
    BY <1>4 DEF One
  <2> QED
    BY <2>2, <2>3
<1> QED
  BY <1>2, <1>3, <1>4

\* How many references to t CPU c has in its variables
Refs(c, t) == One(cpuTask[c], t) + One(hold[c], t) + One(drop[c], t)

\* A step of one CPU changes the references in use by what it changes in the
\* variables of that CPU.
LEMMA RefsMove ==
  ASSUME NEW c \in Cpu, NEW t,
         SameElsewhere(cpuTask, cpuTask', c),
         SameElsewhere(hold, hold', c),
         SameElsewhere(drop, drop', c)
  PROVE  HeldRefs(t)' = HeldRefs(t) + Refs(c, t)' - Refs(c, t)
<1>1. Slots(cpuTask', t) = Slots(cpuTask, t) + One(cpuTask'[c], t) - One(cpuTask[c], t)
  BY SlotsUpdate
<1>2. Slots(hold', t) = Slots(hold, t) + One(hold'[c], t) - One(hold[c], t)
  BY SlotsUpdate
<1>3. Slots(drop', t) = Slots(drop, t) + One(drop'[c], t) - One(drop[c], t)
  BY SlotsUpdate
<1>4. /\ Slots(cpuTask, t) \in Nat /\ Slots(hold, t) \in Nat /\ Slots(drop, t) \in Nat
  BY SlotsType
<1>5. HeldRefs(t)' = Slots(cpuTask', t) + Slots(hold', t) + Slots(drop', t)
  BY DEF HeldRefs
<1>6. Refs(c, t)' = One(cpuTask'[c], t) + One(hold'[c], t) + One(drop'[c], t)
  BY DEF Refs
<1>7. \A a, b : One(a, b) \in Nat
  BY DEF One
<1> QED
  BY <1>1, <1>2, <1>3, <1>4, <1>5, <1>6, <1>7 DEF HeldRefs, Refs

\* A CPU's own references are among those in use.
LEMMA RefsBound ==
  ASSUME NEW c \in Cpu, NEW t
  PROVE  HeldRefs(t) \in Nat /\ Refs(c, t) \in Nat /\ HeldRefs(t) >= Refs(c, t)
<1>1. /\ Slots(cpuTask, t) \in Nat /\ Slots(hold, t) \in Nat /\ Slots(drop, t) \in Nat
      /\ Slots(cpuTask, t) >= One(cpuTask[c], t)
      /\ Slots(hold, t) >= One(hold[c], t)
      /\ Slots(drop, t) >= One(drop[c], t)
  BY SlotsType DEF One
<1> QED
  BY <1>1 DEF HeldRefs, Refs, One

\* A step of CPU c leaves the references of the other CPUs alone ...
OwnRefsOnly(c) ==
  /\ SameElsewhere(cpuTask, cpuTask', c)
  /\ SameElsewhere(hold, hold', c)
  /\ SameElsewhere(drop, drop', c)

\* ... and counts what it takes and gives back.
Balanced(c) ==
  \A t \in tasks' : /\ t \in tasks
                    /\ refCount'[t] = refCount[t] + Refs(c, t)' - Refs(c, t)

\* A balanced step keeps the reference counts exact.
LEMMA CountKept ==
  ASSUME NEW c \in Cpu, RefCountExact, OwnRefsOnly(c), Balanced(c)
  PROVE  RefCountExact'
<1> SUFFICES ASSUME NEW t \in tasks'
             PROVE  refCount'[t] = HeldRefs(t)'
  BY DEF RefCountExact
<1>1. HeldRefs(t)' = HeldRefs(t) + Refs(c, t)' - Refs(c, t)
  BY RefsMove DEF OwnRefsOnly
<1>2. t \in tasks /\ refCount'[t] = refCount[t] + Refs(c, t)' - Refs(c, t)
  BY DEF Balanced
<1>3. refCount[t] = HeldRefs(t)
  BY <1>2 DEF RefCountExact
<1> QED
  BY <1>1, <1>2, <1>3

\* A step that only moves references between the variables of a CPU, as a
\* switch, a push or anscheduler_loop_resign does, keeps the counts exact.
LEMMA CountSame ==
  ASSUME NEW c \in Cpu, TypeOK, RefCountExact, OwnRefsOnly(c),
         tasks' = tasks, refCount' = refCount,
         \A t \in tasks : Refs(c, t)' = Refs(c, t)
  PROVE  RefCountExact'
<1>1. \A t \in tasks : refCount[t] \in Nat /\ Refs(c, t) \in Nat
  BY DEF TypeOK, Refs, One
<1>2. Balanced(c)
  BY <1>1 DEF Balanced
<1> QED
  BY <1>2, CountKept

\* A step that takes one reference and increments refCount keeps them exact.
LEMMA CountTaken ==
  ASSUME NEW c \in Cpu, TypeOK, RefCountExact, OwnRefsOnly(c), NEW t \in tasks,
         tasks' = tasks, refCount' = [refCount EXCEPT ![t] = @ + 1],
         \A u \in tasks : Refs(c, u)' = Refs(c, u) + One(t, u)
  PROVE  RefCountExact'
<1>1. \A u \in tasks : refCount[u] \in Nat /\ Refs(c, u) \in Nat
  BY DEF TypeOK, Refs, One
<1>2. \A u \in tasks : refCount'[u] = refCount[u] + One(t, u)
  BY <1>1 DEF One, TypeOK
<1>3. \A u \in tasks : One(t, u) \in Nat
  BY DEF One
<1>4. Balanced(c)
  BY <1>1, <1>2, <1>3 DEF Balanced
<1> QED
  BY <1>4, CountKept

\* A step that gives one reference back and decrements refCount does too.
LEMMA CountGiven ==
  ASSUME NEW c \in Cpu, TypeOK, RefCountExact, OwnRefsOnly(c), NEW t \in tasks,
         tasks' = tasks, refCount' = [refCount EXCEPT ![t] = @ - 1],
         \A u \in tasks : Refs(c, u)' = Refs(c, u) - One(t, u)
  PROVE  RefCountExact'
<1>1. \A u \in tasks : refCount[u] \in Nat /\ Refs(c, u) \in Nat
  BY DEF TypeOK, Refs, One
<1>2. \A u \in tasks : refCount'[u] = refCount[u] - One(t, u)
  BY <1>1 DEF One, TypeOK
<1>3. \A u \in tasks : One(t, u) \in Nat
  BY DEF One
<1>4. Balanced(c)
  BY <1>1, <1>2, <1>3 DEF Balanced
<1> QED
  BY <1>4, CountKept

-----------------------------------------------------------------------------
(* Consequences of the invariant.                                          *)

\* A task that some CPU holds a reference to is not being reaped.
LEMMA HeldNotReaped ==
  ASSUME IInv, NEW c \in Cpu, NEW t \in Task, t \in {cpuTask[c], hold[c], drop[c]}
  PROVE  t \in tasks /\ refCount[t] > 0 /\ job[t] = "none"
<1>1. t \in tasks
  BY ConstantsAssumption DEF ConstantsAssumption, IInv, Allocated
<1>2. Refs(c, t) > 0
  BY DEF Refs, One
<1>3. HeldRefs(t) \in Nat /\ Refs(c, t) \in Nat /\ HeldRefs(t) >= Refs(c, t)
  BY RefsBound
<1>4. refCount[t] > 0
  BY <1>1, <1>2, <1>3 DEF IInv, RefCountExact
<1>5. job[t] = "none"
  BY <1>4 DEF IInv, Jobs, JobDead
<1> QED
  BY <1>1, <1>4, <1>5

\* A CPU that has a thread in hand holds a reference to the thread's task.
LEMMA OwnedThreadHeld ==
  ASSUME IInv, NEW c \in Cpu, NEW x \in Thread, Owns(c, x)
  PROVE  /\ thTask[x] \in Task
         /\ thTask[x] \in {cpuTask[c], hold[c], drop[c]}
<1> USE ConstantsAssumption DEF ConstantsAssumption, IInv
<1>1. Referenced(c) /\ Locals(c)
  OBVIOUS
<1>2. thTask[x] \in Task \cup {NULL}
  BY DEF TypeOK
<1>3. CASE th[c] = x
  BY <1>1, <1>2, <1>3 DEF Referenced
<1>4. CASE nx[c] = x
  <2>1. hold[c] # NULL
    BY <1>1, <1>4 DEF Locals, Ready, TypeOK, Points, Interruptible, Returns, Calling
  <2> QED
    BY <2>1, <1>1, <1>2, <1>4 DEF Referenced
<1>5. CASE cpuThread[c] = x /\ pc[c] # "polled"
  BY <1>1, <1>2, <1>5 DEF Referenced, Locals
<1>6. CASE pc[c] = "irq" /\ intd = x
  BY <1>1, <1>2, <1>6 DEF Referenced, Locals
<1> QED
  BY <1>3, <1>4, <1>5, <1>6 DEF Owns

\* No CPU has a thread of a task in hand that is being reaped.
LEMMA ReapedNotOwned ==
  ASSUME IInv, NEW x \in Thread, job[thTask[x]] # "none"
  PROVE  \A c \in Cpu : ~Owns(c, x)
  BY HeldNotReaped, OwnedThreadHeld

\* The threads still to be deleted from the run loop belong to a task that is
\* being reaped.
LEMMA TodoReaped ==
  ASSUME IInv, NEW c \in Cpu, NEW x \in todo[c]
  PROVE  /\ pc[c] = "reap" /\ th[c] \in Task /\ x \in Thread
         /\ thTask[x] = th[c] /\ job[thTask[x]] = "reap"
<1>1. pc[c] = "reap" /\ th[c] \in Task /\ x \in Thread
  BY DEF IInv, Locals, TypeOK
<1>2. thTask[x] = th[c] /\ job[th[c]] = "reap"
  BY <1>1 DEF IInv, Jobs, JobInHand
<1> QED
  BY <1>1, <1>2

\* Where a push leaves the CPU: at the dereference it still owes or back at
\* its caller.
LEMMA AfterPushEffect ==
  ASSUME IInv, NEW c \in Cpu, pc[c] \in {"check", "push"}, AfterPush(c)
  PROVE  /\ th' = [th EXCEPT ![c] = NULL]
         /\ \E p \in Points, q \in Points :
              /\ pc' = [pc EXCEPT ![c] = p] /\ next' = [next EXCEPT ![c] = q]
              /\ \/ drop[c] = NULL /\ p = next[c] /\ q = "loop"
                 \/ drop[c] # NULL /\ p = "deref" /\ q = next[c]
<1>1. next[c] # "pushall" /\ next[c] \in Points
  BY DEF IInv, Locals, Ready, Returns, Calling, TypeOK
<1>2. next' = next => next' = [next EXCEPT ![c] = next[c]]
  BY DEF IInv, TypeOK
<1>3. CASE drop[c] = NULL
  <2>1. pc' = [pc EXCEPT ![c] = next[c]] /\ next' = [next EXCEPT ![c] = "loop"]
    BY <1>3 DEF AfterPush, Continue, Goto
  <2>2. "loop" \in Points
    BY DEF Points
  <2> QED
    BY <1>1, <1>3, <2>1, <2>2 DEF AfterPush
<1>4. CASE drop[c] # NULL
  <2>1. pc' = [pc EXCEPT ![c] = "deref"] /\ next' = [next EXCEPT ![c] = next[c]]
    BY <1>1, <1>2, <1>4 DEF AfterPush, Goto
  <2>2. "deref" \in Points
    BY DEF Points
  <2> QED
    BY <1>1, <1>4, <2>1, <2>2 DEF AfterPush
<1> QED
  BY <1>3, <1>4

-----------------------------------------------------------------------------
(* Every action preserves the invariant.                                   *)

\* The isKilled test of anscheduler_loop_push: a thread of a killed task is
\* let go.
LEMMA LoopPushCheckStep ==
  ASSUME IInv, NEW c \in Cpu, LoopPushCheck(c)
  PROVE  IInv'
<1>a. pc[c] = "check" /\ UNCHANGED <<taskVars, threadVars, queue, intdVars, curVars, hold, drop, todo, nx>>
  BY DEF LoopPushCheck
<1>b. PICK p \in Points, q \in Points, y \in {NULL, th[c]} :
        /\ pc' = [pc EXCEPT ![c] = p] /\ next' = [next EXCEPT ![c] = q]
        /\ th' = [th EXCEPT ![c] = y]
        /\ \/ y = NULL /\ drop[c] = NULL /\ p = next[c] /\ q = "loop"
           \/ y = NULL /\ drop[c] # NULL /\ p = "deref" /\ q = next[c]
           \/ y = th[c] /\ p = "push" /\ q = next[c]
  <2>1. CASE th[c] \in Thread /\ isKilled[thTask[th[c]]]
    <3>1. AfterPush(c)
      BY <2>1 DEF LoopPushCheck
    <3> QED
      BY <3>1, <1>a, AfterPushEffect
  <2>2. CASE ~(th[c] \in Thread /\ isKilled[thTask[th[c]]])
    <3>1. pc' = [pc EXCEPT ![c] = "push"] /\ next' = next /\ th' = th
      BY <2>2 DEF LoopPushCheck, Goto
    <3> QED
      BY <3>1 DEF IInv, TypeOK, Points
  <2> QED
    BY <2>1, <2>2
<1>c. th[c] \in Schedulable
  BY <1>a DEF IInv, TypeOK, Locals
<1>d. next[c] \in Returns /\ Ready(c, next[c])
  BY <1>a DEF IInv, Locals, Calling, Ready
<1>e. \A d \in Cpu, x \in Schedulable : Owns(d, x)' => Owns(d, x)
  BY <1>a, <1>b, <1>c, <1>d, ConstantsAssumption
     DEF IInv, TypeOK, Owns, Returns, threadVars, intdVars, curVars, ConstantsAssumption, Schedulable
<1>f. \A d \in Cpu : todo[d] # {} => pc[d] = "reap" /\ d # c
  BY <1>a DEF IInv, Locals
<1> USE <1>a, <1>b, ConstantsAssumption DEF ConstantsAssumption, IInv,
         taskVars, threadVars, intdVars, curVars, Goto, Calling, Returns,
         Points, Interruptible, Schedulable
<1>1. TypeOK'
  BY <1>c DEF TypeOK
<1>2. \A d \in Cpu : Locals(d)'
  BY DEF TypeOK, Locals, Ready
<1>3. \A d \in Cpu : Referenced(d)'
  <2> SUFFICES ASSUME NEW d \in Cpu PROVE Referenced(d)'
    OBVIOUS
  <2>1. CASE d = c
    BY <2>1, <1>d DEF TypeOK, Referenced, Locals, Ready
  <2>2. CASE d # c
    BY <2>2 DEF TypeOK, Referenced, Locals, Ready
  <2> QED
    BY <2>1, <2>2
<1>4. Allocated'
  BY DEF TypeOK, Allocated, Locals, Ready, Referenced
<1>5. RefCountExact'
  BY DEF RefCountExact, HeldRefs
<1>6. Unique'
  <2>1. QueueOnce'
    BY <1>c, <1>e DEF Unique, TypeOK, QueueOnce
  <2>2. QueueFree'
    BY <1>c, <1>e DEF Unique, TypeOK, QueueFree, Owns
  <2>3. PollFree'
    BY <1>c, <1>e DEF Unique, TypeOK, PollFree, Owns
  <2>4. OneOwner'
    BY <1>c, <1>e DEF Unique, TypeOK, OneOwner, Owns
  <2>5. OneRole'
    BY <1>c, <1>e DEF Unique, TypeOK, OneRole, Locals, Ready
  <2> QED
    BY <2>1, <2>2, <2>3, <2>4, <2>5 DEF Unique
<1>7. Jobs'
  <2>1. JobDead'
    BY DEF Jobs, TypeOK, JobDead
  <2>2. JobQueued'
    BY DEF Jobs, TypeOK, JobQueued
  <2>3. JobInHand'
    BY <1>c, <1>d DEF Jobs, TypeOK, JobInHand, Locals, Ready
  <2>4. JobLast'
    BY <1>f DEF Jobs, TypeOK, JobLast
  <2> QED
    BY <2>1, <2>2, <2>3, <2>4 DEF Jobs
<1>8. Launching'
  <2>1. LaunchPrivate'
    BY <1>d DEF Launching, TypeOK, LaunchPrivate, Locals, Ready
  <2>2. NoThreadYet'
    BY <1>d DEF Launching, TypeOK, NoThreadYet, Walking, Creating, Locals, Ready
  <2>3. OneCreator'
    BY <1>d DEF Launching, TypeOK, OneCreator, Creating, Locals, Ready
  <2> QED
    BY <2>1, <2>2, <2>3 DEF Launching
<1> QED
  BY <1>1, <1>2, <1>3, <1>4, <1>5, <1>6, <1>7, <1>8

\* _push_unconditional: what enters the queue is in nobody else's hand, and
\* its task is referenced until the push is over, so it is not being reaped.
LEMMA LoopPushStep ==
  ASSUME IInv, NEW c \in Cpu, LoopPush(c)
  PROVE  IInv'
<1>a. pc[c] = "push" /\ UNCHANGED <<taskVars, threadVars, intdVars, curVars, hold, drop, todo, nx>>
  BY DEF LoopPush
<1>b. th' = [th EXCEPT ![c] = NULL]
  BY AfterPushEffect DEF LoopPush
<1>c. PICK p \in Points, q \in Points :
        /\ pc' = [pc EXCEPT ![c] = p] /\ next' = [next EXCEPT ![c] = q]
        /\ \/ drop[c] = NULL /\ p = next[c] /\ q = "loop"
           \/ drop[c] # NULL /\ p = "deref" /\ q = next[c]
  BY AfterPushEffect DEF LoopPush
<1>d. th[c] \in Schedulable /\ Owns(c, th[c])
  BY <1>a DEF IInv, TypeOK, Locals, Owns
<1>e. /\ queue' \in Seq(Schedulable)
      /\ \A k \in DOMAIN queue' :
           \/ k \in DOMAIN queue /\ queue'[k] = queue[k]
           \/ k = Len(queue) + 1 /\ k \notin DOMAIN queue /\ queue'[k] = th[c]
  BY <1>d, AppendEntries DEF IInv, TypeOK, LoopPush
<1>f. th[c] \in Thread => thTask[th[c]] \in Task /\ job[thTask[th[c]]] = "none"
  BY <1>d, OwnedThreadHeld, HeldNotReaped
<1>g. next[c] \in Returns /\ Ready(c, next[c])
  BY <1>a DEF IInv, Locals, Calling, Ready
<1>h. \A d \in Cpu, x \in Schedulable : Owns(d, x)' => Owns(d, x) /\ ~(d = c /\ x = th[c])
  BY <1>a, <1>b, <1>c, <1>g, <1>d, ConstantsAssumption
     DEF IInv, TypeOK, Owns, Unique, OneRole, Returns, threadVars,
         intdVars, curVars, ConstantsAssumption, Schedulable
<1>i. th[c] \in Task => job[th[c]] \in {"pid", "free"}
  BY <1>a DEF IInv, Jobs, JobInHand
<1> USE <1>a, <1>b, <1>c, ConstantsAssumption DEF ConstantsAssumption, IInv,
         taskVars, threadVars, intdVars, curVars, Goto, Calling, Returns,
         Points, Interruptible, Schedulable
<1>1. TypeOK'
  BY <1>e DEF TypeOK
<1>2. \A d \in Cpu : Locals(d)'
  BY DEF TypeOK, Locals, Ready
<1>3. \A d \in Cpu : Referenced(d)'
  <2> SUFFICES ASSUME NEW d \in Cpu PROVE Referenced(d)'
    OBVIOUS
  <2>1. CASE d = c
    BY <2>1, <1>g DEF TypeOK, Referenced, Locals, Ready
  <2>2. CASE d # c
    BY <2>2 DEF TypeOK, Referenced, Locals, Ready
  <2> QED
    BY <2>1, <2>2
<1>4. Allocated'
  <2>1. \A k \in DOMAIN queue' : queue'[k] \in Thread => thTask'[queue'[k]] # NULL
    BY <1>e, <1>f, ConstantsAssumption DEF TypeOK, Allocated
  <2> QED
    BY <2>1 DEF TypeOK, Allocated, Locals
<1>5. RefCountExact'
  BY DEF RefCountExact, HeldRefs
<1>6. Unique'
  <2>1. QueueOnce'
    BY <1>d, <1>e, <1>h DEF Unique, TypeOK, QueueOnce, QueueFree
  <2>2. QueueFree'
    BY <1>d, <1>e, <1>h DEF Unique, TypeOK, QueueFree, Owns, OneOwner, PollFree
  <2>3. PollFree'
    BY <1>d, <1>e, <1>h DEF Unique, TypeOK, PollFree, Owns
  <2>4. OneOwner'
    BY <1>d, <1>e, <1>h DEF Unique, TypeOK, OneOwner, Owns
  <2>5. OneRole'
    BY <1>d, <1>e, <1>h, ZenonT(30) DEF Unique, TypeOK, OneRole, Locals, Ready
  <2> QED
    BY <2>1, <2>2, <2>3, <2>4, <2>5 DEF Unique
<1>7. Jobs'
  <2>1. JobDead'
    BY <1>d, <1>e, <1>f, <1>g DEF Jobs, TypeOK, JobDead
  <2>2. JobQueued'
    BY <1>e, <1>i DEF Jobs, TypeOK, JobQueued
  <2>3. JobInHand'
    BY <1>d, <1>e, <1>f, <1>g DEF Jobs, TypeOK, JobInHand, Locals, Ready
  <2>4. JobLast'
    <3> SUFFICES ASSUME NEW k \in DOMAIN queue', queue'[k] \in Thread,
                        job[thTask[queue'[k]]] # "none"
                 PROVE  \E d \in Cpu : th'[d] = thTask[queue'[k]] /\ queue'[k] \in todo[d]
      BY DEF JobLast
    <3>1. k \in DOMAIN queue /\ queue'[k] = queue[k]
      BY <1>e, <1>f
    <3>2. PICK d \in Cpu : th[d] = thTask[queue[k]] /\ queue[k] \in todo[d]
      BY <3>1 DEF Jobs, JobLast
    <3> QED
      BY <3>1, <3>2, TodoReaped DEF TypeOK
  <2> QED
    BY <2>1, <2>2, <2>3, <2>4 DEF Jobs
<1>8. Launching'
  <2>1. LaunchPrivate'
    BY <1>g DEF Launching, TypeOK, LaunchPrivate, Locals, Ready
  <2>2. NoThreadYet'
    BY <1>g DEF Launching, TypeOK, NoThreadYet, Walking, Creating, Locals, Ready
  <2>3. OneCreator'
    BY <1>g DEF Launching, TypeOK, OneCreator, Creating, Locals, Ready
  <2> QED
    BY <2>1, <2>2, <2>3 DEF Launching
<1> QED
  BY <1>1, <1>2, <1>3, <1>4, <1>5, <1>6, <1>7, <1>8

\* anscheduler_task_dereference of the last reference to a killed task: this
\* CPU alone reaps the task.
LEMMA DereferenceReapStep ==
  ASSUME IInv, NEW c \in Cpu, TaskDereference(c), refCount[drop[c]] = 1, isKilled[drop[c]]
  PROVE  IInv'
<1> DEFINE t == drop[c]
<1>a. pc[c] = "deref" /\ t \in tasks /\ t \in Task /\ refCount[t] > 0 /\ job[t] = "none"
  <2>1. pc[c] = "deref" /\ t \in Task
    BY DEF TaskDereference, IInv, Locals, TypeOK
  <2> QED
    BY <2>1, HeldNotReaped
<1>b. /\ refCount' = [refCount EXCEPT ![t] = @ - 1] /\ drop' = [drop EXCEPT ![c] = NULL]
      /\ UNCHANGED <<tasks, isKilled, pidmap, threadVars, queue, intdVars, curVars, hold, nx>>
  BY DEF TaskDereference
<1>c. next[c] \in Returns /\ Ready(c, next[c])
  BY <1>a DEF IInv, Locals, Calling, Ready
<1>d. /\ job' = [job EXCEPT ![t] = "reap"] /\ th' = [th EXCEPT ![c] = t]
      /\ todo' = [todo EXCEPT ![c] = threads(t)] /\ next' = next
      /\ pc' = [pc EXCEPT ![c] = "reap"]
  BY DEF TaskDereference, Goto
<1>e. \A d \in Cpu : ~Owns(d, t)
  <2> SUFFICES ASSUME NEW d \in Cpu
               PROVE  th[d] # t /\ nx[d] # t /\ cpuThread[d] # t /\ intd # t
    BY DEF Owns
  <2>1. th[d] # t /\ cpuThread[d] # t
    BY <1>a DEF IInv, Jobs, JobInHand
  <2>2. nx[d] # t /\ intd # t
    BY <1>a, ConstantsAssumption DEF ConstantsAssumption, IInv, TypeOK
  <2> QED
    BY <2>1, <2>2
<1>f. \A i \in DOMAIN queue : queue[i] # t
  BY <1>a DEF IInv, Jobs, JobQueued
<1> USE <1>a, <1>b, <1>d, ConstantsAssumption DEF ConstantsAssumption, IInv,
         threadVars, intdVars, curVars, Goto, Calling, Returns, Points,
         Interruptible, Schedulable
<1>1. TypeOK'
  <2>1. refCount' \in [Task -> Nat]
    BY DEF TypeOK
  <2> QED
    BY <2>1, <1>c DEF threads, TypeOK, JobStage
<1>2. \A d \in Cpu : Locals(d)'
  <2> SUFFICES ASSUME NEW d \in Cpu PROVE Locals(d)'
    OBVIOUS
  <2>1. CASE d = c
    BY <2>1, <1>c DEF TypeOK, Locals, Ready
  <2>2. CASE d # c
    BY <2>2 DEF TypeOK, Locals, Ready
  <2> QED
    BY <2>1, <2>2
<1>3. \A d \in Cpu : Referenced(d)'
  <2> SUFFICES ASSUME NEW d \in Cpu PROVE Referenced(d)'
    OBVIOUS
  <2>1. CASE d = c
    BY <2>1, <1>c DEF TypeOK, Referenced, Locals, Ready
  <2>2. CASE d # c
    BY <2>2 DEF TypeOK, Referenced, Locals, Ready
  <2> QED
    BY <2>1, <2>2
<1>4. Allocated'
  BY DEF TypeOK, Allocated, Locals, Ready, Referenced
<1>5. RefCountExact'
  <2>1. OwnRefsOnly(c)
    BY DEF OwnRefsOnly, SameElsewhere, TypeOK
  <2>2. \A u \in tasks : Refs(c, u)' = Refs(c, u) - One(t, u)
    BY ONLY <1>a, <1>b, ConstantsAssumption, TypeOK, c \in Cpu
       DEF ConstantsAssumption, TypeOK, Refs, One, curVars
  <2> QED
    BY <2>1, <2>2, CountGiven
<1>6. Unique'
  <2>1. QueueOnce'
    BY <1>e, <1>f DEF Unique, TypeOK, QueueOnce
  <2>2. QueueFree'
    BY <1>e, <1>f DEF Unique, TypeOK, QueueFree, Owns
  <2>3. PollFree'
    BY <1>e, <1>f DEF Unique, TypeOK, PollFree, Owns
  <2>4. OneOwner'
    BY <1>e, <1>f DEF Unique, TypeOK, OneOwner, Owns
  <2>5. OneRole'
    BY <1>e, <1>f DEF Unique, TypeOK, OneRole, Locals, Ready, Owns
  <2> QED
    BY <2>1, <2>2, <2>3, <2>4, <2>5 DEF Unique
<1>7. Jobs'
  <2>1. JobDead'
    BY DEF Jobs, TypeOK, JobDead
  <2>2. JobQueued'
    BY <1>f DEF Jobs, TypeOK, JobQueued
  <2>3. JobInHand'
    BY <1>e DEF Jobs, TypeOK, JobInHand, Locals, Ready, threads, Owns
  <2>4. JobLast'
    <3> SUFFICES ASSUME NEW i \in DOMAIN queue, queue[i] \in Thread,
                        job'[thTask[queue[i]]] # "none"
                 PROVE  \E d \in Cpu : th'[d] = thTask[queue[i]] /\ queue[i] \in todo'[d]
      BY DEF JobLast
    <3>1. CASE thTask[queue[i]] = t
      BY <3>1 DEF TypeOK, threads
    <3>2. CASE thTask[queue[i]] # t
      <4>1. PICK d \in Cpu : th[d] = thTask[queue[i]] /\ queue[i] \in todo[d]
        BY <3>2 DEF Jobs, JobLast, TypeOK, Allocated
      <4>2. d # c
        BY <4>1, TodoReaped
      <4> QED
        BY <4>1, <4>2 DEF TypeOK
    <3> QED
      BY <3>1, <3>2
  <2> QED
    BY <2>1, <2>2, <2>3, <2>4 DEF Jobs
<1>8. Launching'
  <2>1. LaunchPrivate'
    BY <1>c DEF Launching, TypeOK, LaunchPrivate, Locals, Ready
  <2>2. NoThreadYet'
    BY <1>c DEF Launching, TypeOK, NoThreadYet, Walking, Creating, Locals, Ready
  <2>3. OneCreator'
    BY <1>c DEF Launching, TypeOK, OneCreator, Creating, Locals, Ready
  <2> QED
    BY <2>1, <2>2, <2>3 DEF Launching
<1> QED
  BY <1>1, <1>2, <1>3, <1>4, <1>5, <1>6, <1>7, <1>8

\* anscheduler_task_dereference that is not the last of a killed task.
LEMMA DereferenceReturnStep ==
  ASSUME IInv, NEW c \in Cpu, TaskDereference(c), ~(refCount[drop[c]] = 1 /\ isKilled[drop[c]])
  PROVE  IInv'
<1> DEFINE t == drop[c]
<1>a. pc[c] = "deref" /\ t \in tasks /\ t \in Task /\ refCount[t] > 0 /\ job[t] = "none"
  <2>1. pc[c] = "deref" /\ t \in Task
    BY DEF TaskDereference, IInv, Locals, TypeOK
  <2> QED
    BY <2>1, HeldNotReaped
<1>b. /\ refCount' = [refCount EXCEPT ![t] = @ - 1] /\ drop' = [drop EXCEPT ![c] = NULL]
      /\ UNCHANGED <<tasks, isKilled, pidmap, threadVars, queue, intdVars, curVars, hold, nx>>
  BY DEF TaskDereference
<1>c. next[c] \in Returns /\ Ready(c, next[c])
  BY <1>a DEF IInv, Locals, Calling, Ready
<1>d. /\ pc' = [pc EXCEPT ![c] = next[c]] /\ next' = [next EXCEPT ![c] = "loop"]
      /\ UNCHANGED <<job, th, todo>>
  BY DEF TaskDereference, Continue, Goto
<1>e. th[c] = NULL /\ todo[c] = {} /\ (cpuTask[c] # NULL <=> cpuThread[c] \in Thread)
  BY <1>a DEF IInv, Locals
<1> USE <1>a, <1>b, <1>d, ConstantsAssumption DEF ConstantsAssumption, IInv,
         threadVars, intdVars, curVars, Goto, Calling, Returns, Points,
         Interruptible, Schedulable
<1>1. TypeOK'
  <2>1. refCount' \in [Task -> Nat]
    BY DEF TypeOK
  <2> QED
    BY <2>1, <1>c DEF TypeOK, JobStage
<1>2. \A d \in Cpu : Locals(d)'
  <2> SUFFICES ASSUME NEW d \in Cpu PROVE Locals(d)'
    OBVIOUS
  <2>1. CASE d = c
    <3>1. PICK p \in Returns : p = next[c] /\ Ready(c, p)
      BY <1>c
    <3>2. pc'[c] = p /\ drop'[c] = NULL /\ Ready(c, p)'
      BY <3>1 DEF TypeOK, Ready
    <3> QED
      BY <2>1, <3>2, <1>e DEF Locals, Ready
  <2>2. CASE d # c
    BY <2>2 DEF TypeOK, Locals, Ready
  <2> QED
    BY <2>1, <2>2
<1>3. \A d \in Cpu : Referenced(d)'
  <2> SUFFICES ASSUME NEW d \in Cpu PROVE Referenced(d)'
    OBVIOUS
  <2>1. CASE d = c
    BY <2>1, <1>c, <1>e DEF TypeOK, Referenced, Ready
  <2>2. CASE d # c
    BY <2>2 DEF TypeOK, Referenced
  <2> QED
    BY <2>1, <2>2
<1>4. Allocated'
  BY DEF TypeOK, Allocated, Locals, Ready, Referenced
<1>5. RefCountExact'
  <2>1. OwnRefsOnly(c)
    BY DEF OwnRefsOnly, SameElsewhere, TypeOK
  <2>2. \A u \in tasks : Refs(c, u)' = Refs(c, u) - One(t, u)
    BY ONLY <1>a, <1>b, ConstantsAssumption, TypeOK, c \in Cpu
       DEF ConstantsAssumption, TypeOK, Refs, One, curVars
  <2> QED
    BY <2>1, <2>2, CountGiven
<1>6. Unique'
  <2>1. QueueOnce'
    BY <1>c DEF Unique, TypeOK, QueueOnce
  <2>2. QueueFree'
    BY <1>c DEF Unique, TypeOK, QueueFree, Owns
  <2>3. PollFree'
    BY <1>c DEF Unique, TypeOK, PollFree, Owns
  <2>4. OneOwner'
    BY <1>c DEF Unique, TypeOK, OneOwner, Owns
  <2>5. OneRole'
    BY <1>c DEF Unique, TypeOK, OneRole, Locals, Ready
  <2> QED
    BY <2>1, <2>2, <2>3, <2>4, <2>5 DEF Unique
<1>7. Jobs'
  <2>1. JobDead'
    BY <1>c DEF Jobs, TypeOK, JobDead
  <2>2. JobQueued'
    BY <1>c DEF Jobs, TypeOK, JobQueued
  <2>3. JobInHand'
    BY <1>c DEF Jobs, TypeOK, JobInHand, Locals, Ready
  <2>4. JobLast'
    BY <1>c DEF Jobs, TypeOK, JobLast
  <2> QED
    BY <2>1, <2>2, <2>3, <2>4 DEF Jobs
<1>8. Launching'
  <2>1. LaunchPrivate'
    BY <1>c DEF Launching, TypeOK, LaunchPrivate, Locals, Ready
  <2>2. NoThreadYet'
    BY <1>c DEF Launching, TypeOK, NoThreadYet, Walking, Creating, Locals, Ready
  <2>3. OneCreator'
    BY <1>c DEF Launching, TypeOK, OneCreator, Creating, Locals, Ready
  <2> QED
    BY <2>1, <2>2, <2>3 DEF Launching
<1> QED
  BY <1>1, <1>2, <1>3, <1>4, <1>5, <1>6, <1>7, <1>8

\* anscheduler_loop_delete in _generate_kill_job removes the only entry of
\* the thread.
LEMMA LoopDeleteStep ==
  ASSUME IInv, NEW c \in Cpu, LoopDelete(c)
  PROVE  IInv'
<1>a. pc[c] = "reap" /\ UNCHANGED <<taskVars, threadVars, intdVars, curVars, pc, next, th, hold, drop, nx>>
  BY DEF LoopDelete
<1>b. PICK x \in todo[c] :
        /\ todo' = [todo EXCEPT ![c] = @ \ {x}]
        /\ queue' \in Seq(Schedulable)
        /\ \E e, i : Picks(e, queue', queue, i)
        /\ \A k \in DOMAIN queue' : queue'[k] # x
  <2>1. PICK x \in todo[c] :
          /\ todo' = [todo EXCEPT ![c] = @ \ {x}]
          /\ \/ \E i \in DOMAIN queue : queue[i] = x /\ queue' = RemoveAt(queue, i)
             \/ (\A i \in DOMAIN queue : queue[i] # x) /\ queue' = queue
    BY DEF LoopDelete
  <2>2. queue \in Seq(Schedulable)
    BY DEF IInv, TypeOK
  <2>3. CASE \E i \in DOMAIN queue : queue[i] = x /\ queue' = RemoveAt(queue, i)
    <3>1. PICK i \in DOMAIN queue : queue[i] = x /\ queue' = RemoveAt(queue, i)
      BY <2>3
    <3>2. queue' \in Seq(Schedulable) /\ \E e : Picks(e, queue', queue, i)
      BY <2>2, <3>1, RemoveEntries
    <3>3. \A k \in DOMAIN queue' : queue'[k] # x
      BY <3>1, <3>2 DEF Picks, IInv, Unique, QueueOnce
    <3> QED
      BY <2>1, <3>2, <3>3
  <2>4. CASE (\A i \in DOMAIN queue : queue[i] # x) /\ queue' = queue
    <3>1. Picks([k \in DOMAIN queue |-> k], queue, queue, 0)
      BY <2>2 DEF Picks
    <3> QED
      BY <2>1, <2>2, <2>4, <3>1
  <2> QED
    BY <2>1, <2>3, <2>4
<1>c. PICK e, i : Picks(e, queue', queue, i)
  BY <1>b
<1>d. /\ \A k \in DOMAIN queue' : e[k] \in DOMAIN queue /\ queue'[k] = queue[e[k]] /\ queue'[k] # x
      /\ \A j, k \in DOMAIN queue' : e[j] = e[k] => j = k
  BY <1>b, <1>c DEF Picks
<1>e. todo' = [todo EXCEPT ![c] = @ \ {x}] /\ queue' \in Seq(Schedulable)
  BY <1>b
<1> USE <1>a, <1>e, ConstantsAssumption DEF ConstantsAssumption, IInv,
         taskVars, threadVars, intdVars, curVars, Calling, Returns, Points,
         Interruptible, Schedulable
<1>1. TypeOK'
  BY DEF TypeOK
<1>2. \A d \in Cpu : Locals(d)'
  BY DEF TypeOK, Locals, Ready
<1>3. \A d \in Cpu : Referenced(d)'
  BY DEF TypeOK, Referenced, Locals, Ready
<1>4. Allocated'
  <2>1. \A k \in DOMAIN queue' : queue'[k] \in Thread => thTask'[queue'[k]] # NULL
    BY <1>d DEF TypeOK, Allocated
  <2> QED
    BY <2>1 DEF TypeOK, Allocated, Locals
<1>5. RefCountExact'
  BY DEF RefCountExact, HeldRefs
<1>6. Unique'
  <2>1. QueueOnce'
    <3> SUFFICES ASSUME NEW j \in DOMAIN queue', NEW k \in DOMAIN queue', queue'[j] = queue'[k]
                 PROVE  j = k
      BY DEF QueueOnce
    <3>1. e[j] = e[k]
      BY <1>d DEF Unique, QueueOnce
    <3> QED
      BY <1>d, <3>1
  <2>2. QueueFree'
    <3> SUFFICES ASSUME NEW k \in DOMAIN queue', NEW d \in Cpu
                 PROVE  /\ queue'[k] \notin polling'
                        /\ th'[d] # queue'[k] /\ nx'[d] # queue'[k]
                        /\ ~(cpuThread'[d] = queue'[k] /\ pc'[d] # "polled")
                        /\ ~(pc'[d] = "irq" /\ intd' = queue'[k])
      BY DEF QueueFree, Owns
    <3>1. queue[e[k]] \notin polling /\ ~Owns(d, queue[e[k]])
      BY <1>d DEF Unique, QueueFree
    <3> QED
      BY <1>d, <3>1 DEF Owns
  <2>3. PollFree'
    BY DEF Unique, TypeOK, PollFree, Owns
  <2>4. OneOwner'
    BY DEF Unique, TypeOK, OneOwner, Owns
  <2>5. OneRole'
    BY DEF Unique, TypeOK, OneRole, Locals, Ready
  <2> QED
    BY <2>1, <2>2, <2>3, <2>4, <2>5 DEF Unique
<1>7. Jobs'
  <2>1. JobDead'
    BY DEF Jobs, TypeOK, JobDead
  <2>2. JobQueued'
    BY <1>d DEF Jobs, TypeOK, JobQueued
  <2>3. JobInHand'
    BY DEF Jobs, TypeOK, JobInHand, Locals, Ready
  <2>4. JobLast'
    <3> SUFFICES ASSUME NEW k \in DOMAIN queue', queue'[k] \in Thread,
                        job[thTask[queue'[k]]] # "none"
                 PROVE  \E d \in Cpu : th[d] = thTask[queue'[k]] /\ queue'[k] \in todo'[d]
      BY DEF JobLast
    <3>1. PICK d \in Cpu : th[d] = thTask[queue'[k]] /\ queue'[k] \in todo[d]
      BY <1>d DEF Jobs, JobLast
    <3> QED
      BY <1>d, <3>1 DEF TypeOK
  <2> QED
    BY <2>1, <2>2, <2>3, <2>4 DEF Jobs
<1>8. Launching'
  BY DEF TypeOK, Launching, LaunchPrivate, NoThreadYet, Walking, OneCreator,
         Creating, Locals, Ready
<1> QED
  BY <1>1, <1>2, <1>3, <1>4, <1>5, <1>6, <1>7, <1>8

\* anscheduler_loop_push_kernel: no thread of the task is left in the queue.
LEMMA PushKillJobStep ==
  ASSUME IInv, NEW c \in Cpu, PushKillJob(c)
  PROVE  IInv'
<1> USE ConstantsAssumption DEF ConstantsAssumption, IInv, PushKillJob,
         threadVars, intdVars, curVars, localVars, Goto, Calling, Returns,
         Points, Interruptible, Schedulable
<1>a. th[c] \in Task /\ job[th[c]] = "reap" /\ next[c] \in Returns
  BY DEF Locals, Ready, Jobs, JobInHand
<1>b. \A d \in Cpu : th[d] = th[c] => d = c
  BY <1>a DEF Unique, OneOwner, Owns
<1>1. TypeOK'
  BY DEF TypeOK, Locals, Ready, JobStage
<1>2. \A d \in Cpu : Locals(d)'
  BY DEF TypeOK, Locals, Ready
<1>3. \A d \in Cpu : Referenced(d)'
  BY DEF TypeOK, Referenced, Locals, Ready
<1>4. Allocated'
  BY DEF TypeOK, Allocated, Locals, Ready, Referenced
<1>5. RefCountExact'
  BY DEF RefCountExact, HeldRefs
<1>6. Unique'
  BY DEF TypeOK, Unique, QueueOnce, QueueFree, PollFree, OneOwner,
         OneRole, Owns, Locals, Ready
<1>7. Jobs'
  <2>1. JobDead'
    BY <1>a DEF Jobs, TypeOK, JobDead
  <2>2. JobQueued'
    BY <1>a DEF Jobs, TypeOK, JobQueued
  <2>3. JobInHand'
    BY <1>a, <1>b DEF Jobs, TypeOK, JobInHand, Locals, Ready
  <2>4. JobLast'
    <3> SUFFICES ASSUME NEW i \in DOMAIN queue, queue[i] \in Thread,
                        job'[thTask[queue[i]]] # "none"
                 PROVE  \E d \in Cpu : th[d] = thTask[queue[i]] /\ queue[i] \in todo[d]
      BY DEF JobLast
    <3>1. job[thTask[queue[i]]] # "none"
      BY <1>a DEF TypeOK, Allocated
    <3> QED
      BY <3>1 DEF Jobs, JobLast
  <2> QED
    BY <2>1, <2>2, <2>3, <2>4 DEF Jobs
<1>8. Launching'
  BY DEF TypeOK, Launching, LaunchPrivate, NoThreadYet, Walking, OneCreator,
         Creating, Locals, Ready
<1> QED
  BY <1>1, <1>2, <1>3, <1>4, <1>5, <1>6, <1>7, <1>8

\* _next_thread: the entry taken from the queue is in nobody else's hand,
\* and the reference taken for it is counted.
LEMMA RunNextStep ==
  ASSUME IInv, NEW c \in Cpu, RunNext(c)
  PROVE  IInv'
<1>a. /\ pc[c] = "loop"
      /\ UNCHANGED <<tasks, isKilled, pidmap, job, threadVars, intdVars, localVars>>
      /\ cpuThread[c] = NULL /\ cpuTask[c] = NULL /\ hold[c] = NULL /\ drop[c] = NULL
      /\ th[c] = NULL /\ nx[c] = NULL
  BY ConstantsAssumption
     DEF ConstantsAssumption, RunNext, IInv, Locals, Ready, Returns
<1>b. PICK i \in DOMAIN queue :
        /\ Startable(queue[i]) /\ queue' = SubSeq(queue, i + 1, Len(queue))
        /\ IF queue[i] \in Task
             THEN /\ SetCurrent(c, NULL, queue[i])
                  /\ Goto(c, "job")
                  /\ refCount' = refCount
             ELSE /\ SetCurrent(c, thTask[queue[i]], queue[i])
                  /\ Goto(c, "user")
                  /\ Reference(thTask[queue[i]])
  BY DEF RunNext
<1> DEFINE y == queue[i]
<1>c. queue \in Seq(Schedulable) /\ y \in Schedulable
  BY DEF IInv, TypeOK
<1>d. queue' \in Seq(Schedulable) /\ \E e : Picks(e, queue', queue, i)
  BY <1>b, <1>c, TailEntries
<1>e. PICK e : Picks(e, queue', queue, i)
  BY <1>d
<1>f. /\ \A k \in DOMAIN queue' : e[k] \in DOMAIN queue /\ queue'[k] = queue[e[k]] /\ queue'[k] # y
      /\ \A j, k \in DOMAIN queue' : e[j] = e[k] => j = k
  BY <1>b, <1>e DEF Picks, IInv, Unique, QueueOnce
<1>g. PICK tk \in tasks \cup {NULL}, p \in {"job", "user"} :
        /\ SetCurrent(c, tk, y) /\ pc' = [pc EXCEPT ![c] = p]
        /\ \/ y \in Task /\ tk = NULL /\ p = "job" /\ refCount' = refCount
           \/ /\ y \in Thread /\ tk = thTask[y] /\ tk # NULL /\ p = "user"
              /\ refCount' = [refCount EXCEPT ![tk] = @ + 1]
              /\ ~isKilled[tk]
  <2>1. CASE y \in Task
    BY <1>b, <2>1 DEF Goto
  <2>2. CASE y \notin Task
    <3>1. y \in Thread /\ thTask[y] \in tasks \cup {NULL} /\ thTask[y] # NULL
      BY <1>c, <2>2 DEF Schedulable, IInv, Allocated
    <3> QED
      BY <1>b, <2>2, <3>1 DEF Goto, Reference
  <2> QED
    BY <2>1, <2>2
<1>h. y \notin polling /\ \A d \in Cpu : ~Owns(d, y)
  BY DEF IInv, Unique, QueueFree
<1>i. \A d \in Cpu : \A x \in Thread : Walking(d) /\ thTask[x] = tk => hold[d] # tk
  BY DEF IInv, Launching, NoThreadYet
<1> USE <1>a, <1>d, <1>g, ConstantsAssumption DEF ConstantsAssumption, IInv,
         threadVars, intdVars, localVars, SetCurrent, Calling, Returns, Points,
         Interruptible, Schedulable
<1>1. TypeOK'
  <2>1. CASE tk = NULL
    BY <2>1, <1>c DEF TypeOK
  <2>2. CASE tk # NULL
    <3>1. refCount' \in [Task -> Nat]
      BY <2>2 DEF TypeOK
    <3> QED
      BY <2>2, <3>1, <1>c DEF TypeOK
  <2> QED
    BY <2>1, <2>2
<1>2. \A d \in Cpu : Locals(d)'
  BY DEF TypeOK, Locals, Ready
<1>3. \A d \in Cpu : Referenced(d)'
  BY DEF TypeOK, Referenced, Locals, Ready
<1>4. Allocated'
  <2>1. \A k \in DOMAIN queue : queue[k] \in Thread => thTask[queue[k]] # NULL
    BY DEF Allocated
  <2>2. \A k \in DOMAIN queue' : queue'[k] \in Thread => thTask'[queue'[k]] # NULL
    BY ONLY <1>a, <1>f, <2>1 DEF threadVars
  <2> QED
    BY <2>2 DEF TypeOK, Allocated, Locals
<1>5. RefCountExact'
  <2>1. OwnRefsOnly(c)
    BY DEF OwnRefsOnly, SameElsewhere, TypeOK
  <2>2. cpuTask'[c] = tk /\ hold'[c] = NULL /\ drop'[c] = NULL
    BY DEF TypeOK
  <2>3. CASE tk = NULL
    <3>1. tasks' = tasks /\ refCount' = refCount
      BY <2>3
    <3>2. \A u \in tasks : Refs(c, u)' = Refs(c, u)
      BY ONLY <1>a, <2>2, <2>3 DEF Refs, One
    <3> QED
      BY <2>1, <3>1, <3>2, CountSame
  <2>4. CASE tk # NULL
    <3>1. tk \in tasks /\ tasks' = tasks /\ refCount' = [refCount EXCEPT ![tk] = @ + 1]
      BY <2>4
    <3>2. NULL \notin tasks
      BY DEF TypeOK
    <3>3. \A u \in tasks : Refs(c, u)' = Refs(c, u) + One(tk, u)
      BY ONLY <1>a, <2>2, <3>2 DEF Refs, One
    <3> QED
      BY <2>1, <3>1, <3>3, CountTaken
  <2> QED
    BY <2>3, <2>4
<1>6. Unique'
  <2>1. QueueOnce'
    <3> SUFFICES ASSUME NEW j \in DOMAIN queue', NEW k \in DOMAIN queue', queue'[j] = queue'[k]
                 PROVE  j = k
      BY DEF QueueOnce
    <3>1. e[j] = e[k]
      BY <1>f DEF Unique, QueueOnce
    <3> QED
      BY <1>f, <3>1
  <2>2. QueueFree'
    <3> SUFFICES ASSUME NEW k \in DOMAIN queue', NEW d \in Cpu
                 PROVE  /\ queue'[k] \notin polling'
                        /\ th'[d] # queue'[k] /\ nx'[d] # queue'[k]
                        /\ ~(cpuThread'[d] = queue'[k] /\ pc'[d] # "polled")
                        /\ ~(pc'[d] = "irq" /\ intd' = queue'[k])
      BY DEF QueueFree, Owns
    <3>1. queue[e[k]] \notin polling /\ ~Owns(d, queue[e[k]])
      BY <1>f DEF Unique, QueueFree
    <3> QED
      BY <1>f, <3>1 DEF Owns, TypeOK
  <2>3. PollFree'
    BY <1>h, <1>c DEF Unique, TypeOK, PollFree, Owns
  <2>4. OneOwner'
    BY <1>h, <1>c DEF Unique, TypeOK, OneOwner, Owns
  <2>5. OneRole'
    BY <1>h, <1>c DEF Unique, TypeOK, OneRole, Locals, Ready
  <2> QED
    BY <2>1, <2>2, <2>3, <2>4, <2>5 DEF Unique
<1>7. Jobs'
  <2>1. JobDead'
    <3>1. tk # NULL => job[tk] = "none"
      BY DEF Jobs, JobDead, TypeOK
    <3> QED
      BY <3>1 DEF Jobs, JobDead, TypeOK
  <2>2. JobQueued'
    BY <1>f DEF Jobs, TypeOK, JobQueued
  <2>3. JobInHand'
    BY <1>b DEF Jobs, TypeOK, JobInHand, Locals, Ready, JobQueued
  <2>4. JobLast'
    <3> SUFFICES ASSUME NEW k \in DOMAIN queue', queue'[k] \in Thread,
                        job[thTask[queue'[k]]] # "none"
                 PROVE  \E d \in Cpu : th[d] = thTask[queue'[k]] /\ queue'[k] \in todo[d]
      BY DEF JobLast
    <3> QED
      BY <1>f DEF Jobs, JobLast
  <2> QED
    BY <2>1, <2>2, <2>3, <2>4 DEF Jobs
<1>8. Launching'
  <2>1. LaunchPrivate'
    BY <1>i DEF Launching, TypeOK, LaunchPrivate, Locals, Ready, Walking
  <2>2. NoThreadYet'
    BY <1>i DEF Launching, TypeOK, NoThreadYet, Walking, Creating, Locals, Ready
  <2>3. OneCreator'
    BY <1>i DEF Launching, TypeOK, OneCreator, Creating, Locals, Ready
  <2> QED
    BY <2>1, <2>2, <2>3 DEF Launching
<1> QED
  BY <1>1, <1>2, <1>3, <1>4, <1>5, <1>6, <1>7, <1>8

\* _next_thread that finds nothing to run drops every entry, all of killed
\* tasks.
LEMMA RunIdleStep ==
  ASSUME IInv, NEW c \in Cpu, RunIdle(c)
  PROVE  IInv'
<1> USE ConstantsAssumption DEF ConstantsAssumption, IInv, RunIdle, taskVars,
         threadVars, intdVars, curVars, localVars, Goto, Startable, Calling,
         Returns, Points, Interruptible, Schedulable
<1>1. TypeOK'
  BY DEF TypeOK, Locals, Ready, JobStage
<1>2. \A d \in Cpu : Locals(d)'
  BY DEF TypeOK, Locals, Ready
<1>3. \A d \in Cpu : Referenced(d)'
  BY DEF TypeOK, Referenced, Locals, Ready
<1>4. Allocated'
  BY DEF TypeOK, Allocated, Locals, Ready, Referenced
<1>5. RefCountExact'
  BY DEF RefCountExact, HeldRefs
<1>6. Unique'
  BY DEF TypeOK, Unique, QueueOnce, QueueFree, PollFree, OneOwner,
         OneRole, Owns, Locals, Ready
<1>7. Jobs'
  BY DEF TypeOK, Jobs, JobDead, JobQueued, JobInHand, JobLast,
         Locals, Ready, JobStage
<1>8. Launching'
  BY DEF TypeOK, Launching, LaunchPrivate, NoThreadYet, Walking, OneCreator,
         Creating, Locals, Ready
<1> QED
  BY <1>1, <1>2, <1>3, <1>4, <1>5, <1>6, <1>7, <1>8

\* anscheduler_loop_resign: the reference of the running thread is in hand
\* until the thread has been pushed.
LEMMA ResignStep ==
  ASSUME IInv, NEW c \in Cpu, Resign(c)
  PROVE  IInv'
<1>1. RefCountExact'
  <2>1. OwnRefsOnly(c)
    BY DEF IInv, TypeOK, OwnRefsOnly, SameElsewhere, Resign, PushCurrent,
           SetCurrent, taskVars
  <2>2. tasks' = tasks /\ refCount' = refCount
    BY DEF Resign, PushCurrent, SetCurrent, taskVars
  <2>3. cpuTask'[c] = NULL /\ hold'[c] = hold[c] /\ drop'[c] = cpuTask[c] /\ drop[c] = NULL
    BY DEF IInv, TypeOK, Locals, Ready, Returns, Resign, PushCurrent,
           SetCurrent, taskVars
  <2>4. \A t \in tasks : Refs(c, t)' = Refs(c, t)
    BY <2>3, ConstantsAssumption DEF ConstantsAssumption, IInv, TypeOK, Refs, One
  <2> QED
    BY <2>1, <2>2, <2>4, CountSame DEF IInv
<1> USE ConstantsAssumption DEF ConstantsAssumption, IInv, Resign, taskVars,
         threadVars, intdVars, PushCurrent, Goto, SetCurrent, Calling, Returns,
         Points, Interruptible, Schedulable
<1>2. TypeOK'
  BY DEF TypeOK, Locals, Ready, JobStage
<1>3. \A d \in Cpu : Locals(d)'
  BY DEF TypeOK, Locals, Ready
<1>4. \A d \in Cpu : Referenced(d)'
  BY DEF TypeOK, Referenced, Locals, Ready
<1>5. Allocated'
  BY DEF TypeOK, Allocated, Locals, Ready, Referenced
<1>6. Unique'
  BY DEF TypeOK, Unique, QueueOnce, QueueFree, PollFree, OneOwner,
         OneRole, Owns, Locals, Ready
<1>7. Jobs'
  BY DEF TypeOK, Jobs, JobDead, JobQueued, JobInHand, JobLast,
         Locals, Ready, JobStage
<1>8. Launching'
  BY DEF TypeOK, Launching, LaunchPrivate, NoThreadYet, Walking, OneCreator,
         Creating, Locals, Ready
<1> QED
  BY <1>1, <1>2, <1>3, <1>4, <1>5, <1>6, <1>7, <1>8

\* Entering anscheduler_loop_run.
LEMMA EnterLoopStep ==
  ASSUME IInv, NEW c \in Cpu, EnterLoop(c)
  PROVE  IInv'
<1> USE ConstantsAssumption DEF ConstantsAssumption, IInv, EnterLoop, taskVars,
         threadVars, intdVars, curVars, localVars, Goto, Calling, Returns,
         Points, Interruptible, Schedulable
<1>1. TypeOK'
  BY DEF TypeOK, Locals, Ready, JobStage
<1>2. \A d \in Cpu : Locals(d)'
  BY DEF TypeOK, Locals, Ready
<1>3. \A d \in Cpu : Referenced(d)'
  BY DEF TypeOK, Referenced, Locals, Ready
<1>4. Allocated'
  BY DEF TypeOK, Allocated, Locals, Ready, Referenced
<1>5. RefCountExact'
  BY DEF RefCountExact, HeldRefs
<1>6. Unique'
  BY DEF TypeOK, Unique, QueueOnce, QueueFree, PollFree, OneOwner,
         OneRole, Owns, Locals, Ready
<1>7. Jobs'
  BY DEF TypeOK, Jobs, JobDead, JobQueued, JobInHand, JobLast,
         Locals, Ready, JobStage
<1>8. Launching'
  BY DEF TypeOK, Launching, LaunchPrivate, NoThreadYet, Walking, OneCreator,
         Creating, Locals, Ready
<1> QED
  BY <1>1, <1>2, <1>3, <1>4, <1>5, <1>6, <1>7, <1>8

\* _switch_to_thread: the reference in hand becomes that of the running
\* thread.
LEMMA SwitchToThreadStep ==
  ASSUME IInv, NEW c \in Cpu, SwitchToThread(c)
  PROVE  IInv'
<1>1. RefCountExact'
  <2>1. OwnRefsOnly(c)
    BY DEF IInv, TypeOK, OwnRefsOnly, SameElsewhere, SwitchToThread,
           SetCurrent, taskVars
  <2>2. tasks' = tasks /\ refCount' = refCount
    BY DEF SwitchToThread, SetCurrent, taskVars
  <2>3. cpuTask[c] = NULL /\ cpuTask'[c] = hold[c] /\ hold'[c] = NULL /\ drop'[c] = drop[c]
    BY ConstantsAssumption
       DEF ConstantsAssumption, IInv, TypeOK, Locals, Ready, Returns,
           SwitchToThread, SetCurrent, taskVars, Referenced
  <2>4. \A t \in tasks : Refs(c, t)' = Refs(c, t)
    BY <2>3, ConstantsAssumption DEF ConstantsAssumption, IInv, TypeOK, Refs, One
  <2> QED
    BY <2>1, <2>2, <2>4, CountSame DEF IInv
<1> USE ConstantsAssumption DEF ConstantsAssumption, IInv, SwitchToThread,
         taskVars, threadVars, intdVars, Goto, SetCurrent, Calling, Returns,
         Points, Interruptible, Schedulable
<1>2. TypeOK'
  BY DEF TypeOK, Locals, Ready, JobStage
<1>3. \A d \in Cpu : Locals(d)'
  <2> SUFFICES ASSUME NEW d \in Cpu PROVE Locals(d)'
    OBVIOUS
  <2>1. CASE d = c
    BY <2>1 DEF TypeOK, Locals, Ready, Referenced
  <2>2. CASE d # c
    BY <2>2 DEF TypeOK, Locals, Ready
  <2> QED
    BY <2>1, <2>2
<1>4. \A d \in Cpu : Referenced(d)'
  BY DEF TypeOK, Referenced, Locals, Ready
<1>5. Allocated'
  BY DEF TypeOK, Allocated, Locals, Ready, Referenced
<1>6. Unique'
  BY DEF TypeOK, Unique, QueueOnce, QueueFree, PollFree, OneOwner,
         OneRole, Owns, Locals, Ready
<1>7. Jobs'
  BY DEF TypeOK, Jobs, JobDead, JobQueued, JobInHand, JobLast,
         Locals, Ready, JobStage
<1>8. Launching'
  BY DEF TypeOK, Launching, LaunchPrivate, NoThreadYet, Walking, OneCreator,
         Creating, Locals, Ready
<1> QED
  BY <1>1, <1>2, <1>3, <1>4, <1>5, <1>6, <1>7, <1>8

\* anscheduler_task_create: a structure that was free is referenced by
\* nobody.
LEMMA TaskCreateStep ==
  ASSUME IInv, NEW c \in Cpu, TaskCreate(c)
  PROVE  IInv'
<1>a. PICK t \in Task \ tasks :
        /\ tasks' = tasks \cup {t} /\ refCount' = [refCount EXCEPT ![t] = 1]
        /\ isKilled' = [isKilled EXCEPT ![t] = FALSE] /\ hold' = [hold EXCEPT ![c] = t]
  BY DEF TaskCreate
<1>b. \A d \in Cpu : cpuTask[d] # t /\ hold[d] # t /\ drop[d] # t
  BY <1>a, ConstantsAssumption DEF ConstantsAssumption, IInv, Allocated
<1>c. job[t] = "none" /\ t \notin pidmap /\ \A x \in Thread : thTask[x] # t
  BY <1>a, ConstantsAssumption DEF ConstantsAssumption, IInv, Allocated, Jobs, JobDead
<1>d. /\ pc[c] \in {"boot", "user"} /\ pc' = [pc EXCEPT ![c] = "launch"]
      /\ UNCHANGED <<pidmap, job, threadVars, queue, intdVars, curVars, next, th, drop, todo, nx>>
  BY DEF TaskCreate, Calls, Goto
<1>e. hold[c] = NULL /\ drop[c] = NULL
  BY <1>d DEF IInv, Locals, Ready, Returns
<1> USE <1>a, <1>d, ConstantsAssumption DEF ConstantsAssumption, IInv,
         threadVars, intdVars, curVars, Goto, Calling, Returns, Points,
         Interruptible, Schedulable
<1>1. TypeOK'
  BY DEF TypeOK, Locals, Ready, JobStage
<1>2. \A d \in Cpu : Locals(d)'
  BY DEF TypeOK, Locals, Ready
<1>3. \A d \in Cpu : Referenced(d)'
  BY DEF TypeOK, Referenced, Locals, Ready
<1>4. Allocated'
  BY DEF TypeOK, Allocated, Locals, Ready, Referenced
<1>5. RefCountExact'
  <2> SUFFICES ASSUME NEW u \in tasks' PROVE refCount'[u] = HeldRefs(u)'
    BY DEF RefCountExact
  <2>1. OwnRefsOnly(c)
    BY DEF OwnRefsOnly, SameElsewhere, TypeOK
  <2>4. HeldRefs(u)' = HeldRefs(u) + Refs(c, u)' - Refs(c, u)
    BY <2>1, RefsMove DEF OwnRefsOnly
  <2>5. HeldRefs(u) \in Nat /\ Refs(c, u) \in Nat
    BY RefsBound
  <2>6. CASE u = t
    <3>1. Refs(c, u)' = 1 /\ Refs(c, u) = 0
      BY <1>b, <2>6 DEF Refs, One, TypeOK
    <3>2. HeldRefs(u) = 0
      BY <1>b, <2>6, SlotsType DEF HeldRefs
    <3> QED
      BY <2>4, <2>6, <3>1, <3>2 DEF TypeOK
  <2>7. CASE u # t
    <3>1. Refs(c, u)' = Refs(c, u)
      BY <1>e, <2>7 DEF Refs, One, TypeOK
    <3> QED
      BY <2>4, <2>5, <2>7, <3>1 DEF TypeOK, RefCountExact
  <2> QED
    BY <2>6, <2>7
<1>6. Unique'
  BY DEF TypeOK, Unique, QueueOnce, QueueFree, PollFree, OneOwner,
         OneRole, Owns, Locals, Ready
<1>7. Jobs'
  <2>1. JobDead'
    BY <1>c DEF Jobs, TypeOK, JobDead
  <2>2. JobQueued'
    BY <1>c DEF Jobs, TypeOK, JobQueued
  <2>3. JobInHand'
    BY <1>c DEF Jobs, TypeOK, JobInHand, Locals, Ready
  <2>4. JobLast'
    BY <1>c DEF Jobs, TypeOK, JobLast
  <2> QED
    BY <2>1, <2>2, <2>3, <2>4 DEF Jobs
<1>8. Launching'
  <2>1. LaunchPrivate'
    BY <1>b, <1>c DEF Launching, TypeOK, LaunchPrivate, Locals, Ready
  <2>2. NoThreadYet'
    BY <1>b, <1>c DEF Launching, TypeOK, NoThreadYet, Walking, Creating, Locals, Ready
  <2>3. OneCreator'
    BY <1>b, <1>c DEF Launching, TypeOK, OneCreator, Creating, Locals, Ready
  <2> QED
    BY <2>1, <2>2, <2>3 DEF Launching
<1> QED
  BY <1>1, <1>2, <1>3, <1>4, <1>5, <1>6, <1>7, <1>8

\* anscheduler_task_launch up to anscheduler_pidmap_set: nobody can have
\* killed the task before, so its reference is counted.
LEMMA TaskLaunchStep ==
  ASSUME IInv, NEW c \in Cpu, TaskLaunch(c)
  PROVE  IInv'
<1>1. RefCountExact'
  <2>1. OwnRefsOnly(c)
    BY DEF IInv, TypeOK, OwnRefsOnly, SameElsewhere, TaskLaunch, curVars
  <2>2. hold[c] \in tasks /\ tasks' = tasks
    BY DEF IInv, Allocated, Locals, TaskLaunch
  <2>3. refCount' = [refCount EXCEPT ![hold[c]] = @ + 1]
    BY DEF IInv, Launching, LaunchPrivate, TaskLaunch, Reference
  <2>4. /\ cpuTask'[c] = cpuTask[c] /\ hold'[c] = hold[c]
        /\ drop[c] = NULL /\ drop'[c] = hold[c]
    BY DEF IInv, TypeOK, Locals, TaskLaunch, curVars
  <2>5. \A u \in tasks : Refs(c, u)' = Refs(c, u) + One(hold[c], u)
    BY <2>4, ConstantsAssumption DEF ConstantsAssumption, IInv, TypeOK, Refs, One
  <2> QED
    BY <2>1, <2>2, <2>3, <2>5, CountTaken DEF IInv
<1> USE ConstantsAssumption DEF ConstantsAssumption, IInv, TaskLaunch,
         threadVars, intdVars, curVars, Goto, Reference, Calling, Returns,
         Points, Interruptible, Schedulable
<1>a. ~isKilled[hold[c]] /\ hold[c] \in Task /\ job[hold[c]] = "none"
  <2>1. ~isKilled[hold[c]] /\ hold[c] \in Task
    BY DEF Launching, LaunchPrivate, TypeOK, Locals
  <2> QED
    BY <2>1, HeldNotReaped
<1>2. TypeOK'
  <2>1. refCount' = [refCount EXCEPT ![hold[c]] = @ + 1]
    BY <1>a
  <2>2. refCount' \in [Task -> Nat] /\ pidmap' \subseteq Task
    BY <2>1, <1>a DEF TypeOK
  <2> QED
    BY <2>2, <1>a DEF TypeOK, JobStage
<1>3. \A d \in Cpu : Locals(d)'
  BY DEF TypeOK, Locals, Ready
<1>4. \A d \in Cpu : Referenced(d)'
  BY DEF TypeOK, Referenced, Locals, Ready
<1>5. Allocated'
  BY DEF TypeOK, Allocated, Locals, Ready, Referenced
<1>6. Unique'
  BY DEF TypeOK, Unique, QueueOnce, QueueFree, PollFree, OneOwner,
         OneRole, Owns, Locals, Ready
<1>7. Jobs'
  BY <1>a
     DEF TypeOK, Jobs, JobDead, JobQueued, JobInHand, JobLast, Locals,
         Ready, JobStage
<1>8. Launching'
  BY DEF TypeOK, Launching, LaunchPrivate, NoThreadYet, Walking, OneCreator,
         Creating, Locals, Ready
<1> QED
  BY <1>1, <1>2, <1>3, <1>4, <1>5, <1>6, <1>7, <1>8

\* anscheduler_task_launch takes threadsLock and finds no thread, since only
\* the creator adds the first one.
LEMMA LaunchWalkStep ==
  ASSUME IInv, NEW c \in Cpu, LaunchWalk(c)
  PROVE  IInv'
<1>a. threads(drop[c]) = {} /\ todo' = [todo EXCEPT ![c] = {}]
  <2>1. \A x \in Thread : thTask[x] # drop[c]
    BY DEF IInv, LaunchWalk, Locals, Launching, NoThreadYet, Walking, Creating
  <2> QED
    BY <2>1 DEF threads, LaunchWalk
<1> USE <1>a, ConstantsAssumption DEF ConstantsAssumption, IInv, LaunchWalk,
         taskVars, threadVars, intdVars, curVars, Goto, threads, Calling,
         Returns, Points, Interruptible, Schedulable
<1>1. TypeOK'
  BY DEF TypeOK, Locals, Ready, JobStage
<1>2. \A d \in Cpu : Locals(d)'
  BY DEF TypeOK, Locals, Ready
<1>3. \A d \in Cpu : Referenced(d)'
  BY DEF TypeOK, Referenced, Locals, Ready
<1>4. Allocated'
  BY DEF TypeOK, Allocated, Locals, Ready, Referenced
<1>5. RefCountExact'
  BY DEF RefCountExact, HeldRefs
<1>6. Unique'
  BY DEF TypeOK, Unique, QueueOnce, QueueFree, PollFree, OneOwner,
         OneRole, Owns, Locals, Ready
<1>7. Jobs'
  BY DEF TypeOK, Jobs, JobDead, JobQueued, JobInHand, JobLast,
         Locals, Ready, JobStage
<1>8. Launching'
  BY DEF TypeOK, Launching, LaunchPrivate, NoThreadYet, Walking, OneCreator,
         Creating, Locals, Ready
<1> QED
  BY <1>1, <1>2, <1>3, <1>4, <1>5, <1>6, <1>7, <1>8

\* The end of the walk of anscheduler_task_launch.
LEMMA LaunchPushStep ==
  ASSUME IInv, NEW c \in Cpu, LaunchPush(c)
  PROVE  IInv'
<1>a. /\ pc[c] = "pushall"
      /\ next' = [next EXCEPT ![c] = "created"] /\ pc' = [pc EXCEPT ![c] = "deref"]
      /\ UNCHANGED <<taskVars, threadVars, queue, intdVars, curVars, hold, drop, nx, th, todo>>
  BY DEF IInv, LaunchPush, Locals, Goto
<1> USE <1>a, ConstantsAssumption DEF ConstantsAssumption, IInv, taskVars,
         threadVars, intdVars, curVars, Goto, Calling, Returns, Points,
         Interruptible, Schedulable
<1>1. TypeOK'
  BY DEF TypeOK, Locals, Ready, JobStage
<1>2. \A d \in Cpu : Locals(d)'
  BY DEF TypeOK, Locals, Ready
<1>3. \A d \in Cpu : Referenced(d)'
  BY DEF TypeOK, Referenced, Locals, Ready
<1>4. Allocated'
  BY DEF TypeOK, Allocated, Locals, Ready, Referenced
<1>5. RefCountExact'
  BY DEF RefCountExact, HeldRefs
<1>6. Unique'
  BY DEF TypeOK, Unique, QueueOnce, QueueFree, PollFree, OneOwner,
         OneRole, Owns, Locals, Ready
<1>7. Jobs'
  BY DEF TypeOK, Jobs, JobDead, JobQueued, JobInHand, JobLast,
         Locals, Ready, JobStage
<1>8. Launching'
  BY DEF TypeOK, Launching, LaunchPrivate, NoThreadYet, Walking, OneCreator,
         Creating, Locals, Ready
<1> QED
  BY <1>1, <1>2, <1>3, <1>4, <1>5, <1>6, <1>7, <1>8

\* The creator's anscheduler_thread_add: a structure that was free is in no
\* list and no hand.
LEMMA CreatorAddStep ==
  ASSUME IInv, NEW c \in Cpu, CreatorAdd(c)
  PROVE  IInv'
<1>1. RefCountExact'
  <2>1. OwnRefsOnly(c)
    BY DEF IInv, TypeOK, OwnRefsOnly, SameElsewhere, CreatorAdd, NewThread,
           Release, curVars, taskVars
  <2>2. tasks' = tasks /\ refCount' = refCount
    BY DEF CreatorAdd, NewThread, Release, curVars, taskVars
  <2>3. cpuTask'[c] = cpuTask[c] /\ hold'[c] = NULL /\ drop'[c] = hold[c] /\ drop[c] = NULL
    BY DEF IInv, TypeOK, Locals, Ready, Returns, CreatorAdd, NewThread,
           Release, curVars, taskVars
  <2>4. \A t \in tasks : Refs(c, t)' = Refs(c, t)
    BY <2>3, ConstantsAssumption DEF ConstantsAssumption, IInv, TypeOK, Refs, One
  <2> QED
    BY <2>1, <2>2, <2>4, CountSame DEF IInv
<1>a. PICK x \in Thread :
        /\ thTask[x] = NULL
        /\ thTask' = [thTask EXCEPT ![x] = hold[c]] /\ th' = [th EXCEPT ![c] = x]
  BY DEF CreatorAdd, NewThread
<1>b. \A d \in Cpu : ~Owns(d, x)
  BY <1>a, OwnedThreadHeld, ConstantsAssumption DEF ConstantsAssumption
<1>c. \A i \in DOMAIN queue : queue[i] # x
  BY <1>a DEF IInv, Allocated
<1>d. \A d \in Cpu : x \notin todo[d]
  BY <1>a, TodoReaped, ConstantsAssumption DEF ConstantsAssumption
<1>e. x \notin polling /\ intd # x
  BY <1>a, ConstantsAssumption DEF IInv, Allocated, ConstantsAssumption
<1>f. hold[c] \in Task /\ job[hold[c]] = "none"
  <2>1. hold[c] \in Task
    BY DEF CreatorAdd, IInv, Locals, Ready, Returns, TypeOK
  <2> QED
    BY <2>1, HeldNotReaped
<1>g. /\ UNCHANGED <<taskVars, exiting, polling, queue, intdVars, curVars, todo, nx>>
      /\ pc[c] = "created" /\ pc' = [pc EXCEPT ![c] = "check"]
  BY DEF CreatorAdd, NewThread, Goto
<1>h. /\ drop' = [drop EXCEPT ![c] = hold[c]] /\ hold' = [hold EXCEPT ![c] = NULL]
      /\ next' = [next EXCEPT ![c] = Caller(c)]
  BY DEF CreatorAdd, Release
<1> USE <1>a, <1>g, <1>h, ConstantsAssumption DEF ConstantsAssumption, IInv,
         Caller, taskVars, intdVars, curVars, Goto, Calling, Returns, Points,
         Interruptible, Schedulable
<1>2. TypeOK'
  BY DEF TypeOK, Locals, Ready, JobStage
<1>3. \A d \in Cpu : Locals(d)'
  BY DEF TypeOK, Locals, Ready
<1>4. \A d \in Cpu : Referenced(d)'
  <2> SUFFICES ASSUME NEW d \in Cpu PROVE Referenced(d)'
    OBVIOUS
  <2>1. CASE d = c
    BY <2>1, <1>b DEF TypeOK, Referenced, Locals, Ready, Owns
  <2>2. CASE d # c
    BY <2>2, <1>b DEF TypeOK, Referenced, Locals, Ready, Owns
  <2> QED
    BY <2>1, <2>2
<1>5. Allocated'
  BY DEF TypeOK, Allocated, Locals, Ready, Referenced
<1>6. Unique'
  <2>1. QueueOnce'
    BY <1>b, <1>c, <1>e DEF Unique, TypeOK, QueueOnce
  <2>2. QueueFree'
    BY <1>b, <1>c, <1>e DEF Unique, TypeOK, QueueFree, Owns
  <2>3. PollFree'
    BY <1>b, <1>c, <1>e DEF Unique, TypeOK, PollFree, Owns
  <2>4. OneOwner'
    BY <1>b, <1>c, <1>e DEF Unique, TypeOK, OneOwner, Owns
  <2>5. OneRole'
    BY <1>b, <1>c, <1>e DEF Unique, TypeOK, OneRole, Locals, Ready, Owns
  <2> QED
    BY <2>1, <2>2, <2>3, <2>4, <2>5 DEF Unique
<1>7. Jobs'
  <2>1. JobDead'
    BY DEF Jobs, TypeOK, JobDead
  <2>2. JobQueued'
    BY DEF Jobs, TypeOK, JobQueued
  <2>3. JobInHand'
    BY <1>d DEF Jobs, TypeOK, JobInHand, Locals, Ready
  <2>4. JobLast'
    <3> SUFFICES ASSUME NEW i \in DOMAIN queue, queue[i] \in Thread,
                        job[thTask'[queue[i]]] # "none"
                 PROVE  \E d \in Cpu : th'[d] = thTask'[queue[i]] /\ queue[i] \in todo[d]
      BY DEF JobLast
    <3>1. thTask'[queue[i]] = thTask[queue[i]]
      BY <1>c DEF TypeOK
    <3>2. PICK d \in Cpu : th[d] = thTask[queue[i]] /\ queue[i] \in todo[d]
      BY <3>1 DEF Jobs, JobLast
    <3>3. d # c
      BY <3>2, TodoReaped
    <3> QED
      BY <3>1, <3>2, <3>3 DEF TypeOK
  <2> QED
    BY <2>1, <2>2, <2>3, <2>4 DEF Jobs
<1>8. Launching'
  <2>1. LaunchPrivate'
    BY DEF Launching, TypeOK, LaunchPrivate, Locals, Ready
  <2>2. NoThreadYet'
    BY <1>f DEF Launching, TypeOK, NoThreadYet, Walking, Creating, Locals, Ready, OneCreator
  <2>3. OneCreator'
    BY DEF Launching, TypeOK, OneCreator, Creating, Locals, Ready
  <2> QED
    BY <2>1, <2>2, <2>3 DEF Launching
<1> QED
  BY <1>1, <1>2, <1>3, <1>4, <1>5, <1>6, <1>7, <1>8

\* anscheduler_thread_add to a task found by its PID, as CreatorAddStep; the
\* task is not being launched.
LEMMA HeldAddStep ==
  ASSUME IInv, NEW c \in Cpu, HeldAdd(c), ~EarlyThreads
  PROVE  IInv'
<1>1. RefCountExact'
  <2>1. OwnRefsOnly(c)
    BY DEF IInv, TypeOK, OwnRefsOnly, SameElsewhere, HeldAdd, NewThread,
           Release, curVars, taskVars
  <2>2. tasks' = tasks /\ refCount' = refCount
    BY DEF HeldAdd, NewThread, Release, curVars, taskVars
  <2>3. cpuTask'[c] = cpuTask[c] /\ hold'[c] = NULL /\ drop'[c] = hold[c] /\ drop[c] = NULL
    BY DEF IInv, TypeOK, Locals, Ready, Returns, HeldAdd, NewThread,
           Release, curVars, taskVars
  <2>4. \A t \in tasks : Refs(c, t)' = Refs(c, t)
    BY <2>3, ConstantsAssumption DEF ConstantsAssumption, IInv, TypeOK, Refs, One
  <2> QED
    BY <2>1, <2>2, <2>4, CountSame DEF IInv
<1>a. PICK x \in Thread :
        /\ thTask[x] = NULL
        /\ thTask' = [thTask EXCEPT ![x] = hold[c]] /\ th' = [th EXCEPT ![c] = x]
  BY DEF HeldAdd, NewThread
<1>b. \A d \in Cpu : ~Owns(d, x)
  BY <1>a, OwnedThreadHeld, ConstantsAssumption DEF ConstantsAssumption
<1>c. \A i \in DOMAIN queue : queue[i] # x
  BY <1>a DEF IInv, Allocated
<1>d. \A d \in Cpu : x \notin todo[d]
  BY <1>a, TodoReaped, ConstantsAssumption DEF ConstantsAssumption
<1>e. x \notin polling /\ intd # x
  BY <1>a, ConstantsAssumption DEF IInv, Allocated, ConstantsAssumption
<1>f. hold[c] \in Task /\ job[hold[c]] = "none"
  <2>1. hold[c] \in Task
    BY DEF HeldAdd, IInv, Locals, Ready, Returns, TypeOK
  <2> QED
    BY <2>1, HeldNotReaped
<1>g. /\ UNCHANGED <<taskVars, exiting, polling, queue, intdVars, curVars, todo, nx>>
      /\ pc[c] = "held" /\ pc' = [pc EXCEPT ![c] = "check"]
  BY DEF HeldAdd, NewThread, Goto
<1>h. /\ drop' = [drop EXCEPT ![c] = hold[c]] /\ hold' = [hold EXCEPT ![c] = NULL]
      /\ next' = [next EXCEPT ![c] = "user"]
  BY DEF HeldAdd, Release
<1>i. \A d \in Cpu : Walking(d) => hold[d] # hold[c]
  <2> SUFFICES ASSUME NEW d \in Cpu, Walking(d), hold[d] = hold[c] PROVE FALSE
    OBVIOUS
  <2>1. CASE pc[d] = "launch"
    BY <2>1, <1>g DEF IInv, Launching, LaunchPrivate
  <2>2. CASE pc[d] = "launched"
    BY <2>2 DEF HeldAdd
  <2>3. CASE pc[d] = "pushall"
    BY <2>3 DEF HeldAdd, NewThread, ThreadsLocked, IInv, Locals
  <2> QED
    BY <2>1, <2>2, <2>3 DEF Walking
<1> USE <1>a, <1>g, <1>h, ConstantsAssumption DEF ConstantsAssumption, IInv,
         taskVars, intdVars, curVars, Goto, Calling, Returns, Points,
         Interruptible, Schedulable
<1>2. TypeOK'
  BY DEF TypeOK, Locals, Ready, JobStage
<1>3. \A d \in Cpu : Locals(d)'
  BY DEF TypeOK, Locals, Ready
<1>4. \A d \in Cpu : Referenced(d)'
  <2> SUFFICES ASSUME NEW d \in Cpu PROVE Referenced(d)'
    OBVIOUS
  <2>1. CASE d = c
    BY <2>1, <1>b DEF TypeOK, Referenced, Locals, Ready, Owns
  <2>2. CASE d # c
    BY <2>2, <1>b DEF TypeOK, Referenced, Locals, Ready, Owns
  <2> QED
    BY <2>1, <2>2
<1>5. Allocated'
  BY DEF TypeOK, Allocated, Locals, Ready, Referenced
<1>6. Unique'
  <2>1. QueueOnce'
    BY <1>b, <1>c, <1>e DEF Unique, TypeOK, QueueOnce
  <2>2. QueueFree'
    BY <1>b, <1>c, <1>e DEF Unique, TypeOK, QueueFree, Owns
  <2>3. PollFree'
    BY <1>b, <1>c, <1>e DEF Unique, TypeOK, PollFree, Owns
  <2>4. OneOwner'
    BY <1>b, <1>c, <1>e DEF Unique, TypeOK, OneOwner, Owns
  <2>5. OneRole'
    BY <1>b, <1>c, <1>e DEF Unique, TypeOK, OneRole, Locals, Ready, Owns
  <2> QED
    BY <2>1, <2>2, <2>3, <2>4, <2>5 DEF Unique
<1>7. Jobs'
  <2>1. JobDead'
    BY DEF Jobs, TypeOK, JobDead
  <2>2. JobQueued'
    BY DEF Jobs, TypeOK, JobQueued
  <2>3. JobInHand'
    BY <1>d DEF Jobs, TypeOK, JobInHand, Locals, Ready
  <2>4. JobLast'
    <3> SUFFICES ASSUME NEW i \in DOMAIN queue, queue[i] \in Thread,
                        job[thTask'[queue[i]]] # "none"
                 PROVE  \E d \in Cpu : th'[d] = thTask'[queue[i]] /\ queue[i] \in todo[d]
      BY DEF JobLast
    <3>1. thTask'[queue[i]] = thTask[queue[i]]
      BY <1>c DEF TypeOK
    <3>2. PICK d \in Cpu : th[d] = thTask[queue[i]] /\ queue[i] \in todo[d]
      BY <3>1 DEF Jobs, JobLast
    <3>3. d # c
      BY <3>2, TodoReaped
    <3> QED
      BY <3>1, <3>2, <3>3 DEF TypeOK
  <2> QED
    BY <2>1, <2>2, <2>3, <2>4 DEF Jobs
<1>8. Launching'
  <2>1. LaunchPrivate'
    BY DEF Launching, TypeOK, LaunchPrivate, Locals, Ready
  <2>2. NoThreadYet'
    BY <1>f, <1>i DEF Launching, TypeOK, NoThreadYet, Walking, Locals
  <2>3. OneCreator'
    BY DEF Launching, TypeOK, OneCreator, Creating, Locals, Ready
  <2> QED
    BY <2>1, <2>2, <2>3 DEF Launching
<1> QED
  BY <1>1, <1>2, <1>3, <1>4, <1>5, <1>6, <1>7, <1>8

\* The creator dereferences a task without a thread.
LEMMA CreatorGivesUpStep ==
  ASSUME IInv, NEW c \in Cpu, CreatorGivesUp(c)
  PROVE  IInv'
<1>1. RefCountExact'
  <2>1. OwnRefsOnly(c)
    BY DEF IInv, TypeOK, OwnRefsOnly, SameElsewhere, CreatorGivesUp,
           Release, curVars, taskVars
  <2>2. tasks' = tasks /\ refCount' = refCount
    BY DEF CreatorGivesUp, Release, curVars, taskVars
  <2>3. cpuTask'[c] = cpuTask[c] /\ hold'[c] = NULL /\ drop'[c] = hold[c] /\ drop[c] = NULL
    BY DEF IInv, TypeOK, Locals, Ready, Returns, CreatorGivesUp, Release,
           curVars, taskVars
  <2>4. \A t \in tasks : Refs(c, t)' = Refs(c, t)
    BY <2>3, ConstantsAssumption DEF ConstantsAssumption, IInv, TypeOK, Refs, One
  <2> QED
    BY <2>1, <2>2, <2>4, CountSame DEF IInv
<1> USE ConstantsAssumption DEF ConstantsAssumption, IInv, CreatorGivesUp,
         taskVars, threadVars, intdVars, curVars, Goto, Release, Caller,
         Calling, Returns, Points, Interruptible, Schedulable
<1>2. TypeOK'
  BY DEF TypeOK, Locals, Ready, JobStage
<1>3. \A d \in Cpu : Locals(d)'
  BY DEF TypeOK, Locals, Ready
<1>4. \A d \in Cpu : Referenced(d)'
  BY DEF TypeOK, Referenced, Locals, Ready
<1>5. Allocated'
  BY DEF TypeOK, Allocated, Locals, Ready, Referenced
<1>6. Unique'
  BY DEF TypeOK, Unique, QueueOnce, QueueFree, PollFree, OneOwner,
         OneRole, Owns, Locals, Ready
<1>7. Jobs'
  BY DEF TypeOK, Jobs, JobDead, JobQueued, JobInHand, JobLast,
         Locals, Ready, JobStage
<1>8. Launching'
  BY DEF TypeOK, Launching, LaunchPrivate, NoThreadYet, Walking, OneCreator,
         Creating, Locals, Ready
<1> QED
  BY <1>1, <1>2, <1>3, <1>4, <1>5, <1>6, <1>7, <1>8

\* anscheduler_thread_add to the caller's own task.
LEMMA ThreadAddStep ==
  ASSUME IInv, NEW c \in Cpu, ThreadAdd(c)
  PROVE  IInv'
<1>a. PICK x \in Thread :
        /\ thTask[x] = NULL
        /\ thTask' = [thTask EXCEPT ![x] = cpuTask[c]] /\ th' = [th EXCEPT ![c] = x]
  BY DEF ThreadAdd, NewThread
<1>b. \A d \in Cpu : ~Owns(d, x)
  BY <1>a, OwnedThreadHeld, ConstantsAssumption DEF ConstantsAssumption
<1>c. \A i \in DOMAIN queue : queue[i] # x
  BY <1>a DEF IInv, Allocated
<1>d. \A d \in Cpu : x \notin todo[d]
  BY <1>a, TodoReaped, ConstantsAssumption DEF ConstantsAssumption
<1>e. x \notin polling /\ intd # x
  BY <1>a, ConstantsAssumption DEF IInv, Allocated, ConstantsAssumption
<1>f. cpuTask[c] \in Task /\ job[cpuTask[c]] = "none"
  <2>1. cpuTask[c] \in Task
    BY DEF ThreadAdd, Calls, IInv, Locals, Ready, Returns, TypeOK
  <2> QED
    BY <2>1, HeldNotReaped
<1>g. /\ UNCHANGED <<taskVars, exiting, polling, queue, intdVars, curVars, todo, nx, hold, drop>>
      /\ pc[c] = "user" /\ pc' = [pc EXCEPT ![c] = "check"]
      /\ next' = [next EXCEPT ![c] = "user"]
  BY DEF ThreadAdd, NewThread, Goto, Calls
<1>h. \A d \in Cpu : Walking(d) => hold[d] # cpuTask[c]
  BY <1>g DEF IInv, Locals, Ready, Returns, Referenced, Launching, NoThreadYet
<1> USE <1>a, <1>g, ConstantsAssumption DEF ConstantsAssumption, IInv, Calls,
         taskVars, intdVars, curVars, Goto, Calling, Returns, Points,
         Interruptible, Schedulable
<1>1. TypeOK'
  BY DEF TypeOK, Locals, Ready, JobStage
<1>2. \A d \in Cpu : Locals(d)'
  BY DEF TypeOK, Locals, Ready
<1>3. \A d \in Cpu : Referenced(d)'
  <2> SUFFICES ASSUME NEW d \in Cpu PROVE Referenced(d)'
    OBVIOUS
  <2>1. CASE d = c
    BY <2>1, <1>b DEF TypeOK, Referenced, Locals, Ready, Owns
  <2>2. CASE d # c
    BY <2>2, <1>b DEF TypeOK, Referenced, Locals, Ready, Owns
  <2> QED
    BY <2>1, <2>2
<1>4. Allocated'
  BY DEF TypeOK, Allocated, Locals, Ready, Referenced
<1>5. RefCountExact'
  BY DEF RefCountExact, HeldRefs
<1>6. Unique'
  <2>1. QueueOnce'
    BY <1>b, <1>c, <1>e DEF Unique, TypeOK, QueueOnce
  <2>2. QueueFree'
    BY <1>b, <1>c, <1>e DEF Unique, TypeOK, QueueFree, Owns
  <2>3. PollFree'
    BY <1>b, <1>c, <1>e DEF Unique, TypeOK, PollFree, Owns
  <2>4. OneOwner'
    BY <1>b, <1>c, <1>e DEF Unique, TypeOK, OneOwner, Owns
  <2>5. OneRole'
    BY <1>b, <1>c, <1>e DEF Unique, TypeOK, OneRole, Locals, Ready, Owns
  <2> QED
    BY <2>1, <2>2, <2>3, <2>4, <2>5 DEF Unique
<1>7. Jobs'
  <2>1. JobDead'
    BY DEF Jobs, TypeOK, JobDead
  <2>2. JobQueued'
    BY DEF Jobs, TypeOK, JobQueued
  <2>3. JobInHand'
    BY <1>d DEF Jobs, TypeOK, JobInHand, Locals, Ready
  <2>4. JobLast'
    <3> SUFFICES ASSUME NEW i \in DOMAIN queue, queue[i] \in Thread,
                        job[thTask'[queue[i]]] # "none"
                 PROVE  \E d \in Cpu : th'[d] = thTask'[queue[i]] /\ queue[i] \in todo[d]
      BY DEF JobLast
    <3>1. thTask'[queue[i]] = thTask[queue[i]]
      BY <1>c DEF TypeOK
    <3>2. PICK d \in Cpu : th[d] = thTask[queue[i]] /\ queue[i] \in todo[d]
      BY <3>1 DEF Jobs, JobLast
    <3>3. d # c
      BY <3>2, TodoReaped
    <3> QED
      BY <3>1, <3>2, <3>3 DEF TypeOK
  <2> QED
    BY <2>1, <2>2, <2>3, <2>4 DEF Jobs
<1>8. Launching'
  <2>1. LaunchPrivate'
    BY DEF Launching, TypeOK, LaunchPrivate, Locals, Ready
  <2>2. NoThreadYet'
    BY <1>h DEF Launching, TypeOK, NoThreadYet, Walking, Creating, Locals, Ready
  <2>3. OneCreator'
    BY DEF Launching, TypeOK, OneCreator, Creating, Locals, Ready
  <2> QED
    BY <2>1, <2>2, <2>3 DEF Launching
<1> QED
  BY <1>1, <1>2, <1>3, <1>4, <1>5, <1>6, <1>7, <1>8

\* anscheduler_thread_poll marks the running thread as polling.
LEMMA ThreadPollStep ==
  ASSUME IInv, NEW c \in Cpu, ThreadPoll(c)
  PROVE  IInv'
<1> USE ConstantsAssumption DEF ConstantsAssumption, IInv, ThreadPoll,
         taskVars, intdVars, curVars, localVars, Goto, Calls, Calling, Returns,
         Points, Interruptible, Schedulable
<1>1. TypeOK'
  BY DEF TypeOK, Locals, Ready, JobStage
<1>2. \A d \in Cpu : Locals(d)'
  BY DEF TypeOK, Locals, Ready
<1>3. \A d \in Cpu : Referenced(d)'
  BY DEF TypeOK, Referenced, Locals, Ready
<1>4. Allocated'
  BY DEF TypeOK, Allocated, Locals, Ready, Referenced
<1>5. RefCountExact'
  BY DEF RefCountExact, HeldRefs
<1>6. Unique'
  BY DEF TypeOK, Unique, QueueOnce, QueueFree, PollFree, OneOwner,
         OneRole, Owns, Locals, Ready
<1>7. Jobs'
  BY DEF TypeOK, Jobs, JobDead, JobQueued, JobInHand, JobLast,
         Locals, Ready, JobStage
<1>8. Launching'
  BY DEF TypeOK, Launching, LaunchPrivate, NoThreadYet, Walking, OneCreator,
         Creating, Locals, Ready
<1> QED
  BY <1>1, <1>2, <1>3, <1>4, <1>5, <1>6, <1>7, <1>8

\* anscheduler_thread_poll leaves the CPU without pushing the thread, which
\* another CPU may run by then.
LEMMA PollBreakStep ==
  ASSUME IInv, NEW c \in Cpu, PollBreak(c)
  PROVE  IInv'
<1>1. RefCountExact'
  <2>1. OwnRefsOnly(c)
    BY DEF IInv, TypeOK, OwnRefsOnly, SameElsewhere, PollBreak,
           LeaveCurrent, SetCurrent, taskVars
  <2>2. tasks' = tasks /\ refCount' = refCount
    BY DEF PollBreak, LeaveCurrent, SetCurrent, taskVars
  <2>3. cpuTask'[c] = NULL /\ hold'[c] = hold[c] /\ drop'[c] = cpuTask[c] /\ drop[c] = NULL
    BY DEF IInv, TypeOK, Locals, Ready, Returns, PollBreak, LeaveCurrent,
           SetCurrent, taskVars
  <2>4. \A t \in tasks : Refs(c, t)' = Refs(c, t)
    BY <2>3, ConstantsAssumption DEF ConstantsAssumption, IInv, TypeOK, Refs, One
  <2> QED
    BY <2>1, <2>2, <2>4, CountSame DEF IInv
<1> USE ConstantsAssumption DEF ConstantsAssumption, IInv, PollBreak, taskVars,
         threadVars, intdVars, LeaveCurrent, Goto, SetCurrent, Calling,
         Returns, Points, Interruptible, Schedulable
<1>2. TypeOK'
  BY DEF TypeOK, Locals, Ready, JobStage
<1>3. \A d \in Cpu : Locals(d)'
  BY DEF TypeOK, Locals, Ready
<1>4. \A d \in Cpu : Referenced(d)'
  BY DEF TypeOK, Referenced, Locals, Ready
<1>5. Allocated'
  BY DEF TypeOK, Allocated, Locals, Ready, Referenced
<1>6. Unique'
  BY DEF TypeOK, Unique, QueueOnce, QueueFree, PollFree, OneOwner,
         OneRole, Owns, Locals, Ready
<1>7. Jobs'
  BY DEF TypeOK, Jobs, JobDead, JobQueued, JobInHand, JobLast,
         Locals, Ready, JobStage
<1>8. Launching'
  BY DEF TypeOK, Launching, LaunchPrivate, NoThreadYet, Walking, OneCreator,
         Creating, Locals, Ready
<1> QED
  BY <1>1, <1>2, <1>3, <1>4, <1>5, <1>6, <1>7, <1>8

\* anscheduler_thread_exit: a daemon that exits is running, so no CPU is
\* about to switch to it.
LEMMA ThreadExitStep ==
  ASSUME IInv, NEW c \in Cpu, ThreadExit(c)
  PROVE  IInv'
<1> USE ConstantsAssumption DEF ConstantsAssumption, IInv, ThreadExit,
         taskVars, curVars, localVars, Calls, Calling, Returns, Points,
         Interruptible, Schedulable
<1>a. /\ cpuThread[c] \in Thread /\ Owns(c, cpuThread[c])
      /\ \A d \in Cpu : pc[d] = "irq" => intd # cpuThread[c]
  <2>1. cpuThread[c] \in Thread /\ Owns(c, cpuThread[c])
    BY DEF Locals, Ready, Owns
  <2> QED
    BY <2>1 DEF Unique, OneOwner, Owns
<1>1. TypeOK'
  BY DEF TypeOK, Locals, Ready, JobStage
<1>2. \A d \in Cpu : Locals(d)'
  <2> SUFFICES ASSUME NEW d \in Cpu PROVE Locals(d)'
    OBVIOUS
  <2>1. CASE d = c
    BY <2>1, <1>a DEF TypeOK, Locals, Ready
  <2>2. CASE d # c
    BY <2>2, <1>a DEF TypeOK, Locals, Ready
  <2> QED
    BY <2>1, <2>2
<1>3. \A d \in Cpu : Referenced(d)'
  <2> SUFFICES ASSUME NEW d \in Cpu PROVE Referenced(d)'
    OBVIOUS
  <2>1. CASE d = c
    BY <2>1, <1>a DEF TypeOK, Referenced, Locals, Ready
  <2>2. CASE d # c
    BY <2>2, <1>a DEF TypeOK, Referenced, Locals, Ready
  <2> QED
    BY <2>1, <2>2
<1>4. Allocated'
  BY DEF TypeOK, Allocated, Locals, Ready, Referenced
<1>5. RefCountExact'
  BY DEF RefCountExact, HeldRefs
<1>6. Unique'
  <2>1. QueueOnce'
    BY <1>a DEF Unique, TypeOK, QueueOnce
  <2>2. QueueFree'
    BY <1>a DEF Unique, TypeOK, QueueFree, Owns, Locals
  <2>3. PollFree'
    BY <1>a DEF Unique, TypeOK, PollFree, Owns, Locals
  <2>4. OneOwner'
    BY <1>a DEF Unique, TypeOK, OneOwner, Owns, Locals
  <2>5. OneRole'
    BY <1>a DEF Unique, TypeOK, OneRole, Locals, Ready
  <2> QED
    BY <2>1, <2>2, <2>3, <2>4, <2>5 DEF Unique
<1>7. Jobs'
  BY DEF TypeOK, Jobs, JobDead, JobQueued, JobInHand, JobLast,
         Locals, Ready, JobStage
<1>8. Launching'
  BY DEF TypeOK, Launching, LaunchPrivate, NoThreadYet, Walking, OneCreator,
         Creating, Locals, Ready
<1> QED
  BY <1>1, <1>2, <1>3, <1>4, <1>5, <1>6, <1>7, <1>8

\* _finalize_thread_exit: the thread it frees is in no other hand, no list
\* and not being reaped.
LEMMA FinalizeThreadExitStep ==
  ASSUME IInv, NEW c \in Cpu, FinalizeThreadExit(c)
  PROVE  IInv'
<1>1. RefCountExact'
  <2>1. OwnRefsOnly(c)
    BY DEF IInv, TypeOK, OwnRefsOnly, SameElsewhere, FinalizeThreadExit,
           LeaveCurrent, SetCurrent, taskVars
  <2>2. tasks' = tasks /\ refCount' = refCount
    BY DEF FinalizeThreadExit, LeaveCurrent, SetCurrent, taskVars
  <2>3. cpuTask'[c] = NULL /\ hold'[c] = hold[c] /\ drop'[c] = cpuTask[c] /\ drop[c] = NULL
    BY DEF IInv, TypeOK, Locals, Ready, Returns, FinalizeThreadExit,
           LeaveCurrent, SetCurrent, taskVars
  <2>4. \A t \in tasks : Refs(c, t)' = Refs(c, t)
    BY <2>3, ConstantsAssumption DEF ConstantsAssumption, IInv, TypeOK, Refs, One
  <2> QED
    BY <2>1, <2>2, <2>4, CountSame DEF IInv
<1> USE ConstantsAssumption DEF ConstantsAssumption, IInv, FinalizeThreadExit,
         taskVars, intdVars, LeaveCurrent, Goto, SetCurrent, Calling, Returns,
         Points, Interruptible, Schedulable
<1> DEFINE x == cpuThread[c]
<1>x. /\ x \in Thread /\ thTask[x] = cpuTask[c] /\ cpuTask[c] \in Task
      /\ Owns(c, x) /\ th[c] = NULL /\ nx[c] = NULL
  BY DEF TypeOK, Locals, Ready, Referenced, Owns
<1>y. \A d \in Cpu : d # c => ~Owns(d, x)
  BY <1>x DEF Unique, OneOwner
<1>z. (\A i \in DOMAIN queue : queue[i] # x) /\ x \notin polling /\ intd # x
  BY <1>x DEF Unique, QueueFree, PollFree, Allocated
<1>w. job[cpuTask[c]] = "none"
  BY <1>x, HeldNotReaped
<1>2. TypeOK'
  BY DEF TypeOK, Locals, Ready, JobStage
<1>3. \A d \in Cpu : Locals(d)'
  BY DEF TypeOK, Locals, Ready
<1>4. \A d \in Cpu : Referenced(d)'
  <2> SUFFICES ASSUME NEW d \in Cpu PROVE Referenced(d)'
    OBVIOUS
  <2>1. CASE d = c
    BY <2>1, <1>x DEF TypeOK, Referenced, Locals, Ready
  <2>2. CASE d # c
    BY <2>2, <1>x, <1>y DEF TypeOK, Referenced, Owns
  <2> QED
    BY <2>1, <2>2
<1>5. Allocated'
  BY <1>x, <1>z DEF TypeOK, Allocated, Locals
<1>6. Unique'
  BY DEF TypeOK, Unique, QueueOnce, QueueFree, PollFree, OneOwner,
         OneRole, Owns, Locals, Ready
<1>7. Jobs'
  <2>1. \A d \in Cpu : x \notin todo[d]
    BY <1>x, <1>w, TodoReaped
  <2> QED
    BY <2>1, <1>x, <1>z DEF TypeOK, Jobs, JobDead, JobQueued, JobInHand, JobLast, Locals
<1>8. Launching'
  BY DEF TypeOK, Launching, LaunchPrivate, NoThreadYet, Walking, OneCreator,
         Creating, Locals, Ready
<1> QED
  BY <1>1, <1>2, <1>3, <1>4, <1>5, <1>6, <1>7, <1>8

\* anscheduler_task_for_pid counts the reference it returns.
LEMMA TaskForPidStep ==
  ASSUME IInv, NEW c \in Cpu, TaskForPid(c)
  PROVE  IInv'
<1>1. RefCountExact'
  <2>1. OwnRefsOnly(c)
    BY DEF IInv, TypeOK, OwnRefsOnly, SameElsewhere, TaskForPid, curVars
  <2>2. PICK t \in pidmap : Reference(t) /\ hold' = [hold EXCEPT ![c] = t]
    BY DEF TaskForPid
  <2>3. t \in tasks /\ tasks' = tasks
    BY DEF IInv, Allocated, TaskForPid
  <2>4. /\ cpuTask'[c] = cpuTask[c] /\ drop'[c] = drop[c]
        /\ hold[c] = NULL /\ hold'[c] = t
    BY <2>2 DEF IInv, TypeOK, Locals, Ready, Returns, TaskForPid, Calls, curVars
  <2>5. \A u \in tasks : Refs(c, u)' = Refs(c, u) + One(t, u)
    BY <2>4, ConstantsAssumption DEF ConstantsAssumption, IInv, TypeOK, Refs, One
  <2> QED
    BY <2>1, <2>2, <2>3, <2>5, CountTaken DEF IInv, Reference
<1> USE ConstantsAssumption DEF ConstantsAssumption, IInv, TaskForPid,
         threadVars, intdVars, curVars, Goto, Reference, Calls, Calling,
         Returns, Points, Interruptible, Schedulable
<1>2. TypeOK'
  BY DEF TypeOK, Locals, Ready, JobStage
<1>3. \A d \in Cpu : Locals(d)'
  BY DEF TypeOK, Locals, Ready
<1>4. \A d \in Cpu : Referenced(d)'
  BY DEF TypeOK, Referenced, Locals, Ready
<1>5. Allocated'
  BY DEF TypeOK, Allocated, Locals, Ready, Referenced
<1>6. Unique'
  BY DEF TypeOK, Unique, QueueOnce, QueueFree, PollFree, OneOwner,
         OneRole, Owns, Locals, Ready
<1>7. Jobs'
  BY DEF TypeOK, Jobs, JobDead, JobQueued, JobInHand, JobLast,
         Locals, Ready, JobStage
<1>8. Launching'
  BY DEF TypeOK, Launching, LaunchPrivate, NoThreadYet, Walking, OneCreator,
         Creating, Locals, Ready
<1> QED
  BY <1>1, <1>2, <1>3, <1>4, <1>5, <1>6, <1>7, <1>8

\* anscheduler_task_kill and the dereference that follows.
LEMMA TaskKillStep ==
  ASSUME IInv, NEW c \in Cpu, TaskKill(c)
  PROVE  IInv'
<1>1. RefCountExact'
  <2>1. OwnRefsOnly(c)
    BY DEF IInv, TypeOK, OwnRefsOnly, SameElsewhere, TaskKill, Release,
           curVars, taskVars
  <2>2. tasks' = tasks /\ refCount' = refCount
    BY DEF TaskKill, Release, curVars, taskVars
  <2>3. cpuTask'[c] = cpuTask[c] /\ hold'[c] = NULL /\ drop'[c] = hold[c] /\ drop[c] = NULL
    BY DEF IInv, TypeOK, Locals, Ready, Returns, TaskKill, Release, curVars, taskVars
  <2>4. \A t \in tasks : Refs(c, t)' = Refs(c, t)
    BY <2>3, ConstantsAssumption DEF ConstantsAssumption, IInv, TypeOK, Refs, One
  <2> QED
    BY <2>1, <2>2, <2>4, CountSame DEF IInv
<1> USE ConstantsAssumption DEF ConstantsAssumption, IInv, TaskKill,
         threadVars, intdVars, curVars, Goto, Release, Calling, Returns,
         Points, Interruptible, Schedulable
<1>2. TypeOK'
  BY DEF TypeOK, Locals, Ready, JobStage
<1>3. \A d \in Cpu : Locals(d)'
  BY DEF TypeOK, Locals, Ready
<1>4. \A d \in Cpu : Referenced(d)'
  <2> SUFFICES ASSUME NEW d \in Cpu PROVE Referenced(d)'
    OBVIOUS
  <2>1. CASE d = c
    BY <2>1, SMTT(30) DEF TypeOK, Referenced, Locals, Ready
  <2>2. CASE d # c
    BY <2>2 DEF TypeOK, Referenced
  <2> QED
    BY <2>1, <2>2
<1>5. Allocated'
  BY DEF TypeOK, Allocated, Locals, Ready, Referenced
<1>6. Unique'
  BY DEF TypeOK, Unique, QueueOnce, QueueFree, PollFree, OneOwner,
         OneRole, Owns, Locals, Ready
<1>7. Jobs'
  BY DEF TypeOK, Jobs, JobDead, JobQueued, JobInHand, JobLast,
         Locals, Ready, JobStage
<1>8. Launching'
  BY DEF TypeOK, Launching, LaunchPrivate, NoThreadYet, Walking, OneCreator,
         Creating, Locals, Ready
<1> QED
  BY <1>1, <1>2, <1>3, <1>4, <1>5, <1>6, <1>7, <1>8

\* A task found by PID is dereferenced.
LEMMA HeldReleaseStep ==
  ASSUME IInv, NEW c \in Cpu, HeldRelease(c)
  PROVE  IInv'
<1>1. RefCountExact'
  <2>1. OwnRefsOnly(c)
    BY DEF IInv, TypeOK, OwnRefsOnly, SameElsewhere, HeldRelease, Release,
           curVars, taskVars
  <2>2. tasks' = tasks /\ refCount' = refCount
    BY DEF HeldRelease, Release, curVars, taskVars
  <2>3. cpuTask'[c] = cpuTask[c] /\ hold'[c] = NULL /\ drop'[c] = hold[c] /\ drop[c] = NULL
    BY DEF IInv, TypeOK, Locals, Ready, Returns, HeldRelease, Release, curVars, taskVars
  <2>4. \A t \in tasks : Refs(c, t)' = Refs(c, t)
    BY <2>3, ConstantsAssumption DEF ConstantsAssumption, IInv, TypeOK, Refs, One
  <2> QED
    BY <2>1, <2>2, <2>4, CountSame DEF IInv
<1> USE ConstantsAssumption DEF ConstantsAssumption, IInv, HeldRelease,
         taskVars, threadVars, intdVars, curVars, Goto, Release, Calling,
         Returns, Points, Interruptible, Schedulable
<1>2. TypeOK'
  BY DEF TypeOK, Locals, Ready, JobStage
<1>3. \A d \in Cpu : Locals(d)'
  BY DEF TypeOK, Locals, Ready
<1>4. \A d \in Cpu : Referenced(d)'
  BY DEF TypeOK, Referenced, Locals, Ready
<1>5. Allocated'
  BY DEF TypeOK, Allocated, Locals, Ready, Referenced
<1>6. Unique'
  BY DEF TypeOK, Unique, QueueOnce, QueueFree, PollFree, OneOwner,
         OneRole, Owns, Locals, Ready
<1>7. Jobs'
  BY DEF TypeOK, Jobs, JobDead, JobQueued, JobInHand, JobLast,
         Locals, Ready, JobStage
<1>8. Launching'
  BY DEF TypeOK, Launching, LaunchPrivate, NoThreadYet, Walking, OneCreator,
         Creating, Locals, Ready
<1> QED
  BY <1>1, <1>2, <1>3, <1>4, <1>5, <1>6, <1>7, <1>8

\* _wakeup_endpoint takes a polling thread of the task it holds.
LEMMA WakeupEndpointStep ==
  ASSUME IInv, NEW c \in Cpu, WakeupEndpoint(c)
  PROVE  IInv'
<1>1. RefCountExact'
  <2>1. OwnRefsOnly(c)
    BY DEF IInv, TypeOK, OwnRefsOnly, SameElsewhere, WakeupEndpoint,
           PushCurrent, SetCurrent, taskVars
  <2>2. tasks' = tasks /\ refCount' = refCount
    BY DEF WakeupEndpoint, PushCurrent, SetCurrent, taskVars
  <2>3. cpuTask'[c] = NULL /\ hold'[c] = hold[c] /\ drop'[c] = cpuTask[c] /\ drop[c] = NULL
    BY DEF IInv, TypeOK, Locals, Ready, Returns, WakeupEndpoint,
           PushCurrent, SetCurrent, taskVars
  <2>4. \A t \in tasks : Refs(c, t)' = Refs(c, t)
    BY <2>3, ConstantsAssumption DEF ConstantsAssumption, IInv, TypeOK, Refs, One
  <2> QED
    BY <2>1, <2>2, <2>4, CountSame DEF IInv
<1> USE ConstantsAssumption DEF ConstantsAssumption, IInv, WakeupEndpoint,
         taskVars, intdVars, PushCurrent, threads, Goto, SetCurrent, Calling,
         Returns, Points, Interruptible, Schedulable
<1>2. TypeOK'
  BY DEF TypeOK, Locals, Ready, JobStage
<1>3. \A d \in Cpu : Locals(d)'
  BY DEF TypeOK, Locals, Ready
<1>4. \A d \in Cpu : Referenced(d)'
  BY DEF TypeOK, Referenced, Locals, Ready
<1>5. Allocated'
  BY DEF TypeOK, Allocated, Locals, Ready, Referenced
<1>6. Unique'
  BY DEF TypeOK, Unique, QueueOnce, QueueFree, PollFree, OneOwner,
         OneRole, Owns, Locals, Ready
<1>7. Jobs'
  BY DEF TypeOK, Jobs, JobDead, JobQueued, JobInHand, JobLast,
         Locals, Ready, JobStage
<1>8. Launching'
  BY DEF TypeOK, Launching, LaunchPrivate, NoThreadYet, Walking, OneCreator,
         Creating, Locals, Ready
<1> QED
  BY <1>1, <1>2, <1>3, <1>4, <1>5, <1>6, <1>7, <1>8

\* anscheduler_task_exit gives the running thread's reference back.
LEMMA TaskExitStep ==
  ASSUME IInv, NEW c \in Cpu, TaskExit(c)
  PROVE  IInv'
<1>1. RefCountExact'
  <2>1. OwnRefsOnly(c)
    BY DEF IInv, TypeOK, OwnRefsOnly, SameElsewhere, TaskExit,
           LeaveCurrent, Calls, SetCurrent, taskVars
  <2>2. tasks' = tasks /\ refCount' = refCount
    BY DEF TaskExit, LeaveCurrent, Calls, SetCurrent, taskVars
  <2>3. cpuTask'[c] = NULL /\ hold'[c] = hold[c] /\ drop'[c] = cpuTask[c] /\ drop[c] = NULL
    BY DEF IInv, TypeOK, Locals, Ready, Returns, TaskExit, LeaveCurrent,
           Calls, SetCurrent, taskVars
  <2>4. \A t \in tasks : Refs(c, t)' = Refs(c, t)
    BY <2>3, ConstantsAssumption DEF ConstantsAssumption, IInv, TypeOK, Refs, One
  <2> QED
    BY <2>1, <2>2, <2>4, CountSame DEF IInv
<1> USE ConstantsAssumption DEF ConstantsAssumption, IInv, TaskExit,
         threadVars, intdVars, LeaveCurrent, Calls, Goto, SetCurrent, Calling,
         Returns, Points, Interruptible, Schedulable
<1>2. TypeOK'
  BY DEF TypeOK, Locals, Ready, JobStage
<1>3. \A d \in Cpu : Locals(d)'
  BY DEF TypeOK, Locals, Ready
<1>4. \A d \in Cpu : Referenced(d)'
  <2> SUFFICES ASSUME NEW d \in Cpu PROVE Referenced(d)'
    OBVIOUS
  <2>1. CASE d = c
    BY <2>1 DEF TypeOK, Referenced, Locals, Ready
  <2>2. CASE d # c
    BY <2>2 DEF TypeOK, Referenced
  <2> QED
    BY <2>1, <2>2
<1>5. Allocated'
  BY DEF TypeOK, Allocated, Locals, Ready, Referenced
<1>6. Unique'
  BY DEF TypeOK, Unique, QueueOnce, QueueFree, PollFree, OneOwner,
         OneRole, Owns, Locals, Ready
<1>7. Jobs'
  BY DEF TypeOK, Jobs, JobDead, JobQueued, JobInHand, JobLast,
         Locals, Ready, JobStage
<1>8. Launching'
  BY DEF TypeOK, Launching, LaunchPrivate, NoThreadYet, Walking, OneCreator,
         Creating, Locals, Ready
<1> QED
  BY <1>1, <1>2, <1>3, <1>4, <1>5, <1>6, <1>7, <1>8

\* _free_task_method removes the task from the PID map.
LEMMA JobUnsetPidStep ==
  ASSUME IInv, NEW c \in Cpu, JobUnsetPid(c)
  PROVE  IInv'
<1> USE ConstantsAssumption DEF ConstantsAssumption, IInv, JobUnsetPid,
         threadVars, intdVars, curVars, localVars, RunsJob, Calling, Returns,
         Points, Interruptible, Schedulable
<1>1. TypeOK'
  BY DEF TypeOK, Locals, Ready, JobStage
<1>2. \A d \in Cpu : Locals(d)'
  BY DEF TypeOK, Locals, Ready
<1>3. \A d \in Cpu : Referenced(d)'
  BY DEF TypeOK, Referenced, Locals, Ready
<1>4. Allocated'
  BY DEF TypeOK, Allocated, Locals, Ready, Referenced
<1>5. RefCountExact'
  BY DEF RefCountExact, HeldRefs
<1>6. Unique'
  BY DEF TypeOK, Unique, QueueOnce, QueueFree, PollFree, OneOwner,
         OneRole, Owns, Locals, Ready
<1>7. Jobs'
  BY DEF TypeOK, Jobs, JobDead, JobQueued, JobInHand, JobLast,
         Locals, Ready, JobStage
<1>8. Launching'
  BY DEF TypeOK, Launching, LaunchPrivate, NoThreadYet, Walking, OneCreator,
         Creating, Locals, Ready
<1> QED
  BY <1>1, <1>2, <1>3, <1>4, <1>5, <1>6, <1>7, <1>8

\* _free_task_method frees a thread: nobody has it in hand and it has left
\* the queue.
LEMMA JobFreeThreadStep ==
  ASSUME IInv, NEW c \in Cpu, JobFreeThread(c)
  PROVE  IInv'
<1>a. PICK x \in Thread :
        /\ thTask[x] = cpuThread[c]
        /\ thTask' = [thTask EXCEPT ![x] = NULL]
        /\ exiting' = exiting \ {x} /\ polling' = polling \ {x}
        /\ intd' = IF intd = x THEN NULL ELSE intd
  BY DEF JobFreeThread, threads
<1>b. /\ pc[c] = "job" /\ job[cpuThread[c]] = "free"
      /\ UNCHANGED <<taskVars, queue, irqMask, curVars, pc, localVars>>
  BY DEF JobFreeThread, RunsJob
<1>c. \A d \in Cpu : ~Owns(d, x)
  BY <1>a, <1>b, ReapedNotOwned
<1>d. \A d \in Cpu : x \notin todo[d]
  BY <1>a, <1>b, TodoReaped
<1>e. \A i \in DOMAIN queue : queue[i] # x
  BY <1>a, <1>b, <1>d DEF IInv, Jobs, JobLast
<1>f. \A d \in Cpu : pc[d] = "irq" => intd # x
  BY <1>c DEF Owns
<1> USE <1>a, <1>b, ConstantsAssumption DEF ConstantsAssumption, IInv,
         taskVars, curVars, localVars, Calling, Returns, Points, Interruptible,
         Schedulable
<1>1. TypeOK'
  BY DEF TypeOK, Locals, Ready, JobStage
<1>2. \A d \in Cpu : Locals(d)'
  BY <1>f DEF TypeOK, Locals, Ready
<1>3. \A d \in Cpu : Referenced(d)'
  BY <1>c, <1>f DEF TypeOK, Referenced, Owns
<1>4. Allocated'
  <2>1. \A k \in DOMAIN queue' : queue'[k] \in Thread => thTask'[queue'[k]] # NULL
    BY <1>e DEF TypeOK, Allocated
  <2> QED
    BY <2>1, <1>e DEF TypeOK, Allocated, Locals
<1>5. RefCountExact'
  BY DEF RefCountExact, HeldRefs
<1>6. Unique'
  <2>1. QueueOnce'
    BY <1>f DEF Unique, TypeOK, QueueOnce
  <2>2. QueueFree'
    BY <1>f DEF Unique, TypeOK, QueueFree, Owns, Locals
  <2>3. PollFree'
    BY <1>f DEF Unique, TypeOK, PollFree, Owns, Locals
  <2>4. OneOwner'
    BY <1>f DEF Unique, TypeOK, OneOwner, Owns, Locals
  <2>5. OneRole'
    BY <1>f DEF Unique, TypeOK, OneRole, Locals, Ready
  <2> QED
    BY <2>1, <2>2, <2>3, <2>4, <2>5 DEF Unique
<1>7. Jobs'
  <2>1. JobDead'
    BY DEF Jobs, TypeOK, JobDead
  <2>2. JobQueued'
    BY DEF Jobs, TypeOK, JobQueued
  <2>3. JobInHand'
    BY <1>d DEF Jobs, TypeOK, JobInHand, Locals, Ready
  <2>4. JobLast'
    BY <1>e DEF Jobs, TypeOK, JobLast
  <2> QED
    BY <2>1, <2>2, <2>3, <2>4 DEF Jobs
<1>8. Launching'
  BY DEF TypeOK, Launching, LaunchPrivate, NoThreadYet, Walking, OneCreator,
         Creating, Locals, Ready
<1> QED
  BY <1>1, <1>2, <1>3, <1>4, <1>5, <1>6, <1>7, <1>8

\* _free_task_method frees the task: no CPU, thread or map refers to it.
LEMMA JobFreeTaskStep ==
  ASSUME IInv, NEW c \in Cpu, JobFreeTask(c)
  PROVE  IInv'
<1>a. /\ pc[c] = "job" /\ cpuThread[c] \in Task /\ cpuTask[c] = NULL
      /\ job[cpuThread[c]] = "free" /\ cpuThread[c] \notin pidmap
  BY ConstantsAssumption
     DEF ConstantsAssumption, JobFreeTask, RunsJob, IInv, Locals, Ready,
         Returns, Jobs, JobDead
<1>b. \A d \in Cpu : cpuThread[c] \notin {cpuTask[d], hold[d], drop[d]}
  BY <1>a, HeldNotReaped
<1>c. \A x \in Thread : thTask[x] # cpuThread[c]
  BY DEF JobFreeTask, threads
<1>d. Owns(c, cpuThread[c])
  BY <1>a DEF Owns
<1>e. \A d \in Cpu : d # c => th[d] # cpuThread[c] /\ cpuThread[d] # cpuThread[c]
  BY <1>a, <1>d, ConstantsAssumption
     DEF ConstantsAssumption, IInv, Unique, OneOwner, Owns, Locals,
         Schedulable
<1>f. \A i \in DOMAIN queue : queue[i] # cpuThread[c]
  BY <1>a, <1>d DEF IInv, Unique, QueueFree
<1> USE <1>a, ConstantsAssumption DEF ConstantsAssumption, IInv, JobFreeTask,
         threadVars, intdVars, localVars, Goto, SetCurrent, RunsJob, Calling,
         Returns, Points, Interruptible, Schedulable
<1>1. TypeOK'
  BY DEF TypeOK, Locals, Ready, JobStage
<1>2. \A d \in Cpu : Locals(d)'
  BY DEF TypeOK, Locals, Ready
<1>3. \A d \in Cpu : Referenced(d)'
  BY DEF TypeOK, Referenced, Locals, Ready
<1>4. Allocated'
  <2>1. \A k \in DOMAIN queue' : queue'[k] \in Thread => thTask'[queue'[k]] # NULL
    BY <1>c DEF TypeOK, Allocated
  <2> QED
    BY <2>1, <1>b, <1>c DEF TypeOK, Allocated, Locals
<1>5. RefCountExact'
  <2>1. OwnRefsOnly(c)
    BY DEF OwnRefsOnly, SameElsewhere, TypeOK
  <2>2. Balanced(c)
    BY DEF Balanced, TypeOK, Refs, One, Locals, Ready
  <2> QED
    BY <2>1, <2>2, CountKept
<1>6. Unique'
  BY DEF TypeOK, Unique, QueueOnce, QueueFree, PollFree, OneOwner,
         OneRole, Owns, Locals, Ready
<1>7. Jobs'
  <2>1. JobDead'
    BY DEF Jobs, TypeOK, JobDead
  <2>2. JobQueued'
    BY <1>f DEF Jobs, TypeOK, JobQueued
  <2>3. JobInHand'
    BY <1>e DEF Jobs, TypeOK, JobInHand, Locals, Ready
  <2>4. JobLast'
    BY <1>c DEF Jobs, TypeOK, JobLast, Allocated
  <2> QED
    BY <2>1, <2>2, <2>3, <2>4 DEF Jobs
<1>8. Launching'
  BY DEF TypeOK, Launching, LaunchPrivate, NoThreadYet, Walking, OneCreator,
         Creating, Locals, Ready
<1> QED
  BY <1>1, <1>2, <1>3, <1>4, <1>5, <1>6, <1>7, <1>8

\* anscheduler_intd_set when no interrupt is on its way to the daemon.
LEMMA IntdSetStep ==
  ASSUME IInv, NEW c \in Cpu, IntdSet(c), ~ReplaceIntd
  PROVE  IInv'
<1> USE ConstantsAssumption DEF ConstantsAssumption, IInv, IntdSet, taskVars,
         threadVars, curVars, localVars, Calls, Calling, Returns, Points,
         Interruptible, Schedulable
<1>1. TypeOK'
  BY DEF TypeOK, Locals, Ready, JobStage
<1>2. \A d \in Cpu : Locals(d)'
  BY DEF TypeOK, Locals, Ready
<1>3. \A d \in Cpu : Referenced(d)'
  BY DEF TypeOK, Referenced, Locals, Ready
<1>4. Allocated'
  BY DEF TypeOK, Allocated, Locals, Ready, Referenced
<1>5. RefCountExact'
  BY DEF RefCountExact, HeldRefs
<1>6. Unique'
  BY DEF TypeOK, Unique, QueueOnce, QueueFree, PollFree, OneOwner,
         OneRole, Owns, Locals, Ready
<1>7. Jobs'
  BY DEF TypeOK, Jobs, JobDead, JobQueued, JobInHand, JobLast,
         Locals, Ready, JobStage
<1>8. Launching'
  BY DEF TypeOK, Launching, LaunchPrivate, NoThreadYet, Walking, OneCreator,
         Creating, Locals, Ready
<1> QED
  BY <1>1, <1>2, <1>3, <1>4, <1>5, <1>6, <1>7, <1>8

\* anscheduler_intd_read clears the mask.
LEMMA IntdReadStep ==
  ASSUME IInv, NEW c \in Cpu, IntdRead(c)
  PROVE  IInv'
<1> USE ConstantsAssumption DEF ConstantsAssumption, IInv, IntdRead, taskVars,
         threadVars, curVars, localVars, Calls, Calling, Returns, Points,
         Interruptible, Schedulable
<1>1. TypeOK'
  BY DEF TypeOK, Locals, Ready, JobStage
<1>2. \A d \in Cpu : Locals(d)'
  BY DEF TypeOK, Locals, Ready
<1>3. \A d \in Cpu : Referenced(d)'
  BY DEF TypeOK, Referenced, Locals, Ready
<1>4. Allocated'
  BY DEF TypeOK, Allocated, Locals, Ready, Referenced
<1>5. RefCountExact'
  BY DEF RefCountExact, HeldRefs
<1>6. Unique'
  BY DEF TypeOK, Unique, QueueOnce, QueueFree, PollFree, OneOwner,
         OneRole, Owns, Locals, Ready
<1>7. Jobs'
  BY DEF TypeOK, Jobs, JobDead, JobQueued, JobInHand, JobLast,
         Locals, Ready, JobStage
<1>8. Launching'
  BY DEF TypeOK, Launching, LaunchPrivate, NoThreadYet, Walking, OneCreator,
         Creating, Locals, Ready
<1> QED
  BY <1>1, <1>2, <1>3, <1>4, <1>5, <1>6, <1>7, <1>8

\* anscheduler_irq for a polling daemon: the reference stays in hand for the
\* switch.
LEMMA DeliverIrqSwitchStep ==
  ASSUME IInv, NEW c \in Cpu, DeliverIrq(c), intd \in polling
  PROVE  IInv'
<1> DEFINE t == thTask[intd]
<1>a. /\ pc[c] \in Interruptible /\ intd # NULL /\ ~isKilled[t]
      /\ refCount' = [refCount EXCEPT ![t] = @ + 1]
      /\ irqMask' \subseteq Irq
      /\ polling' = polling \ {intd}
      /\ UNCHANGED <<tasks, isKilled, pidmap, job, thTask, exiting, queue, intd, curVars, th, todo, nx>>
  BY DEF DeliverIrq, Reference, IInv, TypeOK
<1>b. /\ intd \in Thread /\ t \in tasks /\ t \in Task /\ t # NULL
      /\ hold[c] = NULL /\ drop[c] = NULL
      /\ job[t] = "none"
  BY <1>a, ConstantsAssumption
     DEF ConstantsAssumption, IInv, TypeOK, Allocated, Locals, Ready, Returns, Interruptible, Jobs, JobDead
<1>c. \A d \in Cpu : Walking(d) => hold[d] # t
  BY <1>b DEF IInv, Launching, NoThreadYet
<1>d. \A d \in Cpu : pc[d] = "launch" => hold[d] # t
  BY <1>c DEF Walking
<1>e. hold' = [hold EXCEPT ![c] = t] /\ pc' = [pc EXCEPT ![c] = "irq"] /\ UNCHANGED <<drop, next>>
  BY DEF DeliverIrq, Goto
<1>f. \A d \in Cpu : ~Owns(d, intd)
  BY DEF IInv, Unique, PollFree
<1>g. \A i \in DOMAIN queue : queue[i] # intd
  BY DEF IInv, Unique, QueueFree
<1> USE <1>a, <1>b, <1>e, ConstantsAssumption DEF ConstantsAssumption, IInv,
         curVars, Interruptible, Calling, Returns, Points, Schedulable
<1>1. TypeOK'
  <2>1. refCount' \in [Task -> Nat]
    BY DEF TypeOK
  <2> QED
    BY <2>1 DEF TypeOK
<1>2. \A d \in Cpu : Locals(d)'
  BY DEF TypeOK, Locals, Ready
<1>3. \A d \in Cpu : Referenced(d)'
  BY DEF TypeOK, Referenced, Locals, Ready
<1>4. Allocated'
  BY DEF TypeOK, Allocated, Locals, Ready, Referenced
<1>5. RefCountExact'
  <2>1. OwnRefsOnly(c)
    BY DEF OwnRefsOnly, SameElsewhere, TypeOK
  <2>2. \A u \in tasks : Refs(c, u)' = Refs(c, u) + One(t, u)
    BY ONLY <1>a, <1>b, <1>e, ConstantsAssumption, TypeOK, c \in Cpu
       DEF ConstantsAssumption, TypeOK, Refs, One, curVars
  <2> QED
    BY <2>1, <2>2, <1>b, CountTaken
<1>6. Unique'
  <2>1. QueueOnce'
    BY <1>f, <1>g DEF Unique, TypeOK, QueueOnce
  <2>2. QueueFree'
    BY <1>f, <1>g DEF Unique, TypeOK, QueueFree, Owns
  <2>3. PollFree'
    BY <1>f, <1>g DEF Unique, TypeOK, PollFree, Owns
  <2>4. OneOwner'
    BY <1>f, <1>g DEF Unique, TypeOK, OneOwner, Owns
  <2>5. OneRole'
    BY <1>f, <1>g DEF Unique, TypeOK, OneRole, Locals, Ready, Owns
  <2> QED
    BY <2>1, <2>2, <2>3, <2>4, <2>5 DEF Unique
<1>7. Jobs'
  <2>1. JobDead'
    BY DEF Jobs, TypeOK, JobDead
  <2>2. JobQueued'
    BY DEF Jobs, TypeOK, JobQueued
  <2>3. JobInHand'
    BY DEF Jobs, TypeOK, JobInHand, Locals, Ready
  <2>4. JobLast'
    BY DEF Jobs, TypeOK, JobLast
  <2> QED
    BY <2>1, <2>2, <2>3, <2>4 DEF Jobs
<1>8. Launching'
  <2>1. LaunchPrivate'
    BY <1>d DEF Launching, TypeOK, LaunchPrivate, Locals, Ready
  <2>2. NoThreadYet'
    BY <1>c DEF Launching, TypeOK, NoThreadYet, Walking, Creating, Locals, Ready
  <2>3. OneCreator'
    BY <1>c DEF Launching, TypeOK, OneCreator, Creating, Locals, Ready
  <2> QED
    BY <2>1, <2>2, <2>3 DEF Launching
<1> QED
  BY <1>1, <1>2, <1>3, <1>4, <1>5, <1>6, <1>7, <1>8

\* anscheduler_irq for a daemon that does not poll: the reference is given
\* back.
LEMMA DeliverIrqReturnStep ==
  ASSUME IInv, NEW c \in Cpu, DeliverIrq(c), intd \notin polling
  PROVE  IInv'
<1> DEFINE t == thTask[intd]
<1>a. /\ pc[c] \in Interruptible /\ intd # NULL /\ ~isKilled[t]
      /\ refCount' = [refCount EXCEPT ![t] = @ + 1]
      /\ irqMask' \subseteq Irq
      /\ polling' = polling \ {intd}
      /\ UNCHANGED <<tasks, isKilled, pidmap, job, thTask, exiting, queue, intd, curVars, th, todo, nx>>
  BY DEF DeliverIrq, Reference, IInv, TypeOK
<1>b. /\ intd \in Thread /\ t \in tasks /\ t \in Task /\ t # NULL
      /\ hold[c] = NULL /\ drop[c] = NULL
      /\ job[t] = "none"
  BY <1>a, ConstantsAssumption
     DEF ConstantsAssumption, IInv, TypeOK, Allocated, Locals, Ready, Returns, Interruptible, Jobs, JobDead
<1>c. \A d \in Cpu : Walking(d) => hold[d] # t
  BY <1>b DEF IInv, Launching, NoThreadYet
<1>d. \A d \in Cpu : pc[d] = "launch" => hold[d] # t
  BY <1>c DEF Walking
<1>e. /\ drop' = [drop EXCEPT ![c] = t] /\ next' = [next EXCEPT ![c] = pc[c]]
      /\ pc' = [pc EXCEPT ![c] = "deref"] /\ UNCHANGED hold
  BY DEF DeliverIrq, Goto
<1> USE <1>a, <1>b, <1>e, ConstantsAssumption DEF ConstantsAssumption, IInv,
         curVars, Interruptible, Calling, Returns, Points, Schedulable
<1>1. TypeOK'
  <2>1. refCount' \in [Task -> Nat]
    BY DEF TypeOK
  <2> QED
    BY <2>1 DEF TypeOK
<1>2. \A d \in Cpu : Locals(d)'
  BY DEF TypeOK, Locals, Ready
<1>3. \A d \in Cpu : Referenced(d)'
  BY DEF TypeOK, Referenced, Locals, Ready
<1>4. Allocated'
  BY DEF TypeOK, Allocated, Locals, Ready, Referenced
<1>5. RefCountExact'
  <2>1. OwnRefsOnly(c)
    BY DEF OwnRefsOnly, SameElsewhere, TypeOK
  <2>2. \A u \in tasks : Refs(c, u)' = Refs(c, u) + One(t, u)
    BY ONLY <1>a, <1>b, <1>e, ConstantsAssumption, TypeOK, c \in Cpu
       DEF ConstantsAssumption, TypeOK, Refs, One, curVars
  <2> QED
    BY <2>1, <2>2, <1>b, CountTaken
<1>6. Unique'
  <2>1. QueueOnce'
    BY DEF Unique, TypeOK, QueueOnce
  <2>2. QueueFree'
    BY DEF Unique, TypeOK, QueueFree, Owns
  <2>3. PollFree'
    BY DEF Unique, TypeOK, PollFree, Owns
  <2>4. OneOwner'
    BY DEF Unique, TypeOK, OneOwner, Owns
  <2>5. OneRole'
    BY DEF Unique, TypeOK, OneRole, Locals, Ready
  <2> QED
    BY <2>1, <2>2, <2>3, <2>4, <2>5 DEF Unique
<1>7. Jobs'
  <2>1. JobDead'
    BY DEF Jobs, TypeOK, JobDead
  <2>2. JobQueued'
    BY DEF Jobs, TypeOK, JobQueued
  <2>3. JobInHand'
    BY DEF Jobs, TypeOK, JobInHand, Locals, Ready
  <2>4. JobLast'
    BY DEF Jobs, TypeOK, JobLast
  <2> QED
    BY <2>1, <2>2, <2>3, <2>4 DEF Jobs
<1>8. Launching'
  <2>1. LaunchPrivate'
    BY <1>d DEF Launching, TypeOK, LaunchPrivate, Locals, Ready
  <2>2. NoThreadYet'
    BY <1>c DEF Launching, TypeOK, NoThreadYet, Walking, Creating, Locals, Ready
  <2>3. OneCreator'
    BY <1>c DEF Launching, TypeOK, OneCreator, Creating, Locals, Ready
  <2> QED
    BY <2>1, <2>2, <2>3 DEF Launching
<1> QED
  BY <1>1, <1>2, <1>3, <1>4, <1>5, <1>6, <1>7, <1>8

\* anscheduler_loop_switch: the daemon read again is still the one whose
\* task is referenced.
LEMMA IrqSwitchStep ==
  ASSUME IInv, NEW c \in Cpu, IrqSwitch(c)
  PROVE  IInv'
<1>a. /\ pc[c] = "irq" /\ UNCHANGED <<taskVars, threadVars, queue, intdVars, hold, todo>>
      /\ nx' = [nx EXCEPT ![c] = intd]
  BY DEF IrqSwitch
<1>b. PICK p \in {"switch", "check"}, q \in {"switch", next[c]} :
        /\ pc' = [pc EXCEPT ![c] = p] /\ next' = [next EXCEPT ![c] = q]
        /\ SetCurrent(c, NULL, NULL)
        /\ th' = [th EXCEPT ![c] = cpuThread[c]] /\ drop' = [drop EXCEPT ![c] = cpuTask[c]]
        /\ p = "switch" <=> cpuThread[c] = NULL
        /\ p = "check" => q = "switch"
  <2>1. CASE cpuThread[c] = NULL
    <3>1. cpuTask[c] = NULL /\ drop[c] = NULL /\ th[c] = NULL
      BY <1>a, <2>1, ConstantsAssumption DEF ConstantsAssumption, IInv, Locals
    <3>2. pc' = [pc EXCEPT ![c] = "switch"] /\ UNCHANGED <<curVars, th, drop, next>>
      BY <2>1 DEF IrqSwitch, Goto
    <3> QED
      BY <3>1, <3>2, <2>1 DEF IInv, TypeOK, SetCurrent, curVars
  <2>2. CASE cpuThread[c] # NULL
    BY <2>2 DEF IrqSwitch, PushCurrent, Goto
  <2> QED
    BY <2>1, <2>2
<1> USE <1>a, <1>b, ConstantsAssumption DEF ConstantsAssumption, IInv,
         taskVars, threadVars, intdVars, curVars, Goto, SetCurrent, Calling,
         Returns, Points, Interruptible, Schedulable
<1>1. TypeOK'
  BY DEF TypeOK, Locals, Ready, JobStage
<1>2. \A d \in Cpu : Locals(d)'
  BY DEF TypeOK, Locals, Ready
<1>3. \A d \in Cpu : Referenced(d)'
  BY DEF TypeOK, Referenced, Locals, Ready
<1>4. Allocated'
  BY DEF TypeOK, Allocated, Locals, Ready, Referenced
<1>5. RefCountExact'
  <2>1. OwnRefsOnly(c)
    BY DEF OwnRefsOnly, SameElsewhere, TypeOK
  <2>2. Balanced(c)
    BY DEF Balanced, TypeOK, Refs, One, Locals, Ready
  <2> QED
    BY <2>1, <2>2, CountKept
<1>6. Unique'
  BY DEF TypeOK, Unique, QueueOnce, QueueFree, PollFree, OneOwner,
         OneRole, Owns, Locals, Ready
<1>7. Jobs'
  BY DEF TypeOK, Jobs, JobDead, JobQueued, JobInHand, JobLast,
         Locals, Ready, JobStage
<1>8. Launching'
  BY DEF TypeOK, Launching, LaunchPrivate, NoThreadYet, Walking, OneCreator,
         Creating, Locals, Ready
<1> QED
  BY <1>1, <1>2, <1>3, <1>4, <1>5, <1>6, <1>7, <1>8

-----------------------------------------------------------------------------
(* The invariant holds, and what follows from it.                          *)

\* The scheduler starts with nothing allocated and every CPU booting.
LEMMA InitIInv == Init => IInv
<1> SUFFICES ASSUME Init PROVE IInv
  OBVIOUS
<1> USE ConstantsAssumption DEF ConstantsAssumption, Init, Points, Interruptible, Schedulable
<1>1. TypeOK
  BY DEF TypeOK, JobStage
<1>2. \A c \in Cpu : Locals(c) /\ Referenced(c)
  BY DEF Locals, Referenced, Ready, Returns, Calling
<1>3. Allocated /\ RefCountExact
  BY DEF Allocated, RefCountExact
<1>4. Unique
  BY DEF Unique, QueueOnce, QueueFree, PollFree, OneOwner, OneRole, Owns
<1>5. Jobs
  BY DEF Jobs, JobDead, JobQueued, JobInHand, JobLast
<1>6. Launching
  BY DEF Launching, LaunchPrivate, NoThreadYet, Walking, OneCreator, Creating, Calling
<1> QED
  BY <1>1, <1>2, <1>3, <1>4, <1>5, <1>6 DEF IInv

\* A step in which the scheduler's variables do not change preserves it.
LEMMA StutterIInv == IInv /\ UNCHANGED vars => IInv'
<1> SUFFICES ASSUME IInv, UNCHANGED vars PROVE IInv'
  OBVIOUS
<1> USE DEF vars, taskVars, threadVars, intdVars, curVars, localVars, IInv
<1>1. TypeOK'
  BY DEF TypeOK
<1>2. \A c \in Cpu : Locals(c)' /\ Referenced(c)'
  BY DEF Locals, Referenced, Ready
<1>3. Allocated' /\ RefCountExact'
  BY DEF Allocated, RefCountExact, HeldRefs
<1>4. Unique'
  BY DEF Unique, QueueOnce, QueueFree, PollFree, OneOwner, OneRole, Owns
<1>5. Jobs'
  BY DEF Jobs, JobDead, JobQueued, JobInHand, JobLast
<1>6. Launching'
  BY DEF Launching, LaunchPrivate, NoThreadYet, Walking, OneCreator, Creating
<1> QED
  BY <1>1, <1>2, <1>3, <1>4, <1>5, <1>6

\* Every step of every CPU preserves it.
LEMMA NextIInv ==
  ASSUME ~EarlyThreads, ~ReplaceIntd, IInv, Next
  PROVE  IInv'
<1> PICK c \in Cpu :
      \/ KernelStep(c) \/ JobStep(c) \/ SystemCall(c)
      \/ Resign(c) \/ EnterLoop(c) \/ FinalizeThreadExit(c) \/ DeliverIrq(c)
  BY DEF Next
<1>1. CASE KernelStep(c)
  <2>1. TaskDereference(c) => IInv'
    BY DereferenceReapStep, DereferenceReturnStep
  <2> QED
    BY <1>1, <2>1, LoopPushCheckStep, LoopPushStep, LoopDeleteStep, PushKillJobStep,
       RunNextStep, RunIdleStep, SwitchToThreadStep, TaskLaunchStep, LaunchWalkStep,
       LaunchPushStep, CreatorAddStep, CreatorGivesUpStep, PollBreakStep, TaskKillStep,
       HeldReleaseStep, HeldAddStep, WakeupEndpointStep, IrqSwitchStep
       DEF KernelStep
<1>2. CASE JobStep(c)
  BY <1>2, JobUnsetPidStep, JobFreeThreadStep, JobFreeTaskStep DEF JobStep
<1>3. CASE SystemCall(c)
  BY <1>3, TaskCreateStep, ThreadAddStep, ThreadPollStep, ThreadExitStep, TaskForPidStep,
     TaskExitStep, IntdSetStep, IntdReadStep
     DEF SystemCall
<1>4. DeliverIrq(c) => IInv'
  BY DeliverIrqSwitchStep, DeliverIrqReturnStep
<1> QED
  BY <1>1, <1>2, <1>3, <1>4, ResignStep, EnterLoopStep, FinalizeThreadExitStep

\* For any number of tasks, threads, CPUs and interrupt lines, IInv is an
\* invariant of the scheduler: the locals, references, queue, kill jobs and
\* launches of loop.c, task.c, thread.c and interrupts.c stay consistent.
THEOREM Invariance ==
  ASSUME ~EarlyThreads, ~ReplaceIntd
  PROVE  Spec => []IInv
<1>1. IInv /\ [Next]_vars => IInv'
  BY NextIInv, StutterIInv
<1> QED
  BY <1>1, InitIInv, PTL DEF Spec

\* The type invariant of the scheduler's state.
THEOREM TypeCorrect ==
  ASSUME ~EarlyThreads, ~ReplaceIntd
  PROVE  Spec => []TypeOK
<1>1. IInv => TypeOK
  BY DEF IInv
<1> QED
  BY <1>1, Invariance, PTL

\* task->refCount is at every moment the number of references in use: no path
\* through the scheduler leaks one or gives one back twice.
THEOREM CountsExact ==
  ASSUME ~EarlyThreads, ~ReplaceIntd
  PROVE  Spec => []RefCountExact
<1>1. IInv => RefCountExact
  BY DEF IInv
<1> QED
  BY <1>1, Invariance, PTL

\* What the invariant says of the structures that can still be reached.
LEMMA ReachableAlive ==
  ASSUME IInv
  PROVE  NoUseAfterFree
<1> USE ConstantsAssumption DEF ConstantsAssumption
<1>1. \A x \in Thread : thTask[x] \in Task => Alive(x)
  BY DEF Alive, Allocated, IInv
<1>2. \A t \in Task : job[t] # "none" => Alive(t)
  BY DEF Alive, Jobs, JobDead, IInv
<1>3. ASSUME NEW i \in DOMAIN queue PROVE Alive(queue[i])
  <2>1. queue[i] \in Schedulable
    BY <1>3 DEF TypeOK, IInv
  <2>2. CASE queue[i] \in Thread
    BY <1>1, <1>3, <2>2 DEF Allocated, TypeOK, IInv
  <2>3. CASE queue[i] \in Task
    BY <1>2, <1>3, <2>3 DEF Jobs, JobQueued, IInv
  <2> QED
    BY <2>1, <2>2, <2>3 DEF Schedulable
<1>4. intd # NULL => Alive(intd)
  BY <1>1 DEF Allocated, TypeOK, IInv
<1>5. ASSUME NEW c \in Cpu
      PROVE  /\ pc[c] = "polled" \/ cpuThread[c] = NULL \/ Alive(cpuThread[c])
             /\ th[c] = NULL \/ Alive(th[c])
             /\ nx[c] = NULL \/ Alive(nx[c])
             /\ \A x \in todo[c] : Alive(x)
  <2>1. \A x \in Thread : Owns(c, x) => Alive(x)
    BY <1>1, <1>5, OwnedThreadHeld
  <2>2. \A t \in Task : t \in {cpuThread[c], th[c]} => Alive(t)
    BY <1>2, <1>5 DEF Jobs, JobInHand, IInv
  <2>3. \A x \in todo[c] : Alive(x)
    BY <1>1, <1>5, TodoReaped
  <2>4. /\ cpuThread[c] \in Thread \cup Task \cup {NULL}
        /\ th[c] \in Thread \cup Task \cup {NULL} /\ nx[c] \in Thread \cup {NULL}
    BY <1>5 DEF TypeOK, Schedulable, IInv
  <2> QED
    BY <2>1, <2>2, <2>3, <2>4 DEF Owns
<1> QED
  BY <1>3, <1>4, <1>5 DEF NoUseAfterFree, Allocated, IInv

\* Nothing that _free_task_method or _finalize_thread_exit frees can still be
\* reached by a CPU, the run loop, the PID map or the interrupt code.
THEOREM MemorySafe ==
  ASSUME ~EarlyThreads, ~ReplaceIntd
  PROVE  Spec => []NoUseAfterFree
  BY ReachableAlive, Invariance, PTL

\* Of the actions only the poll, the delivery and the registration of the
\* daemon bear on a daemon that sleeps.
LEMMA NoLostIrqStep ==
  ASSUME IInv, NoLostIrq, [Next]_vars
  PROVE  NoLostIrq'
<1> USE DEF NoLostIrq, taskVars, threadVars, intdVars, curVars, localVars
<1>1. CASE UNCHANGED vars
  BY <1>1 DEF vars
<1>2. ASSUME NEW c \in Cpu, KernelStep(c) PROVE NoLostIrq'
  BY <1>2 DEF KernelStep, LoopPushCheck, LoopPush, TaskDereference, LoopDelete, PushKillJob,
     RunNext, RunIdle, SwitchToThread, TaskLaunch, LaunchWalk, LaunchPush, CreatorAdd,
     CreatorGivesUp, PollBreak, TaskKill, HeldRelease, HeldAdd, WakeupEndpoint, IrqSwitch,
     NewThread
<1>3. ASSUME NEW c \in Cpu, JobStep(c) PROVE NoLostIrq'
  BY <1>3, ConstantsAssumption
     DEF JobStep, JobUnsetPid, JobFreeThread, JobFreeTask, ConstantsAssumption, IInv, TypeOK
<1>4. ASSUME NEW c \in Cpu, SystemCall(c) PROVE NoLostIrq'
  <2>1. pc[c] = "user" /\ ThreadPoll(c) => NoLostIrq'
    BY DEF ThreadPoll
  <2>2. ThreadExit(c) => NoLostIrq'
    BY ConstantsAssumption DEF ThreadExit, ConstantsAssumption, IInv, TypeOK
  <2>3. IntdSet(c) => NoLostIrq'
    BY ConstantsAssumption
       DEF IntdSet, Calls, IInv, TypeOK, Unique, PollFree, Owns, ConstantsAssumption
  <2> QED
    BY <1>4, <2>1, <2>2, <2>3
       DEF SystemCall, TaskCreate, ThreadAdd, NewThread, TaskForPid, TaskExit, IntdRead,
           ThreadPoll, Calls
<1>5. ASSUME NEW c \in Cpu,
             Resign(c) \/ EnterLoop(c) \/ FinalizeThreadExit(c) \/ DeliverIrq(c)
      PROVE  NoLostIrq'
  BY <1>5 DEF Resign, EnterLoop, FinalizeThreadExit, DeliverIrq
<1> QED
  BY <1>1, <1>2, <1>3, <1>4, <1>5 DEF Next

\* The interrupt daemon never sleeps on an interrupt that anscheduler_irq has
\* already put into irqMask, whatever the order in which
\* anscheduler_thread_poll and anscheduler_irq run on different CPUs.
THEOREM IrqNeverLost ==
  ASSUME ~EarlyThreads, ~ReplaceIntd
  PROVE  Spec => []NoLostIrq
<1>1. Init => NoLostIrq
  BY ConstantsAssumption DEF Init, NoLostIrq
<1> QED
  BY <1>1, NoLostIrqStep, Invariance, PTL DEF Spec

-----------------------------------------------------------------------------
(* No thread and no kill job is lost: the second invariant.                *)

InQueue(x) == \E i \in DOMAIN queue : queue[i] = x

\* Somebody will pick x up: it is queued, polls or is in the hand of a CPU.
Found(x) == InQueue(x) \/ x \in polling \/ \E c \in Cpu : Owns(c, x)

\* A thread of a task that has not been killed, or the kill job of a dead one
Needed(x) ==
  \/ x \in Thread /\ thTask[x] # NULL /\ ~isKilled[thTask[x]]
  \/ x \in Task /\ job[x] # "none"

\* Nothing that is needed is lost.
Kept == \A x \in Schedulable : Needed(x) => Found(x)

-----------------------------------------------------------------------------
(* What stays in the run loop.                                             *)

\* What _push_unconditional adds to the list
LEMMA AppendKeeps ==
  ASSUME NEW S, NEW s \in Seq(S), NEW x \in S
  PROVE  /\ \A i \in DOMAIN s : i \in DOMAIN Append(s, x) /\ Append(s, x)[i] = s[i]
         /\ \E i \in DOMAIN Append(s, x) : Append(s, x)[i] = x
<1>1. Append(s, x)[Len(s) + 1] = x /\ Len(s) + 1 \in DOMAIN Append(s, x)
  OBVIOUS
<1> QED
  BY <1>1

\* _next_thread keeps what is behind the entry it finds.
LEMMA TailKeeps ==
  ASSUME NEW S, NEW s \in Seq(S), NEW i \in DOMAIN s, NEW j \in DOMAIN s, j > i
  PROVE  \E k \in DOMAIN SubSeq(s, i + 1, Len(s)) : SubSeq(s, i + 1, Len(s))[k] = s[j]
<1> DEFINE r == SubSeq(s, i + 1, Len(s))
<1>1. Len(r) = Len(s) - i /\ r \in Seq(S) /\ \A k \in 1 .. Len(s) - i : r[k] = s[k + i]
  OBVIOUS
<1>2. i \in Nat /\ j \in Nat /\ j <= Len(s) /\ Len(s) \in Nat
  OBVIOUS
<1> HIDE DEF r
<1>3. j - i \in DOMAIN r /\ r[j - i] = s[j]
  BY <1>1, <1>2
<1> QED
  BY <1>3 DEF r

\* anscheduler_loop_delete keeps all other entries.
LEMMA RemoveKeeps ==
  ASSUME NEW S, NEW s \in Seq(S), NEW i \in DOMAIN s, NEW j \in DOMAIN s, j # i
  PROVE  \E k \in DOMAIN RemoveAt(s, i) : RemoveAt(s, i)[k] = s[j]
<1> DEFINE a == SubSeq(s, 1, i - 1)
           b == SubSeq(s, i + 1, Len(s))
           r == a \o b
<1>1. a \in Seq(S) /\ Len(a) = i - 1 /\ \A k \in 1 .. i - 1 : a[k] = s[k]
  OBVIOUS
<1>2. b \in Seq(S) /\ Len(b) = Len(s) - i /\ \A k \in 1 .. Len(s) - i : b[k] = s[k + i]
  OBVIOUS
<1>3. i \in Nat /\ j \in Nat /\ 1 <= j /\ j <= Len(s) /\ i <= Len(s) /\ Len(s) \in Nat
  OBVIOUS
<1> HIDE DEF a, b
<1>4. r \in Seq(S) /\ Len(r) = Len(s) - 1 /\ DOMAIN r = 1 .. Len(s) - 1
  BY <1>1, <1>2, <1>3
<1>5. CASE j < i
  <2>1. j \in 1 .. Len(a) /\ j \in DOMAIN r /\ r[j] = a[j]
    BY <1>1, <1>2, <1>3, <1>4, <1>5
  <2> QED
    BY <2>1, <1>1 DEF RemoveAt, a, b
<1>6. CASE j > i
  <2>1. j - 1 \in DOMAIN r /\ r[j - 1] = b[j - i] /\ j - i \in 1 .. Len(s) - i
    BY <1>1, <1>2, <1>3, <1>4, <1>6, SMTT(30)
  <2>2. b[j - i] = s[j]
    BY <1>2, <1>3, <2>1, SMTT(30)
  <2> QED
    BY <2>1, <2>2 DEF RemoveAt, a, b
<1> QED
  BY <1>3, <1>5, <1>6

-----------------------------------------------------------------------------
(* One lemma per action: whatever is needed afterwards can be found.       *)

\* Only a thread of a killed task is not pushed.
LEMMA LoopPushCheckKeeps ==
  ASSUME IInv, Kept, NEW c \in Cpu, LoopPushCheck(c)
  PROVE  Kept'
<1> SUFFICES ASSUME NEW x \in Schedulable, Needed(x)' PROVE Found(x)'
  BY DEF Kept
<1> USE ConstantsAssumption DEF ConstantsAssumption, IInv, Schedulable, taskVars, threadVars,
        intdVars, curVars, localVars, Goto, LoopPushCheck, AfterPush, Continue
<1>1. Needed(x) => Found(x)
  BY DEF Kept
<1>2. \A d \in Cpu \ {c} : Owns(d, x) => Owns(d, x)'
  BY DEF TypeOK, Owns
<1>3. InQueue(x) => Found(x)'
  BY DEF TypeOK, InQueue, Found, Needed
<1>4. x \in polling => Found(x)'
  BY DEF TypeOK, InQueue, Found
<1>5. Owns(c, x) => Found(x)'
  BY DEF TypeOK, InQueue, Found, Owns, Locals, Ready, Calling, Returns, Needed
<1>6. Needed(x)
  BY DEF TypeOK, Needed
<1> QED
  BY <1>1, <1>2, <1>3, <1>4, <1>5, <1>6 DEF Found

\* What is pushed is in the queue.
LEMMA LoopPushKeeps ==
  ASSUME IInv, Kept, NEW c \in Cpu, LoopPush(c)
  PROVE  Kept'
<1> SUFFICES ASSUME NEW x \in Schedulable, Needed(x)' PROVE Found(x)'
  BY DEF Kept
<1> USE ConstantsAssumption DEF ConstantsAssumption, IInv, Schedulable, taskVars, threadVars,
        intdVars, curVars, localVars, Goto, LoopPush, AfterPush, Continue
<1>a. pc[c] = "push" /\ th[c] \in Schedulable /\ Ready(c, next[c])
  BY DEF TypeOK, Locals, Calling
<1>b. /\ \A i \in DOMAIN queue : i \in DOMAIN queue' /\ queue'[i] = queue[i]
      /\ \E i \in DOMAIN queue' : queue'[i] = th[c]
  BY <1>a, AppendKeeps DEF TypeOK, InQueue
<1>c. pc'[c] # "polled"
  BY <1>a DEF TypeOK, Ready, Returns
<1>1. Needed(x) => Found(x)
  BY DEF Kept
<1>2. \A d \in Cpu \ {c} : Owns(d, x) => Owns(d, x)'
  BY DEF TypeOK, Owns
<1>3. InQueue(x) => Found(x)'
  BY <1>b DEF InQueue, Found
<1>4. x \in polling => Found(x)'
  BY DEF TypeOK, InQueue, Found
<1>5. Owns(c, x) => Found(x)'
  <2>1. th[c] = x => Found(x)'
    BY <1>b DEF Found, InQueue
  <2>2. cpuThread[c] = x \/ nx[c] = x => Owns(c, x)'
    BY <1>c DEF Owns
  <2> QED
    BY <1>a, <2>1, <2>2 DEF Found, Owns
<1>6. Needed(x)
  BY DEF TypeOK, Needed
<1> QED
  BY <1>1, <1>2, <1>3, <1>4, <1>5, <1>6 DEF Found

\* A task that is reaped is in the hand of the CPU that reaps it.
LEMMA TaskDereferenceKeeps ==
  ASSUME IInv, Kept, NEW c \in Cpu, TaskDereference(c)
  PROVE  Kept'
<1> SUFFICES ASSUME NEW x \in Schedulable, Needed(x)' PROVE Found(x)'
  BY DEF Kept
<1> USE ConstantsAssumption DEF ConstantsAssumption, IInv, Schedulable, taskVars, threadVars,
        intdVars, curVars, localVars, Goto, TaskDereference, Continue
<1>a. pc[c] = "deref" /\ th[c] = NULL /\ Ready(c, next[c])
  BY DEF TypeOK, Locals, Calling
<1>b. pc'[c] # "polled"
  BY <1>a DEF TypeOK, Ready, Returns
<1>1. Needed(x) => Found(x)
  BY DEF Kept
<1>2. \A d \in Cpu \ {c} : Owns(d, x) => Owns(d, x)'
  BY DEF TypeOK, Owns
<1>3. InQueue(x) => Found(x)'
  BY DEF TypeOK, InQueue, Found, Needed
<1>4. x \in polling => Found(x)'
  BY DEF TypeOK, InQueue, Found
<1>5. Owns(c, x) => Found(x)'
  BY <1>a, <1>b DEF Found, Owns
<1>6. Needed(x) \/ Owns(c, x)'
  BY DEF TypeOK, Needed, Owns
<1> QED
  BY <1>1, <1>2, <1>3, <1>4, <1>5, <1>6 DEF Found

\* Only threads of killed tasks are deleted.
LEMMA LoopDeleteKeeps ==
  ASSUME IInv, Kept, NEW c \in Cpu, LoopDelete(c)
  PROVE  Kept'
<1> SUFFICES ASSUME NEW x \in Schedulable, Needed(x)' PROVE Found(x)'
  BY DEF Kept
<1> USE ConstantsAssumption DEF ConstantsAssumption, IInv, Schedulable, taskVars, threadVars,
        intdVars, curVars, localVars, Goto, LoopDelete
<1>a. PICK y \in todo[c] :
        \/ \E i \in DOMAIN queue : queue[i] = y /\ queue' = RemoveAt(queue, i)
        \/ queue' = queue
  OBVIOUS
<1>b. y \in Thread /\ thTask[y] \in Task /\ isKilled[thTask[y]]
  BY TodoReaped DEF Jobs, JobDead
<1>c. x # y
  BY <1>b DEF Needed
<1>1. Needed(x) => Found(x)
  BY DEF Kept
<1>2. \A d \in Cpu \ {c} : Owns(d, x) => Owns(d, x)'
  BY DEF TypeOK, Owns
<1>3. InQueue(x) => Found(x)'
  <2>1. ASSUME NEW i \in DOMAIN queue, queue[i] = y, queue' = RemoveAt(queue, i), InQueue(x)
        PROVE  InQueue(x)'
    <3>1. PICK j \in DOMAIN queue : queue[j] = x
      BY <2>1 DEF InQueue
    <3>2. \E k \in DOMAIN RemoveAt(queue, i) : RemoveAt(queue, i)[k] = queue[j]
      BY <1>c, <2>1, <3>1, RemoveKeeps, SMTT(30) DEF TypeOK
    <3> QED
      BY <2>1, <3>1, <3>2 DEF InQueue
  <2>2. queue' = queue /\ InQueue(x) => InQueue(x)'
    BY DEF InQueue
  <2> QED
    BY <1>a, <2>1, <2>2 DEF Found
<1>4. x \in polling => Found(x)'
  BY DEF TypeOK, InQueue, Found
<1>5. Owns(c, x) => Found(x)'
  BY DEF TypeOK, InQueue, Found, Owns, Locals, Ready, Calling, Returns
<1>6. Needed(x)
  BY DEF TypeOK, Needed
<1> QED
  BY <1>1, <1>2, <1>3, <1>4, <1>5, <1>6 DEF Found

\* The kill job is about to be pushed.
LEMMA PushKillJobKeeps ==
  ASSUME IInv, Kept, NEW c \in Cpu, PushKillJob(c)
  PROVE  Kept'
<1> SUFFICES ASSUME NEW x \in Schedulable, Needed(x)' PROVE Found(x)'
  BY DEF Kept
<1> USE ConstantsAssumption DEF ConstantsAssumption, IInv, Schedulable, taskVars, threadVars,
        intdVars, curVars, localVars, Goto, PushKillJob
<1>1. Needed(x) => Found(x)
  BY DEF Kept
<1>2. \A d \in Cpu \ {c} : Owns(d, x) => Owns(d, x)'
  BY DEF TypeOK, Owns
<1>3. InQueue(x) => Found(x)'
  BY DEF TypeOK, InQueue, Found, Needed
<1>4. x \in polling => Found(x)'
  BY DEF TypeOK, InQueue, Found
<1>5. Owns(c, x) => Found(x)'
  BY DEF TypeOK, InQueue, Found, Owns, Locals, Ready, Calling, Returns
<1>6. Needed(x)
  BY DEF TypeOK, Needed, Locals, Jobs, JobInHand
<1> QED
  BY <1>1, <1>2, <1>3, <1>4, <1>5, <1>6 DEF Found

\* The entries that are dropped are those of killed tasks.
LEMMA RunNextKeeps ==
  ASSUME IInv, Kept, NEW c \in Cpu, RunNext(c)
  PROVE  Kept'
<1> SUFFICES ASSUME NEW x \in Schedulable, Needed(x)' PROVE Found(x)'
  BY DEF Kept
<1> USE ConstantsAssumption DEF ConstantsAssumption, IInv, Schedulable, taskVars, threadVars,
        intdVars, curVars, localVars, Goto, RunNext, SetCurrent, Startable
<1>a. PICK i \in DOMAIN queue :
        /\ \A j \in 1 .. i - 1 : ~(queue[j] \in Thread => ~isKilled[thTask[queue[j]]])
        /\ queue' = SubSeq(queue, i + 1, Len(queue))
        /\ cpuThread' = [cpuThread EXCEPT ![c] = queue[i]] /\ pc'[c] # "polled"
  BY ZenonT(30) DEF TypeOK
<1>1. Needed(x) => Found(x)
  BY DEF Kept
<1>2. \A d \in Cpu \ {c} : Owns(d, x) => Owns(d, x)'
  BY DEF TypeOK, Owns
<1>3. InQueue(x) => Found(x)'
  <2> SUFFICES ASSUME NEW j \in DOMAIN queue, queue[j] = x PROVE Found(x)'
    BY DEF InQueue
  <2>1. CASE j = i
    <3>1. Owns(c, x)'
      BY <1>a, <2>1 DEF Owns, TypeOK
    <3> QED
      BY <3>1 DEF Found
  <2>2. CASE j > i
    <3>1. \E k \in DOMAIN SubSeq(queue, i + 1, Len(queue)) :
            SubSeq(queue, i + 1, Len(queue))[k] = queue[j]
      <4>1. queue \in Seq(Thread \cup Task)
        BY DEF TypeOK
      <4> DEFINE S == Thread \cup Task
      <4>2. queue \in Seq(S)
        BY <4>1
      <4> HIDE DEF S, RunNext, IInv
      <4> QED
        BY ONLY <2>2, <4>2, TailKeeps, i \in DOMAIN queue, j \in DOMAIN queue
    <3> QED
      BY <1>a, <3>1 DEF Found, InQueue
  <2>3. CASE j < i
    <3>1. j \in 1 .. i - 1
      BY <2>3 DEF TypeOK
    <3> QED
      BY <1>a, <3>1 DEF Needed
  <2> QED
    BY <2>1, <2>2, <2>3 DEF TypeOK
<1>4. x \in polling => Found(x)'
  BY DEF TypeOK, InQueue, Found
<1>5. Owns(c, x) => Found(x)'
  BY DEF TypeOK, InQueue, Found, Owns, Locals, Ready, Calling, Returns
<1>6. Needed(x)
  BY DEF TypeOK, Needed
<1> QED
  BY <1>1, <1>2, <1>3, <1>4, <1>5, <1>6 DEF Found

\* All entries that are dropped are those of killed tasks.
LEMMA RunIdleKeeps ==
  ASSUME IInv, Kept, NEW c \in Cpu, RunIdle(c)
  PROVE  Kept'
<1> SUFFICES ASSUME NEW x \in Schedulable, Needed(x)' PROVE Found(x)'
  BY DEF Kept
<1> USE ConstantsAssumption DEF ConstantsAssumption, IInv, Schedulable, taskVars, threadVars,
        intdVars, curVars, localVars, Goto, RunIdle, Startable
<1>1. Needed(x) => Found(x)
  BY DEF Kept
<1>2. \A d \in Cpu \ {c} : Owns(d, x) => Owns(d, x)'
  BY DEF TypeOK, Owns
<1>3. InQueue(x) => Found(x)'
  BY DEF TypeOK, InQueue, Found, Needed
<1>4. x \in polling => Found(x)'
  BY DEF TypeOK, InQueue, Found
<1>5. Owns(c, x) => Found(x)'
  BY DEF TypeOK, InQueue, Found, Owns, Locals, Ready, Calling, Returns
<1>6. Needed(x)
  BY DEF TypeOK, Needed
<1> QED
  BY <1>1, <1>2, <1>3, <1>4, <1>5, <1>6 DEF Found

\* The thread that gives up the CPU is pushed.
LEMMA ResignKeeps ==
  ASSUME IInv, Kept, NEW c \in Cpu, Resign(c)
  PROVE  Kept'
<1> SUFFICES ASSUME NEW x \in Schedulable, Needed(x)' PROVE Found(x)'
  BY DEF Kept
<1> USE ConstantsAssumption DEF ConstantsAssumption, IInv, Schedulable, taskVars, threadVars,
        intdVars, curVars, localVars, Goto, Resign, PushCurrent, SetCurrent
<1>1. Needed(x) => Found(x)
  BY DEF Kept
<1>2. \A d \in Cpu \ {c} : Owns(d, x) => Owns(d, x)'
  BY DEF TypeOK, Owns
<1>3. InQueue(x) => Found(x)'
  BY DEF TypeOK, InQueue, Found, Needed
<1>4. x \in polling => Found(x)'
  BY DEF TypeOK, InQueue, Found
<1>5. Owns(c, x) => Found(x)'
  BY DEF TypeOK, InQueue, Found, Owns, Locals, Ready, Calling, Returns
<1>6. Needed(x)
  BY DEF TypeOK, Needed
<1> QED
  BY <1>1, <1>2, <1>3, <1>4, <1>5, <1>6 DEF Found

\* A CPU that enters the loop has nothing in hand.
LEMMA EnterLoopKeeps ==
  ASSUME IInv, Kept, NEW c \in Cpu, EnterLoop(c)
  PROVE  Kept'
<1> SUFFICES ASSUME NEW x \in Schedulable, Needed(x)' PROVE Found(x)'
  BY DEF Kept
<1> USE ConstantsAssumption DEF ConstantsAssumption, IInv, Schedulable, taskVars, threadVars,
        intdVars, curVars, localVars, Goto, EnterLoop
<1>1. Needed(x) => Found(x)
  BY DEF Kept
<1>2. \A d \in Cpu \ {c} : Owns(d, x) => Owns(d, x)'
  BY DEF TypeOK, Owns
<1>3. InQueue(x) => Found(x)'
  BY DEF TypeOK, InQueue, Found, Needed
<1>4. x \in polling => Found(x)'
  BY DEF TypeOK, InQueue, Found
<1>5. Owns(c, x) => Found(x)'
  BY DEF TypeOK, InQueue, Found, Owns, Locals, Ready, Calling, Returns
<1>6. Needed(x)
  BY DEF TypeOK, Needed
<1> QED
  BY <1>1, <1>2, <1>3, <1>4, <1>5, <1>6 DEF Found

\* The CPU runs what it switched to.
LEMMA SwitchToThreadKeeps ==
  ASSUME IInv, Kept, NEW c \in Cpu, SwitchToThread(c)
  PROVE  Kept'
<1> SUFFICES ASSUME NEW x \in Schedulable, Needed(x)' PROVE Found(x)'
  BY DEF Kept
<1> USE ConstantsAssumption DEF ConstantsAssumption, IInv, Schedulable, taskVars, threadVars,
        intdVars, curVars, localVars, Goto, SwitchToThread, SetCurrent
<1>1. Needed(x) => Found(x)
  BY DEF Kept
<1>2. \A d \in Cpu \ {c} : Owns(d, x) => Owns(d, x)'
  BY DEF TypeOK, Owns
<1>3. InQueue(x) => Found(x)'
  BY DEF TypeOK, InQueue, Found, Needed
<1>4. x \in polling => Found(x)'
  BY DEF TypeOK, InQueue, Found
<1>5. Owns(c, x) => Found(x)'
  BY DEF TypeOK, InQueue, Found, Owns, Locals, Ready, Calling, Returns
<1>6. Needed(x)
  BY DEF TypeOK, Needed
<1> QED
  BY <1>1, <1>2, <1>3, <1>4, <1>5, <1>6 DEF Found

\* A new task has no thread and no kill job.
LEMMA TaskCreateKeeps ==
  ASSUME IInv, Kept, NEW c \in Cpu, TaskCreate(c)
  PROVE  Kept'
<1> SUFFICES ASSUME NEW x \in Schedulable, Needed(x)' PROVE Found(x)'
  BY DEF Kept
<1> USE ConstantsAssumption DEF ConstantsAssumption, IInv, Schedulable, taskVars, threadVars,
        intdVars, curVars, localVars, Goto, TaskCreate
<1>a. pc[c] \in {"boot", "user"} /\ pc' = [pc EXCEPT ![c] = "launch"]
  BY DEF Calls
<1>1. Needed(x) => Found(x)
  BY DEF Kept
<1>2. \A d \in Cpu \ {c} : Owns(d, x) => Owns(d, x)'
  BY DEF TypeOK, Owns
<1>3. InQueue(x) => Found(x)'
  BY DEF TypeOK, InQueue, Found, Needed
<1>4. x \in polling => Found(x)'
  BY DEF TypeOK, InQueue, Found
<1>5. Owns(c, x) => Found(x)'
  BY <1>a DEF TypeOK, Found, Owns
<1>6. Needed(x)
  <2>1. CASE x \in Task
    BY <2>1 DEF Needed
  <2>2. CASE x \in Thread
    <3>1. thTask[x] \in tasks \cup {NULL}
      BY <2>2 DEF Allocated
    <3> QED
      BY <2>2, <3>1 DEF Needed, TypeOK
  <2> QED
    BY <2>1, <2>2
<1> QED
  BY <1>1, <1>2, <1>3, <1>4, <1>5, <1>6 DEF Found

\* A launch moves nothing.
LEMMA TaskLaunchKeeps ==
  ASSUME IInv, Kept, NEW c \in Cpu, TaskLaunch(c)
  PROVE  Kept'
<1> SUFFICES ASSUME NEW x \in Schedulable, Needed(x)' PROVE Found(x)'
  BY DEF Kept
<1> USE ConstantsAssumption DEF ConstantsAssumption, IInv, Schedulable, taskVars, threadVars,
        intdVars, curVars, localVars, Goto, TaskLaunch, Reference
<1>1. Needed(x) => Found(x)
  BY DEF Kept
<1>2. \A d \in Cpu \ {c} : Owns(d, x) => Owns(d, x)'
  BY DEF TypeOK, Owns
<1>3. InQueue(x) => Found(x)'
  BY DEF TypeOK, InQueue, Found, Needed
<1>4. x \in polling => Found(x)'
  BY DEF TypeOK, InQueue, Found
<1>5. Owns(c, x) => Found(x)'
  BY DEF TypeOK, InQueue, Found, Owns, Locals, Ready, Calling, Returns
<1>6. Needed(x)
  BY DEF TypeOK, Needed
<1> QED
  BY <1>1, <1>2, <1>3, <1>4, <1>5, <1>6 DEF Found

\* The walk over the threads begins.
LEMMA LaunchWalkKeeps ==
  ASSUME IInv, Kept, NEW c \in Cpu, LaunchWalk(c)
  PROVE  Kept'
<1> SUFFICES ASSUME NEW x \in Schedulable, Needed(x)' PROVE Found(x)'
  BY DEF Kept
<1> USE ConstantsAssumption DEF ConstantsAssumption, IInv, Schedulable, taskVars, threadVars,
        intdVars, curVars, localVars, Goto, LaunchWalk
<1>1. Needed(x) => Found(x)
  BY DEF Kept
<1>2. \A d \in Cpu \ {c} : Owns(d, x) => Owns(d, x)'
  BY DEF TypeOK, Owns
<1>3. InQueue(x) => Found(x)'
  BY DEF TypeOK, InQueue, Found, Needed
<1>4. x \in polling => Found(x)'
  BY DEF TypeOK, InQueue, Found
<1>5. Owns(c, x) => Found(x)'
  BY DEF TypeOK, InQueue, Found, Owns, Locals, Ready, Calling, Returns
<1>6. Needed(x)
  BY DEF TypeOK, Needed
<1> QED
  BY <1>1, <1>2, <1>3, <1>4, <1>5, <1>6 DEF Found

\* The threads of the new task are pushed.
LEMMA LaunchPushKeeps ==
  ASSUME IInv, Kept, NEW c \in Cpu, LaunchPush(c)
  PROVE  Kept'
<1> SUFFICES ASSUME NEW x \in Schedulable, Needed(x)' PROVE Found(x)'
  BY DEF Kept
<1> USE ConstantsAssumption DEF ConstantsAssumption, IInv, Schedulable, taskVars, threadVars,
        intdVars, curVars, localVars, Goto, LaunchPush
<1>1. Needed(x) => Found(x)
  BY DEF Kept
<1>2. \A d \in Cpu \ {c} : Owns(d, x) => Owns(d, x)'
  BY DEF TypeOK, Owns
<1>3. InQueue(x) => Found(x)'
  BY DEF TypeOK, InQueue, Found, Needed
<1>4. x \in polling => Found(x)'
  BY DEF TypeOK, InQueue, Found
<1>5. Owns(c, x) => Found(x)'
  BY DEF TypeOK, InQueue, Found, Owns, Locals, Ready, Calling, Returns
<1>6. Needed(x)
  BY DEF TypeOK, Needed
<1> QED
  BY <1>1, <1>2, <1>3, <1>4, <1>5, <1>6 DEF Found

\* The new thread is in hand.
LEMMA ThreadAddKeeps ==
  ASSUME IInv, Kept, NEW c \in Cpu, ThreadAdd(c)
  PROVE  Kept'
<1> SUFFICES ASSUME NEW x \in Schedulable, Needed(x)' PROVE Found(x)'
  BY DEF Kept
<1> USE ConstantsAssumption DEF ConstantsAssumption, IInv, Schedulable, taskVars, threadVars,
        intdVars, curVars, localVars, Goto, ThreadAdd, Calls, NewThread
<1>1. Needed(x) => Found(x)
  BY DEF Kept
<1>2. \A d \in Cpu \ {c} : Owns(d, x) => Owns(d, x)'
  BY DEF TypeOK, Owns
<1>3. InQueue(x) => Found(x)'
  BY DEF TypeOK, InQueue, Found, Needed
<1>4. x \in polling => Found(x)'
  BY DEF TypeOK, InQueue, Found
<1>5. Owns(c, x) => Found(x)'
  BY DEF TypeOK, InQueue, Found, Owns, Locals, Ready, Calling, Returns
<1>6. Needed(x) \/ Owns(c, x)'
  BY DEF TypeOK, Needed, Owns
<1> QED
  BY <1>1, <1>2, <1>3, <1>4, <1>5, <1>6 DEF Found

\* The first thread is in hand.
LEMMA CreatorAddKeeps ==
  ASSUME IInv, Kept, NEW c \in Cpu, CreatorAdd(c)
  PROVE  Kept'
<1> SUFFICES ASSUME NEW x \in Schedulable, Needed(x)' PROVE Found(x)'
  BY DEF Kept
<1> USE ConstantsAssumption DEF ConstantsAssumption, IInv, Schedulable, taskVars, threadVars,
        intdVars, curVars, localVars, Goto, CreatorAdd, Release, NewThread
<1>1. Needed(x) => Found(x)
  BY DEF Kept
<1>2. \A d \in Cpu \ {c} : Owns(d, x) => Owns(d, x)'
  BY DEF TypeOK, Owns
<1>3. InQueue(x) => Found(x)'
  BY DEF TypeOK, InQueue, Found, Needed
<1>4. x \in polling => Found(x)'
  BY DEF TypeOK, InQueue, Found
<1>5. Owns(c, x) => Found(x)'
  BY SMTT(30) DEF TypeOK, InQueue, Found, Owns, Locals, Ready, Calling, Returns
<1>6. Needed(x) \/ Owns(c, x)'
  BY DEF TypeOK, Needed, Owns
<1> QED
  BY <1>1, <1>2, <1>3, <1>4, <1>5, <1>6 DEF Found

\* The new thread is in hand.
LEMMA HeldAddKeeps ==
  ASSUME IInv, Kept, NEW c \in Cpu, HeldAdd(c)
  PROVE  Kept'
<1> SUFFICES ASSUME NEW x \in Schedulable, Needed(x)' PROVE Found(x)'
  BY DEF Kept
<1> USE ConstantsAssumption DEF ConstantsAssumption, IInv, Schedulable, taskVars, threadVars,
        intdVars, curVars, localVars, Goto, HeldAdd, Release, NewThread
<1>1. Needed(x) => Found(x)
  BY DEF Kept
<1>2. \A d \in Cpu \ {c} : Owns(d, x) => Owns(d, x)'
  BY DEF TypeOK, Owns
<1>3. InQueue(x) => Found(x)'
  BY DEF TypeOK, InQueue, Found, Needed
<1>4. x \in polling => Found(x)'
  BY DEF TypeOK, InQueue, Found
<1>5. Owns(c, x) => Found(x)'
  BY DEF TypeOK, InQueue, Found, Owns, Locals, Ready, Calling, Returns
<1>6. Needed(x) \/ Owns(c, x)'
  BY DEF TypeOK, Needed, Owns
<1> QED
  BY <1>1, <1>2, <1>3, <1>4, <1>5, <1>6 DEF Found

\* Giving up creates nothing.
LEMMA CreatorGivesUpKeeps ==
  ASSUME IInv, Kept, NEW c \in Cpu, CreatorGivesUp(c)
  PROVE  Kept'
<1> SUFFICES ASSUME NEW x \in Schedulable, Needed(x)' PROVE Found(x)'
  BY DEF Kept
<1> USE ConstantsAssumption DEF ConstantsAssumption, IInv, Schedulable, taskVars, threadVars,
        intdVars, curVars, localVars, Goto, CreatorGivesUp, Release
<1>1. Needed(x) => Found(x)
  BY DEF Kept
<1>2. \A d \in Cpu \ {c} : Owns(d, x) => Owns(d, x)'
  BY DEF TypeOK, Owns
<1>3. InQueue(x) => Found(x)'
  BY DEF TypeOK, InQueue, Found, Needed
<1>4. x \in polling => Found(x)'
  BY DEF TypeOK, InQueue, Found
<1>5. Owns(c, x) => Found(x)'
  BY DEF TypeOK, InQueue, Found, Owns, Locals, Ready, Calling, Returns
<1>6. Needed(x)
  BY DEF TypeOK, Needed
<1> QED
  BY <1>1, <1>2, <1>3, <1>4, <1>5, <1>6 DEF Found

\* The thread polls.
LEMMA ThreadPollKeeps ==
  ASSUME IInv, Kept, NEW c \in Cpu, ThreadPoll(c)
  PROVE  Kept'
<1> SUFFICES ASSUME NEW x \in Schedulable, Needed(x)' PROVE Found(x)'
  BY DEF Kept
<1> USE ConstantsAssumption DEF ConstantsAssumption, IInv, Schedulable, taskVars, threadVars,
        intdVars, curVars, localVars, Goto, ThreadPoll, Calls
<1>1. Needed(x) => Found(x)
  BY DEF Kept
<1>2. \A d \in Cpu \ {c} : Owns(d, x) => Owns(d, x)'
  BY DEF TypeOK, Owns
<1>3. InQueue(x) => Found(x)'
  BY DEF TypeOK, InQueue, Found, Needed
<1>4. x \in polling => Found(x)'
  BY DEF TypeOK, InQueue, Found
<1>5. Owns(c, x) => Found(x)'
  BY DEF TypeOK, InQueue, Found, Owns, Locals, Ready, Calling, Returns
<1>6. Needed(x)
  BY DEF TypeOK, Needed
<1> QED
  BY <1>1, <1>2, <1>3, <1>4, <1>5, <1>6 DEF Found

\* A thread that has polled was given up before.
LEMMA PollBreakKeeps ==
  ASSUME IInv, Kept, NEW c \in Cpu, PollBreak(c)
  PROVE  Kept'
<1> SUFFICES ASSUME NEW x \in Schedulable, Needed(x)' PROVE Found(x)'
  BY DEF Kept
<1> USE ConstantsAssumption DEF ConstantsAssumption, IInv, Schedulable, taskVars, threadVars,
        intdVars, curVars, localVars, Goto, PollBreak, LeaveCurrent, SetCurrent
<1>1. Needed(x) => Found(x)
  BY DEF Kept
<1>2. \A d \in Cpu \ {c} : Owns(d, x) => Owns(d, x)'
  BY DEF TypeOK, Owns
<1>3. InQueue(x) => Found(x)'
  BY DEF TypeOK, InQueue, Found, Needed
<1>4. x \in polling => Found(x)'
  BY DEF TypeOK, InQueue, Found
<1>5. Owns(c, x) => Found(x)'
  BY DEF TypeOK, InQueue, Found, Owns, Locals, Ready, Calling, Returns
<1>6. Needed(x)
  BY DEF TypeOK, Needed
<1> QED
  BY <1>1, <1>2, <1>3, <1>4, <1>5, <1>6 DEF Found

\* An exiting thread still runs.
LEMMA ThreadExitKeeps ==
  ASSUME IInv, Kept, NEW c \in Cpu, ThreadExit(c)
  PROVE  Kept'
<1> SUFFICES ASSUME NEW x \in Schedulable, Needed(x)' PROVE Found(x)'
  BY DEF Kept
<1> USE ConstantsAssumption DEF ConstantsAssumption, IInv, Schedulable, taskVars, threadVars,
        intdVars, curVars, localVars, Goto, ThreadExit, Calls
<1>1. Needed(x) => Found(x)
  BY DEF Kept
<1>2. \A d \in Cpu \ {c} : Owns(d, x) => Owns(d, x)'
  <2>1. Owns(c, cpuThread[c]) /\ cpuThread[c] \in Schedulable
    BY DEF Owns, Locals, Ready, Returns
  <2>2. \A d \in Cpu \ {c} : ~Owns(d, cpuThread[c])
    BY <2>1 DEF Unique, OneOwner
  <2> QED
    BY <2>2 DEF Owns
<1>3. InQueue(x) => Found(x)'
  BY DEF TypeOK, InQueue, Found, Needed
<1>4. x \in polling => Found(x)'
  BY DEF TypeOK, InQueue, Found
<1>5. Owns(c, x) => Found(x)'
  BY DEF TypeOK, InQueue, Found, Owns, Locals, Ready, Calling, Returns
<1>6. Needed(x)
  BY DEF TypeOK, Needed
<1> QED
  BY <1>1, <1>2, <1>3, <1>4, <1>5, <1>6 DEF Found

\* A thread that is gone is not needed.
LEMMA FinalizeThreadExitKeeps ==
  ASSUME IInv, Kept, NEW c \in Cpu, FinalizeThreadExit(c)
  PROVE  Kept'
<1> SUFFICES ASSUME NEW x \in Schedulable, Needed(x)' PROVE Found(x)'
  BY DEF Kept
<1> USE ConstantsAssumption DEF ConstantsAssumption, IInv, Schedulable, taskVars, threadVars,
        intdVars, curVars, localVars, Goto, FinalizeThreadExit, LeaveCurrent, SetCurrent
<1>1. Needed(x) => Found(x)
  BY DEF Kept
<1>2. \A d \in Cpu \ {c} : Owns(d, x) => Owns(d, x)'
  BY DEF TypeOK, Owns
<1>3. InQueue(x) => Found(x)'
  BY DEF TypeOK, InQueue, Found, Needed
<1>4. x \in polling => Found(x)'
  BY DEF TypeOK, InQueue, Found
<1>5. Owns(c, x) => Found(x)'
  <2>1. x # cpuThread[c]
    BY DEF Needed, TypeOK
  <2> QED
    BY <2>1 DEF Found, Owns
<1>6. Needed(x)
  BY DEF TypeOK, Needed
<1> QED
  BY <1>1, <1>2, <1>3, <1>4, <1>5, <1>6 DEF Found

\* A lookup moves nothing.
LEMMA TaskForPidKeeps ==
  ASSUME IInv, Kept, NEW c \in Cpu, TaskForPid(c)
  PROVE  Kept'
<1> SUFFICES ASSUME NEW x \in Schedulable, Needed(x)' PROVE Found(x)'
  BY DEF Kept
<1> USE ConstantsAssumption DEF ConstantsAssumption, IInv, Schedulable, taskVars, threadVars,
        intdVars, curVars, localVars, Goto, TaskForPid, Calls, Reference
<1>1. Needed(x) => Found(x)
  BY DEF Kept
<1>2. \A d \in Cpu \ {c} : Owns(d, x) => Owns(d, x)'
  BY DEF TypeOK, Owns
<1>3. InQueue(x) => Found(x)'
  BY DEF TypeOK, InQueue, Found, Needed
<1>4. x \in polling => Found(x)'
  BY DEF TypeOK, InQueue, Found
<1>5. Owns(c, x) => Found(x)'
  BY DEF TypeOK, InQueue, Found, Owns, Locals, Ready, Calling, Returns
<1>6. Needed(x)
  BY DEF TypeOK, Needed
<1> QED
  BY <1>1, <1>2, <1>3, <1>4, <1>5, <1>6 DEF Found

\* The threads of a killed task are not needed any more.
LEMMA TaskKillKeeps ==
  ASSUME IInv, Kept, NEW c \in Cpu, TaskKill(c)
  PROVE  Kept'
<1> SUFFICES ASSUME NEW x \in Schedulable, Needed(x)' PROVE Found(x)'
  BY DEF Kept
<1> USE ConstantsAssumption DEF ConstantsAssumption, IInv, Schedulable, taskVars, threadVars,
        intdVars, curVars, localVars, Goto, TaskKill, Release
<1>1. Needed(x) => Found(x)
  BY DEF Kept
<1>2. \A d \in Cpu \ {c} : Owns(d, x) => Owns(d, x)'
  BY DEF TypeOK, Owns
<1>3. InQueue(x) => Found(x)'
  BY DEF TypeOK, InQueue, Found, Needed
<1>4. x \in polling => Found(x)'
  BY DEF TypeOK, InQueue, Found
<1>5. Owns(c, x) => Found(x)'
  BY DEF TypeOK, InQueue, Found, Owns, Locals, Ready, Calling, Returns
<1>6. Needed(x)
  BY DEF TypeOK, Needed
<1> QED
  BY <1>1, <1>2, <1>3, <1>4, <1>5, <1>6 DEF Found

\* A release moves nothing.
LEMMA HeldReleaseKeeps ==
  ASSUME IInv, Kept, NEW c \in Cpu, HeldRelease(c)
  PROVE  Kept'
<1> SUFFICES ASSUME NEW x \in Schedulable, Needed(x)' PROVE Found(x)'
  BY DEF Kept
<1> USE ConstantsAssumption DEF ConstantsAssumption, IInv, Schedulable, taskVars, threadVars,
        intdVars, curVars, localVars, Goto, HeldRelease, Release
<1>1. Needed(x) => Found(x)
  BY DEF Kept
<1>2. \A d \in Cpu \ {c} : Owns(d, x) => Owns(d, x)'
  BY DEF TypeOK, Owns
<1>3. InQueue(x) => Found(x)'
  BY DEF TypeOK, InQueue, Found, Needed
<1>4. x \in polling => Found(x)'
  BY DEF TypeOK, InQueue, Found
<1>5. Owns(c, x) => Found(x)'
  BY DEF TypeOK, InQueue, Found, Owns, Locals, Ready, Calling, Returns
<1>6. Needed(x)
  BY DEF TypeOK, Needed
<1> QED
  BY <1>1, <1>2, <1>3, <1>4, <1>5, <1>6 DEF Found

\* A thread that is woken is in the hand of the CPU.
LEMMA WakeupEndpointKeeps ==
  ASSUME IInv, Kept, NEW c \in Cpu, WakeupEndpoint(c)
  PROVE  Kept'
<1> SUFFICES ASSUME NEW x \in Schedulable, Needed(x)' PROVE Found(x)'
  BY DEF Kept
<1> USE ConstantsAssumption DEF ConstantsAssumption, IInv, Schedulable, taskVars, threadVars,
        intdVars, curVars, localVars, Goto, WakeupEndpoint, PushCurrent, SetCurrent
<1>1. Needed(x) => Found(x)
  BY DEF Kept
<1>2. \A d \in Cpu \ {c} : Owns(d, x) => Owns(d, x)'
  BY DEF TypeOK, Owns
<1>3. InQueue(x) => Found(x)'
  BY DEF TypeOK, InQueue, Found, Needed
<1>4. x \in polling => Found(x)'
  <2>1. PICK y \in polling : polling' = polling \ {y} /\ nx' = [nx EXCEPT ![c] = y]
    OBVIOUS
  <2>2. Owns(c, y)'
    BY <2>1 DEF Owns, TypeOK
  <2> QED
    BY <2>1, <2>2 DEF Found
<1>5. Owns(c, x) => Found(x)'
  BY SMTT(30) DEF TypeOK, InQueue, Found, Owns, Locals, Ready, Calling, Returns
<1>6. Needed(x)
  BY DEF TypeOK, Needed
<1> QED
  BY <1>1, <1>2, <1>3, <1>4, <1>5, <1>6 DEF Found

\* The threads of a task that exits are not needed any more.
LEMMA TaskExitKeeps ==
  ASSUME IInv, Kept, NEW c \in Cpu, TaskExit(c)
  PROVE  Kept'
<1> SUFFICES ASSUME NEW x \in Schedulable, Needed(x)' PROVE Found(x)'
  BY DEF Kept
<1> USE ConstantsAssumption DEF ConstantsAssumption, IInv, Schedulable, taskVars, threadVars,
        intdVars, curVars, localVars, Goto, TaskExit, Calls, LeaveCurrent, SetCurrent
<1>1. Needed(x) => Found(x)
  BY DEF Kept
<1>2. \A d \in Cpu \ {c} : Owns(d, x) => Owns(d, x)'
  BY DEF TypeOK, Owns
<1>3. InQueue(x) => Found(x)'
  BY DEF TypeOK, InQueue, Found, Needed
<1>4. x \in polling => Found(x)'
  BY DEF TypeOK, InQueue, Found
<1>5. Owns(c, x) => Found(x)'
  <2>1. x # cpuThread[c]
    <3>1. cpuThread[c] \in Thread /\ thTask[cpuThread[c]] = cpuTask[c] /\ cpuTask[c] \in Task
      BY DEF TypeOK, Locals, Ready, Returns, Referenced
    <3> QED
      BY <3>1 DEF Needed, TypeOK
  <2> QED
    BY <2>1 DEF Found, Owns
<1>6. Needed(x)
  BY DEF TypeOK, Needed
<1> QED
  BY <1>1, <1>2, <1>3, <1>4, <1>5, <1>6 DEF Found

\* The kill job goes on.
LEMMA JobUnsetPidKeeps ==
  ASSUME IInv, Kept, NEW c \in Cpu, JobUnsetPid(c)
  PROVE  Kept'
<1> SUFFICES ASSUME NEW x \in Schedulable, Needed(x)' PROVE Found(x)'
  BY DEF Kept
<1> USE ConstantsAssumption DEF ConstantsAssumption, IInv, Schedulable, taskVars, threadVars,
        intdVars, curVars, localVars, Goto, JobUnsetPid, RunsJob
<1>1. Needed(x) => Found(x)
  BY DEF Kept
<1>2. \A d \in Cpu \ {c} : Owns(d, x) => Owns(d, x)'
  BY DEF TypeOK, Owns
<1>3. InQueue(x) => Found(x)'
  BY DEF TypeOK, InQueue, Found, Needed
<1>4. x \in polling => Found(x)'
  BY DEF TypeOK, InQueue, Found
<1>5. Owns(c, x) => Found(x)'
  BY DEF TypeOK, InQueue, Found, Owns, Locals, Ready, Calling, Returns
<1>6. Needed(x)
  BY DEF TypeOK, Needed
<1> QED
  BY <1>1, <1>2, <1>3, <1>4, <1>5, <1>6 DEF Found

\* A thread that is freed is not needed.
LEMMA JobFreeThreadKeeps ==
  ASSUME IInv, Kept, NEW c \in Cpu, JobFreeThread(c)
  PROVE  Kept'
<1> SUFFICES ASSUME NEW x \in Schedulable, Needed(x)' PROVE Found(x)'
  BY DEF Kept
<1> USE ConstantsAssumption DEF ConstantsAssumption, IInv, Schedulable, taskVars, threadVars,
        intdVars, curVars, localVars, Goto, JobFreeThread, RunsJob
<1>a. PICK y \in Thread :
        /\ thTask' = [thTask EXCEPT ![y] = NULL] /\ polling' = polling \ {y}
        /\ intd' = IF intd = y THEN NULL ELSE intd
  BY DEF threads
<1>b. x # y
  BY <1>a DEF Needed, TypeOK
<1>1. Needed(x) => Found(x)
  BY DEF Kept
<1>2. \A d \in Cpu \ {c} : Owns(d, x) => Owns(d, x)'
  BY <1>a, <1>b DEF Owns
<1>3. InQueue(x) => Found(x)'
  BY DEF TypeOK, InQueue, Found, Needed
<1>4. x \in polling => Found(x)'
  BY <1>a, <1>b DEF Found
<1>5. Owns(c, x) => Found(x)'
  BY DEF TypeOK, InQueue, Found, Owns, Locals, Ready, Calling, Returns
<1>6. Needed(x)
  BY DEF TypeOK, Needed
<1> QED
  BY <1>1, <1>2, <1>3, <1>4, <1>5, <1>6 DEF Found

\* A kill job that is done is not needed.
LEMMA JobFreeTaskKeeps ==
  ASSUME IInv, Kept, NEW c \in Cpu, JobFreeTask(c)
  PROVE  Kept'
<1> SUFFICES ASSUME NEW x \in Schedulable, Needed(x)' PROVE Found(x)'
  BY DEF Kept
<1> USE ConstantsAssumption DEF ConstantsAssumption, IInv, Schedulable, taskVars, threadVars,
        intdVars, curVars, localVars, Goto, JobFreeTask, RunsJob, SetCurrent
<1>1. Needed(x) => Found(x)
  BY DEF Kept
<1>2. \A d \in Cpu \ {c} : Owns(d, x) => Owns(d, x)'
  BY DEF TypeOK, Owns
<1>3. InQueue(x) => Found(x)'
  BY DEF TypeOK, InQueue, Found, Needed
<1>4. x \in polling => Found(x)'
  BY DEF TypeOK, InQueue, Found
<1>5. Owns(c, x) => Found(x)'
  <2>1. x # cpuThread[c]
    BY DEF Needed, TypeOK, Locals, Ready, Returns
  <2> QED
    BY <2>1 DEF Found, Owns
<1>6. Needed(x)
  BY DEF TypeOK, Needed
<1> QED
  BY <1>1, <1>2, <1>3, <1>4, <1>5, <1>6 DEF Found

\* A registration moves nothing.
LEMMA IntdSetKeeps ==
  ASSUME IInv, Kept, NEW c \in Cpu, IntdSet(c), ~ReplaceIntd
  PROVE  Kept'
<1> SUFFICES ASSUME NEW x \in Schedulable, Needed(x)' PROVE Found(x)'
  BY DEF Kept
<1> USE ConstantsAssumption DEF ConstantsAssumption, IInv, Schedulable, taskVars, threadVars,
        intdVars, curVars, localVars, Goto, IntdSet, Calls
<1>1. Needed(x) => Found(x)
  BY DEF Kept
<1>2. \A d \in Cpu \ {c} : Owns(d, x) => Owns(d, x)'
  BY DEF TypeOK, Owns
<1>3. InQueue(x) => Found(x)'
  BY DEF TypeOK, InQueue, Found, Needed
<1>4. x \in polling => Found(x)'
  BY DEF TypeOK, InQueue, Found
<1>5. Owns(c, x) => Found(x)'
  BY DEF TypeOK, InQueue, Found, Owns, Locals, Ready, Calling, Returns
<1>6. Needed(x)
  BY DEF TypeOK, Needed
<1> QED
  BY <1>1, <1>2, <1>3, <1>4, <1>5, <1>6 DEF Found

\* Reading the mask moves nothing.
LEMMA IntdReadKeeps ==
  ASSUME IInv, Kept, NEW c \in Cpu, IntdRead(c)
  PROVE  Kept'
<1> SUFFICES ASSUME NEW x \in Schedulable, Needed(x)' PROVE Found(x)'
  BY DEF Kept
<1> USE ConstantsAssumption DEF ConstantsAssumption, IInv, Schedulable, taskVars, threadVars,
        intdVars, curVars, localVars, Goto, IntdRead, Calls
<1>1. Needed(x) => Found(x)
  BY DEF Kept
<1>2. \A d \in Cpu \ {c} : Owns(d, x) => Owns(d, x)'
  BY DEF TypeOK, Owns
<1>3. InQueue(x) => Found(x)'
  BY DEF TypeOK, InQueue, Found, Needed
<1>4. x \in polling => Found(x)'
  BY DEF TypeOK, InQueue, Found
<1>5. Owns(c, x) => Found(x)'
  BY DEF TypeOK, InQueue, Found, Owns, Locals, Ready, Calling, Returns
<1>6. Needed(x)
  BY DEF TypeOK, Needed
<1> QED
  BY <1>1, <1>2, <1>3, <1>4, <1>5, <1>6 DEF Found

\* The daemon that is woken is in the hand of the CPU.
LEMMA DeliverIrqKeeps ==
  ASSUME IInv, Kept, NEW c \in Cpu, DeliverIrq(c)
  PROVE  Kept'
<1> SUFFICES ASSUME NEW x \in Schedulable, Needed(x)' PROVE Found(x)'
  BY DEF Kept
<1> USE ConstantsAssumption DEF ConstantsAssumption, IInv, Schedulable, taskVars, threadVars,
        intdVars, curVars, localVars, Goto, DeliverIrq, Reference
<1>a. /\ intd \in polling => pc' = [pc EXCEPT ![c] = "irq"]
      /\ intd \notin polling => pc' = [pc EXCEPT ![c] = "deref"]
      /\ polling' = polling \ {intd} /\ pc[c] # "irq"
  BY DEF Interruptible
<1>1. Needed(x) => Found(x)
  BY DEF Kept
<1>2. \A d \in Cpu \ {c} : Owns(d, x) => Owns(d, x)'
  BY DEF TypeOK, Owns
<1>3. InQueue(x) => Found(x)'
  BY DEF TypeOK, InQueue, Found, Needed
<1>4. x \in polling => Found(x)'
  <2>1. intd \in polling => Owns(c, intd)'
    BY <1>a DEF Owns, TypeOK
  <2> QED
    BY <1>a, <2>1 DEF Found
<1>5. Owns(c, x) => Found(x)'
  BY <1>a DEF TypeOK, Found, Owns
<1>6. Needed(x)
  BY DEF TypeOK, Needed
<1> QED
  BY <1>1, <1>2, <1>3, <1>4, <1>5, <1>6 DEF Found

\* The daemon and the interrupted thread stay in hand.
LEMMA IrqSwitchKeeps ==
  ASSUME IInv, Kept, NEW c \in Cpu, IrqSwitch(c)
  PROVE  Kept'
<1> SUFFICES ASSUME NEW x \in Schedulable, Needed(x)' PROVE Found(x)'
  BY DEF Kept
<1> USE ConstantsAssumption DEF ConstantsAssumption, IInv, Schedulable, taskVars, threadVars,
        intdVars, curVars, localVars, Goto, IrqSwitch, PushCurrent, SetCurrent
<1>1. Needed(x) => Found(x)
  BY DEF Kept
<1>2. \A d \in Cpu \ {c} : Owns(d, x) => Owns(d, x)'
  BY DEF TypeOK, Owns
<1>3. InQueue(x) => Found(x)'
  BY DEF TypeOK, InQueue, Found, Needed
<1>4. x \in polling => Found(x)'
  BY DEF TypeOK, InQueue, Found
<1>5. Owns(c, x) => Found(x)'
  BY DEF TypeOK, InQueue, Found, Owns, Locals, Ready, Calling, Returns
<1>6. Needed(x)
  BY DEF TypeOK, Needed
<1> QED
  BY <1>1, <1>2, <1>3, <1>4, <1>5, <1>6 DEF Found

-----------------------------------------------------------------------------
(* Nothing is lost.                                                        *)

\* Nothing is needed at the start.
LEMMA InitKept == Init => Kept
BY ConstantsAssumption DEF ConstantsAssumption, Init, Kept, Needed, Schedulable

\* Every step of every CPU keeps what is needed.
LEMMA NextKept ==
  ASSUME ~EarlyThreads, ~ReplaceIntd, IInv, Kept, Next
  PROVE  Kept'
<1> PICK c \in Cpu :
      \/ KernelStep(c) \/ JobStep(c) \/ SystemCall(c)
      \/ Resign(c) \/ EnterLoop(c) \/ FinalizeThreadExit(c) \/ DeliverIrq(c)
  BY DEF Next
<1>1. CASE KernelStep(c)
  BY <1>1, LoopPushCheckKeeps, LoopPushKeeps, TaskDereferenceKeeps, LoopDeleteKeeps,
     PushKillJobKeeps,
     RunNextKeeps, RunIdleKeeps, SwitchToThreadKeeps, TaskLaunchKeeps, LaunchWalkKeeps,
     LaunchPushKeeps, CreatorAddKeeps, CreatorGivesUpKeeps, PollBreakKeeps, TaskKillKeeps,
     HeldReleaseKeeps, HeldAddKeeps, WakeupEndpointKeeps, IrqSwitchKeeps
     DEF KernelStep
<1>2. CASE JobStep(c)
  BY <1>2, JobUnsetPidKeeps, JobFreeThreadKeeps, JobFreeTaskKeeps DEF JobStep
<1>3. CASE SystemCall(c)
  BY <1>3, TaskCreateKeeps, ThreadAddKeeps, ThreadPollKeeps, ThreadExitKeeps, TaskForPidKeeps,
     TaskExitKeeps, IntdSetKeeps, IntdReadKeeps
     DEF SystemCall
<1> QED
  BY <1>1, <1>2, <1>3, ResignKeeps, EnterLoopKeeps, FinalizeThreadExitKeeps, DeliverIrqKeeps

\* So does a step in which nothing changes.
LEMMA StutterKept == Kept /\ UNCHANGED vars => Kept'
BY DEF Kept, Needed, Found, InQueue, Owns, vars, taskVars, threadVars, intdVars, curVars, localVars

\* No thread of a live task and no kill job is ever lost, for any number of tasks,
\* threads and CPUs: what loop.c drops from the queue, what thread.c and
\* interrupts.c take out of the poll state, is always in somebody's hand.
THEOREM NothingLost ==
  ASSUME ~EarlyThreads, ~ReplaceIntd
  PROVE  Spec => []Kept
<1>1. IInv /\ Kept /\ [Next]_vars => Kept'
  BY NextKept, StutterKept
<1> QED
  BY <1>1, InitKept, Invariance, PTL DEF Spec

-----------------------------------------------------------------------------
(* One place for everything.                                               *)

\* A set in which all elements are equal has at most one.
LEMMA AtMostOne ==
  ASSUME NEW S, IsFiniteSet(S), \A a, b \in S : a = b
  PROVE  /\ Cardinality(S) = 0 <=> S = {}
         /\ Cardinality(S) \in {0, 1}
<1>1. CASE S = {}
  BY <1>1, FS_EmptySet
<1>2. CASE S # {}
  <2>1. PICK a : S = {a}
    BY <1>2
  <2> QED
    BY <1>2, <2>1, FS_Singleton
<1> QED
  BY <1>1, <1>2

\* The entries of the run loop that are x
Entries(x) == {i \in DOMAIN queue : queue[i] = x}

\* The run loop has x once or not at all.
LEMMA QueuedOnce ==
  ASSUME IInv, NEW x
  PROVE  Queued(x) \in {0, 1} /\ (Queued(x) = 0 <=> ~InQueue(x))
<1> DEFINE S == Entries(x)
<1>1. IsFiniteSet(S)
  <2>1. DOMAIN queue = 1 .. Len(queue) /\ Len(queue) \in Nat
    BY DEF IInv, TypeOK
  <2>2. IsFiniteSet(1 .. Len(queue))
    BY <2>1, FS_Interval
  <2> QED
    BY <2>1, <2>2, FS_Subset DEF Entries
<1>2. \A i, j \in S : i = j
  BY DEF IInv, Unique, QueueOnce, Entries
<1>3. S = {} <=> ~InQueue(x)
  BY DEF InQueue, Entries
<1>4. Queued(x) = Cardinality(S)
  BY DEF Queued, Entries
<1> HIDE DEF S
<1> QED
  BY <1>1, <1>2, <1>3, <1>4, AtMostOne

\* The CPUs that have x as the thread in hand, as the one to switch to, as the
\* current one, or as the daemon they are about to switch to
InHand(x) == {c \in Cpu : th[c] = x}
Switching(x) == {c \in Cpu : nx[c] = x}
Current(x) == {c \in Cpu : cpuThread[c] = x /\ pc[c] # "polled"}
Waking(x) == {c \in Cpu : pc[c] = "irq" /\ intd = x}

\* On one CPU x has one of these roles only.
LEMMA RolesDisjoint ==
  ASSUME IInv, NEW c \in Cpu, NEW x \in Schedulable
  PROVE  /\ th[c] = x => nx[c] # x /\ cpuThread[c] # x /\ pc[c] # "irq"
         /\ nx[c] = x => cpuThread[c] # x /\ pc[c] # "irq"
         /\ pc[c] = "irq" /\ intd = x => cpuThread[c] # x
<1> USE ConstantsAssumption DEF ConstantsAssumption, Schedulable
<1>1. Locals(c) /\ x # NULL
  BY DEF IInv
<1>2. th[c] = x => nx[c] # x /\ cpuThread[c] # x /\ pc[c] # "irq"
  BY <1>1 DEF IInv, Unique, OneRole, Locals
<1>3. nx[c] = x => cpuThread[c] # x /\ pc[c] # "irq"
  <2>1. nx[c] # NULL => cpuThread[c] = NULL
    BY <1>1 DEF IInv, TypeOK, Locals, Ready, Points, Interruptible, Returns, Calling
  <2> QED
    BY <1>1, <2>1 DEF Locals
<1>4. pc[c] = "irq" /\ intd = x => cpuThread[c] # x
  BY DEF IInv, Unique, OneRole
<1> QED
  BY <1>2, <1>3, <1>4

\* What is in the hand of a CPU is there in one role, on one CPU.
LEMMA OwnedOnce ==
  ASSUME IInv, NEW x \in Schedulable
  PROVE  LET a == Cardinality(InHand(x))
             b == Cardinality(Switching(x))
             d == Cardinality(Current(x))
             e == Cardinality(Waking(x)) IN
           /\ a \in {0, 1} /\ b \in {0, 1} /\ d \in {0, 1} /\ e \in {0, 1}
           /\ a + b + d + e \in {0, 1}
           /\ a + b + d + e = 1 <=> \E c \in Cpu : Owns(c, x)
<1> DEFINE A == InHand(x)
           B == Switching(x)
           D == Current(x)
           E == Waking(x)
<1>1. \A c \in Cpu : Owns(c, x) <=> c \in A \/ c \in B \/ c \in D \/ c \in E
  BY DEF Owns, InHand, Switching, Current, Waking
<1>2. A \subseteq Cpu /\ B \subseteq Cpu /\ D \subseteq Cpu /\ E \subseteq Cpu
  BY DEF InHand, Switching, Current, Waking
<1>3. \A c, d \in Cpu : Owns(c, x) /\ Owns(d, x) => c = d
  BY DEF IInv, Unique, OneOwner
<1>4. \A c \in Cpu : /\ c \in A => c \notin B /\ c \notin D /\ c \notin E
                     /\ c \in B => c \notin D /\ c \notin E
                     /\ c \in E => c \notin D
  BY RolesDisjoint DEF InHand, Switching, Current, Waking
<1>5. IsFiniteSet(A) /\ IsFiniteSet(B) /\ IsFiniteSet(D) /\ IsFiniteSet(E)
  BY <1>2, ConstantsAssumption, FS_Subset DEF ConstantsAssumption
<1> HIDE DEF A, B, D, E
<1>6. /\ Cardinality(A) \in {0, 1} /\ (Cardinality(A) = 0 <=> A = {})
      /\ Cardinality(B) \in {0, 1} /\ (Cardinality(B) = 0 <=> B = {})
      /\ Cardinality(D) \in {0, 1} /\ (Cardinality(D) = 0 <=> D = {})
      /\ Cardinality(E) \in {0, 1} /\ (Cardinality(E) = 0 <=> E = {})
  <2>1. /\ \A p, q \in A : p = q
        /\ \A p, q \in B : p = q
        /\ \A p, q \in D : p = q
        /\ \A p, q \in E : p = q
    BY <1>1, <1>2, <1>3
  <2> QED
    BY <1>5, <2>1, AtMostOne
<1>7. /\ A # {} => B = {} /\ D = {} /\ E = {}
      /\ B # {} => D = {} /\ E = {}
      /\ E # {} => D = {}
  BY <1>1, <1>2, <1>3, <1>4
<1>8. (A # {} \/ B # {} \/ D # {} \/ E # {}) <=> \E c \in Cpu : Owns(c, x)
  BY <1>1, <1>2
<1>9. LET a == Cardinality(A)
          b == Cardinality(B)
          d == Cardinality(D)
          e == Cardinality(E) IN
        /\ a \in {0, 1} /\ b \in {0, 1} /\ d \in {0, 1} /\ e \in {0, 1}
        /\ a + b + d + e \in {0, 1}
        /\ a + b + d + e = 1 <=> A # {} \/ B # {} \/ D # {} \/ E # {}
  BY <1>6, <1>7
<1> QED
  BY <1>8, <1>9 DEF A, B, D, E

\* A needed thread is in exactly one place, and no thread is in two.
LEMMA ThreadsPlaced ==
  ASSUME IInv, Kept
  PROVE  OnePlace
<1> SUFFICES ASSUME NEW x \in Thread, thTask[x] # NULL
             PROVE  Places(x) <= 1 /\ (~isKilled[thTask[x]] => Places(x) = 1)
  BY DEF OnePlace
<1>0. x \in Schedulable
  BY DEF Schedulable
<1> DEFINE a == Cardinality(InHand(x))
           b == Cardinality(Switching(x))
           d == Cardinality(Current(x))
           e == Cardinality(Waking(x))
           p == IF x \in polling THEN 1 ELSE 0
           q == Queued(x)
<1>1. Places(x) = q + a + b + d + e + p
  BY DEF Places, Slots, InHand, Switching, Current, Waking
<1>2. q \in {0, 1} /\ (q = 0 <=> ~InQueue(x))
  BY QueuedOnce
<1>3. /\ a \in {0, 1} /\ b \in {0, 1} /\ d \in {0, 1} /\ e \in {0, 1}
      /\ a + b + d + e \in {0, 1}
      /\ a + b + d + e = 1 <=> \E c \in Cpu : Owns(c, x)
  BY <1>0, OwnedOnce
<1>4. p \in {0, 1} /\ (p = 0 <=> x \notin polling)
  OBVIOUS
<1> HIDE DEF a, b, d, e, p, q
<1>5. InQueue(x) => x \notin polling /\ \A c \in Cpu : ~Owns(c, x)
  BY DEF InQueue, IInv, Unique, QueueFree
<1>6. x \in polling => \A c \in Cpu : ~Owns(c, x)
  BY DEF IInv, Unique, PollFree
<1>7. ~isKilled[thTask[x]] => InQueue(x) \/ x \in polling \/ \E c \in Cpu : Owns(c, x)
  BY <1>0 DEF Kept, Needed, Found
<1>8. q + (a + b + d + e) + p = q + a + b + d + e + p
  BY <1>2, <1>3, <1>4
<1>9. q + (a + b + d + e) + p <= 1
  BY <1>2, <1>3, <1>4, <1>5, <1>6
<1>10. ~isKilled[thTask[x]] => q + (a + b + d + e) + p = 1
  BY <1>2, <1>3, <1>4, <1>5, <1>6, <1>7
<1> QED
  BY <1>1, <1>8, <1>9, <1>10

\* A thread is never run, queued or woken twice, and a thread of a task that has
\* not been killed is never lost, whichever CPUs push it, run it, poll, wake it
\* or deliver interrupts to it (loop.c, thread.c, interrupts.c).
THEOREM ThreadsInOnePlace ==
  ASSUME ~EarlyThreads, ~ReplaceIntd
  PROVE  Spec => []OnePlace
<1>1. IInv /\ Kept => OnePlace
  BY ThreadsPlaced
<1> QED
  BY <1>1, Invariance, NothingLost, PTL

\* What the two invariants say of a task that is being reaped
LEMMA ReapedOnce ==
  ASSUME IInv, Kept
  PROVE  ReapedAlone
<1> USE ConstantsAssumption DEF ConstantsAssumption
<1> SUFFICES ASSUME NEW t \in tasks, job[t] # "none"
             PROVE  /\ isKilled[t] /\ refCount[t] = 0
                    /\ Queued(t) + Slots(cpuThread, t) + Slots(th, t) = 1
                    /\ \A x \in threads(t) :
                         /\ x \notin {th[c] : c \in Cpu} \cup {nx[c] : c \in Cpu}
                         /\ \A c \in Cpu : cpuThread[c] = x => pc[c] = "polled"
                         /\ Queued(x) > 0 => \E c \in Cpu : th[c] = t /\ x \in todo[c]
  BY DEF ReapedAlone
<1>0. t \in Task /\ t \in Schedulable /\ t \notin Thread /\ t # NULL
  BY DEF IInv, TypeOK, Schedulable
<1>1. isKilled[t] /\ refCount[t] = 0
  BY <1>0 DEF IInv, Jobs, JobDead
<1>2. Queued(t) + Slots(cpuThread, t) + Slots(th, t) = 1
  <2> DEFINE a == Cardinality(InHand(t))
             b == Cardinality(Switching(t))
             d == Cardinality(Current(t))
             e == Cardinality(Waking(t))
             q == Queued(t)
  <2>1. Current(t) = {c \in Cpu : cpuThread[c] = t}
    BY <1>0 DEF Current, IInv, Locals
  <2>2. Switching(t) = {} /\ Waking(t) = {} /\ t \notin polling
    BY <1>0 DEF Switching, Waking, IInv, TypeOK
  <2>3. Slots(cpuThread, t) = d /\ Slots(th, t) = a
    BY <2>1 DEF Slots, InHand
  <2>4. b = 0 /\ e = 0
    BY <2>2, FS_EmptySet
  <2>5. q \in {0, 1} /\ (q = 0 <=> ~InQueue(t))
    BY QueuedOnce
  <2>6. /\ a \in {0, 1} /\ b \in {0, 1} /\ d \in {0, 1} /\ e \in {0, 1}
        /\ a + b + d + e \in {0, 1}
        /\ a + b + d + e = 1 <=> \E c \in Cpu : Owns(c, t)
    BY <1>0, OwnedOnce
  <2>7. InQueue(t) => \A c \in Cpu : ~Owns(c, t)
    BY DEF InQueue, IInv, Unique, QueueFree
  <2>8. InQueue(t) \/ \E c \in Cpu : Owns(c, t)
    BY <1>0, <2>2 DEF Kept, Needed, Found
  <2> HIDE DEF a, b, d, e, q
  <2>9. q + d + a = 1
    BY <2>4, <2>5, <2>6, <2>7, <2>8
  <2> QED
    BY <2>3, <2>9 DEF q
<1>3. ASSUME NEW x \in threads(t)
      PROVE  /\ x \notin {th[c] : c \in Cpu} \cup {nx[c] : c \in Cpu}
             /\ \A c \in Cpu : cpuThread[c] = x => pc[c] = "polled"
             /\ Queued(x) > 0 => \E c \in Cpu : th[c] = t /\ x \in todo[c]
  <2>1. x \in Thread /\ thTask[x] = t
    BY DEF threads
  <2>2. \A c \in Cpu : ~Owns(c, x)
    BY <2>1, ReapedNotOwned
  <2>3. Queued(x) > 0 => InQueue(x)
    BY QueuedOnce
  <2>4. InQueue(x) => \E c \in Cpu : th[c] = t /\ x \in todo[c]
    BY <2>1 DEF InQueue, IInv, Jobs, JobLast
  <2> QED
    BY <2>2, <2>3, <2>4 DEF Owns
<1> QED
  BY <1>1, <1>2, <1>3

\* The comment in _generate_kill_job is true: a task that is being reaped has
\* exactly one kill job, and nothing runs its threads or will.
THEOREM ReapedTasksAlone ==
  ASSUME ~EarlyThreads, ~ReplaceIntd
  PROVE  Spec => []ReapedAlone
<1>1. IInv /\ Kept => ReapedAlone
  BY ReapedOnce
<1> QED
  BY <1>1, Invariance, NothingLost, PTL

-----------------------------------------------------------------------------
(* Tasks are reference counted objects.                                    *)

\* The references in use are those that refCount counts.
Counted == \A t \in Task : HeldRefs(t) = IF t \in tasks THEN refCount[t] ELSE 0

\* refCount counts them for a task that is allocated; nobody has a reference to
\* one that is not.
LEMMA RefsCounted == IInv => Counted
<1> SUFFICES ASSUME IInv, NEW t \in Task
             PROVE  HeldRefs(t) = IF t \in tasks THEN refCount[t] ELSE 0
  BY DEF Counted
<1>1. CASE t \in tasks
  BY <1>1 DEF IInv, RefCountExact
<1>2. CASE t \notin tasks
  <2>1. \A c \in Cpu : cpuTask[c] # t /\ hold[c] # t /\ drop[c] # t
    BY <1>2, ConstantsAssumption DEF ConstantsAssumption, IInv, Allocated
  <2>2. Slots(cpuTask, t) = 0 /\ Slots(hold, t) = 0 /\ Slots(drop, t) = 0
    BY <2>1, SlotsType
  <2> QED
    BY <1>2, <2>2 DEF HeldRefs
<1> QED
  BY <1>1, <1>2

\* The same after a step.
LEMMA RefsCountedNext == IInv' => Counted'
BY RefsCounted, PTL

\* At the start all tasks are free.
LEMMA RefInit == Init => RefSpec!Init
<1> SUFFICES ASSUME Init PROVE RefSpec!Init
  OBVIOUS
<1>1. \A t \in Task : HeldRefs(t) = 0
  BY InitIInv, RefsCounted DEF Counted, Init
<1> QED
  BY <1>1 DEF RefSpec!Init, Init

\* A step that does not touch the tasks is none of the abstract objects.
LEMMA RefStutter ==
  ASSUME IInv, IInv', UNCHANGED <<tasks, isKilled, refCount>>
  PROVE  UNCHANGED RefSpec!vars
<1>1. \A t \in Task : HeldRefs(t)' = HeldRefs(t)
  BY RefsCounted, RefsCountedNext DEF Counted
<1> QED
  BY <1>1 DEF RefSpec!vars

\* anscheduler_task_reference takes a reference to a live object.
LEMMA RefAcquire ==
  ASSUME IInv, IInv', NEW t \in tasks, Reference(t), UNCHANGED <<tasks, isKilled>>
  PROVE  RefSpec!Next
<1>1. t \in Task /\ refCount[t] \in Nat
  BY DEF IInv, TypeOK
<1>2. \A u \in Task : HeldRefs(u)' = IF u = t THEN HeldRefs(u) + 1 ELSE HeldRefs(u)
  BY <1>1, RefsCounted, RefsCountedNext DEF Counted, Reference, IInv, TypeOK
<1>3. RefSpec!Acquire(t)
  BY <1>1, <1>2 DEF RefSpec!Acquire, Reference
<1> QED
  BY <1>1, <1>3 DEF RefSpec!Next

\* anscheduler_task_dereference gives one back.
LEMMA RefRelease ==
  ASSUME IInv, IInv', NEW t \in tasks, refCount[t] > 0,
         refCount' = [refCount EXCEPT ![t] = @ - 1], UNCHANGED <<tasks, isKilled>>
  PROVE  RefSpec!Next
<1>1. t \in Task /\ refCount[t] \in Nat
  BY DEF IInv, TypeOK
<1>2. \A u \in Task : HeldRefs(u)' = IF u = t THEN HeldRefs(u) - 1 ELSE HeldRefs(u)
  BY <1>1, RefsCounted, RefsCountedNext DEF Counted, IInv, TypeOK
<1>3. HeldRefs(t) > 0
  BY <1>1, RefsCounted DEF Counted
<1>4. RefSpec!Release(t)
  BY <1>1, <1>2, <1>3 DEF RefSpec!Release
<1> QED
  BY <1>1, <1>4 DEF RefSpec!Next

\* anscheduler_task_kill and anscheduler_task_exit kill a task they hold a
\* reference to; a second kill does nothing.
LEMMA RefKill ==
  ASSUME IInv, IInv', NEW t \in tasks, refCount[t] > 0,
         isKilled' = [isKilled EXCEPT ![t] = TRUE], UNCHANGED <<tasks, refCount>>
  PROVE  [RefSpec!Next]_(RefSpec!vars)
<1>1. t \in Task /\ refCount[t] \in Nat
  BY DEF IInv, TypeOK
<1>2. \A u \in Task : HeldRefs(u)' = HeldRefs(u)
  BY RefsCounted, RefsCountedNext DEF Counted
<1>3. CASE isKilled[t]
  <2>1. isKilled' = isKilled
    BY <1>1, <1>3 DEF IInv, TypeOK
  <2> QED
    BY <2>1, RefStutter
<1>4. CASE ~isKilled[t]
  <2>1. HeldRefs(t) > 0
    BY <1>1, RefsCounted DEF Counted
  <2>2. RefSpec!Kill(t)
    BY <1>1, <1>2, <1>4, <2>1 DEF RefSpec!Kill, IInv, TypeOK
  <2> QED
    BY <1>1, <2>2 DEF RefSpec!Next
<1> QED
  BY <1>3, <1>4

\* A task is created with one reference.
LEMMA RefCreate ==
  ASSUME IInv, IInv', NEW c \in Cpu, TaskCreate(c)
  PROVE  RefSpec!Next
<1>1. PICK t \in Task \ tasks :
        /\ tasks' = tasks \cup {t} /\ refCount' = [refCount EXCEPT ![t] = 1]
        /\ isKilled' = [isKilled EXCEPT ![t] = FALSE]
  BY DEF TaskCreate
<1>2. \A u \in Task : HeldRefs(u)' = IF u = t THEN 1 ELSE HeldRefs(u)
  BY <1>1, RefsCounted, RefsCountedNext DEF Counted, IInv, TypeOK
<1>3. RefSpec!Create(t)
  BY <1>1, <1>2 DEF RefSpec!Create, IInv, TypeOK
<1> QED
  BY <1>1, <1>3 DEF RefSpec!Next

\* _free_task_method frees a killed task without references.
LEMMA RefReclaim ==
  ASSUME IInv, IInv', NEW c \in Cpu, JobFreeTask(c)
  PROVE  RefSpec!Next
<1>0. cpuThread[c] \in Task
  BY DEF JobFreeTask, RunsJob, IInv, Locals, Ready, Returns
<1> PICK t \in Task : t = cpuThread[c]
  BY <1>0
<1>1. t \in Task /\ job[t] # "none"
  BY DEF JobFreeTask, RunsJob
<1>2. t \in tasks /\ isKilled[t] /\ refCount[t] = 0
  BY <1>1 DEF IInv, Jobs, JobDead
<1>3. tasks' = tasks \ {t} /\ UNCHANGED <<isKilled, refCount>>
  BY DEF JobFreeTask
<1>4. HeldRefs(t) = 0 /\ \A u \in Task : HeldRefs(u)' = HeldRefs(u)
  BY <1>1, <1>2, <1>3, RefsCounted, RefsCountedNext DEF Counted
<1>5. RefSpec!Reclaim(t)
  BY <1>1, <1>2, <1>3, <1>4 DEF RefSpec!Reclaim
<1> QED
  BY <1>1, <1>5 DEF RefSpec!Next

\* Every step of a CPU is a step of one object or of none.
LEMMA RefStep ==
  ASSUME IInv, IInv', Next
  PROVE  [RefSpec!Next]_(RefSpec!vars)
<1> PICK c \in Cpu :
      \/ KernelStep(c) \/ JobStep(c) \/ SystemCall(c)
      \/ Resign(c) \/ EnterLoop(c) \/ FinalizeThreadExit(c) \/ DeliverIrq(c)
  BY DEF Next
<1>a. \A t \in Task : t \in {cpuTask[c], hold[c], drop[c]} => t \in tasks /\ refCount[t] > 0
  BY HeldNotReaped
<1>b. \A x \in Thread : thTask[x] # NULL => thTask[x] \in tasks
  BY DEF IInv, Allocated
<1>1. TaskDereference(c) => RefSpec!Next
  <2> SUFFICES ASSUME TaskDereference(c) PROVE RefSpec!Next
    OBVIOUS
  <2>1. drop[c] \in Task
    BY DEF TaskDereference, IInv, Locals, TypeOK
  <2>2. drop[c] \in tasks /\ refCount[drop[c]] > 0
    BY <1>a, <2>1
  <2> QED
    BY <2>2, RefRelease DEF TaskDereference
<1>2. RunNext(c) => [RefSpec!Next]_(RefSpec!vars)
  <2> SUFFICES ASSUME RunNext(c) PROVE [RefSpec!Next]_(RefSpec!vars)
    OBVIOUS
  <2>1. PICK i \in DOMAIN queue :
          \/ refCount' = refCount
          \/ queue[i] \notin Task /\ Reference(thTask[queue[i]])
    BY DEF RunNext
  <2>2. CASE refCount' = refCount
    BY <2>2, RefStutter DEF RunNext
  <2>3. CASE queue[i] \notin Task /\ Reference(thTask[queue[i]])
    <3>1. queue[i] \in Thread /\ thTask[queue[i]] # NULL
      BY <2>3 DEF IInv, TypeOK, Schedulable, Allocated
    <3> QED
      BY <1>b, <2>3, <3>1, RefAcquire DEF RunNext
  <2> QED
    BY <2>1, <2>2, <2>3
<1>3. TaskLaunch(c) => RefSpec!Next
  <2> SUFFICES ASSUME TaskLaunch(c) PROVE RefSpec!Next
    OBVIOUS
  <2>1. hold[c] \in Task /\ ~isKilled[hold[c]]
    BY DEF TaskLaunch, IInv, TypeOK, Locals, Launching, LaunchPrivate
  <2>2. hold[c] \in tasks
    BY <1>a, <2>1
  <2> QED
    BY <2>1, <2>2, RefAcquire DEF TaskLaunch
<1>4. TaskForPid(c) => RefSpec!Next
  <2> SUFFICES ASSUME TaskForPid(c) PROVE RefSpec!Next
    OBVIOUS
  <2>1. PICK t \in pidmap : Reference(t)
    BY DEF TaskForPid
  <2> QED
    BY <2>1, RefAcquire DEF TaskForPid, IInv, Allocated
<1>5. DeliverIrq(c) => RefSpec!Next
  <2> SUFFICES ASSUME DeliverIrq(c) PROVE RefSpec!Next
    OBVIOUS
  <2>1. intd \in Thread /\ thTask[intd] # NULL /\ Reference(thTask[intd])
    BY DEF DeliverIrq, IInv, TypeOK, Allocated
  <2> QED
    BY <1>b, <2>1, RefAcquire DEF DeliverIrq
<1>6. TaskKill(c) => [RefSpec!Next]_(RefSpec!vars)
  <2> SUFFICES ASSUME TaskKill(c) PROVE [RefSpec!Next]_(RefSpec!vars)
    OBVIOUS
  <2>1. hold[c] \in Task
    BY DEF TaskKill, IInv, TypeOK, Locals
  <2> QED
    BY <1>a, <2>1, RefKill DEF TaskKill
<1>7. TaskExit(c) => [RefSpec!Next]_(RefSpec!vars)
  <2> SUFFICES ASSUME TaskExit(c) PROVE [RefSpec!Next]_(RefSpec!vars)
    OBVIOUS
  <2>1. cpuTask[c] \in Task
    BY DEF TaskExit, Calls, IInv, TypeOK, Locals, Ready, Returns
  <2> QED
    BY <1>a, <2>1, RefKill DEF TaskExit
<1>8. TaskCreate(c) \/ JobFreeTask(c) => RefSpec!Next
  BY RefCreate, RefReclaim
<1> USE DEF taskVars
<1>9. CASE KernelStep(c)
  <2>1. \/ LoopPushCheck(c) \/ LoopPush(c) \/ LoopDelete(c) \/ PushKillJob(c) \/ RunIdle(c)
        \/ SwitchToThread(c) \/ LaunchWalk(c) \/ LaunchPush(c) \/ CreatorAdd(c)
        \/ CreatorGivesUp(c) \/ PollBreak(c) \/ HeldRelease(c) \/ HeldAdd(c)
        \/ WakeupEndpoint(c) \/ IrqSwitch(c)
        => UNCHANGED <<tasks, isKilled, refCount>>
    BY DEF LoopPushCheck, LoopPush, LoopDelete, PushKillJob, RunIdle, SwitchToThread, LaunchWalk,
       LaunchPush, CreatorAdd, CreatorGivesUp, PollBreak, HeldRelease, HeldAdd, WakeupEndpoint,
       IrqSwitch, NewThread
  <2> QED
    BY <1>1, <1>2, <1>3, <1>6, <1>9, <2>1, RefStutter DEF KernelStep
<1>10. CASE JobStep(c)
  <2>1. JobUnsetPid(c) \/ JobFreeThread(c) => UNCHANGED <<tasks, isKilled, refCount>>
    BY DEF JobUnsetPid, JobFreeThread
  <2> QED
    BY <1>8, <1>10, <2>1, RefStutter DEF JobStep
<1>11. CASE SystemCall(c)
  <2>1. \/ ThreadAdd(c) \/ ThreadPoll(c) \/ ThreadExit(c) \/ IntdSet(c) \/ IntdRead(c)
        => UNCHANGED <<tasks, isKilled, refCount>>
    BY DEF ThreadAdd, NewThread, ThreadPoll, ThreadExit, IntdSet, IntdRead
  <2> QED
    BY <1>4, <1>7, <1>8, <1>11, <2>1, RefStutter DEF SystemCall
<1>12. CASE Resign(c) \/ EnterLoop(c) \/ FinalizeThreadExit(c)
  <2>1. UNCHANGED <<tasks, isKilled, refCount>>
    BY <1>12 DEF Resign, EnterLoop, FinalizeThreadExit
  <2> QED
    BY <2>1, RefStutter
<1> QED
  BY <1>5, <1>9, <1>10, <1>11, <1>12

\* The scheduler implements RefObject: references are taken only to tasks that
\* have not been killed, and a task is freed only when it was killed and every
\* reference to it was given back (anscheduler_task_reference,
\* anscheduler_task_dereference, _free_task_method).
THEOREM Refinement ==
  ASSUME ~EarlyThreads, ~ReplaceIntd
  PROVE  Spec => TasksAreRefObjects
<1>1. IInv /\ IInv' /\ [Next]_vars => [RefSpec!Next]_(RefSpec!vars)
  <2>1. UNCHANGED vars => UNCHANGED <<tasks, isKilled, refCount>>
    BY DEF vars, taskVars
  <2> QED
    BY <2>1, RefStep, RefStutter
<1> QED
  BY <1>1, RefInit, Invariance, PTL DEF Spec, TasksAreRefObjects, RefSpec!Spec
=============================================================================
