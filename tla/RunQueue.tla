------------------------------- MODULE RunQueue -------------------------------
(***************************************************************************)
(* The data structure behind the run loop (loop.c): a doubly linked list   *)
(* of threads, its length in queueCount, and the scan of _next_thread with *)
(* the threads' timestamps.  Every operation runs under loopLock; the scan *)
(* is modelled iteration by iteration, because tasks can be killed while   *)
(* it runs, but no other operation on the list can happen meanwhile.       *)
(***************************************************************************)
EXTENDS Naturals, Sequences, FiniteSets

CONSTANTS
  Thread,   \* thread structures
  NULL,     \* the null pointer
  Quantum,  \* anscheduler_second_length() >> 6, the longest time slice
  MaxTime   \* bound on the clock and on timestamps

ASSUME QueueAssumption ==
  /\ IsFiniteSet(Thread) /\ NULL \notin Thread
  /\ Quantum \in Nat \ {0}
  /\ MaxTime \in Nat

VARIABLES
  firstThread, lastThread, queueCount,  \* the globals of loop.c
  queueNext, queueLast,                 \* the links of each thread
  nextTimestamp,                        \* when a thread wants to run again
  killed,                               \* threads whose task has been killed
  status,                               \* what the rest of the system does with x
  time,                                 \* anscheduler_get_time()
  scan                                  \* the locals of _next_thread

list == <<firstThread, lastThread, queueCount, queueNext, queueLast>>
vars == <<list, nextTimestamp, killed, status, time, scan>>

(***************************************************************************)
(* "held": a CPU runs it or is about to push it; "queued"; "off": neither, *)
(* because it polls, or was dropped once its task had been killed; "dead": *)
(* deleted by _generate_kill_job, soon to be freed.                        *)
(***************************************************************************)
Status == {"held", "queued", "off", "dead"}

\* No scan is in progress: loopLock is free.
NoScan == [on |-> FALSE]
LockFree == ~scan.on

Init ==
  /\ firstThread = NULL /\ lastThread = NULL /\ queueCount = 0
  /\ queueNext = [x \in Thread |-> NULL]
  /\ queueLast = [x \in Thread |-> NULL]
  /\ nextTimestamp = [x \in Thread |-> 0]
  /\ killed = {}
  /\ status = [x \in Thread |-> "held"]
  /\ time = 0
  /\ scan = NoScan

SetStatus(x, s) == status' = [status EXCEPT ![x] = s]

-----------------------------------------------------------------------------
(* The list.                                                               *)

\* The insertion that anscheduler_loop_push and _push_unconditional share,
\* into a list that starts at f and has the links n and l
Insert(x, f, n, l, last) ==
  /\ lastThread' = x
  /\ IF last # NULL
       THEN /\ firstThread' = f
            /\ queueNext' = [n EXCEPT ![last] = x, ![x] = NULL]
            /\ queueLast' = [l EXCEPT ![x] = last]
       ELSE /\ firstThread' = x
            /\ queueNext' = [n EXCEPT ![x] = NULL]
            /\ queueLast' = [l EXCEPT ![x] = NULL]

\* _shift_thread: the first thread and the links without it
ShiftedNext == [queueNext EXCEPT ![firstThread] = NULL]

\* Seeded fault: the new first thread keeps its link to the old one.
ShiftedLastStale == [queueLast EXCEPT ![firstThread] = NULL]

ShiftedLast ==
  LET f == queueNext[firstThread]
  IN  [x \in Thread |-> IF x \in {f, firstThread} THEN NULL ELSE queueLast[x]]

\* Seeded fault: lastThread is not reset when the list becomes empty.
ShiftedEndStale == lastThread

ShiftedEnd == IF queueNext[firstThread] = NULL THEN NULL ELSE lastThread

\* anscheduler_loop_push, after its test of isKilled
Push(x) ==
  /\ LockFree /\ status[x] = "held"
  /\ Insert(x, firstThread, queueNext, queueLast, lastThread)
  /\ queueCount' = queueCount + 1
  /\ SetStatus(x, "queued")
  /\ UNCHANGED <<nextTimestamp, killed, time, scan>>

\* anscheduler_loop_delete's test whether x is in the list at all
InList(x) == queueNext[x] # NULL \/ queueLast[x] # NULL \/ x = firstThread

Unlink(x) ==
  /\ firstThread' = IF firstThread = x THEN queueNext[x] ELSE firstThread
  /\ lastThread' = IF lastThread = x THEN queueLast[x] ELSE lastThread
  /\ queueNext' = [y \in Thread |-> IF y = queueLast[x] THEN queueNext[x]
                                                        ELSE queueNext[y]]
  /\ queueLast' = [y \in Thread |-> IF y = queueNext[x] THEN queueLast[x]
                                                        ELSE queueLast[y]]
  /\ queueCount' = queueCount - 1

\* anscheduler_loop_delete, called once for each thread of a reaped task
Delete(x) ==
  /\ LockFree /\ x \in killed /\ status[x] \in {"queued", "off"}
  /\ IF InList(x) THEN Unlink(x) ELSE UNCHANGED list
  /\ SetStatus(x, "dead")
  /\ UNCHANGED <<nextTimestamp, killed, time, scan>>

-----------------------------------------------------------------------------
(* _next_thread.                                                           *)

\* Seeded fault: the last entry is not looked at.
StartScanShort ==
  /\ LockFree
  /\ scan' = [on |-> TRUE, i |-> 0, now |-> time, timeout |-> Quantum,
              max |-> IF queueCount = 0 THEN 0 ELSE queueCount - 1]
  /\ UNCHANGED <<list, nextTimestamp, killed, status, time>>

StartScan ==
  /\ LockFree
  /\ scan' = [on |-> TRUE, i |-> 0, max |-> queueCount, now |-> time,
              timeout |-> Quantum]
  /\ UNCHANGED <<list, nextTimestamp, killed, status, time>>

\* A thread whose time has not come goes to the back of the list.
SkipSleeper ==
  /\ scan.on /\ scan.i < scan.max
  /\ LET x == firstThread IN
       /\ nextTimestamp[x] > scan.now
       /\ Insert(x, queueNext[x], ShiftedNext, ShiftedLast, ShiftedEnd)
       /\ scan' = [scan EXCEPT !.i = @ + 1,
                     !.timeout = IF nextTimestamp[x] - scan.now < @
                                   THEN nextTimestamp[x] - scan.now ELSE @]
  /\ UNCHANGED <<queueCount, nextTimestamp, killed, status, time>>

\* A thread whose time has come is shifted out of the list.
ShiftReady(x) ==
  /\ scan.on /\ scan.i < scan.max
  /\ x = firstThread /\ nextTimestamp[x] <= scan.now
  /\ firstThread' = queueNext[x]
  /\ lastThread' = ShiftedEnd
  /\ queueNext' = ShiftedNext
  /\ queueLast' = ShiftedLast
  /\ queueCount' = queueCount - 1
  /\ UNCHANGED <<nextTimestamp, killed, time>>

\* Its task has been killed: anscheduler_task_reference fails, the loop goes on.
DropKilled(x) ==
  /\ ShiftReady(x) /\ x \in killed
  /\ SetStatus(x, "off")
  /\ scan' = [scan EXCEPT !.i = @ + 1]

\* It is returned, and the timer of the CPU is set.
ReturnThread(x) ==
  /\ ShiftReady(x) /\ x \notin killed
  /\ SetStatus(x, "held")
  /\ scan' = NoScan

\* All entries were looked at: NULL is returned and the CPU halts.
ReturnNull ==
  /\ scan.on /\ scan.i = scan.max
  /\ scan' = NoScan
  /\ UNCHANGED <<list, nextTimestamp, killed, status, time>>

-----------------------------------------------------------------------------
(* The rest of the system.                                                 *)

\* A running thread asks to sleep; it will be pushed when it resigns.
Sleep(x) ==
  /\ status[x] = "held"
  /\ \E d \in time .. MaxTime : nextTimestamp' = [nextTimestamp EXCEPT ![x] = d]
  /\ UNCHANGED <<list, killed, status, time, scan>>

\* A running thread begins to poll, or a thread of a killed task is not pushed.
Park(x) ==
  /\ status[x] = "held"
  /\ SetStatus(x, "off")
  /\ UNCHANGED <<list, nextTimestamp, killed, time, scan>>

\* A polling thread is woken and gets a CPU.
Wake(x) ==
  /\ status[x] = "off" /\ x \notin killed
  /\ SetStatus(x, "held")
  /\ UNCHANGED <<list, nextTimestamp, killed, time, scan>>

\* anscheduler_task_kill of x's task, at any moment
Kill(x) ==
  /\ status[x] # "dead" /\ x \notin killed
  /\ killed' = killed \cup {x}
  /\ UNCHANGED <<list, nextTimestamp, status, time, scan>>

\* A dead thread is freed; its memory becomes a new thread, zeroed.
Renew(x) ==
  /\ status[x] = "dead"
  /\ SetStatus(x, "held")
  /\ killed' = killed \ {x}
  /\ queueNext' = [queueNext EXCEPT ![x] = NULL]
  /\ queueLast' = [queueLast EXCEPT ![x] = NULL]
  /\ nextTimestamp' = [nextTimestamp EXCEPT ![x] = 0]
  /\ UNCHANGED <<firstThread, lastThread, queueCount, time, scan>>

Tick ==
  /\ time < MaxTime
  /\ time' = time + 1
  /\ UNCHANGED <<list, nextTimestamp, killed, status, scan>>

-----------------------------------------------------------------------------
Next ==
  \/ \E x \in Thread : \/ Push(x) \/ Delete(x) \/ DropKilled(x)
                       \/ ReturnThread(x) \/ Sleep(x) \/ Park(x) \/ Wake(x)
                       \/ Kill(x) \/ Renew(x)
  \/ StartScan \/ SkipSleeper \/ ReturnNull \/ Tick

Spec == Init /\ [][Next]_vars

-----------------------------------------------------------------------------
TypeOK ==
  /\ firstThread \in Thread \cup {NULL} /\ lastThread \in Thread \cup {NULL}
  /\ queueCount \in 0 .. Cardinality(Thread)
  /\ queueNext \in [Thread -> Thread \cup {NULL}]
  /\ queueLast \in [Thread -> Thread \cup {NULL}]
  /\ nextTimestamp \in [Thread -> 0 .. MaxTime]
  /\ killed \subseteq Thread
  /\ status \in [Thread -> Status]
  /\ time \in 0 .. MaxTime
  /\ scan = NoScan \/ scan \in [on : {TRUE}, i : Nat, max : Nat, now : Nat,
                                timeout : 0 .. Quantum]

\* The i-th thread from firstThread on, following queueNext
At == [i \in 1 .. queueCount |->
         LET f[k \in 1 .. queueCount] ==
               IF k = 1 THEN firstThread
               ELSE IF f[k - 1] = NULL THEN NULL ELSE queueNext[f[k - 1]]
         IN f[i]]

queued == {x \in Thread : status[x] = "queued"}

\* The links and queueCount always describe one list of exactly the queued
\* threads, whatever order of pushes, scans and deletes led there; stale links
\* of deleted threads do no harm.
WellFormed ==
  /\ TypeOK
  /\ queueCount = Cardinality(queued)
  /\ {At[i] : i \in 1 .. queueCount} = queued
  /\ IF queueCount = 0
       THEN firstThread = NULL /\ lastThread = NULL
       ELSE /\ lastThread = At[queueCount]
            /\ queueNext[lastThread] = NULL /\ queueLast[firstThread] = NULL
            /\ \A i \in 2 .. queueCount : queueLast[At[i]] = At[i - 1]

\* The list behaves as a queue of threads.
Loop == INSTANCE RunLoop WITH line <- At

IsRunLoop == Loop!Spec

Ready(x) == status[x] = "queued" /\ x \notin killed /\ nextTimestamp[x] <= scan.now

\* A CPU halts only if no thread could run, and its timer then expires before
\* any sleeping thread's time has come.
HaltsInTime ==
  scan.on /\ scan.i = scan.max =>
    /\ \A x \in Thread : ~Ready(x)
    /\ \A x \in queued : scan.timeout <= nextTimestamp[x] - scan.now
=============================================================================
