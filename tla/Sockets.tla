------------------------------- MODULE Sockets -------------------------------
(***************************************************************************)
(* Sockets between tasks (socket.c) and the closing of a dead task's       *)
(* sockets (task.c): the shared socket_t, its two descriptors with their   *)
(* reference counts, the two bounded message lists, connecting, sending,   *)
(* closing, hanging up from both sides, and waking the receiving task.     *)
(*                                                                         *)
(* A step is one locked section of one activity.  Activities are threads   *)
(* inside a system call (User), kernel threads in _async_msg (Async), the  *)
(* kernel thread in _socket_hangup(d), denoted by d itself, and the one in *)
(* _free_task_method(t), denoted by t.                                     *)
(*                                                                         *)
(* A task's descriptor table is one bucket, newest first, and its pending  *)
(* list a set; SocketList has both in detail.  A task is reaped when it is *)
(* killed and nobody has a reference to it, as Scheduler shows.  Of the    *)
(* messages only the number is kept, as forConnectorCount and              *)
(* forReceiverCount have it.                                               *)
(***************************************************************************)
EXTENDS Naturals, Sequences, FiniteSets, SequencesExt

CONSTANTS
  Task,         \* task structures
  Mortal,       \* the tasks that may be killed
  Sock,         \* socket_t structures
  User,         \* threads that make system calls
  Home,         \* the task of each of these threads
  Async,        \* kernel threads for asynchronous messages
  NULL,         \* the null pointer
  MsgMax        \* ANSCHEDULER_SOCKET_MSG_MAX

ASSUME SocketsAssumption ==
  /\ Mortal \subseteq Task /\ Home \in [User -> Task]
  /\ MsgMax \in Nat \ {0}

Desc == Sock \X {"connector", "receiver"}
Connector(s) == <<s, "connector">>
Receiver(s) == <<s, "receiver">>
OtherEnd(d) == IF d = Connector(d[1]) THEN Receiver(d[1]) ELSE Connector(d[1])

Activity == User \cup Async \cup Desc \cup Task

Message == {"data", "connect", "close"}

\* Where an activity is
Phase == {"idle", "have", "deref", "delete", "async", "push", "remote", "remotetask",
  "insert", "greet", "abort", "wake", "scan", "wild", "hangup", "unhook", "free",
  "freeboth", "freesock", "pick", "close", "await", "spin", "freetask"}

\* Structures and threads are finitely many, and different from each other.
ASSUME ActivityAssumption ==
  /\ IsFiniteSet(Activity)
  /\ User \cap Async = {} /\ User \cap Desc = {} /\ User \cap Task = {}
  /\ Async \cap Desc = {} /\ Async \cap Task = {} /\ Desc \cap Task = {}
  /\ NULL \notin Desc \cup Task \cup Phase \cup Message

VARIABLES
  state,      \* "live", "killed", "reaping" or "free" for each task
  asleep,     \* threads with isPolling set
  socks,      \* allocated socket_t structures
  ends,       \* descriptors that sock->connector or sock->receiver points to
  hasBeenConnected,  \* sockets with that flag
  count,      \* the messages for each descriptor
  descs,      \* allocated descriptor structures
  task,       \* desc->task
  refCount,   \* desc->refCount
  isClosed,   \* descriptors with that flag
  table,      \* each task's descriptors
  stuck,      \* tasks whose socketsLock is held by the waiting kill job
  pending,    \* descriptors in the pending list of their task
  act,        \* where each activity is, and its local variables
  told,       \* history: descriptors never connected, or sent a close message
  lost        \* history: sockets that a failed anscheduler_socket_new left

taskVars == <<state, asleep>>
sockVars == <<socks, ends, hasBeenConnected, told, lost>>
descVars == <<descs, task, isClosed>>
listVars == <<table, stuck, pending>>
vars == <<taskVars, sockVars, count, descVars, refCount, listVars, act>>

\* An activity's local variables: the descriptor it works with, the other end,
\* a referenced task, the message to send; and the descriptor it is giving
\* back with the place where it goes on after that.
Idle == [pc |-> "idle", own |-> NULL, peer |-> NULL, ref |-> NULL, msg |-> NULL,
         drop |-> NULL, next |-> NULL]

Init ==
  /\ state = [t \in Task |-> "live"] /\ asleep = {}
  /\ socks = {} /\ ends = {} /\ hasBeenConnected = {} /\ told = {} /\ lost = {}
  /\ descs = {} /\ isClosed = {}
  /\ count = [d \in Desc |-> 0] /\ refCount = [d \in Desc |-> 0]
  /\ task = [d \in Desc |-> NULL]
  /\ table = [t \in Task |-> <<>>] /\ stuck = {} /\ pending = {}
  /\ act = [a \in Activity |-> Idle]

-----------------------------------------------------------------------------
At(a, p) == act[a].pc = p
Become(a, l) == act' = [act EXCEPT ![a] = l]
Goto(a, p) == Become(a, [act[a] EXCEPT !.pc = p])

\* Seeded fault: the reference is not counted.
ReferenceUncounted(d) == d \notin isClosed /\ refCount' = refCount

\* anscheduler_socket_reference, when it succeeds
Reference(d) ==
  /\ d \notin isClosed
  /\ refCount' = [refCount EXCEPT ![d] = @ + 1]

\* Activity a, with local variables l, calls anscheduler_socket_dereference(d)
\* and goes on at p.
Dereference(a, l, d, p) ==
  Become(a, [l EXCEPT !.pc = "deref", !.drop = d, !.next = p])
Return(a) == [act[a] EXCEPT !.pc = act[a].next, !.drop = NULL, !.next = NULL]

\* Who holds references to a task: its threads in a system call, and locals
TaskRefs(t) ==
  {u \in User : Home[u] = t /\ ~At(u, "idle")} \cup {a \in Activity : act[a].ref = t}

\* A running thread begins a system call; its task may have been killed.
Calls(u) ==
  At(u, "idle") /\ u \notin asleep /\ state[Home[u]] \in {"live", "killed"}

\* A thread has a referenced descriptor to work with.
Has(u) == u \in User /\ At(u, "have")

\* The zeroed descriptor d of task t, referenced once
CreateDescriptor(d, t) ==
  /\ descs' = descs \cup {d} /\ ends' = ends \cup {d}
  /\ task' = [task EXCEPT ![d] = t]
  /\ refCount' = [refCount EXCEPT ![d] = 1]
  /\ isClosed' = isClosed \ {d}

-----------------------------------------------------------------------------
(* anscheduler_socket_dereference.                                         *)

\* Seeded faults: a closed descriptor dies although others use it; nobody
\* notices that the last reference is gone.
LastReferenceHasty(d) == d \in isClosed
LastReferenceMissed(d) == refCount[d] = 0 /\ d \in isClosed
LastReference(d) == refCount[d] = 1 /\ d \in isClosed

\* The section under closeLock
Deref(a) ==
  LET d == act[a].drop IN
    /\ At(a, "deref")
    /\ refCount' = [refCount EXCEPT ![d] = IF @ = 0 /\ d \in isClosed THEN 0 ELSE @ - 1]
    /\ IF LastReference(d) THEN Goto(a, "delete") ELSE Become(a, Return(a))
    /\ UNCHANGED <<taskVars, sockVars, count, descVars, listVars>>

\* anscheduler_descriptor_delete: the list s without its element d
Unlinked(s, d) ==
  IF \E i \in DOMAIN s : s[i] = d
    THEN RemoveAt(s, CHOOSE i \in DOMAIN s : s[i] = d) ELSE s

\* anscheduler_task_not_pending, anscheduler_descriptor_delete, and a kernel
\* thread for _socket_hangup
Delete(a) ==
  LET d == act[a].drop
      t == task[d] IN
    /\ At(a, "delete") /\ t \notin stuck
    /\ pending' = pending \ {d}
    /\ table' = [table EXCEPT ![t] = Unlinked(@, d)]
    /\ act' = [act EXCEPT ![a] = Return(a), ![d].pc = "hangup"]
    /\ UNCHANGED <<taskVars, sockVars, count, descVars, refCount, stuck>>

-----------------------------------------------------------------------------
(* Getting a descriptor.                                                   *)

\* anscheduler_socket_new: nobody knows the socket before it is in the table.
SocketNew(u) ==
  /\ Calls(u) /\ Home[u] \notin stuck
  /\ \E s \in Sock \ socks :
       /\ {Connector(s), Receiver(s)} \cap descs = {}
       /\ CreateDescriptor(Connector(s), Home[u])
       /\ socks' = socks \cup {s}
       /\ told' = told \cup {Connector(s)}
       /\ table' = [table EXCEPT ![Home[u]] = <<Connector(s)>> \o @]
       /\ Become(u, [Idle EXCEPT !.pc = "have", !.own = Connector(s)])
  /\ UNCHANGED <<taskVars, hasBeenConnected, lost, count, stuck, pending>>

\* _create_descriptor fails in anscheduler_socket_new: the socket is left.
SocketNewFails(u) ==
  /\ Calls(u)
  /\ \E s \in Sock \ socks : socks' = socks \cup {s} /\ lost' = lost \cup {s}
  /\ UNCHANGED <<taskVars, ends, hasBeenConnected, told, count, descVars, refCount,
                 listVars, act>>

\* anscheduler_socket_for_descriptor
SocketForDescriptor(u) ==
  /\ Calls(u) /\ Home[u] \notin stuck
  /\ \E d \in ToSet(table[Home[u]]) :
       Reference(d) /\ Become(u, [Idle EXCEPT !.pc = "have", !.own = d])
  /\ UNCHANGED <<taskVars, sockVars, count, descVars, listVars>>

\* anscheduler_socket_next_pending; a closed descriptor is skipped.
NextPending(u) ==
  /\ Calls(u)
  /\ \E d \in pending :
       /\ task[d] = Home[u]
       /\ pending' = pending \ {d}
       /\ IF d \in isClosed
            THEN UNCHANGED <<refCount, act>>
            ELSE Reference(d) /\ Become(u, [Idle EXCEPT !.pc = "have", !.own = d])
  /\ UNCHANGED <<taskVars, sockVars, count, descVars, table, stuck>>

\* Seeded fault: the thread goes to sleep without looking.
HasPendingUnseen(t) == FALSE
HasPending(t) == \E d \in pending : task[d] = t

\* anscheduler_thread_poll, under pendingLock
Poll(u) ==
  /\ Calls(u) /\ ~HasPending(Home[u])
  /\ asleep' = asleep \cup {u}
  /\ UNCHANGED <<state, sockVars, count, descVars, refCount, listVars, act>>

-----------------------------------------------------------------------------
(* What a thread does with a descriptor it has a reference to.             *)

SocketClose(u) ==
  /\ Has(u)
  /\ isClosed' = isClosed \cup {act[u].own}
  /\ UNCHANGED <<taskVars, sockVars, count, descs, task, refCount, listVars, act>>

SocketRead(u) ==
  /\ Has(u) /\ count[act[u].own] > 0
  /\ count' = [count EXCEPT ![act[u].own] = @ - 1]
  /\ UNCHANGED <<taskVars, sockVars, descVars, refCount, listVars, act>>

\* The caller gives its reference back.
LetGo(a) ==
  /\ At(a, "have")
  /\ Dereference(a, [act[a] EXCEPT !.own = NULL], act[a].own, "idle")
  /\ UNCHANGED <<taskVars, sockVars, count, descVars, refCount, listVars>>

\* Under connRecLock: reference the other end, if there is one and it is open.
Reachable(o) == o \in ends /\ o \notin isClosed
ReferenceOther(a, o, m, p) ==
  /\ Reachable(o)
  /\ Reference(o)
  /\ Become(a, [act[a] EXCEPT !.pc = p, !.peer = o, !.msg = m])
  /\ UNCHANGED <<taskVars, sockVars, count, descVars, listVars>>

\* The other end cannot be reached: go on at p.
NoOther(a, o, p) ==
  /\ ~Reachable(o)
  /\ Goto(a, p)
  /\ UNCHANGED <<taskVars, sockVars, count, descVars, refCount, listVars>>

\* A message, or a question for the remote task, that cannot reach the other
\* end changes nothing.
SocketMsg(u) == Has(u) /\ ReferenceOther(u, OtherEnd(act[u].own), "data", "push")
SocketRemote(u) == Has(u) /\ ReferenceOther(u, OtherEnd(act[u].own), NULL, "remote")

\* The remote task is referenced if it has not been killed, the other end let
\* go, and the task given back later.
RemoteTask(u) ==
  LET l == act[u]
      t == task[l.peer] IN
    /\ At(u, "remote")
    /\ Dereference(u, [l EXCEPT !.ref = IF state[t] = "live" THEN t ELSE NULL, !.peer = NULL],
                   l.peer, "remotetask")
    /\ UNCHANGED <<taskVars, sockVars, count, descVars, refCount, listVars>>
RemoteTaskDereference(u) ==
  /\ At(u, "remotetask")
  /\ Become(u, [act[u] EXCEPT !.pc = "have", !.ref = NULL])
  /\ UNCHANGED <<taskVars, sockVars, count, descVars, refCount, listVars>>

\* anscheduler_socket_msg_async
SocketMsgAsync(u) ==
  /\ Has(u) /\ Reference(act[u].own)
  /\ \E k \in Async :
       At(k, "idle") /\ Become(k, [Idle EXCEPT !.pc = "async", !.own = act[u].own])
  /\ UNCHANGED <<taskVars, sockVars, count, descVars, listVars>>

\* _async_msg; when there is no other end it only lets go.
AsyncMsg(k) ==
  LET o == OtherEnd(act[k].own) IN
    At(k, "async") /\ (ReferenceOther(k, o, "data", "push") \/ NoOther(k, o, "have"))

-----------------------------------------------------------------------------
(* Delivering a message.                                                   *)

\* Seeded faults: the limit is off by one; close messages are refused at the
\* limit as well.
RefusedLate(m, n) == m = "data" /\ n > MsgMax
RefusedClose(m, n) == m # "connect" /\ n >= MsgMax
Refused(m, n) == m = "data" /\ n >= MsgMax

\* Where the sender goes on when its message is refused
Refusal(m) == CASE m = "data" -> "have" [] m = "connect" -> "abort" [] m = "close" -> "unhook"

\* _push_message: a refused message lets the other end go; otherwise a sender
\* gives its own descriptor back before the receiver is woken.
PushMessage(a) ==
  LET l == [act[a] EXCEPT !.msg = NULL]
      m == act[a].msg IN
    /\ At(a, "push")
    /\ IF Refused(m, count[l.peer])
         THEN Dereference(a, [l EXCEPT !.peer = NULL], l.peer, Refusal(m)) /\ UNCHANGED <<count, told>>
         ELSE /\ count' = [count EXCEPT ![l.peer] = @ + 1]
              /\ told' = IF m = "close" THEN told \cup {l.peer} ELSE told
              /\ IF m = "close" THEN Become(a, [l EXCEPT !.pc = "wake"])
                                ELSE Dereference(a, [l EXCEPT !.own = NULL], l.own, "wake")
    /\ UNCHANGED <<taskVars, socks, ends, hasBeenConnected, lost, descVars, refCount, listVars>>

\* Where an activity goes on when _wakeup_endpoint returns
Woken(a) == IF a \in Desc THEN "unhook" ELSE "idle"

\* _wakeup_endpoint: the task is referenced, unless it was killed, and the
\* descriptor made pending and let go.
WakeupEndpoint(a) ==
  LET l == act[a]
      t == task[l.peer] IN
    /\ At(a, "wake")
    /\ IF state[t] = "live"
         THEN /\ pending' = pending \cup {l.peer}
              /\ Dereference(a, [l EXCEPT !.ref = t], l.peer, "scan")
         ELSE /\ pending' = pending
              /\ Dereference(a, [l EXCEPT !.peer = NULL], l.peer, Woken(a))
    /\ UNCHANGED <<taskVars, sockVars, count, descVars, refCount, table, stuck>>

Scanned(a, p) == Become(a, [Idle EXCEPT !.pc = p])

\* Under threadsLock: a polling thread is claimed and gets the task reference.
ScanFound(a) ==
  /\ At(a, "scan")
  /\ \E u \in asleep : Home[u] = act[a].ref /\ asleep' = asleep \ {u}
  /\ Scanned(a, Woken(a))
  /\ UNCHANGED <<state, sockVars, count, descVars, refCount, listVars>>

\* dest has been let go, but is read once more (socket.c:406): by then it may
\* have been freed, and if it was, this is a use after free.
LateRead(a) == task[act[a].peer] # act[a].ref

\* None is polling, and the task that dest->task names is dereferenced.  If
\* dest is gone, what is read is what was there before, or anything else, and
\* the model stops ("wild").
ScanNone(a) ==
  /\ At(a, "scan")
  /\ \A u \in asleep : Home[u] # act[a].ref
  /\ \/ Scanned(a, Woken(a))
     \/ LateRead(a) /\ Scanned(a, "wild")
  /\ UNCHANGED <<taskVars, sockVars, count, descVars, refCount, listVars>>

-----------------------------------------------------------------------------
(* anscheduler_socket_connect(own, t), with t found by its PID.            *)

\* The flag is tested and set, and the other end made; nothing reads the flag
\* in between but another connect, which returns false.
Connect(u) ==
  LET s == act[u].own[1] IN
    /\ Has(u) /\ s \notin hasBeenConnected
    /\ hasBeenConnected' = hasBeenConnected \cup {s}
    /\ \E t \in Task :
         /\ state[t] = "live"
         /\ CreateDescriptor(Receiver(s), t)
         /\ Become(u, [act[u] EXCEPT !.pc = "insert", !.peer = Receiver(s), !.ref = t])
    /\ told' = told \ {Connector(s)}
    /\ UNCHANGED <<taskVars, socks, lost, count, listVars>>

\* _create_descriptor fails: the socket can never be connected again.
ConnectFails(u) ==
  /\ Has(u)
  /\ hasBeenConnected' = hasBeenConnected \cup {act[u].own[1]}
  /\ UNCHANGED <<taskVars, socks, ends, told, lost, count, descVars, refCount, listVars, act>>

\* anscheduler_descriptor_set, and the references to the task and to the link
\* are given back.
ConnectInsert(u) ==
  LET l == act[u] IN
    /\ At(u, "insert") /\ l.ref \notin stuck
    /\ table' = [table EXCEPT ![l.ref] = <<l.peer>> \o @]
    /\ Dereference(u, [l EXCEPT !.ref = NULL, !.peer = NULL], l.peer, "greet")
    /\ UNCHANGED <<taskVars, sockVars, count, descVars, refCount, stuck, pending>>

\* The connect message is sent, or the kernel aborts.
ConnectMsg(u) ==
  LET o == Receiver(act[u].own[1]) IN
    At(u, "greet") /\ (ReferenceOther(u, o, "connect", "push") \/ NoOther(u, o, "abort"))

-----------------------------------------------------------------------------
(* The kernel thread in _socket_hangup(d).                                 *)

\* Seeded fault: an end that is closed counts as gone.
ShouldFreeEarly(d) == ~Reachable(OtherEnd(d))
ShouldFree(d) == OtherEnd(d) \notin ends

\* Set our end to NULL; the last of the two ends frees the socket.
Unhook(d) ==
  /\ ends' = ends \ {d}
  /\ Goto(d, IF ShouldFree(d) THEN "freeboth" ELSE "free")
  /\ UNCHANGED <<taskVars, socks, hasBeenConnected, told, lost, count, descVars, refCount, listVars>>

Hangup(d) ==
  /\ At(d, "hangup")
  /\ \/ ReferenceOther(d, OtherEnd(d), "close", "push")
     \/ ~Reachable(OtherEnd(d)) /\ Unhook(d)

HangupUnhook(d) == At(d, "unhook") /\ Unhook(d)

HangupFree(d) ==
  /\ act[d].pc \in {"free", "freeboth"}
  /\ descs' = descs \ {d} /\ isClosed' = isClosed \ {d} /\ told' = told \ {d}
  /\ task' = [task EXCEPT ![d] = NULL]
  /\ Goto(d, IF At(d, "free") THEN "idle" ELSE "freesock")
  /\ UNCHANGED <<taskVars, socks, ends, hasBeenConnected, lost, count, refCount, listVars>>

\* _socket_free: the messages of both directions, and the socket
SocketFree(d) ==
  /\ At(d, "freesock")
  /\ socks' = socks \ {d[1]} /\ hasBeenConnected' = hasBeenConnected \ {d[1]}
  /\ count' = [e \in Desc |-> IF e[1] = d[1] THEN 0 ELSE count[e]]
  /\ Goto(d, "idle")
  /\ UNCHANGED <<taskVars, ends, told, lost, descVars, refCount, listVars>>

-----------------------------------------------------------------------------
(* Tasks: they are killed, and _free_task_method(t) closes their sockets.  *)

TaskKill(t) ==
  /\ t \in Mortal /\ state[t] = "live"
  /\ state' = [state EXCEPT ![t] = "killed"]
  /\ UNCHANGED <<asleep, sockVars, count, descVars, refCount, listVars, act>>

\* The last reference to the task is gone; others may still use its descriptors.
GenerateKillJob(t) ==
  /\ state[t] = "killed" /\ TaskRefs(t) = {}
  /\ state' = [state EXCEPT ![t] = "reaping"]
  /\ Goto(t, "pick")
  /\ UNCHANGED <<asleep, sockVars, count, descVars, refCount, listVars>>

\* There is no first descriptor, or it is closed.
SocketsDone(t) == \A i \in DOMAIN table[t] \cap {1} : table[t][i] \in isClosed

\* _close_task_sockets_async: reference the first descriptor, or go on with
\* freeing the task.
KillPick(t) ==
  /\ At(t, "pick")
  /\ IF SocketsDone(t)
       THEN Goto(t, "freetask") /\ UNCHANGED refCount
       ELSE /\ Reference(Head(table[t]))
            /\ Become(t, [Idle EXCEPT !.pc = "close", !.own = Head(table[t])])
  /\ UNCHANGED <<taskVars, sockVars, count, descVars, listVars>>

KillClose(t) ==
  /\ At(t, "close")
  /\ isClosed' = isClosed \cup {act[t].own}
  /\ Dereference(t, act[t], act[t].own, "await")
  /\ UNCHANGED <<taskVars, sockVars, count, descs, task, refCount, listVars>>

\* Wait for the descriptor to leave the list.  If it is there, the thread
\* resigns with socketsLock held and comes back to take the lock again.
KillAwait(t) ==
  /\ At(t, "await")
  /\ IF table[t] # <<>> /\ Head(table[t]) = act[t].own
       THEN stuck' = stuck \cup {t} /\ Become(t, [Idle EXCEPT !.pc = "spin"])
       ELSE stuck' = stuck /\ Become(t, [Idle EXCEPT !.pc = "pick"])
  /\ UNCHANGED <<taskVars, sockVars, count, descVars, refCount, table, pending>>

\* The threads and the task are freed.
FreeTask(t) ==
  /\ At(t, "freetask")
  /\ state' = [state EXCEPT ![t] = "free"]
  /\ asleep' = {u \in asleep : Home[u] # t}
  /\ table' = [table EXCEPT ![t] = <<>>]
  /\ Goto(t, "idle")
  /\ UNCHANGED <<sockVars, count, descVars, refCount, stuck, pending>>

\* anscheduler_task_create uses the memory again.
TaskCreate(t) ==
  /\ state[t] = "free"
  /\ state' = [state EXCEPT ![t] = "live"]
  /\ UNCHANGED <<asleep, sockVars, count, descVars, refCount, listVars, act>>

-----------------------------------------------------------------------------
\* The kernel has not aborted and no freed memory was read.
Running == \A a \in Activity : act[a].pc \notin {"abort", "wild"}

\* What a thread of the program decides to do
Call(u) ==
  \/ SocketNew(u) \/ SocketNewFails(u) \/ SocketForDescriptor(u) \/ NextPending(u)
  \/ Poll(u) \/ SocketClose(u) \/ SocketRead(u) \/ SocketMsg(u) \/ SocketRemote(u)
  \/ SocketMsgAsync(u) \/ Connect(u) \/ ConnectFails(u)
  \/ LetGo(u) \/ RemoteTaskDereference(u)

\* What a call or a kernel thread goes on with by itself
Proceed(a) ==
  \/ Deref(a) \/ Delete(a)
  \/ PushMessage(a) \/ WakeupEndpoint(a) \/ ScanFound(a) \/ ScanNone(a)
ProceedUser(u) == Proceed(u) \/ RemoteTask(u) \/ ConnectInsert(u) \/ ConnectMsg(u)
ProceedAsync(k) == Proceed(k) \/ AsyncMsg(k) \/ LetGo(k)
ProceedHangup(d) == Proceed(d) \/ Hangup(d) \/ HangupUnhook(d) \/ HangupFree(d) \/ SocketFree(d)
ProceedKill(t) ==
  Deref(t) \/ Delete(t) \/ KillPick(t) \/ KillClose(t) \/ KillAwait(t) \/ FreeTask(t)

Next ==
  \/ /\ Running
     /\ \/ \E u \in User : Call(u) \/ ProceedUser(u)
        \/ \E k \in Async : ProceedAsync(k)
        \/ \E d \in Desc : ProceedHangup(d)
        \/ \E t \in Task : TaskKill(t) \/ GenerateKillJob(t) \/ ProceedKill(t) \/ TaskCreate(t)
  \/ ~Running /\ UNCHANGED vars

Spec == Init /\ [][Next]_vars

\* The kernel does not preempt a critical section, and the run loop comes
\* back to every kernel thread (Scheduler); a program need not go on.
Fairness ==
  /\ \A u \in User : WF_vars(Running /\ ProceedUser(u))
  /\ \A k \in Async : WF_vars(Running /\ ProceedAsync(k))
  /\ \A d \in Desc : WF_vars(Running /\ ProceedHangup(d))
  /\ \A t \in Task : WF_vars(Running /\ ProceedKill(t))

FairSpec == Spec /\ Fairness

-----------------------------------------------------------------------------
(* Properties.                                                             *)

Types ==
  /\ state \in [Task -> {"live", "killed", "reaping", "free"}]
  /\ asleep \subseteq User
  /\ socks \subseteq Sock /\ hasBeenConnected \subseteq Sock /\ lost \subseteq Sock
  /\ ends \subseteq Desc /\ descs \subseteq Desc /\ isClosed \subseteq Desc
  /\ pending \subseteq Desc /\ told \subseteq Desc /\ stuck \subseteq Task
  /\ count \in [Desc -> Nat] /\ refCount \in [Desc -> Nat]
  /\ task \in [Desc -> Task \cup {NULL}]
  /\ table \in [Task -> Seq(Desc)]
  /\ act \in [Activity -> [pc : Phase, next : Phase \cup {NULL},
       own : Desc \cup {NULL}, peer : Desc \cup {NULL}, drop : Desc \cup {NULL},
       ref : Task \cup {NULL}, msg : Message \cup {NULL}]]

\* Every variable has its type, no count drops below zero, and the limit of a
\* message list holds but for one close message and, at the receiving end, one
\* connect message.
TypeOK ==
  /\ Types
  /\ \A d \in Desc : count[d] <= MsgMax + (IF d = Receiver(d[1]) THEN 2 ELSE 1)

\* The references that activity a has to descriptor d.  A kill job that let go
\* only compares the address; a wakeup that let go may still read dest
\* (LateRead), without a reference.
OwnRef(a, d) == act[a].own = d /\ (a \in Task => At(a, "close"))
PeerRef(a, d) == act[a].peer = d /\ "scan" \notin {act[a].pc, act[a].next}
DropRef(a, d) == act[a].drop = d /\ At(a, "deref")
HeldRefs(d) ==
  Cardinality({a \in Activity : OwnRef(a, d)}) + Cardinality({a \in Activity : PeerRef(a, d)})
    + Cardinality({a \in Activity : DropRef(a, d)})

\* refCount is exactly the number of references that calls and kernel threads
\* have, through every failing send, racing close and hangup.
RefsExact == \A d \in descs : refCount[d] = HeldRefs(d)

\* Descriptors keep the promise that tasks keep in Scheduler: a reference is
\* taken only while the descriptor is open, only a holder closes it, and it is
\* freed only when it is closed and every reference has been given back.
RefSpec ==
  INSTANCE RefObject WITH
    Obj <- Desc,
    state <- [d \in Desc |-> IF d \notin descs THEN "free"
                             ELSE IF d \in isClosed THEN "killed" ELSE "live"],
    refs <- [d \in Desc |-> HeldRefs(d)]
DescriptorsAreRefObjects == RefSpec!Spec

\* Whoever works with a descriptor finds it and its socket allocated: holders
\* of references, the last dereference while it takes the descriptor out of
\* its task's lists, and the hangup up to its second look at the socket; and
\* the threads of a task are only scanned while the task cannot be freed.  The
\* one access this leaves out is LateRead, which does read freed descriptors.
NoUseAfterFree ==
  /\ \A d \in ends : d \in descs /\ d[1] \in socks
  /\ \A a \in Activity, d \in Desc :
       OwnRef(a, d) \/ PeerRef(a, d) \/ act[a].drop = d => d \in ends
  /\ \A d \in Desc :
       act[d].pc \notin {"idle", "free", "freeboth", "freesock", "wild"} => d \in ends
  /\ \A a \in Activity : At(a, "scan") => state[act[a].ref] \in {"live", "killed"}

\* The comment in anscheduler_socket_dereference: "we know the task is still
\* alive because the socket is still in the task's socket list as of now, and
\* the task cannot die until every socket it owns has died".
TaskOutlivesSockets ==
  \A d \in descs : At(d, "idle") => state[task[d]] # "free"

\* However the two ends hang up, the socket is freed by exactly one of them,
\* after the other is done with it, and it is never left behind (but by a
\* failed anscheduler_socket_new).
FreedOnce ==
  \A s \in Sock :
    LET Freeing == {d \in Desc : d[1] = s /\ act[d].pc \in {"freeboth", "freesock"}} IN
      /\ Cardinality(Freeing) <= 1
      /\ s \in socks <=> s \in lost \/ Freeing # {} \/ \E d \in ends : d[1] = s

\* Connect and close messages arrive however full the list is: an open end that
\* has lost its other end was sent a close message, and a connect aborts the
\* kernel only because the new end was closed before its message was sent.
ControlDelivered ==
  /\ \A d \in ends : d \notin isClosed /\ OtherEnd(d) \notin ends => d \in told
  /\ \A u \in User : "abort" \in {act[u].pc, act[u].next} => ~Reachable(Receiver(act[u].own[1]))

\* The close message is the last one: a descriptor that was told that the
\* other end is gone gets no message, not even from a send that had begun.
NothingAfterClose ==
  [][\A d \in told \cap told' : count'[d] <= count[d]]_vars

\* A live task does not sleep on a pending descriptor: if all its threads poll,
\* a sender is on its way to claim one of them.  The pending descriptors are a
\* set here; SocketList says when the linked list in the code is exactly that.
NoLostWakeup ==
  \A t \in Task :
    /\ state[t] = "live" /\ \E u \in User : Home[u] = t
    /\ \A u \in User : Home[u] = t => u \in asleep
    /\ \E d \in pending : task[d] = t
    => \E a \in Activity : act[a].ref = t /\ "scan" \in {act[a].pc, act[a].next}

\* Activity a waits for the socketsLock that a waiting kill job keeps.
Blocked(a) == At(a, "delete") /\ task[act[a].drop] \in stuck

\* A descriptor that is closed and that nobody has a reference to is freed,
\* whoever gave back the last one: only a kill job that keeps socketsLock while
\* it waits for the descriptor, or for the other end, can prevent it.
ClosedIsFreed ==
  \A d \in Desc :
    d \in isClosed /\ refCount[d] = 0
      ~> d \notin descs \/ task[d] \in stuck \/ Blocked(d) \/ ~Running

\* "Wait for each socket to die" (_free_task_method), "close the socket and wait
\* for it to disappear from the list" (_close_task_sockets_async): a kill job
\* that waits is done some day, and a task that is being reaped becomes free.
ReapingEnds ==
  \A t \in Task : state[t] = "reaping" ~> state[t] = "free" \/ ~Running
=============================================================================
