------------------------------ MODULE SocketList ------------------------------
(***************************************************************************)
(* The socket descriptors of one task (socketlist.c): the hash table under *)
(* socketsLock, the list of descriptors with messages under pendingLock,   *)
(* the numbers, drawn from an IndexPool, and the reference counts          *)
(* (socket.c) that decide when a descriptor leaves both.  The two loops,   *)
(* anscheduler_descriptor_find and anscheduler_task_pop_pending, are       *)
(* modelled iteration by iteration, with their lock held.                  *)
(***************************************************************************)
EXTENDS Naturals, FiniteSets

CONSTANTS
  Desc,      \* descriptor structures
  NULL,      \* the null pointer
  MaxIndex,  \* bound on descriptor numbers
  Buckets,   \* the size of task->sockets, 16 in the code
  MaxRefs,   \* bound on the references to one descriptor; a search that has
             \* begun may still add one
  MaxLost    \* bound on the numbers lost by a failing anidxset_put

ASSUME SocketListAssumption ==
  /\ IsFiniteSet(Desc) /\ NULL \notin Desc
  /\ MaxIndex \in Nat /\ Buckets \in Nat \ {0} /\ MaxRefs \in Nat

VARIABLES
  phase,       \* how far each descriptor has come
  descriptor,  \* desc->descriptor
  refCount,    \* desc->refCount
  isClosed,    \* desc->isClosed
  sockets,     \* the first descriptor of each bucket
  next, last,  \* desc->next and desc->last
  users,       \* which numbers are not in task->descriptors, as in IndexPool
  search,      \* the locals of anscheduler_descriptor_find
  firstPending,              \* task->firstPending
  pendingNext, pendingLast,  \* desc->pendingNext and desc->pendingLast
  waiting,     \* descriptors with messages the task was not told of
  popping      \* is anscheduler_task_pop_pending in its loop?

countVars == <<refCount, isClosed>>
tableVars == <<sockets, next, last>>
links == <<firstPending, pendingNext, pendingLast>>
pendingVars == <<links, waiting, popping>>
vars == <<phase, descriptor, countVars, tableVars, users, search, pendingVars>>

Index == 0 .. MaxIndex
Pool == INSTANCE IndexPool

\* "made": _create_descriptor has not yet put it into the table; "dying": its
\* last reference is gone; "unpended": it is out of the pending list as well;
\* "hangup": also out of the table, not yet freed.
Phase == {"free", "made", "open", "dying", "unpended", "hangup"}

_descriptor_hash(n) == n % Buckets

\* No search is in progress: socketsLock is free.
NoSearch == [on |-> FALSE]
LockFree == ~search.on

Init ==
  /\ phase = [d \in Desc |-> "free"]
  /\ descriptor = [d \in Desc |-> 0]
  /\ refCount = [d \in Desc |-> 0]
  /\ isClosed = [d \in Desc |-> FALSE]
  /\ sockets = [h \in 0 .. Buckets - 1 |-> NULL]
  /\ next = [d \in Desc |-> NULL]
  /\ last = [d \in Desc |-> NULL]
  /\ users = [n \in Index |-> 0]
  /\ search = NoSearch
  /\ firstPending = NULL
  /\ pendingNext = [d \in Desc |-> NULL]
  /\ pendingLast = [d \in Desc |-> NULL]
  /\ waiting = {} /\ popping = FALSE

SetPhase(d, p) == phase' = [phase EXCEPT ![d] = p]

\* Somebody has a reference to d, besides the one _create_descriptor works with
Held(d) ==
  \/ phase[d] = "made" /\ refCount[d] > 1
  \/ phase[d] = "open" /\ refCount[d] > 0

-----------------------------------------------------------------------------
(* _create_descriptor                                                      *)

\* The structure is zeroed and gets a number, under descriptorsLock.
CreateDescriptor(d) ==
  /\ phase[d] = "free"
  /\ \E n \in Index : Pool!Get(n) /\ descriptor' = [descriptor EXCEPT ![d] = n]
  /\ SetPhase(d, "made")
  /\ refCount' = [refCount EXCEPT ![d] = 1]
  /\ isClosed' = [isClosed EXCEPT ![d] = FALSE]
  /\ next' = [next EXCEPT ![d] = NULL]
  /\ last' = [last EXCEPT ![d] = NULL]
  /\ pendingNext' = [pendingNext EXCEPT ![d] = NULL]
  /\ pendingLast' = [pendingLast EXCEPT ![d] = NULL]
  /\ UNCHANGED <<sockets, search, firstPending, waiting, popping>>

\* Seeded fault: the old head does not learn of its new predecessor.
LinkOneWay(d) ==
  LET h == _descriptor_hash(descriptor[d]) IN
    /\ sockets' = [sockets EXCEPT ![h] = d]
    /\ next' = [next EXCEPT ![d] = sockets[h]]
    /\ last' = [last EXCEPT ![d] = NULL]

Link(d) ==
  LET h == _descriptor_hash(descriptor[d]) IN
    /\ sockets' = [sockets EXCEPT ![h] = d]
    /\ next' = [next EXCEPT ![d] = sockets[h]]
    /\ last' = [e \in Desc |-> IF e = d THEN NULL
                               ELSE IF e = sockets[h] THEN d ELSE last[e]]

\* anscheduler_descriptor_set
DescriptorSet(d) ==
  /\ LockFree /\ phase[d] = "made"
  /\ Link(d)
  /\ SetPhase(d, "open")
  /\ UNCHANGED <<descriptor, countVars, users, search, pendingVars>>

-----------------------------------------------------------------------------
(* anscheduler_descriptor_find                                             *)

FindStart(n) ==
  /\ LockFree
  /\ \A d \in Desc : descriptor[d] = n => refCount[d] < MaxRefs
  /\ search' = [on |-> TRUE, want |-> n, obj |-> sockets[_descriptor_hash(n)]]
  /\ UNCHANGED <<phase, descriptor, countVars, tableVars, users, pendingVars>>

Matches == search.on /\ search.obj # NULL /\ descriptor[search.obj] = search.want

\* Found: anscheduler_socket_reference fails if it has been closed.
FindHit ==
  /\ Matches
  /\ LET d == search.obj IN
       refCount' = IF isClosed[d] THEN refCount ELSE [refCount EXCEPT ![d] = @ + 1]
  /\ search' = NoSearch
  /\ UNCHANGED <<phase, descriptor, isClosed, tableVars, users, pendingVars>>

FindMiss ==
  /\ search.on /\ search.obj = NULL
  /\ search' = NoSearch
  /\ UNCHANGED <<phase, descriptor, countVars, tableVars, users, pendingVars>>

\* Another descriptor: the loop has no step that moves on to obj->next.
FindAgain ==
  /\ search.on /\ search.obj # NULL /\ ~Matches
  /\ UNCHANGED vars

-----------------------------------------------------------------------------
(* The pending list.                                                       *)

pendingOnly == <<phase, descriptor, countVars, tableVars, users, search>>

\* The test with which both functions find out whether d is in the list
IsPending(d) ==
  pendingLast[d] # NULL \/ pendingNext[d] # NULL \/ firstPending = d

\* Seeded fault: the old head does not learn of its new predecessor.
PrependOneWay(d) ==
  /\ pendingLast' = pendingLast
  /\ pendingNext' = [pendingNext EXCEPT ![d] = firstPending]
  /\ firstPending' = d

Prepend(d) ==
  /\ pendingLast' = [e \in Desc |-> IF e = firstPending THEN d ELSE pendingLast[e]]
  /\ pendingNext' = [pendingNext EXCEPT ![d] = firstPending]
  /\ firstPending' = d

\* anscheduler_task_pending, by a sender with a reference to d
Pending(d) ==
  /\ ~popping /\ Held(d)
  /\ waiting' = waiting \cup {d}
  /\ IF IsPending(d) THEN UNCHANGED links ELSE Prepend(d)
  /\ UNCHANGED <<pendingOnly, popping>>

-----------------------------------------------------------------------------
(* anscheduler_task_pop_pending, whose loop holds pendingLock.             *)

PopStart ==
  /\ ~popping
  /\ popping' = TRUE
  /\ UNCHANGED <<pendingOnly, links, waiting>>

\* The head leaves the list; the new head keeps its pendingLast.
Shift ==
  /\ popping /\ firstPending # NULL
  /\ firstPending' = pendingNext[firstPending]
  /\ pendingNext' = [pendingNext EXCEPT ![firstPending] = NULL]
  /\ pendingLast' = [pendingLast EXCEPT ![firstPending] = NULL]
  /\ waiting' = waiting \ {firstPending}

\* It is open, so it is referenced and returned.
PopOpen ==
  /\ Shift /\ ~isClosed[firstPending] /\ refCount[firstPending] < MaxRefs
  /\ refCount' = [refCount EXCEPT ![firstPending] = @ + 1]
  /\ popping' = FALSE
  /\ UNCHANGED <<phase, descriptor, isClosed, tableVars, users, search>>

\* It is closed: the reference fails and the loop goes on.
PopClosed ==
  /\ Shift /\ isClosed[firstPending]
  /\ UNCHANGED <<pendingOnly, popping>>

PopNone ==
  /\ popping /\ firstPending = NULL
  /\ popping' = FALSE
  /\ UNCHANGED <<pendingOnly, links, waiting>>

-----------------------------------------------------------------------------
(* References and closing.                                                 *)

\* anscheduler_socket_reference by the other end, which sends a message
SocketReference(d) ==
  /\ phase[d] \in {"made", "open"} /\ ~isClosed[d]
  /\ refCount[d] < MaxRefs
  /\ refCount' = [refCount EXCEPT ![d] = @ + 1]
  /\ UNCHANGED <<phase, descriptor, isClosed, tableVars, users, search,
                 pendingVars>>

\* anscheduler_socket_close, by somebody with a reference
SocketClose(d) ==
  /\ Held(d) /\ ~isClosed[d]
  /\ isClosed' = [isClosed EXCEPT ![d] = TRUE]
  /\ UNCHANGED <<phase, descriptor, refCount, tableVars, users, search,
                 pendingVars>>

\* Seeded fault: the number is given back before the descriptor is unlinked.
SocketDereferenceEarly(d) ==
  /\ Held(d)
  /\ refCount' = [refCount EXCEPT ![d] = @ - 1]
  /\ IF refCount[d] = 1 /\ isClosed[d]
       THEN SetPhase(d, "dying") /\ Pool!Put(descriptor[d])
       ELSE UNCHANGED <<phase, users>>
  /\ UNCHANGED <<descriptor, isClosed, tableVars, search, pendingVars>>

\* anscheduler_socket_dereference, under closeLock
SocketDereference(d) ==
  /\ Held(d)
  /\ refCount' = [refCount EXCEPT ![d] = @ - 1]
  /\ phase' = IF refCount[d] = 1 /\ isClosed[d]
                THEN [phase EXCEPT ![d] = "dying"] ELSE phase
  /\ UNCHANGED <<descriptor, isClosed, tableVars, users, search, pendingVars>>

Remove(d) ==
  /\ firstPending' = IF pendingLast[d] = NULL THEN pendingNext[d] ELSE firstPending
  /\ pendingNext' = [e \in Desc |-> IF e = d THEN NULL
                                    ELSE IF e = pendingLast[d] THEN pendingNext[d]
                                    ELSE pendingNext[e]]
  /\ pendingLast' = [e \in Desc |-> IF e = d THEN NULL
                                    ELSE IF e = pendingNext[d] THEN pendingLast[d]
                                    ELSE pendingLast[e]]

\* A pop has made d the head, and d still has its link back.
StaleHead(d) == d = firstPending /\ pendingLast[d] # NULL

\* anscheduler_task_not_pending, once the last reference is gone.  A stale
\* head is taken for one behind another, and stays the head.
NotPending(d) ==
  /\ ~popping /\ phase[d] = "dying"
  /\ \/ IsPending(d) /\ ~StaleHead(d) /\ Remove(d)
     \/ IsPending(d) /\ StaleHead(d) /\ Remove(d)
     \/ ~IsPending(d) /\ UNCHANGED links
  /\ waiting' = waiting \ {d}
  /\ SetPhase(d, "unpended")
  /\ UNCHANGED <<descriptor, countVars, tableVars, users, search, popping>>

Unlink(d) ==
  /\ sockets' = IF last[d] = NULL
                  THEN [sockets EXCEPT ![_descriptor_hash(descriptor[d])] = next[d]]
                  ELSE sockets
  /\ next' = [e \in Desc |-> IF e = d THEN NULL
                             ELSE IF e = last[d] THEN next[d] ELSE next[e]]
  /\ last' = [e \in Desc |-> IF e = d THEN NULL
                             ELSE IF e = next[d] THEN last[d] ELSE last[e]]

\* Numbers that nobody has and nobody will get
Lost == {n \in Index : users[n] = 1}
          \ {descriptor[d] : d \in {e \in Desc : phase[e] \in {"made", "open", "dying", "unpended"}}}

\* anscheduler_descriptor_delete: the number is given back, or lost if
\* anidxset_put fails, before socketsLock is released.
DescriptorDelete(d) ==
  /\ LockFree /\ phase[d] = "unpended"
  /\ Unlink(d)
  /\ \/ Pool!Put(descriptor[d])
     \/ Cardinality(Lost) < MaxLost /\ UNCHANGED users
  /\ SetPhase(d, "hangup")
  /\ UNCHANGED <<descriptor, countVars, search, pendingVars>>

\* The end of _socket_hangup, in a kernel thread of its own
HangupFree(d) ==
  /\ phase[d] = "hangup"
  /\ SetPhase(d, "free")
  /\ UNCHANGED <<descriptor, countVars, tableVars, users, search, pendingVars>>

-----------------------------------------------------------------------------
FindStep == FindHit \/ FindMiss \/ FindAgain

Next ==
  \/ \E d \in Desc :
       \/ CreateDescriptor(d) \/ DescriptorSet(d) \/ SocketClose(d)
       \/ SocketReference(d) \/ SocketDereference(d) \/ Pending(d)
       \/ NotPending(d) \/ DescriptorDelete(d) \/ HangupFree(d)
  \/ \E n \in Index : FindStart(n)
  \/ FindStep
  \/ PopStart \/ PopOpen \/ PopClosed \/ PopNone

Spec == Init /\ [][Next]_vars

\* A CPU that holds socketsLock keeps executing.
FairSpec == Spec /\ WF_vars(FindStep)

-----------------------------------------------------------------------------
Listed == {d \in Desc : phase[d] \in {"open", "dying", "unpended"}}

\* Types; and a descriptor outside the table has no links into it.
TypeOK ==
  /\ phase \in [Desc -> Phase]
  /\ descriptor \in [Desc -> Index]
  /\ refCount \in [Desc -> 0 .. MaxRefs + 1]
  /\ isClosed \in [Desc -> BOOLEAN]
  /\ sockets \in [0 .. Buckets - 1 -> Desc \cup {NULL}]
  /\ next \in [Desc -> Desc \cup {NULL}]
  /\ last \in [Desc -> Desc \cup {NULL}]
  /\ users \in [Index -> 0 .. 1]
  /\ search = NoSearch \/ search \in [on : {TRUE}, want : Index, obj : Desc \cup {NULL}]
  /\ firstPending \in Desc \cup {NULL}
  /\ pendingNext \in [Desc -> Desc \cup {NULL}]
  /\ pendingLast \in [Desc -> Desc \cup {NULL}]
  /\ waiting \subseteq Desc /\ popping \in BOOLEAN
  /\ \A d \in Desc \ Listed : next[d] = NULL /\ last[d] = NULL

\* The n-th descriptor from the head of bucket h on
Bucket(h) ==
  LET at[n \in 0 .. Cardinality(Desc)] ==
        IF n = 0 THEN sockets[h]
        ELSE IF at[n - 1] = NULL THEN NULL ELSE next[at[n - 1]]
  IN at

\* Every bucket is a doubly linked list of exactly the listed descriptors of
\* its hash.  In particular an open descriptor with a reference is in the
\* table, on which "the task cannot die until every socket it owns has died"
\* (socket.c) rests.
WellFormed ==
  /\ TypeOK
  /\ \A h \in DOMAIN sockets :
       /\ sockets[h] # NULL => last[sockets[h]] = NULL
       /\ Bucket(h)[Cardinality(Desc)] = NULL
       /\ {Bucket(h)[n] : n \in DOMAIN Bucket(h)} \ {NULL}
            = {d \in Listed : _descriptor_hash(descriptor[d]) = h}
  /\ \A d, e \in Desc : next[d] = e <=> last[e] = d

\* A number names one descriptor of the table, also while a closed descriptor
\* is leaving it and its number is used again.
NumberNamesOne ==
  \A d, e \in Listed : descriptor[d] = descriptor[e] => d = e

\* "Finds the socket for a socket descriptor in the current task" (socket.h):
\* anscheduler_descriptor_find returns.
FindEnds == search.on ~> ~search.on

-----------------------------------------------------------------------------
\* s gives, in order, the k descriptors of the list that starts at f and has
\* the links n and l.  Where the first of them leads back to is left open.
IsChain(s, k, f, n, l) ==
  /\ k \in Nat /\ s \in [1 .. k -> Desc]
  /\ \A i, j \in 1 .. k : s[i] = s[j] => i = j
  /\ f = IF k = 0 THEN NULL ELSE s[1]
  /\ \A i \in 1 .. k : n[s[i]] = IF i = k THEN NULL ELSE s[i + 1]
  /\ \A i \in 2 .. k : l[s[i]] = s[i - 1]

In(d, s, k) == \E i \in 1 .. k : s[i] = d

\* The pending list has exactly the descriptors with messages the task was
\* not told of, none of them freed, and the others have no links.
PendingExact ==
  /\ \E k \in 0 .. Cardinality(Desc) : \E s \in [1 .. k -> Desc] :
       /\ IsChain(s, k, firstPending, pendingNext, pendingLast)
       /\ \A d \in Desc : d \in waiting <=> In(d, s, k)
  /\ waiting \subseteq {d \in Desc : phase[d] \in {"made", "open", "dying"}}
  /\ \A d \in Desc \ waiting : pendingNext[d] = NULL /\ pendingLast[d] = NULL

StaleHeadDies == \E d \in Desc : StaleHead(d) /\ NotPending(d)

\* "If NULL is returned, no sockets are currently pending" (socket.h) needs an
\* exact pending list.  It is, and the only step that ever spoils it is the
\* death of a descriptor that a pop of another one has made the head
\* (anscheduler_task_pop_pending leaves the new head its link back).
OnlyStaleHeads ==
  PendingExact /\ [][PendingExact => PendingExact' \/ StaleHeadDies]_vars
=============================================================================
