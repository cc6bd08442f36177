------------------------------- MODULE AnIdxSet -------------------------------
(***************************************************************************)
(* The set of free indexes of lib/anidxset: a stack of pages, each of      *)
(* which is a stack of indexes.  Its users call it under a lock of their   *)
(* own (ppLock, stacksLock, descriptorsLock), so one call is one step.     *)
(***************************************************************************)
EXTENDS Naturals, Sequences, FiniteSets, SequencesExt

CONSTANTS
  Capacity,  \* ANIDXSET_NODE_CAPACITY, 510 in the code
  MaxUsed    \* bound on the number of indexes ever made

ASSUME CapacityAssumption ==
  Capacity \in Nat \ {0} /\ MaxUsed \in Nat /\ Capacity <= MaxUsed

VARIABLES
  used,   \* root->used: all smaller numbers have been made
  nodes,  \* root->first and its successors; node->indexes up to node->count
  out,    \* how many callers have each index
  lost    \* the indexes that anidxset_put failed to take back

setVars == <<used, nodes, out, lost>>

Index == 0 .. MaxUsed

\* A page with the n-th to the (n + Capacity - 1)-th index, smallest on top
Page(n) == [i \in 1 .. Capacity |-> n + Capacity - i]

\* anidxset_initialize
SetInit ==
  /\ used = Capacity
  /\ nodes = <<Page(0)>>
  /\ out = [v \in Index |-> 0] /\ lost = {}

first == Head(nodes)

-----------------------------------------------------------------------------
(* anidxset_get                                                            *)

\* The last line: indexes[--count] of the first node
TakeFrom(ns) ==
  /\ nodes' = [ns EXCEPT ![1] = Front(@)]
  /\ out' = [out EXCEPT ![Last(Head(ns))] = @ + 1]
  /\ lost' = lost

GetFirst ==
  /\ first # <<>>
  /\ TakeFrom(nodes)
  /\ used' = used

\* The emptied page is freed.
GetNext ==
  /\ first = <<>> /\ Len(nodes) > 1
  /\ TakeFrom(Tail(nodes))
  /\ used' = used

\* Seeded fault: used counts one index too few.
GetNewShort ==
  /\ first = <<>> /\ Len(nodes) = 1
  /\ used + Capacity <= MaxUsed
  /\ TakeFrom(<<Page(used)>>)
  /\ used' = used + Capacity - 1

\* _allocate_next_page refills the only page.
GetNew ==
  /\ first = <<>> /\ Len(nodes) = 1
  /\ used + Capacity <= MaxUsed
  /\ TakeFrom(<<Page(used)>>)
  /\ used' = used + Capacity

-----------------------------------------------------------------------------
(* anidxset_put                                                            *)

Full == Len(first) = Capacity

\* Seeded fault: the new page does not keep the old ones.
PutNewUnlinked(v) ==
  /\ Full
  /\ nodes' = <<<<v>>>>
  /\ out' = [out EXCEPT ![v] = @ - 1]
  /\ UNCHANGED <<used, lost>>

\* A new page becomes the first.
PutNew(v) ==
  /\ Full
  /\ nodes' = <<<<v>>>> \o nodes
  /\ out' = [out EXCEPT ![v] = @ - 1]
  /\ UNCHANGED <<used, lost>>

\* root->alloc failed: no caller looks at the result.
PutFails(v) ==
  /\ Full
  /\ out' = [out EXCEPT ![v] = @ - 1]
  /\ lost' = lost \cup {v}
  /\ UNCHANGED <<used, nodes>>

PutFirst(v) ==
  /\ ~Full
  /\ nodes' = [nodes EXCEPT ![1] = Append(@, v)]
  /\ out' = [out EXCEPT ![v] = @ - 1]
  /\ UNCHANGED <<used, lost>>

SetNext ==
  \/ GetFirst \/ GetNext \/ GetNew
  \/ \E v \in {i \in Index : out[i] > 0} : PutNew(v) \/ PutFails(v) \/ PutFirst(v)

SetSpec == SetInit /\ [][SetNext]_setVars

-----------------------------------------------------------------------------
SetTypeOK ==
  /\ used \in 0 .. MaxUsed
  /\ nodes # <<>>
  /\ \A k \in DOMAIN nodes : nodes[k] \in Seq(Nat) /\ Len(nodes[k]) <= Capacity
  /\ out \in [Index -> Nat] /\ lost \subseteq Index

\* The places in the pages that have index v
Slots(v) == {s \in (DOMAIN nodes) \X (1 .. Capacity) :
               s[2] <= Len(nodes[s[1]]) /\ nodes[s[1]][s[2]] = v}

\* How many of them are gone from the pages, with callers or lost
Gone(v) == out[v] + (IF v \in lost THEN 1 ELSE 0)

\* Every index that was ever made is in exactly one place: once in a page,
\* with one caller, or lost by an anidxset_put that could not allocate.  And
\* only the first page is partly filled: the page that anidxset_get moves on
\* to has an index to give.
Partition ==
  /\ SetTypeOK
  /\ \A v \in Index : Cardinality(Slots(v)) + Gone(v) = IF v < used THEN 1 ELSE 0
  /\ \A k \in 2 .. Len(nodes) : Len(nodes[k]) = Capacity

\* A number is never given to two callers.
Pool == INSTANCE IndexPool WITH users <- [v \in Index |-> Gone(v)]

IsIndexPool == Pool!Spec
=============================================================================
