---------------------------- MODULE AnLockProofs ----------------------------
(***************************************************************************)
(* The ticket lock excludes, and hands itself over in the order in which   *)
(* the tickets were drawn, for any number of CPUs below Base: the type     *)
(* invariant and mutual exclusion of AnLock, proved from an inductive      *)
(* invariant about the tickets of those who hold or want the lock, and     *)
(* from the same invariant the refinement of FifoLock.                     *)
(***************************************************************************)
EXTENDS AnLock, FiniteSetTheorems, SequenceTheorems, TLAPS

Contenders == {p \in Proc : pc[p] # "out"}

\* The lower half counts the contenders, their tickets are different and lie
\* within lower unlocks from now, and whoever is inside has the ticket upper.
TicketInv ==
  /\ lower = Cardinality(Contenders)
  /\ \A p \in Contenders : Distance(p) < lower
  /\ \A p, q \in Contenders : waitUntil[p] = waitUntil[q] => p = q
  /\ \A p \in Proc : pc[p] = "in" => waitUntil[p] = upper

IInv == TypeOK /\ TicketInv

\* There are fewer contenders than values of a half word.
LEMMA ContendersBounded ==
  /\ IsFiniteSet(Contenders)
  /\ Cardinality(Contenders) \in Nat
  /\ Cardinality(Contenders) <= Cardinality(Proc)
  /\ Cardinality(Proc) \in Nat
BY LockAssumption, FS_Subset, FS_CardinalityType DEF Contenders

\* The free lock satisfies the invariant.
LEMMA InitIInv == Init => IInv
<1> SUFFICES ASSUME Init PROVE IInv
  OBVIOUS
<1>1. Base \in Nat /\ Base > 0
  BY ContendersBounded, LockAssumption
<1>2. Contenders = {}
  BY DEF Contenders, Init
<1>3. Cardinality(Contenders) = 0
  BY <1>2, FS_EmptySet
<1>4. TypeOK
  BY <1>1 DEF TypeOK, Init, Half
<1>5. TicketInv
  BY <1>2, <1>3 DEF TicketInv, Init
<1> QED
  BY <1>4, <1>5 DEF IInv

\* A CPU that does the fetch-and-add gets a ticket that nobody has.
LEMMA LockStep == ASSUME IInv, NEW r \in Proc, Lock(r) PROVE IInv'
<1>0. /\ Base \in Nat /\ upper \in Half /\ lower \in Half
      /\ pc \in [Proc -> {"out", "wait", "in"}] /\ waitUntil \in [Proc -> Half]
  BY LockAssumption DEF IInv, TypeOK
<1>1. r \notin Contenders /\ Contenders' = Contenders \cup {r}
  BY <1>0 DEF Lock, Contenders
<1>2. Cardinality(Contenders') = lower + 1
  BY <1>1, ContendersBounded, FS_AddElement DEF IInv, TicketInv
<1>3. lower + 1 < Base
  <2>1. IsFiniteSet(Contenders') /\ Contenders' \subseteq Proc
    BY ContendersBounded, <1>1, FS_AddElement DEF Contenders
  <2>2. Cardinality(Contenders') <= Cardinality(Proc)
    BY <2>1, LockAssumption, FS_Subset
  <2> QED
    BY <2>2, <1>0, <1>2, ContendersBounded, LockAssumption DEF Half
<1>4. lower' = lower + 1 /\ upper' = upper
  BY <1>0, <1>3 DEF Lock, AddAtomic, Wrap, Half
<1>5. /\ waitUntil' = [waitUntil EXCEPT ![r] = TicketOf(upper, lower)]
      /\ TicketOf(upper, lower) \in Half
  BY <1>0 DEF Lock, TicketOf, Wrap, Half
<1>6. TypeOK'
  BY <1>0, <1>3, <1>4, <1>5 DEF TypeOK, Lock, Half
<1>7. Distance(r)' = lower
  BY <1>0, <1>4, <1>5 DEF Distance, TicketOf, Wrap, Half
<1>8. \A p \in Contenders : Distance(p)' = Distance(p) /\ waitUntil'[p] = waitUntil[p]
  BY <1>0, <1>1, <1>4, <1>5 DEF Distance, Contenders
<1>9. \A p \in Contenders' : Distance(p)' < lower'
  BY <1>0, <1>1, <1>4, <1>7, <1>8 DEF IInv, TicketInv, Distance, Half, Contenders
<1>10. \A p \in Contenders : waitUntil'[p] # waitUntil'[r]
  <2> SUFFICES ASSUME NEW p \in Contenders, waitUntil'[p] = waitUntil'[r]
               PROVE  FALSE
    OBVIOUS
  <2>1. Distance(p)' = Distance(r)'
    BY DEF Distance
  <2>2. Distance(p) = lower
    BY <2>1, <1>7, <1>8
  <2> QED
    BY <2>2, <1>0 DEF IInv, TicketInv, Half
<1>11. \A p, q \in Contenders' : waitUntil'[p] = waitUntil'[q] => p = q
  BY <1>1, <1>8, <1>10 DEF IInv, TicketInv
<1>12. \A p \in Proc : pc'[p] = "in" => waitUntil'[p] = upper'
  BY <1>0, <1>4, <1>5 DEF IInv, TicketInv, Lock, TicketOf, Wrap, Half
<1> QED
  BY <1>2, <1>4, <1>6, <1>9, <1>11, <1>12 DEF IInv, TicketInv

\* A CPU that leaves the lock moves everyone else one place forward.
LEMMA UnlockStep == ASSUME IInv, NEW r \in Proc, Unlock(r) PROVE IInv'
<1>0. /\ Base \in Nat /\ upper \in Half /\ lower \in Half
      /\ pc \in [Proc -> {"out", "wait", "in"}] /\ waitUntil \in [Proc -> Half]
  BY LockAssumption DEF IInv, TypeOK
<1>1. r \in Contenders /\ Contenders' = Contenders \ {r}
  BY <1>0 DEF Unlock, Contenders
<1>2. Cardinality(Contenders') = lower - 1
  BY <1>1, ContendersBounded, FS_RemoveElement DEF IInv, TicketInv
<1>3. waitUntil[r] = upper
  BY DEF IInv, TicketInv, Unlock
<1>4. lower > 0
  BY <1>0, <1>1, <1>3 DEF IInv, TicketInv, Distance, Half
<1>5. lower' = lower - 1 /\ upper' = Wrap(upper + 1) /\ waitUntil' = waitUntil
  BY <1>0, <1>4 DEF Unlock, AddAtomic, Wrap, Half
<1>6. TypeOK'
  BY <1>0, <1>4, <1>5 DEF TypeOK, Unlock, Wrap, Half
<1>7. \A p \in Contenders' : waitUntil[p] # upper
  BY <1>1, <1>3 DEF IInv, TicketInv
<1>8. \A p \in Contenders' : Distance(p)' = Distance(p) - 1
  BY <1>0, <1>5, <1>7 DEF Distance, Wrap, Half, Contenders
<1>9. \A p \in Contenders' : Distance(p)' < lower'
  BY <1>0, <1>1, <1>5, <1>8 DEF IInv, TicketInv, Distance, Half, Contenders
<1>10. \A p \in Proc : pc'[p] # "in"
  BY <1>0, <1>3 DEF IInv, TicketInv, Unlock, Contenders
<1> QED
  BY <1>1, <1>2, <1>5, <1>6, <1>9, <1>10 DEF IInv, TicketInv

\* Entering changes neither the word nor a ticket.
LEMMA SpinStep == ASSUME IInv, NEW r \in Proc, SpinDone(r) PROVE IInv'
<1>1. pc \in [Proc -> {"out", "wait", "in"}]
  BY DEF IInv, TypeOK
<1>2. Contenders' = Contenders
  BY <1>1 DEF SpinDone, Contenders
<1>3. TypeOK'
  BY DEF IInv, TypeOK, SpinDone
<1>4. TicketInv'
  BY <1>1, <1>2 DEF IInv, TicketInv, SpinDone, Distance
<1> QED
  BY <1>3, <1>4 DEF IInv

\* Every step of anlock.c keeps the tickets consistent with the lock word.
LEMMA NextIInv == IInv /\ [Next]_vars => IInv'
<1>1. ASSUME IInv, UNCHANGED vars PROVE IInv'
  BY <1>1 DEF IInv, TypeOK, TicketInv, Contenders, Distance, vars
<1> QED
  BY <1>1, LockStep, UnlockStep, SpinStep DEF Next

\* In every reachable state the tickets of the contenders of anlock_lock are
\* distinct and run from upper on, as far as lower counts.
THEOREM Invariance == Spec => []IInv
BY InitIInv, NextIInv, PTL DEF Spec

\* The halves of the word and the tickets stay within their range: neither
\* half overflows into the other.
THEOREM TypeCorrect == Spec => []TypeOK
<1>1. IInv => TypeOK
  BY DEF IInv
<1> QED
  BY <1>1, Invariance, PTL

\* anlock_lock and anlock_unlock exclude, for every number of CPUs below Base.
THEOREM Exclusion == Spec => []MutualExclusion
<1>1. IInv => MutualExclusion
  BY DEF IInv, TicketInv, MutualExclusion, Contenders
<1> QED
  BY <1>1, Invariance, PTL

-----------------------------------------------------------------------------
(* The lock implements the queue of FifoLock.                              *)

\* Who is k-th in line
Place(k) == CHOOSE p \in Proc : pc[p] # "out" /\ Distance(p) = k - 1

Line == [k \in 1 .. lower |-> Place(k)]
Holding == {p \in Proc : pc[p] = "in"}

\* Each place in line is taken, by one CPU: there are as many contenders as
\* places, and no two have the same ticket.
Lined ==
  /\ \A k \in 1 .. lower : Place(k) \in Contenders /\ Distance(Place(k)) = k - 1
  /\ \A p \in Contenders, k \in 1 .. lower : Distance(p) = k - 1 => Place(k) = p
  /\ \A p \in Contenders : Distance(p) \in 0 .. lower - 1

\* The tickets of the contenders are those from upper on, one for each place.
LEMMA TicketsLined == IInv => Lined
<1> SUFFICES ASSUME IInv PROVE Lined
  OBVIOUS
<1>0. /\ Base \in Nat /\ upper \in Half /\ lower \in Half
      /\ waitUntil \in [Proc -> Half] /\ Contenders \subseteq Proc
  BY LockAssumption DEF IInv, TypeOK, Contenders
<1>1. \A p \in Contenders : Distance(p) \in 0 .. lower - 1
  BY <1>0 DEF IInv, TicketInv, Distance, Half
<1>2. \A p, q \in Contenders : Distance(p) = Distance(q) => p = q
  <2>1. \A p, q \in Contenders : Distance(p) = Distance(q) => waitUntil[p] = waitUntil[q]
    BY <1>0 DEF Distance, Half
  <2> QED
    BY <2>1 DEF IInv, TicketInv
<1> DEFINE f == [p \in Contenders |-> Distance(p)]
           T == 0 .. lower - 1
<1>3. f \in Injection(Contenders, T)
  BY <1>1, <1>2 DEF Injection, IsInjective
<1>4. IsFiniteSet(T) /\ Cardinality(T) = lower
  BY <1>0, FS_Interval DEF Half
<1>5. Cardinality(Contenders) = Cardinality(T)
  BY <1>4 DEF IInv, TicketInv
<1>6. f \in Surjection(Contenders, T)
  BY <1>3, <1>4, <1>5, FS_Injection
<1>7. \A k \in 1 .. lower : \E p \in Contenders : Distance(p) = k - 1
  <2> TAKE k \in 1 .. lower
  <2>1. k - 1 \in T
    BY <1>0 DEF Half
  <2> QED
    BY <1>6, <2>1 DEF Surjection
<1>8. \A k \in 1 .. lower : Place(k) \in Contenders /\ Distance(Place(k)) = k - 1
  BY <1>7 DEF Place, Contenders
<1>9. \A p \in Contenders, k \in 1 .. lower : Distance(p) = k - 1 => Place(k) = p
  BY <1>2, <1>8
<1> QED
  BY <1>1, <1>8, <1>9 DEF Lined

\* The same after a step
LEMMA TicketsLinedNext == IInv' => Lined'
BY TicketsLined, PTL

\* The line is a sequence of CPUs.
LEMMA LineType ==
  ASSUME IInv
  PROVE  /\ lower \in Nat /\ Line \in Seq(Proc) /\ Len(Line) = lower
         /\ \A k \in 1 .. lower : Line[k] = Place(k)
<1>1. lower \in Nat
  BY LockAssumption DEF IInv, TypeOK, Half
<1>2. \A k \in 1 .. lower : Place(k) \in Proc
  BY TicketsLined DEF Lined, Contenders
<1> QED
  BY <1>1, <1>2 DEF Line

\* The fetch-and-add puts the CPU at the end of the line; it is inside at once
\* if the line was empty.
LEMMA LockQueues ==
  ASSUME IInv, IInv', NEW r \in Proc, Lock(r)
  PROVE  Queue!Next
<1>0. /\ Base \in Nat /\ upper \in Half /\ lower \in Half
      /\ pc \in [Proc -> {"out", "wait", "in"}] /\ waitUntil \in [Proc -> Half]
  BY LockAssumption DEF IInv, TypeOK
<1>1. r \notin Contenders /\ Contenders' = Contenders \cup {r}
  BY <1>0 DEF Lock, Contenders
<1>2. lower' = lower + 1 /\ upper' = upper
  <2>1. lower' \in Half /\ lower' = Cardinality(Contenders')
    BY DEF IInv, TypeOK, TicketInv
  <2>2. Cardinality(Contenders') = lower + 1
    BY <1>1, ContendersBounded, FS_AddElement DEF IInv, TicketInv
  <2> QED
    BY <1>0, <2>1, <2>2 DEF Lock, AddAtomic, Half
<1>3. Distance(r)' = lower
  BY <1>0, <1>2 DEF Lock, Distance, TicketOf, Wrap, Half
<1>4. \A p \in Contenders : Distance(p)' = Distance(p)
  BY <1>0, <1>1, <1>2 DEF Lock, Distance, Contenders
<1>5. PICK n \in Nat : n = lower
  BY <1>0 DEF Half
<1>6. /\ \A k \in 1 .. n : Place(k)' = Place(k)
      /\ Place(n + 1)' = r
  <2>1. \A k \in 1 .. n : Place(k) \in Contenders /\ Distance(Place(k)) = k - 1
    BY <1>5, TicketsLined DEF Lined
  <2>2. \A p \in Contenders', k \in 1 .. n + 1 : Distance(p)' = k - 1 => Place(k)' = p
    BY <1>2, <1>5, TicketsLinedNext DEF Lined
  <2>3. ASSUME NEW k \in 1 .. n PROVE Place(k)' = Place(k)
    <3>1. PICK p \in Contenders : p = Place(k)
      BY <2>1
    <3>2. Distance(p)' = k - 1
      BY <1>4, <2>1, <3>1
    <3> QED
      BY <1>1, <2>2, <3>1, <3>2
  <2>4. Place(n + 1)' = r
    BY <1>1, <1>3, <1>5, <2>2
  <2> QED
    BY <2>3, <2>4
<1>7. Line' = Append(Line, r)
  <2>1. Line' = [k \in 1 .. n + 1 |-> Place(k)']
    BY <1>2, <1>5 DEF Line
  <2>2. Line = [k \in 1 .. n |-> Place(k)]
    BY <1>5 DEF Line
  <2>3. Line \in Seq(Proc) /\ Len(Line) = n
    BY <1>5, LineType
  <2>4. \A k \in 1 .. n + 1 : Place(k)' = IF k = n + 1 THEN r ELSE Line[k]
    BY <1>6, <2>2
  <2>5. Line' \in Seq(Proc) /\ Len(Line') = n + 1
    <3>1. \A k \in 1 .. n + 1 : Place(k)' \in Proc
      BY <2>2, <2>3, <2>4
    <3> QED
      BY <2>1, <3>1
  <2> HIDE DEF Line
  <2>6. /\ Append(Line, r) \in Seq(Proc) /\ Len(Append(Line, r)) = n + 1
        /\ \A k \in 1 .. n + 1 : Append(Line, r)[k] = IF k = n + 1 THEN r ELSE Line[k]
    BY <2>3
  <2> QED
    BY <2>1, <2>4, <2>5, <2>6, SeqEqual
<1>8. CASE lower = 0
  <2>1. Line = <<>> /\ Line' = <<r>>
    BY <1>7, <1>8, LineType
  <2>2. Contenders = {}
    BY <1>8, ContendersBounded, FS_EmptySet DEF IInv, TicketInv
  <2>3. Holding' = {r}
    BY <1>0, <1>8, <2>2 DEF Holding, Lock, Contenders
  <2>4. Queue!AskFree(r)
    BY <2>1, <2>3 DEF Queue!AskFree, Line, Place, Holding
  <2> QED
    BY <2>4 DEF Queue!Next
<1>9. CASE lower # 0
  <2>1. Holding' = Holding
    BY <1>0, <1>9 DEF Holding, Lock
  <2>2. \A k \in DOMAIN Line : Line[k] # r
    BY <1>1, TicketsLined DEF Line, Lined
  <2>3. Queue!Ask(r)
    BY <1>7, <2>1, <2>2 DEF Queue!Ask, Queue!InLine, Line, Place, Holding
  <2> QED
    BY <2>3 DEF Queue!Next
<1> QED
  BY <1>8, <1>9

\* The CPU that finds its ticket called is the first in line.
LEMMA SpinEnters ==
  ASSUME IInv, IInv', NEW r \in Proc, SpinDone(r)
  PROVE  Queue!Next
<1>0. /\ Base \in Nat /\ upper \in Half /\ lower \in Half
      /\ pc \in [Proc -> {"out", "wait", "in"}]
  BY LockAssumption DEF IInv, TypeOK
<1>1. r \in Contenders /\ Distance(r) = 0
  BY <1>0 DEF SpinDone, Contenders, Distance, Half
<1>2. lower > 0 /\ Place(1) = r
  BY <1>0, <1>1, TicketsLined DEF Lined, Half
<1>3. Line # <<>> /\ Head(Line) = r
  <2>1. Line \in Seq(Proc) /\ Len(Line) = lower /\ Line[1] = Place(1)
    BY <1>0, <1>2, LineType
  <2> HIDE DEF Line
  <2> QED
    BY <1>2, <2>1
<1>4. Line' = Line
  <2>1. PICK n \in Nat : n = lower
    BY <1>0 DEF Half
  <2>2. \A k \in 1 .. n : Place(k)' = Place(k)
    <3>1. \A k \in 1 .. n : Place(k) \in Contenders /\ Distance(Place(k)) = k - 1
      BY <2>1, TicketsLined DEF Lined
    <3>2. Contenders' = Contenders /\ \A p \in Proc : Distance(p)' = Distance(p)
      BY <1>0 DEF SpinDone, Contenders, Distance
    <3>3. \A p \in Contenders, k \in 1 .. n : Distance(p)' = k - 1 => Place(k)' = p
      BY <2>1, <3>2, TicketsLinedNext DEF Lined, SpinDone
    <3> TAKE k \in 1 .. n
    <3>4. PICK p \in Contenders : p = Place(k)
      BY <3>1
    <3>5. Distance(p)' = k - 1
      BY <3>1, <3>2, <3>4 DEF Contenders
    <3> QED
      BY <3>3, <3>4, <3>5
  <2>3. Line' = [k \in 1 .. n |-> Place(k)'] /\ Line = [k \in 1 .. n |-> Place(k)]
    BY <2>1 DEF Line, SpinDone
  <2> QED
    BY <2>2, <2>3
<1>5. r \notin Holding /\ Holding' = {r}
  BY <1>0 DEF IInv, TicketInv, SpinDone, Holding, Contenders
<1>6. Queue!Enter(r)
  BY <1>3, <1>4, <1>5 DEF Queue!Enter, Line, Place, Holding
<1> QED
  BY <1>6 DEF Queue!Next

\* The addition of the unlock lets everyone move one place forward.
LEMMA UnlockLeaves ==
  ASSUME IInv, IInv', NEW r \in Proc, Unlock(r)
  PROVE  Queue!Next
<1>0. /\ Base \in Nat /\ upper \in Half /\ lower \in Half
      /\ pc \in [Proc -> {"out", "wait", "in"}] /\ waitUntil \in [Proc -> Half]
  BY LockAssumption DEF IInv, TypeOK
<1>1. r \in Contenders /\ Contenders' = Contenders \ {r}
  BY <1>0 DEF Unlock, Contenders
<1>2. waitUntil[r] = upper
  BY DEF IInv, TicketInv, Unlock
<1>3. lower > 0 /\ Distance(r) = 0
  BY <1>0, <1>1, <1>2 DEF IInv, TicketInv, Distance, Half
<1>4. lower' = lower - 1 /\ upper' = Wrap(upper + 1) /\ waitUntil' = waitUntil
  BY <1>0, <1>3 DEF Unlock, AddAtomic, Wrap, Half
<1>5. \A p \in Contenders' : Distance(p)' = Distance(p) - 1
  <2>1. \A p \in Contenders' : waitUntil[p] # upper
    BY <1>1, <1>2 DEF IInv, TicketInv
  <2> QED
    BY <1>0, <1>4, <2>1 DEF Distance, Wrap, Half, Contenders
<1>6. PICK n \in Nat : n + 1 = lower
  BY <1>0, <1>3 DEF Half
<1>7. \A k \in 1 .. n : Place(k)' = Place(k + 1)
  <2> TAKE k \in 1 .. n
  <2>1. PICK p \in Contenders : p = Place(k + 1) /\ Distance(p) = k
    BY <1>6, TicketsLined DEF Lined
  <2>2. p \in Contenders'
    BY <1>1, <1>3, <2>1
  <2>3. Distance(p)' = k - 1
    BY <1>5, <2>1, <2>2
  <2>4. Place(k)' = p
    BY <1>4, <1>6, <2>2, <2>3, TicketsLinedNext DEF Lined
  <2> QED
    BY <2>1, <2>4
<1>8. Line' = Tail(Line)
  <2>1. Line' = [k \in 1 .. n |-> Place(k)']
    BY <1>4, <1>6 DEF Line
  <2>2. Line = [k \in 1 .. n + 1 |-> Place(k)]
    BY <1>6 DEF Line
  <2>3. Line \in Seq(Proc) /\ Len(Line) = n + 1
    BY <1>6, LineType
  <2>4. \A k \in 1 .. n : Line[k + 1] = Place(k)'
    BY <1>7, <2>2
  <2>5. Line' \in Seq(Proc) /\ Len(Line') = n
    <3>1. \A k \in 1 .. n : Place(k)' \in Proc
      BY <2>2, <2>3, <2>4
    <3> QED
      BY <2>1, <3>1
  <2> HIDE DEF Line
  <2>6. /\ Tail(Line) \in Seq(Proc) /\ Len(Tail(Line)) = n
        /\ \A k \in 1 .. n : Tail(Line)[k] = Line[k + 1]
    BY <2>3
  <2> QED
    BY <2>1, <2>4, <2>5, <2>6, SeqEqual
<1>9. r \in Holding /\ Holding' = {}
  BY <1>0, <1>2 DEF IInv, TicketInv, Unlock, Holding, Contenders
<1>10. Queue!Leave(r)
  BY <1>8, <1>9 DEF Queue!Leave, Line, Place, Holding
<1> QED
  BY <1>10 DEF Queue!Next

\* The lock of lib/anlock hands itself over in the order of the fetch-and-adds,
\* for every number of CPUs below Base, however often its halves wrap around.
THEOREM Refinement == Spec => HandedOverInOrder
<1>1. Init => Queue!Init
  <2> SUFFICES ASSUME Init PROVE Queue!Init
    OBVIOUS
  <2>1. Line = <<>> /\ Holding = {}
    BY DEF Init, Line, Holding
  <2> QED
    BY <2>1 DEF Queue!Init, Line, Place, Holding
<1>2. IInv /\ IInv' /\ [Next]_vars => [Queue!Next]_(Queue!vars)
  <2>1. UNCHANGED vars => UNCHANGED Queue!vars
    BY DEF vars, Queue!vars, Distance
  <2> QED
    BY <2>1, LockQueues, SpinEnters, UnlockLeaves DEF Next
<1> QED
  BY <1>1, <1>2, Invariance, PTL DEF Spec, HandedOverInOrder, Queue!Spec
=============================================================================
