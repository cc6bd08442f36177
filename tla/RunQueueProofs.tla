---------------------------- MODULE RunQueueProofs ----------------------------
(***************************************************************************)
(* The links of loop.c always describe one list, and the list is a queue:  *)
(* for any number of threads, any time slice and any clock.  The invariant *)
(* speaks of the list as a function from positions to threads that exists  *)
(* beside the links; that following the links computes it (the operator    *)
(* At) is a lemma, whose induction is on a least counterexample.           *)
(***************************************************************************)
EXTENDS RunQueue, FiniteSetTheorems, SequenceTheorems, NaturalsInduction,
        WellFoundedInduction, TLAPS

Link == Thread \cup {NULL}

-----------------------------------------------------------------------------
(* Doubly linked lists.                                                    *)

\* s gives, in order, the k threads of the list that starts at f, ends at e
\* and has the links n and l.
IsList(s, k, f, e, n, l) ==
  /\ k \in Nat /\ s \in [1 .. k -> Thread]
  /\ \A i, j \in 1 .. k : s[i] = s[j] => i = j
  /\ f = IF k = 0 THEN NULL ELSE s[1]
  /\ e = IF k = 0 THEN NULL ELSE s[k]
  /\ \A i \in 1 .. k : n[s[i]] = IF i = k THEN NULL ELSE s[i + 1]
  /\ \A i \in 1 .. k : l[s[i]] = IF i = 1 THEN NULL ELSE s[i - 1]

\* The list with x at its end, without its first, and without its j-th thread
Added(s, k, x) == [i \in 1 .. k + 1 |-> IF i = k + 1 THEN x ELSE s[i]]
Dropped(s, k) == [i \in 1 .. k - 1 |-> s[i + 1]]
Cut(s, k, j) == [i \in 1 .. k - 1 |-> IF i < j THEN s[i] ELSE s[i + 1]]

\* Insert appends a thread that is not in the list.
LEMMA InsertList ==
  ASSUME NEW s, NEW k, NEW f, NEW e, NEW n \in [Thread -> Link], NEW l \in [Thread -> Link],
         IsList(s, k, f, e, n, l),
         NEW x \in Thread, \A i \in 1 .. k : s[i] # x,
         NEW f2, NEW n2, NEW l2,
         f2 = IF e # NULL THEN f ELSE x,
         \A y \in Thread : n2[y] = IF y = x THEN NULL ELSE IF y = e THEN x ELSE n[y],
         \A y \in Thread : l2[y] = IF y = x THEN e ELSE l[y]
  PROVE  IsList(Added(s, k, x), k + 1, f2, x, n2, l2)
<1> DEFINE r == Added(s, k, x)
<1> USE QueueAssumption DEF QueueAssumption
<1>1. k \in Nat /\ s \in [1 .. k -> Thread] /\ r \in [1 .. k + 1 -> Thread]
  BY DEF IsList, Added
<1>2. \A i \in 1 .. k : r[i] = s[i] /\ s[i] \in Thread /\ s[i] # x
  BY <1>1 DEF Added
<1>3. r[k + 1] = x
  BY <1>1 DEF Added
<1> HIDE DEF r
<1>4. \A i, j \in 1 .. k + 1 : r[i] = r[j] => i = j
  BY <1>1, <1>2, <1>3 DEF IsList
<1>5. f2 = r[1]
  BY <1>1, <1>2, <1>3 DEF IsList
<1>6. \A i \in 1 .. k : n[s[i]] = IF i = k THEN NULL ELSE s[i + 1]
  BY DEF IsList
<1>7. e = IF k = 0 THEN NULL ELSE s[k]
  BY DEF IsList
<1>8. n2[x] = NULL
  BY <1>2
<1>9. ASSUME NEW i \in 1 .. k
      PROVE  n2[s[i]] = r[i + 1]
  <2>1. CASE i = k
    BY <2>1, <1>1, <1>2, <1>3, <1>7
  <2>2. CASE i # k
    <3>1. s[i] # e /\ e \in Thread
      BY <2>2, <1>1, <1>7 DEF IsList
    <3>2. n2[s[i]] = n[s[i]]
      BY <3>1, <1>1, <1>2
    <3> QED
      BY <3>2, <2>2, <1>1, <1>2, <1>6
  <2> QED
    BY <2>1, <2>2
<1>10. ASSUME NEW i \in 1 .. k + 1
       PROVE  n2[r[i]] = IF i = k + 1 THEN NULL ELSE r[i + 1]
  <2>1. CASE i = k + 1
    BY <2>1, <1>3, <1>8
  <2>2. CASE i # k + 1
    <3>1. i \in 1 .. k
      BY <2>2, <1>1
    <3> QED
      BY <3>1, <2>2, <1>2, <1>9
  <2> QED
    BY <2>1, <2>2
<1>11. \A i \in 1 .. k : l2[s[i]] = l[s[i]]
  BY <1>2
<1>12. \A i \in 1 .. k : l2[s[i]] = IF i = 1 THEN NULL ELSE s[i - 1]
  BY <1>11 DEF IsList
<1>13. \A i \in 1 .. k + 1 : l2[r[i]] = IF i = 1 THEN NULL ELSE r[i - 1]
  <2> SUFFICES ASSUME NEW i \in 1 .. k + 1
               PROVE  l2[r[i]] = IF i = 1 THEN NULL ELSE r[i - 1]
    OBVIOUS
  <2>1. CASE i = k + 1
    <3>1. l2[x] = e
      OBVIOUS
    <3> QED
      BY <2>1, <3>1, <1>1, <1>2, <1>3, <1>7
  <2>2. CASE i \in 1 .. k
    BY <2>2, <1>1, <1>2, <1>12
  <2> QED
    BY <2>1, <2>2, <1>1
<1> QED
  BY <1>1, <1>3, <1>4, <1>5, <1>10, <1>13 DEF IsList, r

\* The first thread of a list is in no other place of it.
LEMMA FirstOfList ==
  ASSUME NEW s, NEW k, NEW f, NEW e, NEW n, NEW l, IsList(s, k, f, e, n, l), k # 0
  PROVE  f = s[1] /\ f \in Thread /\ \A i \in 1 .. k - 1 : Dropped(s, k)[i] # f
<1>1. k \in Nat \ {0} /\ s \in [1 .. k -> Thread]
  BY DEF IsList
<1>2. f = s[1] /\ \A i, j \in 1 .. k : s[i] = s[j] => i = j
  BY <1>1 DEF IsList
<1> QED
  BY <1>1, <1>2 DEF Dropped

\* _shift_thread takes out the first thread and leaves it without links.
LEMMA ShiftList ==
  ASSUME NEW s, NEW k, NEW f, NEW e, NEW n \in [Thread -> Link], NEW l \in [Thread -> Link],
         IsList(s, k, f, e, n, l), k # 0,
         NEW e2, NEW n2, NEW l2,
         e2 = IF n[f] = NULL THEN NULL ELSE e,
         \A x \in Thread : n2[x] = IF x = f THEN NULL ELSE n[x],
         \A x \in Thread : l2[x] = IF x = n[f] \/ x = f THEN NULL ELSE l[x]
  PROVE  IsList(Dropped(s, k), k - 1, n[f], e2, n2, l2)
<1> DEFINE r == Dropped(s, k)
<1> USE QueueAssumption DEF QueueAssumption
<1>1. k \in Nat \ {0} /\ s \in [1 .. k -> Thread] /\ r \in [1 .. k - 1 -> Thread]
  BY DEF IsList, Dropped
<1>2. f = s[1] /\ f \in Thread
  BY <1>1 DEF IsList
<1>3. \A i \in 1 .. k - 1 : r[i] = s[i + 1]
  BY <1>1 DEF Dropped
<1>4. \A i \in 1 .. k - 1 : r[i] # f /\ r[i] \in Thread
  BY <1>1, <1>2, <1>3 DEF IsList
<1>5. n[f] = IF k = 1 THEN NULL ELSE r[1]
  BY <1>1, <1>2, <1>3 DEF IsList
<1>6. \A i, j \in 1 .. k - 1 : r[i] = r[j] => i = j
  <2>1. \A i, j \in 1 .. k : s[i] = s[j] => i = j
    BY DEF IsList
  <2> QED
    BY <2>1, <1>1, <1>3
<1>7. \A i \in 1 .. k - 1 : n2[r[i]] = IF i = k - 1 THEN NULL ELSE r[i + 1]
  <2>1. \A i \in 1 .. k - 1 : n2[r[i]] = n[r[i]]
    BY <1>4
  <2>2. \A i \in 1 .. k : n[s[i]] = IF i = k THEN NULL ELSE s[i + 1]
    BY DEF IsList
  <2> QED
    BY <2>1, <2>2, <1>1, <1>3
<1>8. \A i \in 1 .. k - 1 : l2[r[i]] = IF i = 1 THEN NULL ELSE r[i - 1]
  <2> SUFFICES ASSUME NEW i \in 1 .. k - 1
               PROVE  l2[r[i]] = IF i = 1 THEN NULL ELSE r[i - 1]
    OBVIOUS
  <2>1. CASE i = 1
    BY <2>1, <1>1, <1>4, <1>5
  <2>2. CASE i # 1
    <3>1. r[i] # r[1] /\ k # 1
      BY <2>2, <1>1, <1>6
    <3>2. l2[r[i]] = l[r[i]]
      BY <3>1, <1>4, <1>5
    <3>3. l[s[i + 1]] = s[i]
      BY <2>2, <1>1 DEF IsList
    <3> QED
      BY <3>2, <3>3, <2>2, <1>1, <1>3
  <2> QED
    BY <2>1, <2>2
<1>9. e2 = IF k - 1 = 0 THEN NULL ELSE r[k - 1]
  <2>1. CASE k = 1
    BY <2>1, <1>5
  <2>2. CASE k # 1
    <3>1. n[f] # NULL
      BY <2>2, <1>1, <1>4, <1>5
    <3>2. e = s[k] /\ r[k - 1] = s[k]
      BY <2>2, <1>1, <1>3 DEF IsList
    <3> QED
      BY <3>1, <3>2, <2>2, <1>1
  <2> QED
    BY <2>1, <2>2
<1>10. n[f] = IF k - 1 = 0 THEN NULL ELSE r[1]
  BY <1>1, <1>5
<1>11. k - 1 \in Nat
  BY <1>1
<1> HIDE DEF r
<1>12. IsList(r, k - 1, n[f], e2, n2, l2)
  BY <1>1, <1>6, <1>7, <1>8, <1>9, <1>10, <1>11 DEF IsList
<1> QED
  BY <1>12 DEF r

\* The links of anscheduler_loop_delete lead around the thread it is called for.
LEMMA UnlinkList ==
  ASSUME NEW s, NEW k, NEW f, NEW e, NEW n \in [Thread -> Link], NEW l \in [Thread -> Link],
         IsList(s, k, f, e, n, l), NEW j \in 1 .. k,
         NEW x, x = s[j], NEW f2, NEW e2, NEW n2, NEW l2,
         f2 = IF f = x THEN n[x] ELSE f,
         e2 = IF e = x THEN l[x] ELSE e,
         \A y \in Thread : n2[y] = IF y = l[x] THEN n[x] ELSE n[y],
         \A y \in Thread : l2[y] = IF y = n[x] THEN l[x] ELSE l[y]
  PROVE  IsList(Cut(s, k, j), k - 1, f2, e2, n2, l2)
<1> DEFINE r == Cut(s, k, j)
<1> USE QueueAssumption DEF QueueAssumption
<1>1. k \in Nat \ {0} /\ s \in [1 .. k -> Thread] /\ r \in [1 .. k - 1 -> Thread]
  BY DEF IsList, Cut
<1>2. \A i \in 1 .. k - 1 : r[i] = IF i < j THEN s[i] ELSE s[i + 1]
  BY <1>1 DEF Cut
<1>3. \A a, b \in 1 .. k : s[a] = s[b] => a = b
  BY DEF IsList
<1>4. \A i \in 1 .. k - 1 : r[i] # x /\ r[i] \in Thread
  BY <1>1, <1>2, <1>3
<1>5. \A a, b \in 1 .. k - 1 : r[a] = r[b] => a = b
  BY <1>1, <1>2, <1>3
<1>6. n[x] = IF j = k THEN NULL ELSE s[j + 1]
  BY DEF IsList
<1>7. l[x] = IF j = 1 THEN NULL ELSE s[j - 1]
  BY DEF IsList
<1>8. \A i \in 1 .. k : s[i] \in Thread /\ s[i] # NULL
  BY <1>1
<1>9. ASSUME NEW i \in 1 .. k - 1
      PROVE  /\ n2[r[i]] = IF i = k - 1 THEN NULL ELSE r[i + 1]
             /\ l2[r[i]] = IF i = 1 THEN NULL ELSE r[i - 1]
  <2>1. n2[r[i]] = IF r[i] = l[x] THEN n[x] ELSE n[r[i]]
    BY <1>4
  <2>2. l2[r[i]] = IF r[i] = n[x] THEN l[x] ELSE l[r[i]]
    BY <1>4
  <2>3. r[i] = l[x] <=> i = j - 1
    BY <1>1, <1>2, <1>3, <1>7, <1>8
  <2>4. r[i] = n[x] <=> i = j
    BY <1>1, <1>2, <1>3, <1>6, <1>8
  <2>5. \A a \in 1 .. k : n[s[a]] = IF a = k THEN NULL ELSE s[a + 1]
    BY DEF IsList
  <2>6. \A a \in 1 .. k : l[s[a]] = IF a = 1 THEN NULL ELSE s[a - 1]
    BY DEF IsList
  <2>7. CASE i < j - 1
    <3>1. r[i] = s[i] /\ r[i + 1] = s[i + 1] /\ (i # 1 => r[i - 1] = s[i - 1])
      BY <2>7, <1>1, <1>2
    <3> QED
      BY <3>1, <2>1, <2>2, <2>3, <2>4, <2>5, <2>6, <2>7, <1>1
  <2>8. CASE i = j - 1
    <3>1. r[i] = s[i] /\ (i # 1 => r[i - 1] = s[i - 1]) /\ (i # k - 1 => r[i + 1] = s[j + 1])
      BY <2>8, <1>1, <1>2
    <3> QED
      BY <3>1, <2>1, <2>2, <2>3, <2>4, <2>6, <2>8, <1>1, <1>6
  <2>9. CASE i = j
    <3>1. r[i] = s[i + 1] /\ (i # 1 => r[i - 1] = s[i - 1]) /\ (i # k - 1 => r[i + 1] = s[i + 2])
      BY <2>9, <1>1, <1>2
    <3> QED
      BY <3>1, <2>1, <2>2, <2>3, <2>4, <2>5, <2>9, <1>1, <1>7
  <2>10. CASE i > j
    <3>1. r[i] = s[i + 1] /\ r[i - 1] = s[i] /\ (i # k - 1 => r[i + 1] = s[i + 2])
      <4>1. /\ ~(i < j) /\ ~(i - 1 < j) /\ i - 1 \in 1 .. k - 1 /\ (i - 1) + 1 = i
            /\ i # k - 1 => i + 1 \in 1 .. k - 1 /\ ~(i + 1 < j) /\ (i + 1) + 1 = i + 2
        BY <2>10, <1>1
      <4> QED
        BY <4>1, <1>2
    <3> QED
      BY <3>1, <2>1, <2>2, <2>3, <2>4, <2>5, <2>6, <2>10, <1>1
  <2> QED
    BY <2>7, <2>8, <2>9, <2>10, <1>1
<1>10. f2 = IF k - 1 = 0 THEN NULL ELSE r[1]
  <2>1. f = s[1]
    BY <1>1 DEF IsList
  <2>2. f = x <=> j = 1
    BY <2>1, <1>1, <1>3
  <2>3. k # 1 => r[1] = IF j = 1 THEN s[2] ELSE s[1]
    BY <1>1, <1>2
  <2> QED
    BY <2>1, <2>2, <2>3, <1>1, <1>6
<1>11. e2 = IF k - 1 = 0 THEN NULL ELSE r[k - 1]
  <2>1. e = s[k]
    BY <1>1 DEF IsList
  <2>2. e = x <=> j = k
    BY <2>1, <1>1, <1>3
  <2>3. k # 1 => r[k - 1] = IF j = k THEN s[k - 1] ELSE s[k]
    BY <1>1, <1>2
  <2> QED
    BY <2>1, <2>2, <2>3, <1>1, <1>7
<1>12. k - 1 \in Nat
  BY <1>1
<1> HIDE DEF r
<1>13. IsList(r, k - 1, f2, e2, n2, l2)
  BY <1>1, <1>5, <1>9, <1>10, <1>11, <1>12 DEF IsList
<1> QED
  BY <1>13 DEF r

\* Links of threads outside the list do not matter.
LEMMA SameList ==
  ASSUME NEW s, NEW k, NEW f, NEW e, NEW n, NEW l, IsList(s, k, f, e, n, l),
         NEW n2, NEW l2, \A i \in 1 .. k : n2[s[i]] = n[s[i]] /\ l2[s[i]] = l[s[i]]
  PROVE  IsList(s, k, f, e, n2, l2)
  BY DEF IsList

-----------------------------------------------------------------------------
(* Following the links.                                                    *)

\* The least-number principle
LEMMA NatMin ==
  ASSUME NEW T \in SUBSET Nat, T # {}
  PROVE  \E m \in T : \A i \in T : m <= i
<1>1. PICK m \in T : \A i \in T : ~(<<i, m>> \in OpToRel(<, Nat))
  BY NatLessThanWellFounded, WFMin, Zenon
<1>2. \A i \in T : ~(i < m)
  BY <1>1 DEF OpToRel
<1> QED
  BY <1>2

\* At, with the globals and links it reads as arguments
Walk(f, n, k) ==
  [i \in 1 .. k |->
     LET g[j \in 1 .. k] ==
           IF j = 1 THEN f ELSE IF g[j - 1] = NULL THEN NULL ELSE n[g[j - 1]]
     IN g[i]]

\* Following queueNext from firstThread on visits the list in its order.
LEMMA WalkList ==
  ASSUME NEW s, NEW k, NEW f, NEW e, NEW n, NEW l, IsList(s, k, f, e, n, l)
  PROVE  Walk(f, n, k) = s
<1> DEFINE G(g) == [j \in 1 .. k |-> IF j = 1 THEN f
                                      ELSE IF g[j - 1] = NULL THEN NULL ELSE n[g[j - 1]]]
           w == CHOOSE g : g = G(g)
<1>1. k \in Nat /\ s \in [1 .. k -> Thread]
  BY DEF IsList
<1>2. \A j \in 1 .. k : j # 1 => s[j - 1] # NULL /\ n[s[j - 1]] = s[j]
  BY <1>1, QueueAssumption DEF QueueAssumption, IsList
<1>3. s = G(s)
  <2>1. k # 0 => f = s[1]
    BY DEF IsList
  <2>2. \A j \in 1 .. k : G(s)[j] = s[j]
    BY <1>1, <1>2, <2>1
  <2> QED
    BY <1>1, <2>2
<1>4. w = G(w)
  BY <1>3
<1> HIDE DEF w
<1>5. \A j \in 1 .. k : w[j] = s[j]
  <2> DEFINE T == {j \in 1 .. k : w[j] # s[j]}
  <2> SUFFICES ASSUME T # {} PROVE FALSE
    OBVIOUS
  <2>1. PICK m \in T : \A i \in T : m <= i
    <3>1. T \in SUBSET Nat
      BY <1>1
    <3> HIDE DEF T
    <3> QED
      BY <3>1, NatMin
  <2>2. m # 1
    BY <1>1, <1>4 DEF IsList
  <2>3. w[m - 1] = s[m - 1]
    BY <1>1, <2>1, <2>2
  <2>4. w[m] = n[s[m - 1]]
    BY <1>1, <1>2, <1>4, <2>2, <2>3
  <2> QED
    BY <1>2, <2>2, <2>4
<1>6. Walk(f, n, k) = [i \in 1 .. k |-> w[i]]
  BY DEF Walk, w
<1> QED
  BY <1>1, <1>5, <1>6

\* A list without repetition has as many positions as threads.
LEMMA ListCardinality ==
  ASSUME NEW s, NEW k, NEW f, NEW e, NEW n, NEW l, IsList(s, k, f, e, n, l)
  PROVE  /\ Cardinality({s[i] : i \in 1 .. k}) = k
         /\ k <= Cardinality(Thread)
<1> DEFINE S == {s[i] : i \in 1 .. k}
<1>1. k \in Nat /\ s \in [1 .. k -> Thread]
  BY DEF IsList
<1>2. s \in Bijection(1 .. k, S)
  BY <1>1 DEF IsList, Bijection, Injection, Surjection, IsInjective
<1>3. Cardinality(S) = k
  BY <1>1, <1>2, FS_CountingElements DEF ExistsBijection
<1>4. S \subseteq Thread /\ IsFiniteSet(Thread)
  BY <1>1, QueueAssumption DEF QueueAssumption
<1> QED
  BY <1>3, <1>4, FS_Subset

-----------------------------------------------------------------------------
(* The inductive invariant.                                                *)

\* At is a list by its links, of exactly the queued threads.
Linked ==
  /\ IsList(At, queueCount, firstThread, lastThread, queueNext, queueLast)
  /\ \A x \in Thread : status[x] = "queued" <=> \E i \in 1 .. queueCount : At[i] = x

\* A thread that can still be pushed, or deleted without being in the list,
\* has no links.  A dead one may have.
Clean ==
  \A x \in Thread : status[x] \in {"held", "off"} => queueNext[x] = NULL /\ queueLast[x] = NULL

\* The scan has as many threads before it as it has iterations left at most;
\* those behind them, which it has sent to the back, sleep, and the timeout
\* is not later than the first of them wakes up.
Scanned ==
  scan.on =>
    /\ scan.i <= scan.max /\ scan.max - scan.i <= queueCount
    /\ \A j \in 1 .. queueCount : scan.i + j > scan.max =>
         /\ nextTimestamp[At[j]] > scan.now
         /\ scan.timeout <= nextTimestamp[At[j]] - scan.now

IInv == TypeOK /\ Linked /\ Clean /\ Scanned

\* At is the list that the links describe, and it has an entry per thread at most.
LEMMA AtIs ==
  ASSUME NEW s, IsList(s, queueCount, firstThread, lastThread, queueNext, queueLast)
  PROVE  At = s /\ queueCount \in 0 .. Cardinality(Thread)
<1>1. At = Walk(firstThread, queueNext, queueCount)
  BY DEF At, Walk
<1>2. queueCount \in Nat
  BY DEF IsList
<1>3. queueCount <= Cardinality(Thread)
  BY ListCardinality
<1>4. Cardinality(Thread) \in Nat
  BY QueueAssumption, FS_CardinalityType DEF QueueAssumption
<1>5. At = s
  BY <1>1, WalkList
<1> QED
  BY <1>2, <1>3, <1>4, <1>5

\* The same in the next state
LEMMA AtIsNext ==
  ASSUME NEW s, IsList(s, queueCount', firstThread', lastThread', queueNext', queueLast')
  PROVE  At' = s /\ queueCount' \in 0 .. Cardinality(Thread)
<1>1. At' = Walk(firstThread', queueNext', queueCount')
  BY DEF At, Walk
<1>2. queueCount' \in Nat
  BY DEF IsList
<1>3. queueCount' <= Cardinality(Thread)
  BY ListCardinality
<1>4. Cardinality(Thread) \in Nat
  BY QueueAssumption, FS_CardinalityType DEF QueueAssumption
<1>5. At' = s
  BY <1>1, WalkList
<1> QED
  BY <1>2, <1>3, <1>4, <1>5

\* Steps that leave the list alone leave At alone.
LEMMA SameAt ==
  ASSUME UNCHANGED list
  PROVE  At' = At
  BY DEF At, list

\* The empty list at the start
LEMMA InitIInv == Init => IInv
<1> SUFFICES ASSUME Init PROVE IInv
  OBVIOUS
<1> USE QueueAssumption DEF QueueAssumption
<1> DEFINE s == [i \in 1 .. 0 |-> NULL]
<1>1. IsList(s, queueCount, firstThread, lastThread, queueNext, queueLast)
  BY DEF Init, IsList
<1>2. At = s /\ queueCount \in 0 .. Cardinality(Thread)
  BY <1>1, AtIs
<1>3. TypeOK
  BY <1>2 DEF TypeOK, Init, Status
<1>4. Linked
  BY <1>1, <1>2 DEF Linked, Init
<1>5. Clean /\ Scanned
  BY DEF Clean, Scanned, Init, NoScan
<1> QED
  BY <1>3, <1>4, <1>5 DEF IInv

\* anscheduler_loop_push appends a thread that a CPU has in its hand.
LEMMA PushStep ==
  ASSUME IInv, NEW x \in Thread, Push(x)
  PROVE  IInv' /\ At' = Added(At, queueCount, x) /\ \A i \in 1 .. queueCount : At[i] # x
<1> USE DEF Link
<1>1. TypeOK /\ Linked /\ Clean /\ status[x] = "held" /\ ~scan.on
  BY DEF IInv, Push, LockFree
<1>2. \A i \in 1 .. queueCount : At[i] # x
  BY <1>1 DEF Linked
<1>3. IsList(Added(At, queueCount, x), queueCount', firstThread', lastThread', queueNext', queueLast')
  <2>1. lastThread' = x /\ queueCount' = queueCount + 1
    BY DEF Push, Insert
  <2>2. firstThread' = IF lastThread # NULL THEN firstThread ELSE x
    BY DEF Push, Insert
  <2>3. \A y \in Thread : queueNext'[y] = IF y = x THEN NULL
                                          ELSE IF y = lastThread THEN x ELSE queueNext[y]
    BY <1>1, QueueAssumption DEF Push, Insert, TypeOK, QueueAssumption
  <2>4. \A y \in Thread : queueLast'[y] = IF y = x THEN lastThread ELSE queueLast[y]
    BY <1>1 DEF Push, Insert, TypeOK
  <2>5. IsList(At, queueCount, firstThread, lastThread, queueNext, queueLast)
    BY <1>1 DEF Linked
  <2>6. queueNext \in [Thread -> Link] /\ queueLast \in [Thread -> Link]
    BY <1>1 DEF TypeOK
  <2>7. IsList(Added(At, queueCount, x), queueCount + 1, firstThread', x, queueNext', queueLast')
    BY <1>2, <2>2, <2>3, <2>4, <2>5, <2>6, InsertList
  <2> QED
    BY <2>1, <2>7
<1>4. At' = Added(At, queueCount, x) /\ queueCount' \in 0 .. Cardinality(Thread)
  BY <1>3, AtIsNext
<1>5. TypeOK'
  BY <1>1, <1>4 DEF TypeOK, Push, Insert, SetStatus, Status
<1>6. Linked'
  <2>1. queueCount \in Nat /\ queueCount' = queueCount + 1
    BY <1>1 DEF TypeOK, Push
  <2>2. \A y \in Thread : (\E i \in 1 .. queueCount' : At'[i] = y)
                            <=> (y = x \/ \E i \in 1 .. queueCount : At[i] = y)
    BY <1>4, <2>1 DEF Added
  <2>3. \A y \in Thread : status'[y] = IF y = x THEN "queued" ELSE status[y]
    BY <1>1 DEF Push, SetStatus, TypeOK
  <2> QED
    BY <1>1, <1>3, <1>4, <2>2, <2>3 DEF Linked
<1>7. Clean'
  <2> SUFFICES ASSUME NEW y \in Thread, status'[y] \in {"held", "off"}
               PROVE  queueNext'[y] = NULL /\ queueLast'[y] = NULL
    BY DEF Clean
  <2>1. y # x /\ status[y] \in {"held", "off"}
    BY <1>1 DEF Push, SetStatus, TypeOK
  <2>2. y # lastThread
    <3>1. lastThread = NULL \/ \E i \in 1 .. queueCount : At[i] = lastThread
      BY <1>1 DEF Linked, IsList
    <3> QED
      BY <1>1, <2>1, <3>1, QueueAssumption DEF Linked, QueueAssumption
  <2> QED
    BY <1>1, <2>1, <2>2 DEF Clean, Push, Insert, TypeOK
<1>8. Scanned'
  BY <1>1 DEF Scanned, Push
<1> QED
  BY <1>2, <1>4, <1>5, <1>6, <1>7, <1>8 DEF IInv

\* What the list looks like once _shift_thread has taken its first thread out
LEMMA Shifted ==
  ASSUME IInv, queueCount # 0
  PROVE  /\ IsList(Dropped(At, queueCount), queueCount - 1, queueNext[firstThread],
                   ShiftedEnd, ShiftedNext, ShiftedLast)
         /\ ShiftedNext \in [Thread -> Link] /\ ShiftedLast \in [Thread -> Link]
         /\ ShiftedNext[firstThread] = NULL /\ ShiftedLast[firstThread] = NULL
         /\ firstThread = At[1] /\ firstThread \in Thread
         /\ \A i \in 1 .. queueCount - 1 : Dropped(At, queueCount)[i] # firstThread
<1>1. IsList(At, queueCount, firstThread, lastThread, queueNext, queueLast)
  BY DEF IInv, Linked
<1>2. queueNext \in [Thread -> Link] /\ queueLast \in [Thread -> Link]
  BY DEF IInv, TypeOK, Link
<1>3. ShiftedNext \in [Thread -> Link] /\ ShiftedLast \in [Thread -> Link]
  BY <1>2 DEF ShiftedNext, ShiftedLast, Link
<1>4. \A x \in Thread : ShiftedLast[x] = IF x = queueNext[firstThread] \/ x = firstThread
                                          THEN NULL ELSE queueLast[x]
  BY DEF ShiftedLast
<1>5. \A x \in Thread : ShiftedNext[x] = IF x = firstThread THEN NULL ELSE queueNext[x]
  BY <1>2 DEF ShiftedNext
<1>6. ShiftedEnd = IF queueNext[firstThread] = NULL THEN NULL ELSE lastThread
  BY DEF ShiftedEnd
<1>7. IsList(Dropped(At, queueCount), queueCount - 1, queueNext[firstThread],
             ShiftedEnd, ShiftedNext, ShiftedLast)
  BY <1>1, <1>2, <1>4, <1>5, <1>6, ShiftList
<1>8. /\ firstThread = At[1] /\ firstThread \in Thread
      /\ \A i \in 1 .. queueCount - 1 : Dropped(At, queueCount)[i] # firstThread
  BY <1>1, FirstOfList
<1>9. ShiftedNext[firstThread] = NULL /\ ShiftedLast[firstThread] = NULL
  BY <1>4, <1>5, <1>8
<1> QED
  BY <1>3, <1>7, <1>8, <1>9

\* The locals of _next_thread
ScanRecord == [on : {TRUE}, i : Nat, max : Nat, now : Nat, timeout : 0 .. Quantum]

\* The loop counter goes up by one, and the timeout may change.
LEMMA Advance ==
  ASSUME NEW r \in ScanRecord, NEW z \in 0 .. Quantum, NEW q,
         q = [on |-> r.on, i |-> r.i + 1, max |-> r.max, now |-> r.now, timeout |-> z]
  PROVE  /\ q \in ScanRecord
         /\ q.i = r.i + 1 /\ q.max = r.max /\ q.now = r.now /\ q.timeout = z
<1>1. r.i + 1 \in Nat /\ r.max \in Nat /\ r.now \in Nat
  BY DEF ScanRecord
<1>2. r.on \in {TRUE}
  BY DEF ScanRecord
<1> QED
  BY <1>1, <1>2 DEF ScanRecord

\* While the scan has iterations left, the list is not empty.
LEMMA ScanTypes ==
  ASSUME IInv, scan.on
  PROVE  /\ scan \in ScanRecord
         /\ scan.i \in Nat /\ scan.max \in Nat /\ scan.now \in Nat /\ scan.timeout \in 0 .. Quantum
         /\ queueCount \in Nat /\ scan.max - scan.i <= queueCount /\ scan.i <= scan.max
<1>1. scan # NoScan
  BY DEF NoScan
<1>2. scan \in ScanRecord
  BY <1>1 DEF IInv, TypeOK, ScanRecord
<1>3. queueCount \in Nat
  BY DEF IInv, Linked, IsList
<1> QED
  BY <1>2, <1>3 DEF IInv, Scanned, ScanRecord

\* A thread of which the time has come leaves the list; the scan stops or goes on.
LEMMA ShiftReadyStep ==
  ASSUME IInv, NEW x \in Thread, ShiftReady(x),
         NEW v \in {"held", "off"}, SetStatus(x, v),
         scan' = NoScan \/ scan' = [scan EXCEPT !.i = @ + 1]
  PROVE  IInv' /\ At' = Dropped(At, queueCount) /\ queueCount # 0
<1> USE DEF Link
<1>1. TypeOK /\ Linked /\ Clean /\ Scanned
  BY DEF IInv
<1>2. scan.on /\ scan.i < scan.max /\ x = firstThread
  BY DEF ShiftReady
<1>3. /\ scan \in ScanRecord
      /\ scan.i \in Nat /\ scan.max \in Nat /\ scan.now \in Nat /\ scan.timeout \in 0 .. Quantum
      /\ queueCount \in Nat /\ scan.max - scan.i <= queueCount /\ scan.i <= scan.max
  BY <1>2, ScanTypes
<1>4. queueCount # 0
  BY <1>2, <1>3
<1>5. /\ firstThread' = queueNext[firstThread] /\ lastThread' = ShiftedEnd
      /\ queueNext' = ShiftedNext /\ queueLast' = ShiftedLast
      /\ queueCount' = queueCount - 1
      /\ UNCHANGED <<nextTimestamp, killed, time>>
  BY <1>2 DEF ShiftReady
<1>6. /\ IsList(Dropped(At, queueCount), queueCount', firstThread', lastThread', queueNext', queueLast')
      /\ queueNext' \in [Thread -> Link] /\ queueLast' \in [Thread -> Link]
      /\ queueNext'[x] = NULL /\ queueLast'[x] = NULL
      /\ x = At[1] /\ \A i \in 1 .. queueCount - 1 : Dropped(At, queueCount)[i] # x
  BY <1>2, <1>4, <1>5, Shifted
<1>7. At' = Dropped(At, queueCount) /\ queueCount' \in 0 .. Cardinality(Thread)
  BY <1>6, AtIsNext
<1>8. status' \in [Thread -> Status] /\ \A y \in Thread : status'[y] = IF y = x THEN v ELSE status[y]
  BY <1>1 DEF SetStatus, TypeOK, Status
<1>9. scan' = NoScan \/ scan' \in ScanRecord
  <2>1. scan' = [scan EXCEPT !.i = @ + 1] =>
          scan' = [on |-> scan.on, i |-> scan.i + 1, max |-> scan.max, now |-> scan.now,
                   timeout |-> scan.timeout]
    BY <1>3 DEF ScanRecord
  <2> QED
    BY <1>3, <2>1, Advance
<1>10. TypeOK'
  <2>1. firstThread' \in Link /\ lastThread' \in Link
    BY <1>1, <1>2, <1>5 DEF TypeOK, ShiftedEnd
  <2> QED
    BY <1>1, <1>5, <1>6, <1>7, <1>8, <1>9, <2>1 DEF TypeOK, ScanRecord
<1>11. \A i \in 1 .. queueCount - 1 : At'[i] = At[i + 1]
  BY <1>3, <1>7 DEF Dropped
<1>12. Linked'
  <2> SUFFICES ASSUME NEW y \in Thread
               PROVE  status'[y] = "queued" <=> \E i \in 1 .. queueCount' : At'[i] = y
    BY <1>6, <1>7 DEF Linked
  <2>1. CASE y = x
    BY <2>1, <1>5, <1>6, <1>7, <1>8
  <2>2. CASE y # x
    <3>1. status[y] = "queued" <=> \E i \in 1 .. queueCount : At[i] = y
      BY <1>1 DEF Linked
    <3>2. (\E i \in 1 .. queueCount : At[i] = y) => \E i \in 1 .. queueCount - 1 : At[i + 1] = y
      <4> SUFFICES ASSUME NEW i \in 1 .. queueCount, At[i] = y
                   PROVE  \E j \in 1 .. queueCount - 1 : At[j + 1] = y
        OBVIOUS
      <4>1. i # 1
        BY <2>2, <1>6
      <4>2. i - 1 \in 1 .. queueCount - 1 /\ At[(i - 1) + 1] = y
        BY <1>3, <4>1
      <4> QED
        BY <4>2
    <3>3. (\E i \in 1 .. queueCount - 1 : At[i + 1] = y) => \E i \in 1 .. queueCount : At[i] = y
      BY <1>3
    <3> QED
      BY <2>2, <3>1, <3>2, <3>3, <1>5, <1>8, <1>11
  <2> QED
    BY <2>1, <2>2
<1>13. Clean'
  <2> SUFFICES ASSUME NEW y \in Thread, status'[y] \in {"held", "off"}
               PROVE  queueNext'[y] = NULL /\ queueLast'[y] = NULL
    BY DEF Clean
  <2>1. CASE y = x
    BY <2>1, <1>6
  <2>2. CASE y # x
    <3>1. queueNext[y] = NULL /\ queueLast[y] = NULL
      BY <2>2, <1>1, <1>8 DEF Clean
    <3> QED
      BY <3>1, <1>1, <1>2, <1>5, <2>2 DEF ShiftedNext, ShiftedLast, TypeOK
  <2> QED
    BY <2>1, <2>2
<1>14. Scanned'
  <2>1. CASE scan' = NoScan
    BY <2>1 DEF Scanned, NoScan
  <2>2. CASE scan' = [scan EXCEPT !.i = @ + 1]
    <3>1. /\ scan'.i = scan.i + 1 /\ scan'.max = scan.max /\ scan'.now = scan.now
          /\ scan'.timeout = scan.timeout
      <4>1. scan' = [on |-> scan.on, i |-> scan.i + 1, max |-> scan.max, now |-> scan.now,
                     timeout |-> scan.timeout]
        BY <1>3, <2>2 DEF ScanRecord
      <4> QED
        BY <1>3, <4>1, Advance
    <3>2. scan'.i <= scan'.max /\ scan'.max - scan'.i <= queueCount'
      BY <3>1, <1>2, <1>3, <1>5
    <3>3. ASSUME NEW j \in 1 .. queueCount', scan'.i + j > scan'.max
          PROVE  /\ nextTimestamp'[At'[j]] > scan'.now
                 /\ scan'.timeout <= nextTimestamp'[At'[j]] - scan'.now
      <4>1. j + 1 \in 1 .. queueCount /\ scan.i + (j + 1) > scan.max /\ At'[j] = At[j + 1]
        BY <3>1, <3>3, <1>3, <1>5, <1>11
      <4>2. /\ nextTimestamp[At[j + 1]] > scan.now
            /\ scan.timeout <= nextTimestamp[At[j + 1]] - scan.now
        BY <4>1, <1>1, <1>2 DEF Scanned
      <4> QED
        BY <4>1, <4>2, <3>1, <1>5
    <3> QED
      BY <3>2, <3>3 DEF Scanned
  <2> QED
    BY <2>1, <2>2
<1> QED
  BY <1>4, <1>7, <1>10, <1>12, <1>13, <1>14 DEF IInv

\* A sleeping thread goes from the front to the back.
LEMMA SkipSleeperStep ==
  ASSUME IInv, SkipSleeper
  PROVE  IInv' /\ At' = Added(Dropped(At, queueCount), queueCount - 1, At[1]) /\ queueCount # 0
<1> USE DEF Link
<1> DEFINE x == firstThread
           r == Added(Dropped(At, queueCount), queueCount - 1, At[1])
<1>1. TypeOK /\ Linked /\ Clean /\ Scanned
  BY DEF IInv
<1>2. scan.on /\ scan.i < scan.max /\ nextTimestamp[x] > scan.now
  BY DEF SkipSleeper
<1>3. /\ scan \in ScanRecord
      /\ scan.i \in Nat /\ scan.max \in Nat /\ scan.now \in Nat /\ scan.timeout \in 0 .. Quantum
      /\ queueCount \in Nat /\ scan.max - scan.i <= queueCount /\ scan.i <= scan.max
  BY <1>2, ScanTypes
<1>4. queueCount # 0
  BY <1>2, <1>3
<1>5. /\ IsList(Dropped(At, queueCount), queueCount - 1, queueNext[x],
                ShiftedEnd, ShiftedNext, ShiftedLast)
      /\ ShiftedNext \in [Thread -> Link] /\ ShiftedLast \in [Thread -> Link]
      /\ ShiftedNext[x] = NULL /\ ShiftedLast[x] = NULL
      /\ x = At[1] /\ x \in Thread
      /\ \A i \in 1 .. queueCount - 1 : Dropped(At, queueCount)[i] # x
  BY <1>4, Shifted
<1>6. /\ UNCHANGED <<queueCount, nextTimestamp, killed, status, time>>
      /\ Insert(x, queueNext[x], ShiftedNext, ShiftedLast, ShiftedEnd)
      /\ scan' = [scan EXCEPT !.i = @ + 1,
                    !.timeout = IF nextTimestamp[x] - scan.now < @
                                  THEN nextTimestamp[x] - scan.now ELSE @]
  BY DEF SkipSleeper
<1>7. /\ lastThread' = x
      /\ firstThread' = IF ShiftedEnd # NULL THEN queueNext[x] ELSE x
      /\ queueNext' = IF ShiftedEnd # NULL
                        THEN [ShiftedNext EXCEPT ![ShiftedEnd] = x, ![x] = NULL]
                        ELSE [ShiftedNext EXCEPT ![x] = NULL]
      /\ queueLast' = [ShiftedLast EXCEPT ![x] = ShiftedEnd]
  BY <1>6 DEF Insert
<1> HIDE DEF x
<1>8. IsList(r, (queueCount - 1) + 1, firstThread', x, queueNext', queueLast')
  <2>1. \A y \in Thread : queueNext'[y] = IF y = x THEN NULL
                                          ELSE IF y = ShiftedEnd THEN x ELSE ShiftedNext[y]
    BY <1>5, <1>7, QueueAssumption DEF QueueAssumption
  <2>2. \A y \in Thread : queueLast'[y] = IF y = x THEN ShiftedEnd ELSE ShiftedLast[y]
    BY <1>5, <1>7
  <2>3. IsList(Added(Dropped(At, queueCount), queueCount - 1, x), (queueCount - 1) + 1,
               firstThread', x, queueNext', queueLast')
    <3>1. /\ IsList(Dropped(At, queueCount), queueCount - 1, queueNext[x],
                    ShiftedEnd, ShiftedNext, ShiftedLast)
          /\ x \in Thread /\ \A i \in 1 .. queueCount - 1 : Dropped(At, queueCount)[i] # x
      BY <1>5
    <3>2. ShiftedNext \in [Thread -> Link] /\ ShiftedLast \in [Thread -> Link]
      BY <1>5
    <3>3. firstThread' = IF ShiftedEnd # NULL THEN queueNext[x] ELSE x
      BY <1>7
    <3> QED
      BY <2>1, <2>2, <3>1, <3>2, <3>3, InsertList
  <2> QED
    BY <1>5, <2>3
<1>9. IsList(r, queueCount', firstThread', lastThread', queueNext', queueLast')
  BY <1>3, <1>6, <1>7, <1>8
<1>10. At' = r
  BY <1>9, AtIsNext
<1>11. queueNext' \in [Thread -> Link] /\ queueLast' \in [Thread -> Link]
  <2>1. ShiftedEnd \in Link
    BY <1>1 DEF ShiftedEnd, TypeOK
  <2> QED
    BY <1>5, <1>7, <2>1
<1>12. nextTimestamp[x] \in Nat
  BY <1>1, <1>5, QueueAssumption DEF TypeOK, QueueAssumption
<1>13. /\ scan' \in ScanRecord
       /\ scan'.i = scan.i + 1 /\ scan'.max = scan.max /\ scan'.now = scan.now
       /\ scan'.timeout \in 0 .. Quantum
       /\ scan'.timeout <= scan.timeout /\ scan'.timeout <= nextTimestamp[x] - scan.now
  <2>1. Quantum \in Nat /\ scan.timeout \in 0 .. Quantum
    BY <1>3, QueueAssumption DEF QueueAssumption, ScanRecord
  <2>2. PICK z \in 0 .. Quantum : /\ scan' = [scan EXCEPT !.i = @ + 1, !.timeout = z]
                                  /\ z <= scan.timeout /\ z <= nextTimestamp[x] - scan.now
    <3> DEFINE z == IF nextTimestamp[x] - scan.now < scan.timeout
                      THEN nextTimestamp[x] - scan.now ELSE scan.timeout
    <3>1. scan' = [scan EXCEPT !.i = @ + 1, !.timeout = z]
      BY <1>3, <1>6 DEF ScanRecord
    <3>2. scan.now \in Nat
      BY <1>3 DEF ScanRecord
    <3>3. z \in 0 .. Quantum /\ z <= scan.timeout /\ z <= nextTimestamp[x] - scan.now
      BY <1>2, <1>12, <2>1, <3>2
    <3> QED
      BY <3>1, <3>3
  <2>3. scan' = [on |-> scan.on, i |-> scan.i + 1, max |-> scan.max, now |-> scan.now,
                 timeout |-> z]
    BY <1>3, <2>2 DEF ScanRecord
  <2> QED
    BY <1>3, <2>2, <2>3, Advance
<1>14. TypeOK'
  <2>1. firstThread' \in Link /\ lastThread' \in Link
    BY <1>1, <1>5, <1>7 DEF TypeOK
  <2> QED
    BY <1>1, <1>6, <1>11, <1>13, <2>1 DEF TypeOK, ScanRecord
<1>15. /\ \A i \in 1 .. queueCount : i # queueCount => At'[i] = At[i + 1]
       /\ At'[queueCount] = x
  BY <1>3, <1>4, <1>5, <1>10 DEF Added, Dropped
<1>16. Linked'
  <2> SUFFICES ASSUME NEW y \in Thread
               PROVE  status[y] = "queued" <=> \E i \in 1 .. queueCount : At'[i] = y
    BY <1>6, <1>9, <1>10 DEF Linked
  <2>1. status[y] = "queued" <=> \E i \in 1 .. queueCount : At[i] = y
    BY <1>1 DEF Linked
  <2>2. ASSUME NEW i \in 1 .. queueCount
        PROVE  \E j \in 1 .. queueCount : At'[j] = At[i]
    <3>1. CASE i = 1
      BY <3>1, <1>3, <1>4, <1>5, <1>15
    <3>2. CASE i # 1
      <4>1. i - 1 \in 1 .. queueCount /\ i - 1 # queueCount /\ (i - 1) + 1 = i
        BY <3>2, <1>3
      <4> QED
        BY <4>1, <1>15
    <3> QED
      BY <3>1, <3>2
  <2>3. ASSUME NEW i \in 1 .. queueCount
        PROVE  \E j \in 1 .. queueCount : At[j] = At'[i]
    <3>1. CASE i = queueCount
      BY <3>1, <1>3, <1>4, <1>5, <1>15
    <3>2. CASE i # queueCount
      <4>1. i + 1 \in 1 .. queueCount
        BY <3>2, <1>3
      <4> QED
        BY <3>2, <4>1, <1>15
    <3> QED
      BY <3>1, <3>2
  <2> QED
    BY <2>1, <2>2, <2>3
<1>17. Clean'
  <2> SUFFICES ASSUME NEW y \in Thread, status[y] \in {"held", "off"}
               PROVE  queueNext'[y] = NULL /\ queueLast'[y] = NULL
    BY <1>6 DEF Clean
  <2>1. queueNext[y] = NULL /\ queueLast[y] = NULL
    BY <1>1 DEF Clean
  <2>2. y # x
    BY <1>1, <1>3, <1>4, <1>5 DEF Linked
  <2>3. ShiftedNext[y] = NULL /\ ShiftedLast[y] = NULL
    BY <1>1, <2>1 DEF ShiftedNext, ShiftedLast, TypeOK, x
  <2>4. y # ShiftedEnd
    <3>1. lastThread = At[queueCount]
      BY <1>1, <1>4 DEF Linked, IsList
    <3>2. y # lastThread
      BY <1>1, <1>3, <1>4, <3>1 DEF Linked
    <3> QED
      BY <3>2, QueueAssumption DEF ShiftedEnd, QueueAssumption
  <2> QED
    BY <1>5, <1>7, <2>2, <2>3, <2>4
<1>18. Scanned'
  <2>1. scan'.i <= scan'.max /\ scan'.max - scan'.i <= queueCount'
    BY <1>2, <1>3, <1>6, <1>13
  <2>2. ASSUME NEW j \in 1 .. queueCount', scan'.i + j > scan'.max
        PROVE  /\ nextTimestamp'[At'[j]] > scan'.now
               /\ scan'.timeout <= nextTimestamp'[At'[j]] - scan'.now
    <3>1. CASE j = queueCount
      BY <3>1, <1>2, <1>6, <1>13, <1>15
    <3>2. CASE j # queueCount
      <4>1. j + 1 \in 1 .. queueCount /\ scan.i + (j + 1) > scan.max /\ At'[j] = At[j + 1]
        BY <2>2, <3>2, <1>3, <1>6, <1>13, <1>15
      <4>2. /\ nextTimestamp[At[j + 1]] > scan.now
            /\ scan.timeout <= nextTimestamp[At[j + 1]] - scan.now
        BY <4>1, <1>1, <1>2 DEF Scanned
      <4>3. nextTimestamp[At[j + 1]] \in Nat
        BY <4>1, <1>1, QueueAssumption DEF Linked, IsList, TypeOK, QueueAssumption
      <4>4. scan'.timeout \in Nat /\ scan.timeout \in Nat /\ scan.now \in Nat
        BY <1>3, <1>13, QueueAssumption DEF QueueAssumption
      <4> QED
        BY <4>1, <4>2, <4>3, <4>4, <1>6, <1>13
    <3> QED
      BY <3>1, <3>2
  <2> QED
    BY <2>1, <2>2 DEF Scanned
<1> QED
  BY <1>4, <1>10, <1>14, <1>16, <1>17, <1>18 DEF IInv

\* anscheduler_loop_delete leads the links around a queued thread and does
\* nothing to the list otherwise.
LEMMA DeleteStep ==
  ASSUME IInv, NEW x \in Thread, Delete(x)
  PROVE  /\ IInv'
         /\ \/ At' = At
            \/ \E j \in 1 .. queueCount : At[j] = x /\ At' = Cut(At, queueCount, j)
<1> USE DEF Link
<1>1. /\ TypeOK /\ Linked /\ Clean /\ status[x] \in {"queued", "off"} /\ ~scan.on
      /\ UNCHANGED <<nextTimestamp, killed, time, scan>>
  BY DEF IInv, Delete, LockFree
<1>2. status' \in [Thread -> Status] /\ \A y \in Thread : status'[y] = IF y = x THEN "dead" ELSE status[y]
  BY <1>1 DEF Delete, SetStatus, TypeOK, Status
<1>3. IsList(At, queueCount, firstThread, lastThread, queueNext, queueLast)
  BY <1>1 DEF Linked
<1>4. Scanned'
  BY <1>1 DEF Scanned
<1>5. CASE status[x] = "off"
  <2>1. ~InList(x)
    <3>1. queueNext[x] = NULL /\ queueLast[x] = NULL
      BY <1>1, <1>5 DEF Clean
    <3>2. firstThread = NULL \/ \E i \in 1 .. queueCount : At[i] = firstThread
      BY <1>3 DEF IsList
    <3> QED
      BY <3>1, <3>2, <1>1, <1>5, QueueAssumption DEF InList, Linked, QueueAssumption
  <2>2. UNCHANGED list
    BY <2>1 DEF Delete
  <2>3. At' = At
    BY <2>2, SameAt
  <2>4. /\ UNCHANGED <<firstThread, lastThread, queueCount>>
        /\ UNCHANGED <<queueNext, queueLast>>
    BY <2>2 DEF list
  <2>5. TypeOK'
    BY <1>1, <1>2, <2>4 DEF TypeOK
  <2>6. Linked'
    BY <1>1, <1>2, <1>5, <2>3, <2>4 DEF Linked
  <2>7. Clean'
    BY <1>1, <1>2, <2>4 DEF Clean
  <2> QED
    BY <1>4, <2>3, <2>5, <2>6, <2>7 DEF IInv
<1>6. CASE status[x] = "queued"
  <2>1. PICK j \in 1 .. queueCount : At[j] = x
    BY <1>1, <1>6 DEF Linked
  <2>2. queueCount \in Nat /\ At \in [1 .. queueCount -> Thread]
    BY <1>3 DEF IsList
  <2>3. \A i \in 1 .. queueCount : At[i] = x => i = j
    BY <1>3, <2>1 DEF IsList
  <2>4. InList(x)
    <3>1. j # 1 => queueLast[x] = At[j - 1] /\ At[j - 1] \in Thread
      BY <1>3, <2>1, <2>2 DEF IsList
    <3>2. firstThread = At[1]
      BY <1>3, <2>1, <2>2 DEF IsList
    <3> QED
      BY <2>1, <3>1, <3>2, QueueAssumption DEF InList, QueueAssumption
  <2>5. Unlink(x)
    BY <2>4 DEF Delete
  <2>6. /\ queueCount' = queueCount - 1
        /\ firstThread' = IF firstThread = x THEN queueNext[x] ELSE firstThread
        /\ lastThread' = IF lastThread = x THEN queueLast[x] ELSE lastThread
        /\ \A y \in Thread : queueNext'[y] = IF y = queueLast[x] THEN queueNext[x] ELSE queueNext[y]
        /\ \A y \in Thread : queueLast'[y] = IF y = queueNext[x] THEN queueLast[x] ELSE queueLast[y]
    BY <2>5 DEF Unlink
  <2>7. queueNext \in [Thread -> Link] /\ queueLast \in [Thread -> Link]
    BY <1>1 DEF TypeOK
  <2>8. IsList(Cut(At, queueCount, j), queueCount - 1, firstThread', lastThread', queueNext', queueLast')
    BY <1>3, <2>1, <2>6, <2>7, UnlinkList
  <2>9. IsList(Cut(At, queueCount, j), queueCount', firstThread', lastThread', queueNext', queueLast')
    BY <2>6, <2>8
  <2>10. At' = Cut(At, queueCount, j) /\ queueCount' \in 0 .. Cardinality(Thread)
    BY <2>9, AtIsNext
  <2>11. TypeOK'
    <3>1. firstThread' \in Link /\ lastThread' \in Link
      BY <1>1, <2>6 DEF TypeOK
    <3>2. queueNext' \in [Thread -> Link] /\ queueLast' \in [Thread -> Link]
      BY <2>5, <2>7 DEF Unlink
    <3> QED
      BY <1>1, <1>2, <2>10, <3>1, <3>2 DEF TypeOK
  <2>12. \A i \in 1 .. queueCount - 1 : At'[i] = IF i < j THEN At[i] ELSE At[i + 1]
    BY <2>2, <2>10 DEF Cut
  <2>13. Linked'
    <3> SUFFICES ASSUME NEW y \in Thread
                 PROVE  status'[y] = "queued" <=> \E i \in 1 .. queueCount' : At'[i] = y
      BY <2>9, <2>10 DEF Linked
    <3>1. status[y] = "queued" <=> \E i \in 1 .. queueCount : At[i] = y
      BY <1>1 DEF Linked
    <3>2. ASSUME NEW i \in 1 .. queueCount - 1
          PROVE  At'[i] # x /\ \E a \in 1 .. queueCount : At[a] = At'[i]
      <4>1. CASE i < j
        BY <4>1, <2>2, <2>3, <2>12
      <4>2. CASE i >= j
        <5>1. i + 1 \in 1 .. queueCount /\ At'[i] = At[i + 1] /\ i + 1 # j
          BY <4>2, <2>2, <2>12
        <5> QED
          BY <5>1, <2>3
      <4> QED
        BY <4>1, <4>2, <2>2
    <3>3. ASSUME NEW i \in 1 .. queueCount, i # j
          PROVE  \E a \in 1 .. queueCount - 1 : At'[a] = At[i]
      <4>1. CASE i < j
        BY <4>1, <2>2, <2>12
      <4>2. CASE i > j
        <5>1. i - 1 \in 1 .. queueCount - 1 /\ ~(i - 1 < j) /\ (i - 1) + 1 = i
          BY <4>2, <2>2
        <5> QED
          BY <5>1, <2>12
      <4> QED
        BY <4>1, <4>2, <3>3, <2>2
    <3>4. CASE y = x
      BY <3>2, <3>4, <1>2, <2>6
    <3>5. CASE y # x
      BY <3>1, <3>2, <3>3, <3>5, <1>2, <2>1, <2>6
    <3> QED
      BY <3>4, <3>5
  <2>14. Clean'
    <3> SUFFICES ASSUME NEW y \in Thread, status'[y] \in {"held", "off"}
                 PROVE  queueNext'[y] = NULL /\ queueLast'[y] = NULL
      BY DEF Clean
    <3>1. y # x /\ status[y] \in {"held", "off"}
      BY <1>2
    <3>2. queueNext[y] = NULL /\ queueLast[y] = NULL /\ ~\E i \in 1 .. queueCount : At[i] = y
      BY <3>1, <1>1 DEF Clean, Linked
    <3>3. y # queueLast[x] /\ y # queueNext[x]
      <4>1. queueLast[x] = IF j = 1 THEN NULL ELSE At[j - 1]
        BY <1>3, <2>1 DEF IsList
      <4>2. queueNext[x] = IF j = queueCount THEN NULL ELSE At[j + 1]
        BY <1>3, <2>1 DEF IsList
      <4> QED
        BY <3>2, <4>1, <4>2, <2>2, QueueAssumption DEF QueueAssumption
    <3> QED
      BY <3>2, <3>3, <2>6
  <2> QED
    BY <1>4, <2>1, <2>10, <2>11, <2>13, <2>14 DEF IInv
<1> QED
  BY <1>1, <1>5, <1>6

\* The remaining actions do not touch the list: those of the scan,
LEMMA StartScanStep ==
  ASSUME IInv, StartScan
  PROVE  IInv' /\ At' = At
<1>1. UNCHANGED list /\ UNCHANGED <<nextTimestamp, killed, status, time>>
  BY DEF StartScan
<1>2. At' = At
  BY <1>1, SameAt
<1>3. UNCHANGED <<firstThread, lastThread, queueCount, queueNext, queueLast>>
  BY <1>1 DEF list
<1>4. queueCount \in Nat /\ time \in Nat /\ Quantum \in Nat
  BY QueueAssumption DEF IInv, Linked, IsList, TypeOK, QueueAssumption
<1>5. scan' = [on |-> TRUE, i |-> 0, max |-> queueCount, now |-> time, timeout |-> Quantum]
  BY DEF StartScan
<1>6. scan' \in ScanRecord
  BY <1>4, <1>5 DEF ScanRecord
<1>7. TypeOK'
  BY <1>1, <1>3, <1>6 DEF IInv, TypeOK, ScanRecord
<1>8. Linked' /\ Clean'
  BY <1>1, <1>2, <1>3 DEF IInv, Linked, Clean
<1>9. Scanned'
  BY <1>3, <1>4, <1>5 DEF Scanned
<1> QED
  BY <1>2, <1>7, <1>8, <1>9 DEF IInv

LEMMA ReturnNullStep ==
  ASSUME IInv, ReturnNull
  PROVE  IInv' /\ At' = At
<1>1. UNCHANGED list /\ UNCHANGED <<nextTimestamp, killed, status, time>> /\ scan' = NoScan
  BY DEF ReturnNull
<1>2. At' = At
  BY <1>1, SameAt
<1>3. UNCHANGED <<firstThread, lastThread, queueCount, queueNext, queueLast>>
  BY <1>1 DEF list
<1>4. TypeOK' /\ Linked' /\ Clean'
  BY <1>1, <1>2, <1>3 DEF IInv, TypeOK, Linked, Clean
<1>5. Scanned'
  BY <1>1 DEF Scanned, NoScan
<1> QED
  BY <1>2, <1>4, <1>5 DEF IInv

\* and those of the rest of the system, which may go on while the scan runs.
LEMMA SleepStep ==
  ASSUME IInv, NEW x \in Thread, Sleep(x)
  PROVE  IInv' /\ At' = At
<1>1. UNCHANGED list /\ UNCHANGED <<killed, status, time, scan>> /\ status[x] = "held"
  BY DEF Sleep
<1>2. At' = At
  BY <1>1, SameAt
<1>3. UNCHANGED <<firstThread, lastThread, queueCount, queueNext, queueLast>>
  BY <1>1 DEF list
<1>4. PICK d \in time .. MaxTime : nextTimestamp' = [nextTimestamp EXCEPT ![x] = d]
  BY DEF Sleep
<1>5. d \in 0 .. MaxTime
  BY QueueAssumption DEF IInv, TypeOK, QueueAssumption
<1>6. TypeOK'
  BY <1>1, <1>3, <1>4, <1>5 DEF IInv, TypeOK
<1>7. Linked' /\ Clean'
  BY <1>1, <1>2, <1>3 DEF IInv, Linked, Clean
<1>8. Scanned'
  <2>1. \A j \in 1 .. queueCount : At[j] \in Thread /\ At[j] # x
    BY <1>1 DEF IInv, Linked, IsList
  <2>2. \A j \in 1 .. queueCount : nextTimestamp'[At[j]] = nextTimestamp[At[j]]
    BY <1>4, <2>1 DEF IInv, TypeOK
  <2> QED
    BY <1>1, <1>2, <1>3, <2>2 DEF IInv, Scanned
<1> QED
  BY <1>2, <1>6, <1>7, <1>8 DEF IInv

LEMMA ParkOrWakeStep ==
  ASSUME IInv, NEW x \in Thread, Park(x) \/ Wake(x)
  PROVE  IInv' /\ At' = At
<1>1. UNCHANGED list /\ UNCHANGED <<nextTimestamp, killed, time, scan>> /\ status[x] \in {"held", "off"}
  BY DEF Park, Wake
<1>2. At' = At
  BY <1>1, SameAt
<1>3. UNCHANGED <<firstThread, lastThread, queueCount, queueNext, queueLast>>
  BY <1>1 DEF list
<1>4. PICK v \in {"held", "off"} : status' = [status EXCEPT ![x] = v]
  BY DEF Park, Wake, SetStatus
<1>5. TypeOK'
  BY <1>1, <1>3, <1>4 DEF IInv, TypeOK, Status
<1>6. \A y \in Thread : status'[y] = IF y = x THEN v ELSE status[y]
  BY <1>4 DEF IInv, TypeOK
<1>7. Linked'
  <2>1. \A y \in Thread : status'[y] = "queued" <=> status[y] = "queued"
    BY <1>1, <1>6
  <2> QED
    BY <1>2, <1>3, <2>1 DEF IInv, Linked
<1>8. Clean'
  BY <1>1, <1>3, <1>6 DEF IInv, Clean
<1>9. Scanned'
  BY <1>1, <1>2, <1>3 DEF IInv, Scanned
<1> QED
  BY <1>2, <1>5, <1>7, <1>8, <1>9 DEF IInv

LEMMA KillOrTickStep ==
  ASSUME IInv, Tick \/ \E x \in Thread : Kill(x)
  PROVE  IInv' /\ At' = At
<1>1. UNCHANGED list /\ UNCHANGED <<nextTimestamp, status, scan>>
  BY DEF Tick, Kill
<1>2. At' = At
  BY <1>1, SameAt
<1>3. UNCHANGED <<firstThread, lastThread, queueCount, queueNext, queueLast>>
  BY <1>1 DEF list
<1>4. killed' \subseteq Thread
  BY DEF Tick, Kill, IInv, TypeOK
<1>5. time' \in 0 .. MaxTime
  BY QueueAssumption DEF Tick, Kill, IInv, TypeOK, QueueAssumption
<1>6. TypeOK'
  BY <1>1, <1>3, <1>4, <1>5 DEF IInv, TypeOK
<1>7. Linked' /\ Clean' /\ Scanned'
  BY <1>1, <1>2, <1>3 DEF IInv, Linked, Clean, Scanned
<1> QED
  BY <1>2, <1>6, <1>7 DEF IInv

\* A dead thread is not in the list, whatever its links say.
LEMMA RenewStep ==
  ASSUME IInv, NEW x \in Thread, Renew(x)
  PROVE  IInv' /\ At' = At
<1>1. /\ UNCHANGED <<firstThread, lastThread, queueCount, time, scan>> /\ status[x] = "dead"
      /\ SetStatus(x, "held") /\ killed' = killed \ {x}
      /\ queueNext' = [queueNext EXCEPT ![x] = NULL]
      /\ queueLast' = [queueLast EXCEPT ![x] = NULL]
      /\ nextTimestamp' = [nextTimestamp EXCEPT ![x] = 0]
  BY DEF Renew
<1>2. \A j \in 1 .. queueCount : At[j] \in Thread /\ At[j] # x
  BY <1>1 DEF IInv, Linked, IsList
<1>3. \A y \in Thread : /\ status'[y] = IF y = x THEN "held" ELSE status[y]
                        /\ queueNext'[y] = IF y = x THEN NULL ELSE queueNext[y]
                        /\ queueLast'[y] = IF y = x THEN NULL ELSE queueLast[y]
                        /\ nextTimestamp'[y] = IF y = x THEN 0 ELSE nextTimestamp[y]
  BY <1>1 DEF IInv, TypeOK, SetStatus
<1>4. IsList(At, queueCount', firstThread', lastThread', queueNext', queueLast')
  <2>1. IsList(At, queueCount, firstThread, lastThread, queueNext, queueLast)
    BY DEF IInv, Linked
  <2>2. \A j \in 1 .. queueCount : queueNext'[At[j]] = queueNext[At[j]] /\ queueLast'[At[j]] = queueLast[At[j]]
    BY <1>2, <1>3
  <2>3. IsList(At, queueCount, firstThread, lastThread, queueNext', queueLast')
    BY <2>1, <2>2, SameList
  <2> QED
    BY <1>1, <2>3
<1>5. At' = At
  BY <1>4, AtIsNext
<1>6. TypeOK'
  <2>1. status' \in [Thread -> Status] /\ killed' \subseteq Thread
    BY <1>1 DEF IInv, TypeOK, SetStatus, Status
  <2>2. nextTimestamp' \in [Thread -> 0 .. MaxTime]
    BY <1>1, QueueAssumption DEF IInv, TypeOK, QueueAssumption
  <2>3. queueNext' \in [Thread -> Thread \cup {NULL}] /\ queueLast' \in [Thread -> Thread \cup {NULL}]
    BY <1>1 DEF IInv, TypeOK
  <2> QED
    BY <1>1, <2>1, <2>2, <2>3 DEF IInv, TypeOK
<1>7. Linked'
  <2>1. \A y \in Thread : status'[y] = "queued" <=> status[y] = "queued"
    BY <1>1, <1>3
  <2> QED
    BY <1>1, <1>4, <1>5, <2>1 DEF IInv, Linked
<1>8. Clean'
  BY <1>3 DEF IInv, Clean
<1>9. Scanned'
  BY <1>1, <1>2, <1>3, <1>5 DEF IInv, Scanned
<1> QED
  BY <1>5, <1>6, <1>7, <1>8, <1>9 DEF IInv

-----------------------------------------------------------------------------
(* The steps as steps of a queue.                                          *)

\* The list as a sequence, and its changes as operations on sequences
LEMMA AsSequence ==
  ASSUME NEW k \in Nat, NEW s \in [1 .. k -> Thread]
  PROVE  s \in Seq(Thread) /\ Len(s) = k /\ DOMAIN s = 1 .. k
  OBVIOUS

LEMMA AddedIsAppend ==
  ASSUME NEW k \in Nat, NEW s \in [1 .. k -> Thread], NEW x \in Thread
  PROVE  Added(s, k, x) = Append(s, x)
<1>1. s \in Seq(Thread) /\ Len(s) = k
  BY AsSequence
<1>2. Append(s, x) \in [1 .. k + 1 -> Thread]
  <2>1. Append(s, x) \in Seq(Thread) /\ Len(Append(s, x)) = k + 1
    BY <1>1
  <2> QED
    BY <2>1, LenProperties
<1>3. \A i \in 1 .. k + 1 : Append(s, x)[i] = IF i = k + 1 THEN x ELSE s[i]
  BY <1>1
<1> QED
  BY <1>2, <1>3 DEF Added

LEMMA DroppedIsTail ==
  ASSUME NEW k \in Nat \ {0}, NEW s \in [1 .. k -> Thread]
  PROVE  s # <<>> /\ Dropped(s, k) = Tail(s) /\ Dropped(s, k) \in [1 .. k - 1 -> Thread] /\ Head(s) = s[1]
<1>1. s \in Seq(Thread) /\ Len(s) = k
  BY AsSequence
<1>2. s # <<>>
  BY <1>1
<1>3. Tail(s) \in Seq(Thread) /\ Len(Tail(s)) = k - 1 /\ \A i \in 1 .. k - 1 : Tail(s)[i] = s[i + 1]
  BY <1>1, <1>2
<1>4. Tail(s) \in [1 .. k - 1 -> Thread]
  BY <1>3, LenProperties
<1>5. Tail(s) = [i \in 1 .. k - 1 |-> s[i + 1]]
  BY <1>3, <1>4
<1> QED
  BY <1>1, <1>2, <1>4, <1>5 DEF Dropped

LEMMA CutIsRemoveAt ==
  ASSUME NEW k \in Nat, NEW s \in [1 .. k -> Thread], NEW j \in 1 .. k
  PROVE  Cut(s, k, j) = Loop!RemoveAt(s, j)
<1> DEFINE a == SubSeq(s, 1, j - 1)
           b == SubSeq(s, j + 1, Len(s))
<1>1. s \in Seq(Thread) /\ Len(s) = k
  BY AsSequence
<1>2. a \in Seq(Thread) /\ Len(a) = j - 1 /\ \A i \in 1 .. j - 1 : a[i] = s[i]
  BY <1>1
<1>3. b \in Seq(Thread) /\ Len(b) = k - j /\ \A i \in 1 .. k - j : b[i] = s[j + i]
  BY <1>1
<1> HIDE DEF a, b
<1>4. /\ a \o b \in Seq(Thread) /\ Len(a \o b) = k - 1
      /\ \A i \in 1 .. k - 1 : (a \o b)[i] = IF i <= j - 1 THEN a[i] ELSE b[i - (j - 1)]
  <2>1. /\ a \o b \in Seq(Thread) /\ Len(a \o b) = Len(a) + Len(b)
        /\ \A i \in 1 .. Len(a) + Len(b) : (a \o b)[i] = IF i <= Len(a) THEN a[i] ELSE b[i - Len(a)]
    BY <1>2, <1>3, ConcatProperties
  <2>2. Len(a) + Len(b) = k - 1
    BY <1>2, <1>3
  <2> QED
    BY <1>2, <2>1, <2>2
<1>5. ASSUME NEW i \in 1 .. k - 1
      PROVE  (a \o b)[i] = IF i < j THEN s[i] ELSE s[i + 1]
  <2>1. CASE i < j
    BY <2>1, <1>2, <1>4
  <2>2. CASE ~(i < j)
    <3>1. i - (j - 1) \in 1 .. k - j /\ j + (i - (j - 1)) = i + 1
      BY <2>2
    <3>2. b[i - (j - 1)] = s[i + 1]
      BY <1>3, <3>1
    <3> QED
      BY <2>2, <1>4, <3>2
  <2> QED
    BY <2>1, <2>2
<1>6. a \o b \in [1 .. k - 1 -> Thread]
  BY <1>4, LenProperties
<1>7. a \o b = [i \in 1 .. k - 1 |-> IF i < j THEN s[i] ELSE s[i + 1]]
  BY <1>5, <1>6
<1> QED
  BY <1>7 DEF Cut, a, b, Loop!RemoveAt

\* Every step keeps the invariant, and is a step of a queue or leaves the list
\* alone.
LEMMA NextStep ==
  ASSUME IInv, [Next]_vars
  PROVE  IInv' /\ [Loop!Next]_At
<1> USE DEF Loop!Next, Loop!Push, Loop!Delete, Loop!Take, Loop!Postpone
<1>1. queueCount \in Nat /\ At \in [1 .. queueCount -> Thread]
  BY DEF IInv, Linked, IsList
<1>2. At \in Seq(Thread) /\ Len(At) = queueCount /\ DOMAIN At = 1 .. queueCount
  BY <1>1, AsSequence
<1>3. ASSUME NEW x \in Thread, Push(x)
      PROVE  IInv' /\ [Loop!Next]_At
  BY <1>1, <1>2, <1>3, PushStep, AddedIsAppend
<1>4. ASSUME NEW x \in Thread, Delete(x)
      PROVE  IInv' /\ [Loop!Next]_At
  <2>1. /\ IInv'
        /\ \/ At' = At
           \/ \E j \in 1 .. queueCount : At[j] = x /\ At' = Cut(At, queueCount, j)
    BY <1>4, DeleteStep
  <2>2. ASSUME NEW j \in 1 .. queueCount, At[j] = x, At' = Cut(At, queueCount, j)
        PROVE  Loop!Delete(x)
    BY <1>1, <1>2, <2>2, CutIsRemoveAt
  <2> QED
    BY <2>1, <2>2
<1>5. ASSUME NEW x \in Thread, DropKilled(x) \/ ReturnThread(x)
      PROVE  IInv' /\ [Loop!Next]_At
  <2>1. PICK v \in {"held", "off"} : SetStatus(x, v)
    BY <1>5 DEF DropKilled, ReturnThread
  <2>2. ShiftReady(x) /\ (scan' = NoScan \/ scan' = [scan EXCEPT !.i = @ + 1])
    BY <1>5 DEF DropKilled, ReturnThread
  <2>3. IInv' /\ At' = Dropped(At, queueCount) /\ queueCount # 0
    BY <2>1, <2>2, ShiftReadyStep
  <2> QED
    BY <1>1, <2>3, DroppedIsTail
<1>6. CASE SkipSleeper
  <2>1. IInv' /\ At' = Added(Dropped(At, queueCount), queueCount - 1, At[1]) /\ queueCount # 0
    BY <1>6, SkipSleeperStep
  <2>2. /\ At # <<>> /\ Dropped(At, queueCount) = Tail(At) /\ Head(At) = At[1]
        /\ Dropped(At, queueCount) \in [1 .. queueCount - 1 -> Thread]
    BY <1>1, <2>1, DroppedIsTail
  <2>3. queueCount - 1 \in Nat /\ At[1] \in Thread
    BY <1>1, <2>1
  <2>4. At' = Append(Tail(At), Head(At))
    BY <2>1, <2>2, <2>3, AddedIsAppend
  <2> QED
    BY <2>1, <2>2, <2>4
<1>7. ASSUME NEW x \in Thread, Sleep(x) \/ Park(x) \/ Wake(x) \/ Kill(x) \/ Renew(x)
      PROVE  IInv' /\ At' = At
  BY <1>7, SleepStep, ParkOrWakeStep, KillOrTickStep, RenewStep
<1>8. CASE StartScan \/ ReturnNull \/ Tick
  BY <1>8, StartScanStep, ReturnNullStep, KillOrTickStep
<1>9. CASE UNCHANGED vars
  <2>1. At' = At
    BY <1>9, SameAt DEF vars
  <2>2. IInv'
    BY <1>9, <2>1 DEF vars, list, IInv, TypeOK, Linked, Clean, Scanned
  <2> QED
    BY <2>1, <2>2
<1> QED
  BY <1>3, <1>4, <1>5, <1>6, <1>7, <1>8, <1>9 DEF Next

\* The invariant holds in every state.
THEOREM Invariance == Spec => []IInv
<1>1. Init => IInv
  BY InitIInv
<1>2. IInv /\ [Next]_vars => IInv'
  BY NextStep
<1> QED
  BY <1>1, <1>2, PTL DEF Spec

\* The links and queueCount describe one list of exactly the queued threads
\* (anscheduler_loop_push, _shift_thread, anscheduler_loop_delete).
THEOREM LinksDescribeOneList == Spec => []WellFormed
<1>1. IInv => WellFormed
  <2> SUFFICES ASSUME IInv PROVE WellFormed
    OBVIOUS
  <2>1. TypeOK /\ Linked /\ IsList(At, queueCount, firstThread, lastThread, queueNext, queueLast)
    BY DEF IInv, Linked
  <2>2. queueCount \in Nat /\ At \in [1 .. queueCount -> Thread]
    BY <2>1 DEF IsList
  <2>3. {At[i] : i \in 1 .. queueCount} = queued
    BY <2>1, <2>2 DEF Linked, queued
  <2>4. queueCount = Cardinality(queued)
    BY <2>1, <2>3, ListCardinality
  <2>5. queueCount = 0 => firstThread = NULL /\ lastThread = NULL
    BY <2>1 DEF IsList
  <2>6. queueCount # 0 => /\ lastThread = At[queueCount]
                          /\ queueNext[lastThread] = NULL /\ queueLast[firstThread] = NULL
    BY <2>1, <2>2 DEF IsList
  <2>7. \A i \in 2 .. queueCount : queueLast[At[i]] = At[i - 1]
    BY <2>1, <2>2 DEF IsList
  <2> QED
    BY <2>1, <2>3, <2>4, <2>5, <2>6, <2>7 DEF WellFormed
<1> QED
  BY <1>1, Invariance, PTL

\* A CPU halts only if nothing can run, and wakes up in time for the first
\* sleeping thread (_next_thread).
THEOREM HaltsOnlyInTime == Spec => []HaltsInTime
<1>1. IInv => HaltsInTime
  <2> SUFFICES ASSUME IInv, scan.on, scan.i = scan.max
               PROVE  /\ \A x \in Thread : ~Ready(x)
                      /\ \A x \in queued : scan.timeout <= nextTimestamp[x] - scan.now
    BY DEF HaltsInTime
  <2>1. scan.i \in Nat /\ scan.max \in Nat /\ scan.now \in Nat
    BY ScanTypes
  <2>2. ASSUME NEW x \in Thread, status[x] = "queued"
        PROVE  ~(nextTimestamp[x] <= scan.now) /\ scan.timeout <= nextTimestamp[x] - scan.now
    <3>1. PICK j \in 1 .. queueCount : At[j] = x
      BY <2>2 DEF IInv, Linked
    <3>2. scan.i + j > scan.max
      BY <2>1
    <3>3. nextTimestamp[x] > scan.now /\ scan.timeout <= nextTimestamp[x] - scan.now
      BY <3>1, <3>2 DEF IInv, Scanned
    <3>4. nextTimestamp[x] \in Nat
      BY QueueAssumption DEF IInv, TypeOK, QueueAssumption
    <3> QED
      BY <2>1, <3>3, <3>4
  <2> QED
    BY <2>2 DEF Ready, queued
<1> QED
  BY <1>1, Invariance, PTL

\* The list is a queue: loop.c implements RunLoop with the threads in the
\* order of the links as the line.
THEOREM Refinement == Spec => IsRunLoop
<1>1. Init => Loop!Init
  <2> SUFFICES ASSUME Init PROVE At = <<>>
    BY DEF Loop!Init
  <2>1. IInv /\ queueCount = 0
    BY InitIInv DEF Init
  <2>2. At \in [1 .. 0 -> Thread]
    BY <2>1 DEF IInv, Linked, IsList
  <2>3. At \in Seq(Thread) /\ Len(At) = 0
    BY <2>2, AsSequence
  <2> QED
    BY <2>3
<1>2. IInv /\ [Next]_vars => [Loop!Next]_At
  BY NextStep
<1> QED
  BY <1>1, <1>2, Invariance, PTL DEF Spec, IsRunLoop, Loop!Spec
=============================================================================
