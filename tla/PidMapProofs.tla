----------------------------- MODULE PidMapProofs -----------------------------
(***************************************************************************)
(* The buckets of pidmap.c stay lists, and a lookup finds exactly the task *)
(* it should: for any number of tasks, PIDs and buckets.  The invariant    *)
(* says of each bucket that some list of the tasks it should have exists   *)
(* that its links describe; that the walk of anscheduler_pidmap_get visits *)
(* this list is a lemma, whose induction is on a least counterexample.     *)
(***************************************************************************)
EXTENDS PidMap, FiniteSetTheorems, NaturalsInduction, WellFoundedInduction, TLAPS

Link == Task \cup {NULL}

-----------------------------------------------------------------------------
(* The list of a bucket.                                                   *)

\* s gives, in order, the k tasks of the list that starts at f and has the
\* links n and l.
IsChain(s, k, f, n, l) ==
  /\ k \in Nat /\ s \in [1 .. k -> Task]
  /\ \A i, j \in 1 .. k : s[i] = s[j] => i = j
  /\ f = IF k = 0 THEN NULL ELSE s[1]
  /\ \A i \in 1 .. k : n[s[i]] = IF i = k THEN NULL ELSE s[i + 1]
  /\ \A i \in 1 .. k : l[s[i]] = IF i = 1 THEN NULL ELSE s[i - 1]

In(t, s, k) == \E i \in 1 .. k : s[i] = t

\* The list with x before it, and without its j-th task
Pushed(s, k, x) == [i \in 1 .. k + 1 |-> IF i = 1 THEN x ELSE s[i - 1]]
Cut(s, k, j) == [i \in 1 .. k - 1 |-> IF i < j THEN s[i] ELSE s[i + 1]]

\* anscheduler_pidmap_set puts a task that is not in the list before it.
LEMMA PushChain ==
  ASSUME NEW s, NEW k, NEW f, NEW n, NEW l, IsChain(s, k, f, n, l),
         NEW x \in Task, \A i \in 1 .. k : s[i] # x, NEW n2, NEW l2,
         \A y \in Task : n2[y] = IF y = x THEN f ELSE n[y],
         \A y \in Task : l2[y] = IF y = x THEN NULL ELSE IF y = f THEN x ELSE l[y]
  PROVE  IsChain(Pushed(s, k, x), k + 1, x, n2, l2)
<1> DEFINE r == Pushed(s, k, x)
<1> USE PidMapAssumption DEF PidMapAssumption
<1>1. k \in Nat /\ s \in [1 .. k -> Task] /\ r \in [1 .. k + 1 -> Task]
  BY DEF IsChain, Pushed
<1>2. \A i \in 1 .. k : s[i] \in Task /\ s[i] # x
  BY <1>1
<1>3. r[1] = x /\ \A i \in 2 .. k + 1 : i - 1 \in 1 .. k /\ r[i] = s[i - 1]
  BY <1>1 DEF Pushed
<1> HIDE DEF r
<1>4. \A i, j \in 1 .. k : s[i] = s[j] => i = j
  BY DEF IsChain
<1>5. ASSUME NEW i \in 1 .. k + 1, NEW j \in 1 .. k + 1, r[i] = r[j]
      PROVE  i = j
  <2>1. CASE i = 1 /\ j = 1
    BY <2>1
  <2>2. CASE i = 1 /\ j # 1
    BY <2>2, <1>1, <1>2, <1>3, <1>5
  <2>3. CASE i # 1 /\ j = 1
    BY <2>3, <1>1, <1>2, <1>3, <1>5
  <2>4. CASE i # 1 /\ j # 1
    <3>1. i - 1 \in 1 .. k /\ j - 1 \in 1 .. k /\ s[i - 1] = s[j - 1]
      BY <2>4, <1>1, <1>3, <1>5
    <3>2. i - 1 = j - 1
      BY <3>1, <1>4
    <3> QED
      BY <3>2
  <2> QED
    BY <2>1, <2>2, <2>3, <2>4
<1>6. f = IF k = 0 THEN NULL ELSE s[1]
  BY DEF IsChain
<1>7. ASSUME NEW i \in 1 .. k + 1
      PROVE  /\ n2[r[i]] = IF i = k + 1 THEN NULL ELSE r[i + 1]
             /\ l2[r[i]] = IF i = 1 THEN NULL ELSE r[i - 1]
  <2>1. CASE i = 1
    <3>1. k # 0 => r[2] = s[1]
      BY <1>1, <1>3
    <3> QED
      BY <2>1, <3>1, <1>1, <1>3, <1>6
  <2>2. CASE i # 1
    <3>1. i \in 2 .. k + 1 /\ i - 1 \in 1 .. k /\ r[i] = s[i - 1]
      BY <2>2, <1>1, <1>3
    <3>2. n2[r[i]] = n[s[i - 1]]
      BY <3>1, <1>2
    <3>3. n[s[i - 1]] = IF i - 1 = k THEN NULL ELSE s[(i - 1) + 1]
      BY <3>1 DEF IsChain
    <3>4. i # k + 1 => r[i + 1] = s[i]
      BY <3>1, <1>1, <1>3
    <3>5. s[i - 1] = f <=> i = 2
      BY <3>1, <1>1, <1>4, <1>6
    <3>6. l[s[i - 1]] = IF i - 1 = 1 THEN NULL ELSE s[(i - 1) - 1]
      BY <3>1 DEF IsChain
    <3>7. i # 2 => i - 1 \in 2 .. k + 1 /\ r[i - 1] = s[(i - 1) - 1]
      BY <3>1, <1>1, <1>3
    <3>8. l2[r[i]] = r[i - 1]
      BY <3>1, <3>5, <3>6, <3>7, <1>2, <1>3
    <3> QED
      BY <2>2, <3>1, <3>2, <3>3, <3>4, <3>8, <1>1
  <2> QED
    BY <2>1, <2>2
<1>8. IsChain(r, k + 1, x, n2, l2)
  BY <1>1, <1>3, <1>5, <1>7 DEF IsChain
<1> QED
  BY <1>8 DEF r

\* anscheduler_pidmap_unset leads the links around a task of the list, and
\* the bucket to its successor if it is the first.
LEMMA CutChain ==
  ASSUME NEW s, NEW k, NEW f, NEW n, NEW l, IsChain(s, k, f, n, l),
         NEW j \in 1 .. k, NEW x, x = s[j], NEW f2, NEW n2, NEW l2,
         f2 = IF l[x] = NULL THEN n[x] ELSE f,
         \A y \in Task : n2[y] = IF y = x THEN NULL ELSE IF y = l[x] THEN n[x] ELSE n[y],
         \A y \in Task : l2[y] = IF y = x THEN NULL ELSE IF y = n[x] THEN l[x] ELSE l[y]
  PROVE  IsChain(Cut(s, k, j), k - 1, f2, n2, l2)
<1> DEFINE r == Cut(s, k, j)
<1> USE PidMapAssumption DEF PidMapAssumption
<1>1. k \in Nat \ {0} /\ s \in [1 .. k -> Task] /\ r \in [1 .. k - 1 -> Task]
  BY DEF IsChain, Cut
<1>2. \A i \in 1 .. k - 1 : r[i] = IF i < j THEN s[i] ELSE s[i + 1]
  BY <1>1 DEF Cut
<1>3. \A a, b \in 1 .. k : s[a] = s[b] => a = b
  BY DEF IsChain
<1>4. \A i \in 1 .. k - 1 : r[i] # x /\ r[i] \in Task
  BY <1>1, <1>2, <1>3
<1>5. \A a, b \in 1 .. k - 1 : r[a] = r[b] => a = b
  BY <1>1, <1>2, <1>3
<1>6. n[x] = IF j = k THEN NULL ELSE s[j + 1]
  BY DEF IsChain
<1>7. l[x] = IF j = 1 THEN NULL ELSE s[j - 1]
  BY DEF IsChain
<1>8. \A i \in 1 .. k : s[i] \in Task /\ s[i] # NULL
  BY <1>1
<1> HIDE DEF r
<1>9. ASSUME NEW i \in 1 .. k - 1
      PROVE  /\ n2[r[i]] = IF i = k - 1 THEN NULL ELSE r[i + 1]
             /\ l2[r[i]] = IF i = 1 THEN NULL ELSE r[i - 1]
  <2>1. n2[r[i]] = IF r[i] = l[x] THEN n[x] ELSE n[r[i]]
    BY <1>4
  <2>2. l2[r[i]] = IF r[i] = n[x] THEN l[x] ELSE l[r[i]]
    BY <1>4
  <2>3. r[i] = l[x] <=> i = j - 1
    BY <1>1, <1>2, <1>3, <1>7, <1>8
  <2>4. r[i] = n[x] <=> i = j
    BY <1>1, <1>2, <1>3, <1>6, <1>8
  <2>5. \A a \in 1 .. k : n[s[a]] = IF a = k THEN NULL ELSE s[a + 1]
    BY DEF IsChain
  <2>6. \A a \in 1 .. k : l[s[a]] = IF a = 1 THEN NULL ELSE s[a - 1]
    BY DEF IsChain
  <2>7. CASE i < j - 1
    <3>1. r[i] = s[i] /\ r[i + 1] = s[i + 1] /\ (i # 1 => r[i - 1] = s[i - 1])
      BY <2>7, <1>1, <1>2
    <3> QED
      BY <3>1, <2>1, <2>2, <2>3, <2>4, <2>5, <2>6, <2>7, <1>1
  <2>8. CASE i = j - 1
    <3>1. r[i] = s[i] /\ (i # 1 => r[i - 1] = s[i - 1]) /\ (i # k - 1 => r[i + 1] = s[j + 1])
      BY <2>8, <1>1, <1>2
    <3> QED
      BY <3>1, <2>1, <2>2, <2>3, <2>4, <2>6, <2>8, <1>1, <1>6
  <2>9. CASE i = j
    <3>1. r[i] = s[i + 1] /\ (i # 1 => r[i - 1] = s[i - 1]) /\ (i # k - 1 => r[i + 1] = s[i + 2])
      BY <2>9, <1>1, <1>2
    <3> QED
      BY <3>1, <2>1, <2>2, <2>3, <2>4, <2>5, <2>9, <1>1, <1>7
  <2>10. CASE i > j
    <3>1. r[i] = s[i + 1] /\ r[i - 1] = s[i] /\ (i # k - 1 => r[i + 1] = s[i + 2])
      <4>1. /\ ~(i < j) /\ ~(i - 1 < j) /\ i - 1 \in 1 .. k - 1 /\ (i - 1) + 1 = i
            /\ i # k - 1 => i + 1 \in 1 .. k - 1 /\ ~(i + 1 < j) /\ (i + 1) + 1 = i + 2
        BY <2>10, <1>1
      <4> QED
        BY <4>1, <1>2
    <3> QED
      BY <3>1, <2>1, <2>2, <2>3, <2>4, <2>5, <2>6, <2>10, <1>1
  <2> QED
    BY <2>7, <2>8, <2>9, <2>10, <1>1
<1>10. f2 = IF k - 1 = 0 THEN NULL ELSE r[1]
  <2>1. f = s[1]
    BY <1>1 DEF IsChain
  <2>2. l[x] = NULL <=> j = 1
    BY <1>1, <1>7, <1>8
  <2>3. k # 1 => r[1] = IF j = 1 THEN s[2] ELSE s[1]
    BY <1>1, <1>2
  <2> QED
    BY <2>1, <2>2, <2>3, <1>1, <1>6
<1>11. k - 1 \in Nat
  BY <1>1
<1>12. IsChain(r, k - 1, f2, n2, l2)
  BY <1>1, <1>5, <1>9, <1>10, <1>11 DEF IsChain
<1> QED
  BY <1>12 DEF r

\* Links of tasks outside the list do not matter.
LEMMA SameChain ==
  ASSUME NEW s, NEW k, NEW f, NEW n, NEW l, IsChain(s, k, f, n, l),
         NEW n2, NEW l2, \A i \in 1 .. k : n2[s[i]] = n[s[i]] /\ l2[s[i]] = l[s[i]]
  PROVE  IsChain(s, k, f, n2, l2)
  BY DEF IsChain

\* Which tasks are in the list with x before it, and without x
LEMMA PushedEntries ==
  ASSUME NEW k \in Nat, NEW s \in [1 .. k -> Task], NEW x \in Task, NEW t
  PROVE  In(t, Pushed(s, k, x), k + 1) <=> t = x \/ In(t, s, k)
<1>1. Pushed(s, k, x)[1] = x /\ 1 \in 1 .. k + 1
  BY DEF Pushed
<1>2. \A i \in 1 .. k : i + 1 \in 1 .. k + 1 /\ Pushed(s, k, x)[i + 1] = s[i]
  BY DEF Pushed
<1>3. \A i \in 1 .. k + 1 : i # 1 => i - 1 \in 1 .. k /\ Pushed(s, k, x)[i] = s[i - 1]
  BY DEF Pushed
<1> QED
  BY <1>1, <1>2, <1>3 DEF In

LEMMA CutEntries ==
  ASSUME NEW k \in Nat, NEW s \in [1 .. k -> Task], NEW j \in 1 .. k, NEW t,
         \A a, b \in 1 .. k : s[a] = s[b] => a = b
  PROVE  In(t, Cut(s, k, j), k - 1) <=> t # s[j] /\ In(t, s, k)
<1>1. \A i \in 1 .. k - 1 : Cut(s, k, j)[i] = IF i < j THEN s[i] ELSE s[i + 1]
  BY DEF Cut
<1>2. ASSUME NEW i \in 1 .. k - 1
      PROVE  Cut(s, k, j)[i] # s[j] /\ \E a \in 1 .. k : s[a] = Cut(s, k, j)[i]
  <2>1. CASE i < j
    BY <2>1, <1>1
  <2>2. CASE ~(i < j)
    <3>1. i + 1 \in 1 .. k /\ i + 1 # j /\ Cut(s, k, j)[i] = s[i + 1]
      BY <2>2, <1>1
    <3> QED
      BY <3>1
  <2> QED
    BY <2>1, <2>2
<1>3. ASSUME NEW i \in 1 .. k, i # j
      PROVE  \E a \in 1 .. k - 1 : Cut(s, k, j)[a] = s[i]
  <2>1. CASE i < j
    <3>1. i \in 1 .. k - 1
      BY <2>1
    <3> QED
      BY <2>1, <3>1, <1>1
  <2>2. CASE ~(i < j)
    <3>1. i - 1 \in 1 .. k - 1 /\ ~(i - 1 < j) /\ (i - 1) + 1 = i
      BY <2>2, <1>3
    <3>2. Cut(s, k, j)[i - 1] = s[i]
      BY <3>1, <1>1
    <3> QED
      BY <3>1, <3>2
  <2> QED
    BY <2>1, <2>2
<1> QED
  BY <1>2, <1>3 DEF In

-----------------------------------------------------------------------------
(* The walk through a bucket.                                              *)

\* The least-number principle
LEMMA NatMin ==
  ASSUME NEW T \in SUBSET Nat, T # {}
  PROVE  \E m \in T : \A i \in T : m <= i
<1>1. PICK m \in T : \A i \in T : ~(<<i, m>> \in OpToRel(<, Nat))
  BY NatLessThanWellFounded, WFMin, Zenon
<1>2. \A i \in T : ~(i < m)
  BY <1>1 DEF OpToRel
<1> QED
  BY <1>2

\* Visited, with the head of the bucket and the links as arguments
Walk(f, n, c) ==
  LET at[m \in 0 .. c] ==
        IF m = 0 THEN f ELSE IF at[m - 1] = NULL THEN NULL ELSE n[at[m - 1]]
  IN at

\* The walk visits the list in its order and then stays at its end.
LEMMA WalkChain ==
  ASSUME NEW s, NEW k, NEW f, NEW n, NEW l, IsChain(s, k, f, n, l), NEW c \in Nat
  PROVE  /\ DOMAIN Walk(f, n, c) = 0 .. c
         /\ \A m \in 0 .. c : Walk(f, n, c)[m] = IF m < k THEN s[m + 1] ELSE NULL
<1> DEFINE G(g) == [m \in 0 .. c |-> IF m = 0 THEN f
                                     ELSE IF g[m - 1] = NULL THEN NULL ELSE n[g[m - 1]]]
           w == CHOOSE g : g = G(g)
           v == [m \in 0 .. c |-> IF m < k THEN s[m + 1] ELSE NULL]
<1>1. k \in Nat /\ s \in [1 .. k -> Task] /\ f = IF k = 0 THEN NULL ELSE s[1]
  BY DEF IsChain
<1>2. \A i \in 1 .. k : s[i] # NULL /\ n[s[i]] = IF i = k THEN NULL ELSE s[i + 1]
  BY <1>1, PidMapAssumption DEF IsChain, PidMapAssumption
<1>3. \A m \in 0 .. c : v[m] = IF m < k THEN s[m + 1] ELSE NULL
  OBVIOUS
<1>4. v[0] = f
  BY <1>1, <1>3
<1>5. ASSUME NEW m \in 0 .. c, m # 0
      PROVE  v[m] = IF v[m - 1] = NULL THEN NULL ELSE n[v[m - 1]]
  <2>1. m - 1 \in 0 .. c /\ v[m - 1] = IF m - 1 < k THEN s[(m - 1) + 1] ELSE NULL
    BY <1>3, <1>5
  <2>2. (m - 1) + 1 = m
    BY <1>5
  <2>3. CASE m < k
    <3>1. m \in 1 .. k /\ m # k /\ m - 1 < k
      BY <2>3, <1>1, <1>5
    <3> QED
      BY <2>1, <2>2, <2>3, <3>1, <1>2, <1>3
  <2>4. CASE m = k
    <3>1. m \in 1 .. k /\ m - 1 < k
      BY <2>4, <1>1, <1>5
    <3> QED
      BY <2>1, <2>2, <2>4, <3>1, <1>1, <1>2, <1>3
  <2>5. CASE m > k
    BY <2>1, <2>5, <1>1, <1>3
  <2> QED
    BY <2>3, <2>4, <2>5, <1>1
<1>6. v = [m \in 0 .. c |-> v[m]]
  OBVIOUS
<1> HIDE DEF v
<1>7. v = G(v)
  BY <1>4, <1>5, <1>6
<1>8. w = G(w)
  BY <1>7
<1> HIDE DEF w
<1>9. \A m \in 0 .. c : w[m] = v[m]
  <2> DEFINE T == {m \in 0 .. c : w[m] # v[m]}
  <2> SUFFICES ASSUME T # {} PROVE FALSE
    OBVIOUS
  <2>1. PICK m \in T : \A i \in T : m <= i
    <3>1. T \in SUBSET Nat
      OBVIOUS
    <3> HIDE DEF T
    <3> QED
      BY <3>1, NatMin
  <2>2. m # 0
    BY <1>4, <1>8
  <2>3. m - 1 \in 0 .. c /\ w[m - 1] = v[m - 1]
    BY <2>1, <2>2
  <2>4. w[m] = IF w[m - 1] = NULL THEN NULL ELSE n[w[m - 1]]
    BY <1>8, <2>2
  <2> QED
    BY <1>5, <2>2, <2>3, <2>4
<1>10. Walk(f, n, c) = w
  BY DEF Walk, w
<1>11. DOMAIN w = 0 .. c
  BY <1>8
<1> QED
  BY <1>3, <1>9, <1>10, <1>11

\* A list has no more entries than there are tasks.
LEMMA ChainBound ==
  ASSUME NEW s, NEW k, NEW f, NEW n, NEW l, IsChain(s, k, f, n, l)
  PROVE  Cardinality(Task) \in Nat /\ k <= Cardinality(Task)
<1> DEFINE S == {s[i] : i \in 1 .. k}
<1>1. k \in Nat /\ s \in [1 .. k -> Task]
  BY DEF IsChain
<1>2. s \in Bijection(1 .. k, S)
  BY <1>1 DEF IsChain, Bijection, Injection, Surjection, IsInjective
<1>3. Cardinality(S) = k
  BY <1>1, <1>2, FS_CountingElements DEF ExistsBijection
<1>4. S \subseteq Task /\ IsFiniteSet(Task)
  BY <1>1, PidMapAssumption DEF PidMapAssumption
<1> QED
  BY <1>3, <1>4, FS_Subset, FS_CardinalityType

-----------------------------------------------------------------------------
(* The inductive invariant.                                                *)

\* The bucket h has a list of exactly the tasks that should be in it.
Listed(s, k, h) ==
  /\ IsChain(s, k, pidHashmap[h], next, last)
  /\ \A t \in Task : t \in Mapped /\ _hash_pid(pid[t]) = h <=> In(t, s, k)

Linked == \A h \in 0 .. Buckets - 1 : \E k \in Nat : \E s \in [1 .. k -> Task] : Listed(s, k, h)

\* A PID belongs to one task, and is not in the pool.
Owned ==
  \A t \in Task : phase[t] # "free" =>
    /\ users[pid[t]] = 1
    /\ \A u \in Task : phase[u] # "free" /\ pid[u] = pid[t] => u = t

IInv == TypeOK /\ Linked /\ Owned

\* Hashes are indices of pidHashmap.
LEMMA HashRange ==
  ASSUME NEW p \in Pid
  PROVE  _hash_pid(p) \in 0 .. Buckets - 1
  BY PidMapAssumption DEF _hash_pid, Pid, PidMapAssumption

\* The list of a bucket is still there if neither its head nor the links of
\* its tasks change, and the same tasks belong into it.
LEMMA KeepListed ==
  ASSUME NEW h \in 0 .. Buckets - 1, NEW k, NEW s, Listed(s, k, h),
         pidHashmap'[h] = pidHashmap[h],
         \A t \in Task : t \in Mapped /\ _hash_pid(pid[t]) = h =>
            next'[t] = next[t] /\ last'[t] = last[t],
         \A t \in Task : t \in Mapped' /\ _hash_pid(pid'[t]) = h
                           <=> t \in Mapped /\ _hash_pid(pid[t]) = h
  PROVE  Listed(s, k, h)'
<1>1. IsChain(s, k, pidHashmap[h], next, last)
  BY DEF Listed
<1>2. k \in Nat /\ s \in [1 .. k -> Task]
  BY <1>1 DEF IsChain
<1>3. \A i \in 1 .. k : next'[s[i]] = next[s[i]] /\ last'[s[i]] = last[s[i]]
  <2> SUFFICES ASSUME NEW i \in 1 .. k
               PROVE  next'[s[i]] = next[s[i]] /\ last'[s[i]] = last[s[i]]
    OBVIOUS
  <2>1. s[i] \in Task
    BY <1>2
  <2>2. s[i] \in Mapped /\ _hash_pid(pid[s[i]]) = h
    BY <2>1 DEF Listed, In
  <2> QED
    BY <2>1, <2>2
<1>4. IsChain(s, k, pidHashmap[h], next', last')
  BY <1>1, <1>3, SameChain
<1>5. IsChain(s, k, pidHashmap'[h], next', last')
  BY <1>4
<1> QED
  BY <1>5 DEF Listed

\* The map is still linked after a step that changes no link of a mapped task
\* and leaves the same tasks mapped.
LEMMA KeepLinked ==
  ASSUME Linked, pidHashmap' = pidHashmap,
         \A t \in Mapped : next'[t] = next[t] /\ last'[t] = last[t] /\ pid'[t] = pid[t],
         Mapped' = Mapped
  PROVE  Linked'
<1> SUFFICES ASSUME NEW h \in 0 .. Buckets - 1
             PROVE  \E k \in Nat : \E s \in [1 .. k -> Task] : Listed(s, k, h)'
  BY DEF Linked
<1>1. PICK k \in Nat : \E s \in [1 .. k -> Task] : Listed(s, k, h)
  BY DEF Linked
<1>2. PICK s \in [1 .. k -> Task] : Listed(s, k, h)
  BY <1>1
<1>3. Listed(s, k, h)'
  BY <1>2, KeepListed
<1> QED
  BY <1>3

\* Empty buckets at the start
LEMMA InitIInv == Init => IInv
<1> SUFFICES ASSUME Init PROVE IInv
  OBVIOUS
<1> USE PidMapAssumption DEF PidMapAssumption
<1>1. TypeOK
  BY DEF TypeOK, Init, Phase, Pid, Mapped
<1>2. Linked
  <2> SUFFICES ASSUME NEW h \in 0 .. Buckets - 1
               PROVE  \E k \in Nat : \E s \in [1 .. k -> Task] : Listed(s, k, h)
    BY DEF Linked
  <2> DEFINE s == [i \in 1 .. 0 |-> NULL]
  <2>1. s \in [1 .. 0 -> Task] /\ IsChain(s, 0, pidHashmap[h], next, last)
    BY DEF Init, IsChain
  <2>2. Listed(s, 0, h)
    BY <2>1 DEF Listed, Init, Mapped, In
  <2> QED
    BY <2>1, <2>2
<1>3. Owned
  BY DEF Owned, Init
<1> QED
  BY <1>1, <1>2, <1>3 DEF IInv

\* anscheduler_task_create: the task gets a PID nobody has.
LEMMA CreateStep ==
  ASSUME IInv, NEW t \in Task, Create(t)
  PROVE  IInv'
<1> USE PidMapAssumption DEF PidMapAssumption
<1>1. TypeOK /\ Linked /\ Owned
  BY DEF IInv
<1>2. /\ phase[t] = "free" /\ phase' = [phase EXCEPT ![t] = "created"]
      /\ refCount' = [refCount EXCEPT ![t] = 1] /\ isKilled' = [isKilled EXCEPT ![t] = FALSE]
      /\ next' = [next EXCEPT ![t] = NULL] /\ last' = [last EXCEPT ![t] = NULL]
      /\ pidHashmap' = pidHashmap
  BY DEF Create
<1>3. PICK p \in Pid : Pool!Get(p) /\ pid' = [pid EXCEPT ![t] = p]
  BY DEF Create, PidmapAllocPid
<1>4. users[p] = 0 /\ users' = [users EXCEPT ![p] = 1]
  BY <1>1, <1>3 DEF Pool!Get, TypeOK
<1>5. \A u \in Task : /\ phase'[u] = IF u = t THEN "created" ELSE phase[u]
                      /\ pid'[u] = IF u = t THEN p ELSE pid[u]
                      /\ next'[u] = IF u = t THEN NULL ELSE next[u]
                      /\ last'[u] = IF u = t THEN NULL ELSE last[u]
  BY <1>1, <1>2, <1>3 DEF TypeOK
<1>6. t \notin Mapped /\ Mapped' = Mapped
  BY <1>2, <1>5 DEF Mapped
<1>7. TypeOK'
  <2>1. phase' \in [Task -> Phase] /\ isKilled' \in [Task -> BOOLEAN]
    BY <1>1, <1>2 DEF TypeOK, Phase
  <2>2. refCount' \in [Task -> 0 .. MaxRefs]
    BY <1>1, <1>2 DEF TypeOK
  <2>3. pid' \in [Task -> Pid] /\ users' \in [Pid -> 0 .. 1]
    BY <1>1, <1>3, <1>4 DEF TypeOK
  <2>4. next' \in [Task -> Task \cup {NULL}] /\ last' \in [Task -> Task \cup {NULL}]
    BY <1>1, <1>2 DEF TypeOK
  <2>5. \A u \in Task \ Mapped' : next'[u] = NULL /\ last'[u] = NULL
    BY <1>1, <1>5, <1>6 DEF TypeOK
  <2> QED
    BY <1>1, <1>2, <2>1, <2>2, <2>3, <2>4, <2>5 DEF TypeOK
<1>8. Linked'
  <2>1. \A u \in Mapped : u \in Task /\ u # t
    BY <1>6 DEF Mapped
  <2>2. \A u \in Mapped : next'[u] = next[u] /\ last'[u] = last[u] /\ pid'[u] = pid[u]
    BY <1>5, <2>1
  <2> QED
    BY <1>1, <1>2, <1>6, <2>2, KeepLinked
<1>9. Owned'
  <2> SUFFICES ASSUME NEW v \in Task, phase'[v] # "free"
               PROVE  /\ users'[pid'[v]] = 1
                      /\ \A u \in Task : phase'[u] # "free" /\ pid'[u] = pid'[v] => u = v
    BY DEF Owned
  <2>1. \A u \in Task : phase[u] # "free" => pid[u] \in Pid /\ users[pid[u]] = 1 /\ pid[u] # p
    BY <1>1, <1>4 DEF Owned, TypeOK
  <2>2. CASE v = t
    BY <2>1, <2>2, <1>1, <1>4, <1>5 DEF TypeOK
  <2>3. CASE v # t
    BY <2>1, <2>3, <1>1, <1>4, <1>5 DEF TypeOK, Owned
  <2> QED
    BY <2>2, <2>3
<1> QED
  BY <1>7, <1>8, <1>9 DEF IInv

\* anscheduler_task_launch puts the task at the head of its bucket.
LEMMA LaunchStep ==
  ASSUME IInv, NEW t \in Task, Launch(t)
  PROVE  IInv'
<1> USE PidMapAssumption DEF PidMapAssumption
<1>1. TypeOK /\ Linked /\ Owned
  BY DEF IInv
<1>2. /\ phase[t] = "created" /\ phase' = [phase EXCEPT ![t] = "launched"]
      /\ UNCHANGED <<pid, refCount, isKilled, users>>
  BY DEF Launch
<1>3. PICK h \in 0 .. Buckets - 1 : h = _hash_pid(pid[t])
  BY <1>1, HashRange DEF TypeOK
<1>4. /\ pidHashmap' = [pidHashmap EXCEPT ![h] = t]
      /\ next' = [next EXCEPT ![t] = pidHashmap[h]]
      /\ last' = [u \in Task |-> IF u = t THEN NULL
                                 ELSE IF u = pidHashmap[h] THEN t ELSE last[u]]
  BY <1>3 DEF Launch, PidmapSet
<1>5. \A u \in Task : /\ phase'[u] = IF u = t THEN "launched" ELSE phase[u]
                      /\ next'[u] = IF u = t THEN pidHashmap[h] ELSE next[u]
                      /\ last'[u] = IF u = t THEN NULL
                                    ELSE IF u = pidHashmap[h] THEN t ELSE last[u]
  BY <1>1, <1>2, <1>4 DEF TypeOK
<1>6. t \notin Mapped /\ Mapped' = Mapped \cup {t}
  BY <1>2, <1>5 DEF Mapped
<1>7. PICK k \in Nat : \E s \in [1 .. k -> Task] : Listed(s, k, h)
  BY <1>1, <1>3 DEF Linked
<1>8. PICK s \in [1 .. k -> Task] : Listed(s, k, h)
  BY <1>7
<1>9. pidHashmap[h] # NULL => pidHashmap[h] \in Mapped /\ _hash_pid(pid[pidHashmap[h]]) = h
  <2> SUFFICES ASSUME pidHashmap[h] # NULL
               PROVE  pidHashmap[h] \in Mapped /\ _hash_pid(pid[pidHashmap[h]]) = h
    OBVIOUS
  <2>1. pidHashmap[h] = NULL \/ In(pidHashmap[h], s, k)
    BY <1>8 DEF Listed, IsChain, In
  <2>2. pidHashmap[h] \in Task \cup {NULL}
    BY <1>1, <1>3 DEF TypeOK
  <2> QED
    BY <1>8, <2>1, <2>2 DEF Listed
<1>10. TypeOK'
  <2>1. phase' \in [Task -> Phase]
    BY <1>1, <1>2 DEF TypeOK, Phase
  <2>2. pidHashmap[h] \in Task \cup {NULL}
    BY <1>1, <1>3 DEF TypeOK
  <2>3. /\ pidHashmap' \in [0 .. Buckets - 1 -> Task \cup {NULL}]
        /\ next' \in [Task -> Task \cup {NULL}] /\ last' \in [Task -> Task \cup {NULL}]
    BY <1>1, <1>4, <2>2 DEF TypeOK
  <2>4. \A u \in Task \ Mapped' : next'[u] = NULL /\ last'[u] = NULL
    <3> SUFFICES ASSUME NEW u \in Task, u \notin Mapped'
                 PROVE  next'[u] = NULL /\ last'[u] = NULL
      OBVIOUS
    <3>1. u # t /\ u \notin Mapped
      BY <1>6
    <3>2. next[u] = NULL /\ last[u] = NULL
      BY <3>1, <1>1 DEF TypeOK
    <3> QED
      BY <3>1, <3>2, <1>5, <1>9
  <2> QED
    BY <1>1, <1>2, <2>1, <2>3, <2>4 DEF TypeOK
<1>11. Linked'
  <2> SUFFICES ASSUME NEW g \in 0 .. Buckets - 1
               PROVE  \E m \in Nat : \E r \in [1 .. m -> Task] : Listed(r, m, g)'
    BY DEF Linked
  <2>1. CASE g # h
    <3>1. PICK m \in Nat : \E r \in [1 .. m -> Task] : Listed(r, m, g)
      BY <1>1 DEF Linked
    <3>2. PICK r \in [1 .. m -> Task] : Listed(r, m, g)
      BY <3>1
    <3>3. pidHashmap'[g] = pidHashmap[g]
      BY <1>1, <1>4, <2>1 DEF TypeOK
    <3>4. ASSUME NEW u \in Task, u \in Mapped, _hash_pid(pid[u]) = g
          PROVE  next'[u] = next[u] /\ last'[u] = last[u]
      BY <3>4, <2>1, <1>5, <1>6, <1>9
    <3>5. \A u \in Task : u \in Mapped' /\ _hash_pid(pid'[u]) = g
                            <=> u \in Mapped /\ _hash_pid(pid[u]) = g
      BY <1>2, <1>3, <1>6, <2>1
    <3>6. Listed(r, m, g)'
      BY <3>2, <3>3, <3>4, <3>5, KeepListed
    <3> QED
      BY <3>6
  <2>2. CASE g = h
    <3>1. IsChain(s, k, pidHashmap[h], next, last) /\ \A i \in 1 .. k : s[i] # t
      BY <1>6, <1>8 DEF Listed, In
    <3>2. IsChain(Pushed(s, k, t), k + 1, t, next', last')
      <4>1. \A u \in Task : next'[u] = IF u = t THEN pidHashmap[h] ELSE next[u]
        BY <1>5
      <4>2. \A u \in Task : last'[u] = IF u = t THEN NULL
                                       ELSE IF u = pidHashmap[h] THEN t ELSE last[u]
        BY <1>5
      <4> QED
        BY <3>1, <4>1, <4>2, PushChain
    <3>3. pidHashmap'[h] = t
      BY <1>1, <1>3, <1>4 DEF TypeOK
    <3>4. ASSUME NEW u \in Task
          PROVE  u \in Mapped' /\ _hash_pid(pid'[u]) = h <=> In(u, Pushed(s, k, t), k + 1)
      <4>1. u \in Mapped /\ _hash_pid(pid[u]) = h <=> In(u, s, k)
        BY <1>8 DEF Listed
      <4>2. In(u, Pushed(s, k, t), k + 1) <=> u = t \/ In(u, s, k)
        BY PushedEntries
      <4> QED
        BY <4>1, <4>2, <1>2, <1>3, <1>6
    <3>5. Listed(Pushed(s, k, t), k + 1, h)'
      BY <3>2, <3>3, <3>4 DEF Listed
    <3>6. k + 1 \in Nat /\ Pushed(s, k, t) \in [1 .. k + 1 -> Task]
      BY <3>2 DEF IsChain
    <3> QED
      BY <2>2, <3>5, <3>6
  <2> QED
    BY <2>1, <2>2
<1>12. Owned'
  BY <1>1, <1>2, <1>5 DEF Owned
<1> QED
  BY <1>10, <1>11, <1>12 DEF IInv

\* The start of _free_task_method takes the task out of its bucket.
LEMMA FreeTaskUnsetStep ==
  ASSUME IInv, NEW t \in Task, FreeTaskUnset(t)
  PROVE  IInv'
<1> USE PidMapAssumption DEF PidMapAssumption
<1>1. TypeOK /\ Linked /\ Owned
  BY DEF IInv
<1>2. /\ phase[t] = "dying" /\ phase' = [phase EXCEPT ![t] = "unset"]
      /\ UNCHANGED <<pid, refCount, isKilled, users>>
  BY DEF FreeTaskUnset
<1>3. PICK h \in 0 .. Buckets - 1 : h = _hash_pid(pid[t])
  BY <1>1, HashRange DEF TypeOK
<1>4. /\ pidHashmap' = IF last[t] = NULL THEN [pidHashmap EXCEPT ![h] = next[t]] ELSE pidHashmap
      /\ next' = [u \in Task |-> IF u = t THEN NULL
                                 ELSE IF u = last[t] THEN next[t] ELSE next[u]]
      /\ last' = [u \in Task |-> IF u = t THEN NULL
                                 ELSE IF u = next[t] THEN last[t] ELSE last[u]]
  BY <1>3 DEF FreeTaskUnset, PidmapUnset
<1>5. \A u \in Task : phase'[u] = IF u = t THEN "unset" ELSE phase[u]
  BY <1>1, <1>2 DEF TypeOK
<1>6. \A u \in Task : next'[u] = IF u = t THEN NULL ELSE IF u = last[t] THEN next[t] ELSE next[u]
  BY <1>4
<1>7. \A u \in Task : last'[u] = IF u = t THEN NULL ELSE IF u = next[t] THEN last[t] ELSE last[u]
  BY <1>4
<1>8. t \in Mapped /\ Mapped' = Mapped \ {t}
  BY <1>2, <1>5 DEF Mapped
<1>9. PICK k \in Nat : \E s \in [1 .. k -> Task] : Listed(s, k, h)
  BY <1>1, <1>3 DEF Linked
<1>10. PICK s \in [1 .. k -> Task] : Listed(s, k, h)
  BY <1>9
<1>11. IsChain(s, k, pidHashmap[h], next, last) /\ \A a, b \in 1 .. k : s[a] = s[b] => a = b
  BY <1>10 DEF Listed, IsChain
<1>12. PICK j \in 1 .. k : s[j] = t
  BY <1>3, <1>8, <1>10 DEF Listed, In
<1>13. ASSUME NEW u \in {next[t], last[t]}, u # NULL
       PROVE  u \in Mapped /\ _hash_pid(pid[u]) = h
  <2>1. In(u, s, k)
    <3>1. next[t] = IF j = k THEN NULL ELSE s[j + 1]
      BY <1>11, <1>12 DEF IsChain
    <3>2. last[t] = IF j = 1 THEN NULL ELSE s[j - 1]
      BY <1>11, <1>12 DEF IsChain
    <3> QED
      BY <1>13, <3>1, <3>2 DEF In
  <2>2. u \in Task
    BY <2>1 DEF In
  <2> QED
    BY <1>10, <2>1, <2>2 DEF Listed
<1>14. TypeOK'
  <2>1. phase' \in [Task -> Phase]
    BY <1>1, <1>2 DEF TypeOK, Phase
  <2>2. next[t] \in Task \cup {NULL} /\ last[t] \in Task \cup {NULL}
    BY <1>1 DEF TypeOK
  <2>3. /\ pidHashmap' \in [0 .. Buckets - 1 -> Task \cup {NULL}]
        /\ next' \in [Task -> Task \cup {NULL}] /\ last' \in [Task -> Task \cup {NULL}]
    BY <1>1, <1>4, <2>2 DEF TypeOK
  <2>4. \A u \in Task \ Mapped' : next'[u] = NULL /\ last'[u] = NULL
    <3> SUFFICES ASSUME NEW u \in Task, u \notin Mapped', u # t
                 PROVE  next'[u] = NULL /\ last'[u] = NULL
      BY <1>6, <1>7
    <3>1. u \notin Mapped
      BY <1>8
    <3>2. next[u] = NULL /\ last[u] = NULL
      BY <3>1, <1>1 DEF TypeOK
    <3>3. u # next[t] /\ u # last[t]
      BY <3>1, <1>13
    <3> QED
      BY <3>2, <3>3, <1>6, <1>7
  <2> QED
    BY <1>1, <1>2, <2>1, <2>3, <2>4 DEF TypeOK
<1>15. Linked'
  <2> SUFFICES ASSUME NEW g \in 0 .. Buckets - 1
               PROVE  \E m \in Nat : \E r \in [1 .. m -> Task] : Listed(r, m, g)'
    BY DEF Linked
  <2>1. CASE g # h
    <3>1. PICK m \in Nat : \E r \in [1 .. m -> Task] : Listed(r, m, g)
      BY <1>1 DEF Linked
    <3>2. PICK r \in [1 .. m -> Task] : Listed(r, m, g)
      BY <3>1
    <3>3. pidHashmap'[g] = pidHashmap[g]
      BY <1>1, <1>4, <2>1 DEF TypeOK
    <3>4. ASSUME NEW u \in Task, u \in Mapped, _hash_pid(pid[u]) = g
          PROVE  next'[u] = next[u] /\ last'[u] = last[u]
      <4>1. u # t /\ u # next[t] /\ u # last[t]
        BY <3>4, <2>1, <1>3, <1>13
      <4> QED
        BY <4>1, <1>6, <1>7
    <3>5. \A u \in Task : u \in Mapped' /\ _hash_pid(pid'[u]) = g
                            <=> u \in Mapped /\ _hash_pid(pid[u]) = g
      BY <1>2, <1>3, <1>8, <2>1
    <3>6. Listed(r, m, g)'
      BY <3>2, <3>3, <3>4, <3>5, KeepListed
    <3> QED
      BY <3>6
  <2>2. CASE g = h
    <3>1. pidHashmap'[h] = IF last[t] = NULL THEN next[t] ELSE pidHashmap[h]
      BY <1>1, <1>4 DEF TypeOK
    <3>2. IsChain(Cut(s, k, j), k - 1, pidHashmap'[h], next', last')
      BY <3>1, <1>6, <1>7, <1>11, <1>12, CutChain
    <3>3. ASSUME NEW u \in Task
          PROVE  u \in Mapped' /\ _hash_pid(pid'[u]) = h <=> In(u, Cut(s, k, j), k - 1)
      <4>1. u \in Mapped /\ _hash_pid(pid[u]) = h <=> In(u, s, k)
        BY <1>10 DEF Listed
      <4>2. In(u, Cut(s, k, j), k - 1) <=> u # s[j] /\ In(u, s, k)
        BY <1>11, CutEntries
      <4> QED
        BY <4>1, <4>2, <1>2, <1>8, <1>12
    <3>4. Listed(Cut(s, k, j), k - 1, h)'
      BY <3>2, <3>3 DEF Listed
    <3>5. k - 1 \in Nat /\ Cut(s, k, j) \in [1 .. k - 1 -> Task]
      BY <3>2 DEF IsChain
    <3> QED
      BY <2>2, <3>4, <3>5
  <2> QED
    BY <2>1, <2>2
<1>16. Owned'
  BY <1>1, <1>2, <1>5 DEF Owned
<1> QED
  BY <1>14, <1>15, <1>16 DEF IInv

\* Its end gives the PID back, or loses it, once no bucket has the task.
LEMMA FreeTaskPidStep ==
  ASSUME IInv, NEW t \in Task, FreeTaskPid(t)
  PROVE  IInv'
<1>1. TypeOK /\ Linked /\ Owned
  BY DEF IInv
<1>2. /\ phase[t] = "unset" /\ phase' = [phase EXCEPT ![t] = "free"]
      /\ UNCHANGED <<pid, refCount, isKilled>> /\ UNCHANGED <<pidHashmap, next, last>>
  BY DEF FreeTaskPid, mapVars
<1>3. users' = [users EXCEPT ![pid[t]] = 0] \/ users' = users
  BY DEF FreeTaskPid, PidmapFreePid, Pool!Put
<1>4. \A u \in Task : phase'[u] = IF u = t THEN "free" ELSE phase[u]
  BY <1>1, <1>2 DEF TypeOK
<1>5. Mapped' = Mapped
  BY <1>2, <1>4 DEF Mapped
<1>6. TypeOK'
  <2>1. phase' \in [Task -> Phase]
    BY <1>1, <1>2 DEF TypeOK, Phase
  <2>2. users' \in [Pid -> 0 .. 1]
    BY <1>1, <1>3 DEF TypeOK
  <2> QED
    BY <1>1, <1>2, <1>5, <2>1, <2>2 DEF TypeOK
<1>7. Linked'
  BY <1>1, <1>2, <1>5, KeepLinked
<1>8. Owned'
  <2> SUFFICES ASSUME NEW v \in Task, phase'[v] # "free"
               PROVE  /\ users'[pid[v]] = 1
                      /\ \A u \in Task : phase'[u] # "free" /\ pid[u] = pid[v] => u = v
    BY <1>2 DEF Owned
  <2>1. v # t /\ phase[v] # "free" /\ phase[t] # "free"
    BY <1>2, <1>4
  <2>2. users[pid[v]] = 1 /\ pid[v] # pid[t]
    BY <1>1, <2>1 DEF Owned
  <2>3. users'[pid[v]] = 1
    BY <1>1, <1>3, <2>2 DEF TypeOK
  <2> QED
    BY <1>1, <1>4, <2>1, <2>3 DEF Owned
<1> QED
  BY <1>6, <1>7, <1>8 DEF IInv

\* Kills, references and dereferences do not touch the map.
LEMMA CountStep ==
  ASSUME IInv,
         \/ \E t \in Task : Kill(t) \/ Dereference(t)
         \/ \E p \in Pid : ForPid(p)
  PROVE  IInv'
<1>1. TypeOK /\ Linked /\ Owned
  BY DEF IInv
<1>2. UNCHANGED <<pid, pidHashmap, next, last, users>>
  BY DEF Kill, Dereference, ForPid, mapVars
<1>3. PICK t : \/ phase' = phase
               \/ t \in Task /\ phase[t] = "launched" /\ phase' = [phase EXCEPT ![t] = "dying"]
  BY DEF Kill, Dereference, ForPid
<1>4. /\ phase' \in [Task -> Phase] /\ Mapped' = Mapped
      /\ \A u \in Task : phase'[u] = "free" <=> phase[u] = "free"
  <2>1. CASE phase' = phase
    BY <2>1, <1>1 DEF TypeOK, Mapped
  <2>2. CASE t \in Task /\ phase[t] = "launched" /\ phase' = [phase EXCEPT ![t] = "dying"]
    <3>1. \A u \in Task : phase'[u] = IF u = t THEN "dying" ELSE phase[u]
      BY <2>2, <1>1 DEF TypeOK
    <3> QED
      BY <2>2, <3>1, <1>1 DEF TypeOK, Mapped, Phase
  <2> QED
    BY <1>3, <2>1, <2>2
<1>5. isKilled' \in [Task -> BOOLEAN]
  BY <1>1 DEF TypeOK, Kill, Dereference, ForPid
<1>6. refCount' \in [Task -> 0 .. MaxRefs]
  <2>1. MaxRefs \in Nat
    BY PidMapAssumption DEF PidMapAssumption
  <2>2. ASSUME NEW u \in Task, Dereference(u)
        PROVE  refCount' \in [Task -> 0 .. MaxRefs]
    BY <2>1, <2>2, <1>1 DEF TypeOK, Dereference
  <2>3. ASSUME NEW u \in Task, Kill(u)
        PROVE  refCount' \in [Task -> 0 .. MaxRefs]
    BY <2>3, <1>1 DEF TypeOK, Kill
  <2>4. ASSUME NEW p \in Pid, ForPid(p)
        PROVE  refCount' \in [Task -> 0 .. MaxRefs]
    <3>1. PICK u : refCount[u] < MaxRefs /\ refCount' = [refCount EXCEPT ![u] = @ + 1]
      BY <2>4 DEF ForPid
    <3>2. refCount \in [Task -> 0 .. MaxRefs]
      BY <1>1 DEF TypeOK
    <3>3. CASE u \in Task
      BY <2>1, <3>1, <3>2, <3>3
    <3>4. CASE u \notin Task
      BY <3>1, <3>2, <3>4
    <3> QED
      BY <3>3, <3>4
  <2> QED
    BY <2>2, <2>3, <2>4
<1>7. TypeOK'
  BY <1>1, <1>2, <1>4, <1>5, <1>6 DEF TypeOK
<1>8. Linked'
  BY <1>1, <1>2, <1>4, KeepLinked
<1>9. Owned'
  BY <1>1, <1>2, <1>4 DEF Owned
<1> QED
  BY <1>7, <1>8, <1>9 DEF IInv

\* The invariant holds in every state.
THEOREM Invariance == Spec => []IInv
<1>1. Init => IInv
  BY InitIInv
<1>2. IInv /\ [Next]_vars => IInv'
  <2> SUFFICES ASSUME IInv, [Next]_vars PROVE IInv'
    OBVIOUS
  <2>1. CASE UNCHANGED vars
    <3>1. UNCHANGED <<phase, pid, refCount, isKilled, pidHashmap, next, last, users>>
      BY <2>1 DEF vars, taskVars, mapVars
    <3>2. Mapped' = Mapped
      BY <3>1 DEF Mapped
    <3>3. TypeOK' /\ Owned'
      BY <3>1, <3>2 DEF IInv, TypeOK, Owned
    <3>4. Linked'
      BY <3>1, <3>2, KeepLinked DEF IInv
    <3> QED
      BY <3>3, <3>4 DEF IInv
  <2>2. CASE Next
    BY <2>2, CreateStep, LaunchStep, FreeTaskUnsetStep, FreeTaskPidStep, CountStep DEF Next
  <2> QED
    BY <2>1, <2>2
<1> QED
  BY <1>1, <1>2, PTL DEF Spec

-----------------------------------------------------------------------------
(* What follows.                                                           *)

\* Every bucket has its list, and the walk visits exactly this list.
LEMMA BucketVisited ==
  ASSUME IInv, NEW h \in 0 .. Buckets - 1
  PROVE  \E k \in Nat : \E s \in [1 .. k -> Task] :
           /\ Listed(s, k, h) /\ k <= Cardinality(Task) /\ Cardinality(Task) \in Nat
           /\ DOMAIN Visited(h) = 0 .. Cardinality(Task)
           /\ \A m \in 0 .. Cardinality(Task) : Visited(h)[m] = IF m < k THEN s[m + 1] ELSE NULL
<1>1. PICK k \in Nat : \E s \in [1 .. k -> Task] : Listed(s, k, h)
  BY DEF IInv, Linked
<1>2. PICK s \in [1 .. k -> Task] : Listed(s, k, h)
  BY <1>1
<1>3. IsChain(s, k, pidHashmap[h], next, last)
  BY <1>2 DEF Listed
<1>4. k <= Cardinality(Task) /\ Cardinality(Task) \in Nat
  BY <1>3, ChainBound
<1>5. Visited(h) = Walk(pidHashmap[h], next, Cardinality(Task))
  BY DEF Visited, Walk
<1>6. /\ DOMAIN Visited(h) = 0 .. Cardinality(Task)
      /\ \A m \in 0 .. Cardinality(Task) : Visited(h)[m] = IF m < k THEN s[m + 1] ELSE NULL
  BY <1>3, <1>4, <1>5, WalkChain
<1> QED
  BY <1>2, <1>4, <1>6

\* Every bucket is a doubly linked list (anscheduler_pidmap_set and
\* anscheduler_pidmap_unset).
THEOREM BucketsAreLists == Spec => []WellFormed
<1>1. IInv => WellFormed
  <2> SUFFICES ASSUME IInv PROVE WellFormed
    OBVIOUS
  <2> USE PidMapAssumption DEF PidMapAssumption
  <2>1. TypeOK
    BY DEF IInv
  <2>2. ASSUME NEW h \in DOMAIN pidHashmap
        PROVE  /\ pidHashmap[h] # NULL => last[pidHashmap[h]] = NULL
               /\ Visited(h)[Cardinality(Task)] = NULL
    <3>1. h \in 0 .. Buckets - 1
      BY <2>1 DEF TypeOK
    <3>2. PICK k \in Nat : \E s \in [1 .. k -> Task] :
            /\ Listed(s, k, h) /\ k <= Cardinality(Task) /\ Cardinality(Task) \in Nat
            /\ \A m \in 0 .. Cardinality(Task) : Visited(h)[m] = IF m < k THEN s[m + 1] ELSE NULL
      BY <3>1, BucketVisited
    <3>3. PICK s \in [1 .. k -> Task] :
            /\ Listed(s, k, h) /\ k <= Cardinality(Task) /\ Cardinality(Task) \in Nat
            /\ \A m \in 0 .. Cardinality(Task) : Visited(h)[m] = IF m < k THEN s[m + 1] ELSE NULL
      BY <3>2
    <3>4. Visited(h)[Cardinality(Task)] = NULL
      BY <3>3
    <3>5. pidHashmap[h] # NULL => last[pidHashmap[h]] = NULL
      BY <3>3 DEF Listed, IsChain
    <3> QED
      BY <3>4, <3>5
  <2>3. ASSUME NEW t \in Task, NEW u \in Task
        PROVE  next[t] = u <=> last[u] = t
    <3>1. ASSUME NEW v \in Mapped
          PROVE  \E k \in Nat : \E s \in [1 .. k -> Task] : \E i \in 1 .. k :
                   IsChain(s, k, pidHashmap[_hash_pid(pid[v])], next, last) /\ s[i] = v
      <4>1. v \in Task /\ _hash_pid(pid[v]) \in 0 .. Buckets - 1
        BY <2>1, HashRange DEF TypeOK, Mapped
      <4>2. PICK k \in Nat : \E s \in [1 .. k -> Task] : Listed(s, k, _hash_pid(pid[v]))
        BY <4>1 DEF IInv, Linked
      <4>3. PICK s \in [1 .. k -> Task] : Listed(s, k, _hash_pid(pid[v]))
        BY <4>2
      <4>4. PICK i \in 1 .. k : s[i] = v
        BY <4>1, <4>3 DEF Listed, In
      <4>5. IsChain(s, k, pidHashmap[_hash_pid(pid[v])], next, last)
        BY <4>3 DEF Listed
      <4> QED
        BY <4>4, <4>5
    <3>2. ASSUME next[t] = u PROVE last[u] = t
      <4>1. t \in Mapped
        BY <3>2, <2>1 DEF TypeOK
      <4>2. PICK k \in Nat : \E s \in [1 .. k -> Task] : \E i \in 1 .. k :
              IsChain(s, k, pidHashmap[_hash_pid(pid[t])], next, last) /\ s[i] = t
        BY <3>1, <4>1
      <4>3. PICK s \in [1 .. k -> Task], i \in 1 .. k :
              IsChain(s, k, pidHashmap[_hash_pid(pid[t])], next, last) /\ s[i] = t
        BY <4>2
      <4>4. u = IF i = k THEN NULL ELSE s[i + 1]
        BY <3>2, <4>3 DEF IsChain
      <4>5. i # k /\ u = s[i + 1] /\ i + 1 \in 1 .. k
        BY <4>4
      <4>6. last[s[i + 1]] = IF i + 1 = 1 THEN NULL ELSE s[(i + 1) - 1]
        BY <4>3, <4>5 DEF IsChain
      <4> QED
        BY <4>3, <4>5, <4>6
    <3>3. ASSUME last[u] = t PROVE next[t] = u
      <4>1. u \in Mapped
        BY <3>3, <2>1 DEF TypeOK
      <4>2. PICK k \in Nat : \E s \in [1 .. k -> Task] : \E i \in 1 .. k :
              IsChain(s, k, pidHashmap[_hash_pid(pid[u])], next, last) /\ s[i] = u
        BY <3>1, <4>1
      <4>3. PICK s \in [1 .. k -> Task], i \in 1 .. k :
              IsChain(s, k, pidHashmap[_hash_pid(pid[u])], next, last) /\ s[i] = u
        BY <4>2
      <4>4. t = IF i = 1 THEN NULL ELSE s[i - 1]
        BY <3>3, <4>3 DEF IsChain
      <4>5. i # 1 /\ t = s[i - 1] /\ i - 1 \in 1 .. k /\ i - 1 # k
        BY <4>4
      <4>6. next[s[i - 1]] = IF i - 1 = k THEN NULL ELSE s[(i - 1) + 1]
        BY <4>3, <4>5 DEF IsChain
      <4> QED
        BY <4>3, <4>5, <4>6
    <3> QED
      BY <3>2, <3>3
  <2> QED
    BY <2>1, <2>2, <2>3 DEF WellFormed
<1> QED
  BY <1>1, Invariance, PTL

\* anscheduler_pidmap_get, and with it anscheduler_task_for_pid, finds a task
\* exactly if it is launched and not yet taken out of the map.
THEOREM LookupsExact == Spec => []LookupExact
<1>1. IInv => LookupExact
  <2> SUFFICES ASSUME IInv, NEW p \in Pid
               PROVE  {Found(p)} \ {NULL} = {t \in Mapped : pid[t] = p}
    BY DEF LookupExact
  <2> USE PidMapAssumption DEF PidMapAssumption
  <2>1. PICK h \in 0 .. Buckets - 1 : h = _hash_pid(p)
    BY HashRange
  <2>2. PICK k \in Nat : \E s \in [1 .. k -> Task] :
          /\ Listed(s, k, h) /\ k <= Cardinality(Task) /\ Cardinality(Task) \in Nat
          /\ DOMAIN Visited(h) = 0 .. Cardinality(Task)
          /\ \A m \in 0 .. Cardinality(Task) : Visited(h)[m] = IF m < k THEN s[m + 1] ELSE NULL
    BY BucketVisited
  <2>3. PICK s \in [1 .. k -> Task] :
          /\ Listed(s, k, h) /\ k <= Cardinality(Task) /\ Cardinality(Task) \in Nat
          /\ DOMAIN Visited(h) = 0 .. Cardinality(Task)
          /\ \A m \in 0 .. Cardinality(Task) : Visited(h)[m] = IF m < k THEN s[m + 1] ELSE NULL
    BY <2>2
  <2> DEFINE at == Visited(h)
             hits == {n \in DOMAIN at : at[n] # NULL /\ pid[at[n]] = p}
  <2>4. Found(p) = IF hits = {} THEN NULL ELSE at[Min(hits)]
    BY <2>1 DEF Found
  <2>5. \A n \in DOMAIN at : at[n] # NULL => at[n] \in Task /\ In(at[n], s, k)
    BY <2>3 DEF In
  <2>6. \A n \in DOMAIN at : at[n] # NULL => at[n] \in Mapped
    BY <2>3, <2>5 DEF Listed
  <2>7. \A t, u \in Mapped : pid[t] = pid[u] => t = u
    BY DEF IInv, Owned, Mapped
  <2>8. ASSUME NEW n \in hits
        PROVE  Min(hits) = n
    <3>1. \A m \in hits : m = n
      <4> SUFFICES ASSUME NEW m \in hits PROVE m = n
        OBVIOUS
      <4>1. at[m] = at[n] /\ at[n] # NULL
        BY <2>6, <2>7
      <4>2. m < k /\ n < k /\ m \in Nat /\ n \in Nat /\ s[m + 1] = s[n + 1]
        BY <2>3, <4>1
      <4>3. m + 1 = n + 1
        BY <2>3, <4>2 DEF Listed, IsChain
      <4> QED
        BY <4>2, <4>3
    <3>2. hits = {n} /\ n \in Nat
      BY <2>3, <3>1
    <3> HIDE DEF hits
    <3> QED
      BY <3>2 DEF Min
  <2>9. ASSUME NEW t \in Mapped, pid[t] = p
        PROVE  \E n \in hits : at[n] = t
    <3>1. t \in Task /\ t # NULL
      BY DEF Mapped
    <3>2. PICK i \in 1 .. k : s[i] = t
      BY <2>1, <2>3, <2>9, <3>1 DEF Listed, In
    <3>3. i - 1 \in 0 .. Cardinality(Task) /\ i - 1 < k /\ (i - 1) + 1 = i
      BY <2>3
    <3>4. at[i - 1] = t
      BY <2>3, <3>2, <3>3
    <3> QED
      BY <2>3, <2>9, <3>1, <3>3, <3>4
  <2>10. CASE hits = {}
    <3>1. Found(p) = NULL
      BY <2>4, <2>10
    <3>2. {t \in Mapped : pid[t] = p} = {}
      BY <2>9, <2>10
    <3> QED
      BY <3>1, <3>2
  <2>11. CASE hits # {}
    <3>1. PICK n \in hits : TRUE
      BY <2>11
    <3>2. Found(p) = at[n]
      BY <2>4, <2>8, <2>11, <3>1
    <3>3. at[n] \in Mapped /\ at[n] # NULL /\ pid[at[n]] = p
      BY <2>6, <3>1
    <3> HIDE DEF hits, at
    <3> QED
      BY <2>7, <3>2, <3>3
  <2> QED
    BY <2>10, <2>11
<1> QED
  BY <1>1, Invariance, PTL
=============================================================================
