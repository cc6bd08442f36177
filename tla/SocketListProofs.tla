--------------------------- MODULE SocketListProofs ---------------------------
(***************************************************************************)
(* The buckets of socketlist.c and the list of pending descriptors stay    *)
(* lists, for any number of descriptors, numbers and buckets.  As for the  *)
(* PID map, the invariants say that lists exist which the links describe,  *)
(* and lemmas say that the walks of the model visit them.  The table is    *)
(* exact whatever happens.  The pending list is exact until a descriptor   *)
(* dies that a pop has made its head, and no other step spoils it.         *)
(***************************************************************************)
EXTENDS SocketList, FiniteSetTheorems, NaturalsInduction, WellFoundedInduction, TLAPS

Node == Desc \cup {NULL}

-----------------------------------------------------------------------------
(* Lists.                                                                  *)

\* The list with x before it, and without its j-th descriptor
Pushed(s, k, x) == [i \in 1 .. k + 1 |-> IF i = 1 THEN x ELSE s[i - 1]]
Cut(s, k, j) == [i \in 1 .. k - 1 |-> IF i < j THEN s[i] ELSE s[i + 1]]

\* anscheduler_descriptor_set and anscheduler_task_pending put a descriptor
\* that is not in the list before it.
LEMMA PushChain ==
  ASSUME NEW s, NEW k, NEW f, NEW n, NEW l, IsChain(s, k, f, n, l),
         NEW x \in Desc, \A i \in 1 .. k : s[i] # x, NEW n2, NEW l2,
         \A y \in Desc : n2[y] = IF y = x THEN f ELSE n[y],
         \A y \in Desc : y # x => l2[y] = IF y = f THEN x ELSE l[y]
  PROVE  IsChain(Pushed(s, k, x), k + 1, x, n2, l2)
<1> DEFINE r == Pushed(s, k, x)
<1> USE SocketListAssumption DEF SocketListAssumption
<1>1. k \in Nat /\ s \in [1 .. k -> Desc] /\ r \in [1 .. k + 1 -> Desc]
  BY DEF IsChain, Pushed
<1>2. \A i \in 1 .. k : s[i] \in Desc /\ s[i] # x
  BY <1>1
<1>3. r[1] = x /\ \A i \in 2 .. k + 1 : i - 1 \in 1 .. k /\ r[i] = s[i - 1]
  BY <1>1 DEF Pushed
<1> HIDE DEF r
<1>4. \A i, j \in 1 .. k : s[i] = s[j] => i = j
  BY DEF IsChain
<1>5. ASSUME NEW i \in 1 .. k + 1, NEW j \in 1 .. k + 1, r[i] = r[j]
      PROVE  i = j
  <2>1. CASE i = 1 /\ j = 1
    BY <2>1
  <2>2. CASE i = 1 /\ j # 1
    BY <2>2, <1>1, <1>2, <1>3, <1>5
  <2>3. CASE i # 1 /\ j = 1
    BY <2>3, <1>1, <1>2, <1>3, <1>5
  <2>4. CASE i # 1 /\ j # 1
    <3>1. i - 1 \in 1 .. k /\ j - 1 \in 1 .. k /\ s[i - 1] = s[j - 1]
      BY <2>4, <1>1, <1>3, <1>5
    <3>2. i - 1 = j - 1
      BY <3>1, <1>4
    <3> QED
      BY <3>2
  <2> QED
    BY <2>1, <2>2, <2>3, <2>4
<1>6. f = IF k = 0 THEN NULL ELSE s[1]
  BY DEF IsChain
<1>7. n2[r[1]] = IF k = 0 THEN NULL ELSE r[2]
  <2>1. k # 0 => r[2] = s[1]
    BY <1>1, <1>3
  <2> QED
    BY <2>1, <1>3, <1>6
<1>8. ASSUME NEW i \in 2 .. k + 1
      PROVE  /\ n2[r[i]] = IF i = k + 1 THEN NULL ELSE r[i + 1]
             /\ l2[r[i]] = r[i - 1]
  <2>1. i - 1 \in 1 .. k /\ r[i] = s[i - 1]
    BY <1>1, <1>3
  <2>2. n2[r[i]] = n[s[i - 1]]
    BY <2>1, <1>2
  <2>3. n[s[i - 1]] = IF i - 1 = k THEN NULL ELSE s[(i - 1) + 1]
    BY <2>1 DEF IsChain
  <2>4. i # k + 1 => r[i + 1] = s[i]
    BY <2>1, <1>1, <1>3
  <2>5. s[i - 1] = f <=> i = 2
    BY <2>1, <1>1, <1>4, <1>6
  <2>6. i # 2 => l[s[i - 1]] = s[(i - 1) - 1]
    BY <2>1, <1>1 DEF IsChain
  <2>7. i # 2 => i - 1 \in 2 .. k + 1 /\ r[i - 1] = s[(i - 1) - 1]
    BY <2>1, <1>1, <1>3
  <2>8. l2[r[i]] = r[i - 1]
    BY <2>1, <2>5, <2>6, <2>7, <1>2, <1>3
  <2> QED
    BY <2>1, <2>2, <2>3, <2>4, <2>8, <1>1
<1>9. \A i \in 1 .. k + 1 : n2[r[i]] = IF i = k + 1 THEN NULL ELSE r[i + 1]
  BY <1>1, <1>7, <1>8
<1>10. IsChain(r, k + 1, x, n2, l2)
  BY <1>1, <1>3, <1>5, <1>8, <1>9 DEF IsChain
<1> QED
  BY <1>10 DEF r

\* anscheduler_descriptor_delete and anscheduler_task_not_pending lead the
\* links around a descriptor; if it is the first, which they see from its
\* missing link back, the list starts at its successor.
LEMMA CutChain ==
  ASSUME NEW s, NEW k, NEW f, NEW n, NEW l, IsChain(s, k, f, n, l),
         NEW j \in 1 .. k, j = 1 => l[s[1]] = NULL, NEW x, x = s[j], NEW f2, NEW n2, NEW l2,
         f2 = IF l[x] = NULL THEN n[x] ELSE f,
         \A y \in Desc : n2[y] = IF y = x THEN NULL ELSE IF y = l[x] THEN n[x] ELSE n[y],
         \A y \in Desc : l2[y] = IF y = x THEN NULL ELSE IF y = n[x] THEN l[x] ELSE l[y]
  PROVE  IsChain(Cut(s, k, j), k - 1, f2, n2, l2)
<1> DEFINE r == Cut(s, k, j)
<1> USE SocketListAssumption DEF SocketListAssumption
<1>1. k \in Nat \ {0} /\ s \in [1 .. k -> Desc] /\ r \in [1 .. k - 1 -> Desc]
  BY DEF IsChain, Cut
<1>2. \A i \in 1 .. k - 1 : r[i] = IF i < j THEN s[i] ELSE s[i + 1]
  BY <1>1 DEF Cut
<1>3. \A a, b \in 1 .. k : s[a] = s[b] => a = b
  BY DEF IsChain
<1>4. \A i \in 1 .. k - 1 : r[i] # x /\ r[i] \in Desc
  BY <1>1, <1>2, <1>3
<1>5. \A a, b \in 1 .. k - 1 : r[a] = r[b] => a = b
  BY <1>1, <1>2, <1>3
<1>6. n[x] = IF j = k THEN NULL ELSE s[j + 1]
  BY DEF IsChain
<1>7. l[x] = IF j = 1 THEN NULL ELSE s[j - 1]
  BY <1>1 DEF IsChain
<1>8. \A i \in 1 .. k : s[i] \in Desc /\ s[i] # NULL
  BY <1>1
<1> HIDE DEF r
<1>9. ASSUME NEW i \in 1 .. k - 1
      PROVE  /\ n2[r[i]] = IF i = k - 1 THEN NULL ELSE r[i + 1]
             /\ i # 1 => l2[r[i]] = r[i - 1]
  <2>1. n2[r[i]] = IF r[i] = l[x] THEN n[x] ELSE n[r[i]]
    BY <1>4
  <2>2. l2[r[i]] = IF r[i] = n[x] THEN l[x] ELSE l[r[i]]
    BY <1>4
  <2>3. r[i] = l[x] <=> i = j - 1
    BY <1>1, <1>2, <1>3, <1>7, <1>8
  <2>4. r[i] = n[x] <=> i = j
    BY <1>1, <1>2, <1>3, <1>6, <1>8
  <2>5. \A a \in 1 .. k : n[s[a]] = IF a = k THEN NULL ELSE s[a + 1]
    BY DEF IsChain
  <2>6. \A a \in 2 .. k : l[s[a]] = s[a - 1]
    BY DEF IsChain
  <2>7. CASE i < j - 1
    <3>1. r[i] = s[i] /\ r[i + 1] = s[i + 1] /\ (i # 1 => r[i - 1] = s[i - 1])
      BY <2>7, <1>1, <1>2
    <3> QED
      BY <3>1, <2>1, <2>2, <2>3, <2>4, <2>5, <2>6, <2>7, <1>1
  <2>8. CASE i = j - 1
    <3>1. r[i] = s[i] /\ (i # 1 => r[i - 1] = s[i - 1]) /\ (i # k - 1 => r[i + 1] = s[j + 1])
      BY <2>8, <1>1, <1>2
    <3> QED
      BY <3>1, <2>1, <2>2, <2>3, <2>4, <2>6, <2>8, <1>1, <1>6
  <2>9. CASE i = j
    <3>1. r[i] = s[i + 1] /\ (i # 1 => r[i - 1] = s[i - 1]) /\ (i # k - 1 => r[i + 1] = s[i + 2])
      BY <2>9, <1>1, <1>2
    <3> QED
      BY <3>1, <2>1, <2>2, <2>3, <2>4, <2>5, <2>9, <1>1, <1>7
  <2>10. CASE i > j
    <3>1. r[i] = s[i + 1] /\ r[i - 1] = s[i] /\ (i # k - 1 => r[i + 1] = s[i + 2])
      <4>1. i \in Int /\ j \in Int /\ k \in Int /\ 1 <= j /\ j < i /\ i <= k - 1
        BY <2>10, <1>1
      <4>2. ~(i < j) /\ ~(i - 1 < j) /\ i - 1 \in 1 .. k - 1 /\ (i - 1) + 1 = i
        BY <4>1
      <4>3. i # k - 1 => i + 1 \in 1 .. k - 1 /\ ~(i + 1 < j) /\ (i + 1) + 1 = i + 2
        BY <4>1
      <4> QED
        BY <4>2, <4>3, <1>2
    <3>2. i # j /\ i # j - 1 /\ i + 1 \in 2 .. k /\ (i + 1) - 1 = i /\ (i + 1) + 1 = i + 2
      BY <2>10, <1>1
    <3>3. n2[r[i]] = n[s[i + 1]] /\ l2[r[i]] = l[s[i + 1]]
      BY <3>1, <3>2, <2>1, <2>2, <2>3, <2>4
    <3>4. l[s[i + 1]] = s[i]
      BY <3>2, <2>6
    <3>5. n[s[i + 1]] = IF i + 1 = k THEN NULL ELSE s[i + 2]
      BY <3>2, <2>5
    <3> QED
      BY <3>1, <3>3, <3>4, <3>5, <1>1
  <2> QED
    BY <2>7, <2>8, <2>9, <2>10, <1>1
<1>10. f2 = IF k - 1 = 0 THEN NULL ELSE r[1]
  <2>1. f = s[1]
    BY <1>1 DEF IsChain
  <2>2. l[x] = NULL <=> j = 1
    BY <1>1, <1>7, <1>8
  <2>3. k # 1 => r[1] = IF j = 1 THEN s[2] ELSE s[1]
    BY <1>1, <1>2
  <2> QED
    BY <2>1, <2>2, <2>3, <1>1, <1>6
<1>11. k - 1 \in Nat
  BY <1>1
<1>12. IsChain(r, k - 1, f2, n2, l2)
  BY <1>1, <1>5, <1>9, <1>10, <1>11 DEF IsChain
<1> QED
  BY <1>12 DEF r

\* If the first of the list leads nowhere back, this is still so.
LEMMA CutFirst ==
  ASSUME NEW s, NEW k, NEW f, NEW n, NEW l, IsChain(s, k, f, n, l),
         NEW j \in 1 .. k, l[s[1]] = NULL, NEW x, x = s[j], NEW l2,
         \A y \in Desc : l2[y] = IF y = x THEN NULL ELSE IF y = n[x] THEN l[x] ELSE l[y],
         k - 1 # 0
  PROVE  l2[Cut(s, k, j)[1]] = NULL
<1>1. k \in Nat /\ k > 1 /\ s \in [1 .. k -> Desc] /\ \A a, b \in 1 .. k : s[a] = s[b] => a = b
  BY DEF IsChain
<1>2. Cut(s, k, j)[1] = IF 1 < j THEN s[1] ELSE s[2]
  BY <1>1 DEF Cut
<1>3. CASE j = 1
  <2>1. n[x] = s[2] /\ s[2] \in Desc
    BY <1>1, <1>3 DEF IsChain
  <2> QED
    BY <2>1, <1>1, <1>2, <1>3
<1>4. CASE j # 1
  <2>1. n[x] = IF j = k THEN NULL ELSE s[j + 1]
    BY <1>1 DEF IsChain
  <2>2. s[1] # n[x] /\ s[1] # x /\ s[1] \in Desc
    BY <2>1, <1>1, <1>4, SocketListAssumption DEF SocketListAssumption
  <2> QED
    BY <2>2, <1>2, <1>4
<1> QED
  BY <1>3, <1>4

\* A pop takes the first out, and leaves the link back of the next alone.
LEMMA ShiftChain ==
  ASSUME NEW s, NEW k, NEW f, NEW n, NEW l, IsChain(s, k, f, n, l), k # 0, NEW n2, NEW l2,
         \A y \in Desc : y # f => n2[y] = n[y] /\ l2[y] = l[y]
  PROVE  IsChain(Cut(s, k, 1), k - 1, n[f], n2, l2)
<1> DEFINE r == Cut(s, k, 1)
<1>1. k \in Nat \ {0} /\ s \in [1 .. k -> Desc] /\ r \in [1 .. k - 1 -> Desc] /\ k - 1 \in Nat
  BY DEF IsChain, Cut
<1>2. \A i \in 1 .. k - 1 : i + 1 \in 1 .. k /\ r[i] = s[i + 1]
  BY <1>1 DEF Cut
<1> HIDE DEF r
<1>3. f = s[1] /\ \A i, j \in 1 .. k : s[i] = s[j] => i = j
  BY <1>1 DEF IsChain
<1>4. \A i, j \in 1 .. k - 1 : r[i] = r[j] => i = j
  BY <1>1, <1>2, <1>3
<1>5. n[f] = IF k - 1 = 0 THEN NULL ELSE r[1]
  BY <1>1, <1>2, <1>3 DEF IsChain
<1>6. \A i \in 1 .. k - 1 : r[i] # f /\ r[i] \in Desc
  BY <1>1, <1>2, <1>3
<1>7. \A i \in 1 .. k - 1 : n2[r[i]] = IF i = k - 1 THEN NULL ELSE r[i + 1]
  <2>1. \A i \in 1 .. k : n[s[i]] = IF i = k THEN NULL ELSE s[i + 1]
    BY DEF IsChain
  <2> QED
    BY <2>1, <1>1, <1>2, <1>6
<1>8. \A i \in 2 .. k - 1 : l2[r[i]] = r[i - 1]
  <2> SUFFICES ASSUME NEW i \in 2 .. k - 1
               PROVE  l2[r[i]] = r[i - 1]
    OBVIOUS
  <2>1. i + 1 \in 2 .. k /\ i \in 1 .. k - 1 /\ i - 1 \in 1 .. k - 1 /\ (i - 1) + 1 = i /\ (i + 1) - 1 = i
    BY <1>1
  <2>2. l[s[i + 1]] = s[(i + 1) - 1]
    BY <2>1 DEF IsChain
  <2>3. r[i] = s[i + 1] /\ r[i - 1] = s[i] /\ l2[r[i]] = l[r[i]]
    BY <2>1, <1>2, <1>6
  <2> QED
    BY <2>1, <2>2, <2>3
<1>9. IsChain(r, k - 1, n[f], n2, l2)
  BY <1>1, <1>4, <1>5, <1>7, <1>8 DEF IsChain
<1> QED
  BY <1>9 DEF r

\* Links of descriptors outside the list do not matter.
LEMMA SameChain ==
  ASSUME NEW s, NEW k, NEW f, NEW n, NEW l, IsChain(s, k, f, n, l),
         NEW n2, NEW l2, \A i \in 1 .. k : n2[s[i]] = n[s[i]] /\ l2[s[i]] = l[s[i]]
  PROVE  IsChain(s, k, f, n2, l2)
  BY DEF IsChain

\* Which descriptors are in the list with x before it, and without x
LEMMA PushedEntries ==
  ASSUME NEW k \in Nat, NEW s \in [1 .. k -> Desc], NEW x \in Desc, NEW d
  PROVE  In(d, Pushed(s, k, x), k + 1) <=> d = x \/ In(d, s, k)
<1>1. Pushed(s, k, x)[1] = x /\ 1 \in 1 .. k + 1
  BY DEF Pushed
<1>2. \A i \in 1 .. k : i + 1 \in 1 .. k + 1 /\ Pushed(s, k, x)[i + 1] = s[i]
  BY DEF Pushed
<1>3. \A i \in 1 .. k + 1 : i # 1 => i - 1 \in 1 .. k /\ Pushed(s, k, x)[i] = s[i - 1]
  BY DEF Pushed
<1> QED
  BY <1>1, <1>2, <1>3 DEF In

LEMMA CutEntries ==
  ASSUME NEW k \in Nat, NEW s \in [1 .. k -> Desc], NEW j \in 1 .. k, NEW d,
         \A a, b \in 1 .. k : s[a] = s[b] => a = b
  PROVE  In(d, Cut(s, k, j), k - 1) <=> d # s[j] /\ In(d, s, k)
<1>1. \A i \in 1 .. k - 1 : Cut(s, k, j)[i] = IF i < j THEN s[i] ELSE s[i + 1]
  BY DEF Cut
<1>2. ASSUME NEW i \in 1 .. k - 1
      PROVE  Cut(s, k, j)[i] # s[j] /\ \E a \in 1 .. k : s[a] = Cut(s, k, j)[i]
  <2>1. CASE i < j
    BY <2>1, <1>1
  <2>2. CASE ~(i < j)
    <3>1. i + 1 \in 1 .. k /\ i + 1 # j /\ Cut(s, k, j)[i] = s[i + 1]
      BY <2>2, <1>1
    <3> QED
      BY <3>1
  <2> QED
    BY <2>1, <2>2
<1>3. ASSUME NEW i \in 1 .. k, i # j
      PROVE  \E a \in 1 .. k - 1 : Cut(s, k, j)[a] = s[i]
  <2>1. CASE i < j
    <3>1. i \in 1 .. k - 1
      BY <2>1
    <3> QED
      BY <2>1, <3>1, <1>1
  <2>2. CASE ~(i < j)
    <3>1. i - 1 \in 1 .. k - 1 /\ ~(i - 1 < j) /\ (i - 1) + 1 = i
      BY <2>2, <1>3
    <3>2. Cut(s, k, j)[i - 1] = s[i]
      BY <3>1, <1>1
    <3> QED
      BY <3>1, <3>2
  <2> QED
    BY <2>1, <2>2
<1> QED
  BY <1>2, <1>3 DEF In

-----------------------------------------------------------------------------
(* The walk through a list.                                                *)

\* The least-number principle
LEMMA NatMin ==
  ASSUME NEW T \in SUBSET Nat, T # {}
  PROVE  \E m \in T : \A i \in T : m <= i
<1>1. PICK m \in T : \A i \in T : ~(<<i, m>> \in OpToRel(<, Nat))
  BY NatLessThanWellFounded, WFMin, Zenon
<1>2. \A i \in T : ~(i < m)
  BY <1>1 DEF OpToRel
<1> QED
  BY <1>2

\* Bucket, with the first of the list and the links as arguments
Walk(f, n, c) ==
  LET at[m \in 0 .. c] ==
        IF m = 0 THEN f ELSE IF at[m - 1] = NULL THEN NULL ELSE n[at[m - 1]]
  IN at

\* The walk visits the list in its order and then stays at its end.
LEMMA WalkChain ==
  ASSUME NEW s, NEW k, NEW f, NEW n, NEW l, IsChain(s, k, f, n, l), NEW c \in Nat
  PROVE  /\ DOMAIN Walk(f, n, c) = 0 .. c
         /\ \A m \in 0 .. c : Walk(f, n, c)[m] = IF m < k THEN s[m + 1] ELSE NULL
<1> DEFINE G(g) == [m \in 0 .. c |-> IF m = 0 THEN f
                                     ELSE IF g[m - 1] = NULL THEN NULL ELSE n[g[m - 1]]]
           w == CHOOSE g : g = G(g)
           v == [m \in 0 .. c |-> IF m < k THEN s[m + 1] ELSE NULL]
<1>1. k \in Nat /\ s \in [1 .. k -> Desc] /\ f = IF k = 0 THEN NULL ELSE s[1]
  BY DEF IsChain
<1>2. \A i \in 1 .. k : s[i] # NULL /\ n[s[i]] = IF i = k THEN NULL ELSE s[i + 1]
  BY <1>1, SocketListAssumption DEF IsChain, SocketListAssumption
<1>3. \A m \in 0 .. c : v[m] = IF m < k THEN s[m + 1] ELSE NULL
  OBVIOUS
<1>4. v[0] = f
  BY <1>1, <1>3
<1>5. ASSUME NEW m \in 0 .. c, m # 0
      PROVE  v[m] = IF v[m - 1] = NULL THEN NULL ELSE n[v[m - 1]]
  <2>1. m - 1 \in 0 .. c /\ v[m - 1] = IF m - 1 < k THEN s[(m - 1) + 1] ELSE NULL
    BY <1>3, <1>5
  <2>2. (m - 1) + 1 = m
    BY <1>5
  <2>3. CASE m < k
    <3>1. m \in 1 .. k /\ m # k /\ m - 1 < k
      BY <2>3, <1>1, <1>5
    <3> QED
      BY <2>1, <2>2, <2>3, <3>1, <1>2, <1>3
  <2>4. CASE m = k
    <3>1. m \in 1 .. k /\ m - 1 < k
      BY <2>4, <1>1, <1>5
    <3> QED
      BY <2>1, <2>2, <2>4, <3>1, <1>1, <1>2, <1>3
  <2>5. CASE m > k
    BY <2>1, <2>5, <1>1, <1>3
  <2> QED
    BY <2>3, <2>4, <2>5, <1>1
<1>6. v = [m \in 0 .. c |-> v[m]]
  OBVIOUS
<1> HIDE DEF v
<1>7. v = G(v)
  BY <1>4, <1>5, <1>6
<1>8. w = G(w)
  BY <1>7
<1> HIDE DEF w
<1>9. \A m \in 0 .. c : w[m] = v[m]
  <2> DEFINE T == {m \in 0 .. c : w[m] # v[m]}
  <2> SUFFICES ASSUME T # {} PROVE FALSE
    OBVIOUS
  <2>1. PICK m \in T : \A i \in T : m <= i
    <3>1. T \in SUBSET Nat
      OBVIOUS
    <3> HIDE DEF T
    <3> QED
      BY <3>1, NatMin
  <2>2. m # 0
    BY <1>4, <1>8
  <2>3. m - 1 \in 0 .. c /\ w[m - 1] = v[m - 1]
    BY <2>1, <2>2
  <2>4. w[m] = IF w[m - 1] = NULL THEN NULL ELSE n[w[m - 1]]
    BY <1>8, <2>2
  <2> QED
    BY <1>5, <2>2, <2>3, <2>4
<1>10. Walk(f, n, c) = w
  BY DEF Walk, w
<1>11. DOMAIN w = 0 .. c
  BY <1>8
<1> QED
  BY <1>3, <1>9, <1>10, <1>11

\* A list has no more entries than there are descriptors.
LEMMA ChainBound ==
  ASSUME NEW s, NEW k, NEW f, NEW n, NEW l, IsChain(s, k, f, n, l)
  PROVE  Cardinality(Desc) \in Nat /\ k <= Cardinality(Desc)
<1> DEFINE S == {s[i] : i \in 1 .. k}
<1>1. k \in Nat /\ s \in [1 .. k -> Desc]
  BY DEF IsChain
<1>2. s \in Bijection(1 .. k, S)
  BY <1>1 DEF IsChain, Bijection, Injection, Surjection, IsInjective
<1>3. Cardinality(S) = k
  BY <1>1, <1>2, FS_CountingElements DEF ExistsBijection
<1>4. S \subseteq Desc /\ IsFiniteSet(Desc)
  BY <1>1, SocketListAssumption DEF SocketListAssumption
<1> QED
  BY <1>3, <1>4, FS_Subset, FS_CardinalityType

-----------------------------------------------------------------------------
(* The invariants.                                                         *)

\* TypeOK, but for the links of descriptors that are not listed
Types ==
  /\ phase \in [Desc -> Phase]
  /\ descriptor \in [Desc -> Index]
  /\ refCount \in [Desc -> 0 .. MaxRefs + 1]
  /\ isClosed \in [Desc -> BOOLEAN]
  /\ sockets \in [0 .. Buckets - 1 -> Node]
  /\ next \in [Desc -> Node] /\ last \in [Desc -> Node]
  /\ users \in [Index -> 0 .. 1]
  /\ search = NoSearch \/ search \in [on : {TRUE}, want : Index, obj : Node]
  /\ firstPending \in Node
  /\ pendingNext \in [Desc -> Node] /\ pendingLast \in [Desc -> Node]
  /\ waiting \subseteq Desc /\ popping \in BOOLEAN

\* The bucket h has a list of exactly the descriptors that should be in it.
Bucketed(s, k, h) ==
  /\ IsChain(s, k, sockets[h], next, last) /\ (k # 0 => last[s[1]] = NULL)
  /\ \A d \in Desc : d \in Listed /\ _descriptor_hash(descriptor[d]) = h <=> In(d, s, k)

Linked == \A h \in 0 .. Buckets - 1 : \E k \in Nat : \E s \in [1 .. k -> Desc] : Bucketed(s, k, h)

Unlisted == \A d \in Desc \ Listed : next[d] = NULL /\ last[d] = NULL

\* A number belongs to one descriptor, and is not in the pool.
Numbered == {d \in Desc : phase[d] \in {"made", "open", "dying", "unpended"}}
Owned ==
  \A d \in Numbered :
    /\ users[descriptor[d]] = 1
    /\ \A e \in Numbered : descriptor[e] = descriptor[d] => e = d

\* A search looks at a descriptor of the table, to which it can add a
\* reference if it is the wanted one.
Searching ==
  search.on /\ search.obj # NULL =>
    /\ search.obj \in Listed
    /\ descriptor[search.obj] = search.want => refCount[search.obj] <= MaxRefs

TableInv == Types /\ Linked /\ Unlisted /\ Owned /\ Searching

\* The conjuncts of PendingExact, the length of the list not bounded
PendingLinked ==
  \E k \in Nat : \E s \in [1 .. k -> Desc] :
    /\ IsChain(s, k, firstPending, pendingNext, pendingLast)
    /\ \A d \in Desc : d \in waiting <=> In(d, s, k)

Unwaiting == \A d \in Desc \ waiting : pendingNext[d] = NULL /\ pendingLast[d] = NULL

Alive == waiting \subseteq {d \in Desc : phase[d] \in {"made", "open", "dying"}}

PendingInv == PendingLinked /\ Unwaiting /\ Alive

\* Hashes are indices of task->sockets.
LEMMA HashRange ==
  ASSUME NEW n \in Index
  PROVE  _descriptor_hash(n) \in 0 .. Buckets - 1
  BY SocketListAssumption DEF _descriptor_hash, Index, SocketListAssumption

\* The list of a bucket is still there if neither its head nor the links of
\* its descriptors change, and the same descriptors belong into it.
LEMMA KeepBucketed ==
  ASSUME NEW h \in 0 .. Buckets - 1, NEW k, NEW s, Bucketed(s, k, h),
         sockets'[h] = sockets[h],
         \A d \in Desc : d \in Listed /\ _descriptor_hash(descriptor[d]) = h =>
            next'[d] = next[d] /\ last'[d] = last[d],
         \A d \in Desc : d \in Listed' /\ _descriptor_hash(descriptor'[d]) = h
                           <=> d \in Listed /\ _descriptor_hash(descriptor[d]) = h
  PROVE  Bucketed(s, k, h)'
<1>1. IsChain(s, k, sockets[h], next, last) /\ (k # 0 => last[s[1]] = NULL)
  BY DEF Bucketed
<1>2. k \in Nat /\ s \in [1 .. k -> Desc]
  BY <1>1 DEF IsChain
<1>3. \A i \in 1 .. k : next'[s[i]] = next[s[i]] /\ last'[s[i]] = last[s[i]]
  <2> SUFFICES ASSUME NEW i \in 1 .. k
               PROVE  next'[s[i]] = next[s[i]] /\ last'[s[i]] = last[s[i]]
    OBVIOUS
  <2>1. s[i] \in Desc
    BY <1>2
  <2>2. s[i] \in Listed /\ _descriptor_hash(descriptor[s[i]]) = h
    BY <2>1 DEF Bucketed, In
  <2> QED
    BY <2>1, <2>2
<1>4. IsChain(s, k, sockets[h], next', last')
  BY <1>1, <1>3, SameChain
<1>5. IsChain(s, k, sockets'[h], next', last')
  BY <1>4
<1>6. k # 0 => last'[s[1]] = NULL
  BY <1>1, <1>2, <1>3
<1> QED
  BY <1>5, <1>6 DEF Bucketed

\* The table is still linked after a step that changes no link of a listed
\* descriptor and leaves the same descriptors listed.
LEMMA KeepLinked ==
  ASSUME Linked, sockets' = sockets,
         \A d \in Listed : next'[d] = next[d] /\ last'[d] = last[d] /\ descriptor'[d] = descriptor[d],
         Listed' = Listed
  PROVE  Linked'
<1> SUFFICES ASSUME NEW h \in 0 .. Buckets - 1
             PROVE  \E k \in Nat : \E s \in [1 .. k -> Desc] : Bucketed(s, k, h)'
  BY DEF Linked
<1>1. PICK k \in Nat : \E s \in [1 .. k -> Desc] : Bucketed(s, k, h)
  BY DEF Linked
<1>2. PICK s \in [1 .. k -> Desc] : Bucketed(s, k, h)
  BY <1>1
<1>3. Bucketed(s, k, h)'
  BY <1>2, KeepBucketed
<1> QED
  BY <1>3

-----------------------------------------------------------------------------
(* The table.                                                              *)

\* Empty buckets at the start
LEMMA InitTable == Init => TableInv
<1> SUFFICES ASSUME Init PROVE TableInv
  OBVIOUS
<1> USE SocketListAssumption DEF SocketListAssumption
<1>1. Types
  <2>1. /\ phase \in [Desc -> Phase] /\ isClosed \in [Desc -> BOOLEAN]
        /\ search = NoSearch /\ waiting \subseteq Desc /\ popping \in BOOLEAN
    BY DEF Init, Phase
  <2>2. 0 \in Index /\ 0 \in 0 .. MaxRefs + 1 /\ 0 \in 0 .. 1
    BY DEF Index
  <2>3. /\ descriptor \in [Desc -> Index] /\ refCount \in [Desc -> 0 .. MaxRefs + 1]
        /\ users \in [Index -> 0 .. 1]
    BY <2>2 DEF Init
  <2>4. /\ sockets \in [0 .. Buckets - 1 -> Node]
        /\ next \in [Desc -> Node] /\ last \in [Desc -> Node]
    BY DEF Init, Node
  <2>5. firstPending \in Node /\ pendingNext \in [Desc -> Node] /\ pendingLast \in [Desc -> Node]
    BY DEF Init, Node
  <2> QED
    BY <2>1, <2>3, <2>4, <2>5 DEF Types
<1>2. Linked
  <2> SUFFICES ASSUME NEW h \in 0 .. Buckets - 1
               PROVE  \E k \in Nat : \E s \in [1 .. k -> Desc] : Bucketed(s, k, h)
    BY DEF Linked
  <2> DEFINE s == [i \in 1 .. 0 |-> NULL]
  <2>1. s \in [1 .. 0 -> Desc] /\ IsChain(s, 0, sockets[h], next, last)
    BY DEF Init, IsChain
  <2>2. Bucketed(s, 0, h)
    BY <2>1 DEF Bucketed, Init, Listed, In
  <2> QED
    BY <2>1, <2>2
<1>3. Unlisted /\ Owned
  BY DEF Unlisted, Owned, Numbered, Init
<1>4. Searching
  BY DEF Searching, Init, NoSearch
<1> QED
  BY <1>1, <1>2, <1>3, <1>4 DEF TableInv

\* _create_descriptor: the descriptor gets a number nobody has.
LEMMA CreateDescriptorStep ==
  ASSUME TableInv, NEW d \in Desc, CreateDescriptor(d)
  PROVE  TableInv'
<1> USE SocketListAssumption DEF SocketListAssumption
<1>1. Types /\ Linked /\ Unlisted /\ Owned /\ Searching
  BY DEF TableInv
<1>2. /\ phase[d] = "free" /\ phase' = [phase EXCEPT ![d] = "made"]
      /\ refCount' = [refCount EXCEPT ![d] = 1] /\ isClosed' = [isClosed EXCEPT ![d] = FALSE]
      /\ next' = [next EXCEPT ![d] = NULL] /\ last' = [last EXCEPT ![d] = NULL]
      /\ pendingNext' = [pendingNext EXCEPT ![d] = NULL]
      /\ pendingLast' = [pendingLast EXCEPT ![d] = NULL]
      /\ UNCHANGED <<sockets, search, firstPending, waiting, popping>>
  BY DEF CreateDescriptor, SetPhase
<1>3. PICK n \in Index : Pool!Get(n) /\ descriptor' = [descriptor EXCEPT ![d] = n]
  BY DEF CreateDescriptor
<1>4. users[n] = 0 /\ users' = [users EXCEPT ![n] = 1]
  BY <1>3 DEF Pool!Get
<1>5. \A e \in Desc : /\ phase'[e] = IF e = d THEN "made" ELSE phase[e]
                      /\ descriptor'[e] = IF e = d THEN n ELSE descriptor[e]
                      /\ refCount'[e] = IF e = d THEN 1 ELSE refCount[e]
                      /\ next'[e] = IF e = d THEN NULL ELSE next[e]
                      /\ last'[e] = IF e = d THEN NULL ELSE last[e]
  BY <1>1, <1>2, <1>3 DEF Types
<1>6. d \notin Listed /\ Listed' = Listed
  BY <1>2, <1>5 DEF Listed
<1>7. Types'
  <2>1. phase' \in [Desc -> Phase] /\ isClosed' \in [Desc -> BOOLEAN]
    BY <1>1, <1>2 DEF Types, Phase
  <2>2. refCount' \in [Desc -> 0 .. MaxRefs + 1]
    BY <1>1, <1>2 DEF Types
  <2>3. descriptor' \in [Desc -> Index] /\ users' \in [Index -> 0 .. 1]
    BY <1>1, <1>3, <1>4 DEF Types
  <2>4. next' \in [Desc -> Node] /\ last' \in [Desc -> Node]
    BY <1>1, <1>2 DEF Types, Node
  <2>5. pendingNext' \in [Desc -> Node] /\ pendingLast' \in [Desc -> Node]
    BY <1>1, <1>2 DEF Types, Node
  <2> QED
    BY <1>1, <1>2, <2>1, <2>2, <2>3, <2>4, <2>5 DEF Types
<1>8. \A e \in Listed : e \in Desc /\ e # d
  BY <1>6 DEF Listed
<1>9. Linked'
  <2>1. \A e \in Listed : next'[e] = next[e] /\ last'[e] = last[e] /\ descriptor'[e] = descriptor[e]
    BY <1>5, <1>8
  <2> QED
    BY <1>1, <1>2, <1>6, <2>1, KeepLinked
<1>10. Unlisted'
  BY <1>1, <1>5, <1>6 DEF Unlisted
<1>11. Owned'
  <2>1. d \notin Numbered /\ Numbered' = Numbered \cup {d}
    BY <1>2, <1>5 DEF Numbered
  <2>2. \A e \in Numbered : /\ e \in Desc /\ e # d /\ descriptor[e] \in Index
                            /\ users[descriptor[e]] = 1 /\ descriptor[e] # n
    BY <2>1, <1>1, <1>4 DEF Owned, Types, Numbered
  <2>3. \A e \in Numbered : descriptor'[e] = descriptor[e] /\ users'[descriptor[e]] = 1
    BY <2>2, <1>1, <1>4, <1>5 DEF Types
  <2>4. descriptor'[d] = n /\ users'[n] = 1
    BY <1>1, <1>4, <1>5 DEF Types
  <2> QED
    BY <2>1, <2>2, <2>3, <2>4, <1>1 DEF Owned
<1>12. Searching'
  BY <1>1, <1>2, <1>5, <1>6, <1>8 DEF Searching
<1> QED
  BY <1>7, <1>9, <1>10, <1>11, <1>12 DEF TableInv

\* anscheduler_descriptor_set puts the descriptor at the head of its bucket.
LEMMA DescriptorSetStep ==
  ASSUME TableInv, NEW d \in Desc, DescriptorSet(d)
  PROVE  TableInv'
<1> USE SocketListAssumption DEF SocketListAssumption
<1>1. Types /\ Linked /\ Unlisted /\ Owned /\ Searching
  BY DEF TableInv
<1>2. /\ phase[d] = "made" /\ phase' = [phase EXCEPT ![d] = "open"] /\ ~search.on
      /\ UNCHANGED <<descriptor, refCount, isClosed, users, search>>
      /\ UNCHANGED <<firstPending, pendingNext, pendingLast, waiting, popping>>
  BY DEF DescriptorSet, SetPhase, LockFree, countVars, pendingVars, links
<1>3. PICK h \in 0 .. Buckets - 1 : h = _descriptor_hash(descriptor[d])
  BY <1>1, HashRange DEF Types
<1>4. /\ sockets' = [sockets EXCEPT ![h] = d]
      /\ next' = [next EXCEPT ![d] = sockets[h]]
      /\ last' = [e \in Desc |-> IF e = d THEN NULL
                                 ELSE IF e = sockets[h] THEN d ELSE last[e]]
  BY <1>3 DEF DescriptorSet, Link
<1>5. \A e \in Desc : phase'[e] = IF e = d THEN "open" ELSE phase[e]
  BY <1>1, <1>2 DEF Types
<1>6. \A e \in Desc : next'[e] = IF e = d THEN sockets[h] ELSE next[e]
  BY <1>1, <1>4 DEF Types
<1>7. \A e \in Desc : last'[e] = IF e = d THEN NULL ELSE IF e = sockets[h] THEN d ELSE last[e]
  BY <1>4
<1>8. d \notin Listed /\ Listed' = Listed \cup {d} /\ Numbered' = Numbered
  BY <1>2, <1>5 DEF Listed, Numbered
<1>9. PICK k \in Nat : \E s \in [1 .. k -> Desc] : Bucketed(s, k, h)
  BY <1>1, <1>3 DEF Linked
<1>10. PICK s \in [1 .. k -> Desc] : Bucketed(s, k, h)
  BY <1>9
<1>11. sockets[h] # NULL => sockets[h] \in Listed /\ _descriptor_hash(descriptor[sockets[h]]) = h
  <2> SUFFICES ASSUME sockets[h] # NULL
               PROVE  sockets[h] \in Listed /\ _descriptor_hash(descriptor[sockets[h]]) = h
    OBVIOUS
  <2>1. In(sockets[h], s, k)
    BY <1>10 DEF Bucketed, IsChain, In
  <2>2. sockets[h] \in Desc
    BY <1>1, <1>3 DEF Types, Node
  <2> QED
    BY <1>10, <2>1, <2>2 DEF Bucketed
<1>12. Types'
  <2>1. phase' \in [Desc -> Phase]
    BY <1>1, <1>2 DEF Types, Phase
  <2>2. sockets[h] \in Node
    BY <1>1, <1>3 DEF Types
  <2>3. /\ sockets' \in [0 .. Buckets - 1 -> Node]
        /\ next' \in [Desc -> Node] /\ last' \in [Desc -> Node]
    BY <1>1, <1>4, <2>2 DEF Types, Node
  <2> QED
    BY <1>1, <1>2, <2>1, <2>3 DEF Types
<1>13. Unlisted'
  <2> SUFFICES ASSUME NEW e \in Desc, e \notin Listed'
               PROVE  next'[e] = NULL /\ last'[e] = NULL
    BY DEF Unlisted
  <2>1. e # d /\ e \notin Listed
    BY <1>8
  <2>2. next[e] = NULL /\ last[e] = NULL
    BY <2>1, <1>1 DEF Unlisted
  <2> QED
    BY <2>1, <2>2, <1>6, <1>7, <1>11
<1>14. Linked'
  <2> SUFFICES ASSUME NEW g \in 0 .. Buckets - 1
               PROVE  \E m \in Nat : \E r \in [1 .. m -> Desc] : Bucketed(r, m, g)'
    BY DEF Linked
  <2>1. CASE g # h
    <3>1. PICK m \in Nat : \E r \in [1 .. m -> Desc] : Bucketed(r, m, g)
      BY <1>1 DEF Linked
    <3>2. PICK r \in [1 .. m -> Desc] : Bucketed(r, m, g)
      BY <3>1
    <3>3. sockets'[g] = sockets[g]
      BY <1>1, <1>4, <2>1 DEF Types
    <3>4. ASSUME NEW e \in Desc, e \in Listed, _descriptor_hash(descriptor[e]) = g
          PROVE  next'[e] = next[e] /\ last'[e] = last[e]
      BY <3>4, <2>1, <1>6, <1>7, <1>8, <1>11
    <3>5. \A e \in Desc : e \in Listed' /\ _descriptor_hash(descriptor'[e]) = g
                            <=> e \in Listed /\ _descriptor_hash(descriptor[e]) = g
      BY <1>2, <1>3, <1>8, <2>1
    <3>6. Bucketed(r, m, g)'
      BY <3>2, <3>3, <3>4, <3>5, KeepBucketed
    <3> QED
      BY <3>6
  <2>2. CASE g = h
    <3>1. IsChain(s, k, sockets[h], next, last) /\ \A i \in 1 .. k : s[i] # d
      BY <1>8, <1>10 DEF Bucketed, In
    <3>2. \A e \in Desc : e # d => last'[e] = IF e = sockets[h] THEN d ELSE last[e]
      BY <1>7
    <3>3. IsChain(Pushed(s, k, d), k + 1, d, next', last')
      BY <3>1, <3>2, <1>6, PushChain
    <3>4. sockets'[h] = d
      BY <1>1, <1>3, <1>4 DEF Types
    <3>5. last'[Pushed(s, k, d)[1]] = NULL
      BY <1>7 DEF Pushed
    <3>6. ASSUME NEW e \in Desc
          PROVE  e \in Listed' /\ _descriptor_hash(descriptor'[e]) = h <=> In(e, Pushed(s, k, d), k + 1)
      <4>1. e \in Listed /\ _descriptor_hash(descriptor[e]) = h <=> In(e, s, k)
        BY <1>10 DEF Bucketed
      <4>2. In(e, Pushed(s, k, d), k + 1) <=> e = d \/ In(e, s, k)
        BY PushedEntries
      <4> QED
        BY <4>1, <4>2, <1>2, <1>3, <1>8
    <3>7. Bucketed(Pushed(s, k, d), k + 1, h)'
      BY <3>3, <3>4, <3>5, <3>6 DEF Bucketed
    <3>8. k + 1 \in Nat /\ Pushed(s, k, d) \in [1 .. k + 1 -> Desc]
      BY <3>3 DEF IsChain
    <3> QED
      BY <2>2, <3>7, <3>8
  <2> QED
    BY <2>1, <2>2
<1>15. Owned'
  BY <1>1, <1>2, <1>8 DEF Owned
<1>16. Searching'
  BY <1>2 DEF Searching
<1> QED
  BY <1>12, <1>13, <1>14, <1>15, <1>16 DEF TableInv

\* anscheduler_descriptor_delete takes the descriptor out of its bucket and
\* gives its number back, or loses it.
LEMMA DescriptorDeleteStep ==
  ASSUME TableInv, NEW d \in Desc, DescriptorDelete(d)
  PROVE  TableInv'
<1> USE SocketListAssumption DEF SocketListAssumption
<1>1. Types /\ Linked /\ Unlisted /\ Owned /\ Searching
  BY DEF TableInv
<1>2. /\ phase[d] = "unpended" /\ phase' = [phase EXCEPT ![d] = "hangup"] /\ ~search.on
      /\ UNCHANGED <<descriptor, refCount, isClosed, search>>
      /\ UNCHANGED <<firstPending, pendingNext, pendingLast, waiting, popping>>
  BY DEF DescriptorDelete, SetPhase, LockFree, countVars, pendingVars, links
<1>3. PICK h \in 0 .. Buckets - 1 : h = _descriptor_hash(descriptor[d])
  BY <1>1, HashRange DEF Types
<1>4. /\ sockets' = IF last[d] = NULL THEN [sockets EXCEPT ![h] = next[d]] ELSE sockets
      /\ next' = [e \in Desc |-> IF e = d THEN NULL
                                 ELSE IF e = last[d] THEN next[d] ELSE next[e]]
      /\ last' = [e \in Desc |-> IF e = d THEN NULL
                                 ELSE IF e = next[d] THEN last[d] ELSE last[e]]
  BY <1>3 DEF DescriptorDelete, Unlink
<1>5. \A e \in Desc : phase'[e] = IF e = d THEN "hangup" ELSE phase[e]
  BY <1>1, <1>2 DEF Types
<1>6. \A e \in Desc : next'[e] = IF e = d THEN NULL ELSE IF e = last[d] THEN next[d] ELSE next[e]
  BY <1>4
<1>7. \A e \in Desc : last'[e] = IF e = d THEN NULL ELSE IF e = next[d] THEN last[d] ELSE last[e]
  BY <1>4
<1>8. d \in Listed /\ Listed' = Listed \ {d}
  BY <1>2, <1>5 DEF Listed
<1>9. PICK k \in Nat : \E s \in [1 .. k -> Desc] : Bucketed(s, k, h)
  BY <1>1, <1>3 DEF Linked
<1>10. PICK s \in [1 .. k -> Desc] : Bucketed(s, k, h)
  BY <1>9
<1>11. IsChain(s, k, sockets[h], next, last) /\ \A a, b \in 1 .. k : s[a] = s[b] => a = b
  BY <1>10 DEF Bucketed, IsChain
<1>12. PICK j \in 1 .. k : s[j] = d
  BY <1>3, <1>8, <1>10 DEF Bucketed, In
<1>13. last[s[1]] = NULL
  BY <1>10, <1>12 DEF Bucketed
<1>14. ASSUME NEW e \in {next[d], last[d]}, e # NULL
       PROVE  e \in Listed /\ _descriptor_hash(descriptor[e]) = h
  <2>1. In(e, s, k)
    <3>1. next[d] = IF j = k THEN NULL ELSE s[j + 1]
      BY <1>11, <1>12 DEF IsChain
    <3>2. last[d] = IF j = 1 THEN NULL ELSE s[j - 1]
      BY <1>11, <1>12, <1>13 DEF IsChain
    <3> QED
      BY <1>14, <3>1, <3>2 DEF In
  <2>2. e \in Desc
    BY <2>1 DEF In
  <2> QED
    BY <1>10, <2>1, <2>2 DEF Bucketed
<1>15. /\ descriptor[d] \in Index
       /\ users' = users \/ users' = [users EXCEPT ![descriptor[d]] = 0]
  BY <1>1 DEF DescriptorDelete, Pool!Put, Types
<1>16. Types'
  <2>1. phase' \in [Desc -> Phase]
    BY <1>1, <1>2 DEF Types, Phase
  <2>4. users' \in [Index -> 0 .. 1]
    <3>1. CASE users' = users
      BY <3>1, <1>1 DEF Types
    <3>2. CASE users' = [users EXCEPT ![descriptor[d]] = 0]
      BY <3>2, <1>1 DEF Types
    <3> QED
      BY <3>1, <3>2, <1>15
  <2>2. next[d] \in Node /\ last[d] \in Node /\ NULL \in Node
    BY <1>1 DEF Types, Node
  <2>3. /\ sockets' \in [0 .. Buckets - 1 -> Node]
        /\ next' \in [Desc -> Node] /\ last' \in [Desc -> Node]
    BY <1>1, <1>4, <2>2 DEF Types
  <2> QED
    BY <1>1, <1>2, <2>1, <2>3, <2>4 DEF Types
<1>17. Unlisted'
  <2> SUFFICES ASSUME NEW e \in Desc, e \notin Listed', e # d
               PROVE  next'[e] = NULL /\ last'[e] = NULL
    BY <1>6, <1>7 DEF Unlisted
  <2>1. e \notin Listed
    BY <1>8
  <2>2. next[e] = NULL /\ last[e] = NULL
    BY <2>1, <1>1 DEF Unlisted
  <2>3. e # next[d] /\ e # last[d]
    BY <2>1, <1>14
  <2> QED
    BY <2>2, <2>3, <1>6, <1>7
<1>18. Linked'
  <2> SUFFICES ASSUME NEW g \in 0 .. Buckets - 1
               PROVE  \E m \in Nat : \E r \in [1 .. m -> Desc] : Bucketed(r, m, g)'
    BY DEF Linked
  <2>1. CASE g # h
    <3>1. PICK m \in Nat : \E r \in [1 .. m -> Desc] : Bucketed(r, m, g)
      BY <1>1 DEF Linked
    <3>2. PICK r \in [1 .. m -> Desc] : Bucketed(r, m, g)
      BY <3>1
    <3>3. sockets'[g] = sockets[g]
      BY <1>1, <1>4, <2>1 DEF Types
    <3>4. ASSUME NEW e \in Desc, e \in Listed, _descriptor_hash(descriptor[e]) = g
          PROVE  next'[e] = next[e] /\ last'[e] = last[e]
      <4>1. e # d /\ e # next[d] /\ e # last[d]
        BY <3>4, <2>1, <1>3, <1>14
      <4> QED
        BY <4>1, <1>6, <1>7
    <3>5. \A e \in Desc : e \in Listed' /\ _descriptor_hash(descriptor'[e]) = g
                            <=> e \in Listed /\ _descriptor_hash(descriptor[e]) = g
      BY <1>2, <1>3, <1>8, <2>1
    <3>6. Bucketed(r, m, g)'
      BY <3>2, <3>3, <3>4, <3>5, KeepBucketed
    <3> QED
      BY <3>6
  <2>2. CASE g = h
    <3>1. sockets'[h] = IF last[d] = NULL THEN next[d] ELSE sockets[h]
      BY <1>1, <1>4 DEF Types
    <3>2. IsChain(Cut(s, k, j), k - 1, sockets'[h], next', last')
      BY <3>1, <1>6, <1>7, <1>11, <1>12, <1>13, CutChain
    <3>3. k - 1 # 0 => last'[Cut(s, k, j)[1]] = NULL
      BY <1>7, <1>11, <1>12, <1>13, CutFirst
    <3>4. ASSUME NEW e \in Desc
          PROVE  e \in Listed' /\ _descriptor_hash(descriptor'[e]) = h <=> In(e, Cut(s, k, j), k - 1)
      <4>1. e \in Listed /\ _descriptor_hash(descriptor[e]) = h <=> In(e, s, k)
        BY <1>10 DEF Bucketed
      <4>2. In(e, Cut(s, k, j), k - 1) <=> e # s[j] /\ In(e, s, k)
        BY <1>11, CutEntries
      <4> QED
        BY <4>1, <4>2, <1>2, <1>8, <1>12
    <3>5. Bucketed(Cut(s, k, j), k - 1, h)'
      BY <3>2, <3>3, <3>4 DEF Bucketed
    <3>6. k - 1 \in Nat /\ Cut(s, k, j) \in [1 .. k - 1 -> Desc]
      BY <3>2 DEF IsChain
    <3> QED
      BY <2>2, <3>5, <3>6
  <2> QED
    BY <2>1, <2>2
<1>19. Owned'
  <2>1. d \in Numbered /\ Numbered' = Numbered \ {d}
    BY <1>2, <1>5 DEF Numbered
  <2>2. ASSUME NEW e \in Numbered, e # d
        PROVE  users'[descriptor[e]] = 1
    <3>1. descriptor[e] # descriptor[d] /\ descriptor[e] \in Index /\ users[descriptor[e]] = 1
      BY <2>1, <2>2, <1>1 DEF Owned, Types, Numbered
    <3> QED
      BY <3>1, <1>1, <1>15 DEF Types
  <2> QED
    BY <2>1, <2>2, <1>1, <1>2 DEF Owned
<1>20. Searching'
  BY <1>2 DEF Searching
<1> QED
  BY <1>16, <1>17, <1>18, <1>19, <1>20 DEF TableInv

\* What a step must show that leaves the table, the numbers and the number of
\* phases they depend on alone
LEMMA KeepTable ==
  ASSUME TableInv, UNCHANGED <<descriptor, tableVars, users>>, Types', Searching',
         Listed' = Listed, Numbered' = Numbered
  PROVE  TableInv'
<1>1. Types /\ Linked /\ Unlisted /\ Owned
  BY DEF TableInv
<1>2. UNCHANGED <<sockets, next, last>>
  BY DEF tableVars
<1>3. Linked'
  BY <1>1, <1>2, KeepLinked
<1>4. Unlisted'
  BY <1>1, <1>2 DEF Unlisted
<1>5. Owned'
  BY <1>1 DEF Owned
<1> QED
  BY <1>3, <1>4, <1>5 DEF TableInv

\* anscheduler_task_not_pending and the end of _socket_hangup: the descriptor
\* goes one step further on its way out, in the table or out of it.
LEMMA LeavingStep ==
  ASSUME TableInv, NEW d \in Desc, NotPending(d) \/ HangupFree(d)
  PROVE  TableInv'
<1> USE SocketListAssumption DEF SocketListAssumption
<1>1. Types /\ Searching
  BY DEF TableInv
<1>2. UNCHANGED <<descriptor, refCount, isClosed, sockets, next, last, users, search, popping>>
  BY DEF NotPending, HangupFree, countVars, tableVars, pendingVars, links
<1>3. \/ phase[d] = "dying" /\ phase' = [phase EXCEPT ![d] = "unpended"]
      \/ phase[d] = "hangup" /\ phase' = [phase EXCEPT ![d] = "free"]
  BY DEF NotPending, HangupFree, SetPhase
<1>4. Listed' = Listed /\ Numbered' = Numbered
  BY <1>1, <1>3 DEF Types, Listed, Numbered
<1>5. Types'
  <2>1. phase' \in [Desc -> Phase]
    BY <1>1, <1>3 DEF Types, Phase
  <2>2. /\ waiting' \subseteq Desc /\ firstPending' \in Node
        /\ pendingNext' \in [Desc -> Node] /\ pendingLast' \in [Desc -> Node]
    <3>1. CASE UNCHANGED links /\ (waiting' = waiting \/ waiting' = waiting \ {d})
      BY <3>1, <1>1 DEF Types, links
    <3>2. CASE Remove(d) /\ waiting' = waiting \ {d}
      <4>1. pendingNext[d] \in Node /\ pendingLast[d] \in Node /\ firstPending \in Node /\ NULL \in Node
        BY <1>1 DEF Types, Node
      <4> QED
        BY <3>2, <4>1, <1>1 DEF Types, Remove
    <3> QED
      BY <3>1, <3>2 DEF NotPending, HangupFree, pendingVars
  <2> QED
    BY <1>1, <1>2, <2>1, <2>2 DEF Types
<1>6. Searching'
  BY <1>1, <1>2, <1>4 DEF Searching
<1> QED
  BY <1>2, <1>4, <1>5, <1>6, KeepTable DEF tableVars

\* Closing, and the counting of references
LEMMA CountStep ==
  ASSUME TableInv, NEW d \in Desc,
         SocketClose(d) \/ SocketReference(d) \/ SocketDereference(d)
  PROVE  TableInv'
<1> USE SocketListAssumption DEF SocketListAssumption
<1>1. Types /\ Searching
  BY DEF TableInv
<1>2. /\ UNCHANGED <<descriptor, sockets, next, last, users, search>>
      /\ UNCHANGED <<firstPending, pendingNext, pendingLast, waiting, popping>>
  BY DEF SocketClose, SocketReference, SocketDereference, countVars, tableVars, pendingVars, links
<1>3. refCount[d] \in 0 .. MaxRefs + 1
  BY <1>1 DEF Types
<1>4. \/ refCount' = refCount
      \/ refCount[d] < MaxRefs /\ refCount' = [refCount EXCEPT ![d] = @ + 1]
      \/ refCount[d] > 0 /\ refCount' = [refCount EXCEPT ![d] = @ - 1]
  BY <1>3 DEF SocketClose, SocketReference, SocketDereference, Held
<1>5. isClosed' = isClosed \/ isClosed' = [isClosed EXCEPT ![d] = TRUE]
  BY DEF SocketClose, SocketReference, SocketDereference
<1>6. /\ refCount' \in [Desc -> 0 .. MaxRefs + 1]
      /\ \A e \in Desc : refCount[e] <= MaxRefs => refCount'[e] <= MaxRefs
  <2>1. CASE refCount' = refCount
    BY <2>1, <1>1 DEF Types
  <2>2. CASE refCount[d] < MaxRefs /\ refCount' = [refCount EXCEPT ![d] = @ + 1]
    BY <2>2, <1>1, <1>3 DEF Types
  <2>3. CASE refCount[d] > 0 /\ refCount' = [refCount EXCEPT ![d] = @ - 1]
    BY <2>3, <1>1, <1>3 DEF Types
  <2> QED
    BY <2>1, <2>2, <2>3, <1>4
<1>7. phase' = phase \/ (phase[d] = "open" /\ phase' = [phase EXCEPT ![d] = "dying"])
  BY <1>3 DEF SocketClose, SocketReference, SocketDereference, Held
<1>8. Listed' = Listed /\ Numbered' = Numbered
  BY <1>1, <1>7 DEF Types, Listed, Numbered
<1>9. Types'
  <2>1. phase' \in [Desc -> Phase] /\ isClosed' \in [Desc -> BOOLEAN]
    BY <1>1, <1>5, <1>7 DEF Types, Phase
  <2> QED
    BY <1>1, <1>2, <1>6, <2>1 DEF Types
<1>10. Searching'
  BY <1>1, <1>2, <1>6, <1>8 DEF Searching, Listed
<1> QED
  BY <1>2, <1>8, <1>9, <1>10, KeepTable DEF tableVars

\* anscheduler_descriptor_find begins at the head of a bucket, which is a
\* descriptor of the table.
LEMMA FindStartStep ==
  ASSUME TableInv, NEW n \in Index, FindStart(n)
  PROVE  TableInv'
<1> USE SocketListAssumption DEF SocketListAssumption
<1>1. Types /\ Linked
  BY DEF TableInv
<1>2. /\ UNCHANGED <<phase, descriptor, refCount, isClosed, sockets, next, last, users>>
      /\ UNCHANGED <<firstPending, pendingNext, pendingLast, waiting, popping>>
      /\ \A d \in Desc : descriptor[d] = n => refCount[d] < MaxRefs
  BY DEF FindStart, countVars, tableVars, pendingVars, links
<1>3. PICK h \in 0 .. Buckets - 1 : h = _descriptor_hash(n)
  BY HashRange
<1>4. search' = [on |-> TRUE, want |-> n, obj |-> sockets[h]] /\ sockets[h] \in Node
  BY <1>1, <1>3 DEF FindStart, Types
<1>5. Listed' = Listed /\ Numbered' = Numbered
  BY <1>2 DEF Listed, Numbered
<1>6. sockets[h] # NULL => sockets[h] \in Listed
  <2>1. PICK k \in Nat : \E s \in [1 .. k -> Desc] : Bucketed(s, k, h)
    BY <1>1, <1>3 DEF Linked
  <2>2. PICK s \in [1 .. k -> Desc] : Bucketed(s, k, h)
    BY <2>1
  <2>3. sockets[h] # NULL => sockets[h] \in Desc /\ In(sockets[h], s, k)
    BY <2>2, <1>4 DEF Bucketed, IsChain, In, Node
  <2> QED
    BY <2>2, <2>3 DEF Bucketed
<1>7. Types'
  <2>1. search' \in [on : {TRUE}, want : Index, obj : Node]
    BY <1>4
  <2> QED
    BY <1>1, <1>2, <2>1 DEF Types
<1>8. Searching'
  <2>1. search'.obj = sockets[h] /\ search'.want = n
    BY <1>4
  <2>2. sockets[h] # NULL => sockets[h] \in Desc /\ refCount[sockets[h]] \in 0 .. MaxRefs + 1
    BY <1>1, <1>4 DEF Types, Node
  <2> QED
    BY <1>2, <1>5, <1>6, <2>1, <2>2 DEF Searching
<1> QED
  BY <1>2, <1>5, <1>7, <1>8, KeepTable DEF tableVars

\* Its loop may add a reference to the descriptor it was asked for.
LEMMA FindLoopStep ==
  ASSUME TableInv, FindStep
  PROVE  TableInv'
<1> USE SocketListAssumption DEF SocketListAssumption
<1>1. Types /\ Searching
  BY DEF TableInv
<1>2. CASE FindHit
  <2>1. /\ UNCHANGED <<phase, descriptor, isClosed, sockets, next, last, users>>
        /\ UNCHANGED <<firstPending, pendingNext, pendingLast, waiting, popping>>
        /\ search' = NoSearch /\ search.on /\ search.obj # NULL
        /\ descriptor[search.obj] = search.want
    BY <1>2 DEF FindHit, Matches, tableVars, pendingVars, links
  <2>2. search.obj \in Desc /\ refCount[search.obj] <= MaxRefs /\ refCount[search.obj] \in 0 .. MaxRefs + 1
    BY <1>1, <2>1 DEF Searching, Listed, Types
  <2>3. refCount' = refCount \/ refCount' = [refCount EXCEPT ![search.obj] = @ + 1]
    BY <1>2 DEF FindHit
  <2>4. refCount' \in [Desc -> 0 .. MaxRefs + 1]
    <3>1. refCount \in [Desc -> 0 .. MaxRefs + 1] /\ refCount[search.obj] + 1 \in 0 .. MaxRefs + 1
      BY <1>1, <2>2 DEF Types
    <3> QED
      BY <2>2, <2>3, <3>1
  <2>5. Listed' = Listed /\ Numbered' = Numbered
    BY <2>1 DEF Listed, Numbered
  <2>6. Types'
    BY <1>1, <2>1, <2>4 DEF Types
  <2>7. Searching'
    BY <2>1 DEF Searching, NoSearch
  <2> QED
    BY <2>1, <2>5, <2>6, <2>7, KeepTable DEF tableVars
<1>3. CASE FindMiss
  <2>1. /\ UNCHANGED <<phase, descriptor, refCount, isClosed, sockets, next, last, users>>
        /\ UNCHANGED <<firstPending, pendingNext, pendingLast, waiting, popping>>
        /\ search' = NoSearch
    BY <1>3 DEF FindMiss, countVars, tableVars, pendingVars, links
  <2>2. Listed' = Listed /\ Numbered' = Numbered
    BY <2>1 DEF Listed, Numbered
  <2>3. Types'
    BY <1>1, <2>1 DEF Types
  <2>4. Searching'
    BY <2>1 DEF Searching, NoSearch
  <2> QED
    BY <2>1, <2>2, <2>3, <2>4, KeepTable DEF tableVars
<1>4. CASE FindAgain
  <2>1. /\ UNCHANGED <<phase, descriptor, refCount, isClosed, sockets, next, last, users, search>>
        /\ UNCHANGED <<firstPending, pendingNext, pendingLast, waiting, popping>>
    BY <1>4 DEF FindAgain, vars, countVars, tableVars, pendingVars, links
  <2>2. Listed' = Listed /\ Numbered' = Numbered
    BY <2>1 DEF Listed, Numbered
  <2>3. Types'
    BY <1>1, <2>1 DEF Types
  <2>4. Searching'
    BY <1>1, <2>1, <2>2 DEF Searching
  <2> QED
    BY <2>1, <2>2, <2>3, <2>4, KeepTable DEF tableVars
<1> QED
  BY <1>2, <1>3, <1>4 DEF FindStep

\* The pending list and the table are under different locks: its functions
\* change only reference counts.
LEMMA PendingTableStep ==
  ASSUME TableInv,
         (\E d \in Desc : Pending(d)) \/ PopStart \/ PopOpen \/ PopClosed \/ PopNone
  PROVE  TableInv'
<1> USE SocketListAssumption DEF SocketListAssumption
<1>1. Types /\ Searching
  BY DEF TableInv
<1>2. UNCHANGED <<phase, descriptor, isClosed, sockets, next, last, users, search>>
  BY DEF Pending, PopStart, PopOpen, PopClosed, PopNone, pendingOnly, countVars, tableVars
<1>3. Listed' = Listed /\ Numbered' = Numbered
  BY <1>2 DEF Listed, Numbered
<1>4. \/ refCount' = refCount
      \/ /\ firstPending # NULL /\ refCount[firstPending] < MaxRefs
         /\ refCount' = [refCount EXCEPT ![firstPending] = @ + 1]
  BY DEF Pending, PopStart, PopOpen, PopClosed, PopNone, pendingOnly, countVars, Shift
<1>5. firstPending # NULL => firstPending \in Desc /\ refCount[firstPending] \in 0 .. MaxRefs + 1
  BY <1>1 DEF Types, Node
<1>6. /\ refCount' \in [Desc -> 0 .. MaxRefs + 1]
      /\ \A e \in Desc : refCount[e] <= MaxRefs => refCount'[e] <= MaxRefs
  <2>1. CASE refCount' = refCount
    BY <2>1, <1>1 DEF Types
  <2>2. CASE /\ firstPending # NULL /\ refCount[firstPending] < MaxRefs
             /\ refCount' = [refCount EXCEPT ![firstPending] = @ + 1]
    BY <2>2, <1>1, <1>5 DEF Types
  <2> QED
    BY <2>1, <2>2, <1>4
<1>7. /\ firstPending' \in Node /\ waiting' \subseteq Desc /\ popping' \in BOOLEAN
      /\ pendingNext' \in [Desc -> Node] /\ pendingLast' \in [Desc -> Node]
  <2>1. CASE \E d \in Desc : Pending(d)
    <3>1. PICK d \in Desc : Pending(d)
      BY <2>1
    <3>2. waiting' = waiting \cup {d} /\ popping' = popping /\ (UNCHANGED links \/ Prepend(d))
      BY <3>1 DEF Pending
    <3>3. CASE UNCHANGED links
      BY <3>2, <3>3, <1>1 DEF Types, links
    <3>4. CASE Prepend(d)
      <4>1. d \in Node /\ firstPending \in Node
        BY <1>1 DEF Types, Node
      <4>2. pendingNext' \in [Desc -> Node] /\ pendingLast' \in [Desc -> Node] /\ firstPending' \in Node
        BY <3>4, <4>1, <1>1 DEF Types, Prepend
      <4> QED
        BY <3>2, <4>2, <1>1 DEF Types
    <3> QED
      BY <3>2, <3>3, <3>4
  <2>2. CASE PopStart \/ PopNone
    BY <2>2, <1>1 DEF PopStart, PopNone, Types, links
  <2>3. CASE PopOpen \/ PopClosed
    <3>1. Shift /\ (popping' = FALSE \/ popping' = popping)
      BY <2>3 DEF PopOpen, PopClosed
    <3>2. /\ firstPending \in Desc /\ firstPending' = pendingNext[firstPending]
          /\ pendingNext' = [pendingNext EXCEPT ![firstPending] = NULL]
          /\ pendingLast' = [pendingLast EXCEPT ![firstPending] = NULL]
          /\ waiting' = waiting \ {firstPending}
      BY <3>1, <1>5 DEF Shift
    <3> QED
      BY <3>1, <3>2, <1>1 DEF Types, Node
  <2> QED
    BY <2>1, <2>2, <2>3
<1>8. Types'
  BY <1>1, <1>2, <1>6, <1>7 DEF Types
<1>9. Searching'
  BY <1>1, <1>2, <1>3, <1>6 DEF Searching, Listed
<1> QED
  BY <1>2, <1>3, <1>8, <1>9, KeepTable DEF tableVars

\* Every step preserves the invariant of the table.
LEMMA TableNext == TableInv /\ [Next]_vars => TableInv'
<1> SUFFICES ASSUME TableInv, [Next]_vars PROVE TableInv'
  OBVIOUS
<1>1. ASSUME NEW d \in Desc,
             \/ CreateDescriptor(d) \/ DescriptorSet(d) \/ SocketClose(d)
             \/ SocketReference(d) \/ SocketDereference(d)
             \/ NotPending(d) \/ DescriptorDelete(d) \/ HangupFree(d)
      PROVE  TableInv'
  BY <1>1, CreateDescriptorStep, DescriptorSetStep, CountStep, LeavingStep, DescriptorDeleteStep
<1>2. CASE (\E d \in Desc : Pending(d)) \/ PopStart \/ PopOpen \/ PopClosed \/ PopNone
  BY <1>2, PendingTableStep
<1>3. CASE \E n \in Index : FindStart(n)
  BY <1>3, FindStartStep
<1>4. CASE FindStep
  BY <1>4, FindLoopStep
<1>5. CASE UNCHANGED vars
  <2>1. /\ UNCHANGED <<phase, descriptor, refCount, isClosed, sockets, next, last, users, search>>
        /\ UNCHANGED <<firstPending, pendingNext, pendingLast, waiting, popping>>
    BY <1>5 DEF vars, countVars, tableVars, pendingVars, links
  <2>2. Listed' = Listed /\ Numbered' = Numbered
    BY <2>1 DEF Listed, Numbered
  <2>3. Types'
    BY <2>1 DEF TableInv, Types
  <2>4. Searching'
    BY <2>1, <2>2 DEF TableInv, Searching
  <2> QED
    BY <2>1, <2>2, <2>3, <2>4, KeepTable DEF tableVars
<1> QED
  BY <1>1, <1>2, <1>3, <1>4, <1>5 DEF Next

\* The table's invariant holds whatever becomes of the pending list.
THEOREM TableInvariance == Spec => []TableInv
  BY InitTable, TableNext, PTL DEF Spec

\* A number names one descriptor of the table: anscheduler_descriptor_delete
\* gives it back only when the descriptor has left its bucket.
THEOREM NumbersNameOne == Spec => []NumberNamesOne
<1>1. TableInv => NumberNamesOne
  BY DEF TableInv, Owned, NumberNamesOne, Listed, Numbered
<1> QED
  BY <1>1, TableInvariance, PTL

-----------------------------------------------------------------------------
(* The pending list.                                                       *)

\* It is empty at the start.
LEMMA InitPending == Init => PendingInv
<1> SUFFICES ASSUME Init PROVE PendingInv
  OBVIOUS
<1> DEFINE s == [i \in 1 .. 0 |-> NULL]
<1>1. s \in [1 .. 0 -> Desc] /\ IsChain(s, 0, firstPending, pendingNext, pendingLast)
  BY DEF Init, IsChain
<1>2. \A d \in Desc : d \in waiting <=> In(d, s, 0)
  BY DEF Init, In
<1>3. PendingLinked
  BY <1>1, <1>2 DEF PendingLinked
<1> QED
  BY <1>3 DEF PendingInv, Unwaiting, Alive, Init

\* The steps that leave it alone need only keep the waiting descriptors alive.
LEMMA KeepPending ==
  ASSUME PendingInv, UNCHANGED <<firstPending, pendingNext, pendingLast, waiting>>,
         \A d \in waiting : phase[d] \in {"made", "open", "dying"}
                              => phase'[d] \in {"made", "open", "dying"}
  PROVE  PendingInv'
<1>1. PendingLinked /\ Unwaiting /\ Alive
  BY DEF PendingInv
<1>2. PendingLinked'
  BY <1>1 DEF PendingLinked
<1>3. Unwaiting' /\ Alive'
  BY <1>1 DEF Unwaiting, Alive
<1> QED
  BY <1>2, <1>3 DEF PendingInv

\* The test of anscheduler_task_pending and anscheduler_task_not_pending,
\* which looks only at the links and the head, tells whether a descriptor is
\* in the list.
LEMMA PendingTest ==
  ASSUME Types, PendingInv, NEW d \in Desc
  PROVE  IsPending(d) <=> d \in waiting
<1> USE SocketListAssumption DEF SocketListAssumption
<1>1. PICK k \in Nat : \E s \in [1 .. k -> Desc] :
        /\ IsChain(s, k, firstPending, pendingNext, pendingLast)
        /\ \A e \in Desc : e \in waiting <=> In(e, s, k)
  BY DEF PendingInv, PendingLinked
<1>2. PICK s \in [1 .. k -> Desc] :
        /\ IsChain(s, k, firstPending, pendingNext, pendingLast)
        /\ \A e \in Desc : e \in waiting <=> In(e, s, k)
  BY <1>1
<1>3. ASSUME d \in waiting PROVE IsPending(d)
  <2>1. PICK i \in 1 .. k : s[i] = d
    BY <1>2, <1>3 DEF In
  <2>2. CASE i = 1
    <3>1. firstPending = d
      BY <1>2, <2>1, <2>2 DEF IsChain
    <3> QED
      BY <3>1 DEF IsPending
  <2>3. CASE i # 1
    <3>1. i \in 2 .. k /\ i - 1 \in 1 .. k
      BY <2>3
    <3>2. pendingLast[d] = s[i - 1] /\ s[i - 1] \in Desc
      BY <1>2, <2>1, <3>1 DEF IsChain
    <3> QED
      BY <3>2 DEF IsPending
  <2> QED
    BY <2>2, <2>3
<1>4. ASSUME d \notin waiting PROVE ~IsPending(d)
  <2>1. pendingNext[d] = NULL /\ pendingLast[d] = NULL
    BY <1>4 DEF PendingInv, Unwaiting
  <2>2. firstPending # NULL => In(firstPending, s, k)
    BY <1>2 DEF IsChain, In
  <2>3. firstPending # d
    BY <1>2, <1>4, <2>2
  <2> QED
    BY <2>1, <2>3 DEF IsPending
<1> QED
  BY <1>3, <1>4

\* _create_descriptor clears the links of a structure that does not wait.
LEMMA CreatePending ==
  ASSUME TableInv, PendingInv, NEW d \in Desc, CreateDescriptor(d)
  PROVE  PendingInv'
<1>1. Types /\ PendingLinked /\ Unwaiting /\ Alive
  BY DEF TableInv, PendingInv
<1>2. /\ phase[d] = "free" /\ phase' = [phase EXCEPT ![d] = "made"]
      /\ pendingNext' = [pendingNext EXCEPT ![d] = NULL]
      /\ pendingLast' = [pendingLast EXCEPT ![d] = NULL]
      /\ UNCHANGED <<firstPending, waiting>>
  BY DEF CreateDescriptor, SetPhase
<1>3. \A e \in Desc : /\ phase'[e] = IF e = d THEN "made" ELSE phase[e]
                      /\ pendingNext'[e] = IF e = d THEN NULL ELSE pendingNext[e]
                      /\ pendingLast'[e] = IF e = d THEN NULL ELSE pendingLast[e]
  BY <1>1, <1>2 DEF Types
<1>4. d \notin waiting
  BY <1>1, <1>2 DEF Alive
<1>5. PICK k \in Nat : \E s \in [1 .. k -> Desc] :
        /\ IsChain(s, k, firstPending, pendingNext, pendingLast)
        /\ \A e \in Desc : e \in waiting <=> In(e, s, k)
  BY <1>1 DEF PendingLinked
<1>6. PICK s \in [1 .. k -> Desc] :
        /\ IsChain(s, k, firstPending, pendingNext, pendingLast)
        /\ \A e \in Desc : e \in waiting <=> In(e, s, k)
  BY <1>5
<1>7. \A i \in 1 .. k : s[i] \in Desc /\ s[i] # d
  BY <1>4, <1>6 DEF In
<1>8. IsChain(s, k, firstPending, pendingNext', pendingLast')
  BY <1>3, <1>6, <1>7, SameChain
<1>9. PendingLinked'
  BY <1>2, <1>6, <1>8 DEF PendingLinked
<1>10. Unwaiting' /\ Alive'
  BY <1>1, <1>2, <1>3, <1>4 DEF Unwaiting, Alive
<1> QED
  BY <1>9, <1>10 DEF PendingInv

\* anscheduler_task_pending puts a descriptor into the list once.
LEMMA PendingStep ==
  ASSUME TableInv, PendingInv, NEW d \in Desc, Pending(d)
  PROVE  PendingInv'
<1> USE SocketListAssumption DEF SocketListAssumption
<1>1. Types /\ PendingLinked /\ Unwaiting /\ Alive
  BY DEF TableInv, PendingInv
<1>2. /\ phase' = phase /\ phase[d] \in {"made", "open", "dying"} /\ waiting' = waiting \cup {d}
      /\ IF IsPending(d) THEN UNCHANGED links ELSE Prepend(d)
  BY DEF Pending, pendingOnly, Held
<1>3. IsPending(d) <=> d \in waiting
  BY <1>1, PendingTest
<1>4. CASE d \in waiting
  <2>1. UNCHANGED <<firstPending, pendingNext, pendingLast, waiting>>
    BY <1>2, <1>3, <1>4 DEF links
  <2> QED
    BY <1>2, <2>1, KeepPending
<1>5. CASE d \notin waiting
  <2>1. Prepend(d)
    BY <1>2, <1>3, <1>5
  <2>2. /\ firstPending' = d
        /\ \A e \in Desc : pendingNext'[e] = IF e = d THEN firstPending ELSE pendingNext[e]
        /\ \A e \in Desc : pendingLast'[e] = IF e = firstPending THEN d ELSE pendingLast[e]
    BY <2>1, <1>1 DEF Prepend, Types
  <2>3. PICK k \in Nat : \E s \in [1 .. k -> Desc] :
          /\ IsChain(s, k, firstPending, pendingNext, pendingLast)
          /\ \A e \in Desc : e \in waiting <=> In(e, s, k)
    BY <1>1 DEF PendingLinked
  <2>4. PICK s \in [1 .. k -> Desc] :
          /\ IsChain(s, k, firstPending, pendingNext, pendingLast)
          /\ \A e \in Desc : e \in waiting <=> In(e, s, k)
    BY <2>3
  <2>5. \A i \in 1 .. k : s[i] # d
    BY <1>5, <2>4 DEF In
  <2>6. IsChain(Pushed(s, k, d), k + 1, d, pendingNext', pendingLast')
    <3>1. \A e \in Desc : e # d => pendingLast'[e] = IF e = firstPending THEN d ELSE pendingLast[e]
      BY <2>2
    <3>2. IsChain(s, k, firstPending, pendingNext, pendingLast)
      BY <2>4
    <3>3. \A e \in Desc : pendingNext'[e] = IF e = d THEN firstPending ELSE pendingNext[e]
      BY <2>2
    <3> QED
      BY ONLY <2>5, <3>1, <3>2, <3>3, PushChain
  <2>7. IsChain(Pushed(s, k, d), k + 1, firstPending', pendingNext', pendingLast')
    BY <2>2, <2>6
  <2>8. ASSUME NEW e \in Desc
        PROVE  e \in waiting' <=> In(e, Pushed(s, k, d), k + 1)
    <3>1. In(e, Pushed(s, k, d), k + 1) <=> e = d \/ In(e, s, k)
      BY PushedEntries
    <3> QED
      BY <1>2, <2>4, <3>1
  <2>9. k + 1 \in Nat /\ Pushed(s, k, d) \in [1 .. k + 1 -> Desc]
    BY <2>6 DEF IsChain
  <2>10. PendingLinked'
    BY <2>7, <2>8, <2>9 DEF PendingLinked
  <2>11. firstPending # NULL => firstPending \in waiting
    <3>1. firstPending # NULL => In(firstPending, s, k) /\ firstPending \in Desc
      BY <2>4, <1>1 DEF IsChain, In, Types, Node
    <3> QED
      BY <2>4, <3>1
  <2>12. Unwaiting'
    <3> SUFFICES ASSUME NEW e \in Desc, e \notin waiting'
                 PROVE  pendingNext'[e] = NULL /\ pendingLast'[e] = NULL
      BY DEF Unwaiting
    <3>1. e # d /\ e \notin waiting
      BY <1>2
    <3>2. e # firstPending
      BY <3>1, <2>11
    <3> QED
      BY <3>1, <3>2, <2>2, <1>1 DEF Unwaiting
  <2>13. Alive'
    BY <1>1, <1>2 DEF Alive
  <2> QED
    BY <2>10, <2>12, <2>13 DEF PendingInv
<1> QED
  BY <1>4, <1>5

\* anscheduler_task_pop_pending takes the head out.
LEMMA ShiftStep ==
  ASSUME TableInv, PendingInv, Shift, phase' = phase
  PROVE  PendingInv'
<1> USE SocketListAssumption DEF SocketListAssumption
<1>1. Types /\ PendingLinked /\ Unwaiting /\ Alive
  BY DEF TableInv, PendingInv
<1>2. PICK d \in Desc : d = firstPending
  BY <1>1 DEF Shift, Types, Node
<1>3. /\ firstPending' = pendingNext[d] /\ waiting' = waiting \ {d}
      /\ pendingNext' = [pendingNext EXCEPT ![d] = NULL]
      /\ pendingLast' = [pendingLast EXCEPT ![d] = NULL]
  BY <1>2 DEF Shift
<1>4. \A e \in Desc : /\ pendingNext'[e] = IF e = d THEN NULL ELSE pendingNext[e]
                      /\ pendingLast'[e] = IF e = d THEN NULL ELSE pendingLast[e]
  BY <1>1, <1>3 DEF Types
<1>5. PICK k \in Nat : \E s \in [1 .. k -> Desc] :
        /\ IsChain(s, k, d, pendingNext, pendingLast)
        /\ \A e \in Desc : e \in waiting <=> In(e, s, k)
  BY <1>1, <1>2 DEF PendingLinked
<1>6. PICK s \in [1 .. k -> Desc] :
        /\ IsChain(s, k, d, pendingNext, pendingLast)
        /\ \A e \in Desc : e \in waiting <=> In(e, s, k)
  BY <1>5
<1>7. k # 0 /\ 1 \in 1 .. k /\ s[1] = d /\ \A a, b \in 1 .. k : s[a] = s[b] => a = b
  BY <1>6 DEF IsChain
<1>8. IsChain(Cut(s, k, 1), k - 1, pendingNext[d], pendingNext', pendingLast')
  BY <1>4, <1>6, <1>7, ShiftChain
<1>9. IsChain(Cut(s, k, 1), k - 1, firstPending', pendingNext', pendingLast')
  BY <1>3, <1>8
<1>10. ASSUME NEW e \in Desc
       PROVE  e \in waiting' <=> In(e, Cut(s, k, 1), k - 1)
  <2>1. In(e, Cut(s, k, 1), k - 1) <=> e # s[1] /\ In(e, s, k)
    BY <1>7, CutEntries
  <2> QED
    BY <1>3, <1>6, <1>7, <2>1
<1>11. k - 1 \in Nat /\ Cut(s, k, 1) \in [1 .. k - 1 -> Desc]
  BY <1>8 DEF IsChain
<1>12. PendingLinked'
  BY <1>9, <1>10, <1>11 DEF PendingLinked
<1>13. Unwaiting' /\ Alive'
  BY <1>1, <1>3, <1>4 DEF Unwaiting, Alive
<1> QED
  BY <1>12, <1>13 DEF PendingInv

\* anscheduler_task_not_pending takes a dying descriptor out, wherever it is,
\* unless a pop has made it the head: then it would be taken for one behind
\* another, and stay the head.
LEMMA NotPendingStep ==
  ASSUME TableInv, PendingInv, NEW d \in Desc, NotPending(d), ~StaleHead(d)
  PROVE  PendingInv'
<1> USE SocketListAssumption DEF SocketListAssumption
<1>1. Types /\ PendingLinked /\ Unwaiting /\ Alive
  BY DEF TableInv, PendingInv
<1>2. /\ phase[d] = "dying" /\ phase' = [phase EXCEPT ![d] = "unpended"]
      /\ d # firstPending \/ pendingLast[d] = NULL
      /\ IF IsPending(d) THEN Remove(d) ELSE UNCHANGED links
      /\ waiting' = waiting \ {d}
  BY DEF NotPending, SetPhase, StaleHead
<1>3. IsPending(d) <=> d \in waiting
  BY <1>1, PendingTest
<1>4. \A e \in Desc : phase'[e] = IF e = d THEN "unpended" ELSE phase[e]
  BY <1>1, <1>2 DEF Types
<1>5. CASE d \notin waiting
  <2>1. waiting' = waiting
    BY <1>2, <1>5
  <2>2. UNCHANGED <<firstPending, pendingNext, pendingLast, waiting>>
    BY <1>2, <1>3, <1>5, <2>1 DEF links
  <2>3. \A e \in waiting : phase'[e] = phase[e]
    BY <1>1, <1>4, <1>5 DEF Types
  <2> QED
    BY <2>2, <2>3, KeepPending
<1>6. CASE d \in waiting
  <2>1. Remove(d)
    BY <1>2, <1>3, <1>6
  <2>2. /\ firstPending' = IF pendingLast[d] = NULL THEN pendingNext[d] ELSE firstPending
        /\ \A e \in Desc : pendingNext'[e] = IF e = d THEN NULL
                              ELSE IF e = pendingLast[d] THEN pendingNext[d] ELSE pendingNext[e]
        /\ \A e \in Desc : pendingLast'[e] = IF e = d THEN NULL
                              ELSE IF e = pendingNext[d] THEN pendingLast[d] ELSE pendingLast[e]
    BY <2>1 DEF Remove
  <2>3. PICK k \in Nat : \E s \in [1 .. k -> Desc] :
          /\ IsChain(s, k, firstPending, pendingNext, pendingLast)
          /\ \A e \in Desc : e \in waiting <=> In(e, s, k)
    BY <1>1 DEF PendingLinked
  <2>4. PICK s \in [1 .. k -> Desc] :
          /\ IsChain(s, k, firstPending, pendingNext, pendingLast)
          /\ \A e \in Desc : e \in waiting <=> In(e, s, k)
    BY <2>3
  <2>5. PICK j \in 1 .. k : s[j] = d
    BY <1>6, <2>4 DEF In
  <2>6. j = 1 => pendingLast[s[1]] = NULL
    <3>1. firstPending = s[1]
      BY <2>4, <2>5 DEF IsChain
    <3> QED
      BY <1>2, <2>5, <3>1
  <2>7. IsChain(Cut(s, k, j), k - 1, firstPending', pendingNext', pendingLast')
    BY <2>2, <2>4, <2>5, <2>6, CutChain
  <2>8. \A a, b \in 1 .. k : s[a] = s[b] => a = b
    BY <2>4 DEF IsChain
  <2>9. ASSUME NEW e \in Desc
        PROVE  e \in waiting' <=> In(e, Cut(s, k, j), k - 1)
    <3>1. In(e, Cut(s, k, j), k - 1) <=> e # s[j] /\ In(e, s, k)
      BY <2>8, CutEntries
    <3> QED
      BY <1>2, <2>4, <2>5, <3>1
  <2>10. k - 1 \in Nat /\ Cut(s, k, j) \in [1 .. k - 1 -> Desc]
    BY <2>7 DEF IsChain
  <2>11. PendingLinked'
    BY <2>7, <2>9, <2>10 DEF PendingLinked
  <2>12. ASSUME NEW e \in {pendingNext[d], pendingLast[d]}, e # NULL
         PROVE  e \in waiting
    <3>1. In(e, s, k)
      <4>1. pendingNext[d] = IF j = k THEN NULL ELSE s[j + 1]
        BY <2>4, <2>5 DEF IsChain
      <4>2. pendingLast[d] = IF j = 1 THEN NULL ELSE s[j - 1]
        BY <2>4, <2>5, <2>6 DEF IsChain
      <4> QED
        BY <2>12, <4>1, <4>2 DEF In
    <3>2. e \in Desc
      BY <3>1 DEF In
    <3> QED
      BY <2>4, <3>1, <3>2
  <2>13. Unwaiting'
    <3> SUFFICES ASSUME NEW e \in Desc, e \notin waiting', e # d
                 PROVE  pendingNext'[e] = NULL /\ pendingLast'[e] = NULL
      BY <2>2 DEF Unwaiting
    <3>1. e \notin waiting
      BY <1>2
    <3>2. e # pendingNext[d] /\ e # pendingLast[d]
      BY <3>1, <2>12
    <3> QED
      BY <3>1, <3>2, <2>2, <1>1 DEF Unwaiting
  <2>14. Alive'
    BY <1>1, <1>2, <1>4 DEF Alive, Types
  <2> QED
    BY <2>11, <2>13, <2>14 DEF PendingInv
<1> QED
  BY <1>5, <1>6

\* The other functions leave the list alone, and none of them takes a waiting
\* descriptor out of its way to the list.
LEMMA OtherPending ==
  ASSUME TableInv, PendingInv, NEW d \in Desc,
         \/ DescriptorSet(d) \/ SocketClose(d) \/ SocketReference(d)
         \/ SocketDereference(d) \/ DescriptorDelete(d) \/ HangupFree(d)
  PROVE  PendingInv'
<1>1. Types /\ Alive
  BY DEF TableInv, PendingInv
<1>2. UNCHANGED <<firstPending, pendingNext, pendingLast, waiting>>
  BY DEF DescriptorSet, SocketClose, SocketReference, SocketDereference, DescriptorDelete,
         HangupFree, pendingVars, links
<1>3. \/ phase' = phase
      \/ phase' = [phase EXCEPT ![d] = "open"]
      \/ phase' = [phase EXCEPT ![d] = "dying"]
      \/ phase[d] \in {"unpended", "hangup"} /\ \E p \in Phase : phase' = [phase EXCEPT ![d] = p]
  BY DEF DescriptorSet, SocketClose, SocketReference, SocketDereference, DescriptorDelete,
         HangupFree, SetPhase, Phase
<1>4. \A e \in waiting : phase[e] \in {"made", "open", "dying"}
                          => phase'[e] \in {"made", "open", "dying"}
  BY <1>1, <1>3 DEF Types
<1> QED
  BY <1>2, <1>4, KeepPending

\* Every step but the death of a stale head preserves the invariant of the
\* pending list.
LEMMA PendingNextStep ==
  TableInv /\ PendingInv /\ [Next]_vars => PendingInv' \/ StaleHeadDies
<1> SUFFICES ASSUME TableInv, PendingInv, [Next]_vars, ~StaleHeadDies PROVE PendingInv'
  OBVIOUS
<1>1. ASSUME NEW d \in Desc,
             \/ CreateDescriptor(d) \/ DescriptorSet(d) \/ SocketClose(d)
             \/ SocketReference(d) \/ SocketDereference(d) \/ Pending(d)
             \/ NotPending(d) \/ DescriptorDelete(d) \/ HangupFree(d)
      PROVE  PendingInv'
  <2>1. NotPending(d) => ~StaleHead(d)
    BY DEF StaleHeadDies
  <2> QED
    BY <1>1, <2>1, CreatePending, OtherPending, PendingStep, NotPendingStep
<1>2. CASE PopOpen \/ PopClosed
  <2>1. Shift /\ phase' = phase
    BY <1>2 DEF PopOpen, PopClosed, pendingOnly
  <2> QED
    BY <2>1, ShiftStep
<1>3. CASE \/ \E n \in Index : FindStart(n)
           \/ FindStep \/ PopStart \/ PopNone \/ UNCHANGED vars
  <2>1. UNCHANGED <<firstPending, pendingNext, pendingLast, waiting, phase>>
    BY <1>3 DEF FindStart, FindStep, FindHit, FindMiss, FindAgain, PopStart, PopNone,
                pendingOnly, vars, pendingVars, links
  <2> QED
    BY <2>1, KeepPending
<1> QED
  BY <1>1, <1>2, <1>3 DEF Next

-----------------------------------------------------------------------------
(* What the table and the pending list promise.                            *)

\* The walk along a bucket visits its list.
LEMMA BucketVisited ==
  ASSUME TableInv, NEW h \in 0 .. Buckets - 1
  PROVE  \E k \in Nat : \E s \in [1 .. k -> Desc] :
           /\ Bucketed(s, k, h) /\ k <= Cardinality(Desc) /\ Cardinality(Desc) \in Nat
           /\ DOMAIN Bucket(h) = 0 .. Cardinality(Desc)
           /\ \A m \in 0 .. Cardinality(Desc) : Bucket(h)[m] = IF m < k THEN s[m + 1] ELSE NULL
<1>1. PICK k \in Nat : \E s \in [1 .. k -> Desc] : Bucketed(s, k, h)
  BY DEF TableInv, Linked
<1>2. PICK s \in [1 .. k -> Desc] : Bucketed(s, k, h)
  BY <1>1
<1>3. IsChain(s, k, sockets[h], next, last)
  BY <1>2 DEF Bucketed
<1>4. k <= Cardinality(Desc) /\ Cardinality(Desc) \in Nat
  BY <1>3, ChainBound
<1>5. Bucket(h) = Walk(sockets[h], next, Cardinality(Desc))
  BY DEF Bucket, Walk
<1>6. /\ DOMAIN Walk(sockets[h], next, Cardinality(Desc)) = 0 .. Cardinality(Desc)
      /\ \A m \in 0 .. Cardinality(Desc) :
           Walk(sockets[h], next, Cardinality(Desc))[m] = IF m < k THEN s[m + 1] ELSE NULL
  BY <1>3, <1>4, WalkChain
<1> HIDE DEF Walk
<1> QED
  BY <1>2, <1>4, <1>5, <1>6

\* A listed descriptor is in the list of its bucket.
LEMMA ListedPlace ==
  ASSUME TableInv, NEW d \in Listed
  PROVE  \E k \in Nat : \E s \in [1 .. k -> Desc] : \E i \in 1 .. k :
           /\ IsChain(s, k, sockets[_descriptor_hash(descriptor[d])], next, last)
           /\ last[s[1]] = NULL /\ s[i] = d
<1>1. d \in Desc /\ _descriptor_hash(descriptor[d]) \in 0 .. Buckets - 1
  BY HashRange DEF TableInv, Types, Listed
<1>2. PICK k \in Nat : \E s \in [1 .. k -> Desc] : Bucketed(s, k, _descriptor_hash(descriptor[d]))
  BY <1>1 DEF TableInv, Linked
<1>3. PICK s \in [1 .. k -> Desc] : Bucketed(s, k, _descriptor_hash(descriptor[d]))
  BY <1>2
<1>4. PICK i \in 1 .. k : s[i] = d
  BY <1>1, <1>3 DEF Bucketed, In
<1>5. /\ IsChain(s, k, sockets[_descriptor_hash(descriptor[d])], next, last)
      /\ last[s[1]] = NULL
  BY <1>3, <1>4 DEF Bucketed
<1> QED
  BY <1>4, <1>5

\* The part of WellFormed that is about the table
BucketsExact ==
  /\ \A h \in DOMAIN sockets :
       /\ sockets[h] # NULL => last[sockets[h]] = NULL
       /\ Bucket(h)[Cardinality(Desc)] = NULL
       /\ {Bucket(h)[n] : n \in DOMAIN Bucket(h)} \ {NULL}
            = {d \in Listed : _descriptor_hash(descriptor[d]) = h}
  /\ \A d, e \in Desc : next[d] = e <=> last[e] = d

\* It follows from the invariant of the table.
LEMMA TableExact == TableInv => BucketsExact
<1> SUFFICES ASSUME TableInv PROVE BucketsExact
  OBVIOUS
<1> USE SocketListAssumption DEF SocketListAssumption
<1>1. Types /\ Unlisted
  BY DEF TableInv
<1>2. ASSUME NEW h \in DOMAIN sockets
      PROVE  /\ sockets[h] # NULL => last[sockets[h]] = NULL
             /\ Bucket(h)[Cardinality(Desc)] = NULL
             /\ {Bucket(h)[n] : n \in DOMAIN Bucket(h)} \ {NULL}
                  = {d \in Listed : _descriptor_hash(descriptor[d]) = h}
  <2>1. h \in 0 .. Buckets - 1
    BY <1>1 DEF Types
  <2>2. PICK k \in Nat : \E s \in [1 .. k -> Desc] :
          /\ Bucketed(s, k, h) /\ k <= Cardinality(Desc) /\ Cardinality(Desc) \in Nat
          /\ DOMAIN Bucket(h) = 0 .. Cardinality(Desc)
          /\ \A m \in 0 .. Cardinality(Desc) : Bucket(h)[m] = IF m < k THEN s[m + 1] ELSE NULL
    BY <2>1, BucketVisited
  <2>3. PICK s \in [1 .. k -> Desc] :
          /\ Bucketed(s, k, h) /\ k <= Cardinality(Desc) /\ Cardinality(Desc) \in Nat
          /\ DOMAIN Bucket(h) = 0 .. Cardinality(Desc)
          /\ \A m \in 0 .. Cardinality(Desc) : Bucket(h)[m] = IF m < k THEN s[m + 1] ELSE NULL
    BY <2>2
  <2>4. Bucket(h)[Cardinality(Desc)] = NULL
    BY <2>3
  <2>5. sockets[h] # NULL => last[sockets[h]] = NULL
    BY <2>3 DEF Bucketed, IsChain
  <2>6. ASSUME NEW m \in DOMAIN Bucket(h), Bucket(h)[m] # NULL
        PROVE  Bucket(h)[m] \in Listed /\ _descriptor_hash(descriptor[Bucket(h)[m]]) = h
    <3>1. Bucket(h)[m] \in Desc /\ In(Bucket(h)[m], s, k)
      BY <2>3, <2>6 DEF In
    <3> QED
      BY <2>3, <3>1 DEF Bucketed
  <2>7. ASSUME NEW d \in Listed, _descriptor_hash(descriptor[d]) = h
        PROVE  d # NULL /\ \E m \in DOMAIN Bucket(h) : Bucket(h)[m] = d
    <3>1. d \in Desc /\ d # NULL
      BY DEF Listed
    <3>2. PICK i \in 1 .. k : s[i] = d
      BY <2>3, <2>7, <3>1 DEF Bucketed, In
    <3>3. i - 1 \in 0 .. Cardinality(Desc) /\ i - 1 < k /\ (i - 1) + 1 = i
      BY <2>3
    <3> QED
      BY <2>3, <3>1, <3>2, <3>3
  <2> QED
    BY <2>4, <2>5, <2>6, <2>7
<1>3. ASSUME NEW d \in Desc, NEW e \in Desc
      PROVE  next[d] = e <=> last[e] = d
  <2>1. ASSUME next[d] = e PROVE last[e] = d
    <3>1. d \in Listed
      BY <2>1, <1>1 DEF Unlisted
    <3>2. PICK k \in Nat : \E s \in [1 .. k -> Desc] : \E i \in 1 .. k :
            /\ IsChain(s, k, sockets[_descriptor_hash(descriptor[d])], next, last)
            /\ last[s[1]] = NULL /\ s[i] = d
      BY <3>1, ListedPlace
    <3>3. PICK s \in [1 .. k -> Desc], i \in 1 .. k :
            /\ IsChain(s, k, sockets[_descriptor_hash(descriptor[d])], next, last)
            /\ last[s[1]] = NULL /\ s[i] = d
      BY <3>2
    <3>4. e = IF i = k THEN NULL ELSE s[i + 1]
      BY <2>1, <3>3 DEF IsChain
    <3>5. i # k /\ e = s[i + 1] /\ i + 1 \in 2 .. k
      BY <3>4
    <3>6. last[s[i + 1]] = s[(i + 1) - 1]
      BY <3>3, <3>5 DEF IsChain
    <3> QED
      BY <3>3, <3>5, <3>6
  <2>2. ASSUME last[e] = d PROVE next[d] = e
    <3>1. e \in Listed
      BY <2>2, <1>1 DEF Unlisted
    <3>2. PICK k \in Nat : \E s \in [1 .. k -> Desc] : \E i \in 1 .. k :
            /\ IsChain(s, k, sockets[_descriptor_hash(descriptor[e])], next, last)
            /\ last[s[1]] = NULL /\ s[i] = e
      BY <3>1, ListedPlace
    <3>3. PICK s \in [1 .. k -> Desc], i \in 1 .. k :
            /\ IsChain(s, k, sockets[_descriptor_hash(descriptor[e])], next, last)
            /\ last[s[1]] = NULL /\ s[i] = e
      BY <3>2
    <3>4. i # 1 /\ i \in 2 .. k /\ i - 1 \in 1 .. k /\ i - 1 # k
      BY <2>2, <3>3
    <3>5. last[e] = s[i - 1]
      BY <3>3, <3>4 DEF IsChain
    <3>6. next[s[i - 1]] = s[(i - 1) + 1]
      BY <3>3, <3>4 DEF IsChain
    <3> QED
      BY <2>2, <3>3, <3>4, <3>5, <3>6
  <2> QED
    BY <2>1, <2>2
<1> QED
  BY <1>2, <1>3 DEF BucketsExact

\* Every bucket is a doubly linked list of exactly the descriptors of its hash
\* that are in the table, whatever happens to the pending list.
THEOREM BucketsAreLists == Spec => []BucketsExact
  BY TableExact, TableInvariance, PTL

\* With the types: the descriptors of a task form the hash table that
\* socketlist.c means to keep, for any sequence of calls.
THEOREM DescriptorTable == Spec => []WellFormed
<1>1. TableInv => WellFormed
  <2> SUFFICES ASSUME TableInv PROVE WellFormed
    OBVIOUS
  <2>1. TypeOK
    BY DEF TableInv, Types, Unlisted, TypeOK, Node
  <2>2. BucketsExact
    BY TableExact
  <2> QED
    BY <2>1, <2>2 DEF WellFormed, BucketsExact
<1> QED
  BY <1>1, TableInvariance, PTL

\* PendingExact is the invariant of the pending list.
LEMMA PendingExactInv == PendingExact <=> PendingInv
<1> USE SocketListAssumption DEF SocketListAssumption
<1>1. Cardinality(Desc) \in Nat
  BY FS_CardinalityType
<1>2. ASSUME PendingExact PROVE PendingLinked
  BY <1>1, <1>2 DEF PendingExact, PendingLinked
<1>3. ASSUME PendingLinked
      PROVE  \E k \in 0 .. Cardinality(Desc) : \E s \in [1 .. k -> Desc] :
               /\ IsChain(s, k, firstPending, pendingNext, pendingLast)
               /\ \A d \in Desc : d \in waiting <=> In(d, s, k)
  <2>1. PICK k \in Nat : \E s \in [1 .. k -> Desc] :
          /\ IsChain(s, k, firstPending, pendingNext, pendingLast)
          /\ \A d \in Desc : d \in waiting <=> In(d, s, k)
    BY <1>3 DEF PendingLinked
  <2>2. k <= Cardinality(Desc)
    BY <2>1, ChainBound
  <2> QED
    BY <1>1, <2>1, <2>2
<1> QED
  BY <1>2, <1>3 DEF PendingExact, PendingInv, Unwaiting, Alive

\* For any number of descriptors, the pending list is exact until
\* anscheduler_task_not_pending is called for a descriptor that a pop of
\* another one has made the head; no other step of any CPU spoils it.
THEOREM PendingListKept == Spec => OnlyStaleHeads
<1>1. Init => PendingExact
  BY InitPending, PendingExactInv
<1>2. TableInv /\ [Next]_vars
        => [PendingExact => PendingExact' \/ StaleHeadDies]_vars
  <2> SUFFICES ASSUME TableInv, [Next]_vars, PendingExact, ~StaleHeadDies
               PROVE  PendingExact'
    OBVIOUS
  <2>1. PendingInv
    BY PendingExactInv
  <2>2. PendingInv'
    BY <2>1, PendingNextStep
  <2>3. PendingExact' <=> PendingInv'
    BY PendingExactInv, PTL
  <2> QED
    BY <2>2, <2>3
<1> QED
  BY <1>1, <1>2, TableInvariance, PTL DEF Spec, OnlyStaleHeads
=============================================================================
