--------------------------- MODULE AnIdxSetProofs ---------------------------
(***************************************************************************)
(* The index set never gives a number to two callers and never forgets     *)
(* one, for every page size and every number of indexes.  The inductive    *)
(* invariant says it without counting: the entries of the pages are        *)
(* different, and the made numbers that are in no page are gone once.      *)
(***************************************************************************)
EXTENDS AnIdxSet, FiniteSetTheorems, SequenceTheorems, TLAPS

\* The pages ns have an entry v.
Has(ns, v) == \E k \in 1 .. Len(ns) : \E j \in 1 .. Len(ns[k]) : ns[k][j] = v

\* No two places of the pages ns have the same entry.
Distinct(ns) ==
  \A k, l \in 1 .. Len(ns) : \A i \in 1 .. Len(ns[k]), j \in 1 .. Len(ns[l]) :
    ns[k][i] = ns[l][j] => k = l /\ i = j

\* A stack of pages: all but the first are full.
Pages(ns) ==
  /\ ns \in Seq(Seq(Nat)) /\ ns # <<>>
  /\ \A k \in 1 .. Len(ns) : Len(ns[k]) <= Capacity
  /\ \A k \in 2 .. Len(ns) : Len(ns[k]) = Capacity

\* A made index is gone exactly when it is in no page.
IInv ==
  /\ used \in 0 .. MaxUsed
  /\ Pages(nodes) /\ Distinct(nodes)
  /\ out \in [Index -> Nat] /\ lost \subseteq Index
  /\ \A v \in Nat : Has(nodes, v) => v < used
  /\ \A v \in Index : Gone(v) = IF v < used /\ ~Has(nodes, v) THEN 1 ELSE 0

-----------------------------------------------------------------------------
(* What the operations do to a stack of pages                              *)

\* A page made by _allocate_next_page has each of its numbers once.
LEMMA FreshPage ==
  ASSUME NEW n \in Nat
  PROVE  /\ Page(n) # <<>> /\ Len(Page(n)) = Capacity
         /\ Pages(<<Page(n)>>) /\ Distinct(<<Page(n)>>)
         /\ \A v \in Nat : Has(<<Page(n)>>, v) <=> n <= v /\ v < n + Capacity
<1> DEFINE P == Page(n)
<1>1. Capacity \in Nat /\ Capacity > 0
  BY CapacityAssumption
<1>2. P \in Seq(Nat) /\ Len(P) = Capacity /\ \A i \in 1 .. Capacity : P[i] = n + Capacity - i
  <2>1. \A i \in 1 .. Capacity : n + Capacity - i \in Nat
    BY <1>1
  <2> QED
    BY <1>1, <2>1 DEF Page
<1> HIDE DEF P
<1>3. <<P>> \in Seq(Seq(Nat)) /\ Len(<<P>>) = 1 /\ <<P>>[1] = P
  BY <1>2
<1>4. Pages(<<P>>)
  BY <1>1, <1>2, <1>3 DEF Pages
<1>5. Distinct(<<P>>)
  BY <1>1, <1>2, <1>3 DEF Distinct
<1>6. ASSUME NEW v \in Nat
      PROVE  Has(<<P>>, v) <=> n <= v /\ v < n + Capacity
  <2>1. Has(<<P>>, v) <=> \E i \in 1 .. Capacity : P[i] = v
    BY <1>2, <1>3 DEF Has
  <2>2. ASSUME n <= v, v < n + Capacity
        PROVE  \E i \in 1 .. Capacity : P[i] = v
    <3>1. n + Capacity - v \in 1 .. Capacity
      BY <2>2, <1>1
    <3>2. P[n + Capacity - v] = v
      BY <3>1, <1>1, <1>2
    <3> QED
      BY <3>1, <3>2
  <2> QED
    BY <2>1, <2>2, <1>1, <1>2
<1>7. P # <<>>
  BY <1>1, <1>2
<1> QED
  BY <1>2, <1>4, <1>5, <1>6, <1>7 DEF P

\* indexes[--count] takes one entry away and leaves all others where they are.
LEMMA PageTaken ==
  ASSUME NEW ns, Pages(ns), Distinct(ns), Head(ns) # <<>>,
         NEW r, r = [ns EXCEPT ![1] = Front(@)],
         NEW x, x = Last(Head(ns))
  PROVE  /\ x \in Nat /\ Has(ns, x)
         /\ Pages(r) /\ Distinct(r)
         /\ \A v : Has(r, v) <=> Has(ns, v) /\ v # x
<1> DEFINE n == Len(ns[1])
<1>1. /\ ns \in Seq(Seq(Nat)) /\ Len(ns) \in Nat /\ 1 \in 1 .. Len(ns)
      /\ Head(ns) = ns[1] /\ ns[1] \in Seq(Nat) /\ \A k \in 1 .. Len(ns) : ns[k] \in Seq(Nat)
  BY DEF Pages
<1>2. n \in Nat /\ n > 0
  BY <1>1
<1>3. x = ns[1][n] /\ x \in Nat
  BY <1>1, <1>2 DEF Last
<1>4. /\ Front(ns[1]) \in Seq(Nat) /\ Len(Front(ns[1])) = n - 1
      /\ \A i \in 1 .. n - 1 : Front(ns[1])[i] = ns[1][i]
  BY <1>1, <1>2 DEF Front
<1>5. /\ r \in Seq(Seq(Nat)) /\ Len(r) = Len(ns) /\ r[1] = Front(ns[1])
      /\ \A k \in 2 .. Len(ns) : r[k] = ns[k]
  BY <1>1, <1>4
<1>6. \A k \in 1 .. Len(ns) : /\ Len(r[k]) \in Nat
                              /\ Len(r[k]) = IF k = 1 THEN n - 1 ELSE Len(ns[k])
                              /\ \A i \in 1 .. Len(r[k]) : i \in 1 .. Len(ns[k]) /\ r[k][i] = ns[k][i]
  <2> TAKE k \in 1 .. Len(ns)
  <2>1. CASE k = 1
    <3>1. 1 .. n - 1 \subseteq 1 .. n
      BY <1>2
    <3>2. Len(r[k]) = n - 1 /\ n - 1 \in Nat
      BY <2>1, <1>2, <1>4, <1>5
    <3> QED
      BY <2>1, <3>1, <3>2, <1>4, <1>5
  <2>2. CASE k # 1
    <3>1. r[k] = ns[k] /\ Len(ns[k]) \in Nat
      BY <2>2, <1>1, <1>5
    <3> QED
      BY <2>2, <3>1
  <2> QED
    BY <2>1, <2>2
<1>7. Capacity \in Nat /\ n <= Capacity
  BY CapacityAssumption, <1>1 DEF Pages
<1>8. Pages(r)
  <2>1. r # <<>>
    BY <1>1, <1>5
  <2>2. \A k \in 1 .. Len(r) : Len(r[k]) <= Capacity
    BY <1>1, <1>2, <1>5, <1>6, <1>7 DEF Pages
  <2>3. \A k \in 2 .. Len(r) : Len(r[k]) = Capacity
    BY <1>1, <1>5 DEF Pages
  <2> QED
    BY <1>5, <2>1, <2>2, <2>3 DEF Pages
<1>9. Distinct(r)
  <2> SUFFICES ASSUME NEW k \in 1 .. Len(ns), NEW l \in 1 .. Len(ns),
                      NEW i \in 1 .. Len(r[k]), NEW j \in 1 .. Len(r[l]), r[k][i] = r[l][j]
               PROVE  k = l /\ i = j
    BY <1>5, ZenonT(30) DEF Distinct
  <2>1. i \in 1 .. Len(ns[k]) /\ j \in 1 .. Len(ns[l]) /\ ns[k][i] = ns[l][j]
    BY <1>6
  <2> QED
    BY <2>1 DEF Distinct
<1>10. Has(ns, x)
  BY <1>1, <1>2, <1>3 DEF Has
<1>11. ASSUME NEW v
       PROVE  Has(r, v) <=> Has(ns, v) /\ v # x
  <2>1. ASSUME Has(r, v) PROVE Has(ns, v) /\ v # x
    <3>0. PICK k \in 1 .. Len(ns) : \E i \in 1 .. Len(r[k]) : r[k][i] = v
      BY <2>1, <1>5 DEF Has
    <3>1. PICK i \in 1 .. Len(r[k]) : r[k][i] = v
      BY <3>0
    <3>2. i \in 1 .. Len(ns[k]) /\ ns[k][i] = v
      BY <3>1, <1>6
    <3>3. ~(k = 1 /\ i = n)
      BY <3>1, <1>6, <1>2
    <3>4. n \in 1 .. Len(ns[1])
      BY <1>2
    <3>5. v # x
      BY <3>2, <3>3, <3>4, <1>1, <1>3, SMTT(30) DEF Distinct
    <3> QED
      BY <3>2, <3>5 DEF Has
  <2>2. ASSUME Has(ns, v), v # x PROVE Has(r, v)
    <3>0. PICK k \in 1 .. Len(ns) : \E i \in 1 .. Len(ns[k]) : ns[k][i] = v
      BY <2>2 DEF Has
    <3>1. PICK i \in 1 .. Len(ns[k]) : ns[k][i] = v
      BY <3>0
    <3>2. ~(k = 1 /\ i = n)
      BY <3>1, <2>2, <1>3
    <3>3. i \in 1 .. Len(r[k])
      BY <3>2, <1>1, <1>2, <1>6
    <3> QED
      BY <3>1, <3>3, <1>5, <1>6 DEF Has
  <2> QED
    BY <2>1, <2>2
<1> QED
  BY <1>3, <1>8, <1>9, <1>10, <1>11

\* An empty first page is dropped with nothing in it.
LEMMA PageDropped ==
  ASSUME NEW ns, Pages(ns), Distinct(ns), Head(ns) = <<>>, Len(ns) > 1,
         NEW r, r = Tail(ns)
  PROVE  /\ Pages(r) /\ Distinct(r) /\ Head(r) # <<>>
         /\ \A v : Has(r, v) <=> Has(ns, v)
<1>1. /\ ns \in Seq(Seq(Nat)) /\ Len(ns) \in Nat
      /\ ns[1] = <<>> /\ \A k \in 1 .. Len(ns) : ns[k] \in Seq(Nat)
  BY DEF Pages
<1>2. /\ r \in Seq(Seq(Nat)) /\ Len(r) = Len(ns) - 1
      /\ \A k \in 1 .. Len(ns) - 1 : r[k] = ns[k + 1]
  BY <1>1
<1>3. Capacity \in Nat /\ Capacity > 0
  BY CapacityAssumption
<1>4. \A k \in 1 .. Len(r) : Len(r[k]) = Capacity
  BY <1>1, <1>2 DEF Pages
<1>5. r # <<>> /\ Head(r) # <<>>
  <2>1. Len(r) \in Nat /\ Len(r) > 0
    BY <1>1, <1>2
  <2>2. 1 \in 1 .. Len(r) /\ r # <<>>
    BY <2>1
  <2>5. Head(r) = r[1]
    BY ONLY <1>2, <2>2
  <2>3. Len(r[1]) = Capacity
    BY <2>2, <1>4
  <2>4. r[1] # <<>>
    BY <2>3, <1>3
  <2> QED
    BY <2>2, <2>4, <2>5
<1>6. Pages(r)
  <2>1. \A k \in 2 .. Len(r) : k \in 1 .. Len(r)
    BY <1>1, <1>2
  <2>2. \A k \in 1 .. Len(r) : Len(r[k]) <= Capacity
    BY <1>3, <1>4
  <2> QED
    BY <2>1, <2>2, <1>2, <1>4, <1>5 DEF Pages
<1>7. Distinct(r)
  <2> SUFFICES ASSUME NEW k \in 1 .. Len(r), NEW l \in 1 .. Len(r),
                      NEW i \in 1 .. Len(r[k]), NEW j \in 1 .. Len(r[l]), r[k][i] = r[l][j]
               PROVE  k = l /\ i = j
    BY DEF Distinct
  <2>1. k + 1 \in 1 .. Len(ns) /\ l + 1 \in 1 .. Len(ns) /\ r[k] = ns[k + 1] /\ r[l] = ns[l + 1]
    BY <1>1, <1>2
  <2>2. k + 1 = l + 1 /\ i = j
    BY <2>1 DEF Distinct
  <2> QED
    BY <2>2, <1>1, <1>2
<1>8. ASSUME NEW v PROVE Has(r, v) <=> Has(ns, v)
  <2>1. ASSUME Has(r, v) PROVE Has(ns, v)
    <3>0. PICK k \in 1 .. Len(r) : \E i \in 1 .. Len(r[k]) : r[k][i] = v
      BY <2>1 DEF Has
    <3>1. PICK i \in 1 .. Len(r[k]) : r[k][i] = v
      BY <3>0
    <3>2. k + 1 \in 1 .. Len(ns) /\ r[k] = ns[k + 1]
      BY <1>1, <1>2
    <3> QED
      BY <3>1, <3>2 DEF Has
  <2>2. ASSUME Has(ns, v) PROVE Has(r, v)
    <3>0. PICK k \in 1 .. Len(ns) : \E i \in 1 .. Len(ns[k]) : ns[k][i] = v
      BY <2>2 DEF Has
    <3>1. PICK i \in 1 .. Len(ns[k]) : ns[k][i] = v
      BY <3>0
    <3>2. k # 1
      BY <3>1, <1>1
    <3>3. k - 1 \in 1 .. Len(r) /\ r[k - 1] = ns[k]
      BY <3>2, <1>1, <1>2
    <3> QED
      BY <3>1, <3>3 DEF Has
  <2> QED
    BY <2>1, <2>2
<1> QED
  BY <1>5, <1>6, <1>7, <1>8

\* The pages ns after indexes[count++] = x
Extended(ns, x) == [ns EXCEPT ![1] = Append(@, x)]

\* indexes[count++] adds one entry to a first page that is not full.
LEMMA PageAppended ==
  ASSUME NEW ns, Pages(ns), Distinct(ns), Len(Head(ns)) # Capacity,
         NEW x \in Nat, ~Has(ns, x),
         NEW r, r = Extended(ns, x)
  PROVE  /\ Pages(r) /\ Distinct(r)
         /\ \A v : Has(r, v) <=> Has(ns, v) \/ v = x
<1> DEFINE n == Len(ns[1])
<1>1. /\ ns \in Seq(Seq(Nat)) /\ Len(ns) \in Nat /\ 1 \in 1 .. Len(ns) /\ n \in Nat
      /\ Head(ns) = ns[1] /\ \A k \in 1 .. Len(ns) : ns[k] \in Seq(Nat)
  BY DEF Pages
<1>2. /\ Append(ns[1], x) \in Seq(Nat) /\ Len(Append(ns[1], x)) = n + 1
      /\ Append(ns[1], x)[n + 1] = x
      /\ \A i \in 1 .. n : Append(ns[1], x)[i] = ns[1][i]
  BY <1>1
<1>3. /\ r \in Seq(Seq(Nat)) /\ Len(r) = Len(ns) /\ r[1] = Append(ns[1], x)
      /\ \A k \in 2 .. Len(ns) : r[k] = ns[k]
  BY <1>1, <1>2 DEF Extended
<1>4. \A k \in 1 .. Len(ns) : /\ Len(r[k]) \in Nat
                              /\ Len(r[k]) = IF k = 1 THEN n + 1 ELSE Len(ns[k])
                              /\ \A i \in 1 .. Len(ns[k]) : i \in 1 .. Len(r[k]) /\ r[k][i] = ns[k][i]
  <2> TAKE k \in 1 .. Len(ns)
  <2>1. CASE k = 1
    <3>1. 1 .. n \subseteq 1 .. n + 1
      BY <1>1
    <3>2. Len(r[k]) = n + 1 /\ n + 1 \in Nat
      BY <2>1, <1>1, <1>2, <1>3
    <3> QED
      BY <2>1, <3>1, <3>2, <1>2, <1>3
  <2>2. CASE k # 1
    <3>1. k \in 2 .. Len(ns)
      BY <2>2, <1>1
    <3>2. r[k] = ns[k] /\ Len(ns[k]) \in Nat
      BY <3>1, <1>1, <1>3
    <3> QED
      BY <2>2, <3>2
  <2> QED
    BY <2>1, <2>2
<1>5. Capacity \in Nat /\ n < Capacity
  BY CapacityAssumption, <1>1 DEF Pages
<1>6. Pages(r)
  <2>1. r # <<>>
    BY <1>1, <1>3
  <2>2. ASSUME NEW k \in 1 .. Len(r) PROVE Len(r[k]) <= Capacity
    <3>1. k \in 1 .. Len(ns)
      BY <1>3
    <3>2. Len(ns[k]) <= Capacity
      BY <3>1 DEF Pages
    <3>3. Len(r[k]) = IF k = 1 THEN n + 1 ELSE Len(ns[k])
      BY <3>1, <1>4
    <3> QED
      BY <3>2, <3>3, <1>1, <1>5
  <2>3. \A k \in 2 .. Len(r) : Len(r[k]) = Capacity
    BY <1>1, <1>3 DEF Pages
  <2> QED
    BY <1>3, <2>1, <2>2, <2>3 DEF Pages
<1>7. ASSUME NEW k \in 1 .. Len(r), NEW i \in 1 .. Len(r[k])
      PROVE  \/ i \in 1 .. Len(ns[k]) /\ r[k][i] = ns[k][i]
             \/ k = 1 /\ i = n + 1 /\ r[k][i] = x
  <2>1. k \in 1 .. Len(ns)
    BY <1>3
  <2>2. CASE i \in 1 .. Len(ns[k])
    BY <2>1, <2>2, <1>4
  <2>3. CASE i \notin 1 .. Len(ns[k])
    <3>1. Len(r[k]) = IF k = 1 THEN n + 1 ELSE Len(ns[k])
      BY <2>1, <1>4
    <3>2. k = 1
      BY <2>3, <3>1
    <3>3. i = n + 1
      BY <2>3, <3>1, <3>2, <1>1
    <3> QED
      BY <3>2, <3>3, <1>2, <1>3
  <2> QED
    BY <2>2, <2>3
<1>8. \A k \in 1 .. Len(ns) : \A i \in 1 .. Len(ns[k]) : ns[k][i] # x
  BY DEF Has
<1>9. Distinct(r)
  <2> SUFFICES ASSUME NEW k \in 1 .. Len(r), NEW l \in 1 .. Len(r),
                      NEW i \in 1 .. Len(r[k]), NEW j \in 1 .. Len(r[l]), r[k][i] = r[l][j]
               PROVE  k = l /\ i = j
    BY DEF Distinct
  <2>1. k \in 1 .. Len(ns) /\ l \in 1 .. Len(ns)
    BY <1>3
  <2>2. CASE r[k][i] = x
    <3>0. ~(i \in 1 .. Len(ns[k]) /\ r[k][i] = ns[k][i])
      BY <2>1, <2>2, <1>8
    <3>1. k = 1 /\ i = n + 1
      BY <3>0, <1>7
    <3>2. r[l][j] = x
      BY <2>2
    <3>3. l = 1 /\ j = n + 1
      BY <2>1, <3>2, <1>7, <1>8, SMTT(30)
    <3> QED
      BY <3>1, <3>3
  <2>3. CASE r[k][i] # x
    <3>1. i \in 1 .. Len(ns[k]) /\ r[k][i] = ns[k][i]
      BY <2>3, <1>7
    <3>2. j \in 1 .. Len(ns[l]) /\ r[l][j] = ns[l][j]
      BY <2>3, <1>7
    <3>3. ns[k][i] = ns[l][j]
      BY <3>1, <3>2
    <3> QED
      BY ONLY <2>1, <3>1, <3>2, <3>3, Distinct(ns) DEF Distinct
  <2> QED
    BY <2>2, <2>3
<1>10. ASSUME NEW v PROVE Has(r, v) <=> Has(ns, v) \/ v = x
  <2>1. Has(r, v) => Has(ns, v) \/ v = x
    BY <1>3, <1>7, SMTT(30) DEF Has
  <2>2. ASSUME Has(ns, v) PROVE Has(r, v)
    <3>1. PICK k \in 1 .. Len(ns) : \E i \in 1 .. Len(ns[k]) : ns[k][i] = v
      BY <2>2 DEF Has
    <3>2. PICK i \in 1 .. Len(ns[k]) : ns[k][i] = v
      BY <3>1
    <3>3. k \in 1 .. Len(r) /\ i \in 1 .. Len(r[k]) /\ r[k][i] = v
      BY <3>2, <1>3, <1>4
    <3> QED
      BY <3>3 DEF Has
  <2>3. Has(r, x)
    <3>1. n + 1 \in 1 .. Len(r[1]) /\ r[1][n + 1] = x
      BY <1>1, <1>2, <1>3
    <3> QED
      BY <3>1, <1>1, <1>3 DEF Has
  <2> QED
    BY <2>1, <2>2, <2>3
<1> QED
  BY <1>6, <1>9, <1>10

\* A new first page with one entry goes in front of full ones.
LEMMA PagePushed ==
  ASSUME NEW ns, Pages(ns), Distinct(ns), Len(Head(ns)) = Capacity,
         NEW x \in Nat, ~Has(ns, x),
         NEW r, r = <<<<x>>>> \o ns
  PROVE  /\ Pages(r) /\ Distinct(r)
         /\ \A v : Has(r, v) <=> Has(ns, v) \/ v = x
<1>1. /\ ns \in Seq(Seq(Nat)) /\ Len(ns) \in Nat /\ 1 \in 1 .. Len(ns)
      /\ Head(ns) = ns[1] /\ \A k \in 1 .. Len(ns) : ns[k] \in Seq(Nat)
  BY DEF Pages
<1>2. /\ <<x>> \in Seq(Nat) /\ Len(<<x>>) = 1 /\ <<x>>[1] = x
      /\ <<<<x>>>> \in Seq(Seq(Nat)) /\ Len(<<<<x>>>>) = 1 /\ <<<<x>>>>[1] = <<x>>
  OBVIOUS
<1>3. /\ r \in Seq(Seq(Nat)) /\ Len(r) = Len(ns) + 1 /\ r[1] = <<x>>
      /\ \A k \in 2 .. Len(r) : k - 1 \in 1 .. Len(ns) /\ r[k] = ns[k - 1]
  BY <1>1, <1>2
<1>4. \A k \in 1 .. Len(ns) : k + 1 \in 2 .. Len(r) /\ k + 1 \in 1 .. Len(r) /\ r[k + 1] = ns[k]
  BY <1>1, <1>3
<1>5. Capacity \in Nat /\ Capacity > 0
  BY CapacityAssumption
<1>6. Pages(r)
  <2>1. r # <<>>
    BY <1>1, <1>3
  <2>2. \A k \in 1 .. Len(ns) : Len(ns[k]) = Capacity
    BY <1>1 DEF Pages
  <2>3. \A k \in 2 .. Len(r) : Len(r[k]) = Capacity
    BY <1>3, <2>2
  <2>4. ASSUME NEW k \in 1 .. Len(r) PROVE Len(r[k]) <= Capacity
    <3>1. CASE k = 1
      BY <3>1, <1>2, <1>3, <1>5
    <3>2. CASE k # 1
      <4>1. k \in 2 .. Len(r)
        BY <3>2, <1>1, <1>3
      <4> QED
        BY <4>1, <2>3, <1>5
    <3> QED
      BY <3>1, <3>2
  <2> QED
    BY <1>3, <2>1, <2>3, <2>4 DEF Pages
<1>7. ASSUME NEW k \in 1 .. Len(r), NEW i \in 1 .. Len(r[k])
      PROVE  \/ \E a \in 1 .. Len(ns) :
                   k = a + 1 /\ i \in 1 .. Len(ns[a]) /\ r[k][i] = ns[a][i]
             \/ k = 1 /\ i = 1 /\ r[k][i] = x
  <2>1. CASE k = 1
    <3>1. r[k] = <<x>> /\ i \in 1 .. 1
      BY <2>1, <1>2, <1>3, <1>7
    <3>2. i = 1
      BY <3>1
    <3> QED
      BY <2>1, <3>1, <3>2
  <2>2. CASE k # 1
    <3>1. k \in 2 .. Len(r)
      BY <2>2, <1>1, <1>3
    <3>2. PICK a \in 1 .. Len(ns) : k = a + 1 /\ r[k] = ns[a]
      <4>1. k - 1 \in 1 .. Len(ns) /\ r[k] = ns[k - 1] /\ k = (k - 1) + 1
        BY <3>1, <1>1, <1>3
      <4> QED
        BY <4>1
    <3> QED
      BY <3>2
  <2> QED
    BY <2>1, <2>2
<1>8. \A k \in 1 .. Len(ns) : \A i \in 1 .. Len(ns[k]) : ns[k][i] # x
  BY DEF Has
<1>a. ASSUME NEW k \in 1 .. Len(r), NEW i \in 1 .. Len(r[k]), r[k][i] = x
      PROVE  k = 1 /\ i = 1
  <2>1. \/ \E a \in 1 .. Len(ns) :
             k = a + 1 /\ i \in 1 .. Len(ns[a]) /\ r[k][i] = ns[a][i]
        \/ k = 1 /\ i = 1 /\ r[k][i] = x
    BY <1>7
  <2>2. \A a \in 1 .. Len(ns) : i \in 1 .. Len(ns[a]) => ns[a][i] # r[k][i]
    BY <1>a, <1>8
  <2> QED
    BY <2>1, <2>2
<1>9. Distinct(r)
  <2> SUFFICES ASSUME NEW k \in 1 .. Len(r), NEW l \in 1 .. Len(r),
                      NEW i \in 1 .. Len(r[k]), NEW j \in 1 .. Len(r[l]), r[k][i] = r[l][j]
               PROVE  k = l /\ i = j
    BY DEF Distinct
  <2>1. CASE r[k][i] = x
    <3>1. k = 1 /\ i = 1
      BY <2>1, <1>a
    <3>2. r[l][j] = x
      BY <2>1
    <3>3. l = 1 /\ j = 1
      BY <3>2, <1>a
    <3> QED
      BY <3>1, <3>3
  <2>2. CASE r[k][i] # x
    <3>1. PICK a \in 1 .. Len(ns) : k = a + 1 /\ i \in 1 .. Len(ns[a]) /\ r[k][i] = ns[a][i]
      BY <2>2, <1>7
    <3>2. PICK b \in 1 .. Len(ns) : l = b + 1 /\ j \in 1 .. Len(ns[b]) /\ r[l][j] = ns[b][j]
      BY <2>2, <1>7
    <3>3. a = b /\ i = j
      BY <3>1, <3>2 DEF Distinct
    <3> QED
      BY <3>1, <3>2, <3>3
  <2> QED
    BY <2>1, <2>2
<1>10. ASSUME NEW v PROVE Has(r, v) <=> Has(ns, v) \/ v = x
  <2>1. ASSUME Has(r, v), v # x PROVE Has(ns, v)
    <3>1. PICK k \in 1 .. Len(r) : \E i \in 1 .. Len(r[k]) : r[k][i] = v
      BY <2>1 DEF Has
    <3>2. PICK i \in 1 .. Len(r[k]) : r[k][i] = v
      BY <3>1
    <3>3. \E a \in 1 .. Len(ns) : i \in 1 .. Len(ns[a]) /\ ns[a][i] = v
      BY <3>2, <2>1, <1>7
    <3> QED
      BY <3>3 DEF Has
  <2>2. Has(ns, v) => Has(r, v)
    BY <1>4 DEF Has
  <2>3. Has(r, x)
    <3>1. 1 \in 1 .. Len(r)
      BY <1>1, <1>3
    <3>2. 1 \in 1 .. Len(r[1]) /\ r[1][1] = x
      BY <1>2, <1>3
    <3> QED
      BY <3>1, <3>2 DEF Has
  <2> QED
    BY <2>1, <2>2, <2>3
<1> QED
  BY <1>6, <1>9, <1>10

-----------------------------------------------------------------------------
(* The invariant                                                           *)

\* After anidxset_initialize the smallest Capacity numbers are in the page.
LEMMA InitIInv == SetInit => IInv
<1> SUFFICES ASSUME SetInit PROVE IInv
  OBVIOUS
<1>1. Capacity \in Nat /\ MaxUsed \in Nat /\ Capacity <= MaxUsed /\ Capacity > 0
  BY CapacityAssumption
<1>2. /\ Pages(nodes) /\ Distinct(nodes)
      /\ \A v \in Nat : Has(nodes, v) <=> 0 <= v /\ v < 0 + Capacity
  BY FreshPage DEF SetInit
<1>3. \A v \in Index : v \in Nat /\ Gone(v) = 0
  BY <1>1 DEF Gone, Index, SetInit
<1> QED
  BY <1>1, <1>2, <1>3 DEF IInv, SetInit

\* What one step does to the numbers in the pages and outside: anidxset_get
\* takes an index from the pages that is gone afterwards, anidxset_put does
\* the opposite, or loses an index that was gone already.
Taken(x) ==
  /\ out[x] = 0 /\ x \notin lost /\ x < used'
  /\ out' = [out EXCEPT ![x] = @ + 1] /\ lost' = lost
  /\ used <= used' /\ used' \in 0 .. MaxUsed
  /\ \A v \in Nat : Has(nodes', v) <=> (Has(nodes, v) \/ (used <= v /\ v < used')) /\ v # x

Returned(x) ==
  /\ out[x] = 1 /\ x \notin lost /\ x < used
  /\ out' = [out EXCEPT ![x] = @ - 1] /\ lost' = lost
  /\ used' = used
  /\ \A v \in Nat : Has(nodes', v) <=> Has(nodes, v) \/ v = x

Dropped(x) ==
  /\ out[x] = 1 /\ x \notin lost /\ x < used
  /\ out' = [out EXCEPT ![x] = @ - 1] /\ lost' = lost \cup {x}
  /\ used' = used /\ nodes' = nodes

\* TakeFrom takes an index of good pages ns that nobody has.
LEMMA TakeFromTakes ==
  ASSUME IInv, NEW ns, Pages(ns), Distinct(ns), Head(ns) # <<>>, TakeFrom(ns),
         used' \in 0 .. MaxUsed, used <= used',
         \A v \in Nat : Has(ns, v) <=> Has(nodes, v) \/ (used <= v /\ v < used')
  PROVE  Pages(nodes') /\ Distinct(nodes') /\ \E x \in Index : Taken(x)
<1>1. PICK x : x = Last(Head(ns))
  OBVIOUS
<1>2. MaxUsed \in Nat /\ used \in Nat /\ used <= MaxUsed
  BY CapacityAssumption DEF IInv
<1>3. nodes' = [ns EXCEPT ![1] = Front(@)]
  BY DEF TakeFrom
<1>4. /\ x \in Nat /\ Has(ns, x)
      /\ Pages(nodes') /\ Distinct(nodes')
      /\ \A v : Has(nodes', v) <=> Has(ns, v) /\ v # x
  BY <1>1, <1>3, PageTaken, ZenonT(30)
<1>5. \A v \in Nat : Has(nodes, v) => v < used
  BY DEF IInv
<1>6. x < used' /\ x \in Index
  BY <1>2, <1>4, <1>5 DEF Index
<1>7. Gone(x) = 0
  BY <1>2, <1>4, <1>5, <1>6 DEF IInv
<1>8. out[x] = 0 /\ x \notin lost
  <2>1. out[x] \in Nat
    BY <1>6 DEF IInv
  <2> QED
    BY <1>7, <2>1 DEF Gone
<1>9. out' = [out EXCEPT ![x] = @ + 1] /\ lost' = lost
  BY <1>1 DEF TakeFrom
<1>10. \A v \in Nat : Has(nodes', v) <=> (Has(nodes, v) \/ (used <= v /\ v < used')) /\ v # x
  BY <1>4
<1>11. Taken(x)
  BY <1>6, <1>8, <1>9, <1>10 DEF Taken
<1> QED
  BY <1>4, <1>6, <1>11

\* Every step takes an index, returns one or drops one, and keeps the pages.
LEMMA Steps ==
  ASSUME IInv, SetNext
  PROVE  /\ Pages(nodes') /\ Distinct(nodes')
         /\ \E x \in Index : Taken(x) \/ Returned(x) \/ Dropped(x)
<1>1. /\ Capacity \in Nat /\ Capacity > 0 /\ MaxUsed \in Nat
      /\ used \in Nat /\ used <= MaxUsed
  BY CapacityAssumption DEF IInv
<1>2. Pages(nodes) /\ Distinct(nodes) /\ \A v \in Nat : Has(nodes, v) => v < used
  BY DEF IInv
<1>3. CASE GetFirst
  <2>1. Head(nodes) # <<>> /\ TakeFrom(nodes) /\ used' = used
    BY <1>3 DEF GetFirst, first
  <2>2. \A v \in Nat : Has(nodes, v) <=> Has(nodes, v) \/ (used <= v /\ v < used')
    BY <1>1, <2>1
  <2>3. used' \in 0 .. MaxUsed /\ used <= used'
    BY <1>1, <2>1
  <2> QED
    BY <1>2, <2>1, <2>2, <2>3, TakeFromTakes
<1>4. CASE GetNext
  <2>1. Head(nodes) = <<>> /\ Len(nodes) > 1 /\ TakeFrom(Tail(nodes)) /\ used' = used
    BY <1>4 DEF GetNext, first
  <2>2. PICK ns : ns = Tail(nodes)
    OBVIOUS
  <2>3. /\ Pages(ns) /\ Distinct(ns) /\ Head(ns) # <<>>
        /\ \A v : Has(ns, v) <=> Has(nodes, v)
    BY <1>2, <2>1, <2>2, PageDropped
  <2>4. \A v \in Nat : Has(ns, v) <=> Has(nodes, v) \/ (used <= v /\ v < used')
    BY <1>1, <2>1, <2>3
  <2>5. used' \in 0 .. MaxUsed /\ used <= used'
    BY <1>1, <2>1
  <2>6. TakeFrom(ns)
    BY <2>1, <2>2
  <2> QED
    BY <2>3, <2>4, <2>5, <2>6, TakeFromTakes
<1>5. CASE GetNew
  <2>1. /\ Head(nodes) = <<>> /\ Len(nodes) = 1 /\ used + Capacity <= MaxUsed
        /\ TakeFrom(<<Page(used)>>) /\ used' = used + Capacity
    BY <1>5 DEF GetNew, first
  <2>2. PICK ns : ns = <<Page(used)>>
    OBVIOUS
  <2>3. /\ Pages(ns) /\ Distinct(ns) /\ Head(ns) = Page(used) /\ Page(used) # <<>>
        /\ \A v \in Nat : Has(ns, v) <=> used <= v /\ v < used + Capacity
    BY <1>1, <2>2, FreshPage
  <2>4. \A v \in Nat : ~Has(nodes, v)
    <3>1. nodes[1] = <<>> /\ Len(nodes) = 1
      BY <1>2, <2>1 DEF Pages
    <3> QED
      BY <3>1 DEF Has
  <2>5. \A v \in Nat : Has(ns, v) <=> Has(nodes, v) \/ (used <= v /\ v < used')
    BY <2>1, <2>3, <2>4
  <2>6. used' \in 0 .. MaxUsed /\ used <= used'
    BY <1>1, <2>1
  <2>7. TakeFrom(ns) /\ Head(ns) # <<>>
    BY <2>1, <2>2, <2>3
  <2> QED
    BY <2>3, <2>5, <2>6, <2>7, TakeFromTakes
<1>6. ASSUME NEW x \in Index, out[x] > 0, PutNew(x) \/ PutFails(x) \/ PutFirst(x)
      PROVE  /\ Pages(nodes') /\ Distinct(nodes')
             /\ \E y \in Index : Returned(y) \/ Dropped(y)
  <2>1. x \in Nat /\ out[x] \in Nat
    BY <1>1 DEF Index, IInv
  <2>2. Gone(x) = 1 /\ x < used /\ ~Has(nodes, x)
    <3>1. Gone(x) # 0
      BY <1>6, <2>1 DEF Gone
    <3> QED
      BY <3>1 DEF IInv
  <2>3. out[x] = 1 /\ x \notin lost
    BY <1>6, <2>1, <2>2 DEF Gone
  <2>4. out' = [out EXCEPT ![x] = @ - 1]
    BY <1>6 DEF PutNew, PutFails, PutFirst
  <2>5. CASE PutNew(x)
    <3>1. nodes' = <<<<x>>>> \o nodes /\ Len(Head(nodes)) = Capacity /\ used' = used /\ lost' = lost
      BY <2>5 DEF PutNew, Full, first
    <3>2. /\ Pages(nodes') /\ Distinct(nodes')
          /\ \A v : Has(nodes', v) <=> Has(nodes, v) \/ v = x
      BY <1>2, <2>1, <2>2, <3>1, PagePushed
    <3> QED
      BY <2>2, <2>3, <2>4, <3>1, <3>2 DEF Returned
  <2>6. CASE PutFirst(x)
    <3>1. /\ nodes' = [nodes EXCEPT ![1] = Append(@, x)] /\ Len(Head(nodes)) # Capacity
          /\ used' = used /\ lost' = lost
      BY <2>6 DEF PutFirst, Full, first
    <3>2. nodes' = Extended(nodes, x)
      BY <3>1 DEF Extended
    <3>3. /\ Pages(nodes') /\ Distinct(nodes')
          /\ \A v : Has(nodes', v) <=> Has(nodes, v) \/ v = x
      BY <1>2, <2>1, <2>2, <3>1, <3>2, PageAppended
    <3> QED
      BY <2>2, <2>3, <2>4, <3>1, <3>3 DEF Returned
  <2>7. CASE PutFails(x)
    <3>1. used' = used /\ nodes' = nodes /\ lost' = lost \cup {x}
      BY <2>7 DEF PutFails
    <3> QED
      BY <1>2, <2>2, <2>3, <2>4, <3>1 DEF Dropped
  <2> QED
    BY <1>6, <2>5, <2>6, <2>7
<1> QED
  BY <1>3, <1>4, <1>5, <1>6 DEF SetNext

\* Every step keeps the invariant.
LEMMA NextIInv == IInv /\ [SetNext]_setVars => IInv'
<1> SUFFICES ASSUME IInv, [SetNext]_setVars PROVE IInv'
  OBVIOUS
<1>1. CASE SetNext
  <2>1. Pages(nodes') /\ Distinct(nodes')
    BY <1>1, Steps
  <2>2. PICK x \in Index : Taken(x) \/ Returned(x) \/ Dropped(x)
    BY <1>1, Steps
  <2>3. /\ MaxUsed \in Nat /\ used \in Nat /\ x \in Nat /\ out \in [Index -> Nat]
        /\ lost \subseteq Index /\ \A v \in Index : v \in Nat /\ out[v] \in Nat
    BY CapacityAssumption DEF IInv, Index
  <2>4. used' \in 0 .. MaxUsed
    BY <2>2 DEF Taken, Returned, Dropped, IInv
  <2>5. out' \in [Index -> Nat] /\ lost' \subseteq Index
    <3>1. CASE Taken(x)
      BY <2>3, <3>1 DEF Taken
    <3>2. CASE Returned(x) \/ Dropped(x)
      <4>1. out[x] - 1 \in Nat
        BY <3>2 DEF Returned, Dropped
      <4> QED
        BY <2>3, <3>2, <4>1 DEF Returned, Dropped
    <3> QED
      BY <2>2, <3>1, <3>2
  <2>6. ASSUME NEW v \in Nat, Has(nodes', v) PROVE v < used'
    <3>1. Has(nodes, v) => v < used
      BY DEF IInv
    <3> QED
      BY <2>2, <2>3, <2>4, <2>6, <3>1 DEF Taken, Returned, Dropped
  <2>7. ASSUME NEW v \in Index
        PROVE  out'[v] + (IF v \in lost' THEN 1 ELSE 0)
                 = IF v < used' /\ ~Has(nodes', v) THEN 1 ELSE 0
    <3>1. /\ out[v] + (IF v \in lost THEN 1 ELSE 0) = IF v < used /\ ~Has(nodes, v) THEN 1 ELSE 0
          /\ Has(nodes, v) => v < used
      BY <2>3 DEF IInv, Gone
    <3>2. CASE Taken(x)
      BY <2>3, <2>4, <3>1, <3>2 DEF Taken
    <3>3. CASE Returned(x)
      BY <2>3, <3>1, <3>3 DEF Returned
    <3>4. CASE Dropped(x)
      BY <2>3, <3>1, <3>4 DEF Dropped
    <3> QED
      BY <2>2, <3>2, <3>3, <3>4
  <2>8. \A v \in Index : Gone(v)' = IF v < used' /\ ~Has(nodes', v) THEN 1 ELSE 0
    BY <2>7 DEF Gone
  <2> QED
    BY <2>1, <2>4, <2>5, <2>6, <2>8 DEF IInv, Has, Pages, Distinct
<1>2. CASE UNCHANGED setVars
  BY <1>2 DEF setVars, IInv, Has, Pages, Distinct, Gone
<1> QED
  BY <1>1, <1>2

\* The index set keeps its inductive invariant.
THEOREM Invariance == SetSpec => []IInv
BY InitIInv, NextIInv, PTL DEF SetSpec

-----------------------------------------------------------------------------
(* The properties                                                          *)

\* An entry is in one place of the pages or in none.
LEMMA SlotsCounted ==
  ASSUME IInv, NEW v \in Index
  PROVE  Cardinality(Slots(v)) = IF Has(nodes, v) THEN 1 ELSE 0
<1>1. /\ DOMAIN nodes = 1 .. Len(nodes) /\ Capacity \in Nat
      /\ \A k \in 1 .. Len(nodes) : Len(nodes[k]) \in Nat /\ Len(nodes[k]) <= Capacity
  BY CapacityAssumption DEF IInv, Pages
<1>2. CASE ~Has(nodes, v)
  <2>1. Slots(v) = {}
    BY <1>1, <1>2 DEF Slots, Has
  <2> QED
    BY <1>2, <2>1, FS_EmptySet
<1>3. CASE Has(nodes, v)
  <2>0. PICK k \in 1 .. Len(nodes) : \E j \in 1 .. Len(nodes[k]) : nodes[k][j] = v
    BY <1>3 DEF Has
  <2>1. PICK j \in 1 .. Len(nodes[k]) : nodes[k][j] = v
    BY <2>0
  <2>2. <<k, j>> \in Slots(v)
    BY <1>1, <2>1 DEF Slots
  <2>3. ASSUME NEW s \in Slots(v) PROVE s = <<k, j>>
    <3>1. /\ s = <<s[1], s[2]>> /\ s[1] \in 1 .. Len(nodes)
          /\ s[2] \in 1 .. Len(nodes[s[1]]) /\ nodes[s[1]][s[2]] = v
      BY <1>1, <2>3 DEF Slots
    <3>2. s[1] = k /\ s[2] = j
      BY <2>1, <3>1 DEF IInv, Distinct
    <3> QED
      BY <3>1, <3>2
  <2>4. Slots(v) = {<<k, j>>}
    BY <2>2, <2>3
  <2> QED
    BY <1>3, <2>4, FS_Singleton
<1> QED
  BY <1>2, <1>3

\* Every index ever made by _allocate_next_page is in one place: a page, a
\* caller of anidxset_get, or lost by an anidxset_put that could not
\* allocate; and all pages but the first are full.
THEOREM IndexesInOnePlace == SetSpec => []Partition
<1>1. IInv => Partition
  <2> SUFFICES ASSUME IInv PROVE Partition
    OBVIOUS
  <2>1. SetTypeOK
    BY DEF IInv, Pages, SetTypeOK
  <2>2. ASSUME NEW v \in Index
        PROVE  Cardinality(Slots(v)) + Gone(v) = IF v < used THEN 1 ELSE 0
    <3>1. v \in Nat
      BY CapacityAssumption DEF Index
    <3>2. Has(nodes, v) => v < used
      BY <3>1 DEF IInv
    <3>3. Gone(v) = IF v < used /\ ~Has(nodes, v) THEN 1 ELSE 0
      BY DEF IInv
    <3> QED
      BY <3>2, <3>3, SlotsCounted
  <2>3. \A k \in 2 .. Len(nodes) : Len(nodes[k]) = Capacity
    BY DEF IInv, Pages
  <2> QED
    BY <2>1, <2>2, <2>3 DEF Partition
<1> QED
  BY <1>1, Invariance, PTL

\* anidxset_get never returns a number that a caller still has: the index
\* set is a pool in the sense of IndexPool.
THEOREM Refinement == SetSpec => IsIndexPool
<1> DEFINE users == [v \in Index |-> Gone(v)]
<1>1. SetInit => Pool!Init
  <2> SUFFICES ASSUME SetInit PROVE users = [i \in Index |-> 0]
    BY DEF Pool!Init
  <2>1. \A v \in Index : Gone(v) = 0
    BY DEF SetInit, Gone
  <2> QED
    BY <2>1
<1>2. IInv /\ [SetNext]_setVars => [Pool!Next]_users
  <2> SUFFICES ASSUME IInv, [SetNext]_setVars PROVE [Pool!Next]_users
    OBVIOUS
  <2>1. CASE SetNext
    <3>1. PICK x \in Index : Taken(x) \/ Returned(x) \/ Dropped(x)
      BY <2>1, Steps
    <3>2. out \in [Index -> Nat] /\ \A v \in Index : out[v] \in Nat
      BY DEF IInv
    <3>3. CASE Taken(x)
      <4>1. Gone(x) = 0 /\ Gone(x)' = 1
        BY <3>2, <3>3 DEF Taken, Gone
      <4>2. \A v \in Index : v # x => Gone(v)' = Gone(v)
        BY <3>2, <3>3 DEF Taken, Gone
      <4>3. users[x] = 0 /\ users' = [users EXCEPT ![x] = 1]
        BY <4>1, <4>2
      <4>4. Pool!Get(x)
        BY <4>3 DEF Pool!Get
      <4> QED
        BY <4>4 DEF Pool!Next
    <3>4. CASE Returned(x)
      <4>1. Gone(x) = 1 /\ Gone(x)' = 0
        BY <3>2, <3>4 DEF Returned, Gone
      <4>2. \A v \in Index : v # x => Gone(v)' = Gone(v)
        BY <3>2, <3>4 DEF Returned, Gone
      <4>3. users[x] = 1 /\ users' = [users EXCEPT ![x] = 0]
        BY <4>1, <4>2
      <4>4. Pool!Put(x)
        BY <4>3 DEF Pool!Put
      <4> QED
        BY <4>4 DEF Pool!Next
    <3>5. CASE Dropped(x)
      <4>1. \A v \in Index : Gone(v)' = Gone(v)
        BY <3>2, <3>5 DEF Dropped, Gone
      <4> QED
        BY <4>1
    <3> QED
      BY <3>1, <3>3, <3>4, <3>5
  <2>2. CASE UNCHANGED setVars
    BY <2>2 DEF setVars, Gone
  <2> QED
    BY <2>1, <2>2
<1> QED
  BY <1>1, <1>2, Invariance, PTL DEF SetSpec, IsIndexPool, Pool!Spec
=============================================================================
