--------------------------- MODULE SocketsProofs ---------------------------
(***************************************************************************)
(* The proofs about Sockets, for any number of tasks, sockets, threads and *)
(* asynchronous messages: the inductive invariant IInv of SocketsInv, the  *)
(* properties that follow from it, and the refinement of RefObject by the  *)
(* descriptors.  First come facts about descriptors, lists and cardinals,  *)
(* then one lemma per action and part of IInv that the action can disturb, *)
(* then the lemmas that put the parts of one action together.              *)
(***************************************************************************)
EXTENDS SocketsInv, FiniteSetTheorems, SequenceTheorems, TLAPS

-----------------------------------------------------------------------------
(* The two ends of a socket, and the kinds of activities.                  *)

\* A descriptor is one of the two ends of its socket.
LEMMA TwoEnds ==
  ASSUME NEW d \in Desc
  PROVE  /\ d[1] \in Sock /\ d # NULL /\ d \in Activity
         /\ OtherEnd(d) \in Desc /\ OtherEnd(d) # d /\ OtherEnd(OtherEnd(d)) = d
         /\ OtherEnd(d)[1] = d[1] /\ OtherEnd(d) # NULL
         /\ \A e \in Desc : e[1] = d[1] => e = d \/ e = OtherEnd(d)
         /\ d = Connector(d[1]) <=> OtherEnd(d) = Receiver(d[1])
         /\ d = Receiver(d[1]) <=> OtherEnd(d) = Connector(d[1])
         /\ d # Connector(d[1]) => d = Receiver(d[1])
         /\ Connector(d[1]) # Receiver(d[1])
<1>1. PICK s \in Sock, k \in {"connector", "receiver"} : d = <<s, k>>
  BY DEF Desc
<1>2. d[1] = s /\ d[2] = k
  BY <1>1
<1>3. ASSUME NEW e \in Desc PROVE e = <<e[1], e[2]>> /\ e[2] \in {"connector", "receiver"}
  BY DEF Desc
<1>4. d # NULL /\ d \in Activity /\ NULL \notin Desc
  BY ActivityAssumption DEF Activity
<1>5. CASE k = "connector"
  <2>1. OtherEnd(d) = <<s, "receiver">> /\ <<s, "receiver">> \in Desc
    BY <1>1, <1>2, <1>5 DEF OtherEnd, Connector, Receiver, Desc
  <2>2. OtherEnd(OtherEnd(d)) = <<s, "connector">>
    BY <2>1 DEF OtherEnd, Connector, Receiver
  <2> QED
    BY <1>1, <1>2, <1>3, <1>4, <1>5, <2>1, <2>2 DEF Connector, Receiver
<1>6. CASE k = "receiver"
  <2>1. OtherEnd(d) = <<s, "connector">> /\ <<s, "connector">> \in Desc
    BY <1>1, <1>2, <1>6 DEF OtherEnd, Connector, Receiver, Desc
  <2>2. OtherEnd(OtherEnd(d)) = <<s, "receiver">>
    BY <2>1 DEF OtherEnd, Connector, Receiver
  <2> QED
    BY <1>1, <1>2, <1>3, <1>4, <1>6, <2>1, <2>2 DEF Connector, Receiver
<1> QED
  BY <1>5, <1>6

\* The ends of a given socket
LEMMA EndsOf ==
  ASSUME NEW s \in Sock
  PROVE  /\ Connector(s) \in Desc /\ Receiver(s) \in Desc /\ Connector(s) # Receiver(s)
         /\ Connector(s)[1] = s /\ Receiver(s)[1] = s
         /\ OtherEnd(Connector(s)) = Receiver(s) /\ OtherEnd(Receiver(s)) = Connector(s)
  BY DEF Desc, Connector, Receiver, OtherEnd

\* An activity is of one kind only.
LEMMA Kinds ==
  /\ \A a \in User : a \in Activity /\ a \notin Async /\ a \notin Desc /\ a \notin Task
  /\ \A a \in Async : a \in Activity /\ a \notin User /\ a \notin Desc /\ a \notin Task
  /\ \A a \in Desc : a \in Activity /\ a \notin User /\ a \notin Async /\ a \notin Task
  /\ \A a \in Task : a \in Activity /\ a \notin User /\ a \notin Async /\ a \notin Desc
  /\ \A a \in Activity : a \in User \/ a \in Async \/ a \in Desc \/ a \in Task
  /\ NULL \notin Desc /\ NULL \notin Task /\ NULL \notin Phase /\ NULL \notin Message
  BY ActivityAssumption DEF Activity

\* The local variables of an activity have their types.
LEMMA LocalType ==
  ASSUME Types, NEW a \in Activity
  PROVE  /\ act[a] \in Local
         /\ act[a].pc \in Phase /\ act[a].next \in Phase \cup {NULL}
         /\ act[a].own \in Desc \cup {NULL} /\ act[a].peer \in Desc \cup {NULL}
         /\ act[a].drop \in Desc \cup {NULL}
         /\ act[a].ref \in Task \cup {NULL} /\ act[a].msg \in Message \cup {NULL}
<1>1. act[a] \in Local
  BY DEF Types, Local
<1> QED
  BY <1>1 DEF Local

-----------------------------------------------------------------------------
(* The descriptor table as a sequence.                                     *)

\* anscheduler_descriptor_delete takes the descriptor out and keeps the rest.
LEMMA UnlinkedEntries ==
  ASSUME NEW s \in Seq(Desc), IsInjective(s), NEW d
  PROVE  /\ Unlinked(s, d) \in Seq(Desc) /\ IsInjective(Unlinked(s, d))
         /\ \A e : e \in ToSet(Unlinked(s, d)) <=> e \in ToSet(s) /\ e # d
<1>1. CASE ~ \E i \in DOMAIN s : s[i] = d
  <2>1. Unlinked(s, d) = s
    BY <1>1 DEF Unlinked
  <2> QED
    BY <1>1, <2>1 DEF ToSet
<1>2. CASE \E i \in DOMAIN s : s[i] = d
  <2>1. PICK i \in DOMAIN s : s[i] = d /\ Unlinked(s, d) = RemoveAt(s, i)
    BY <1>2 DEF Unlinked
  <2>2. /\ i \in 1 .. Len(s) /\ DOMAIN s = 1 .. Len(s) /\ Len(s) \in Nat
        /\ \A j, k \in 1 .. Len(s) : s[j] = s[k] => j = k
    BY DEF IsInjective
  <2> DEFINE p == SubSeq(s, 1, i - 1)
             q == SubSeq(s, i + 1, Len(s))
             r == p \o q
  <2>3. p \in Seq(Desc) /\ Len(p) = i - 1 /\ \A k \in 1 .. i - 1 : p[k] = s[k]
    BY <2>2
  <2>4. q \in Seq(Desc) /\ Len(q) = Len(s) - i /\ \A k \in 1 .. Len(s) - i : q[k] = s[k + i]
    BY <2>2
  <2>5. Unlinked(s, d) = r
    BY <2>1 DEF RemoveAt
  <2> HIDE DEF p, q
  <2>6. r \in Seq(Desc) /\ Len(r) = Len(s) - 1 /\ DOMAIN r = 1 .. Len(s) - 1
    <3>1. r \in Seq(Desc) /\ Len(r) = Len(p) + Len(q)
      BY <2>3, <2>4, ConcatProperties
    <3>2. Len(r) = Len(s) - 1
      BY <3>1, <2>2, <2>3, <2>4
    <3>3. DOMAIN r = 1 .. Len(r)
      BY <3>1, LenProperties
    <3> QED
      BY <3>1, <3>2, <3>3
  <2>7. ASSUME NEW k \in 1 .. Len(s) - 1
        PROVE  r[k] = s[IF k < i THEN k ELSE k + 1]
    <3>1. CASE k < i
      BY <3>1, <2>2, <2>3, <2>4
    <3>2. CASE k >= i
      <4>1. r[k] = q[k - (i - 1)] /\ k - (i - 1) \in 1 .. Len(s) - i
        BY <3>2, <2>2, <2>3, <2>4
      <4>2. q[k - (i - 1)] = s[k - (i - 1) + i] /\ k - (i - 1) + i = k + 1
        BY <4>1, <2>2, <2>4
      <4>3. r[k] = s[k + 1] /\ ~(k < i)
        BY <3>2, <4>1, <4>2, <2>2
      <4> QED
        BY <4>3
    <3>3. k < i \/ k >= i
      BY <2>2
    <3> QED
      BY <3>1, <3>2, <3>3
  <2> HIDE DEF r
  <2>8. IsInjective(r)
    <3> SUFFICES ASSUME NEW j \in 1 .. Len(s) - 1, NEW k \in 1 .. Len(s) - 1, r[j] = r[k]
                 PROVE  j = k
      BY <2>6 DEF IsInjective
    <3>1. PICK jj \in 1 .. Len(s) : r[j] = s[jj] /\ jj = IF j < i THEN j ELSE j + 1
      BY <2>2, <2>7
    <3>2. PICK kk \in 1 .. Len(s) : r[k] = s[kk] /\ kk = IF k < i THEN k ELSE k + 1
      BY <2>2, <2>7
    <3>3. jj = kk
      BY <3>1, <3>2, <2>2
    <3> QED
      BY <3>1, <3>2, <3>3, <2>2
  <2>9. ASSUME NEW e PROVE e \in ToSet(r) <=> e \in ToSet(s) /\ e # d
    <3>1. ASSUME e \in ToSet(r) PROVE e \in ToSet(s) /\ e # d
      <4>1. PICK k \in 1 .. Len(s) - 1 : r[k] = e
        BY <3>1, <2>6 DEF ToSet
      <4>2. PICK kk \in 1 .. Len(s) : e = s[kk] /\ kk = IF k < i THEN k ELSE k + 1
        BY <4>1, <2>2, <2>7
      <4>3. kk # i
        BY <4>1, <4>2, <2>2
      <4> QED
        BY <4>2, <4>3, <2>1, <2>2 DEF ToSet
    <3>2. ASSUME e \in ToSet(s), e # d PROVE e \in ToSet(r)
      <4>1. PICK j \in 1 .. Len(s) : s[j] = e
        BY <3>2, <2>2 DEF ToSet
      <4>2. j # i
        BY <3>2, <4>1, <2>1
      <4>3. PICK k \in 1 .. Len(s) - 1 : j = IF k < i THEN k ELSE k + 1
        <5>1. CASE j < i
          <6>1. j \in 1 .. Len(s) - 1
            BY <5>1, <2>2
          <6> QED
            BY <5>1, <6>1
        <5>2. CASE j > i
          <6>1. j - 1 \in 1 .. Len(s) - 1 /\ ~(j - 1 < i) /\ j = (j - 1) + 1
            BY <5>2, <2>2
          <6> QED
            BY <6>1
        <5> QED
          BY <4>2, <5>1, <5>2, <2>2
      <4>4. r[k] = e
        BY <4>1, <4>3, <2>7
      <4> QED
        BY <4>4, <2>6 DEF ToSet
    <3> QED
      BY <3>1, <3>2
  <2> QED
    BY <2>5, <2>6, <2>8, <2>9
<1> QED
  BY <1>1, <1>2

\* anscheduler_descriptor_set puts a new descriptor in front.
LEMMA PrependedEntries ==
  ASSUME NEW s \in Seq(Desc), IsInjective(s), NEW d \in Desc, d \notin ToSet(s)
  PROVE  /\ <<d>> \o s \in Seq(Desc) /\ IsInjective(<<d>> \o s)
         /\ \A e : e \in ToSet(<<d>> \o s) <=> e \in ToSet(s) \/ e = d
<1> DEFINE r == <<d>> \o s
<1>1. /\ DOMAIN s = 1 .. Len(s) /\ Len(s) \in Nat
      /\ \A j, k \in 1 .. Len(s) : s[j] = s[k] => j = k
  BY DEF IsInjective
<1>2. /\ r \in Seq(Desc) /\ DOMAIN r = 1 .. Len(s) + 1 /\ r[1] = d
      /\ \A k \in 1 .. Len(s) : r[k + 1] = s[k]
  BY <1>1
<1> HIDE DEF r
<1>3. \A k \in 1 .. Len(s) : s[k] # d
  BY <1>1 DEF ToSet
<1>4. \A k \in DOMAIN r : k = 1 \/ \E j \in 1 .. Len(s) : k = j + 1
  <2> TAKE k \in DOMAIN r
  <2>1. k = 1 \/ (k - 1 \in 1 .. Len(s) /\ k = (k - 1) + 1)
    BY <1>1, <1>2
  <2> QED
    BY <2>1
<1>5. IsInjective(r)
  <2> SUFFICES ASSUME NEW j \in DOMAIN r, NEW k \in DOMAIN r, r[j] = r[k]
               PROVE  j = k
    BY DEF IsInjective
  <2>1. CASE j = 1
    BY <2>1, <1>2, <1>3, <1>4
  <2>2. CASE k = 1
    BY <2>2, <1>2, <1>3, <1>4
  <2>3. CASE j # 1 /\ k # 1
    <3>1. PICK jj \in 1 .. Len(s) : j = jj + 1
      BY <2>3, <1>4
    <3>2. PICK kk \in 1 .. Len(s) : k = kk + 1
      BY <2>3, <1>4
    <3>3. s[jj] = s[kk]
      BY <3>1, <3>2, <1>2
    <3> QED
      BY <3>1, <3>2, <3>3, <1>1
  <2> QED
    BY <2>1, <2>2, <2>3
<1>6. ASSUME NEW e PROVE e \in ToSet(r) <=> e \in ToSet(s) \/ e = d
  <2>1. ASSUME e \in ToSet(r) PROVE e \in ToSet(s) \/ e = d
    <3>1. PICK k \in DOMAIN r : r[k] = e
      BY <2>1 DEF ToSet
    <3>2. CASE k = 1
      BY <3>1, <3>2, <1>2
    <3>3. CASE \E j \in 1 .. Len(s) : k = j + 1
      <4>1. PICK j \in 1 .. Len(s) : k = j + 1
        BY <3>3
      <4>2. s[j] = e
        BY <3>1, <4>1, <1>2
      <4> QED
        BY <4>2, <1>1 DEF ToSet
    <3> QED
      BY <3>2, <3>3, <1>4
  <2>2. ASSUME e \in ToSet(s) PROVE e \in ToSet(r)
    <3>1. PICK j \in 1 .. Len(s) : s[j] = e
      BY <2>2, <1>1 DEF ToSet
    <3>2. j + 1 \in DOMAIN r /\ r[j + 1] = e
      BY <3>1, <1>1, <1>2
    <3> QED
      BY <3>2 DEF ToSet
  <2>3. d \in ToSet(r)
    <3>1. 1 \in DOMAIN r /\ r[1] = d
      BY <1>1, <1>2
    <3> QED
      BY <3>1 DEF ToSet
  <2> QED
    BY <2>1, <2>2, <2>3
<1> QED
  BY <1>2, <1>5, <1>6 DEF r

-----------------------------------------------------------------------------
(* Counting references.                                                    *)

\* Sets of activities that differ in one
LEMMA CountMoves ==
  ASSUME NEW X, X \subseteq Activity, NEW Y, Y \subseteq Activity, NEW a \in Activity,
         \A b \in Activity : b # a => (b \in X <=> b \in Y)
  PROVE  /\ Cardinality(X) \in Nat /\ Cardinality(Y) \in Nat
         /\ Cardinality(Y) = Cardinality(X) - (IF a \in X THEN 1 ELSE 0)
                                            + (IF a \in Y THEN 1 ELSE 0)
<1>1. IsFiniteSet(X) /\ IsFiniteSet(Y) /\ Cardinality(X) \in Nat /\ Cardinality(Y) \in Nat
  BY ActivityAssumption, FS_Subset, FS_CardinalityType
<1>2. CASE a \in X /\ a \notin Y
  <2>1. Y = X \ {a}
    BY <1>2
  <2>2. Cardinality(Y) = Cardinality(X) - 1
    BY <1>1, <1>2, <2>1, FS_RemoveElement
  <2> QED
    BY <1>1, <1>2, <2>2
<1>3. CASE a \notin X /\ a \in Y
  <2>1. Y = X \cup {a}
    BY <1>3
  <2>2. Cardinality(Y) = Cardinality(X) + 1
    BY <1>1, <1>3, <2>1, FS_AddElement
  <2> QED
    BY <1>1, <1>3, <2>2
<1>4. CASE a \in X <=> a \in Y
  <2>1. Y = X
    BY <1>4
  <2> QED
    BY <1>1, <1>4, <2>1
<1> QED
  BY <1>2, <1>3, <1>4

\* When one activity moves, the references change by what it has.
LEMMA HeldMoves ==
  ASSUME NEW a \in Activity, NEW d,
         \A b \in Activity : b # a => /\ OwnRef(b, d)' <=> OwnRef(b, d)
                                      /\ PeerRef(b, d)' <=> PeerRef(b, d)
                                      /\ DropRef(b, d)' <=> DropRef(b, d)
  PROVE  HeldRefs(d)' = HeldRefs(d) - Weight(a, act[a], d) + Weight(a, act'[a], d)
<1> DEFINE O == {b \in Activity : OwnRef(b, d)}
           P == {b \in Activity : PeerRef(b, d)}
           D == {b \in Activity : DropRef(b, d)}
<1>1. /\ Cardinality(O) \in Nat /\ Cardinality(O)' \in Nat
      /\ Cardinality(O)' = Cardinality(O) - (IF a \in O THEN 1 ELSE 0) + (IF a \in O' THEN 1 ELSE 0)
  BY CountMoves
<1>2. /\ Cardinality(P) \in Nat /\ Cardinality(P)' \in Nat
      /\ Cardinality(P)' = Cardinality(P) - (IF a \in P THEN 1 ELSE 0) + (IF a \in P' THEN 1 ELSE 0)
  BY CountMoves
<1>3. /\ Cardinality(D) \in Nat /\ Cardinality(D)' \in Nat
      /\ Cardinality(D)' = Cardinality(D) - (IF a \in D THEN 1 ELSE 0) + (IF a \in D' THEN 1 ELSE 0)
  BY CountMoves
<1>4. /\ a \in O <=> act[a].own = d /\ (a \in Task => act[a].pc = "close")
      /\ a \in P <=> act[a].peer = d /\ act[a].pc # "scan" /\ act[a].next # "scan"
      /\ a \in D <=> act[a].drop = d /\ act[a].pc = "deref"
  BY DEF OwnRef, PeerRef, DropRef, At
<1>5. /\ a \in O' <=> act'[a].own = d /\ (a \in Task => act'[a].pc = "close")
      /\ a \in P' <=> act'[a].peer = d /\ act'[a].pc # "scan" /\ act'[a].next # "scan"
      /\ a \in D' <=> act'[a].drop = d /\ act'[a].pc = "deref"
  BY DEF OwnRef, PeerRef, DropRef, At
<1>6. HeldRefs(d) = Cardinality(O) + Cardinality(P) + Cardinality(D)
  BY DEF HeldRefs
<1>7. HeldRefs(d)' = Cardinality(O)' + Cardinality(P)' + Cardinality(D)'
  BY DEF HeldRefs
<1> HIDE DEF O, P, D
<1>8. Weight(a, act[a], d) = (IF a \in O THEN 1 ELSE 0) + (IF a \in P THEN 1 ELSE 0)
                                + (IF a \in D THEN 1 ELSE 0)
  BY <1>4 DEF Weight
<1>9. Weight(a, act'[a], d) = (IF a \in O' THEN 1 ELSE 0) + (IF a \in P' THEN 1 ELSE 0)
                                + (IF a \in D' THEN 1 ELSE 0)
  BY <1>5 DEF Weight
<1> QED
  BY <1>1, <1>2, <1>3, <1>6, <1>7, <1>8, <1>9

\* A descriptor has no references exactly when nobody has one.
LEMMA HeldZero ==
  ASSUME NEW d
  PROVE  /\ HeldRefs(d) \in Nat
         /\ HeldRefs(d) = 0 => \A a \in Activity : Weight(a, act[a], d) = 0
         /\ (\A a \in Activity : Weight(a, act[a], d) = 0) => HeldRefs(d) = 0
<1> DEFINE O == {b \in Activity : OwnRef(b, d)}
           P == {b \in Activity : PeerRef(b, d)}
           D == {b \in Activity : DropRef(b, d)}
<1>1. /\ Cardinality(O) \in Nat /\ (Cardinality(O) = 0 <=> O = {})
      /\ Cardinality(P) \in Nat /\ (Cardinality(P) = 0 <=> P = {})
      /\ Cardinality(D) \in Nat /\ (Cardinality(D) = 0 <=> D = {})
  <2>1. IsFiniteSet(O) /\ IsFiniteSet(P) /\ IsFiniteSet(D)
    BY ActivityAssumption, FS_Subset
  <2> QED
    BY <2>1, FS_CardinalityType, FS_EmptySet
<1>2. HeldRefs(d) = Cardinality(O) + Cardinality(P) + Cardinality(D)
  BY DEF HeldRefs
<1>3. \A a \in Activity : Weight(a, act[a], d) = 0 <=> a \notin O /\ a \notin P /\ a \notin D
  BY DEF OwnRef, PeerRef, DropRef, At, Weight
<1>4. (\A a \in Activity : Weight(a, act[a], d) = 0) <=> O = {} /\ P = {} /\ D = {}
  BY <1>3
<1> HIDE DEF O, P, D
<1>5. HeldRefs(d) \in Nat /\ (HeldRefs(d) = 0 <=> O = {} /\ P = {} /\ D = {})
  BY <1>1, <1>2
<1> QED
  BY <1>4, <1>5

-----------------------------------------------------------------------------
(* Steps of one activity.                                                  *)

\* Activity a goes on with the local variables l.
Moves(a, l) == l \in Local /\ act' = [act EXCEPT ![a] = l]

\* All others stay where they are.
LEMMA OthersStay ==
  ASSUME Types, NEW a \in Activity, NEW l, Moves(a, l)
  PROVE  /\ act'[a] = l
         /\ \A b \in Activity : b # a => act'[b] = act[b]
         /\ act' \in [Activity -> Local]
  BY DEF Moves, Types, Local

\* The references after a step of one activity
LEMMA WeightMoves ==
  ASSUME Types, NEW a \in Activity, NEW l, Moves(a, l), NEW d
  PROVE  HeldRefs(d)' = HeldRefs(d) - Weight(a, act[a], d) + Weight(a, l, d)
<1>1. /\ act'[a] = l
      /\ \A b \in Activity : b # a => act'[b] = act[b]
  BY OthersStay
<1>2. \A b \in Activity : b # a => /\ OwnRef(b, d)' <=> OwnRef(b, d)
                                   /\ PeerRef(b, d)' <=> PeerRef(b, d)
                                   /\ DropRef(b, d)' <=> DropRef(b, d)
  BY <1>1 DEF OwnRef, PeerRef, DropRef, At
<1> QED
  BY <1>1, <1>2, HeldMoves

\* Whoever has references to d shows in the invariant.
LEMMA Referenced ==
  ASSUME IInv, NEW a \in Activity, NEW d \in Desc, Weight(a, act[a], d) # 0
  PROVE  /\ d \in ends /\ d \in descs /\ refCount[d] > 0 /\ At(d, "idle")
         /\ d[1] \in socks /\ d[1] \notin lost /\ d[1] \in Sock
         /\ \A b \in Activity : At(b, "delete") => act[b].drop # d
<1>1. OwnRef(a, d) \/ PeerRef(a, d) \/ act[a].drop = d
  BY DEF Weight, OwnRef, PeerRef, At
<1>2. d \in ends /\ d \in descs /\ d[1] \in socks /\ d[1] \notin lost
  BY <1>1 DEF IInv, Refs, Life
<1>3. refCount[d] = HeldRefs(d) /\ HeldRefs(d) # 0 /\ HeldRefs(d) \in Nat
  BY <1>2, HeldZero DEF IInv, Refs, RefsExact
<1>4. At(d, "idle") /\ \A b \in Activity : At(b, "delete") => act[b].drop # d
  BY <1>2, <1>3 DEF IInv, Refs
<1> QED
  BY <1>2, <1>3, <1>4, TwoEnds

\* Nobody has a reference to a descriptor that is not an end of a socket.
LEMMA Unreferenced ==
  ASSUME IInv, NEW d \in Desc, d \notin ends
  PROVE  /\ HeldRefs(d) = 0
         /\ \A a \in Activity : Weight(a, act[a], d) = 0 /\ act[a].drop # d
<1>1. \A a \in Activity : Weight(a, act[a], d) = 0
  BY Referenced DEF Weight
<1>2. HeldRefs(d) = 0
  BY <1>1, HeldZero
<1>3. \A a \in Activity : act[a].drop # d
  BY DEF IInv, Refs
<1> QED
  BY <1>1, <1>2, <1>3

-----------------------------------------------------------------------------
(* What one activity's step keeps of each part of the invariant.           *)

\* References are taken on open ends and given back one by one.
LEMMA RefsMove ==
  ASSUME IInv, NEW a \in Activity, NEW l, Moves(a, l),
         refCount' \in [Desc -> Nat], ends' = ends, descs' = descs, isClosed \subseteq isClosed',
         l.pc # "delete", l.drop # NULL => l.pc = "deref",
         \A d \in Desc : refCount'[d] = refCount[d] - Weight(a, act[a], d) + Weight(a, l, d),
         \A d \in Desc : Weight(a, l, d) > Weight(a, act[a], d) => d \in ends /\ d \notin isClosed,
         a \in Desc /\ act[a].pc = "idle" => l.pc = "idle"
  PROVE  Refs'
<1>1. /\ act'[a] = l
      /\ \A b \in Activity : b # a => act'[b] = act[b]
  BY OthersStay DEF IInv
<1>2. \A d \in Desc : /\ Weight(a, l, d) \in Nat /\ Weight(a, act[a], d) \in Nat
                      /\ refCount[d] \in Nat /\ HeldRefs(d) \in Nat
                      /\ HeldRefs(d)' = HeldRefs(d) - Weight(a, act[a], d) + Weight(a, l, d)
  <2> TAKE d \in Desc
  <2>1. Weight(a, l, d) \in Nat /\ Weight(a, act[a], d) \in Nat
    BY DEF Weight
  <2>2. refCount[d] \in Nat
    BY DEF IInv, Types
  <2>3. HeldRefs(d) \in Nat
    BY HeldZero
  <2>4. HeldRefs(d)' = HeldRefs(d) - Weight(a, act[a], d) + Weight(a, l, d)
    BY WeightMoves DEF IInv
  <2> QED
    BY <2>1, <2>2, <2>3, <2>4
<1>3. descs \subseteq Desc /\ isClosed \subseteq Desc /\ ends \subseteq Desc
  BY DEF IInv, Types
<1>4. RefsExact'
  <2> SUFFICES ASSUME NEW d \in descs PROVE refCount'[d] = HeldRefs(d)'
    BY DEF RefsExact
  <2>1. refCount[d] = HeldRefs(d)
    BY DEF IInv, Refs, RefsExact
  <2> QED
    BY <1>2, <1>3, <2>1
<1>5. ASSUME NEW b \in Activity, NEW d \in Desc,
             (OwnRef(b, d) \/ PeerRef(b, d) \/ act[b].drop = d)'
      PROVE  d \in ends
  <2>1. CASE b # a
    BY <1>1, <1>5, <2>1 DEF IInv, Refs, OwnRef, PeerRef, At
  <2>2. CASE b = a
    <3>1. Weight(a, l, d) > 0
      BY <1>1, <1>5, <2>2, Kinds DEF OwnRef, PeerRef, At, Weight
    <3>2. CASE Weight(a, act[a], d) = 0
      BY <3>1, <3>2
    <3>3. CASE Weight(a, act[a], d) # 0
      BY <3>3, Referenced
    <3> QED
      BY <3>2, <3>3
  <2> QED
    BY <2>1, <2>2
<1>6. ASSUME NEW d \in Desc, d \in isClosed, refCount[d] = 0, d \in descs
      PROVE  refCount'[d] = 0
  <2>1. HeldRefs(d) = 0
    BY <1>6 DEF IInv, Refs, RefsExact
  <2>2. Weight(a, act[a], d) = 0
    BY <2>1, HeldZero
  <2> QED
    BY <1>2, <1>6, <2>2
<1>7. ASSUME NEW d \in descs, ~At(d, "idle")'
      PROVE  d \in isClosed' /\ refCount'[d] = 0
  <2>1. d \in Desc /\ d \in Activity
    BY <1>3, Kinds
  <2>2. ~At(d, "idle")
    BY <1>1, <1>7, <2>1 DEF At
  <2> QED
    BY <1>6, <2>1, <2>2 DEF IInv, Refs
<1>8. ASSUME NEW b \in Activity, At(b, "delete")'
      PROVE  /\ b # a /\ act'[b] = act[b] /\ At(b, "delete")
             /\ act[b].drop \in isClosed' /\ refCount'[act[b].drop] = 0 /\ At(act[b].drop, "idle")'
  <2>1. b # a /\ act'[b] = act[b] /\ At(b, "delete")
    BY <1>1, <1>8 DEF At
  <2>2. act[b].drop \in isClosed /\ refCount[act[b].drop] = 0 /\ At(act[b].drop, "idle")
    BY <2>1 DEF IInv, Refs
  <2>3. act[b].drop \in Desc /\ act[b].drop \in Activity
    BY <1>3, <2>2, Kinds
  <2>4. act[b].drop \in descs
    BY <2>3 DEF IInv, Refs, Life
  <2>5. At(act[b].drop, "idle")'
    <3>1. PICK d \in Desc : d = act[b].drop
      BY <2>3
    <3>2. act'[d].pc = "idle"
      BY <1>1, <2>2, <2>3, <3>1 DEF At
    <3> QED
      BY <2>1, <3>1, <3>2 DEF At
  <2> QED
    BY <1>6, <2>1, <2>2, <2>3, <2>4, <2>5
<1>9. \A b \in Activity : At(b, "delete")' =>
        (act[b].drop \in isClosed /\ refCount[act[b].drop] = 0 /\ At(act[b].drop, "idle"))'
  BY <1>8
<1>10. \A b, c \in Activity : (At(b, "delete") /\ At(c, "delete") /\ act[b].drop = act[c].drop)' => b = c
  BY <1>8 DEF IInv, Refs
<1> QED
  BY <1>4, <1>5, <1>7, <1>9, <1>10 DEF Refs

\* The life of a descriptor depends on how far its hangup is.
LEMMA LifeKept ==
  ASSUME IInv, UNCHANGED <<socks, ends, hasBeenConnected, lost, descs>>,
         \A d \in Desc : /\ act'[d].pc \in {"free", "freeboth"} <=> act[d].pc \in {"free", "freeboth"}
                         /\ Frees(d)' <=> Frees(d)
                         /\ act'[d].pc # "idle" /\ act[d].pc = "idle" => d \in ends
  PROVE  Life'
<1>1. \A d \in Desc : act'[d].pc \notin {"idle", "free", "freeboth", "freesock"} =>
                        act[d].pc \notin {"idle", "free", "freeboth", "freesock"} \/ d \in ends
  BY DEF Frees
<1>2. \A d \in Desc : OtherEnd(d) \in Desc
  BY TwoEnds
<1>3. ends \subseteq Desc
  BY DEF IInv, Types
<1>4. (\A d \in ends : d \in descs /\ d[1] \in socks \ lost)'
  BY DEF IInv, Life
<1>5. (\A d \in Desc : d \in descs /\ d \notin ends <=> act[d].pc \in {"free", "freeboth"})'
  BY DEF IInv, Life
<1>6. (\A d \in Desc : act[d].pc \notin {"idle", "free", "freeboth", "freesock"} => d \in ends)'
  BY <1>1 DEF IInv, Life
<1>7. ASSUME NEW d \in Desc, Frees(d)'
      PROVE  (/\ d[1] \in socks \ lost
              /\ d \notin ends /\ OtherEnd(d) \notin ends
              /\ ~Frees(OtherEnd(d)))'
  <2>1. Frees(d) /\ (Frees(OtherEnd(d))' <=> Frees(OtherEnd(d)))
    BY <1>2, <1>7
  <2> QED
    BY <2>1 DEF IInv, Life
<1>8. (\A s \in socks \ lost : \E d \in Desc : d[1] = s /\ (d \in ends \/ Frees(d)))'
  BY DEF IInv, Life
<1>9. (/\ lost \subseteq socks /\ hasBeenConnected \subseteq socks \ lost
       /\ \A s \in socks \ lost : Receiver(s) \in descs => s \in hasBeenConnected)'
  BY DEF IInv, Life
<1> QED
  BY <1>4, <1>5, <1>6, <1>7, <1>8, <1>9 DEF Life

\* What the ends have been told depends on what the hangups have sent.
LEMMA ToldKept ==
  ASSUME IInv, UNCHANGED <<told, ends, descs>>, isClosed \subseteq isClosed',
         \A d \in Desc : Sent(d)' <=> Sent(d)
  PROVE  Told'
<1>1. \A d \in Desc : OtherEnd(d) \in Desc
  BY TwoEnds
<1>2. ends \subseteq Desc /\ told \subseteq Desc
  BY DEF IInv, Types
<1>3. \A d \in Desc : Sent(OtherEnd(d))' <=> Sent(OtherEnd(d))
  BY <1>1
<1> QED
  BY <1>2, <1>3 DEF IInv, Told

\* A task is referenced while it lives.
LEMMA TasksMove ==
  ASSUME IInv, NEW a \in Activity, NEW l, Moves(a, l), state' = state,
         \A d \in descs' : task'[d] \in Task,
         \A u \in asleep' : u \in asleep \/ state[Home[u]] # "free",
         l.ref # NULL => l.ref = act[a].ref \/ state[l.ref] \in {"live", "killed"},
         a \in Task /\ act[a].pc = "idle" => l.pc = "idle",
         a \in User /\ l.pc # "idle" => state[Home[a]] \in {"live", "killed"}
  PROVE  Tasks'
<1>1. /\ act'[a] = l
      /\ \A b \in Activity : b # a => act'[b] = act[b]
  BY OthersStay DEF IInv
<1>2. ASSUME NEW b \in Activity, act'[b].ref # NULL
      PROVE  state[act'[b].ref] \in {"live", "killed"}
  BY <1>1, <1>2 DEF IInv, Tasks
<1>3. ASSUME NEW t \in Task, ~At(t, "idle")'
      PROVE  state[t] = "reaping"
  BY <1>1, <1>3, Kinds DEF IInv, Tasks, At
<1>4. ASSUME NEW u \in User, ~At(u, "idle")'
      PROVE  state[Home[u]] \in {"live", "killed"}
  BY <1>1, <1>4, Kinds DEF IInv, Tasks, At
<1>5. \A u \in asleep' : state[Home[u]] # "free"
  BY DEF IInv, Tasks
<1> QED
  BY <1>2, <1>3, <1>4, <1>5 DEF Tasks

\* The lists have open or closed descriptors that are not hanging up.
LEMMA ListsMove ==
  ASSUME IInv, NEW a \in Activity, NEW l, Moves(a, l), table' = table, task' = task, ends' = ends,
         \A d \in pending' : d \in pending \/ (d \in ends /\ At(d, "idle")),
         a \in Desc /\ act[a].pc = "idle" => l.pc = "idle",
         l.pc # "insert"
  PROVE  Lists'
<1>1. /\ act'[a] = l
      /\ \A b \in Activity : b # a => act'[b] = act[b]
  BY OthersStay DEF IInv
<1>2. ASSUME NEW d \in ends, At(d, "idle") PROVE At(d, "idle")'
  <2>1. d \in Desc /\ d \in Activity
    BY Kinds DEF IInv, Types
  <2> QED
    BY <1>1, <1>2, <2>1 DEF At
<1>3. \A d \in pending' : d \in ends /\ At(d, "idle")'
  BY <1>2 DEF IInv, Lists
<1>4. \A t \in Task : \A d \in ToSet(table[t]) : d \in ends /\ At(d, "idle")' /\ task[d] = t
  BY <1>2 DEF IInv, Lists
<1>5. ASSUME NEW u \in User, At(u, "insert")'
      PROVE  task[act'[u].peer] = act'[u].ref /\ ~Listed(act'[u].peer)
  <2>1. act'[u] = act[u] /\ At(u, "insert")
    BY <1>1, <1>5, Kinds DEF At
  <2> QED
    BY <2>1 DEF IInv, Lists
<1>6. \A u \in User : At(u, "insert")' => (task[act[u].peer] = act[u].ref /\ ~Listed(act[u].peer))'
  BY <1>5 DEF Listed
<1>7. \A t \in Task : IsInjective(table[t])'
  BY DEF IInv, Lists
<1> QED
  BY <1>3, <1>4, <1>6, <1>7 DEF Lists

\* A message list has room for the messages that are still to come.
LEMMA CountsKept ==
  ASSUME IInv,
         hasBeenConnected' = hasBeenConnected, ends' \subseteq ends, count' \in [Desc -> Nat],
         \A d \in Desc : \/ count'[d] <= count[d]
                         \/ /\ d[1] \in hasBeenConnected
                            /\ \/ count'[d] <= MsgMax
                               \/ count'[d] = count[d] + 1 /\ Extra(d) < Extra(d)',
         \A d \in ends' : Sent(d) => Sent(d)',
         \A u \in User : Greeting(u)' => Greeting(u) /\ act'[u].own = act[u].own
  PROVE  Counts'
<1>1. ASSUME NEW u \in User, Greeting(u)'
      PROVE  Greeting(u) /\ act'[u].own = act[u].own
  BY <1>1
<1>2. ASSUME NEW d \in ends', Sent(d) PROVE Sent(d)'
  BY <1>2
<1>3. \A u, v \in User : (Greeting(u) /\ Greeting(v) /\ act[u].own = act[v].own)' => u = v
  BY <1>1 DEF IInv, Counts
<1>4. \A u \in User : Greeting(u)' => act'[u].own[1] \in hasBeenConnected
  BY <1>1 DEF IInv, Counts
<1>5. \A d \in Desc : d[1] \notin hasBeenConnected => count'[d] = 0
  <2>1. \A d \in Desc : count[d] \in Nat /\ count'[d] \in Nat
    BY DEF IInv, Types
  <2> QED
    BY <2>1 DEF IInv, Counts
<1>6. ASSUME NEW d \in Desc PROVE count'[d] <= MsgMax + Extra(d)'
  <2>1. OtherEnd(d) \in Desc
    BY TwoEnds
  <2>2. count[d] <= MsgMax + Extra(d) /\ count[d] \in Nat /\ count'[d] \in Nat /\ MsgMax \in Nat
    BY SocketsAssumption DEF IInv, Counts, Types
  <2>3. Extra(d) \in Nat /\ Extra(d)' \in Nat
    BY DEF Extra
  <2>4. /\ (IF OtherEnd(d) \in ends /\ ~Sent(OtherEnd(d)) THEN 0 ELSE 1) <=
             (IF OtherEnd(d) \in ends' /\ ~Sent(OtherEnd(d))' THEN 0 ELSE 1)
    BY <1>2, <2>1
  <2>5. (\E u \in User : Greeting(u) /\ act[u].own = OtherEnd(d))' =>
          \E u \in User : Greeting(u) /\ act[u].own = OtherEnd(d)
    BY <1>1
  <2>6. Extra(d) <= Extra(d)'
    BY <2>4, <2>5 DEF Extra
  <2> QED
    BY <2>2, <2>3, <2>6
<1> QED
  BY <1>3, <1>4, <1>5, <1>6 DEF Counts

\* So it has when one activity moves and no message is added.
LEMMA CountsMove ==
  ASSUME IInv, NEW a \in Activity, NEW l, Moves(a, l),
         UNCHANGED <<hasBeenConnected, ends>>, count' \in [Desc -> Nat],
         \A d \in Desc : count'[d] <= count[d],
         a \in Desc /\ Sent(a) => Sent(a)',
         a \in User /\ Greets(l) => Greeting(a) /\ l.own = act[a].own
  PROVE  Counts'
<1>1. /\ act'[a] = l
      /\ \A b \in Activity : b # a => act'[b] = act[b]
  BY OthersStay DEF IInv
<1>2. \A u \in User : Greeting(u)' => Greeting(u) /\ act'[u].own = act[u].own
  BY <1>1, Kinds DEF Greeting
<1>3. \A d \in ends' : Sent(d) => Sent(d)'
  BY <1>1, Kinds DEF Sent, IInv, Types
<1> QED
  BY <1>2, <1>3, CountsKept

\* If all threads of a task sleep on a pending descriptor, the one who is to
\* scan them stays so.
LEMMA WakeKept ==
  ASSUME IInv,
         \A t \in Task : state'[t] = "live" => state[t] = "live",
         asleep' \subseteq asleep, pending' \subseteq pending,
         \A d \in pending' : task'[d] = task[d],
         \A b \in Activity : "scan" \in {act[b].pc, act[b].next} =>
           "scan" \in {act'[b].pc, act'[b].next} /\ act'[b].ref = act[b].ref
  PROVE  NoLostWakeup'
<1> SUFFICES ASSUME NEW t \in Task, state'[t] = "live", \E u \in User : Home[u] = t,
                    \A u \in User : Home[u] = t => u \in asleep',
                    NEW d \in pending', task'[d] = t
             PROVE  \E b \in Activity : act'[b].ref = t /\ "scan" \in {act'[b].pc, act'[b].next}
  BY DEF NoLostWakeup
<1>1. state[t] = "live" /\ d \in pending /\ task[d] = t /\ \A u \in User : Home[u] = t => u \in asleep
  OBVIOUS
<1>2. PICK b \in Activity : act[b].ref = t /\ "scan" \in {act[b].pc, act[b].next}
  BY <1>1 DEF IInv, NoLostWakeup
<1> QED
  BY <1>2

\* The same for a step of one activity
LEMMA WakeMove ==
  ASSUME IInv, NEW a \in Activity, NEW l, Moves(a, l),
         \A t \in Task : state'[t] = "live" => state[t] = "live",
         asleep' \subseteq asleep, pending' \subseteq pending,
         \A d \in pending' : task'[d] = task[d],
         "scan" \in {act[a].pc, act[a].next} => "scan" \in {l.pc, l.next} /\ l.ref = act[a].ref
  PROVE  NoLostWakeup'
<1>1. /\ act'[a] = l
      /\ \A b \in Activity : b # a => act'[b] = act[b]
  BY OthersStay DEF IInv
<1>2. \A b \in Activity : "scan" \in {act[b].pc, act[b].next} =>
        "scan" \in {act'[b].pc, act'[b].next} /\ act'[b].ref = act[b].ref
  BY <1>1
<1> QED
  BY <1>2, WakeKept

\* A hangup that neither begins, nor tells the other end, nor takes an end off
SameLife(p, q) ==
  /\ p = "idle" <=> q = "idle"
  /\ p \in {"free", "freeboth"} <=> q \in {"free", "freeboth"}
  /\ p \in {"freeboth", "freesock"} <=> q \in {"freeboth", "freesock"}
  /\ p \in {"wake", "deref", "delete", "scan", "unhook", "wild"} <=>
       q \in {"wake", "deref", "delete", "scan", "unhook", "wild"}

\* A step within a stage of the life of sockets, descriptors and tasks
Plain(a, l) ==
  /\ Moves(a, l) /\ Shape(a, l)
  /\ l.pc \notin {"delete", "insert"}
  /\ a \in Desc => SameLife(act[a].pc, l.pc)
  /\ a \in Task /\ act[a].pc = "idle" => l.pc = "idle"
  /\ a \in User /\ l.pc # "idle" => state[Home[a]] \in {"live", "killed"}
  /\ l.ref # NULL => l.ref = act[a].ref \/ state[l.ref] \in {"live", "killed"}
  /\ a \in User /\ Greets(l) => Greeting(a) /\ l.own = act[a].own

\* The counters follow the references.
Counted(a, l) ==
  /\ refCount' \in [Desc -> Nat]
  /\ \A d \in Desc : refCount'[d] = refCount[d] - Weight(a, act[a], d) + Weight(a, l, d)
  /\ \A d \in Desc : Weight(a, l, d) > Weight(a, act[a], d) => d \in ends /\ d \notin isClosed

\* Such a step keeps the invariant, if no end is made or taken off.
LEMMA QuietStep ==
  ASSUME IInv, NEW a \in Activity, NEW l, Plain(a, l), Counted(a, l),
         UNCHANGED <<state, sockVars, descs, task, table>>,
         asleep' \subseteq User, \A u \in asleep' : u \in asleep \/ state[Home[u]] # "free",
         stuck' \subseteq Task,
         \A d \in pending' : d \in pending \/ (d \in ends /\ At(d, "idle")),
         isClosed \subseteq isClosed', isClosed' \subseteq Desc,
         count' \in [Desc -> Nat], \A d \in Desc : count'[d] <= count[d],
         Aborts', NoLostWakeup'
  PROVE  IInv'
<1>1. /\ act'[a] = l
      /\ \A b \in Activity : b # a => act'[b] = act[b]
      /\ act' \in [Activity -> Local]
      /\ Moves(a, l)
  BY OthersStay DEF IInv, Plain
<1>2. UNCHANGED <<socks, ends, hasBeenConnected, told, lost>>
  BY DEF sockVars
<1>3. Types'
  <2>1. pending' \subseteq Desc
    BY DEF IInv, Types
  <2> QED
    BY <1>1, <1>2, <2>1 DEF IInv, Types, Local, Counted
<1>4. Shapes'
  BY <1>1 DEF IInv, Shapes, Plain
<1>5. \A d \in Desc : SameLife(act[d].pc, act'[d].pc)
  <2> TAKE d \in Desc
  <2>1. CASE d = a
    BY <1>1, <2>1 DEF Plain
  <2>2. CASE d # a
    BY <1>1, <2>2, Kinds DEF SameLife
  <2> QED
    BY <2>1, <2>2
<1>6. Life'
  BY <1>2, <1>5, LifeKept DEF SameLife, Frees
<1>7. Told'
  BY <1>2, <1>5, ToldKept DEF SameLife, Sent
<1>8. Refs'
  <2>1. l.drop # NULL => l.pc = "deref"
    BY DEF Plain, Shape, Gives
  <2>2. a \in Desc /\ act[a].pc = "idle" => l.pc = "idle"
    BY DEF Plain, SameLife
  <2> QED
    BY <1>1, <1>2, <2>1, <2>2, RefsMove DEF Plain, Counted
<1>9. Tasks'
  <2>1. \A d \in descs' : task'[d] \in Task
    BY DEF IInv, Tasks
  <2> QED
    BY <1>1, <2>1, TasksMove DEF Plain
<1>10. Lists'
  BY <1>1, <1>2, ListsMove DEF Plain, SameLife
<1>11. Counts'
  <2>1. a \in Desc /\ Sent(a) => Sent(a)'
    BY <1>5 DEF SameLife, Sent
  <2> QED
    BY <1>1, <1>2, <2>1, CountsMove DEF Plain
<1> QED
  BY <1>3, <1>4, <1>6, <1>7, <1>8, <1>9, <1>10, <1>11 DEF IInv

\* A step that changes nothing but one activity and the reference counters
LEMMA StillStep ==
  ASSUME IInv, Running, NEW a \in Activity, NEW l, Plain(a, l), Counted(a, l),
         UNCHANGED <<taskVars, sockVars, count, descVars, listVars>>,
         l.pc # "abort",
         "scan" \in {act[a].pc, act[a].next} => "scan" \in {l.pc, l.next} /\ l.ref = act[a].ref
  PROVE  IInv'
<1>1. Moves(a, l)
  BY DEF Plain
<1>2. /\ UNCHANGED <<state, sockVars, descs, task, table>>
      /\ asleep' = asleep /\ pending' = pending /\ stuck' = stuck /\ isClosed' = isClosed
      /\ count' = count
  BY DEF taskVars, descVars, listVars
<1>3. Aborts'
  <2>1. /\ act'[a] = l
        /\ \A b \in Activity : b # a => act'[b] = act[b]
    BY <1>1, OthersStay DEF IInv
  <2>2. \A u \in User : ~At(u, "abort")'
    BY <2>1, Kinds DEF Running, At
  <2> QED
    BY <2>2 DEF Aborts
<1>4. NoLostWakeup'
  BY <1>1, <1>2, WakeMove
<1>5. /\ asleep' \subseteq User /\ stuck' \subseteq Task /\ isClosed' \subseteq Desc
      /\ count' \in [Desc -> Nat] /\ \A d \in Desc : count'[d] <= count[d]
  BY <1>2 DEF IInv, Types
<1> QED
  BY <1>2, <1>3, <1>4, <1>5, QuietStep

\* The references are the same after a step as before.
LEMMA Passes ==
  ASSUME Types, NEW a \in Activity, NEW l, refCount' = refCount,
         \A d \in Desc : Weight(a, l, d) = Weight(a, act[a], d)
  PROVE  Counted(a, l)
<1>1. \A d \in Desc : Weight(a, act[a], d) \in Nat /\ refCount[d] \in Nat
  BY DEF Weight, Types
<1> QED
  BY <1>1 DEF Counted, Types

\* anscheduler_socket_reference succeeded.
LEMMA Takes ==
  ASSUME Types, NEW a \in Activity, NEW l, NEW x \in ends, Reference(x),
         \A d \in Desc : Weight(a, l, d) = Weight(a, act[a], d) + (IF d = x THEN 1 ELSE 0)
  PROVE  Counted(a, l)
<1>1. \A d \in Desc : Weight(a, act[a], d) \in Nat /\ refCount[d] \in Nat
  BY DEF Weight, Types
<1>2. x \in Desc /\ x \notin isClosed /\ refCount' = [refCount EXCEPT ![x] = @ + 1]
  BY DEF Types, Reference
<1>3. refCount' \in [Desc -> Nat]
  BY <1>1, <1>2 DEF Types
<1>4. \A d \in Desc : refCount'[d] = refCount[d] + (IF d = x THEN 1 ELSE 0)
  BY <1>1, <1>2 DEF Types
<1>5. \A d \in Desc : refCount'[d] = refCount[d] - Weight(a, act[a], d) + Weight(a, l, d)
  BY <1>1, <1>4
<1>6. \A d \in Desc : Weight(a, l, d) > Weight(a, act[a], d) => d \in ends /\ d \notin isClosed
  BY <1>1, <1>2
<1> QED
  BY <1>3, <1>5, <1>6 DEF Counted

-----------------------------------------------------------------------------
(* Steps that only move references.                                        *)

\* The null pointer is neither a place nor a message.
LEMMA NullString ==
  /\ NULL # "idle" /\ NULL # "have" /\ NULL # "deref" /\ NULL # "delete" /\ NULL # "async"
  /\ NULL # "push" /\ NULL # "remote" /\ NULL # "remotetask" /\ NULL # "insert" /\ NULL # "greet"
  /\ NULL # "abort" /\ NULL # "wake" /\ NULL # "scan" /\ NULL # "wild" /\ NULL # "hangup"
  /\ NULL # "unhook" /\ NULL # "free" /\ NULL # "freeboth" /\ NULL # "freesock" /\ NULL # "pick"
  /\ NULL # "close" /\ NULL # "await" /\ NULL # "spin" /\ NULL # "freetask" /\ NULL # "data"
  /\ NULL # "connect"
  BY Kinds DEF Phase, Message

\* An activity that is not giving anything back
LEMMA NotGiving ==
  ASSUME IInv, NEW a \in Activity, act[a].pc \notin {"deref", "delete"}
  PROVE  /\ act[a] \in Local /\ Shape(a, act[a])
         /\ act[a].drop = NULL /\ act[a].next = NULL /\ Stage(act[a]) = act[a].pc
  BY LocalType DEF IInv, Shapes, Shape, Gives, Stage

\* A thread or an asynchronous message with a descriptor
LEMMA AtHave ==
  ASSUME IInv, NEW a \in Activity, a \in User \/ a \in Async, At(a, "have") \/ At(a, "async")
  PROVE  /\ act[a] \in Local /\ Shape(a, act[a])
         /\ act[a].own \in Desc /\ act[a].peer = NULL /\ act[a].ref = NULL /\ act[a].msg = NULL
         /\ act[a].drop = NULL /\ act[a].next = NULL
         /\ act[a].own \in ends /\ act[a].own[1] \in Sock /\ act[a].own[1] \in socks
         /\ act[a].own[1] \notin lost
         /\ OtherEnd(act[a].own) \in Desc
<1>1. act[a].pc \in {"have", "async"}
  BY DEF At
<1>2. /\ act[a] \in Local /\ Shape(a, act[a])
      /\ act[a].drop = NULL /\ act[a].next = NULL /\ Stage(act[a]) = act[a].pc
  BY <1>1, NotGiving
<1>3. act[a].own # NULL /\ act[a].peer = NULL /\ act[a].ref = NULL /\ act[a].msg = NULL
  BY <1>1, <1>2 DEF Shape, Keeps
<1>4. act[a].own \in Desc
  BY <1>3, LocalType DEF IInv
<1>5. PICK d \in Desc : d = act[a].own
  BY <1>4
<1>6. Weight(a, act[a], d) # 0
  BY <1>1, <1>2, <1>3, <1>5, Kinds DEF Weight
<1>7. d \in ends /\ d[1] \in socks /\ d[1] \notin lost /\ d[1] \in Sock
  BY <1>6, Referenced
<1> QED
  BY <1>2, <1>3, <1>4, <1>5, <1>7, TwoEnds

\* An idle activity has no variables.
LEMMA AtIdle ==
  ASSUME IInv, NEW a \in Activity, At(a, "idle")
  PROVE  /\ act[a] = Idle /\ Idle \in Local /\ Shape(a, Idle)
         /\ \A d \in Desc : Weight(a, act[a], d) = 0
<1>1. /\ act[a] \in Local /\ Shape(a, act[a]) /\ act[a].pc = "idle"
      /\ act[a].drop = NULL /\ act[a].next = NULL /\ Stage(act[a]) = act[a].pc
  BY NotGiving DEF At
<1>2. act[a].own = NULL /\ act[a].peer = NULL /\ act[a].ref = NULL /\ act[a].msg = NULL
  BY <1>1 DEF Shape, Keeps
<1>3. act[a] = Idle
  BY <1>1, <1>2 DEF Idle, Local
<1> QED
  BY <1>1, <1>2, <1>3, Kinds DEF Weight

\* The caller gives its reference back.
LEMMA LetGoStep ==
  ASSUME IInv, Running, NEW a \in Activity, a \in User \/ a \in Async, LetGo(a)
  PROVE  IInv'
<1>1. /\ At(a, "have") /\ refCount' = refCount
      /\ UNCHANGED <<taskVars, sockVars, count, descVars, listVars>>
  BY DEF LetGo
<1>2. PICK l : l = [act[a] EXCEPT !.own = NULL, !.pc = "deref", !.drop = act[a].own, !.next = "idle"]
  OBVIOUS
<1>3. /\ act[a] \in Local /\ Shape(a, act[a])
      /\ act[a].own \in Desc /\ act[a].peer = NULL /\ act[a].ref = NULL /\ act[a].msg = NULL
      /\ act[a].drop = NULL /\ act[a].next = NULL
  BY <1>1, AtHave
<1>4. /\ l \in Local /\ l.pc = "deref" /\ l.next = "idle" /\ l.drop = act[a].own
      /\ l.own = NULL /\ l.peer = NULL /\ l.ref = NULL /\ l.msg = NULL
  BY <1>2, <1>3 DEF Local, Phase
<1>5. act' = [act EXCEPT ![a] = l]
  BY <1>2, <1>3 DEF LetGo, Dereference, Become, Local
<1>0. a \notin Desc /\ a \notin Task /\ act[a].own # NULL
  BY <1>3, Kinds
<1>6. Shape(a, l)
  BY <1>0, <1>4, NullString DEF Shape, InStage, Gives, Keeps, Fits, Stage, UserStage, AsyncStage
<1>7. a \in User => state[Home[a]] \in {"live", "killed"}
  BY <1>1 DEF IInv, Tasks, At
<1>8. Plain(a, l)
  BY <1>0, <1>4, <1>5, <1>6, <1>7, NullString DEF Plain, Moves, Greets, Stage
<1>9. Counted(a, l)
  <2>1. \A d \in Desc : Weight(a, l, d) = Weight(a, act[a], d)
    BY <1>1, <1>3, <1>4, Kinds DEF Weight, At
  <2> QED
    BY <1>1, <2>1, Passes DEF IInv
<1> QED
  BY <1>1, <1>3, <1>4, <1>8, <1>9, StillStep, NullString DEF At

\* anscheduler_socket_for_descriptor gives a reference to an open descriptor.
LEMMA SocketForDescriptorStep ==
  ASSUME IInv, Running, NEW u \in User, SocketForDescriptor(u)
  PROVE  IInv'
<1>1. /\ At(u, "idle") /\ state[Home[u]] \in {"live", "killed"}
      /\ UNCHANGED <<taskVars, sockVars, count, descVars, listVars>>
  BY DEF SocketForDescriptor, Calls
<1>2. PICK x \in ToSet(table[Home[u]]) :
        Reference(x) /\ Become(u, [Idle EXCEPT !.pc = "have", !.own = x])
  BY DEF SocketForDescriptor
<1>3. x \in ends /\ x \in Desc
  <2>1. Home[u] \in Task
    BY SocketsAssumption
  <2> QED
    BY <1>2, <2>1 DEF IInv, Lists, Types
<1>4. PICK l : l = [Idle EXCEPT !.pc = "have", !.own = x]
  OBVIOUS
<1>5. u \in Activity /\ act[u] = Idle /\ Idle \in Local /\ \A d \in Desc : Weight(u, act[u], d) = 0
  BY <1>1, AtIdle, Kinds
<1>6. /\ l \in Local /\ l.pc = "have" /\ l.next = NULL /\ l.drop = NULL
      /\ l.own = x /\ l.peer = NULL /\ l.ref = NULL /\ l.msg = NULL
  BY <1>3, <1>4, <1>5 DEF Local, Phase, Idle
<1>0. u \notin Desc /\ u \notin Task /\ u \notin Async /\ x # NULL
  BY <1>3, Kinds
<1>7. Shape(u, l)
  BY <1>0, <1>6, NullString DEF Shape, InStage, Gives, Keeps, Fits, Stage, UserStage
<1>8. Plain(u, l)
  BY <1>0, <1>1, <1>2, <1>4, <1>6, <1>7, NullString DEF Plain, Moves, Greets, Stage, Become
<1>9. Counted(u, l)
  <2>1. \A d \in Desc : Weight(u, l, d) = Weight(u, act[u], d) + (IF d = x THEN 1 ELSE 0)
    BY <1>3, <1>5, <1>6, Kinds DEF Weight
  <2> QED
    BY <1>2, <1>3, <1>5, <2>1, Takes DEF IInv
<1> QED
  BY <1>1, <1>5, <1>6, <1>8, <1>9, StillStep, NullString DEF At, Idle

\* The other end is referenced to send it a message or to ask for its task.
LEMMA ReferenceOtherStep ==
  ASSUME IInv, Running, NEW a \in Activity, NEW o, NEW m, NEW p, ReferenceOther(a, o, m, p),
         \/ a \in User /\ At(a, "have") /\ o = OtherEnd(act[a].own) /\ m = "data" /\ p = "push"
         \/ a \in User /\ At(a, "have") /\ o = OtherEnd(act[a].own) /\ m = NULL /\ p = "remote"
         \/ a \in Async /\ At(a, "async") /\ o = OtherEnd(act[a].own) /\ m = "data" /\ p = "push"
         \/ a \in User /\ At(a, "greet") /\ o = Receiver(act[a].own[1]) /\ m = "connect" /\ p = "push"
         \/ a \in Desc /\ At(a, "hangup") /\ o = OtherEnd(a) /\ m = "close" /\ p = "push"
  PROVE  IInv'
<1>1. /\ o \in ends /\ Reference(o)
      /\ act' = [act EXCEPT ![a] = [act[a] EXCEPT !.pc = p, !.peer = o, !.msg = m]]
      /\ UNCHANGED <<taskVars, sockVars, count, descVars, listVars>>
  BY DEF ReferenceOther, Reachable, Become
<1>2. o \in Desc /\ o # NULL
  BY <1>1, Kinds DEF IInv, Types
<1>3. /\ act[a] \in Local /\ Shape(a, act[a]) /\ act[a].pc \in {"have", "async", "greet", "hangup"}
      /\ act[a].drop = NULL /\ act[a].next = NULL /\ Stage(act[a]) = act[a].pc
  BY NotGiving DEF At
<1>4. /\ act[a].peer = NULL /\ act[a].ref = NULL /\ act[a].msg = NULL
      /\ act[a].own # NULL <=> act[a].pc # "hangup"
  BY <1>3 DEF Shape, Keeps
<1>5. act[a].own # NULL => act[a].own \in Desc
  BY <1>3 DEF Local
<1>6. act[a].own # NULL => o = OtherEnd(act[a].own)
  <2>1. CASE At(a, "greet") /\ o = Receiver(act[a].own[1])
    <3>1. act[a].own = Connector(act[a].own[1])
      BY <1>3, <2>1 DEF Shape, Fits, At
    <3> QED
      BY <1>5, <2>1, <3>1, TwoEnds
  <2>2. CASE ~At(a, "greet")
    BY <1>4, <2>2 DEF At
  <2> QED
    BY <2>1, <2>2 DEF At
<1>7. PICK l : l = [act[a] EXCEPT !.pc = p, !.peer = o, !.msg = m]
  OBVIOUS
<1>8. /\ l \in Local /\ l.pc = p /\ l.next = NULL /\ l.drop = NULL
      /\ l.own = act[a].own /\ l.peer = o /\ l.ref = NULL /\ l.msg = m
      /\ p \in {"push", "remote"} /\ m \in {"data", "connect", "close", NULL}
      /\ m # NULL <=> p = "push"
  BY <1>2, <1>3, <1>4, <1>7, NullString DEF Local, Phase, Message
<1>9. Stage(l) = p /\ Stage(act[a]) = act[a].pc
  BY <1>3, <1>8 DEF Stage
<1>10. Shape(a, l)
  <2>1. InStage(a, l)
    BY <1>8, <1>9, Kinds DEF InStage, UserStage, AsyncStage, HangupStage
  <2>2. Gives(a, l)
    BY <1>8 DEF Gives
  <2>3. Keeps(a, l)
    BY <1>2, <1>4, <1>8, <1>9, Kinds DEF Keeps, At
  <2>4. Fits(a, l)
    <3>1. m = "connect" => act[a].own = Connector(act[a].own[1])
      BY <1>3, NullString DEF Shape, Fits, At
    <3> QED
      BY <1>6, <1>8, <1>9, <3>1, Kinds, NullString DEF Fits, At
  <2> QED
    BY <2>1, <2>2, <2>3, <2>4 DEF Shape
<1>11. a \in User => state[Home[a]] \in {"live", "killed"}
  BY <1>3 DEF IInv, Tasks, At
<1>12. Plain(a, l)
  <2>1. a \in Desc => SameLife(act[a].pc, l.pc)
    BY <1>8, Kinds DEF At, SameLife
  <2>2. a \in User /\ Greets(l) => Greeting(a) /\ l.own = act[a].own
    BY <1>8, <1>9, Kinds, NullString DEF Greets, Greeting, At
  <2>3. Moves(a, l)
    BY <1>1, <1>7, <1>8 DEF Moves
  <2>4. a \notin Task
    BY Kinds
  <2> QED
    BY <1>8, <1>10, <1>11, <2>1, <2>2, <2>3, <2>4 DEF Plain
<1>13. Counted(a, l)
  <2>1. \A d \in Desc : Weight(a, l, d) = Weight(a, act[a], d) + (IF d = o THEN 1 ELSE 0)
    BY <1>2, <1>3, <1>4, <1>8, Kinds, NullString DEF Weight
  <2> QED
    BY <1>1, <2>1, Takes DEF IInv
<1> QED
  BY <1>1, <1>3, <1>8, <1>12, <1>13, StillStep, NullString

\* An asynchronous message that has nowhere to go lets its descriptor go.
LEMMA AsyncMsgStep ==
  ASSUME IInv, Running, NEW k \in Async, AsyncMsg(k)
  PROVE  IInv'
<1>1. k \in Activity /\ At(k, "async")
  BY Kinds DEF AsyncMsg
<1>2. CASE ReferenceOther(k, OtherEnd(act[k].own), "data", "push")
  BY <1>1, <1>2, ReferenceOtherStep
<1>3. CASE NoOther(k, OtherEnd(act[k].own), "have")
  <2>1. /\ act' = [act EXCEPT ![k] = [act[k] EXCEPT !.pc = "have"]] /\ refCount' = refCount
        /\ UNCHANGED <<taskVars, sockVars, count, descVars, listVars>>
    BY <1>3 DEF NoOther, Goto, Become
  <2>2. /\ act[k] \in Local /\ Shape(k, act[k])
        /\ act[k].own \in Desc /\ act[k].peer = NULL /\ act[k].ref = NULL /\ act[k].msg = NULL
        /\ act[k].drop = NULL /\ act[k].next = NULL /\ act[k].pc = "async"
    BY <1>1, AtHave DEF At
  <2>3. PICK l : l = [act[k] EXCEPT !.pc = "have"]
    OBVIOUS
  <2>4. /\ l \in Local /\ l.pc = "have" /\ l.next = NULL /\ l.drop = NULL
        /\ l.own = act[k].own /\ l.peer = NULL /\ l.ref = NULL /\ l.msg = NULL
    BY <2>2, <2>3 DEF Local, Phase
  <2>5. k \notin Desc /\ k \notin Task /\ k \notin User /\ l.own # NULL
    BY <2>2, <2>4, Kinds
  <2>6. Shape(k, l)
    BY <2>4, <2>5, NullString DEF Shape, InStage, Gives, Keeps, Fits, Stage, AsyncStage
  <2>7. Plain(k, l)
    BY <2>1, <2>3, <2>4, <2>5, <2>6 DEF Plain, Moves
  <2>8. Counted(k, l)
    <3>1. \A d \in Desc : Weight(k, l, d) = Weight(k, act[k], d)
      BY <2>2, <2>4, <2>5 DEF Weight
    <3> QED
      BY <1>1, <2>1, <3>1, Passes DEF IInv
  <2> QED
    BY <1>1, <2>1, <2>2, <2>4, <2>7, <2>8, StillStep, NullString
<1> QED
  BY <1>2, <1>3 DEF AsyncMsg

\* anscheduler_socket_msg_async hands a reference to a kernel thread.
LEMMA SocketMsgAsyncStep ==
  ASSUME IInv, Running, NEW u \in User, SocketMsgAsync(u)
  PROVE  IInv'
<1>1. PICK x : x = act[u].own
  OBVIOUS
<1>2. x \in Desc /\ x \in ends /\ x # NULL
  BY <1>1, AtHave, Kinds DEF SocketMsgAsync, Has
<1>3. Reference(x) /\ UNCHANGED <<taskVars, sockVars, count, descVars, listVars>>
  BY <1>1 DEF SocketMsgAsync
<1>4. PICK k \in Async : At(k, "idle") /\ Become(k, [Idle EXCEPT !.pc = "async", !.own = x])
  BY <1>1 DEF SocketMsgAsync
<1>5. PICK l : l = [Idle EXCEPT !.pc = "async", !.own = x]
  OBVIOUS
<1>6. k \in Activity /\ act[k] = Idle /\ Idle \in Local /\ \A d \in Desc : Weight(k, act[k], d) = 0
  BY <1>4, AtIdle, Kinds
<1>7. /\ l \in Local /\ l.pc = "async" /\ l.next = NULL /\ l.drop = NULL
      /\ l.own = x /\ l.peer = NULL /\ l.ref = NULL /\ l.msg = NULL
  BY <1>2, <1>5, <1>6 DEF Local, Phase, Idle
<1>8. k \notin Desc /\ k \notin Task /\ k \notin User
  BY Kinds
<1>9. Shape(k, l)
  BY <1>2, <1>7, <1>8, NullString DEF Shape, InStage, Gives, Keeps, Fits, Stage, AsyncStage
<1>10. Plain(k, l)
  BY <1>4, <1>5, <1>7, <1>8, <1>9 DEF Plain, Moves, Become
<1>11. Counted(k, l)
  <2>1. \A d \in Desc : Weight(k, l, d) = Weight(k, act[k], d) + (IF d = x THEN 1 ELSE 0)
    BY <1>2, <1>6, <1>7, <1>8, Kinds DEF Weight
  <2> QED
    BY <1>2, <1>3, <1>6, <2>1, Takes DEF IInv
<1> QED
  BY <1>3, <1>4, <1>6, <1>7, <1>10, <1>11, StillStep, NullString DEF At, Idle

\* The task of the other end is referenced while that end is.
LEMMA RemoteTaskStep ==
  ASSUME IInv, Running, NEW u \in User, RemoteTask(u)
  PROVE  IInv'
<1>1. PICK x, t : x = act[u].peer /\ t = task[x]
  OBVIOUS
<1>2. PICK r : r = IF state[t] = "live" THEN t ELSE NULL
  OBVIOUS
<1>3. PICK l : l = [act[u] EXCEPT !.ref = r, !.peer = NULL, !.pc = "deref", !.drop = x, !.next = "remotetask"]
  OBVIOUS
<1>4. u \in Activity /\ u \notin Desc /\ u \notin Task /\ u \notin Async
  BY Kinds
<1>5. /\ act[u] \in Local /\ Shape(u, act[u]) /\ act[u].pc = "remote"
      /\ act[u].drop = NULL /\ act[u].next = NULL /\ Stage(act[u]) = act[u].pc
  BY <1>4, NotGiving DEF RemoteTask, At
<1>6. act[u].own # NULL /\ x # NULL /\ act[u].ref = NULL /\ act[u].msg = NULL
  BY <1>1, <1>5 DEF Shape, Keeps
<1>7. act[u].own \in Desc /\ x \in Desc
  BY <1>1, <1>5, <1>6 DEF Local
<1>8. x \in descs /\ t \in Task
  <2>1. Weight(u, act[u], x) # 0
    BY <1>1, <1>5, <1>7, NullString DEF Weight
  <2>2. x \in descs
    BY <1>4, <1>7, <2>1, Referenced
  <2> QED
    BY <1>1, <2>2 DEF IInv, Tasks
<1>9. /\ l \in Local /\ l.pc = "deref" /\ l.next = "remotetask" /\ l.drop = x
      /\ l.own = act[u].own /\ l.peer = NULL /\ l.ref = r /\ l.msg = NULL
  BY <1>2, <1>3, <1>5, <1>6, <1>7, <1>8, ZenonT(30) DEF Local, Phase
<1>10. /\ act' = [act EXCEPT ![u] = l] /\ refCount' = refCount
       /\ UNCHANGED <<taskVars, sockVars, count, descVars, listVars>>
  BY <1>1, <1>2, <1>3, <1>5 DEF RemoteTask, Dereference, Become, Local
<1>11. Shape(u, l)
  BY <1>4, <1>6, <1>9, NullString DEF Shape, InStage, Gives, Keeps, Fits, Stage, UserStage
<1>12. state[Home[u]] \in {"live", "killed"}
  BY <1>5 DEF IInv, Tasks, At
<1>13. Plain(u, l)
  BY <1>2, <1>4, <1>6, <1>9, <1>10, <1>11, <1>12, NullString DEF Plain, Moves, Greets, Stage
<1>14. Counted(u, l)
  <2>1. \A d \in Desc : Weight(u, l, d) = Weight(u, act[u], d)
    BY <1>1, <1>4, <1>5, <1>7, <1>9, Kinds, NullString DEF Weight
  <2> QED
    BY <1>4, <1>10, <2>1, Passes DEF IInv
<1> QED
  BY <1>4, <1>5, <1>9, <1>10, <1>13, <1>14, StillStep, NullString

\* The task of the other end is given back.
LEMMA RemoteTaskDereferenceStep ==
  ASSUME IInv, Running, NEW u \in User, RemoteTaskDereference(u)
  PROVE  IInv'
<1>1. PICK l : l = [act[u] EXCEPT !.pc = "have", !.ref = NULL]
  OBVIOUS
<1>2. u \in Activity /\ u \notin Desc /\ u \notin Task /\ u \notin Async
  BY Kinds
<1>3. /\ act[u] \in Local /\ Shape(u, act[u]) /\ act[u].pc = "remotetask"
      /\ act[u].drop = NULL /\ act[u].next = NULL /\ Stage(act[u]) = act[u].pc
  BY <1>2, NotGiving DEF RemoteTaskDereference, At
<1>4. act[u].own # NULL /\ act[u].peer = NULL /\ act[u].msg = NULL
  BY <1>3 DEF Shape, Keeps
<1>5. /\ l \in Local /\ l.pc = "have" /\ l.next = NULL /\ l.drop = NULL
      /\ l.own = act[u].own /\ l.peer = NULL /\ l.ref = NULL /\ l.msg = NULL
  BY <1>1, <1>3, <1>4 DEF Local, Phase
<1>6. /\ act' = [act EXCEPT ![u] = l] /\ refCount' = refCount
      /\ UNCHANGED <<taskVars, sockVars, count, descVars, listVars>>
  BY <1>1 DEF RemoteTaskDereference, Become
<1>7. Shape(u, l)
  BY <1>2, <1>4, <1>5, NullString DEF Shape, InStage, Gives, Keeps, Fits, Stage, UserStage
<1>8. state[Home[u]] \in {"live", "killed"}
  BY <1>3 DEF IInv, Tasks, At
<1>9. Plain(u, l)
  BY <1>2, <1>5, <1>6, <1>7, <1>8, NullString DEF Plain, Moves, Greets, Stage
<1>10. Counted(u, l)
  <2>1. \A d \in Desc : Weight(u, l, d) = Weight(u, act[u], d)
    BY <1>2, <1>3, <1>4, <1>5, NullString DEF Weight
  <2> QED
    BY <1>2, <1>6, <2>1, Passes DEF IInv
<1> QED
  BY <1>2, <1>3, <1>5, <1>6, <1>9, <1>10, StillStep, NullString

\* An activity that gives a descriptor back has a reference to it until the
\* counter is decremented.
LEMMA AtDeref ==
  ASSUME IInv, NEW a \in Activity, At(a, "deref") \/ At(a, "delete")
  PROVE  /\ act[a] \in Local /\ Shape(a, act[a]) /\ Return(a) \in Local /\ Shape(a, Return(a))
         /\ act[a].drop \in Desc /\ act[a].drop \in ends /\ act[a].drop \in descs
         /\ act[a].next \in {"idle", "have", "remotetask", "greet", "wake", "scan", "unhook", "await"}
         /\ Return(a).pc = act[a].next /\ Return(a).next = NULL /\ Return(a).drop = NULL
         /\ Return(a).own = act[a].own /\ Return(a).peer = act[a].peer
         /\ Return(a).ref = act[a].ref /\ Return(a).msg = act[a].msg
         /\ Stage(Return(a)) = act[a].next /\ Stage(act[a]) = act[a].next
         /\ a \in Desc => act[a].next \in {"scan", "unhook"} /\ act[a].drop = OtherEnd(a)
         /\ a \in Task => act[a].next = "await"
         /\ \A d \in Desc : Weight(a, act[a], d) =
              Weight(a, Return(a), d) + (IF d = act[a].drop /\ act[a].pc = "deref" THEN 1 ELSE 0)
<1>1. act[a].pc \in {"deref", "delete"}
  BY DEF At
<1>2. act[a] \in Local /\ Shape(a, act[a])
  BY LocalType DEF IInv, Shapes
<1>3. act[a].drop \in Desc /\ act[a].drop # NULL
  BY <1>1, <1>2 DEF Shape, Gives, Local
<1>4. act[a].drop \in ends /\ act[a].drop \in descs
  BY <1>3 DEF IInv, Refs, Life
<1>5. act[a].next \in {"idle", "have", "remotetask", "greet", "wake", "scan", "unhook", "await"}
  BY <1>2, <1>3 DEF Shape, Gives
<1>6. PICK l : l = Return(a)
  OBVIOUS
<1>7. /\ l \in Local /\ l.pc = act[a].next /\ l.next = NULL /\ l.drop = NULL
      /\ l.own = act[a].own /\ l.peer = act[a].peer /\ l.ref = act[a].ref /\ l.msg = act[a].msg
  BY <1>2, <1>5, <1>6 DEF Return, Local, Phase
<1>8. Stage(l) = act[a].next /\ Stage(act[a]) = act[a].next
  BY <1>3, <1>7 DEF Stage
<1>9. Shape(a, l)
  <2>1. InStage(a, l)
    BY <1>2, <1>8 DEF Shape, InStage
  <2>2. Gives(a, l)
    BY <1>5, <1>7 DEF Gives
  <2>3. Keeps(a, l)
    BY <1>2, <1>7, <1>8 DEF Shape, Keeps
  <2>4. Fits(a, l)
    BY <1>2, <1>7, <1>8 DEF Shape, Fits
  <2> QED
    BY <2>1, <2>2, <2>3, <2>4 DEF Shape
<1>10. a \in Desc => act[a].next \in {"scan", "unhook"} /\ act[a].drop = OtherEnd(a)
  BY <1>2, <1>3 DEF Shape, Gives
<1>11. a \in Task => act[a].next = "await"
  BY <1>2, <1>3 DEF Shape, Gives
<1>12. \A d \in Desc : Weight(a, act[a], d) =
              Weight(a, l, d) + (IF d = act[a].drop /\ act[a].pc = "deref" THEN 1 ELSE 0)
  BY <1>1, <1>5, <1>7, <1>11, Kinds, NullString DEF Weight
<1> QED
  BY <1>2, <1>3, <1>4, <1>5, <1>6, <1>7, <1>8, <1>9, <1>10, <1>11, <1>12


\* A reference is given back, and it was not the last one to a closed
\* descriptor.
LEMMA DerefStep ==
  ASSUME IInv, Running, NEW a \in Activity, Deref(a), ~LastReference(act[a].drop)
  PROVE  IInv'
<1>1. PICK x : x = act[a].drop
  OBVIOUS
<1>2. PICK l : l = Return(a)
  OBVIOUS
<1>3. /\ l \in Local /\ Shape(a, l) /\ x \in Desc
      /\ act[a].next \in {"idle", "have", "remotetask", "greet", "wake", "scan", "unhook", "await"}
      /\ l.pc = act[a].next /\ l.next = NULL /\ l.drop = NULL
      /\ l.own = act[a].own /\ l.peer = act[a].peer /\ l.ref = act[a].ref /\ l.msg = act[a].msg
      /\ Stage(l) = Stage(act[a]) /\ act[a].pc = "deref"
      /\ a \in Desc => act[a].next \in {"scan", "unhook"}
      /\ \A d \in Desc : Weight(a, act[a], d) = Weight(a, l, d) + (IF d = x THEN 1 ELSE 0)
  BY <1>1, <1>2, AtDeref DEF Deref, At
<1>4. \A d \in Desc : refCount[d] \in Nat /\ Weight(a, l, d) \in Nat
  BY DEF IInv, Types, Weight
<1>5. refCount[x] > 0
  <2>1. Weight(a, act[a], x) # 0
    BY <1>3, <1>4
  <2> QED
    BY <1>3, <2>1, Referenced
<1>6. /\ refCount' = [refCount EXCEPT ![x] = IF @ = 0 /\ x \in isClosed THEN 0 ELSE @ - 1]
      /\ act' = [act EXCEPT ![a] = l]
      /\ UNCHANGED <<taskVars, sockVars, count, descVars, listVars>>
  BY <1>1, <1>2 DEF Deref, Become
<1>7. refCount' = [refCount EXCEPT ![x] = refCount[x] - 1]
  <2>1. refCount[x] # 0
    BY <1>3, <1>4, <1>5
  <2> QED
    BY <1>6, <2>1
<1>8. Plain(a, l)
  <2>1. a \in User => state[Home[a]] \in {"live", "killed"}
    BY <1>3 DEF IInv, Tasks, At
  <2>2. Greets(l) => Greeting(a)
    BY <1>3 DEF Greets, Greeting
  <2>3. a \in Desc => SameLife(act[a].pc, l.pc)
    BY <1>3 DEF SameLife
  <2> QED
    BY <1>3, <1>6, <2>1, <2>2, <2>3 DEF Plain, Moves
<1>9. Counted(a, l)
  <2>1. refCount' \in [Desc -> Nat]
    BY <1>3, <1>4, <1>5, <1>7 DEF IInv, Types
  <2>2. \A d \in Desc : refCount'[d] = refCount[d] - (IF d = x THEN 1 ELSE 0)
    BY <1>3, <1>4, <1>7 DEF IInv, Types
  <2>3. \A d \in Desc : refCount'[d] = refCount[d] - Weight(a, act[a], d) + Weight(a, l, d)
    BY <1>3, <1>4, <2>2
  <2> QED
    BY <1>3, <1>4, <2>1, <2>3 DEF Counted
<1> QED
  BY <1>3, <1>6, <1>8, <1>9, StillStep, NullString

\* The last reference to a closed descriptor is given back.
LEMMA LastDerefStep ==
  ASSUME IInv, Running, NEW a \in Activity, Deref(a), LastReference(act[a].drop)
  PROVE  IInv'
<1>1. PICK x : x = act[a].drop
  OBVIOUS
<1>2. PICK l : l = [act[a] EXCEPT !.pc = "delete"]
  OBVIOUS
<1>3. /\ act[a] \in Local /\ Shape(a, act[a]) /\ act[a].pc = "deref" /\ x \in Desc /\ x # NULL
      /\ a \in Desc => act[a].next \in {"scan", "unhook"}
  BY <1>1, AtDeref, Kinds DEF Deref, At
<1>4. /\ l \in Local /\ l.pc = "delete" /\ l.next = act[a].next /\ l.drop = x
      /\ l.own = act[a].own /\ l.peer = act[a].peer /\ l.ref = act[a].ref /\ l.msg = act[a].msg
  BY <1>1, <1>2, <1>3 DEF Local, Phase
<1>5. /\ refCount' = [refCount EXCEPT ![x] = IF @ = 0 /\ x \in isClosed THEN 0 ELSE @ - 1]
      /\ act' = [act EXCEPT ![a] = l]
      /\ UNCHANGED <<taskVars, sockVars, count, descVars, listVars>>
      /\ refCount[x] = 1 /\ x \in isClosed
  BY <1>1, <1>2 DEF Deref, Goto, Become, LastReference
<1>6. /\ refCount' \in [Desc -> Nat] /\ refCount'[x] = 0
      /\ \A d \in Desc : d # x => refCount'[d] = refCount[d]
  BY <1>3, <1>5 DEF IInv, Types
<1>7. /\ Moves(a, l) /\ act'[a] = l
      /\ \A b \in Activity : b # a => act'[b] = act[b]
      /\ act' \in [Activity -> Local]
  BY <1>4, <1>5, OthersStay DEF IInv, Moves
<1>8. UNCHANGED <<state, asleep, socks, ends, hasBeenConnected, told, lost, descs, task, isClosed,
                  table, stuck, pending, count>>
  BY <1>5 DEF taskVars, sockVars, descVars, listVars
<1>9. Types'
  BY <1>6, <1>7, <1>8 DEF IInv, Types, Local
<1>10. Shapes'
  <2>1. Stage(l) = Stage(act[a])
    BY <1>1, <1>3, <1>4 DEF Stage
  <2>2. Shape(a, l)
    BY <1>1, <1>3, <1>4, <2>1 DEF Shape, InStage, Gives, Keeps, Fits
  <2> QED
    BY <1>7, <2>2 DEF IInv, Shapes
<1>11. \A d \in Desc : SameLife(act[d].pc, act'[d].pc)
  BY <1>3, <1>4, <1>7, Kinds DEF SameLife
<1>12. Life'
  BY <1>8, <1>11, LifeKept DEF SameLife, Frees
<1>13. Told'
  BY <1>8, <1>11, ToldKept DEF SameLife, Sent
<1>14. \A d \in Desc : /\ Weight(a, act[a], d) = Weight(a, l, d) + (IF d = x THEN 1 ELSE 0)
                       /\ Weight(a, l, d) \in Nat
  BY <1>1, <1>3, <1>4, NullString DEF Weight
<1>15. /\ x \in ends /\ x \in descs /\ At(x, "idle")
       /\ \A b \in Activity : At(b, "delete") => act[b].drop # x
  <2>1. Weight(a, act[a], x) # 0
    BY <1>3, <1>14
  <2> QED
    BY <1>3, <2>1, Referenced
<1>16. Refs'
  <2>1. RefsExact'
    <3> SUFFICES ASSUME NEW d \in descs PROVE refCount'[d] = HeldRefs(d)'
      BY <1>8 DEF RefsExact
    <3>1. d \in Desc /\ refCount[d] = HeldRefs(d)
      BY DEF IInv, Refs, RefsExact, Types
    <3>2. HeldRefs(d)' = HeldRefs(d) - Weight(a, act[a], d) + Weight(a, l, d) /\ HeldRefs(d) \in Nat
      BY <1>7, WeightMoves, HeldZero DEF IInv
    <3>3. refCount'[d] = refCount[d] - (IF d = x THEN 1 ELSE 0)
      BY <1>5, <1>6, <3>1 DEF IInv, Types
    <3> QED
      BY <1>14, <3>1, <3>2, <3>3
  <2>2. ASSUME NEW b \in Activity, NEW d \in Desc,
               (OwnRef(b, d) \/ PeerRef(b, d) \/ act[b].drop = d)'
        PROVE  d \in ends
    <3>1. OwnRef(b, d) \/ PeerRef(b, d) \/ act[b].drop = d
      BY <1>1, <1>3, <1>4, <1>7, <2>2 DEF OwnRef, PeerRef, At
    <3> QED
      BY <3>1 DEF IInv, Refs
  <2>3. ASSUME NEW d \in descs, ~At(d, "idle")'
        PROVE  d \in isClosed /\ refCount'[d] = 0
    <3>1. d \in Desc /\ d \in Activity
      BY Kinds DEF IInv, Types
    <3>2. ~At(d, "idle")
      BY <1>3, <1>4, <1>7, <2>3, <3>1 DEF At
    <3>3. d # x
      BY <1>15, <3>2
    <3> QED
      BY <1>6, <3>1, <3>2, <3>3 DEF IInv, Refs
  <2>4. ASSUME NEW b \in Activity, At(b, "delete")'
        PROVE  act'[b].drop \in isClosed /\ refCount'[act'[b].drop] = 0 /\ act'[act'[b].drop].pc = "idle"
    <3>1. CASE b = a
      <4>1. act'[x].pc = "idle"
        BY <1>3, <1>7, <1>15, Kinds DEF At
      <4> QED
        BY <1>4, <1>5, <1>6, <1>7, <3>1, <4>1
    <3>2. CASE b # a
      <4>1. PICK d : d = act[b].drop
        OBVIOUS
      <4>2. act'[b] = act[b] /\ At(b, "delete")
        BY <1>7, <2>4, <3>2 DEF At
      <4>3. d \in isClosed /\ refCount[d] = 0 /\ At(d, "idle") /\ d \in Desc /\ d # x
        BY <1>15, <4>1, <4>2 DEF IInv, Refs, Types
      <4>4. act'[d].pc = "idle"
        BY <1>3, <1>7, <4>3, Kinds DEF At
      <4> QED
        BY <1>6, <4>1, <4>2, <4>3, <4>4
    <3> QED
      BY <3>1, <3>2
  <2>5. ASSUME NEW b \in Activity, NEW c \in Activity,
               (At(b, "delete") /\ At(c, "delete") /\ act[b].drop = act[c].drop)'
        PROVE  b = c
    BY <1>4, <1>7, <1>15, <2>5 DEF IInv, Refs, At
  <2> QED
    BY <1>8, <2>1, <2>2, <2>3, <2>4, <2>5 DEF Refs, At
<1>17. Tasks'
  <2>1. \A d \in descs' : task'[d] \in Task
    BY <1>8 DEF IInv, Tasks
  <2>2. a \in User => state[Home[a]] \in {"live", "killed"}
    BY <1>3 DEF IInv, Tasks, At
  <2> QED
    BY <1>3, <1>4, <1>7, <1>8, <2>1, <2>2, TasksMove
<1>18. Lists'
  BY <1>3, <1>4, <1>7, <1>8, ListsMove
<1>19. Counts'
  <2>1. a \in Desc /\ Sent(a) => Sent(a)'
    BY <1>4, <1>7 DEF Sent
  <2>2. Greets(l) => Greeting(a)
    BY <1>1, <1>3, <1>4 DEF Greets, Greeting, Stage
  <2>3. count' \in [Desc -> Nat] /\ \A d \in Desc : count'[d] <= count[d]
    BY <1>8 DEF IInv, Types
  <2> QED
    BY <1>4, <1>7, <1>8, <2>1, <2>2, <2>3, CountsMove
<1>20. Aborts'
  BY <1>4, <1>7, Kinds DEF Aborts, Running, At
<1>21. NoLostWakeup'
  BY <1>3, <1>4, <1>7, <1>8, WakeMove
<1> QED
  BY <1>9, <1>10, <1>12, <1>13, <1>16, <1>17, <1>18, <1>19, <1>20, <1>21 DEF IInv

\* The descriptor leaves its task's lists, and its hangup begins.
LEMMA DeleteStep ==
  ASSUME IInv, Running, NEW a \in Activity, Delete(a)
  PROVE  IInv'
<1>1. PICK x : x = act[a].drop
  OBVIOUS
<1>2. PICK t : t = task[x]
  OBVIOUS
<1>3. PICK l : l = Return(a)
  OBVIOUS
<1>4. PICK h : h = [Idle EXCEPT !.pc = "hangup"]
  OBVIOUS
<1>5. /\ l \in Local /\ Shape(a, l) /\ x \in Desc /\ x \in ends /\ x \in descs
      /\ act[a].next \in {"idle", "have", "remotetask", "greet", "wake", "scan", "unhook", "await"}
      /\ l.pc = act[a].next /\ l.next = NULL /\ l.drop = NULL
      /\ l.own = act[a].own /\ l.peer = act[a].peer /\ l.ref = act[a].ref /\ l.msg = act[a].msg
      /\ Stage(l) = Stage(act[a]) /\ act[a].pc = "delete"
      /\ a \in Desc => act[a].next \in {"scan", "unhook"}
  BY <1>1, <1>3, AtDeref DEF Delete, At
<1>6. \A d \in Desc : Weight(a, act[a], d) = Weight(a, l, d)
  <2> TAKE d \in Desc
  <2>1. Weight(a, act[a], d) = Weight(a, l, d) + (IF d = act[a].drop /\ act[a].pc = "deref" THEN 1 ELSE 0)
    BY <1>3, <1>5, AtDeref DEF At
  <2>2. Weight(a, l, d) \in Nat
    BY DEF Weight
  <2> QED
    BY <1>5, <2>1, <2>2
<1>7. /\ x \in isClosed /\ refCount[x] = 0 /\ At(x, "idle") /\ t \in Task
      /\ \A b \in Activity : At(b, "delete") /\ act[b].drop = x => b = a
  BY <1>1, <1>2, <1>5 DEF IInv, Refs, Tasks, At
<1>8. x # a /\ x \in Activity /\ act[x] = Idle /\ Idle \in Local
  BY <1>5, <1>7, AtIdle, Kinds DEF At
<1>9. /\ h \in Local /\ h.pc = "hangup" /\ h.next = NULL /\ h.drop = NULL
      /\ h.own = NULL /\ h.peer = NULL /\ h.ref = NULL /\ h.msg = NULL
  BY <1>4, <1>8 DEF Local, Phase, Idle
<1>10. /\ pending' = pending \ {x}
       /\ table' = [table EXCEPT ![t] = Unlinked(table[t], x)]
       /\ act' = [act EXCEPT ![a] = l, ![x].pc = "hangup"]
       /\ UNCHANGED <<state, asleep, socks, ends, hasBeenConnected, told, lost, count, descs, task,
                      isClosed, refCount, stuck>>
  BY <1>1, <1>2, <1>3 DEF Delete, taskVars, sockVars, descVars
<1>11. /\ act'[a] = l /\ act'[x] = h /\ act' \in [Activity -> Local]
       /\ \A b \in Activity : b # a /\ b # x => act'[b] = act[b]
  <2>1. act \in [Activity -> Local]
    BY DEF IInv, Types, Local
  <2>2. act' = [[act EXCEPT ![a] = l] EXCEPT ![x] = h]
    BY <1>4, <1>8, <1>10, <2>1
  <2> QED
    BY <1>5, <1>8, <1>9, <2>1, <2>2
<1>12. /\ table[t] \in Seq(Desc) /\ IsInjective(table[t])
       /\ table'[t] = Unlinked(table[t], x) /\ \A s \in Task : s # t => table'[s] = table[s]
  BY <1>7, <1>10 DEF IInv, Types, Lists
<1>13. /\ table'[t] \in Seq(Desc) /\ IsInjective(table'[t])
       /\ \A e : e \in ToSet(table'[t]) <=> e \in ToSet(table[t]) /\ e # x
  BY <1>12, UnlinkedEntries
<1>14. Types'
  <2>1. table' \in [Task -> Seq(Desc)]
    BY <1>10, <1>12, <1>13 DEF IInv, Types
  <2> QED
    BY <1>10, <1>11, <2>1 DEF IInv, Types, Local
<1>15. Shapes'
  <2>1. x \notin User /\ x \notin Async /\ x \notin Task
    BY <1>5, Kinds
  <2>2. Shape(x, h)
    BY <1>5, <1>9, <2>1, NullString DEF Shape, InStage, Gives, Keeps, Fits, Stage, HangupStage
  <2> QED
    BY <1>5, <1>11, <2>2 DEF IInv, Shapes
<1>16. \A d \in Desc : d # x => SameLife(act[d].pc, act'[d].pc)
  BY <1>5, <1>11, Kinds DEF SameLife
<1>17. Life'
  <2>1. \A d \in Desc : /\ act'[d].pc \in {"free", "freeboth"} <=> act[d].pc \in {"free", "freeboth"}
                        /\ Frees(d)' <=> Frees(d)
                        /\ act'[d].pc # "idle" /\ act[d].pc = "idle" => d \in ends
    BY <1>5, <1>7, <1>9, <1>11, <1>16 DEF SameLife, Frees, At
  <2> QED
    BY <1>10, <2>1, LifeKept
<1>18. \A d \in Desc : Sent(d)' <=> Sent(d)
  BY <1>7, <1>9, <1>11, <1>16 DEF SameLife, Sent, At
<1>19. Told'
  BY <1>10, <1>18, ToldKept
<1>20. \A b \in Activity, d \in Desc : b # a =>
         /\ OwnRef(b, d)' <=> OwnRef(b, d)
         /\ PeerRef(b, d)' <=> PeerRef(b, d)
         /\ DropRef(b, d)' <=> DropRef(b, d)
  <2> TAKE b \in Activity, d \in Desc
  <2>1. CASE b = x
    BY <1>8, <1>9, <1>11, <2>1, Kinds DEF OwnRef, PeerRef, DropRef, Idle
  <2>2. CASE b # x
    BY <1>11, <2>2 DEF OwnRef, PeerRef, DropRef, At
  <2> QED
    BY <2>1, <2>2
<1>21. Refs'
  <2>1. RefsExact'
    <3> SUFFICES ASSUME NEW d \in descs PROVE refCount[d] = HeldRefs(d)'
      BY <1>10 DEF RefsExact
    <3>1. d \in Desc /\ refCount[d] = HeldRefs(d)
      BY DEF IInv, Refs, RefsExact, Types
    <3>2. HeldRefs(d)' = HeldRefs(d) - Weight(a, act[a], d) + Weight(a, act'[a], d)
      BY <1>20, <3>1, HeldMoves
    <3>3. HeldRefs(d) \in Nat /\ Weight(a, act[a], d) \in Nat
      BY HeldZero DEF Weight
    <3> QED
      BY <1>6, <1>11, <3>1, <3>2, <3>3
  <2>2. ASSUME NEW b \in Activity, NEW d \in Desc,
               (OwnRef(b, d) \/ PeerRef(b, d) \/ act[b].drop = d)'
        PROVE  d \in ends
    <3>1. CASE b = a
      <4>1. Weight(a, l, d) # 0
        BY <1>5, <1>11, <2>2, <3>1, Kinds DEF OwnRef, PeerRef, At, Weight
      <4> QED
        BY <1>6, <4>1, Referenced
    <3>2. CASE b = x
      BY <1>9, <1>11, <2>2, <3>2, Kinds DEF OwnRef, PeerRef
    <3>3. CASE b # a /\ b # x
      BY <1>11, <2>2, <3>3 DEF IInv, Refs, OwnRef, PeerRef, At
    <3> QED
      BY <3>1, <3>2, <3>3
  <2>3. ASSUME NEW d \in descs, ~At(d, "idle")'
        PROVE  d \in isClosed /\ refCount[d] = 0
    <3>1. d \in Desc /\ d \in Activity
      BY Kinds DEF IInv, Types
    <3>2. CASE d = x
      BY <1>7, <3>2
    <3>3. CASE d # x
      <4>1. ~At(d, "idle")
        BY <1>5, <1>11, <2>3, <3>1, <3>3 DEF At
      <4> QED
        BY <4>1 DEF IInv, Refs
    <3> QED
      BY <3>2, <3>3
  <2>4. ASSUME NEW b \in Activity, At(b, "delete")'
        PROVE  /\ b # a /\ act'[b] = act[b] /\ At(b, "delete")
               /\ act'[b].drop \in isClosed /\ refCount[act'[b].drop] = 0
               /\ act'[act'[b].drop].pc = "idle"
    <3>1. b # a /\ b # x /\ act'[b] = act[b] /\ At(b, "delete")
      BY <1>5, <1>9, <1>11, <2>4 DEF At
    <3>2. PICK d : d = act[b].drop
      OBVIOUS
    <3>3. d \in isClosed /\ refCount[d] = 0 /\ At(d, "idle") /\ d \in Desc /\ d # x
      BY <1>7, <3>1, <3>2 DEF IInv, Refs, Types
    <3>4. act'[d].pc = "idle"
      BY <1>5, <1>11, <3>3, Kinds DEF At
    <3> QED
      BY <3>1, <3>2, <3>3, <3>4
  <2>5. \A b, c \in Activity : (At(b, "delete") /\ At(c, "delete") /\ act[b].drop = act[c].drop)' => b = c
    BY <2>4 DEF IInv, Refs
  <2> QED
    BY <1>10, <2>1, <2>2, <2>3, <2>4, <2>5 DEF Refs, At
<1>22. Tasks'
  <2>1. ASSUME NEW b \in Activity, act'[b].ref # NULL
        PROVE  state[act'[b].ref] \in {"live", "killed"}
    BY <1>5, <1>9, <1>11, <2>1 DEF IInv, Tasks
  <2>2. ASSUME NEW s \in Task, ~At(s, "idle")'
        PROVE  state[s] = "reaping"
    BY <1>5, <1>11, <2>2, Kinds DEF IInv, Tasks, At
  <2>3. ASSUME NEW u \in User, ~At(u, "idle")'
        PROVE  state[Home[u]] \in {"live", "killed"}
    BY <1>5, <1>11, <2>3, Kinds DEF IInv, Tasks, At
  <2> QED
    BY <1>10, <2>1, <2>2, <2>3 DEF IInv, Tasks
<1>23. Lists'
  <2>1. ASSUME NEW d \in Desc, d # x, At(d, "idle") PROVE At(d, "idle")'
    BY <1>5, <1>11, <2>1, Kinds DEF At
  <2>2. pending \subseteq Desc /\ ends \subseteq Desc
    BY DEF IInv, Types
  <2>3. \A d \in pending' : d \in ends /\ At(d, "idle")'
    BY <1>10, <2>1, <2>2 DEF IInv, Lists
  <2>4. \A s \in Task : \A d \in ToSet(table'[s]) : d \in ToSet(table[s]) /\ d # x
    BY <1>2, <1>12, <1>13 DEF IInv, Lists
  <2>5. \A s \in Task : \A d \in ToSet(table'[s]) : d \in ends /\ At(d, "idle")' /\ task[d] = s
    BY <2>1, <2>2, <2>4 DEF IInv, Lists
  <2>6. \A s \in Task : IsInjective(table'[s])
    BY <1>12, <1>13 DEF IInv, Lists
  <2>7. ASSUME NEW u \in User, At(u, "insert")'
        PROVE  task[act'[u].peer] = act'[u].ref /\ \A s \in Task : act'[u].peer \notin ToSet(table'[s])
    <3>1. act'[u] = act[u] /\ At(u, "insert")
      BY <1>5, <1>9, <1>11, <2>7, Kinds DEF At
    <3> QED
      BY <2>4, <3>1 DEF IInv, Lists, Listed
  <2>8. \A u \in User : At(u, "insert")' => (task[act[u].peer] = act[u].ref /\ ~Listed(act[u].peer))'
    BY <1>10, <2>7 DEF Listed
  <2> QED
    BY <1>10, <2>3, <2>5, <2>6, <2>8 DEF Lists
<1>24. Counts'
  <2>1. \A u \in User : Greeting(u)' => Greeting(u) /\ act'[u].own = act[u].own
    BY <1>5, <1>11, Kinds DEF Greeting, Greets
  <2>2. count' \in [Desc -> Nat] /\ \A d \in Desc : count'[d] <= count[d]
    BY <1>10 DEF IInv, Types
  <2> QED
    BY <1>10, <1>14, <1>18, <2>1, <2>2, CountsKept DEF Types
<1>25. Aborts'
  BY <1>5, <1>11, Kinds DEF Aborts, Running, At
<1>26. NoLostWakeup'
  <2>1. \A b \in Activity : "scan" \in {act[b].pc, act[b].next} =>
          "scan" \in {act'[b].pc, act'[b].next} /\ act'[b].ref = act[b].ref
    BY <1>5, <1>8, <1>11, NullString DEF Idle
  <2> QED
    BY <1>10, <2>1, WakeKept
<1> QED
  BY <1>14, <1>15, <1>17, <1>19, <1>21, <1>22, <1>23, <1>24, <1>25, <1>26 DEF IInv

-----------------------------------------------------------------------------
(* Steps that change the lists, the flags or the counters as well.         *)

\* An activity that works with no descriptor of anybody else
LEMMA AtBare ==
  ASSUME IInv, NEW a \in Activity,
         act[a].pc \in {"idle", "pick", "spin", "freetask", "hangup", "unhook", "free", "freeboth",
                        "freesock", "await", "scan"}
  PROVE  /\ act[a] \in Local /\ Shape(a, act[a])
         /\ act[a].drop = NULL /\ act[a].next = NULL /\ Stage(act[a]) = act[a].pc
         /\ act[a].pc # "await" => act[a].own = NULL
         /\ act[a].pc # "scan" => act[a].peer = NULL /\ act[a].ref = NULL
         /\ act[a].msg = NULL
         /\ \A d \in Desc : Weight(a, act[a], d) = 0
<1>1. /\ act[a] \in Local /\ Shape(a, act[a])
      /\ act[a].drop = NULL /\ act[a].next = NULL /\ Stage(act[a]) = act[a].pc
  BY NotGiving
<1>2. /\ act[a].pc # "await" => act[a].own = NULL
      /\ act[a].pc # "scan" => act[a].peer = NULL /\ act[a].ref = NULL
      /\ act[a].msg = NULL
  BY <1>1 DEF Shape, Keeps
<1>3. act[a].pc = "await" => a \in Task
  BY <1>1, Kinds DEF Shape, InStage, UserStage, AsyncStage, HangupStage
<1> QED
  BY <1>1, <1>2, <1>3, Kinds DEF Weight

\* The local variables of an idle activity, at another place
LEMMA Bare ==
  ASSUME NEW p \in Phase
  PROVE  /\ [Idle EXCEPT !.pc = p] \in Local
         /\ [Idle EXCEPT !.pc = p].pc = p /\ [Idle EXCEPT !.pc = p].own = NULL
         /\ [Idle EXCEPT !.pc = p].peer = NULL /\ [Idle EXCEPT !.pc = p].ref = NULL
         /\ [Idle EXCEPT !.pc = p].msg = NULL /\ [Idle EXCEPT !.pc = p].drop = NULL
         /\ [Idle EXCEPT !.pc = p].next = NULL
  BY DEF Idle, Local

\* A step in which no activity moves
LEMMA Stays ==
  ASSUME IInv, NEW a \in Activity, act' = act, refCount' = refCount,
         act[a].pc \notin {"delete", "insert"}
  PROVE  Plain(a, act[a]) /\ Counted(a, act[a])
<1>1. act[a] \in Local /\ Shape(a, act[a])
  BY LocalType DEF IInv, Shapes
<1>2. Moves(a, act[a])
  BY <1>1 DEF Moves, IInv, Types
<1>3. Plain(a, act[a])
  BY <1>1, <1>2 DEF Plain, SameLife, IInv, Tasks, At, Greeting
<1>4. Counted(a, act[a])
  BY Passes DEF IInv
<1> QED
  BY <1>3, <1>4

\* Nobody aborts in a step to any other place.
LEMMA NoAbort ==
  ASSUME IInv, Running, NEW a \in Activity, NEW l, Moves(a, l), l.pc # "abort"
  PROVE  Aborts'
<1>1. /\ act'[a] = l
      /\ \A b \in Activity : b # a => act'[b] = act[b]
  BY OthersStay DEF IInv
<1> QED
  BY <1>1, Kinds DEF Running, At, Aborts

\* The kill job references the first descriptor of the table, or is done.
LEMMA KillPickStep ==
  ASSUME IInv, Running, NEW t \in Task, KillPick(t)
  PROVE  IInv'
<1>1. t \in Activity /\ t \notin Desc /\ t \notin User /\ t \notin Async
  BY Kinds
<1>2. /\ act[t].pc = "pick"
      /\ UNCHANGED <<taskVars, sockVars, count, descVars, listVars>>
  BY DEF KillPick, At
<1>3. /\ act[t] \in Local /\ act[t].drop = NULL /\ act[t].next = NULL /\ act[t].own = NULL
      /\ act[t].peer = NULL /\ act[t].ref = NULL /\ act[t].msg = NULL
      /\ \A d \in Desc : Weight(t, act[t], d) = 0
  BY <1>1, <1>2, AtBare
<1>4. CASE SocketsDone(t)
  <2>1. PICK l : l = [act[t] EXCEPT !.pc = "freetask"]
    OBVIOUS
  <2>2. act' = [act EXCEPT ![t] = l] /\ refCount' = refCount
    BY <1>4, <2>1 DEF KillPick, Goto, Become
  <2>3. /\ l \in Local /\ l.pc = "freetask" /\ l.drop = NULL /\ l.next = NULL /\ l.own = NULL
        /\ l.peer = NULL /\ l.ref = NULL /\ l.msg = NULL
    BY <1>3, <2>1 DEF Local, Phase
  <2>4. Shape(t, l)
    BY <1>1, <2>3, NullString DEF Shape, InStage, Gives, Keeps, Fits, Stage, KillStage
  <2>5. Plain(t, l)
    BY <1>1, <1>2, <2>2, <2>3, <2>4 DEF Plain, Moves
  <2>6. Counted(t, l)
    <3>1. \A d \in Desc : Weight(t, l, d) = Weight(t, act[t], d)
      BY <1>3, <2>3, Kinds DEF Weight
    <3> QED
      BY <1>1, <2>2, <3>1, Passes DEF IInv
  <2> QED
    BY <1>1, <1>2, <1>3, <2>3, <2>5, <2>6, StillStep, NullString
<1>5. CASE ~SocketsDone(t)
  <2>1. PICK x : x = Head(table[t])
    OBVIOUS
  <2>2. x \in ends /\ x \in Desc /\ x # NULL
    <3>1. 1 \in DOMAIN table[t] /\ table[t] \in Seq(Desc)
      BY <1>5 DEF SocketsDone, IInv, Types
    <3>2. x \in ToSet(table[t])
      BY <2>1, <3>1 DEF ToSet
    <3> QED
      BY <3>2, Kinds DEF IInv, Lists, Types
  <2>3. PICK l : l = [Idle EXCEPT !.pc = "close", !.own = x]
    OBVIOUS
  <2>4. act' = [act EXCEPT ![t] = l] /\ Reference(x)
    BY <1>5, <2>1, <2>3 DEF KillPick, Become
  <2>5. /\ l \in Local /\ l.pc = "close" /\ l.drop = NULL /\ l.next = NULL /\ l.own = x
        /\ l.peer = NULL /\ l.ref = NULL /\ l.msg = NULL
    BY <2>2, <2>3 DEF Local, Phase, Idle
  <2>6. Shape(t, l)
    BY <1>1, <2>2, <2>5, NullString DEF Shape, InStage, Gives, Keeps, Fits, Stage, KillStage
  <2>7. Plain(t, l)
    BY <1>1, <1>2, <2>4, <2>5, <2>6 DEF Plain, Moves
  <2>8. Counted(t, l)
    <3>1. \A d \in Desc : Weight(t, l, d) = Weight(t, act[t], d) + (IF d = x THEN 1 ELSE 0)
      BY <1>3, <2>2, <2>5, Kinds DEF Weight
    <3> QED
      BY <1>1, <2>2, <2>4, <3>1, Takes DEF IInv
  <2> QED
    BY <1>1, <1>2, <1>3, <2>5, <2>7, <2>8, StillStep, NullString
<1> QED
  BY <1>4, <1>5

\* The kill job closes the descriptor and lets it go.
LEMMA KillCloseStep ==
  ASSUME IInv, Running, NEW t \in Task, KillClose(t)
  PROVE  IInv'
<1>1. t \in Activity /\ t \notin Desc /\ t \notin User /\ t \notin Async
  BY Kinds
<1>2. PICK x : x = act[t].own
  OBVIOUS
<1>3. PICK l : l = [act[t] EXCEPT !.pc = "deref", !.drop = x, !.next = "await"]
  OBVIOUS
<1>4. /\ act[t].pc = "close" /\ refCount' = refCount /\ isClosed' = isClosed \cup {x}
      /\ act' = [act EXCEPT ![t] = l]
      /\ UNCHANGED <<state, sockVars, descs, task, table>>
      /\ UNCHANGED <<asleep, stuck, pending, count>>
  BY <1>2, <1>3 DEF KillClose, At, Dereference, Become, taskVars, listVars
<1>5. /\ act[t] \in Local /\ Shape(t, act[t]) /\ act[t].drop = NULL /\ act[t].next = NULL
      /\ Stage(act[t]) = act[t].pc
  BY <1>1, <1>4, NotGiving
<1>6. x # NULL /\ act[t].peer = NULL /\ act[t].ref = NULL /\ act[t].msg = NULL
  BY <1>2, <1>4, <1>5 DEF Shape, Keeps
<1>7. x \in Desc
  BY <1>2, <1>5, <1>6 DEF Local
<1>8. /\ l \in Local /\ l.pc = "deref" /\ l.drop = x /\ l.next = "await" /\ l.own = x
      /\ l.peer = NULL /\ l.ref = NULL /\ l.msg = NULL
  BY <1>2, <1>3, <1>5, <1>6, <1>7 DEF Local, Phase
<1>9. Shape(t, l)
  BY <1>1, <1>6, <1>8, NullString DEF Shape, InStage, Gives, Keeps, Fits, Stage, KillStage
<1>10. Plain(t, l) /\ Moves(t, l)
  BY <1>1, <1>4, <1>8, <1>9 DEF Plain, Moves
<1>11. Counted(t, l)
  <2>1. \A d \in Desc : Weight(t, l, d) = Weight(t, act[t], d)
    BY <1>1, <1>2, <1>4, <1>5, <1>6, <1>8, Kinds DEF Weight
  <2> QED
    BY <1>1, <1>4, <2>1, Passes DEF IInv
<1>12. Aborts'
  BY <1>1, <1>8, <1>10, NoAbort
<1>13. NoLostWakeup'
  BY <1>1, <1>4, <1>5, <1>10, WakeMove, NullString
<1>14. /\ asleep' \subseteq User /\ stuck' \subseteq Task /\ isClosed' \subseteq Desc
       /\ count' \in [Desc -> Nat] /\ \A d \in Desc : count'[d] <= count[d]
  BY <1>4, <1>7 DEF IInv, Types
<1> QED
  BY <1>1, <1>4, <1>10, <1>11, <1>12, <1>13, <1>14, QuietStep

\* The kill job goes on with the next descriptor, or gets stuck.
LEMMA KillAwaitStep ==
  ASSUME IInv, Running, NEW t \in Task, KillAwait(t)
  PROVE  IInv'
<1>1. t \in Activity /\ t \notin Desc /\ t \notin User /\ t \notin Async
  BY Kinds
<1>2. PICK p \in {"spin", "pick"} : act' = [act EXCEPT ![t] = [Idle EXCEPT !.pc = p]]
  BY DEF KillAwait, Become
<1>3. PICK l : l = [Idle EXCEPT !.pc = p]
  OBVIOUS
<1>4. /\ act[t].pc = "await" /\ refCount' = refCount /\ stuck' \subseteq stuck \cup {t}
      /\ UNCHANGED <<state, sockVars, descs, task, table>>
      /\ UNCHANGED <<asleep, pending, count, isClosed>>
  BY DEF KillAwait, At, taskVars, descVars
<1>5. act[t].next = NULL /\ \A d \in Desc : Weight(t, act[t], d) = 0
  BY <1>1, <1>4, AtBare
<1>6. /\ l \in Local /\ l.pc = p /\ l.drop = NULL /\ l.next = NULL /\ l.own = NULL
      /\ l.peer = NULL /\ l.ref = NULL /\ l.msg = NULL
  BY <1>3, Bare, SMTT(30) DEF Phase
<1>7. Shape(t, l)
  BY <1>1, <1>6, NullString DEF Shape, InStage, Gives, Keeps, Fits, Stage, KillStage
<1>8. Plain(t, l) /\ Moves(t, l)
  BY <1>1, <1>2, <1>3, <1>4, <1>6, <1>7 DEF Plain, Moves
<1>9. Counted(t, l)
  <2>1. \A d \in Desc : Weight(t, l, d) = Weight(t, act[t], d)
    BY <1>5, <1>6, Kinds DEF Weight
  <2> QED
    BY <1>1, <1>4, <2>1, Passes DEF IInv
<1>10. Aborts'
  BY <1>1, <1>6, <1>8, NoAbort
<1>11. NoLostWakeup'
  BY <1>1, <1>4, <1>5, <1>8, WakeMove, NullString
<1>12. /\ asleep' \subseteq User /\ stuck' \subseteq Task /\ isClosed' \subseteq Desc
       /\ count' \in [Desc -> Nat] /\ \A d \in Desc : count'[d] <= count[d]
  BY <1>4 DEF IInv, Types
<1> QED
  BY <1>1, <1>4, <1>8, <1>9, <1>10, <1>11, <1>12, QuietStep

\* The connect message goes to the new end, or the kernel aborts because that
\* end has been closed.
LEMMA ConnectMsgStep ==
  ASSUME IInv, Running, NEW u \in User, ConnectMsg(u)
  PROVE  IInv'
<1>1. u \in Activity /\ u \notin Desc /\ u \notin Task /\ u \notin Async /\ At(u, "greet")
  BY Kinds DEF ConnectMsg
<1>2. PICK o : o = Receiver(act[u].own[1])
  OBVIOUS
<1>3. CASE ReferenceOther(u, o, "connect", "push")
  BY <1>1, <1>2, <1>3, ReferenceOtherStep
<1>4. CASE NoOther(u, o, "abort")
  <2>1. PICK l : l = [act[u] EXCEPT !.pc = "abort"]
    OBVIOUS
  <2>2. /\ ~Reachable(o) /\ act' = [act EXCEPT ![u] = l] /\ refCount' = refCount /\ act[u].pc = "greet"
        /\ UNCHANGED <<state, sockVars, descs, task, table>>
        /\ UNCHANGED <<asleep, stuck, pending, count, isClosed, ends>>
    BY <1>1, <1>4, <2>1 DEF NoOther, Goto, Become, At, taskVars, descVars, listVars, sockVars
  <2>3. /\ act[u] \in Local /\ Shape(u, act[u]) /\ act[u].drop = NULL /\ act[u].next = NULL
        /\ Stage(act[u]) = act[u].pc
    BY <1>1, <2>2, NotGiving
  <2>4. /\ act[u].own # NULL /\ act[u].peer = NULL /\ act[u].ref = NULL /\ act[u].msg = NULL
        /\ act[u].own = Connector(act[u].own[1])
    BY <2>2, <2>3 DEF Shape, Keeps, Fits
  <2>5. /\ l \in Local /\ l.pc = "abort" /\ l.drop = NULL /\ l.next = NULL /\ l.own = act[u].own
        /\ l.peer = NULL /\ l.ref = NULL /\ l.msg = NULL
    BY <2>1, <2>3, <2>4 DEF Local, Phase
  <2>6. Shape(u, l)
    BY <1>1, <2>4, <2>5, NullString DEF Shape, InStage, Gives, Keeps, Fits, Stage, UserStage
  <2>7. state[Home[u]] \in {"live", "killed"}
    BY <2>2 DEF IInv, Tasks, At
  <2>8. Plain(u, l) /\ Moves(u, l)
    BY <1>1, <2>2, <2>5, <2>6, <2>7, NullString DEF Plain, Moves, Greets, Stage
  <2>9. Counted(u, l)
    <3>1. \A d \in Desc : Weight(u, l, d) = Weight(u, act[u], d)
      BY <1>1, <2>2, <2>3, <2>4, <2>5 DEF Weight
    <3> QED
      BY <1>1, <2>2, <3>1, Passes DEF IInv
  <2>10. Aborts'
    <3>1. /\ act'[u] = l
          /\ \A b \in Activity : b # u => act'[b] = act[b]
      BY <1>1, <2>8, OthersStay DEF IInv
    <3>2. \A v \in User : At(v, "abort")' => act'[v].own = act[u].own
      BY <2>5, <3>1, Kinds DEF Running, At
    <3> QED
      BY <1>2, <2>2, <3>2 DEF Aborts, Reachable
  <2>11. NoLostWakeup'
    BY <1>1, <2>2, <2>3, <2>8, WakeMove, NullString
  <2>12. /\ asleep' \subseteq User /\ stuck' \subseteq Task /\ isClosed' \subseteq Desc
         /\ count' \in [Desc -> Nat] /\ \A d \in Desc : count'[d] <= count[d]
    BY <2>2 DEF IInv, Types
  <2> QED
    BY <1>1, <2>2, <2>8, <2>9, <2>10, <2>11, <2>12, QuietStep
<1> QED
  BY <1>2, <1>3, <1>4 DEF ConnectMsg

\* After the scan an activity has let go of everything.
LEMMA AfterScan ==
  ASSUME IInv, NEW a \in Activity, act[a].pc = "scan", NEW p, p = Woken(a) \/ p = "wild",
         act' = [act EXCEPT ![a] = [Idle EXCEPT !.pc = p]], refCount' = refCount
  PROVE  /\ Plain(a, [Idle EXCEPT !.pc = p]) /\ Counted(a, [Idle EXCEPT !.pc = p])
         /\ Moves(a, [Idle EXCEPT !.pc = p]) /\ [Idle EXCEPT !.pc = p].pc # "abort"
<1>1. PICK l : l = [Idle EXCEPT !.pc = p]
  OBVIOUS
<1>2. p \in {"idle", "unhook", "wild"} /\ p \in Phase
  BY DEF Woken, Phase
<1>3. /\ l \in Local /\ l.pc = p /\ l.drop = NULL /\ l.next = NULL /\ l.own = NULL
      /\ l.peer = NULL /\ l.ref = NULL /\ l.msg = NULL
  BY <1>1, <1>2, Bare
<1>4. Shape(a, act[a]) /\ Stage(act[a]) = "scan" /\ \A d \in Desc : Weight(a, act[a], d) = 0
  BY AtBare
<1>5. a \notin Task
  BY <1>4 DEF Shape, InStage, KillStage
<1>6. p = "unhook" => a \in Desc
  BY DEF Woken
<1>7. a \in Desc => p # "idle"
  BY DEF Woken
<1>8. Shape(a, l)
  <2>1. Stage(l) = p
    BY <1>3 DEF Stage
  <2>2. InStage(a, l)
    BY <1>2, <1>5, <1>6, <2>1, Kinds DEF InStage, UserStage, AsyncStage, HangupStage
  <2>3. Gives(a, l) /\ Keeps(a, l) /\ Fits(a, l)
    BY <1>2, <1>3, <2>1, NullString DEF Gives, Keeps, Fits
  <2> QED
    BY <2>2, <2>3 DEF Shape
<1>9. Plain(a, l)
  <2>1. Moves(a, l)
    BY <1>1, <1>3 DEF Moves
  <2>2. a \in Desc => SameLife(act[a].pc, l.pc)
    BY <1>2, <1>3, <1>7 DEF SameLife
  <2>3. ~Greets(l)
    BY <1>2, <1>3, NullString DEF Greets, Stage
  <2>4. a \in User => state[Home[a]] \in {"live", "killed"}
    BY DEF IInv, Tasks, At
  <2> QED
    BY <1>2, <1>3, <1>5, <1>8, <2>1, <2>2, <2>3, <2>4 DEF Plain
<1>10. Counted(a, l)
  <2>1. \A d \in Desc : Weight(a, l, d) = Weight(a, act[a], d)
    BY <1>3, <1>4, Kinds DEF Weight
  <2> QED
    BY <2>1, Passes DEF IInv
<1> QED
  BY <1>1, <1>2, <1>3, <1>9, <1>10 DEF Plain

\* A scan ends well if no thread of the scanned task is left polling, or one
\* of them has been claimed.
LEMMA ScanEnds ==
  ASSUME IInv, Running, NEW a \in Activity, act[a].pc = "scan", NEW p, p = Woken(a) \/ p = "wild",
         act' = [act EXCEPT ![a] = [Idle EXCEPT !.pc = p]],
         asleep' \subseteq asleep,
         (\E u \in User : Home[u] = act[a].ref /\ u \notin asleep')
           \/ (\A u \in asleep : Home[u] # act[a].ref),
         UNCHANGED <<state, sockVars, count, descVars, refCount, listVars>>
  PROVE  IInv'
<1>1. PICK l : l = [Idle EXCEPT !.pc = p]
  OBVIOUS
<1>2. Plain(a, l) /\ Counted(a, l) /\ Moves(a, l) /\ l.pc # "abort"
  BY <1>1, AfterScan
<1>3. /\ UNCHANGED <<state, sockVars, descs, task, table>>
      /\ UNCHANGED <<stuck, pending, count, isClosed>>
  BY DEF descVars, listVars
<1>4. Aborts'
  BY <1>2, NoAbort
<1>5. NoLostWakeup'
  <2> SUFFICES ASSUME NEW t \in Task, state[t] = "live", NEW v \in User, Home[v] = t,
                      \A u \in User : Home[u] = t => u \in asleep',
                      NEW d \in pending, task[d] = t
               PROVE  \E b \in Activity : act'[b].ref = t /\ "scan" \in {act'[b].pc, act'[b].next}
    BY <1>3 DEF NoLostWakeup
  <2>1. \A u \in User : Home[u] = t => u \in asleep
    OBVIOUS
  <2>2. PICK b \in Activity : act[b].ref = t /\ "scan" \in {act[b].pc, act[b].next}
    BY <2>1 DEF IInv, NoLostWakeup
  <2>3. t # act[a].ref
    BY <2>1
  <2>4. act'[b] = act[b]
    BY <1>2, <2>2, <2>3, OthersStay DEF IInv
  <2> QED
    BY <2>2, <2>4
<1>6. /\ asleep' \subseteq User /\ stuck' \subseteq Task /\ isClosed' \subseteq Desc
      /\ count' \in [Desc -> Nat] /\ \A d \in Desc : count'[d] <= count[d]
  BY <1>3 DEF IInv, Types
<1> QED
  BY <1>2, <1>3, <1>4, <1>5, <1>6, QuietStep

\* A polling thread is claimed.
LEMMA ScanFoundStep ==
  ASSUME IInv, Running, NEW a \in Activity, ScanFound(a)
  PROVE  IInv'
<1>1. /\ act[a].pc = "scan" /\ act' = [act EXCEPT ![a] = [Idle EXCEPT !.pc = Woken(a)]]
      /\ UNCHANGED <<state, sockVars, count, descVars, refCount, listVars>>
  BY DEF ScanFound, At, Scanned, Become
<1>2. PICK u \in asleep : Home[u] = act[a].ref /\ asleep' = asleep \ {u}
  BY DEF ScanFound
<1>3. u \in User /\ u \notin asleep' /\ asleep' \subseteq asleep
  BY <1>2 DEF IInv, Types
<1> QED
  BY <1>1, <1>2, <1>3, ScanEnds

\* No thread is polling.
LEMMA ScanNoneStep ==
  ASSUME IInv, Running, NEW a \in Activity, ScanNone(a)
  PROVE  IInv'
<1>1. PICK p : (p = Woken(a) \/ p = "wild") /\ act' = [act EXCEPT ![a] = [Idle EXCEPT !.pc = p]]
  BY DEF ScanNone, Scanned, Become
<1>2. /\ act[a].pc = "scan" /\ asleep' \subseteq asleep /\ \A u \in asleep : Home[u] # act[a].ref
      /\ UNCHANGED <<state, sockVars, count, descVars, refCount, listVars>>
  BY DEF ScanNone, At, taskVars
<1> QED
  BY <1>1, <1>2, ScanEnds

\* The receiving task is about to be scanned when its descriptor is pending.
LEMMA WakeupEndpointStep ==
  ASSUME IInv, Running, NEW a \in Activity, WakeupEndpoint(a)
  PROVE  IInv'
<1>1. PICK x : x = act[a].peer
  OBVIOUS
<1>2. PICK t : t = task[x]
  OBVIOUS
<1>3. /\ act[a] \in Local /\ Shape(a, act[a]) /\ act[a].pc = "wake"
      /\ act[a].drop = NULL /\ act[a].next = NULL /\ Stage(act[a]) = act[a].pc
  BY NotGiving DEF WakeupEndpoint, At
<1>4. act[a].own = NULL /\ x # NULL /\ act[a].ref = NULL /\ act[a].msg = NULL
  BY <1>1, <1>3 DEF Shape, Keeps
<1>5. x \in Desc /\ a \notin Task /\ (a \in Desc => x = OtherEnd(a))
  BY <1>1, <1>3, <1>4 DEF Local, Shape, InStage, KillStage, Fits
<1>6. x \in ends /\ At(x, "idle") /\ t \in Task
  <2>1. Weight(a, act[a], x) # 0
    BY <1>1, <1>3, <1>4, <1>5, NullString DEF Weight
  <2>2. x \in ends /\ x \in descs /\ At(x, "idle")
    BY <1>5, <2>1, Referenced
  <2> QED
    BY <1>2, <2>2 DEF IInv, Tasks
<1>7. a \in User => state[Home[a]] \in {"live", "killed"}
  BY <1>3 DEF IInv, Tasks, At
<1>8. /\ UNCHANGED <<state, sockVars, descs, task, table>>
      /\ UNCHANGED <<asleep, stuck, count, isClosed, refCount>>
  BY DEF WakeupEndpoint, taskVars, descVars
<1>9. /\ asleep' \subseteq User /\ stuck' \subseteq Task /\ isClosed' \subseteq Desc
      /\ count' \in [Desc -> Nat] /\ \A d \in Desc : count'[d] <= count[d]
  BY <1>8 DEF IInv, Types
<1>10. CASE state[t] = "live"
  <2>1. PICK l : l = [act[a] EXCEPT !.ref = t, !.pc = "deref", !.drop = x, !.next = "scan"]
    OBVIOUS
  <2>2. act' = [act EXCEPT ![a] = l] /\ pending' = pending \cup {x}
    BY <1>1, <1>2, <1>3, <1>10, <2>1 DEF WakeupEndpoint, Dereference, Become, Local
  <2>3. /\ l \in Local /\ l.pc = "deref" /\ l.drop = x /\ l.next = "scan" /\ l.own = NULL
        /\ l.peer = x /\ l.ref = t /\ l.msg = NULL
    BY <1>1, <1>3, <1>4, <1>5, <1>6, <2>1 DEF Local, Phase
  <2>4. Shape(a, l)
    <3>1. Stage(l) = "scan" /\ t # NULL
      BY <1>4, <1>6, <2>3, Kinds DEF Stage
    <3>2. InStage(a, l)
      BY <1>5, <3>1 DEF InStage, UserStage, AsyncStage, HangupStage
    <3>3. Gives(a, l)
      BY <1>4, <1>5, <2>3, NullString DEF Gives
    <3>4. Keeps(a, l) /\ Fits(a, l)
      BY <1>4, <1>5, <2>3, <3>1, NullString DEF Keeps, Fits
    <3> QED
      BY <3>2, <3>3, <3>4 DEF Shape
  <2>5. Plain(a, l) /\ Moves(a, l)
    <3>1. a \in Desc => SameLife(act[a].pc, l.pc)
      BY <1>3, <2>3 DEF SameLife
    <3>2. ~Greets(l)
      BY <1>4, <2>3, NullString DEF Greets, Stage
    <3> QED
      BY <1>5, <1>7, <1>10, <2>2, <2>3, <2>4, <3>1, <3>2 DEF Plain, Moves
  <2>6. Counted(a, l)
    <3>1. \A d \in Desc : Weight(a, l, d) = Weight(a, act[a], d)
      BY <1>1, <1>3, <1>4, <2>3, Kinds, NullString DEF Weight
    <3> QED
      BY <1>8, <3>1, Passes DEF IInv
  <2>7. Aborts'
    BY <2>3, <2>5, NoAbort
  <2>8. NoLostWakeup'
    <3> SUFFICES ASSUME NEW s \in Task, state[s] = "live", NEW v \in User, Home[v] = s,
                        \A u \in User : Home[u] = s => u \in asleep,
                        NEW d \in pending \cup {x}, task[d] = s
                 PROVE  \E b \in Activity : act'[b].ref = s /\ "scan" \in {act'[b].pc, act'[b].next}
      BY <1>8, <2>2 DEF NoLostWakeup
    <3>1. /\ act'[a] = l
          /\ \A b \in Activity : b # a => act'[b] = act[b]
      BY <2>5, OthersStay DEF IInv
    <3>2. CASE d = x
      <4>1. act'[a].ref = s /\ act'[a].next = "scan"
        BY <1>2, <2>3, <3>1, <3>2
      <4> QED
        BY <4>1
    <3>3. CASE d \in pending
      <4>1. PICK b \in Activity : act[b].ref = s /\ "scan" \in {act[b].pc, act[b].next}
        BY <3>3 DEF IInv, NoLostWakeup
      <4>2. b # a
        BY <1>3, <4>1, NullString
      <4> QED
        BY <3>1, <4>1, <4>2
    <3> QED
      BY <3>2, <3>3
  <2>9. \A d \in pending' : d \in pending \/ (d \in ends /\ At(d, "idle"))
    BY <1>6, <2>2
  <2> QED
    BY <1>8, <1>9, <2>5, <2>6, <2>7, <2>8, <2>9, QuietStep
<1>11. CASE state[t] # "live"
  <2>1. PICK l : l = [act[a] EXCEPT !.peer = NULL, !.pc = "deref", !.drop = x, !.next = Woken(a)]
    OBVIOUS
  <2>2. act' = [act EXCEPT ![a] = l] /\ pending' = pending
    BY <1>1, <1>2, <1>3, <1>11, <2>1 DEF WakeupEndpoint, Dereference, Become, Local
  <2>3. /\ l \in Local /\ l.pc = "deref" /\ l.drop = x /\ l.next = Woken(a) /\ l.own = NULL
        /\ l.peer = NULL /\ l.ref = NULL /\ l.msg = NULL /\ Woken(a) \in {"idle", "unhook"}
    BY <1>1, <1>3, <1>4, <1>5, <2>1, ZenonT(30) DEF Local, Phase, Woken
  <2>4. Shape(a, l)
    <3>1. Stage(l) = Woken(a)
      BY <1>4, <2>3 DEF Stage
    <3>2. InStage(a, l)
      BY <1>5, <3>1, Kinds DEF InStage, UserStage, AsyncStage, HangupStage, Woken
    <3>3. Gives(a, l)
      BY <1>4, <1>5, <2>3, NullString DEF Gives, Woken
    <3>4. Keeps(a, l) /\ Fits(a, l)
      BY <1>4, <1>5, <2>3, <3>1, NullString DEF Keeps, Fits
    <3> QED
      BY <3>2, <3>3, <3>4 DEF Shape
  <2>5. Plain(a, l) /\ Moves(a, l)
    <3>1. a \in Desc => SameLife(act[a].pc, l.pc)
      BY <1>3, <2>3 DEF SameLife
    <3>2. ~Greets(l)
      BY <1>4, <2>3, NullString DEF Greets, Stage
    <3> QED
      BY <1>5, <1>7, <2>2, <2>3, <2>4, <3>1, <3>2 DEF Plain, Moves
  <2>6. Counted(a, l)
    <3>1. \A d \in Desc : Weight(a, l, d) = Weight(a, act[a], d)
      BY <1>1, <1>3, <1>4, <2>3, Kinds, NullString DEF Weight
    <3> QED
      BY <1>8, <3>1, Passes DEF IInv
  <2>7. Aborts'
    BY <2>3, <2>5, NoAbort
  <2>8. NoLostWakeup'
    BY <1>3, <1>8, <2>2, <2>5, WakeMove, NullString
  <2> QED
    BY <1>8, <1>9, <2>2, <2>5, <2>6, <2>7, <2>8, QuietStep
<1> QED
  BY <1>10, <1>11

\* A pending descriptor is taken from the list, and referenced if it is open.
LEMMA NextPendingStep ==
  ASSUME IInv, Running, NEW u \in User, NextPending(u)
  PROVE  IInv'
<1>1. u \in Activity /\ u \notin Desc /\ u \notin Task /\ u \notin Async
  BY Kinds
<1>2. /\ At(u, "idle") /\ state[Home[u]] \in {"live", "killed"}
      /\ UNCHANGED <<state, sockVars, descs, task, table>>
      /\ UNCHANGED <<asleep, stuck, count, isClosed>>
  BY DEF NextPending, Calls, taskVars, descVars
<1>3. PICK x \in pending :
        /\ pending' = pending \ {x}
        /\ IF x \in isClosed
             THEN UNCHANGED <<refCount, act>>
             ELSE Reference(x) /\ Become(u, [Idle EXCEPT !.pc = "have", !.own = x])
  BY DEF NextPending
<1>4. x \in ends /\ x \in Desc
  BY DEF IInv, Lists, Types
<1>5. act[u] = Idle /\ Idle \in Local /\ \A d \in Desc : Weight(u, act[u], d) = 0
  BY <1>1, <1>2, AtIdle
<1>6. PICK l : /\ Plain(u, l) /\ Counted(u, l) /\ l.pc \in {"idle", "have"}
  <2>1. CASE x \in isClosed
    <3>1. act' = act /\ refCount' = refCount
      BY <1>3, <2>1
    <3>2. act[u].pc = "idle"
      BY <1>2 DEF At
    <3>3. Plain(u, act[u]) /\ Counted(u, act[u])
      BY <1>1, <3>1, <3>2, Stays
    <3> QED
      BY <3>2, <3>3
  <2>2. CASE x \notin isClosed
    <3>1. PICK l : l = [Idle EXCEPT !.pc = "have", !.own = x]
      OBVIOUS
    <3>2. /\ l \in Local /\ l.pc = "have" /\ l.next = NULL /\ l.drop = NULL
          /\ l.own = x /\ l.peer = NULL /\ l.ref = NULL /\ l.msg = NULL /\ x # NULL
      BY <1>4, <1>5, <3>1, Kinds DEF Local, Phase, Idle
    <3>3. Shape(u, l)
      BY <1>1, <3>2, NullString DEF Shape, InStage, Gives, Keeps, Fits, Stage, UserStage
    <3>4. Plain(u, l)
      BY <1>1, <1>2, <1>3, <2>2, <3>1, <3>2, <3>3, NullString DEF Plain, Moves, Greets, Stage, Become
    <3>5. Counted(u, l)
      <4>1. \A d \in Desc : Weight(u, l, d) = Weight(u, act[u], d) + (IF d = x THEN 1 ELSE 0)
        BY <1>1, <1>5, <3>2, Kinds DEF Weight
      <4> QED
        BY <1>1, <1>3, <1>4, <2>2, <4>1, Takes DEF IInv
    <3> QED
      BY <3>2, <3>4, <3>5
  <2> QED
    BY <2>1, <2>2
<1>7. Moves(u, l)
  BY <1>6 DEF Plain
<1>8. Aborts'
  BY <1>1, <1>6, <1>7, NoAbort
<1>9. NoLostWakeup'
  BY <1>1, <1>2, <1>3, <1>5, <1>7, WakeMove, NullString DEF Idle
<1>10. /\ asleep' \subseteq User /\ stuck' \subseteq Task /\ isClosed' \subseteq Desc
       /\ count' \in [Desc -> Nat] /\ \A d \in Desc : count'[d] <= count[d]
  BY <1>2 DEF IInv, Types
<1> QED
  BY <1>1, <1>2, <1>3, <1>6, <1>8, <1>9, <1>10, QuietStep

\* A thread sleeps only when nothing is pending.
LEMMA PollStep ==
  ASSUME IInv, Running, NEW u \in User, Poll(u)
  PROVE  IInv'
<1>1. u \in Activity /\ u \notin Desc /\ u \notin Task /\ u \notin Async
  BY Kinds
<1>2. /\ act[u].pc = "idle" /\ state[Home[u]] \in {"live", "killed"}
      /\ act' = act /\ refCount' = refCount /\ asleep' = asleep \cup {u}
      /\ UNCHANGED <<state, sockVars, descs, task, table>>
      /\ UNCHANGED <<stuck, pending, count, isClosed>>
  BY DEF Poll, Calls, At, descVars, listVars
<1>3. Plain(u, act[u]) /\ Counted(u, act[u])
  BY <1>1, <1>2, Stays
<1>4. Aborts'
  BY <1>1, <1>2, <1>3, NoAbort DEF Plain
<1>5. NoLostWakeup'
  <2> SUFFICES ASSUME NEW t \in Task, state[t] = "live", NEW v \in User, Home[v] = t,
                      \A w \in User : Home[w] = t => w \in asleep',
                      NEW d \in pending, task[d] = t
               PROVE  \E b \in Activity : act[b].ref = t /\ "scan" \in {act[b].pc, act[b].next}
    BY <1>2 DEF NoLostWakeup
  <2>1. t # Home[u]
    BY DEF Poll, HasPending
  <2>2. \A w \in User : Home[w] = t => w \in asleep
    BY <1>2, <2>1
  <2> QED
    BY <2>2 DEF IInv, NoLostWakeup
<1>6. /\ asleep' \subseteq User /\ stuck' \subseteq Task /\ isClosed' \subseteq Desc
      /\ count' \in [Desc -> Nat] /\ \A d \in Desc : count'[d] <= count[d]
  BY <1>2 DEF IInv, Types
<1>7. \A v \in asleep' : v \in asleep \/ state[Home[v]] # "free"
  BY <1>2
<1> QED
  BY <1>1, <1>2, <1>3, <1>4, <1>5, <1>6, <1>7, QuietStep

\* A holder closes its descriptor.
LEMMA SocketCloseStep ==
  ASSUME IInv, Running, NEW u \in User, SocketClose(u)
  PROVE  IInv'
<1>1. /\ u \in Activity /\ u \notin Desc /\ u \notin Task /\ u \notin Async
      /\ act[u].pc = "have" /\ act[u].own \in Desc
  BY AtHave, Kinds DEF SocketClose, Has, At
<1>2. /\ act' = act /\ refCount' = refCount /\ isClosed' = isClosed \cup {act[u].own}
      /\ UNCHANGED <<state, sockVars, descs, task, table>>
      /\ UNCHANGED <<asleep, stuck, pending, count>>
  BY DEF SocketClose, taskVars, listVars
<1>3. Plain(u, act[u]) /\ Counted(u, act[u]) /\ Moves(u, act[u])
  BY <1>1, <1>2, Stays DEF Plain
<1>4. Aborts'
  BY <1>1, <1>3, NoAbort
<1>5. NoLostWakeup'
  BY <1>1, <1>2, <1>3, WakeMove
<1>6. /\ asleep' \subseteq User /\ stuck' \subseteq Task /\ isClosed' \subseteq Desc
      /\ count' \in [Desc -> Nat] /\ \A d \in Desc : count'[d] <= count[d]
  BY <1>1, <1>2 DEF IInv, Types
<1> QED
  BY <1>1, <1>2, <1>3, <1>4, <1>5, <1>6, QuietStep

\* A holder takes a message.
LEMMA SocketReadStep ==
  ASSUME IInv, Running, NEW u \in User, SocketRead(u)
  PROVE  IInv'
<1>1. /\ u \in Activity /\ u \notin Desc /\ u \notin Task /\ u \notin Async
      /\ act[u].pc = "have" /\ act[u].own \in Desc
  BY AtHave, Kinds DEF SocketRead, Has, At
<1>2. PICK x : x = act[u].own
  OBVIOUS
<1>3. /\ act' = act /\ refCount' = refCount /\ count[x] > 0 /\ count' = [count EXCEPT ![x] = @ - 1]
      /\ UNCHANGED <<state, sockVars, descs, task, table>>
      /\ UNCHANGED <<asleep, stuck, pending, isClosed>>
  BY <1>2 DEF SocketRead, taskVars, listVars, descVars
<1>4. Plain(u, act[u]) /\ Counted(u, act[u]) /\ Moves(u, act[u])
  BY <1>1, <1>3, Stays DEF Plain
<1>5. Aborts'
  BY <1>1, <1>4, NoAbort
<1>6. NoLostWakeup'
  BY <1>1, <1>3, <1>4, WakeMove
<1>7. /\ asleep' \subseteq User /\ stuck' \subseteq Task /\ isClosed' \subseteq Desc
      /\ count' \in [Desc -> Nat] /\ \A d \in Desc : count'[d] <= count[d]
  BY <1>1, <1>2, <1>3 DEF IInv, Types
<1> QED
  BY <1>1, <1>3, <1>4, <1>5, <1>6, <1>7, QuietStep

\* A message arrives, if there is room for it.
LEMMA PushMessageStep ==
  ASSUME IInv, Running, NEW a \in Activity, PushMessage(a)
  PROVE  IInv'
<1>1. PICK x : x = act[a].peer
  OBVIOUS
<1>2. PICK m : m = act[a].msg
  OBVIOUS
<1>3. /\ act[a] \in Local /\ Shape(a, act[a]) /\ act[a].pc = "push"
      /\ act[a].drop = NULL /\ act[a].next = NULL /\ Stage(act[a]) = act[a].pc
  BY NotGiving DEF PushMessage, At
<1>4. /\ x # NULL /\ act[a].ref = NULL /\ m # NULL
      /\ act[a].own # NULL <=> a \notin Desc
  BY <1>1, <1>2, <1>3 DEF Shape, Keeps
<1>5. /\ x \in Desc /\ a \notin Task /\ m \in Message
      /\ a \in Desc => x = OtherEnd(a)
      /\ a \notin Desc => act[a].own \in Desc /\ x = OtherEnd(act[a].own)
      /\ m = "close" <=> a \in Desc
      /\ m = "connect" => a \in User /\ act[a].own = Connector(act[a].own[1])
  BY <1>1, <1>2, <1>3, <1>4 DEF Local, Shape, InStage, KillStage, Fits
<1>6. x \in ends /\ x \in descs /\ At(x, "idle") /\ x[1] \in socks /\ x[1] \notin lost
  <2>1. Weight(a, act[a], x) # 0
    BY <1>1, <1>3, <1>4, <1>5, NullString DEF Weight
  <2> QED
    BY <1>5, <2>1, Referenced
<1>7. a \in User => state[Home[a]] \in {"live", "killed"}
  BY <1>3 DEF IInv, Tasks, At
<1>8. CASE Refused(m, count[x])
  <2>1. m = "data" /\ a \notin Desc
    BY <1>5, <1>8 DEF Refused
  <2>2. PICK l : l = [act[a] EXCEPT !.msg = NULL, !.peer = NULL, !.pc = "deref", !.drop = x, !.next = "have"]
    OBVIOUS
  <2>3. /\ act' = [act EXCEPT ![a] = l] /\ refCount' = refCount
        /\ UNCHANGED <<taskVars, sockVars, count, descVars, listVars>>
    BY <1>1, <1>2, <1>3, <1>8, <2>1, <2>2
      DEF PushMessage, Dereference, Become, Local, Refusal, sockVars
  <2>4. /\ l \in Local /\ l.pc = "deref" /\ l.drop = x /\ l.next = "have" /\ l.own = act[a].own
        /\ l.peer = NULL /\ l.ref = NULL /\ l.msg = NULL
    BY <1>3, <1>4, <1>5, <2>2 DEF Local, Phase
  <2>5. Shape(a, l)
    BY <1>4, <1>5, <2>1, <2>4, Kinds, NullString
      DEF Shape, InStage, Gives, Keeps, Fits, Stage, UserStage, AsyncStage
  <2>6. Plain(a, l)
    BY <1>4, <1>5, <1>7, <2>1, <2>3, <2>4, <2>5, NullString DEF Plain, Moves, Greets, Stage
  <2>7. Counted(a, l)
    <3>1. \A d \in Desc : Weight(a, l, d) = Weight(a, act[a], d)
      BY <1>1, <1>3, <1>4, <1>5, <2>4, Kinds, NullString DEF Weight
    <3> QED
      BY <2>3, <3>1, Passes DEF IInv
  <2> QED
    BY <1>3, <2>3, <2>4, <2>6, <2>7, StillStep, NullString
<1>9. CASE ~Refused(m, count[x])
  <2>1. /\ count' = [count EXCEPT ![x] = @ + 1]
        /\ told' = IF m = "close" THEN told \cup {x} ELSE told
        /\ UNCHANGED <<state, asleep, socks, ends, hasBeenConnected, lost, descs, task, isClosed,
                       table, stuck, pending, refCount>>
    BY <1>1, <1>2, <1>3, <1>9 DEF PushMessage, taskVars, descVars, listVars, Local
  <2>2. PICK l : /\ l \in Local /\ act' = [act EXCEPT ![a] = l] /\ Shape(a, l) /\ Counted(a, l)
                 /\ l.pc \in {"deref", "wake"} /\ (a \in Desc => l.pc = "wake")
                 /\ l.ref = NULL /\ ~Greets(l) /\ (l.drop # NULL => l.pc = "deref")
    <3>1. CASE m = "close"
      <4>1. PICK l : l = [act[a] EXCEPT !.msg = NULL, !.pc = "wake"]
        OBVIOUS
      <4>2. act' = [act EXCEPT ![a] = l]
        BY <1>2, <1>1, <1>3, <1>9, <3>1, <4>1 DEF PushMessage, Become, Local
      <4>3. /\ l \in Local /\ l.pc = "wake" /\ l.drop = NULL /\ l.next = NULL /\ l.own = NULL
            /\ l.peer = x /\ l.ref = NULL /\ l.msg = NULL
        BY <1>1, <1>3, <1>4, <1>5, <3>1, <4>1 DEF Local, Phase
      <4>4. Shape(a, l)
        BY <1>4, <1>5, <3>1, <4>3, Kinds, NullString
          DEF Shape, InStage, Gives, Keeps, Fits, Stage, HangupStage
      <4>5. Counted(a, l)
        <5>1. \A d \in Desc : Weight(a, l, d) = Weight(a, act[a], d)
          BY <1>1, <1>3, <1>4, <1>5, <3>1, <4>3, Kinds, NullString DEF Weight
        <5> QED
          BY <2>1, <5>1, Passes DEF IInv
      <4> QED
        BY <4>2, <4>3, <4>4, <4>5, NullString DEF Greets, Stage
    <3>2. CASE m # "close"
      <4>1. PICK l : l = [act[a] EXCEPT !.msg = NULL, !.own = NULL, !.pc = "deref",
                                        !.drop = act[a].own, !.next = "wake"]
        OBVIOUS
      <4>2. act' = [act EXCEPT ![a] = l]
        BY <1>1, <1>2, <1>3, <1>9, <3>2, <4>1 DEF PushMessage, Dereference, Become, Local
      <4>3. /\ l \in Local /\ l.pc = "deref" /\ l.drop = act[a].own /\ l.next = "wake" /\ l.own = NULL
            /\ l.peer = x /\ l.ref = NULL /\ l.msg = NULL
        BY <1>1, <1>3, <1>4, <1>5, <3>2, <4>1 DEF Local, Phase
      <4>4. Shape(a, l)
        BY <1>4, <1>5, <3>2, <4>3, Kinds, NullString
          DEF Shape, InStage, Gives, Keeps, Fits, Stage, UserStage, AsyncStage
      <4>5. Counted(a, l)
        <5>1. \A d \in Desc : Weight(a, l, d) = Weight(a, act[a], d)
          BY <1>1, <1>3, <1>4, <1>5, <3>2, <4>3, Kinds, NullString DEF Weight
        <5> QED
          BY <2>1, <5>1, Passes DEF IInv
      <4>6. ~Greets(l) /\ a \notin Desc
        BY <1>4, <1>5, <3>2, <4>3, NullString DEF Greets, Stage
      <4> QED
        BY <4>2, <4>3, <4>4, <4>5, <4>6
    <3> QED
      BY <3>1, <3>2
  <2>3. /\ Moves(a, l) /\ act'[a] = l /\ act' \in [Activity -> Local]
        /\ \A b \in Activity : b # a => act'[b] = act[b]
    BY <2>2, OthersStay DEF IInv, Moves
  <2>4. count' \in [Desc -> Nat] /\ \A d \in Desc : count'[d] = count[d] + (IF d = x THEN 1 ELSE 0)
    BY <1>5, <2>1 DEF IInv, Types
  <2>5. Types'
    <3>1. told' \subseteq Desc
      BY <1>5, <2>1 DEF IInv, Types
    <3> QED
      BY <2>1, <2>3, <2>4, <3>1 DEF IInv, Types, Local
  <2>6. Shapes'
    BY <2>2, <2>3 DEF IInv, Shapes
  <2>7. Life'
    <3>1. \A d \in Desc :
            /\ act'[d].pc \in {"free", "freeboth"} <=> act[d].pc \in {"free", "freeboth"}
            /\ Frees(d)' <=> Frees(d)
            /\ act'[d].pc # "idle" /\ act[d].pc = "idle" => d \in ends
      BY <1>3, <2>2, <2>3, Kinds DEF Frees
    <3> QED
      BY <2>1, <3>1, LifeKept
  <2>8. \A d \in Desc : Sent(d)' <=> Sent(d) \/ d = a
    BY <1>3, <2>2, <2>3, Kinds DEF Sent
  <2>9. Told'
    <3>1. \A d \in Desc : OtherEnd(d) \in Desc /\ OtherEnd(OtherEnd(d)) = d
      BY TwoEnds
    <3>2. a \in Desc => told' = told \cup {x}
      BY <1>5, <2>1
    <3>3. a \notin Desc => told' = told
      BY <1>5, <2>1
    <3>4. told' \subseteq descs
      BY <1>6, <3>2, <3>3 DEF IInv, Told
    <3>5. ASSUME NEW d \in told', OtherEnd(d) \in ends PROVE Sent(OtherEnd(d))'
      <4>1. d \in Desc
        BY <2>5 DEF Types
      <4>2. CASE d \in told
        <5>1. Sent(OtherEnd(d))
          BY <3>5, <4>2 DEF IInv, Told
        <5> QED
          BY <2>8, <3>1, <4>1, <5>1
      <4>3. CASE d \notin told
        <5>1. a \in Desc /\ OtherEnd(d) = a
          BY <1>5, <3>1, <3>2, <3>3, <3>5, <4>3
        <5> QED
          BY <2>8, <5>1
      <4> QED
        BY <4>2, <4>3
    <3>6. ASSUME NEW d \in ends, d \notin isClosed, OtherEnd(d) \notin ends \/ Sent(OtherEnd(d))'
          PROVE  d \in told'
      <4>1. d \in Desc
        BY DEF IInv, Types
      <4>2. CASE OtherEnd(d) = a
        BY <1>5, <3>1, <3>2, <4>1, <4>2
      <4>3. CASE OtherEnd(d) # a
        <5>1. OtherEnd(d) \notin ends \/ Sent(OtherEnd(d))
          BY <2>8, <3>1, <3>6, <4>1, <4>3
        <5>2. d \in told
          BY <3>6, <5>1 DEF IInv, Told
        <5> QED
          BY <3>2, <3>3, <5>2
      <4> QED
        BY <4>2, <4>3
    <3> QED
      BY <2>1, <3>4, <3>5, <3>6 DEF Told
  <2>10. Refs'
    BY <1>3, <2>1, <2>2, <2>3, RefsMove DEF Counted
  <2>11. Tasks'
    <3>1. \A d \in descs' : task'[d] \in Task
      BY <2>1 DEF IInv, Tasks
    <3> QED
      BY <1>5, <1>7, <2>1, <2>2, <2>3, <3>1, TasksMove
  <2>12. Lists'
    BY <1>3, <2>1, <2>2, <2>3, ListsMove
  <2>13. Counts'
    <3>1. \A u \in User : Greeting(u)' => u # a /\ Greeting(u) /\ act'[u].own = act[u].own
      BY <2>2, <2>3, Kinds DEF Greeting
    <3>2. x[1] \in hasBeenConnected
      <4>1. OtherEnd(x) \in ends
        <5>1. CASE a \in Desc
          <6>1. a \in ends
            BY <1>3, <5>1 DEF IInv, Life
          <6> QED
            BY <1>5, <5>1, <6>1, TwoEnds
        <5>2. CASE a \notin Desc
          <6>1. PICK y \in Desc : y = act[a].own /\ x = OtherEnd(y)
            BY <1>5, <5>2
          <6>2. Weight(a, act[a], y) # 0
            BY <1>5, <6>1 DEF Weight
          <6>3. y \in ends
            BY <6>2, Referenced
          <6> QED
            BY <6>1, <6>3, TwoEnds
        <5> QED
          BY <5>1, <5>2
      <4>2. Receiver(x[1]) \in descs
        <5>1. x = Receiver(x[1]) \/ OtherEnd(x) = Receiver(x[1])
          BY <1>5, TwoEnds
        <5> QED
          BY <1>6, <4>1, <5>1 DEF IInv, Life
      <4> QED
        BY <1>6, <4>2 DEF IInv, Life
    <3>3. count[x] < MsgMax \/ Extra(x) < Extra(x)'
      <4>1. CASE m = "data"
        BY <1>5, <1>9, <4>1, SocketsAssumption DEF Refused, IInv, Types
      <4>2. CASE m = "close"
        <5>1. a \in Desc /\ OtherEnd(x) = a /\ a \in ends /\ ~Sent(a) /\ Sent(a)'
          BY <1>3, <1>5, <2>8, <4>2, TwoEnds DEF Sent, IInv, Life
        <5>2. (\E u \in User : Greeting(u) /\ act[u].own = OtherEnd(x))' =>
                 \E u \in User : Greeting(u) /\ act[u].own = OtherEnd(x)
          BY <3>1
        <5> QED
          BY <2>1, <5>1, <5>2 DEF Extra
      <4>3. CASE m = "connect"
        <5>1. a \in User /\ Greeting(a) /\ act[a].own = OtherEnd(x) /\ x = Receiver(x[1])
          <6>1. a \in User /\ Greeting(a)
            BY <1>2, <1>5, <4>3 DEF Greeting, Greets
          <6>2. PICK y \in Desc : y = act[a].own /\ x = OtherEnd(y) /\ y = Connector(y[1])
            BY <1>5, <4>3, <6>1, Kinds
          <6> QED
            BY <6>1, <6>2, TwoEnds
        <5>2. ~(\E u \in User : Greeting(u) /\ act[u].own = OtherEnd(x))'
          BY <3>1, <5>1 DEF IInv, Counts
        <5>3. Sent(OtherEnd(x))' <=> Sent(OtherEnd(x))
          BY <1>5, <2>8, <5>1, TwoEnds, Kinds
        <5> QED
          BY <2>1, <5>1, <5>2, <5>3 DEF Extra
      <4> QED
        BY <1>5, <4>1, <4>2, <4>3 DEF Message
    <3>4. ASSUME NEW d \in Desc
          PROVE  \/ count'[d] <= count[d]
                 \/ /\ d[1] \in hasBeenConnected
                    /\ \/ count'[d] <= MsgMax
                       \/ count'[d] = count[d] + 1 /\ Extra(d) < Extra(d)'
      <4>1. count[d] \in Nat /\ MsgMax \in Nat
        BY SocketsAssumption DEF IInv, Types
      <4>2. CASE d = x
        <5>1. count'[d] = count[d] + 1
          BY <2>4, <4>2
        <5> QED
          BY <3>2, <3>3, <4>1, <4>2, <5>1
      <4>3. CASE d # x
        BY <2>4, <4>1, <4>3
      <4> QED
        BY <4>2, <4>3
    <3> QED
      BY <2>1, <2>4, <2>5, <2>8, <3>1, <3>4, CountsKept DEF Types
  <2>14. Aborts'
    BY <2>2, <2>3, NoAbort
  <2>15. NoLostWakeup'
    BY <1>3, <2>1, <2>3, WakeMove, NullString
  <2> QED
    BY <2>5, <2>6, <2>7, <2>9, <2>10, <2>11, <2>12, <2>13, <2>14, <2>15 DEF IInv
<1> QED
  BY <1>8, <1>9

-----------------------------------------------------------------------------
(* Sockets and descriptors come to be.                                     *)

\* A socket without descriptors is left behind.
LEMMA SocketNewFailsStep ==
  ASSUME IInv, Running, NEW u \in User, SocketNewFails(u)
  PROVE  IInv'
<1>1. PICK s \in Sock \ socks : socks' = socks \cup {s} /\ lost' = lost \cup {s}
  BY DEF SocketNewFails
<1>2. /\ act' = act /\ refCount' = refCount
      /\ UNCHANGED <<state, asleep, ends, hasBeenConnected, told, count, descs, task, isClosed, table,
                     stuck, pending>>
      /\ u \in Activity /\ act[u].pc = "idle"
  BY Kinds DEF SocketNewFails, Calls, At, taskVars, descVars, listVars
<1>3. /\ Plain(u, act[u]) /\ Counted(u, act[u]) /\ Moves(u, act[u])
  BY <1>2, Stays DEF Plain
<1>4. Types'
  BY <1>1, <1>2 DEF IInv, Types
<1>5. Shapes'
  BY <1>2 DEF IInv, Shapes
<1>6. Life'
  <2>1. socks' \ lost' = socks \ lost /\ lost' \subseteq socks'
    BY <1>1 DEF IInv, Life
  <2>2. \A d \in Desc : Frees(d)' <=> Frees(d)
    BY <1>2 DEF Frees
  <2>3. \A d \in Desc : OtherEnd(d) \in Desc
    BY TwoEnds
  <2>4. (\A d \in ends : d \in descs /\ d[1] \in socks \ lost)'
    BY <1>2, <2>1 DEF IInv, Life
  <2>5. (\A d \in Desc : Frees(d) => /\ d[1] \in socks \ lost
                                     /\ d \notin ends /\ OtherEnd(d) \notin ends
                                     /\ ~Frees(OtherEnd(d)))'
    BY <1>2, <2>1, <2>2, <2>3 DEF IInv, Life
  <2>6. (\A r \in socks \ lost : \E d \in Desc : d[1] = r /\ (d \in ends \/ Frees(d)))'
    BY <1>2, <2>1, <2>2 DEF IInv, Life
  <2>7. (/\ hasBeenConnected \subseteq socks \ lost
         /\ \A r \in socks \ lost : Receiver(r) \in descs => r \in hasBeenConnected)'
    BY <1>2, <2>1 DEF IInv, Life
  <2>8. (/\ \A d \in Desc : d \in descs /\ d \notin ends <=> act[d].pc \in {"free", "freeboth"}
         /\ \A d \in Desc : act[d].pc \notin {"idle", "free", "freeboth", "freesock"} => d \in ends)'
    BY <1>2 DEF IInv, Life
  <2> QED
    BY <2>1, <2>4, <2>5, <2>6, <2>7, <2>8 DEF Life
<1>7. Told'
  BY <1>2, ToldKept DEF Sent
<1>8. Refs'
  <2>1. act[u].drop = NULL
    BY <1>2, AtBare
  <2> QED
    BY <1>2, <1>3, <2>1, RefsMove DEF Counted
<1>9. Tasks'
  BY <1>2 DEF IInv, Tasks, At
<1>10. Lists'
  BY <1>2 DEF IInv, Lists, At, Listed
<1>11. Counts'
  <2>1. \A d \in Desc : count[d] <= count[d] /\ count' = count /\ count \in [Desc -> Nat]
    BY <1>2 DEF IInv, Types
  <2> QED
    BY <1>2, <2>1, CountsKept DEF Sent, Greeting, IInv, Types
<1>12. Aborts'
  BY <1>2, <1>3, NoAbort
<1>13. NoLostWakeup'
  BY <1>2, WakeKept
<1> QED
  BY <1>4, <1>5, <1>6, <1>7, <1>8, <1>9, <1>10, <1>11, <1>12, <1>13 DEF IInv

\* A socket whose connecting failed counts as connected.
LEMMA ConnectFailsStep ==
  ASSUME IInv, Running, NEW u \in User, ConnectFails(u)
  PROVE  IInv'
<1>1. PICK s : s = act[u].own[1]
  OBVIOUS
<1>2. /\ u \in Activity /\ act[u].pc = "have" /\ s \in Sock /\ s \in socks /\ s \notin lost
      /\ act[u].drop = NULL
  BY <1>1, AtHave, Kinds DEF ConnectFails, Has, At
<1>3. /\ hasBeenConnected' = hasBeenConnected \cup {s} /\ act' = act /\ refCount' = refCount
      /\ UNCHANGED <<state, asleep, socks, lost, ends, told, count, descs, task, isClosed, table,
                     stuck, pending>>
  BY <1>1 DEF ConnectFails, taskVars, descVars, listVars
<1>4. /\ Plain(u, act[u]) /\ Counted(u, act[u]) /\ Moves(u, act[u])
  BY <1>2, <1>3, Stays DEF Plain
<1>5. Types'
  BY <1>2, <1>3 DEF IInv, Types
<1>6. Shapes'
  BY <1>3 DEF IInv, Shapes
<1>7. Life'
  BY <1>2, <1>3 DEF IInv, Life, Frees
<1>8. Told'
  BY <1>3, ToldKept DEF Sent
<1>9. Refs'
  BY <1>2, <1>3, <1>4, RefsMove DEF Counted
<1>10. Tasks'
  BY <1>3 DEF IInv, Tasks, At
<1>11. Lists'
  BY <1>3 DEF IInv, Lists, At, Listed
<1>12. Counts'
  <2>1. \A d \in Desc : Extra(d)' = Extra(d)
    BY <1>3 DEF Extra, Sent, Greeting
  <2>2. \A v \in User : Greeting(v)' <=> Greeting(v)
    BY <1>3 DEF Greeting
  <2> QED
    BY <1>3, <2>1, <2>2 DEF IInv, Counts
<1>13. Aborts'
  BY <1>2, <1>3, <1>4, NoAbort
<1>14. NoLostWakeup'
  BY <1>3, WakeKept
<1> QED
  BY <1>5, <1>6, <1>7, <1>8, <1>9, <1>10, <1>11, <1>12, <1>13, <1>14 DEF IInv

\* The new end comes into the table of its task.
LEMMA ConnectInsertStep ==
  ASSUME IInv, Running, NEW u \in User, ConnectInsert(u)
  PROVE  IInv'
<1>1. PICK x : x = act[u].peer
  OBVIOUS
<1>2. PICK t : t = act[u].ref
  OBVIOUS
<1>3. PICK l : l = [act[u] EXCEPT !.ref = NULL, !.peer = NULL, !.pc = "deref", !.drop = x, !.next = "greet"]
  OBVIOUS
<1>4. u \in Activity /\ u \notin Desc /\ u \notin Task /\ u \notin Async
  BY Kinds
<1>5. /\ act[u] \in Local /\ Shape(u, act[u]) /\ act[u].pc = "insert"
      /\ act[u].drop = NULL /\ act[u].next = NULL /\ Stage(act[u]) = act[u].pc
  BY <1>4, NotGiving DEF ConnectInsert, At
<1>6. /\ act[u].own # NULL /\ x # NULL /\ t # NULL /\ act[u].msg = NULL
      /\ x = OtherEnd(act[u].own) /\ act[u].own = Connector(act[u].own[1])
  BY <1>1, <1>2, <1>5 DEF Shape, Keeps, Fits
<1>7. act[u].own \in Desc /\ x \in Desc /\ t \in Task
  BY <1>1, <1>2, <1>5, <1>6 DEF Local
<1>8. x \in ends /\ At(x, "idle") /\ task[x] = t /\ ~Listed(x)
  <2>1. Weight(u, act[u], x) # 0
    BY <1>1, <1>5, <1>7, NullString DEF Weight
  <2>2. x \in ends /\ At(x, "idle")
    BY <1>4, <1>7, <2>1, Referenced
  <2> QED
    BY <1>1, <1>2, <1>5, <2>2 DEF IInv, Lists, At
<1>9. /\ l \in Local /\ l.pc = "deref" /\ l.next = "greet" /\ l.drop = x
      /\ l.own = act[u].own /\ l.peer = NULL /\ l.ref = NULL /\ l.msg = NULL
  BY <1>3, <1>5, <1>6, <1>7 DEF Local, Phase
<1>10. /\ act' = [act EXCEPT ![u] = l] /\ refCount' = refCount
       /\ table' = [table EXCEPT ![t] = <<x>> \o table[t]]
       /\ UNCHANGED <<state, asleep, socks, lost, ends, hasBeenConnected, told, count, descs, task,
                      isClosed, stuck, pending>>
  BY <1>1, <1>2, <1>3, <1>5 DEF ConnectInsert, Dereference, Become, Local, taskVars, sockVars, descVars
<1>11. /\ Moves(u, l) /\ act'[u] = l /\ act' \in [Activity -> Local]
       /\ \A b \in Activity : b # u => act'[b] = act[b]
  BY <1>4, <1>9, <1>10, OthersStay DEF IInv, Moves
<1>12. Counted(u, l)
  <2>1. \A d \in Desc : Weight(u, l, d) = Weight(u, act[u], d)
    BY <1>1, <1>4, <1>5, <1>6, <1>7, <1>9, Kinds, NullString DEF Weight
  <2> QED
    BY <1>4, <1>10, <2>1, Passes DEF IInv
<1>13. /\ table[t] \in Seq(Desc) /\ IsInjective(table[t]) /\ x \notin ToSet(table[t])
       /\ table'[t] = <<x>> \o table[t] /\ \A s \in Task : s # t => table'[s] = table[s]
  BY <1>7, <1>8, <1>10 DEF IInv, Types, Lists, Listed
<1>14. /\ table'[t] \in Seq(Desc) /\ IsInjective(table'[t])
       /\ \A e : e \in ToSet(table'[t]) <=> e \in ToSet(table[t]) \/ e = x
  BY <1>7, <1>13, PrependedEntries
<1>15. Types'
  <2>1. table' \in [Task -> Seq(Desc)]
    BY <1>10, <1>13, <1>14 DEF IInv, Types
  <2> QED
    BY <1>10, <1>11, <2>1 DEF IInv, Types, Local
<1>16. Shapes'
  <2>1. Shape(u, l)
    BY <1>4, <1>6, <1>9, NullString DEF Shape, InStage, Gives, Keeps, Fits, Stage, UserStage
  <2> QED
    BY <1>11, <2>1 DEF IInv, Shapes
<1>17. \A d \in Desc : act'[d] = act[d]
  BY <1>4, <1>11, Kinds
<1>18. Life'
  BY <1>10, <1>17, LifeKept DEF Frees
<1>19. Told'
  BY <1>10, <1>17, ToldKept DEF Sent
<1>20. Refs'
  BY <1>4, <1>9, <1>10, <1>11, <1>12, RefsMove DEF Counted
<1>21. Tasks'
  <2>1. \A d \in descs' : task'[d] \in Task
    BY <1>10 DEF IInv, Tasks
  <2>2. state[Home[u]] \in {"live", "killed"}
    BY <1>5 DEF IInv, Tasks, At
  <2> QED
    BY <1>4, <1>9, <1>10, <1>11, <2>1, <2>2, TasksMove
<1>22. Greeting(u)
  BY <1>5 DEF Greeting, Greets
<1>23. Lists'
  <2>1. \A d \in Desc : At(d, "idle")' <=> At(d, "idle")
    BY <1>17 DEF At
  <2>2. pending \subseteq Desc /\ ends \subseteq Desc
    BY DEF IInv, Types
  <2>3. \A d \in pending' : d \in ends /\ At(d, "idle")'
    BY <1>10, <2>1, <2>2 DEF IInv, Lists
  <2>4. \A s \in Task : \A d \in ToSet(table'[s]) : d \in ToSet(table[s]) \/ (d = x /\ s = t)
    BY <1>13, <1>14
  <2>5. \A s \in Task : \A d \in ToSet(table'[s]) : d \in ends /\ At(d, "idle")' /\ task[d] = s
    BY <1>8, <2>1, <2>2, <2>4 DEF IInv, Lists
  <2>6. \A s \in Task : IsInjective(table'[s])
    BY <1>13, <1>14 DEF IInv, Lists
  <2>7. ASSUME NEW v \in User, At(v, "insert")'
        PROVE  task[act'[v].peer] = act'[v].ref /\ \A s \in Task : act'[v].peer \notin ToSet(table'[s])
    <3>1. act'[v] = act[v] /\ At(v, "insert") /\ v # u /\ v \in Activity
      BY <1>9, <1>11, <2>7, Kinds DEF At
    <3>2. act[v].peer # x
      <4>1. act[v].pc = "insert" /\ act[v].own \in Desc /\ act[v].peer = OtherEnd(act[v].own)
        <5>1. act[v] \in Local /\ Shape(v, act[v]) /\ Stage(act[v]) = "insert"
          BY <3>1, NotGiving DEF At
        <5>2. act[v].own # NULL /\ act[v].peer = OtherEnd(act[v].own)
          BY <5>1 DEF Shape, Keeps, Fits
        <5> QED
          BY <3>1, <5>1, <5>2 DEF Local, At
      <4>2. Greeting(v)
        BY <3>1, <4>1, NotGiving DEF Greeting, Greets
      <4>3. act[v].own # act[u].own
        BY <1>22, <3>1, <4>2 DEF IInv, Counts
      <4>4. PICK y \in Desc : y = act[u].own
        BY <1>7
      <4>5. PICK z \in Desc : z = act[v].own
        BY <4>1
      <4> QED
        BY <1>6, <4>1, <4>3, <4>4, <4>5, TwoEnds
    <3> QED
      BY <2>4, <3>1, <3>2 DEF IInv, Lists, Listed
  <2>8. \A v \in User : At(v, "insert")' => (task[act[v].peer] = act[v].ref /\ ~Listed(act[v].peer))'
    BY <1>10, <2>7 DEF Listed
  <2> QED
    BY <1>10, <2>3, <2>5, <2>6, <2>8 DEF Lists
<1>24. Counts'
  <2>1. count' \in [Desc -> Nat] /\ \A d \in Desc : count'[d] <= count[d]
    BY <1>10 DEF IInv, Types
  <2> QED
    BY <1>4, <1>9, <1>10, <1>11, <1>22, <2>1, CountsMove
<1>25. Aborts'
  BY <1>4, <1>9, <1>11, NoAbort
<1>26. NoLostWakeup'
  BY <1>4, <1>5, <1>10, <1>11, WakeMove, NullString
<1> QED
  BY <1>15, <1>16, <1>18, <1>19, <1>20, <1>21, <1>23, <1>24, <1>25, <1>26 DEF IInv

\* A thread that is connecting has a reference to the end it has made.
LEMMA AtInsert ==
  ASSUME IInv, NEW v \in User, At(v, "insert")
  PROVE  act[v].peer \in Desc /\ act[v].peer \in ends
<1>1. v \in Activity /\ act[v].pc = "insert"
  BY Kinds DEF At
<1>2. act[v] \in Local /\ Shape(v, act[v]) /\ Stage(act[v]) = "insert" /\ act[v].next = NULL
  BY <1>1, NotGiving
<1>3. act[v].peer # NULL
  BY <1>2 DEF Shape, Keeps
<1>4. PICK y \in Desc : y = act[v].peer
  BY <1>2, <1>3 DEF Local
<1>5. Weight(v, act[v], y) # 0
  BY <1>1, <1>2, <1>4, NullString DEF Weight
<1>6. y \in ends
  BY <1>1, <1>5, Referenced
<1> QED
  BY <1>4, <1>6

\* A new descriptor is referenced by its maker and by nobody else.
LEMMA CreatedRefs ==
  ASSUME IInv, NEW u \in User, NEW l, Moves(u, l), NEW x \in Desc, NEW t \in Task,
         x \notin ends, x \notin descs, At(x, "idle"), CreateDescriptor(x, t),
         l.pc # "delete", l.drop = NULL,
         \A d \in Desc : Weight(u, l, d) = Weight(u, act[u], d) + (IF d = x THEN 1 ELSE 0)
  PROVE  Refs' /\ refCount' \in [Desc -> Nat]
<1>1. /\ act'[u] = l
      /\ \A b \in Activity : b # u => act'[b] = act[b]
      /\ u \in Activity /\ u \notin Desc /\ u \notin Task
  BY OthersStay, Kinds DEF IInv
<1>2. /\ descs' = descs \cup {x} /\ ends' = ends \cup {x} /\ isClosed' = isClosed \ {x}
      /\ refCount' = [refCount EXCEPT ![x] = 1]
  BY DEF CreateDescriptor
<1>3. /\ refCount' \in [Desc -> Nat] /\ refCount'[x] = 1
      /\ \A d \in Desc : d # x => refCount'[d] = refCount[d]
      /\ \A d \in Desc : refCount[d] \in Nat
  BY <1>2 DEF IInv, Types
<1>4. HeldRefs(x) = 0 /\ \A a \in Activity : Weight(a, act[a], x) = 0 /\ act[a].drop # x
  BY Unreferenced
<1>5. RefsExact'
  <2> SUFFICES ASSUME NEW d \in descs' PROVE refCount'[d] = HeldRefs(d)'
    BY DEF RefsExact
  <2>1. d \in Desc
    BY <1>2 DEF IInv, Types
  <2>2. HeldRefs(d)' = HeldRefs(d) - Weight(u, act[u], d) + Weight(u, l, d)
    BY <1>1, WeightMoves DEF IInv
  <2>3. HeldRefs(d) \in Nat /\ Weight(u, act[u], d) \in Nat
    BY HeldZero DEF Weight
  <2>4. HeldRefs(d)' = HeldRefs(d) + (IF d = x THEN 1 ELSE 0)
    BY <2>1, <2>2, <2>3
  <2>5. CASE d = x
    BY <1>3, <1>4, <2>4, <2>5
  <2>6. CASE d # x
    <3>1. d \in descs /\ refCount[d] = HeldRefs(d)
      BY <1>2, <2>6 DEF IInv, Refs, RefsExact
    <3> QED
      BY <1>3, <2>1, <2>3, <2>4, <2>6, <3>1
  <2> QED
    BY <2>5, <2>6
<1>6. ASSUME NEW b \in Activity, NEW d \in Desc,
             (OwnRef(b, d) \/ PeerRef(b, d) \/ act[b].drop = d)'
      PROVE  d \in ends'
  <2>1. CASE b # u
    BY <1>1, <1>2, <1>6, <2>1 DEF IInv, Refs, OwnRef, PeerRef, At
  <2>2. CASE b = u
    <3>1. Weight(u, l, d) # 0
      BY <1>1, <1>6, <2>2, Kinds DEF OwnRef, PeerRef, At, Weight
    <3>2. CASE d = x
      BY <1>2, <3>2
    <3>3. CASE d # x
      <4>1. Weight(u, act[u], d) # 0
        <5>1. Weight(u, l, d) = Weight(u, act[u], d) + 0 /\ Weight(u, act[u], d) \in Nat
          BY <3>3 DEF Weight
        <5> QED
          BY <3>1, <5>1
      <4> QED
        BY <1>1, <1>2, <4>1, Referenced
    <3> QED
      BY <3>2, <3>3
  <2> QED
    BY <2>1, <2>2
<1>7. ASSUME NEW d \in descs', ~At(d, "idle")'
      PROVE  d \in isClosed' /\ refCount'[d] = 0
  <2>1. d \in Desc /\ d \in Activity /\ d # u
    BY <1>1, <1>2, Kinds DEF IInv, Types
  <2>2. ~At(d, "idle") /\ d # x
    BY <1>1, <1>7, <2>1 DEF At
  <2> QED
    BY <1>2, <1>3, <2>1, <2>2 DEF IInv, Refs
<1>8. ASSUME NEW b \in Activity, At(b, "delete")'
      PROVE  /\ act'[b] = act[b] /\ At(b, "delete")
             /\ act'[b].drop \in isClosed' /\ refCount'[act'[b].drop] = 0
             /\ act'[act'[b].drop].pc = "idle"
  <2>1. b # u /\ act'[b] = act[b] /\ At(b, "delete")
    BY <1>1, <1>8 DEF At
  <2>2. PICK d : d = act[b].drop
    OBVIOUS
  <2>3. d \in isClosed /\ refCount[d] = 0 /\ At(d, "idle") /\ d \in Desc /\ d # x /\ d # u /\ d \in Activity
    BY <1>1, <1>4, <2>1, <2>2, Kinds DEF IInv, Refs, Types
  <2>4. act'[d].pc = "idle"
    BY <1>1, <2>3 DEF At
  <2> QED
    BY <1>2, <1>3, <2>1, <2>2, <2>3, <2>4
<1>9. \A b, c \in Activity : (At(b, "delete") /\ At(c, "delete") /\ act[b].drop = act[c].drop)' => b = c
  BY <1>8 DEF IInv, Refs
<1> QED
  BY <1>3, <1>5, <1>6, <1>7, <1>8, <1>9 DEF Refs, At

\* anscheduler_socket_new makes a socket that nobody knew.
LEMMA SocketNewStep ==
  ASSUME IInv, Running, NEW u \in User, SocketNew(u)
  PROVE  IInv'
<1>1. PICK s \in Sock \ socks :
        /\ {Connector(s), Receiver(s)} \cap descs = {}
        /\ CreateDescriptor(Connector(s), Home[u])
        /\ socks' = socks \cup {s}
        /\ told' = told \cup {Connector(s)}
        /\ table' = [table EXCEPT ![Home[u]] = <<Connector(s)>> \o @]
        /\ Become(u, [Idle EXCEPT !.pc = "have", !.own = Connector(s)])
  BY DEF SocketNew
<1>2. PICK x, r, h : x = Connector(s) /\ r = Receiver(s) /\ h = Home[u]
  OBVIOUS
<1>3. PICK l : l = [Idle EXCEPT !.pc = "have", !.own = x]
  OBVIOUS
<1>4. /\ u \in Activity /\ u \notin Desc /\ u \notin Task /\ u \notin Async
      /\ At(u, "idle") /\ state[h] \in {"live", "killed"} /\ h \in Task
      /\ UNCHANGED <<state, asleep, hasBeenConnected, lost, count, stuck, pending>>
  BY <1>2, Kinds, SocketsAssumption DEF SocketNew, Calls, taskVars
<1>5. /\ x \in Desc /\ r \in Desc /\ x # r /\ x[1] = s /\ r[1] = s /\ x # NULL
      /\ OtherEnd(x) = r /\ OtherEnd(r) = x /\ x # Receiver(s) /\ s \in Sock /\ s \notin socks
      /\ \A d \in Desc : OtherEnd(d) \in Desc /\ OtherEnd(OtherEnd(d)) = d
      /\ x \in Activity /\ r \in Activity
  BY <1>2, EndsOf, TwoEnds, Kinds
<1>6. /\ x \notin descs /\ r \notin descs /\ x \notin ends /\ r \notin ends
      /\ s \notin lost /\ s \notin hasBeenConnected /\ x \notin told /\ r \notin told
  BY <1>1, <1>2, <1>5 DEF IInv, Life, Told
<1>7. At(x, "idle") /\ At(r, "idle")
  BY <1>5, <1>6 DEF IInv, Life, Frees, At
<1>8. act[u] = Idle /\ Idle \in Local /\ \A d \in Desc : Weight(u, act[u], d) = 0
  BY <1>4, AtIdle
<1>9. /\ l \in Local /\ l.pc = "have" /\ l.next = NULL /\ l.drop = NULL
      /\ l.own = x /\ l.peer = NULL /\ l.ref = NULL /\ l.msg = NULL
  BY <1>3, <1>5, <1>8 DEF Local, Phase, Idle
<1>10. /\ act' = [act EXCEPT ![u] = l] /\ socks' = socks \cup {s} /\ told' = told \cup {x}
       /\ table' = [table EXCEPT ![h] = <<x>> \o table[h]]
       /\ CreateDescriptor(x, h)
       /\ descs' = descs \cup {x} /\ ends' = ends \cup {x} /\ isClosed' = isClosed \ {x}
       /\ task' = [task EXCEPT ![x] = h]
  BY <1>1, <1>2, <1>3 DEF Become, CreateDescriptor
<1>11. /\ Moves(u, l) /\ act'[u] = l /\ act' \in [Activity -> Local]
       /\ \A b \in Activity : b # u => act'[b] = act[b]
  BY <1>4, <1>9, <1>10, OthersStay DEF IInv, Moves
<1>12. \A d \in Desc : act'[d] = act[d]
  BY <1>4, <1>11, Kinds
<1>13. Refs' /\ refCount' \in [Desc -> Nat]
  <2>1. \A d \in Desc : Weight(u, l, d) = Weight(u, act[u], d) + (IF d = x THEN 1 ELSE 0)
    BY <1>4, <1>5, <1>8, <1>9, Kinds DEF Weight
  <2> QED
    BY <1>4, <1>5, <1>6, <1>7, <1>9, <1>10, <1>11, <2>1, CreatedRefs
<1>14. /\ table[h] \in Seq(Desc) /\ IsInjective(table[h]) /\ x \notin ToSet(table[h])
       /\ table'[h] = <<x>> \o table[h] /\ \A t \in Task : t # h => table'[t] = table[t]
  BY <1>4, <1>6, <1>10 DEF IInv, Types, Lists
<1>15. /\ table'[h] \in Seq(Desc) /\ IsInjective(table'[h])
       /\ \A e : e \in ToSet(table'[h]) <=> e \in ToSet(table[h]) \/ e = x
  BY <1>5, <1>14, PrependedEntries
<1>16. task' \in [Desc -> Task \cup {NULL}] /\ task'[x] = h /\ \A d \in Desc : d # x => task'[d] = task[d]
  BY <1>4, <1>5, <1>10 DEF IInv, Types
<1>17. Types'
  <2>1. table' \in [Task -> Seq(Desc)]
    BY <1>10, <1>14, <1>15 DEF IInv, Types
  <2> QED
    BY <1>4, <1>5, <1>10, <1>11, <1>13, <1>16, <2>1, ZenonT(30) DEF IInv, Types, Local
<1>18. Shapes'
  <2>1. Shape(u, l)
    BY <1>4, <1>5, <1>9, NullString DEF Shape, InStage, Gives, Keeps, Fits, Stage, UserStage
  <2> QED
    BY <1>11, <2>1 DEF IInv, Shapes
<1>19. Life'
  <2>1. \A d \in Desc : Frees(d)' <=> Frees(d)
    BY <1>12 DEF Frees
  <2>2. ~Frees(x) /\ ~Frees(r)
    BY <1>7 DEF Frees, At
  <2>3. (\A d \in ends : d \in descs /\ d[1] \in socks \ lost)'
    BY <1>4, <1>5, <1>6, <1>10 DEF IInv, Life
  <2>4. (\A d \in Desc : d \in descs /\ d \notin ends <=> act[d].pc \in {"free", "freeboth"})'
    BY <1>7, <1>10, <1>12 DEF IInv, Life, At
  <2>5. (\A d \in Desc : act[d].pc \notin {"idle", "free", "freeboth", "freesock"} => d \in ends)'
    BY <1>10, <1>12 DEF IInv, Life
  <2>6. ASSUME NEW d \in Desc, Frees(d)
        PROVE  /\ d[1] \in socks' /\ d[1] \notin lost /\ d \notin ends' /\ OtherEnd(d) \notin ends'
               /\ ~Frees(OtherEnd(d))'
    <3>1. /\ d[1] \in socks /\ d[1] \notin lost /\ d \notin ends /\ OtherEnd(d) \notin ends
          /\ ~Frees(OtherEnd(d))
      BY <2>6 DEF IInv, Life
    <3>2. d # x /\ d # r /\ OtherEnd(d) # x
      BY <1>5, <2>2, <2>6
    <3> QED
      BY <1>5, <1>10, <2>1, <3>1, <3>2
  <2>7. (\A c \in socks \ lost : \E d \in Desc : d[1] = c /\ (d \in ends \/ Frees(d)))'
    <3> SUFFICES ASSUME NEW c \in socks' \ lost
                 PROVE  \E d \in Desc : d[1] = c /\ (d \in ends' \/ Frees(d)')
      BY <1>4
    <3>1. CASE c = s
      BY <1>5, <1>10, <3>1
    <3>2. CASE c # s
      <4>1. PICK d \in Desc : d[1] = c /\ (d \in ends \/ Frees(d))
        BY <1>10, <3>2 DEF IInv, Life
      <4> QED
        BY <1>10, <2>1, <4>1
    <3> QED
      BY <3>1, <3>2
  <2>8. (/\ lost \subseteq socks /\ hasBeenConnected \subseteq socks \ lost)'
    BY <1>4, <1>10 DEF IInv, Life
  <2>9. (\A c \in socks \ lost : Receiver(c) \in descs => c \in hasBeenConnected)'
    <3> SUFFICES ASSUME NEW c \in socks' \ lost, Receiver(c) \in descs' PROVE c \in hasBeenConnected
      BY <1>4
    <3>1. c \in Sock
      BY <1>17 DEF Types
    <3>2. Receiver(c) # x
      BY <1>2, <1>5, <3>1, EndsOf
    <3>3. Receiver(c) \in descs /\ c # s
      BY <1>2, <1>6, <1>10, <3>2
    <3> QED
      BY <1>10, <3>3 DEF IInv, Life
  <2> QED
    BY <1>4, <2>1, <2>3, <2>4, <2>5, <2>6, <2>7, <2>8, <2>9 DEF Life
<1>20. \A d \in Desc : Sent(d)' <=> Sent(d)
  BY <1>12 DEF Sent
<1>21. Told'
  <2>1. told' \subseteq descs'
    BY <1>10 DEF IInv, Told
  <2>2. ASSUME NEW d \in told', OtherEnd(d) \in ends' PROVE Sent(OtherEnd(d))'
    <3>1. d \in Desc
      BY <1>17 DEF Types
    <3>2. d # x
      BY <1>5, <1>6, <1>10, <2>2
    <3>3. d \in told /\ d # r
      BY <1>6, <1>10, <3>2
    <3>4. OtherEnd(d) # x
      BY <1>5, <3>1, <3>3
    <3>5. Sent(OtherEnd(d))
      BY <1>10, <2>2, <3>3, <3>4 DEF IInv, Told
    <3> QED
      BY <1>5, <1>20, <3>1, <3>5
  <2>3. ASSUME NEW d \in ends', d \notin isClosed', OtherEnd(d) \notin ends' \/ Sent(OtherEnd(d))'
        PROVE  d \in told'
    <3>1. d \in Desc
      BY <1>17 DEF Types
    <3>2. CASE d = x
      BY <1>10, <3>2
    <3>3. CASE d # x
      <4>1. d \in ends /\ d \notin isClosed /\ (OtherEnd(d) \notin ends \/ Sent(OtherEnd(d)))
        BY <1>5, <1>10, <1>20, <2>3, <3>1, <3>3
      <4> QED
        BY <1>10, <4>1 DEF IInv, Told
    <3> QED
      BY <3>2, <3>3
  <2> QED
    BY <2>1, <2>2, <2>3 DEF Told
<1>22. Tasks'
  <2>1. \A d \in descs' : task'[d] \in Task
    BY <1>4, <1>10, <1>16, <1>17 DEF IInv, Tasks, Types
  <2> QED
    BY <1>2, <1>4, <1>9, <1>11, <2>1, TasksMove
<1>23. Lists'
  <2>1. \A d \in Desc : At(d, "idle")' <=> At(d, "idle")
    BY <1>12 DEF At
  <2>2. pending \subseteq Desc /\ ends \subseteq Desc
    BY DEF IInv, Types
  <2>3. \A d \in pending' : d \in ends' /\ At(d, "idle")'
    BY <1>4, <1>10, <2>1, <2>2 DEF IInv, Lists
  <2>4. \A t \in Task : \A d \in ToSet(table'[t]) : d \in ToSet(table[t]) \/ (d = x /\ t = h)
    BY <1>14, <1>15
  <2>5. ASSUME NEW t \in Task, NEW d \in ToSet(table'[t])
        PROVE  d \in ends' /\ At(d, "idle")' /\ task'[d] = t
    <3>1. CASE d \in ToSet(table[t])
      <4>1. d \in ends /\ At(d, "idle") /\ task[d] = t /\ d # x /\ d \in Desc
        BY <1>6, <2>2, <3>1 DEF IInv, Lists
      <4> QED
        BY <1>10, <1>16, <2>1, <4>1
    <3>2. CASE d = x /\ t = h
      BY <1>5, <1>7, <1>10, <1>16, <2>1, <3>2
    <3> QED
      BY <2>4, <3>1, <3>2
  <2>6. \A t \in Task : IsInjective(table'[t])
    BY <1>14, <1>15 DEF IInv, Lists
  <2>7. ASSUME NEW v \in User, At(v, "insert")'
        PROVE  task'[act'[v].peer] = act'[v].ref /\ \A t \in Task : act'[v].peer \notin ToSet(table'[t])
    <3>1. act'[v] = act[v] /\ act[v].pc = "insert" /\ v # u /\ v \in Activity
      BY <1>9, <1>11, <2>7, Kinds DEF At
    <3>2. PICK y : y = act[v].peer
      OBVIOUS
    <3>3. y \in Desc /\ y \in ends
      BY <3>1, <3>2, AtInsert DEF At
    <3>5. y # x
      BY <1>6, <3>3
    <3>6. task[y] = act[v].ref /\ ~Listed(y)
      BY <3>1, <3>2 DEF IInv, Lists, At
    <3> QED
      BY <1>16, <2>4, <3>1, <3>2, <3>3, <3>5, <3>6 DEF Listed
  <2>8. \A v \in User : At(v, "insert")' => (task[act[v].peer] = act[v].ref /\ ~Listed(act[v].peer))'
    BY <2>7 DEF Listed
  <2> QED
    BY <2>3, <2>5, <2>6, <2>8 DEF Lists
<1>24. Counts'
  <2>1. \A v \in User : Greeting(v)' => v # u /\ Greeting(v) /\ act'[v].own = act[v].own
    BY <1>9, <1>11, Kinds, NullString DEF Greeting, Greets, Stage
  <2>2. \A d \in Desc : Extra(d) \in Nat /\ Extra(d)' \in Nat
    BY DEF Extra
  <2>3. ASSUME NEW d \in Desc, d # r PROVE Extra(d) <= Extra(d)'
    <3>1. OtherEnd(d) # x
      BY <1>5, <2>3
    <3>2. OtherEnd(d) \in ends' <=> OtherEnd(d) \in ends
      BY <1>10, <3>1
    <3>3. Sent(OtherEnd(d))' <=> Sent(OtherEnd(d))
      BY <1>5, <1>20
    <3>4. (\E v \in User : Greeting(v) /\ act[v].own = OtherEnd(d))' =>
             \E v \in User : Greeting(v) /\ act[v].own = OtherEnd(d)
      BY <2>1
    <3> QED
      BY <3>2, <3>3, <3>4 DEF Extra
  <2>4. ASSUME NEW d \in Desc PROVE count[d] <= MsgMax + Extra(d)'
    <3>1. count[d] \in Nat /\ MsgMax \in Nat /\ count[d] <= MsgMax + Extra(d)
      BY SocketsAssumption DEF IInv, Types, Counts
    <3>2. CASE d = r
      <4>1. count[d] = 0
        BY <1>5, <1>6, <3>2 DEF IInv, Counts
      <4> QED
        BY <2>2, <3>1, <4>1
    <3>3. CASE d # r
      BY <2>2, <2>3, <3>1, <3>3
    <3> QED
      BY <3>2, <3>3
  <2>5. \A v, w \in User : (Greeting(v) /\ Greeting(w) /\ act[v].own = act[w].own)' => v = w
    BY <2>1 DEF IInv, Counts
  <2>6. \A v \in User : Greeting(v)' => act'[v].own[1] \in hasBeenConnected
    BY <2>1 DEF IInv, Counts
  <2>7. \A d \in Desc : d[1] \notin hasBeenConnected => count[d] = 0
    BY DEF IInv, Counts
  <2> QED
    BY <1>4, <2>4, <2>5, <2>6, <2>7 DEF Counts
<1>25. Aborts'
  BY <1>4, <1>9, <1>11, NoAbort
<1>26. NoLostWakeup'
  <2>1. \A d \in pending' : task'[d] = task[d]
    BY <1>4, <1>6, <1>16 DEF IInv, Lists, Types
  <2>2. "scan" \notin {act[u].pc, act[u].next}
    BY <1>8, NullString DEF Idle
  <2> QED
    BY <1>4, <1>11, <2>1, <2>2, WakeMove
<1> QED
  BY <1>13, <1>17, <1>18, <1>19, <1>21, <1>22, <1>23, <1>24, <1>25, <1>26 DEF IInv

\* The other end of a socket is made.
LEMMA ConnectStep ==
  ASSUME IInv, Running, NEW u \in User, Connect(u)
  PROVE  IInv'
<1>1. PICK s : s = act[u].own[1]
  OBVIOUS
<1>2. /\ act[u].pc = "have" /\ s \notin hasBeenConnected /\ Has(u)
      /\ hasBeenConnected' = hasBeenConnected \cup {s} /\ told' = told \ {Connector(s)}
      /\ UNCHANGED <<state, asleep, socks, lost, count, table, stuck, pending>>
  BY <1>1 DEF Connect, Has, At, taskVars, listVars
<1>3. PICK t \in Task :
        /\ state[t] = "live"
        /\ CreateDescriptor(Receiver(s), t)
        /\ Become(u, [act[u] EXCEPT !.pc = "insert", !.peer = Receiver(s), !.ref = t])
  BY <1>1 DEF Connect
<1>4. PICK c, x : c = Connector(s) /\ x = Receiver(s)
  OBVIOUS
<1>5. PICK l : l = [act[u] EXCEPT !.pc = "insert", !.peer = x, !.ref = t]
  OBVIOUS
<1>6. u \in Activity /\ u \notin Desc /\ u \notin Task /\ u \notin Async
  BY Kinds
<1>7. /\ act[u] \in Local /\ Shape(u, act[u])
      /\ act[u].own \in Desc /\ act[u].peer = NULL /\ act[u].ref = NULL /\ act[u].msg = NULL
      /\ act[u].drop = NULL /\ act[u].next = NULL
      /\ act[u].own \in ends /\ s \in Sock /\ s \in socks /\ s \notin lost
  BY <1>1, <1>2, <1>6, AtHave DEF Has
<1>8. /\ x \in Desc /\ c \in Desc /\ x # c /\ x[1] = s /\ c[1] = s /\ x # NULL
      /\ OtherEnd(x) = c /\ OtherEnd(c) = x
      /\ \A d \in Desc : OtherEnd(d) \in Desc /\ OtherEnd(OtherEnd(d)) = d
      /\ x \in Activity /\ c \in Activity /\ t # NULL
  BY <1>4, <1>7, EndsOf, TwoEnds, Kinds
<1>9. x \notin descs /\ x \notin ends /\ x \notin told
  BY <1>2, <1>4, <1>7 DEF IInv, Life, Told
<1>10. act[u].own = c /\ c \in ends /\ At(c, "idle")
  <2>1. act[u].own = c \/ act[u].own = x
    BY <1>1, <1>7, <1>8, TwoEnds
  <2>2. act[u].own = c
    BY <1>7, <1>9, <2>1
  <2>3. Weight(u, act[u], c) # 0
    BY <1>6, <1>7, <1>8, <2>2, Kinds DEF Weight
  <2> QED
    BY <1>6, <1>8, <2>2, <2>3, Referenced
<1>11. At(x, "idle")
  BY <1>8, <1>9, <1>10 DEF IInv, Life, Frees, At
<1>12. /\ l \in Local /\ l.pc = "insert" /\ l.next = NULL /\ l.drop = NULL
       /\ l.own = c /\ l.peer = x /\ l.ref = t /\ l.msg = NULL
  BY <1>5, <1>7, <1>8, <1>10 DEF Local, Phase
<1>13. /\ act' = [act EXCEPT ![u] = l] /\ CreateDescriptor(x, t) /\ told' = told \ {c}
       /\ descs' = descs \cup {x} /\ ends' = ends \cup {x} /\ isClosed' = isClosed \ {x}
       /\ task' = [task EXCEPT ![x] = t]
  BY <1>2, <1>3, <1>4, <1>5 DEF Become, CreateDescriptor
<1>14. /\ Moves(u, l) /\ act'[u] = l /\ act' \in [Activity -> Local]
       /\ \A b \in Activity : b # u => act'[b] = act[b]
  BY <1>6, <1>12, <1>13, OthersStay DEF IInv, Moves
<1>15. \A d \in Desc : act'[d] = act[d]
  BY <1>6, <1>14, Kinds
<1>16. Refs' /\ refCount' \in [Desc -> Nat]
  <2>1. \A d \in Desc : Weight(u, l, d) = Weight(u, act[u], d) + (IF d = x THEN 1 ELSE 0)
    BY <1>2, <1>6, <1>7, <1>8, <1>10, <1>12, Kinds, NullString DEF Weight
  <2> QED
    BY <1>8, <1>9, <1>11, <1>12, <1>13, <1>14, <2>1, CreatedRefs
<1>17. task' \in [Desc -> Task \cup {NULL}] /\ task'[x] = t /\ \A d \in Desc : d # x => task'[d] = task[d]
  BY <1>8, <1>13 DEF IInv, Types
<1>18. Types'
  BY <1>2, <1>7, <1>8, <1>13, <1>14, <1>16, <1>17, ZenonT(30) DEF IInv, Types, Local
<1>19. Shapes'
  <2>1. Stage(l) = "insert" /\ c = Connector(c[1]) /\ c # NULL
    BY <1>4, <1>8, <1>12, Kinds DEF Stage
  <2>2. Shape(u, l)
    BY <1>6, <1>8, <1>12, <2>1, NullString DEF Shape, InStage, Gives, Keeps, Fits, UserStage
  <2> QED
    BY <1>14, <2>2 DEF IInv, Shapes
<1>20. Life'
  <2>1. \A d \in Desc : Frees(d)' <=> Frees(d)
    BY <1>15 DEF Frees
  <2>2. ~Frees(x) /\ ~Frees(c)
    BY <1>10, <1>11 DEF Frees, At
  <2>3. (\A d \in ends : d \in descs /\ d[1] \in socks \ lost)'
    BY <1>2, <1>7, <1>8, <1>13 DEF IInv, Life
  <2>4. (\A d \in Desc : d \in descs /\ d \notin ends <=> act[d].pc \in {"free", "freeboth"})'
    BY <1>11, <1>13, <1>15 DEF IInv, Life, At
  <2>5. (\A d \in Desc : act[d].pc \notin {"idle", "free", "freeboth", "freesock"} => d \in ends)'
    BY <1>13, <1>15 DEF IInv, Life
  <2>6. ASSUME NEW d \in Desc, Frees(d)
        PROVE  /\ d[1] \in socks /\ d[1] \notin lost /\ d \notin ends' /\ OtherEnd(d) \notin ends'
               /\ ~Frees(OtherEnd(d))'
    <3>1. /\ d[1] \in socks /\ d[1] \notin lost /\ d \notin ends /\ OtherEnd(d) \notin ends
          /\ ~Frees(OtherEnd(d))
      BY <2>6 DEF IInv, Life
    <3>2. d # x /\ d # c /\ OtherEnd(d) # x
      BY <1>8, <2>2, <2>6
    <3> QED
      BY <1>8, <1>13, <2>1, <3>1, <3>2
  <2>7. (\A r \in socks \ lost : \E d \in Desc : d[1] = r /\ (d \in ends \/ Frees(d)))'
    BY <1>2, <1>13, <2>1 DEF IInv, Life
  <2>8. (/\ lost \subseteq socks /\ hasBeenConnected \subseteq socks \ lost)'
    BY <1>2, <1>7 DEF IInv, Life
  <2>9. (\A r \in socks \ lost : Receiver(r) \in descs => r \in hasBeenConnected)'
    <3> SUFFICES ASSUME NEW r \in socks \ lost, Receiver(r) \in descs' PROVE r \in hasBeenConnected'
      BY <1>2
    <3>1. CASE r = s
      BY <1>2, <3>1
    <3>2. CASE r # s
      <4>1. r \in Sock
        BY DEF IInv, Types
      <4>2. Receiver(r) # x
        BY <1>8, <3>2, <4>1, EndsOf
      <4> QED
        BY <1>2, <1>13, <4>2 DEF IInv, Life
    <3> QED
      BY <3>1, <3>2
  <2> QED
    BY <1>2, <2>1, <2>3, <2>4, <2>5, <2>6, <2>7, <2>8, <2>9 DEF Life
<1>21. \A d \in Desc : Sent(d)' <=> Sent(d)
  BY <1>15 DEF Sent
<1>22. Told'
  <2>1. ~Sent(x) /\ ~Sent(c)
    BY <1>10, <1>11 DEF Sent, At
  <2>2. told' \subseteq descs'
    BY <1>13 DEF IInv, Told
  <2>3. ASSUME NEW d \in told', OtherEnd(d) \in ends' PROVE Sent(OtherEnd(d))'
    <3>1. d \in Desc /\ d \in told /\ d # c
      BY <1>13, <1>18 DEF Types
    <3>2. OtherEnd(d) # x
      BY <1>8, <3>1
    <3>3. Sent(OtherEnd(d))
      BY <1>13, <2>3, <3>1, <3>2 DEF IInv, Told
    <3> QED
      BY <1>8, <1>21, <3>1, <3>3
  <2>4. ASSUME NEW d \in ends', d \notin isClosed', OtherEnd(d) \notin ends' \/ Sent(OtherEnd(d))'
        PROVE  d \in told'
    <3>1. d \in Desc
      BY <1>18 DEF Types
    <3>2. d # x /\ d # c
      BY <1>8, <1>10, <1>13, <1>21, <2>1, <2>4
    <3>3. d \in ends /\ d \notin isClosed /\ (OtherEnd(d) \notin ends \/ Sent(OtherEnd(d)))
      BY <1>8, <1>13, <1>21, <2>4, <3>1, <3>2
    <3> QED
      BY <1>13, <3>2, <3>3 DEF IInv, Told
  <2> QED
    BY <2>2, <2>3, <2>4 DEF Told
<1>23. Tasks'
  <2>1. \A d \in descs' : task'[d] \in Task
    BY <1>13, <1>17, <1>18 DEF IInv, Tasks, Types
  <2>2. state[Home[u]] \in {"live", "killed"}
    BY <1>2 DEF IInv, Tasks, At
  <2> QED
    BY <1>2, <1>3, <1>6, <1>12, <1>14, <2>1, <2>2, TasksMove
<1>24. Lists'
  <2>1. \A d \in Desc : At(d, "idle")' <=> At(d, "idle")
    BY <1>15 DEF At
  <2>2. pending \subseteq Desc /\ ends \subseteq Desc
    BY DEF IInv, Types
  <2>3. \A d \in pending' : d \in ends' /\ At(d, "idle")'
    BY <1>2, <1>13, <2>1, <2>2 DEF IInv, Lists
  <2>4. ASSUME NEW r \in Task, NEW d \in ToSet(table[r])
        PROVE  d # x /\ d \in ends' /\ At(d, "idle")' /\ task'[d] = r
    <3>1. d \in ends /\ At(d, "idle") /\ task[d] = r /\ d # x /\ d \in Desc
      BY <1>9, <2>2, <2>4 DEF IInv, Lists
    <3> QED
      BY <1>13, <1>17, <2>1, <3>1
  <2>5. \A r \in Task : IsInjective(table'[r])
    BY <1>2 DEF IInv, Lists
  <2>6. ASSUME NEW v \in User, At(v, "insert")'
        PROVE  task'[act'[v].peer] = act'[v].ref /\ \A r \in Task : act'[v].peer \notin ToSet(table[r])
    <3>1. CASE v = u
      BY <1>12, <1>14, <1>17, <2>4, <3>1
    <3>2. CASE v # u
      <4>1. act'[v] = act[v] /\ At(v, "insert")
        BY <1>14, <2>6, <3>2, Kinds DEF At
      <4>2. PICK y : y = act[v].peer
        OBVIOUS
      <4>3. y \in Desc /\ y \in ends /\ y # x
        BY <1>9, <4>1, <4>2, AtInsert
      <4>4. task[y] = act[v].ref /\ ~Listed(y)
        BY <4>1, <4>2 DEF IInv, Lists
      <4> QED
        BY <1>17, <4>1, <4>2, <4>3, <4>4 DEF Listed
    <3> QED
      BY <3>1, <3>2
  <2>7. \A v \in User : At(v, "insert")' => (task[act[v].peer] = act[v].ref /\ ~Listed(act[v].peer))'
    BY <1>2, <2>6 DEF Listed
  <2> QED
    BY <1>2, <2>3, <2>4, <2>5, <2>7 DEF Lists
<1>25. Counts'
  <2>1. \A v \in User : Greeting(v)' => v = u \/ (Greeting(v) /\ act'[v].own = act[v].own)
    BY <1>14, Kinds DEF Greeting
  <2>2. act'[u].own = c /\ \A v \in User : Greeting(v) => act[v].own # c
    BY <1>2, <1>8, <1>12, <1>14 DEF IInv, Counts
  <2>3. \A v, w \in User : (Greeting(v) /\ Greeting(w) /\ act[v].own = act[w].own)' => v = w
    BY <2>1, <2>2 DEF IInv, Counts
  <2>4. \A v \in User : Greeting(v)' => act'[v].own[1] \in hasBeenConnected'
    BY <1>2, <1>8, <2>1, <2>2 DEF IInv, Counts
  <2>5. \A d \in Desc : d[1] \notin hasBeenConnected' => count'[d] = 0
    BY <1>2 DEF IInv, Counts
  <2>6. \A d \in Desc : Extra(d) \in Nat /\ Extra(d)' \in Nat
    BY DEF Extra
  <2>7. ASSUME NEW d \in Desc, d # x, d # c PROVE Extra(d) <= Extra(d)'
    <3>1. OtherEnd(d) # x /\ OtherEnd(d) # c
      BY <1>8, <2>7
    <3>2. OtherEnd(d) \in ends' <=> OtherEnd(d) \in ends
      BY <1>13, <3>1
    <3>3. Sent(OtherEnd(d))' <=> Sent(OtherEnd(d))
      BY <1>8, <1>21
    <3>4. (\E v \in User : Greeting(v) /\ act[v].own = OtherEnd(d))' =>
             \E v \in User : Greeting(v) /\ act[v].own = OtherEnd(d)
      BY <2>1, <2>2, <3>1
    <3> QED
      BY <3>2, <3>3, <3>4 DEF Extra
  <2>8. ASSUME NEW d \in Desc PROVE count[d] <= MsgMax + Extra(d)'
    <3>1. count[d] \in Nat /\ MsgMax \in Nat /\ count[d] <= MsgMax + Extra(d)
      BY SocketsAssumption DEF IInv, Types, Counts
    <3>2. CASE d = x \/ d = c
      <4>1. count[d] = 0
        BY <1>2, <1>8, <3>2 DEF IInv, Counts
      <4> QED
        BY <2>6, <3>1, <4>1
    <3>3. CASE d # x /\ d # c
      BY <2>6, <2>7, <3>1, <3>3
    <3> QED
      BY <3>2, <3>3
  <2> QED
    BY <1>2, <2>3, <2>4, <2>5, <2>8 DEF Counts
<1>26. Aborts'
  BY <1>6, <1>12, <1>14, NoAbort
<1>27. NoLostWakeup'
  <2>1. \A d \in pending' : task'[d] = task[d]
    BY <1>2, <1>9, <1>17 DEF IInv, Lists, Types
  <2>2. "scan" \notin {act[u].pc, act[u].next}
    BY <1>2, <1>7, NullString
  <2> QED
    BY <1>2, <1>6, <1>14, <2>1, <2>2, WakeMove
<1> QED
  BY <1>16, <1>18, <1>19, <1>20, <1>22, <1>23, <1>24, <1>25, <1>26, <1>27 DEF IInv

-----------------------------------------------------------------------------
(* The hangup takes an end off and frees what nobody needs any more.       *)

\* The local variables of activity a when it goes on at p
Goes(a, p) == [act[a] EXCEPT !.pc = p]

\* A hangup that works with no other descriptor goes on.
LEMMA HangupGoes ==
  ASSUME IInv, NEW d \in Desc, act[d].pc \in {"hangup", "unhook", "free", "freeboth", "freesock"},
         NEW p, p \in {"free", "freeboth", "freesock", "idle"}
  PROVE  /\ Goes(d, p) \in Local /\ Shape(d, Goes(d, p))
         /\ Goes(d, p).pc = p /\ Goes(d, p).drop = NULL /\ Goes(d, p).next = NULL
         /\ Goes(d, p).own = NULL /\ Goes(d, p).peer = NULL /\ Goes(d, p).ref = NULL
         /\ Goes(d, p).msg = NULL
         /\ \A e \in Desc : Weight(d, Goes(d, p), e) = 0 /\ Weight(d, act[d], e) = 0
         /\ act[d].next = NULL /\ act[d].drop = NULL
<1> PICK l : l = Goes(d, p)
  OBVIOUS
<1>1. d \in Activity /\ d \notin User /\ d \notin Task /\ d \notin Async
  BY Kinds
<1>3. /\ act[d] \in Local /\ act[d].drop = NULL /\ act[d].next = NULL /\ act[d].own = NULL
      /\ act[d].peer = NULL /\ act[d].ref = NULL /\ act[d].msg = NULL
      /\ \A e \in Desc : Weight(d, act[d], e) = 0
  BY <1>1, AtBare
<1>4. /\ l \in Local /\ l.pc = p /\ l.drop = NULL /\ l.next = NULL
      /\ l.own = NULL /\ l.peer = NULL /\ l.ref = NULL /\ l.msg = NULL
  BY <1>3 DEF Local, Phase, Goes
<1>5. Shape(d, l)
  BY <1>1, <1>4, NullString DEF Shape, InStage, Gives, Keeps, Fits, Stage, HangupStage
<1>6. \A e \in Desc : Weight(d, l, e) = 0
  BY <1>4, Kinds DEF Weight
<1> QED
  BY <1>3, <1>4, <1>5, <1>6

\* The socket forgets an end that nobody has a reference to.
LEMMA UnhookStep ==
  ASSUME IInv, Running, NEW d \in Desc, act[d].pc \in {"hangup", "unhook"},
         act[d].pc = "hangup" => ~Reachable(OtherEnd(d)), Unhook(d)
  PROVE  IInv'
<1>1. PICK o : o = OtherEnd(d)
  OBVIOUS
<1>2. PICK p \in {"free", "freeboth"} : p = IF o \notin ends THEN "freeboth" ELSE "free"
  OBVIOUS
<1>0. PICK l : l = Goes(d, p)
  OBVIOUS
<1>3. /\ act' = [act EXCEPT ![d] = l] /\ ends' = ends \ {d}
      /\ UNCHANGED <<state, asleep, socks, hasBeenConnected, told, lost, count, descs, task, isClosed,
                     refCount, table, stuck, pending>>
  BY <1>0, <1>1, <1>2 DEF Goes, Unhook, ShouldFree, Goto, Become, taskVars, descVars, listVars
<1>4. /\ Moves(d, l) /\ Shape(d, l) /\ l.pc = p /\ l.drop = NULL /\ l.next = NULL
      /\ l.own = NULL /\ l.peer = NULL /\ l.ref = NULL /\ l.msg = NULL
      /\ \A e \in Desc : Weight(d, l, e) = 0 /\ Weight(d, act[d], e) = 0
      /\ act[d].next = NULL /\ act[d].drop = NULL
  BY <1>0, <1>3, HangupGoes DEF Moves
<1>5. /\ d \in Activity /\ d \notin User /\ d \notin Task
      /\ o \in Desc /\ o # d /\ OtherEnd(o) = d /\ o[1] = d[1]
      /\ \A e \in Desc : OtherEnd(e) \in Desc /\ OtherEnd(OtherEnd(e)) = e
  BY <1>1, TwoEnds, Kinds
<1>6. /\ act'[d] = l /\ act' \in [Activity -> Local]
      /\ \A b \in Activity : b # d => act'[b] = act[b]
      /\ \A e \in Desc : e # d => act'[e] = act[e]
  BY <1>4, <1>5, OthersStay, Kinds DEF IInv
<1>7. /\ d \in ends /\ d \in descs /\ d[1] \in socks /\ d[1] \notin lost
      /\ d \in isClosed /\ refCount[d] = 0
  <2>1. d \in ends
    BY DEF IInv, Life
  <2> QED
    BY <2>1 DEF IInv, Life, Refs, At
<1>8. \A a \in Activity : Weight(a, act[a], d) = 0 /\ act[a].drop # d
  <2>1. \A a \in Activity : Weight(a, act[a], d) = 0
    BY <1>7, HeldZero DEF IInv, Refs, RefsExact
  <2>2. ASSUME NEW a \in Activity, act[a].drop = d PROVE FALSE
    <3>1. act[a].pc \in {"deref", "delete"}
      BY <2>2, Kinds DEF IInv, Shapes, Shape, Gives
    <3>2. act[a].pc # "deref"
      BY <2>1, <2>2 DEF Weight
    <3>3. At(d, "idle")
      BY <2>2, <3>1, <3>2 DEF IInv, Refs, At
    <3> QED
      BY <3>3 DEF At
  <2> QED
    BY <2>1, <2>2
<1>9. Types'
  BY <1>3, <1>6 DEF IInv, Types, Local
<1>10. Shapes'
  BY <1>4, <1>6 DEF IInv, Shapes
<1>11. Life'
  <2>1. /\ \A e \in Desc : e # d => (Frees(e)' <=> Frees(e))
        /\ Frees(d)' <=> o \notin ends
        /\ ~Frees(d) /\ ~Frees(o)
    <3>1. ~Frees(o)
      BY <1>5, <1>7 DEF IInv, Life
    <3> QED
      BY <1>2, <1>4, <1>6, <3>1 DEF Frees
  <2>2. (\A e \in ends : e \in descs /\ e[1] \in socks \ lost)'
    BY <1>3 DEF IInv, Life
  <2>3. (\A e \in Desc : e \in descs /\ e \notin ends <=> act[e].pc \in {"free", "freeboth"})'
    BY <1>3, <1>4, <1>6, <1>7 DEF IInv, Life
  <2>4. (\A e \in Desc : act[e].pc \notin {"idle", "free", "freeboth", "freesock"} => e \in ends)'
    BY <1>3, <1>4, <1>6 DEF IInv, Life
  <2>5. ASSUME NEW e \in Desc, Frees(e)'
        PROVE  /\ e[1] \in socks /\ e[1] \notin lost /\ e \notin ends' /\ OtherEnd(e) \notin ends'
               /\ ~Frees(OtherEnd(e))'
    <3>1. CASE e = d
      BY <1>1, <1>3, <1>5, <1>7, <2>1, <2>5, <3>1
    <3>2. CASE e # d
      <4>1. /\ e[1] \in socks /\ e[1] \notin lost /\ e \notin ends /\ OtherEnd(e) \notin ends
            /\ ~Frees(OtherEnd(e))
        BY <2>1, <2>5, <3>2 DEF IInv, Life
      <4>2. OtherEnd(e) # d
        BY <1>7, <4>1
      <4> QED
        BY <1>3, <1>5, <2>1, <4>1, <4>2
    <3> QED
      BY <3>1, <3>2
  <2>6. (\A c \in socks \ lost : \E e \in Desc : e[1] = c /\ (e \in ends \/ Frees(e)))'
    <3> SUFFICES ASSUME NEW c \in socks \ lost
                 PROVE  \E e \in Desc : e[1] = c /\ (e \in ends' \/ Frees(e)')
      BY <1>3
    <3>1. CASE c = d[1]
      BY <1>3, <1>5, <2>1, <3>1
    <3>2. CASE c # d[1]
      <4>1. PICK e \in Desc : e[1] = c /\ (e \in ends \/ Frees(e))
        BY DEF IInv, Life
      <4> QED
        BY <1>3, <2>1, <3>2, <4>1
    <3> QED
      BY <3>1, <3>2
  <2>7. (/\ lost \subseteq socks /\ hasBeenConnected \subseteq socks \ lost
         /\ \A c \in socks \ lost : Receiver(c) \in descs => c \in hasBeenConnected)'
    BY <1>3 DEF IInv, Life
  <2> QED
    BY <1>3, <2>2, <2>3, <2>4, <2>5, <2>6, <2>7 DEF Life
<1>12. \A e \in Desc : e # d => (Sent(e)' <=> Sent(e))
  BY <1>6 DEF Sent
<1>13. Told'
  <2>1. ASSUME NEW e \in told, OtherEnd(e) \in ends' PROVE Sent(OtherEnd(e))'
    <3>1. e \in Desc /\ OtherEnd(e) # d /\ OtherEnd(e) \in ends
      BY <1>3, <2>1 DEF IInv, Types
    <3>2. Sent(OtherEnd(e))
      BY <3>1 DEF IInv, Told
    <3> QED
      BY <1>5, <1>12, <3>1, <3>2
  <2>2. ASSUME NEW e \in ends', e \notin isClosed, OtherEnd(e) \notin ends' \/ Sent(OtherEnd(e))'
        PROVE  e \in told
    <3>1. e \in Desc /\ e \in ends
      BY <1>3 DEF IInv, Types
    <3>2. OtherEnd(e) \notin ends \/ Sent(OtherEnd(e))
      <4>1. CASE OtherEnd(e) = d
        <5>1. e = o
          BY <1>1, <1>5, <3>1, <4>1
        <5>2. act[d].pc = "unhook"
          BY <1>1, <2>2, <3>1, <5>1 DEF Reachable
        <5> QED
          BY <4>1, <5>2 DEF Sent
      <4>2. CASE OtherEnd(e) # d
        BY <1>3, <1>5, <1>12, <2>2, <3>1, <4>2
      <4> QED
        BY <4>1, <4>2
    <3> QED
      BY <2>2, <3>1, <3>2 DEF IInv, Told
  <2> QED
    BY <1>3, <2>1, <2>2 DEF IInv, Told
<1>14. Refs'
  <2>1. RefsExact'
    <3> SUFFICES ASSUME NEW e \in descs PROVE refCount[e] = HeldRefs(e)'
      BY <1>3 DEF RefsExact
    <3>1. e \in Desc /\ refCount[e] = HeldRefs(e)
      BY DEF IInv, Refs, RefsExact, Types
    <3>2. HeldRefs(e)' = HeldRefs(e) - Weight(d, act[d], e) + Weight(d, l, e) /\ HeldRefs(e) \in Nat
      BY <1>4, <1>5, WeightMoves, HeldZero DEF IInv
    <3> QED
      BY <1>4, <3>1, <3>2
  <2>2. ASSUME NEW b \in Activity, NEW e \in Desc,
               (OwnRef(b, e) \/ PeerRef(b, e) \/ act[b].drop = e)'
        PROVE  e \in ends'
    <3>1. b # d
      BY <1>4, <1>6, <2>2, Kinds DEF OwnRef, PeerRef
    <3>2. OwnRef(b, e) \/ PeerRef(b, e) \/ act[b].drop = e
      BY <1>6, <2>2, <3>1 DEF OwnRef, PeerRef, At
    <3>3. e \in ends
      BY <3>2 DEF IInv, Refs
    <3>4. e # d
      BY <1>8, <3>2 DEF OwnRef, PeerRef, At, Weight
    <3> QED
      BY <1>3, <3>3, <3>4
  <2>3. ASSUME NEW e \in descs, ~At(e, "idle")'
        PROVE  e \in isClosed /\ refCount[e] = 0
    <3>1. CASE e = d
      BY <1>7, <3>1
    <3>2. CASE e # d
      <4>1. ~At(e, "idle")
        BY <1>6, <2>3, <3>2 DEF At, IInv, Types
      <4> QED
        BY <4>1 DEF IInv, Refs
    <3> QED
      BY <3>1, <3>2
  <2>4. ASSUME NEW b \in Activity, At(b, "delete")'
        PROVE  /\ act'[b] = act[b] /\ At(b, "delete")
               /\ act'[b].drop \in isClosed /\ refCount[act'[b].drop] = 0
               /\ act'[act'[b].drop].pc = "idle"
    <3>1. b # d /\ act'[b] = act[b] /\ At(b, "delete")
      BY <1>4, <1>6, <2>4 DEF At
    <3>2. PICK e : e = act[b].drop
      OBVIOUS
    <3>3. e \in isClosed /\ refCount[e] = 0 /\ At(e, "idle") /\ e \in Desc /\ e # d
      BY <1>8, <3>1, <3>2 DEF IInv, Refs, Types
    <3>4. act'[e].pc = "idle"
      BY <1>6, <3>3 DEF At
    <3> QED
      BY <3>1, <3>2, <3>3, <3>4
  <2>5. \A b, c \in Activity : (At(b, "delete") /\ At(c, "delete") /\ act[b].drop = act[c].drop)' => b = c
    BY <2>4 DEF IInv, Refs
  <2> QED
    BY <1>3, <2>1, <2>2, <2>3, <2>4, <2>5 DEF Refs, At
<1>15. Tasks'
  <2>1. \A e \in descs' : task'[e] \in Task
    BY <1>3 DEF IInv, Tasks
  <2> QED
    BY <1>3, <1>4, <1>5, <2>1, TasksMove
<1>16. Lists'
  <2>1. ASSUME NEW e \in ends, At(e, "idle") PROVE e \in ends' /\ At(e, "idle")'
    <3>1. e # d /\ e \in Desc
      BY <2>1 DEF At, IInv, Types
    <3> QED
      BY <1>3, <1>6, <2>1, <3>1 DEF At
  <2>2. \A u \in User : act'[u] = act[u]
    BY <1>5, <1>6, Kinds
  <2>3. \A u \in User : At(u, "insert")' => (task[act[u].peer] = act[u].ref /\ ~Listed(act[u].peer))'
    BY <1>3, <2>2 DEF IInv, Lists, At, Listed
  <2>4. \A e \in pending' : e \in ends' /\ At(e, "idle")'
    BY <1>3, <2>1 DEF IInv, Lists
  <2>5. \A t \in Task : \A e \in ToSet(table[t]) : e \in ends' /\ At(e, "idle")' /\ task[e] = t
    BY <2>1 DEF IInv, Lists
  <2>6. \A t \in Task : IsInjective(table[t])
    BY DEF IInv, Lists
  <2> QED
    BY <1>3, <2>3, <2>4, <2>5, <2>6 DEF Lists
<1>17. Counts'
  <2>1. \A u \in User : Greeting(u)' => Greeting(u) /\ act'[u].own = act[u].own
    BY <1>5, <1>6, Kinds DEF Greeting
  <2>2. \A e \in ends' : Sent(e) => Sent(e)'
    BY <1>3, <1>12 DEF IInv, Types
  <2>3. count' \in [Desc -> Nat] /\ \A e \in Desc : count'[e] <= count[e]
    BY <1>3 DEF IInv, Types
  <2>4. ends' \subseteq ends
    BY <1>3
  <2> QED
    BY <1>3, <2>1, <2>2, <2>3, <2>4, CountsKept
<1>18. Aborts'
  BY <1>4, <1>5, NoAbort
<1>19. NoLostWakeup'
  BY <1>3, <1>4, <1>5, WakeMove, NullString
<1> QED
  BY <1>9, <1>10, <1>11, <1>13, <1>14, <1>15, <1>16, <1>17, <1>18, <1>19 DEF IInv

\* A descriptor is freed.
LEMMA HangupFreeStep ==
  ASSUME IInv, Running, NEW d \in Desc, HangupFree(d)
  PROVE  IInv'
<1>1. PICK p : p = IF At(d, "free") THEN "idle" ELSE "freesock"
  OBVIOUS
<1>2. PICK l : l = Goes(d, p)
  OBVIOUS
<1>3. /\ act[d].pc \in {"free", "freeboth"} /\ act' = [act EXCEPT ![d] = l]
      /\ descs' = descs \ {d} /\ isClosed' = isClosed \ {d} /\ told' = told \ {d}
      /\ task' = [task EXCEPT ![d] = NULL]
      /\ UNCHANGED <<state, asleep, socks, ends, hasBeenConnected, lost, count, refCount,
                     table, stuck, pending>>
  BY <1>1, <1>2 DEF Goes, HangupFree, Goto, Become, taskVars, listVars
<1>4. /\ Moves(d, l) /\ Shape(d, l) /\ l.pc = p /\ l.drop = NULL /\ l.next = NULL
      /\ l.own = NULL /\ l.peer = NULL /\ l.ref = NULL /\ l.msg = NULL
      /\ \A e \in Desc : Weight(d, l, e) = 0 /\ Weight(d, act[d], e) = 0
      /\ act[d].next = NULL /\ act[d].drop = NULL
  <2>1. p \in {"free", "freeboth", "freesock", "idle"}
    BY <1>1
  <2> QED
    BY <1>2, <1>3, <2>1, HangupGoes DEF Moves
<1>5. /\ d \in Activity /\ d \notin User /\ d \notin Task
      /\ \A e \in Desc : OtherEnd(e) \in Desc /\ OtherEnd(OtherEnd(e)) = e
  BY TwoEnds, Kinds
<1>6. /\ act'[d] = l /\ act' \in [Activity -> Local]
      /\ \A b \in Activity : b # d => act'[b] = act[b]
      /\ \A e \in Desc : e # d => act'[e] = act[e]
  BY <1>4, <1>5, OthersStay, Kinds DEF IInv
<1>7. d \notin ends /\ d \in descs /\ ends \subseteq Desc
  BY <1>3 DEF IInv, Life, Types
<1>8. \A a \in Activity : Weight(a, act[a], d) = 0 /\ act[a].drop # d
  BY <1>7, Unreferenced
<1>9. task' \in [Desc -> Task \cup {NULL}] /\ \A e \in Desc : e # d => task'[e] = task[e]
  BY <1>3 DEF IInv, Types
<1>10. Types'
  BY <1>3, <1>6, <1>9 DEF IInv, Types, Local
<1>11. Shapes'
  BY <1>4, <1>6 DEF IInv, Shapes
<1>12. \A e \in Desc : (Frees(e)' <=> Frees(e)) /\ (Sent(e)' <=> Sent(e))
  BY <1>1, <1>3, <1>4, <1>6 DEF Frees, Sent, At
<1>13. Life'
  <2>1. (\A e \in ends : e \in descs /\ e[1] \in socks \ lost)'
    BY <1>3, <1>7 DEF IInv, Life
  <2>2. (\A e \in Desc : e \in descs /\ e \notin ends <=> act[e].pc \in {"free", "freeboth"})'
    BY <1>1, <1>3, <1>4, <1>6 DEF IInv, Life
  <2>3. (\A e \in Desc : act[e].pc \notin {"idle", "free", "freeboth", "freesock"} => e \in ends)'
    BY <1>1, <1>3, <1>4, <1>6 DEF IInv, Life
  <2>4. (\A e \in Desc : Frees(e) => /\ e[1] \in socks \ lost
                                     /\ e \notin ends /\ OtherEnd(e) \notin ends
                                     /\ ~Frees(OtherEnd(e)))'
    BY <1>3, <1>5, <1>12 DEF IInv, Life
  <2>5. (\A c \in socks \ lost : \E e \in Desc : e[1] = c /\ (e \in ends \/ Frees(e)))'
    BY <1>3, <1>12 DEF IInv, Life
  <2>6. (/\ lost \subseteq socks /\ hasBeenConnected \subseteq socks \ lost
         /\ \A c \in socks \ lost : Receiver(c) \in descs => c \in hasBeenConnected)'
    BY <1>3 DEF IInv, Life
  <2> QED
    BY <2>1, <2>2, <2>3, <2>4, <2>5, <2>6 DEF Life
<1>14. Told'
  <2>1. told' \subseteq descs'
    BY <1>3 DEF IInv, Told
  <2>2. ASSUME NEW e \in told', OtherEnd(e) \in ends PROVE Sent(OtherEnd(e))'
    <3>1. e \in told /\ e \in Desc
      BY <1>3 DEF IInv, Types
    <3>2. Sent(OtherEnd(e))
      BY <2>2, <3>1 DEF IInv, Told
    <3> QED
      BY <1>5, <1>12, <3>1, <3>2
  <2>3. ASSUME NEW e \in ends, e \notin isClosed', OtherEnd(e) \notin ends \/ Sent(OtherEnd(e))'
        PROVE  e \in told'
    <3>1. e \in Desc /\ e # d /\ e \notin isClosed
      BY <1>3, <1>7, <2>3
    <3>2. OtherEnd(e) \notin ends \/ Sent(OtherEnd(e))
      BY <1>5, <1>12, <2>3, <3>1
    <3> QED
      BY <1>3, <3>1, <3>2 DEF IInv, Told
  <2> QED
    BY <1>3, <2>1, <2>2, <2>3 DEF Told
<1>15. Refs'
  <2>1. RefsExact'
    <3> SUFFICES ASSUME NEW e \in descs PROVE refCount[e] = HeldRefs(e)'
      BY <1>3 DEF RefsExact
    <3>1. e \in Desc /\ refCount[e] = HeldRefs(e)
      BY DEF IInv, Refs, RefsExact, Types
    <3>2. HeldRefs(e)' = HeldRefs(e) - Weight(d, act[d], e) + Weight(d, l, e) /\ HeldRefs(e) \in Nat
      BY <1>4, <1>5, WeightMoves, HeldZero DEF IInv
    <3> QED
      BY <1>4, <3>1, <3>2
  <2>2. ASSUME NEW b \in Activity, NEW e \in Desc,
               (OwnRef(b, e) \/ PeerRef(b, e) \/ act[b].drop = e)'
        PROVE  e \in ends
    <3>1. b # d
      BY <1>4, <1>6, <2>2, Kinds DEF OwnRef, PeerRef
    <3>2. OwnRef(b, e) \/ PeerRef(b, e) \/ act[b].drop = e
      BY <1>6, <2>2, <3>1 DEF OwnRef, PeerRef, At
    <3> QED
      BY <3>2 DEF IInv, Refs
  <2>3. ASSUME NEW e \in descs', ~At(e, "idle")'
        PROVE  e \in isClosed' /\ refCount[e] = 0
    <3>1. e \in descs /\ e # d /\ e \in Desc
      BY <1>3 DEF IInv, Types
    <3>2. ~At(e, "idle")
      BY <1>6, <2>3, <3>1 DEF At
    <3> QED
      BY <1>3, <3>1, <3>2 DEF IInv, Refs
  <2>4. ASSUME NEW b \in Activity, At(b, "delete")'
        PROVE  /\ act'[b] = act[b] /\ At(b, "delete")
               /\ act'[b].drop \in isClosed' /\ refCount[act'[b].drop] = 0
               /\ act'[act'[b].drop].pc = "idle"
    <3>1. b # d /\ act'[b] = act[b] /\ At(b, "delete")
      BY <1>1, <1>4, <1>6, <2>4 DEF At
    <3>2. PICK e : e = act[b].drop
      OBVIOUS
    <3>3. e \in isClosed /\ refCount[e] = 0 /\ At(e, "idle") /\ e \in Desc /\ e # d
      BY <1>8, <3>1, <3>2 DEF IInv, Refs, Types
    <3>4. act'[e].pc = "idle"
      BY <1>6, <3>3 DEF At
    <3> QED
      BY <1>3, <3>1, <3>2, <3>3, <3>4
  <2>5. \A b, c \in Activity : (At(b, "delete") /\ At(c, "delete") /\ act[b].drop = act[c].drop)' => b = c
    BY <2>4 DEF IInv, Refs
  <2> QED
    BY <1>3, <2>1, <2>2, <2>3, <2>4, <2>5 DEF Refs, At
<1>16. Tasks'
  <2>1. \A e \in descs' : task'[e] \in Task
    BY <1>3, <1>9 DEF IInv, Tasks, Types
  <2> QED
    BY <1>3, <1>4, <1>5, <2>1, TasksMove
<1>17. Lists'
  <2>1. ASSUME NEW e \in ends, At(e, "idle") PROVE At(e, "idle")' /\ task'[e] = task[e]
    <3>1. e # d /\ e \in Desc
      BY <1>7
    <3> QED
      BY <1>6, <1>9, <2>1, <3>1 DEF At
  <2>2. ASSUME NEW u \in User, At(u, "insert")'
        PROVE  task'[act'[u].peer] = act'[u].ref /\ ~Listed(act'[u].peer)
    <3>1. act'[u] = act[u] /\ At(u, "insert")
      BY <1>5, <1>6, <2>2, Kinds DEF At
    <3>2. PICK y : y = act[u].peer
      OBVIOUS
    <3>3. y \in Desc /\ y # d
      BY <1>7, <3>1, <3>2, AtInsert
    <3>4. task[y] = act[u].ref /\ ~Listed(y)
      BY <3>1, <3>2 DEF IInv, Lists
    <3> QED
      BY <1>9, <3>1, <3>2, <3>3, <3>4
  <2>3. \A u \in User : At(u, "insert")' => (task[act[u].peer] = act[u].ref /\ ~Listed(act[u].peer))'
    BY <1>3, <2>2 DEF Listed
  <2>4. \A e \in pending' : e \in ends /\ At(e, "idle")'
    BY <1>3, <2>1 DEF IInv, Lists
  <2>5. \A t \in Task : \A e \in ToSet(table[t]) : e \in ends /\ At(e, "idle")' /\ task'[e] = t
    BY <2>1 DEF IInv, Lists
  <2>6. \A t \in Task : IsInjective(table[t])
    BY DEF IInv, Lists
  <2> QED
    BY <1>3, <2>3, <2>4, <2>5, <2>6 DEF Lists
<1>18. Counts'
  <2>1. \A u \in User : Greeting(u)' => Greeting(u) /\ act'[u].own = act[u].own
    BY <1>5, <1>6, Kinds DEF Greeting
  <2>2. \A e \in ends' : Sent(e) => Sent(e)'
    BY <1>3, <1>7, <1>12
  <2>3. count' \in [Desc -> Nat] /\ \A e \in Desc : count'[e] <= count[e]
    BY <1>3 DEF IInv, Types
  <2> QED
    BY <1>3, <2>1, <2>2, <2>3, CountsKept
<1>19. Aborts'
  BY <1>1, <1>4, <1>5, NoAbort
<1>20. NoLostWakeup'
  <2>1. \A e \in pending' : task'[e] = task[e]
    BY <1>3, <1>7, <1>9 DEF IInv, Lists
  <2> QED
    BY <1>3, <1>4, <1>5, <2>1, WakeMove, NullString
<1> QED
  BY <1>10, <1>11, <1>13, <1>14, <1>15, <1>16, <1>17, <1>18, <1>19, <1>20 DEF IInv

\* A thread that is to send the connect message has a reference to its end.
LEMMA AtGreeting ==
  ASSUME IInv, NEW u \in User, Greeting(u)
  PROVE  act[u].own \in Desc /\ act[u].own \in ends
<1>1. u \in Activity /\ u \notin Desc /\ u \notin Task
  BY Kinds
<1>2. act[u] \in Local /\ Shape(u, act[u])
  BY <1>1, LocalType DEF IInv, Shapes
<1>3. Stage(act[u]) \in {"insert", "greet", "push"}
  BY <1>2, NullString DEF Greeting, Greets, Shape, Keeps
<1>4. act[u].own # NULL
  BY <1>1, <1>2, <1>3 DEF Shape, Keeps
<1>5. PICK y \in Desc : y = act[u].own
  BY <1>2, <1>4 DEF Local
<1>6. OwnRef(u, y)
  BY <1>1, <1>5 DEF OwnRef
<1> QED
  BY <1>1, <1>5, <1>6 DEF IInv, Refs

\* The socket and its messages are freed.
LEMMA SocketFreeStep ==
  ASSUME IInv, Running, NEW d \in Desc, SocketFree(d)
  PROVE  IInv'
<1>1. PICK s : s = d[1]
  OBVIOUS
<1>2. PICK l : l = Goes(d, "idle")
  OBVIOUS
<1>3. /\ act[d].pc = "freesock" /\ act' = [act EXCEPT ![d] = l]
      /\ socks' = socks \ {s} /\ hasBeenConnected' = hasBeenConnected \ {s}
      /\ count' = [e \in Desc |-> IF e[1] = s THEN 0 ELSE count[e]]
      /\ UNCHANGED <<state, asleep, ends, told, lost, descs, task, isClosed, refCount,
                     table, stuck, pending>>
  BY <1>1, <1>2 DEF Goes, SocketFree, At, Goto, Become, taskVars, descVars, listVars
<1>4. /\ Moves(d, l) /\ Shape(d, l) /\ l.pc = "idle" /\ l.drop = NULL /\ l.next = NULL
      /\ l.own = NULL /\ l.peer = NULL /\ l.ref = NULL /\ l.msg = NULL
      /\ \A e \in Desc : Weight(d, l, e) = 0 /\ Weight(d, act[d], e) = 0
      /\ act[d].next = NULL /\ act[d].drop = NULL
  BY <1>2, <1>3, HangupGoes DEF Moves
<1>5. /\ d \in Activity /\ d \notin User /\ d \notin Task
      /\ \A e \in Desc : OtherEnd(e) \in Desc /\ OtherEnd(OtherEnd(e)) = e
      /\ \A e \in Desc : e[1] = s => e = d \/ e = OtherEnd(d)
  BY <1>1, TwoEnds, Kinds
<1>6. /\ act'[d] = l /\ act' \in [Activity -> Local]
      /\ \A b \in Activity : b # d => act'[b] = act[b]
      /\ \A e \in Desc : e # d => act'[e] = act[e]
  BY <1>4, <1>5, OthersStay, Kinds DEF IInv
<1>7. /\ s \in socks /\ s \notin lost /\ d \notin ends /\ OtherEnd(d) \notin ends
      /\ ~Frees(OtherEnd(d)) /\ ends \subseteq Desc
  BY <1>1, <1>3 DEF IInv, Life, Frees, Types
<1>8. \A e \in ends : e[1] # s
  BY <1>5, <1>7
<1>9. /\ count' \in [Desc -> Nat]
      /\ \A e \in Desc : count'[e] <= count[e] /\ (e[1] = s => count'[e] = 0)
      /\ \A e \in Desc : e[1] # s => count'[e] = count[e]
  BY <1>3 DEF IInv, Types
<1>10. Types'
  BY <1>3, <1>6, <1>9 DEF IInv, Types, Local
<1>11. Shapes'
  BY <1>4, <1>6 DEF IInv, Shapes
<1>12. /\ \A e \in Desc : Frees(e)' <=> Frees(e) /\ e # d
       /\ \A e \in Desc : Sent(e)' <=> Sent(e)
  BY <1>3, <1>4, <1>6 DEF Frees, Sent
<1>13. Life'
  <2>1. (\A e \in ends : e \in descs /\ e[1] \in socks \ lost)'
    BY <1>3, <1>8 DEF IInv, Life
  <2>2. (\A e \in Desc : e \in descs /\ e \notin ends <=> act[e].pc \in {"free", "freeboth"})'
    BY <1>3, <1>4, <1>6 DEF IInv, Life
  <2>3. (\A e \in Desc : act[e].pc \notin {"idle", "free", "freeboth", "freesock"} => e \in ends)'
    BY <1>3, <1>4, <1>6 DEF IInv, Life
  <2>4. ASSUME NEW e \in Desc, Frees(e)'
        PROVE  /\ e[1] \in socks' /\ e[1] \notin lost /\ e \notin ends /\ OtherEnd(e) \notin ends
               /\ ~Frees(OtherEnd(e))'
    <3>1. Frees(e) /\ e # d /\ e # OtherEnd(d)
      BY <1>7, <1>12, <2>4
    <3>2. e[1] # s
      BY <1>5, <3>1
    <3> QED
      BY <1>3, <1>5, <1>12, <3>1, <3>2 DEF IInv, Life
  <2>5. (\A c \in socks \ lost : \E e \in Desc : e[1] = c /\ (e \in ends \/ Frees(e)))'
    <3> SUFFICES ASSUME NEW c \in socks \ lost, c # s
                 PROVE  \E e \in Desc : e[1] = c /\ (e \in ends \/ Frees(e)')
      BY <1>3
    <3>1. PICK e \in Desc : e[1] = c /\ (e \in ends \/ Frees(e))
      BY DEF IInv, Life
    <3>2. e # d
      BY <1>1, <3>1
    <3> QED
      BY <1>12, <3>1, <3>2
  <2>6. (/\ lost \subseteq socks /\ hasBeenConnected \subseteq socks \ lost
         /\ \A c \in socks \ lost : Receiver(c) \in descs => c \in hasBeenConnected)'
    BY <1>3, <1>7 DEF IInv, Life
  <2> QED
    BY <1>3, <2>1, <2>2, <2>3, <2>4, <2>5, <2>6 DEF Life
<1>14. Told'
  BY <1>3, <1>12, ToldKept
<1>15. Refs'
  <2>1. /\ refCount' \in [Desc -> Nat]
        /\ \A e \in Desc : refCount'[e] = refCount[e] - Weight(d, act[d], e) + Weight(d, l, e)
        /\ \A e \in Desc : ~(Weight(d, l, e) > Weight(d, act[d], e))
    BY <1>3, <1>4 DEF IInv, Types
  <2> QED
    BY <1>3, <1>4, <1>5, <2>1, RefsMove
<1>16. Tasks'
  <2>1. \A e \in descs' : task'[e] \in Task
    BY <1>3 DEF IInv, Tasks
  <2> QED
    BY <1>3, <1>4, <1>5, <2>1, TasksMove
<1>17. Lists'
  BY <1>3, <1>4, <1>5, ListsMove
<1>18. Counts'
  <2>1. \A u \in User : act'[u] = act[u]
    BY <1>5, <1>6, Kinds
  <2>2. \A u \in User : Greeting(u)' <=> Greeting(u)
    BY <2>1 DEF Greeting
  <2>3. \A u \in User : Greeting(u) => act[u].own[1] # s
    BY <1>8, AtGreeting
  <2>4. \A u, v \in User : (Greeting(u) /\ Greeting(v) /\ act[u].own = act[v].own)' => u = v
    BY <2>1, <2>2 DEF IInv, Counts
  <2>5. \A u \in User : Greeting(u)' => act'[u].own[1] \in hasBeenConnected'
    BY <1>3, <2>1, <2>2, <2>3 DEF IInv, Counts
  <2>6. \A e \in Desc : e[1] \notin hasBeenConnected' => count'[e] = 0
    BY <1>3, <1>9 DEF IInv, Counts
  <2>7. ASSUME NEW e \in Desc PROVE count'[e] <= MsgMax + Extra(e)'
    <3>1. Extra(e)' = Extra(e)
      <4>1. Sent(OtherEnd(e))' <=> Sent(OtherEnd(e))
        BY <1>5, <1>12
      <4>2. (\E u \in User : Greeting(u) /\ act[u].own = OtherEnd(e))' <=>
               \E u \in User : Greeting(u) /\ act[u].own = OtherEnd(e)
        BY <2>1, <2>2
      <4> QED
        BY <1>3, <4>1, <4>2 DEF Extra
    <3>2. count'[e] \in Nat /\ count[e] \in Nat /\ MsgMax \in Nat /\ Extra(e) \in Nat
          /\ count[e] <= MsgMax + Extra(e)
      BY <1>9, SocketsAssumption DEF IInv, Types, Counts, Extra
    <3> QED
      BY <1>9, <3>1, <3>2
  <2> QED
    BY <2>4, <2>5, <2>6, <2>7 DEF Counts
<1>19. Aborts'
  BY <1>4, <1>5, NoAbort
<1>20. NoLostWakeup'
  BY <1>3, <1>4, <1>5, WakeMove, NullString
<1> QED
  BY <1>10, <1>11, <1>13, <1>14, <1>15, <1>16, <1>17, <1>18, <1>19, <1>20 DEF IInv

-----------------------------------------------------------------------------
(* Tasks are killed, torn down and made again.                             *)

\* A step of a task that uses no descriptor
LEMMA TaskStep ==
  ASSUME IInv, Running, NEW t \in Task, NEW p, p \in {"idle", "pick"},
         act[t].pc \in {"idle", "freetask"},
         NEW l, l = [Idle EXCEPT !.pc = p], act' = [act EXCEPT ![t] = l],
         UNCHANGED <<sockVars, count, descVars, refCount, stuck, pending>>,
         state' \in [Task -> {"live", "killed", "reaping", "free"}], asleep' \subseteq asleep,
         table' \in [Task -> Seq(Desc)],
         \A s \in Task : table'[s] = table[s] \/ table'[s] = <<>>,
         Tasks', NoLostWakeup'
  PROVE  IInv'
<1>1. t \in Activity /\ t \notin Desc /\ t \notin User /\ t \notin Async
  BY Kinds
<1>2. /\ l \in Local /\ l.pc = p /\ l.drop = NULL /\ l.next = NULL /\ l.own = NULL
      /\ l.peer = NULL /\ l.ref = NULL /\ l.msg = NULL
  BY DEF Idle, Local, Phase
<1>3. UNCHANGED <<socks, ends, hasBeenConnected, told, lost, count, descs, task, isClosed, refCount,
                  stuck, pending>>
  BY DEF sockVars, descVars
<1>4. /\ Moves(t, l) /\ act'[t] = l /\ act' \in [Activity -> Local]
      /\ \A b \in Activity : b # t => act'[b] = act[b]
  BY <1>1, <1>2, OthersStay DEF IInv, Moves
<1>5. (\A d \in Desc : act'[d] = act[d]) /\ \A u \in User : act'[u] = act[u]
  BY <1>1, <1>4, Kinds
<1>6. Types'
  BY <1>3, <1>4 DEF IInv, Types, Local
<1>7. Shapes'
  <2>1. Shape(t, l)
    BY <1>1, <1>2, NullString DEF Shape, InStage, Gives, Keeps, Fits, Stage, KillStage
  <2> QED
    BY <1>4, <2>1 DEF IInv, Shapes
<1>8. Life'
  BY <1>3, <1>5, LifeKept DEF Frees
<1>9. Told'
  BY <1>3, <1>5, ToldKept DEF Sent
<1>10. Refs'
  <2>1. \A d \in Desc : Weight(t, act[t], d) = 0 /\ Weight(t, l, d) = 0
    BY <1>1, <1>2, AtBare, Kinds DEF Weight
  <2>2. /\ refCount' \in [Desc -> Nat]
        /\ \A d \in Desc : refCount'[d] = refCount[d] - Weight(t, act[t], d) + Weight(t, l, d)
        /\ \A d \in Desc : ~(Weight(t, l, d) > Weight(t, act[t], d))
    <3>1. refCount' \in [Desc -> Nat] /\ \A d \in Desc : refCount'[d] = refCount[d] /\ refCount[d] \in Nat
      BY <1>3 DEF IInv, Types
    <3>2. ASSUME NEW d \in Desc
          PROVE  /\ refCount'[d] = refCount[d] - Weight(t, act[t], d) + Weight(t, l, d)
                 /\ ~(Weight(t, l, d) > Weight(t, act[t], d))
      <4>1. /\ Weight(t, act[t], d) = 0 /\ Weight(t, l, d) = 0
            /\ refCount'[d] = refCount[d] /\ refCount[d] \in Nat
        BY <2>1, <3>1
      <4> QED
        BY ONLY <4>1
    <3> QED
      BY <3>1, <3>2
  <2> QED
    BY <1>1, <1>2, <1>3, <1>4, <2>2, RefsMove
<1>11. Lists'
  <2>1. \A d \in pending' : d \in ends /\ At(d, "idle")'
    BY <1>3, <1>5 DEF IInv, Lists, At, Types
  <2>2. \A s \in Task : \A d \in ToSet(table'[s]) : d \in ToSet(table[s])
    BY DEF ToSet
  <2>3. \A s \in Task : \A d \in ToSet(table'[s]) : d \in ends /\ At(d, "idle")' /\ task[d] = s
    BY <1>5, <2>2 DEF IInv, Lists, At, Types
  <2>4. \A s \in Task : IsInjective(table'[s])
    BY DEF IInv, Lists, IsInjective
  <2>5. \A u \in User : At(u, "insert")' => (task[act[u].peer] = act[u].ref /\ ~Listed(act[u].peer))'
    BY <1>3, <1>5, <2>2 DEF IInv, Lists, At, Listed
  <2> QED
    BY <1>3, <2>1, <2>3, <2>4, <2>5 DEF Lists
<1>12. Counts'
  <2>1. count' \in [Desc -> Nat] /\ \A d \in Desc : count'[d] <= count[d]
    BY <1>3 DEF IInv, Types
  <2> QED
    BY <1>1, <1>3, <1>4, <2>1, CountsMove
<1>13. Aborts'
  BY <1>1, <1>2, <1>4, NoAbort
<1> QED
  BY <1>6, <1>7, <1>8, <1>9, <1>10, <1>11, <1>12, <1>13 DEF IInv

\* A live task is killed.
LEMMA TaskKillStep ==
  ASSUME IInv, Running, NEW t \in Task, TaskKill(t)
  PROVE  IInv'
<1>1. /\ state[t] = "live" /\ state' = [state EXCEPT ![t] = "killed"] /\ act' = act
      /\ UNCHANGED <<sockVars, count, descVars, refCount, stuck, pending, asleep, table>>
      /\ task' = task /\ descs' = descs
  BY DEF TaskKill, listVars, descVars
<1>2. /\ state' \in [Task -> {"live", "killed", "reaping", "free"}] /\ state'[t] = "killed"
      /\ \A s \in Task : s # t => state'[s] = state[s]
      /\ \A s \in Task : state[s] \in {"live", "killed"} => state'[s] \in {"live", "killed"}
  BY <1>1 DEF IInv, Types
<1>3. t \in Activity /\ act[t].pc = "idle" /\ act[t] = Idle
  BY <1>1, AtIdle, Kinds DEF IInv, Tasks, At
<1>4. PICK l : l = [Idle EXCEPT !.pc = "idle"]
  OBVIOUS
<1>5. act' = [act EXCEPT ![t] = l]
  <2>1. l = act[t]
    BY <1>3, <1>4 DEF Idle
  <2> QED
    BY <1>1, <2>1 DEF IInv, Types
<1>6. Tasks'
  <2>1. \A a \in Activity : act[a].ref # NULL => act[a].ref \in Task
    BY LocalType DEF IInv
  <2>2. \A u \in User : Home[u] \in Task
    BY SocketsAssumption
  <2>3. \A s \in Task : state'[s] = "free" => state[s] = "free"
    BY <1>2
  <2>4. \A s \in Task : state[s] = "reaping" => state'[s] = "reaping"
    BY <1>1, <1>2
  <2> QED
    BY <1>1, <1>2, <2>1, <2>2, <2>3, <2>4 DEF IInv, Tasks, At, Types
<1>7. NoLostWakeup'
  <2>1. \A s \in Task : state'[s] = "live" => state[s] = "live"
    BY <1>2
  <2> QED
    BY <1>1, <2>1, WakeKept
<1>8. table' \in [Task -> Seq(Desc)]
  BY <1>1 DEF IInv, Types
<1> QED
  BY <1>1, <1>2, <1>3, <1>4, <1>5, <1>6, <1>7, <1>8, TaskStep

\* A killed task that nobody has a reference to is torn down.
LEMMA GenerateKillJobStep ==
  ASSUME IInv, Running, NEW t \in Task, GenerateKillJob(t)
  PROVE  IInv'
<1>1. /\ state[t] = "killed" /\ state' = [state EXCEPT ![t] = "reaping"] /\ TaskRefs(t) = {}
      /\ act' = [act EXCEPT ![t] = [act[t] EXCEPT !.pc = "pick"]]
      /\ UNCHANGED <<sockVars, count, descVars, refCount, stuck, pending, asleep, table>>
      /\ task' = task /\ descs' = descs
  BY DEF GenerateKillJob, Goto, Become, listVars, descVars
<1>2. /\ state' \in [Task -> {"live", "killed", "reaping", "free"}] /\ state'[t] = "reaping"
      /\ \A s \in Task : s # t => state'[s] = state[s]
  BY <1>1 DEF IInv, Types
<1>3. t \in Activity /\ act[t].pc = "idle" /\ act[t] = Idle
  BY <1>1, AtIdle, Kinds DEF IInv, Tasks, At
<1>4. PICK l : l = [Idle EXCEPT !.pc = "pick"]
  OBVIOUS
<1>5. act' = [act EXCEPT ![t] = l]
  BY <1>1, <1>3, <1>4
<1>6. /\ act'[t] = l /\ l.ref = NULL
      /\ \A b \in Activity : b # t => act'[b] = act[b]
  BY <1>3, <1>4, <1>5 DEF IInv, Types, Idle
<1>7. Tasks'
  <2>1. ASSUME NEW a \in Activity, act'[a].ref # NULL
        PROVE  state'[act'[a].ref] \in {"live", "killed"}
    <3>1. a # t /\ act'[a] = act[a] /\ act[a].ref \in Task
      BY <1>6, <2>1, LocalType DEF IInv
    <3>2. act[a].ref # t
      BY <1>1 DEF TaskRefs
    <3> QED
      BY <1>2, <2>1, <3>1, <3>2 DEF IInv, Tasks
  <2>2. ASSUME NEW s \in Task, ~At(s, "idle")' PROVE state'[s] = "reaping"
    BY <1>2, <1>6, <2>2, Kinds DEF IInv, Tasks, At
  <2>3. ASSUME NEW u \in User, ~At(u, "idle")' PROVE state'[Home[u]] \in {"live", "killed"}
    <3>1. ~At(u, "idle") /\ Home[u] \in Task
      BY <1>6, <2>3, Kinds, SocketsAssumption DEF At
    <3>2. Home[u] # t
      BY <1>1, <3>1 DEF TaskRefs
    <3> QED
      BY <1>2, <3>1, <3>2 DEF IInv, Tasks
  <2>4. \A u \in asleep' : state'[Home[u]] # "free"
    <3>1. \A u \in asleep : Home[u] \in Task
      BY SocketsAssumption DEF IInv, Types
    <3> QED
      BY <1>1, <1>2, <3>1 DEF IInv, Tasks
  <2>5. \A d \in descs' : task'[d] \in Task
    BY <1>1 DEF IInv, Tasks
  <2> QED
    BY <2>1, <2>2, <2>3, <2>4, <2>5 DEF Tasks
<1>8. NoLostWakeup'
  <2>1. \A s \in Task : state'[s] = "live" => state[s] = "live"
    BY <1>2
  <2>2. \A b \in Activity : "scan" \in {act[b].pc, act[b].next} =>
          "scan" \in {act'[b].pc, act'[b].next} /\ act'[b].ref = act[b].ref
    BY <1>3, <1>6, NullString DEF Idle
  <2> QED
    BY <1>1, <2>1, <2>2, WakeKept
<1>9. table' \in [Task -> Seq(Desc)]
  BY <1>1 DEF IInv, Types
<1> QED
  BY <1>1, <1>2, <1>3, <1>4, <1>5, <1>7, <1>8, <1>9, TaskStep

\* The task is freed.
LEMMA FreeTaskStep ==
  ASSUME IInv, Running, NEW t \in Task, FreeTask(t)
  PROVE  IInv'
<1>1. /\ act[t].pc = "freetask" /\ state' = [state EXCEPT ![t] = "free"]
      /\ asleep' = {u \in asleep : Home[u] # t} /\ table' = [table EXCEPT ![t] = <<>>]
      /\ act' = [act EXCEPT ![t] = [act[t] EXCEPT !.pc = "idle"]]
      /\ UNCHANGED <<sockVars, count, descVars, refCount, stuck, pending>>
      /\ task' = task /\ descs' = descs
  BY DEF FreeTask, At, Goto, Become, descVars
<1>2. /\ state' \in [Task -> {"live", "killed", "reaping", "free"}] /\ state'[t] = "free"
      /\ \A s \in Task : s # t => state'[s] = state[s]
      /\ state[t] = "reaping"
  BY <1>1 DEF IInv, Types, Tasks, At
<1>3. /\ t \in Activity /\ act[t] \in Local /\ act[t].drop = NULL /\ act[t].next = NULL /\ act[t].own = NULL
      /\ act[t].peer = NULL /\ act[t].ref = NULL /\ act[t].msg = NULL
  BY <1>1, AtBare, Kinds
<1>4. PICK l : l = [Idle EXCEPT !.pc = "idle"]
  OBVIOUS
<1>5. act' = [act EXCEPT ![t] = l]
  <2>1. l = [act[t] EXCEPT !.pc = "idle"]
    BY <1>3, <1>4 DEF Idle, Local
  <2> QED
    BY <1>1, <2>1
<1>6. /\ act'[t] = l /\ l.ref = NULL /\ l.pc = "idle"
      /\ \A b \in Activity : b # t => act'[b] = act[b]
  BY <1>3, <1>4, <1>5 DEF IInv, Types, Idle
<1>7. Tasks'
  <2>1. ASSUME NEW a \in Activity, act'[a].ref # NULL
        PROVE  state'[act'[a].ref] \in {"live", "killed"}
    <3>1. a # t /\ act'[a] = act[a] /\ act[a].ref \in Task
      BY <1>6, <2>1, LocalType DEF IInv
    <3>2. state[act[a].ref] \in {"live", "killed"}
      BY <2>1, <3>1 DEF IInv, Tasks
    <3> QED
      BY <1>2, <3>1, <3>2
  <2>2. ASSUME NEW s \in Task, ~At(s, "idle")' PROVE state'[s] = "reaping"
    BY <1>2, <1>6, <2>2, Kinds DEF IInv, Tasks, At
  <2>3. ASSUME NEW u \in User, ~At(u, "idle")' PROVE state'[Home[u]] \in {"live", "killed"}
    <3>1. ~At(u, "idle") /\ Home[u] \in Task
      BY <1>6, <2>3, Kinds, SocketsAssumption DEF At
    <3>2. state[Home[u]] \in {"live", "killed"}
      BY <3>1 DEF IInv, Tasks
    <3> QED
      BY <1>2, <3>1, <3>2
  <2>4. \A u \in asleep' : state'[Home[u]] # "free"
    <3>1. \A u \in asleep : Home[u] \in Task
      BY SocketsAssumption DEF IInv, Types
    <3> QED
      BY <1>1, <1>2, <3>1 DEF IInv, Tasks
  <2>5. \A d \in descs' : task'[d] \in Task
    BY <1>1 DEF IInv, Tasks
  <2> QED
    BY <2>1, <2>2, <2>3, <2>4, <2>5 DEF Tasks
<1>8. asleep' \subseteq asleep
  BY <1>1
<1>9. NoLostWakeup'
  <2>1. \A s \in Task : state'[s] = "live" => state[s] = "live"
    BY <1>2
  <2>2. \A b \in Activity : "scan" \in {act[b].pc, act[b].next} =>
          "scan" \in {act'[b].pc, act'[b].next} /\ act'[b].ref = act[b].ref
    BY <1>1, <1>3, <1>6, NullString
  <2> QED
    BY <1>1, <1>8, <2>1, <2>2, WakeKept
<1>10. /\ table' \in [Task -> Seq(Desc)]
       /\ \A s \in Task : table'[s] = table[s] \/ table'[s] = <<>>
  BY <1>1 DEF IInv, Types
<1> QED
  BY <1>1, <1>2, <1>4, <1>5, <1>7, <1>8, <1>9, <1>10, TaskStep

\* The memory of a task is used again; none of its threads is polling.
LEMMA TaskCreateStep ==
  ASSUME IInv, Running, NEW t \in Task, TaskCreate(t)
  PROVE  IInv'
<1>1. /\ state[t] = "free" /\ state' = [state EXCEPT ![t] = "live"] /\ act' = act
      /\ UNCHANGED <<sockVars, count, descVars, refCount, stuck, pending, asleep, table>>
      /\ task' = task /\ descs' = descs
  BY DEF TaskCreate, listVars, descVars
<1>2. /\ state' \in [Task -> {"live", "killed", "reaping", "free"}] /\ state'[t] = "live"
      /\ \A s \in Task : s # t => state'[s] = state[s]
  BY <1>1 DEF IInv, Types
<1>3. t \in Activity /\ act[t].pc = "idle" /\ act[t] = Idle
  BY <1>1, AtIdle, Kinds DEF IInv, Tasks, At
<1>4. PICK l : l = [Idle EXCEPT !.pc = "idle"]
  OBVIOUS
<1>5. act' = [act EXCEPT ![t] = l]
  <2>1. l = act[t]
    BY <1>3, <1>4 DEF Idle
  <2> QED
    BY <1>1, <2>1 DEF IInv, Types
<1>6. Tasks'
  <2>1. \A a \in Activity : act[a].ref # NULL => act[a].ref \in Task
    BY LocalType DEF IInv
  <2>2. \A u \in User : Home[u] \in Task
    BY SocketsAssumption
  <2>3. \A s \in Task : state'[s] = "free" => state[s] = "free"
    BY <1>2
  <2>4. \A s \in Task : state[s] = "reaping" => state'[s] = "reaping"
    BY <1>1, <1>2
  <2>5. \A s \in Task : state[s] \in {"live", "killed"} => state'[s] \in {"live", "killed"}
    BY <1>2
  <2> QED
    BY <1>1, <2>1, <2>2, <2>3, <2>4, <2>5 DEF IInv, Tasks, At, Types
<1>7. NoLostWakeup'
  <2> SUFFICES ASSUME NEW s \in Task, state'[s] = "live", NEW v \in User, Home[v] = s,
                      \A u \in User : Home[u] = s => u \in asleep,
                      NEW d \in pending, task[d] = s
               PROVE  \E b \in Activity : act[b].ref = s /\ "scan" \in {act[b].pc, act[b].next}
    BY <1>1 DEF NoLostWakeup
  <2>1. s # t
    BY <1>1 DEF IInv, Tasks
  <2> QED
    BY <1>2, <2>1 DEF IInv, NoLostWakeup
<1>8. table' \in [Task -> Seq(Desc)]
  BY <1>1 DEF IInv, Types
<1> QED
  BY <1>1, <1>2, <1>3, <1>4, <1>5, <1>6, <1>7, <1>8, TaskStep

-----------------------------------------------------------------------------
(* The invariant holds for ever.                                           *)

\* A hangup tells the other end, or takes its own end off.
LEMMA HangupStep ==
  ASSUME IInv, Running, NEW d \in Desc, Hangup(d) \/ HangupUnhook(d)
  PROVE  IInv'
<1>1. CASE At(d, "hangup") /\ ReferenceOther(d, OtherEnd(d), "close", "push")
  <2>1. d \in Activity
    BY Kinds
  <2> QED
    BY <1>1, <2>1, ReferenceOtherStep
<1>2. CASE At(d, "hangup") /\ ~Reachable(OtherEnd(d)) /\ Unhook(d)
  BY <1>2, UnhookStep DEF At
<1>3. CASE At(d, "unhook") /\ Unhook(d)
  BY <1>3, UnhookStep DEF At
<1> QED
  BY <1>1, <1>2, <1>3 DEF Hangup, HangupUnhook

\* A message, or a question for the remote task, needs the other end.
LEMMA SocketMsgStep ==
  ASSUME IInv, Running, NEW u \in User, SocketMsg(u) \/ SocketRemote(u)
  PROVE  IInv'
<1>1. u \in Activity /\ At(u, "have")
  BY Kinds DEF SocketMsg, SocketRemote, Has
<1>2. CASE SocketMsg(u)
  <2>1. ReferenceOther(u, OtherEnd(act[u].own), "data", "push")
    BY <1>2 DEF SocketMsg
  <2> QED
    BY <1>1, <2>1, ReferenceOtherStep
<1>3. CASE SocketRemote(u)
  <2>1. ReferenceOther(u, OtherEnd(act[u].own), NULL, "remote")
    BY <1>3 DEF SocketRemote
  <2> QED
    BY <1>1, <2>1, ReferenceOtherStep
<1> QED
  BY <1>2, <1>3

\* The steps of every activity that sends or gives back
LEMMA ProceedStep ==
  ASSUME IInv, Running, NEW a \in Activity, Proceed(a)
  PROVE  IInv'
<1>1. CASE Deref(a)
  BY <1>1, DerefStep, LastDerefStep
<1>2. CASE Delete(a)
  BY <1>2, DeleteStep
<1>3. CASE PushMessage(a)
  BY <1>3, PushMessageStep
<1>4. CASE WakeupEndpoint(a)
  BY <1>4, WakeupEndpointStep
<1>5. CASE ScanFound(a)
  BY <1>5, ScanFoundStep
<1>6. CASE ScanNone(a)
  BY <1>6, ScanNoneStep
<1> QED
  BY <1>1, <1>2, <1>3, <1>4, <1>5, <1>6 DEF Proceed

\* The system calls of a thread
LEMMA CallStep ==
  ASSUME IInv, Running, NEW u \in User, Call(u)
  PROVE  IInv'
<1>0. u \in Activity
  BY Kinds
<1>1. CASE SocketNew(u)
  BY <1>1, SocketNewStep
<1>2. CASE SocketNewFails(u)
  BY <1>2, SocketNewFailsStep
<1>3. CASE SocketForDescriptor(u)
  BY <1>3, SocketForDescriptorStep
<1>4. CASE NextPending(u)
  BY <1>4, NextPendingStep
<1>5. CASE Poll(u)
  BY <1>5, PollStep
<1>6. CASE SocketClose(u)
  BY <1>6, SocketCloseStep
<1>7. CASE SocketRead(u)
  BY <1>7, SocketReadStep
<1>8. CASE SocketMsg(u) \/ SocketRemote(u)
  BY <1>8, SocketMsgStep
<1>9. CASE SocketMsgAsync(u)
  BY <1>9, SocketMsgAsyncStep
<1>10. CASE Connect(u)
  BY <1>10, ConnectStep
<1>11. CASE ConnectFails(u)
  BY <1>11, ConnectFailsStep
<1>12. CASE LetGo(u)
  BY <1>0, <1>12, LetGoStep
<1>13. CASE RemoteTaskDereference(u)
  BY <1>13, RemoteTaskDereferenceStep
<1> QED
  BY <1>1, <1>2, <1>3, <1>4, <1>5, <1>6, <1>7, <1>8, <1>9, <1>10, <1>11, <1>12, <1>13 DEF Call

\* A step that changes nothing
LEMMA StutterIInv ==
  ASSUME IInv, UNCHANGED vars
  PROVE  IInv'
<1>1. UNCHANGED <<state, asleep, socks, ends, hasBeenConnected, told, lost, count, descs, task,
                  isClosed, refCount, table, stuck, pending, act>>
  BY DEF vars, taskVars, sockVars, descVars, listVars
<1>2. Types' /\ Shapes'
  BY <1>1 DEF IInv, Types, Shapes
<1>3. Life' /\ Told'
  BY <1>1, LifeKept, ToldKept DEF Frees, Sent
<1>4. Refs'
  BY <1>1 DEF IInv, Refs, RefsExact, HeldRefs, OwnRef, PeerRef, DropRef, At
<1>5. Tasks' /\ Lists'
  BY <1>1 DEF IInv, Tasks, Lists, Listed, At
<1>6. Counts'
  BY <1>1 DEF IInv, Counts, Extra, Greeting, Sent
<1>7. Aborts' /\ NoLostWakeup'
  BY <1>1 DEF IInv, Aborts, NoLostWakeup, Reachable, At
<1> QED
  BY <1>2, <1>3, <1>4, <1>5, <1>6, <1>7 DEF IInv

\* Every step keeps the invariant.
LEMMA NextIInv ==
  ASSUME IInv, [Next]_vars
  PROVE  IInv'
<1>1. ASSUME Running, NEW u \in User, ProceedUser(u) PROVE IInv'
  <2>1. u \in Activity
    BY Kinds
  <2>2. CASE Proceed(u)
    BY <1>1, <2>1, <2>2, ProceedStep
  <2>3. CASE RemoteTask(u)
    BY <1>1, <2>3, RemoteTaskStep
  <2>4. CASE ConnectInsert(u)
    BY <1>1, <2>4, ConnectInsertStep
  <2>5. CASE ConnectMsg(u)
    BY <1>1, <2>5, ConnectMsgStep
  <2> QED
    BY <1>1, <2>2, <2>3, <2>4, <2>5 DEF ProceedUser
<1>2. ASSUME Running, NEW k \in Async, ProceedAsync(k) PROVE IInv'
  <2>1. k \in Activity
    BY Kinds
  <2> QED
    BY <1>2, <2>1, ProceedStep, AsyncMsgStep, LetGoStep DEF ProceedAsync
<1>3. ASSUME Running, NEW d \in Desc, ProceedHangup(d) PROVE IInv'
  <2>1. d \in Activity
    BY Kinds
  <2>2. CASE Proceed(d)
    BY <1>3, <2>1, <2>2, ProceedStep
  <2>3. CASE Hangup(d) \/ HangupUnhook(d)
    BY <1>3, <2>3, HangupStep
  <2>4. CASE HangupFree(d)
    BY <1>3, <2>4, HangupFreeStep
  <2>5. CASE SocketFree(d)
    BY <1>3, <2>5, SocketFreeStep
  <2> QED
    BY <1>3, <2>2, <2>3, <2>4, <2>5 DEF ProceedHangup
<1>4. ASSUME Running, NEW t \in Task, ProceedKill(t) PROVE IInv'
  <2>1. t \in Activity
    BY Kinds
  <2>2. CASE Deref(t) \/ Delete(t)
    BY <1>4, <2>1, <2>2, ProceedStep DEF Proceed
  <2>3. CASE KillPick(t)
    BY <1>4, <2>3, KillPickStep
  <2>4. CASE KillClose(t)
    BY <1>4, <2>4, KillCloseStep
  <2>5. CASE KillAwait(t)
    BY <1>4, <2>5, KillAwaitStep
  <2>6. CASE FreeTask(t)
    BY <1>4, <2>6, FreeTaskStep
  <2> QED
    BY <1>4, <2>2, <2>3, <2>4, <2>5, <2>6 DEF ProceedKill
<1>5. ASSUME Running, NEW t \in Task, TaskKill(t) \/ GenerateKillJob(t) \/ TaskCreate(t) PROVE IInv'
  BY <1>5, TaskKillStep, GenerateKillJobStep, TaskCreateStep
<1>6. CASE UNCHANGED vars
  BY <1>6, StutterIInv
<1> QED
  BY <1>1, <1>2, <1>3, <1>4, <1>5, <1>6, CallStep DEF Next

\* At the start there is no socket, and nobody does anything.
LEMMA InitIInv == Init => IInv
<1> SUFFICES ASSUME Init PROVE IInv
  OBVIOUS
<1>1. /\ act \in [Activity -> Local]
      /\ \A a \in Activity : act[a] = Idle /\ act[a].pc = "idle"
      /\ \A a \in Activity : act[a].ref = NULL /\ act[a].own = NULL /\ act[a].peer = NULL
      /\ \A a \in Activity : act[a].drop = NULL /\ act[a].next = NULL /\ act[a].msg = NULL
  BY DEF Init, Idle, Local, Phase
<1>2. Types
  <2>1. \A t \in Task : <<>> \in Seq(Desc)
    OBVIOUS
  <2>2. table \in [Task -> Seq(Desc)]
    BY <2>1 DEF Init
  <2> QED
    BY <1>1, <2>2 DEF Init, Types, Local
<1>3. Shapes
  <2> SUFFICES ASSUME NEW a \in Activity PROVE Shape(a, act[a])
    BY DEF Shapes
  <2>1. InStage(a, act[a])
    BY <1>1 DEF InStage, Stage, UserStage, AsyncStage, HangupStage, KillStage
  <2> QED
    BY <1>1, <2>1, NullString DEF Shape, Gives, Keeps, Fits, Stage
<1>4. \A d \in Desc : d \in Activity /\ act[d].pc = "idle"
  BY <1>1, Kinds
<1>5. Life
  BY <1>4 DEF Init, Life, Frees
<1>6. Told
  BY DEF Init, Told
<1>7. Refs
  <2>1. RefsExact
    BY DEF Init, RefsExact
  <2>2. \A a \in Activity : ~At(a, "delete")
    BY <1>1 DEF At
  <2>3. \A a \in Activity, d \in Desc : ~(OwnRef(a, d) \/ PeerRef(a, d) \/ act[a].drop = d)
    BY <1>1, Kinds DEF OwnRef, PeerRef
  <2> QED
    BY <2>1, <2>2, <2>3 DEF Init, Refs
<1>8. Tasks
  BY <1>1, Kinds, SocketsAssumption DEF Init, Tasks, At
<1>9. Lists
  <2>1. \A t \in Task : table[t] = <<>> /\ ToSet(table[t]) = {}
    BY DEF Init, ToSet
  <2>2. \A t \in Task : IsInjective(table[t])
    BY <2>1 DEF IsInjective
  <2> QED
    BY <1>1, <2>1, <2>2, Kinds DEF Init, Lists, At
<1>10. Counts
  <2>1. \A u \in User : ~Greeting(u)
    BY <1>1, Kinds, NullString DEF Greeting, Greets, Stage
  <2>2. \A d \in Desc : count[d] = 0 /\ Extra(d) \in Nat /\ MsgMax \in Nat
    BY SocketsAssumption DEF Init, Extra
  <2> QED
    BY <2>1, <2>2 DEF Counts
<1>11. Aborts
  BY <1>1, Kinds DEF Aborts, At
<1>12. NoLostWakeup
  BY DEF Init, NoLostWakeup
<1> QED
  BY <1>2, <1>3, <1>5, <1>6, <1>7, <1>8, <1>9, <1>10, <1>11, <1>12 DEF IInv

\* All parts of the inductive invariant hold for ever, for every number of
\* tasks, sockets and threads, and whatever the limit of a message list is.
THEOREM Invariance == Spec => []IInv
  BY InitIInv, NextIInv, PTL DEF Spec

-----------------------------------------------------------------------------
(* The properties.                                                         *)

\* The limit of a message list holds but for one close message and, at the
\* receiving end, one connect message (_push_message), and no counter drops
\* below zero.
THEOREM Typed == Spec => []TypeOK
<1>1. IInv => TypeOK
  <2> SUFFICES ASSUME IInv PROVE TypeOK
    OBVIOUS
  <2>1. ASSUME NEW d \in Desc
        PROVE  count[d] <= MsgMax + (IF d = Receiver(d[1]) THEN 2 ELSE 1)
    <3>1. /\ count[d] \in Nat /\ MsgMax \in Nat /\ Extra(d) \in Nat
          /\ count[d] <= MsgMax + Extra(d)
      BY SocketsAssumption DEF IInv, Types, Counts, Extra
    <3>2. Extra(d) <= IF d = Receiver(d[1]) THEN 2 ELSE 1
      BY DEF Extra
    <3> QED
      BY <3>1, <3>2
  <2> QED
    BY <2>1 DEF IInv, TypeOK
<1> QED
  BY <1>1, Invariance, PTL

\* refCount is exactly the number of references that calls and kernel threads
\* have (anscheduler_socket_reference, anscheduler_socket_dereference).
THEOREM CountersExact == Spec => []RefsExact
<1>1. IInv => RefsExact
  BY DEF IInv, Refs
<1> QED
  BY <1>1, Invariance, PTL

\* Whoever works with a descriptor, a socket or a task finds it allocated.
THEOREM UseSafe == Spec => []NoUseAfterFree
<1>1. IInv => NoUseAfterFree
  <2> SUFFICES ASSUME IInv PROVE NoUseAfterFree
    OBVIOUS
  <2>1. \A d \in ends : d \in descs /\ d[1] \in socks
    BY DEF IInv, Life
  <2>2. \A d \in Desc : act[d].pc \notin {"idle", "free", "freeboth", "freesock", "wild"} => d \in ends
    BY DEF IInv, Life
  <2>3. ASSUME NEW a \in Activity, At(a, "scan") PROVE state[act[a].ref] \in {"live", "killed"}
    <3>1. act[a].ref # NULL
      BY <2>3, NotGiving DEF At, Shape, Keeps
    <3> QED
      BY <3>1 DEF IInv, Tasks
  <2> QED
    BY <2>1, <2>2, <2>3 DEF NoUseAfterFree, IInv, Refs
<1> QED
  BY <1>1, Invariance, PTL

\* However the two ends hang up, exactly one of them frees the socket, after
\* the other is done with it (_socket_hangup, _socket_free).
THEOREM SocketsFreedOnce == Spec => []FreedOnce
<1>1. IInv => FreedOnce
  <2> SUFFICES ASSUME IInv, NEW s \in Sock,
                      NEW F, F = {d \in Desc : d[1] = s /\ act[d].pc \in {"freeboth", "freesock"}}
               PROVE  /\ Cardinality(F) <= 1
                      /\ s \in socks <=> s \in lost \/ F # {} \/ \E d \in ends : d[1] = s
    BY DEF FreedOnce
  <2>1. Cardinality(F) <= 1
    <3>1. CASE F = {}
      BY <3>1, FS_EmptySet
    <3>2. CASE F # {}
      <4>1. PICK d \in F : TRUE
        BY <3>2
      <4>2. ASSUME NEW e \in F PROVE e = d
        <5>1. d \in Desc /\ e \in Desc /\ e[1] = d[1] /\ Frees(d) /\ Frees(e)
          BY DEF Frees
        <5>2. ~Frees(OtherEnd(d))
          BY <5>1 DEF IInv, Life
        <5> QED
          BY <5>1, <5>2, TwoEnds
      <4>3. F = {d}
        BY <4>1, <4>2
      <4>4. Cardinality(F) = 1
        BY <4>3, FS_Singleton
      <4> QED
        BY <4>4
    <3> QED
      BY <3>1, <3>2
  <2>2. \A d \in Desc : d \in F <=> d[1] = s /\ Frees(d)
    BY DEF Frees
  <2>3. ASSUME s \in socks PROVE s \in lost \/ F # {} \/ \E d \in ends : d[1] = s
    BY <2>2, <2>3 DEF IInv, Life
  <2>4. ASSUME s \in lost \/ F # {} \/ \E d \in ends : d[1] = s PROVE s \in socks
    <3>1. ASSUME NEW d \in F PROVE s \in socks
      <4>1. d \in Desc /\ Frees(d) /\ d[1] = s
        BY DEF Frees
      <4> QED
        BY <4>1 DEF IInv, Life
    <3> QED
      BY <2>4, <3>1 DEF IInv, Life
  <2> QED
    BY <2>1, <2>3, <2>4
<1> QED
  BY <1>1, Invariance, PTL

\* An open end that has lost its other end was sent a close message, however
\* full its list was, and a connect aborts the kernel only when the new end was
\* closed before the connect message was sent (anscheduler_socket_connect).
THEOREM ControlArrives == Spec => []ControlDelivered
<1>1. IInv => ControlDelivered
  <2> SUFFICES ASSUME IInv PROVE ControlDelivered
    OBVIOUS
  <2>1. \A d \in ends : d \notin isClosed /\ OtherEnd(d) \notin ends => d \in told
    BY DEF IInv, Told
  <2>2. ASSUME NEW u \in User, "abort" \in {act[u].pc, act[u].next}
        PROVE  ~Reachable(Receiver(act[u].own[1]))
    <3>1. u \in Activity
      BY Kinds
    <3>2. act[u].next # "abort"
      BY <3>1, NullString DEF IInv, Shapes, Shape, Gives
    <3>3. At(u, "abort")
      BY <2>2, <3>2 DEF At
    <3> QED
      BY <3>3 DEF IInv, Aborts
  <2> QED
    BY <2>1, <2>2 DEF ControlDelivered
<1> QED
  BY <1>1, Invariance, PTL

\* A live task whose threads all poll while a descriptor is pending has a
\* sender on its way to claim one (_wakeup_endpoint, anscheduler_thread_poll).
THEOREM WakeupsArrive == Spec => []NoLostWakeup
<1>1. IInv => NoLostWakeup
  BY DEF IInv
<1> QED
  BY <1>1, Invariance, PTL

-----------------------------------------------------------------------------
(* The close message is the last one.                                      *)

\* Only _push_message makes a list longer.
LEMMA OnlyPushAdds ==
  ASSUME IInv, [Next]_vars, NEW d \in Desc, count'[d] > count[d]
  PROVE  \E a \in Activity : PushMessage(a)
<1>1. count[d] \in Nat
  BY DEF IInv, Types
<1>2. count' # count
  BY <1>1
<1>3. Next
  BY <1>2 DEF vars
<1>4. Running
  BY <1>2, <1>3 DEF Next, vars
<1>5. ASSUME NEW a \in Activity, Proceed(a) PROVE PushMessage(a)
  BY <1>2, <1>5 DEF Proceed, Deref, Delete, WakeupEndpoint, ScanFound, ScanNone
<1>6. ASSUME NEW a, NEW o, NEW m, NEW p, ReferenceOther(a, o, m, p) \/ NoOther(a, o, p) PROVE FALSE
  BY <1>2, <1>6 DEF ReferenceOther, NoOther
<1>7. ASSUME NEW u \in User, SocketRead(u) PROVE FALSE
  <2>1. count' = [count EXCEPT ![act[u].own] = @ - 1] /\ count[act[u].own] > 0
    BY <1>7 DEF SocketRead
  <2>2. count'[d] = count[d] \/ count'[d] = count[d] - 1
    BY <2>1 DEF IInv, Types
  <2> QED
    BY <1>1, <2>2
<1>8. ASSUME NEW u \in User, Call(u) PROVE FALSE
  BY <1>2, <1>6, <1>7, <1>8 DEF Call, SocketNew, SocketNewFails, SocketForDescriptor, NextPending,
     Poll, SocketClose, SocketMsg, SocketRemote, SocketMsgAsync, Connect, ConnectFails, LetGo,
     RemoteTaskDereference
<1>9. ASSUME NEW u \in User, ProceedUser(u) PROVE \E a \in Activity : PushMessage(a)
  BY <1>2, <1>5, <1>6, <1>9, Kinds DEF ProceedUser, RemoteTask, ConnectInsert, ConnectMsg
<1>10. ASSUME NEW k \in Async, ProceedAsync(k) PROVE \E a \in Activity : PushMessage(a)
  BY <1>2, <1>5, <1>6, <1>10, Kinds DEF ProceedAsync, AsyncMsg, LetGo
<1>11. ASSUME NEW e \in Desc, SocketFree(e) PROVE FALSE
  <2>1. count' = [x \in Desc |-> IF x[1] = e[1] THEN 0 ELSE count[x]]
    BY <1>11 DEF SocketFree
  <2>2. count'[d] = count[d] \/ count'[d] = 0
    BY <2>1
  <2> QED
    BY <1>1, <2>2
<1>12. ASSUME NEW e \in Desc, ProceedHangup(e) PROVE \E a \in Activity : PushMessage(a)
  BY <1>2, <1>5, <1>6, <1>11, <1>12, Kinds DEF ProceedHangup, Hangup, HangupUnhook, Unhook, HangupFree
<1>13. ASSUME NEW t \in Task,
              TaskKill(t) \/ GenerateKillJob(t) \/ ProceedKill(t) \/ TaskCreate(t)
       PROVE  FALSE
  BY <1>2, <1>13 DEF TaskKill, GenerateKillJob, ProceedKill, TaskCreate, Deref, Delete, KillPick,
     KillClose, KillAwait, FreeTask
<1> QED
  BY <1>3, <1>4, <1>8, <1>9, <1>10, <1>12, <1>13 DEF Next

\* Who sends a message has the own end, which is therefore still there.
LEMMA NotTold ==
  ASSUME IInv, NEW a \in Activity, At(a, "push")
  PROVE  act[a].peer \in Desc /\ act[a].peer \notin told
<1>1. /\ act[a] \in Local /\ Shape(a, act[a]) /\ act[a].pc = "push"
      /\ act[a].drop = NULL /\ act[a].next = NULL /\ Stage(act[a]) = "push"
  BY NotGiving DEF At
<1>2. PICK x \in Desc : x = act[a].peer
  BY <1>1 DEF Shape, Keeps, Local
<1>3. CASE a \in Desc
  <2>1. x = OtherEnd(a) /\ OtherEnd(x) = a
    BY <1>1, <1>2, <1>3, TwoEnds, Kinds DEF Shape, Fits
  <2>2. a \in ends /\ ~Sent(a)
    BY <1>1, <1>3 DEF IInv, Life, Sent
  <2> QED
    BY <1>2, <2>1, <2>2 DEF IInv, Told
<1>4. CASE a \notin Desc
  <2>1. a \notin Task
    BY <1>1 DEF Shape, InStage, KillStage
  <2>2. PICK d \in Desc : d = act[a].own
    BY <1>1, <1>4 DEF Shape, Keeps, Local
  <2>3. x = OtherEnd(d) /\ OtherEnd(x) = d
    BY <1>1, <1>2, <2>2, TwoEnds, Kinds DEF Shape, Fits
  <2>4. Weight(a, act[a], d) # 0
    BY <1>1, <2>1, <2>2, Kinds DEF Weight
  <2>5. d \in ends /\ ~Sent(d)
    BY <2>4, Referenced DEF Sent, At
  <2> QED
    BY <1>2, <2>3, <2>5 DEF IInv, Told
<1> QED
  BY <1>3, <1>4

\* A descriptor that was told that the other end is gone gets no message, not
\* even from a send that had begun before (_socket_hangup, _push_message).
THEOREM CloseIsLast == Spec => NothingAfterClose
<1>1. IInv /\ [Next]_vars => [\A d \in told \cap told' : count'[d] <= count[d]]_vars
  <2> SUFFICES ASSUME IInv, [Next]_vars, NEW d \in told, ~(count'[d] <= count[d])
               PROVE  FALSE
    OBVIOUS
  <2>0. IInv'
    BY NextIInv
  <2>1. d \in Desc /\ count[d] \in Nat /\ count'[d] \in Nat
    BY <2>0 DEF IInv, Types
  <2>2. count'[d] > count[d]
    BY <2>1
  <2>3. PICK a \in Activity : PushMessage(a)
    BY <2>1, <2>2, OnlyPushAdds
  <2>4. At(a, "push") /\ (count' = count \/ count' = [count EXCEPT ![act[a].peer] = @ + 1])
    BY <2>3 DEF PushMessage
  <2>5. act[a].peer \in Desc /\ act[a].peer # d
    BY <2>4, NotTold
  <2>6. count'[d] = count[d]
    BY <2>1, <2>4, <2>5 DEF IInv, Types
  <2> QED
    BY <2>1, <2>2, <2>6
<1> QED
  BY <1>1, Invariance, PTL DEF Spec, NothingAfterClose

-----------------------------------------------------------------------------
(* Descriptors are reference counted objects.                              *)

\* The references in use are those that refCount counts.
Tally == \A d \in Desc : HeldRefs(d) = IF d \in descs THEN refCount[d] ELSE 0

\* refCount counts them for a descriptor that is allocated; nobody has a
\* reference to one that is not.
LEMMA RefsCounted == IInv => Tally
<1> SUFFICES ASSUME IInv, NEW d \in Desc
             PROVE  HeldRefs(d) = IF d \in descs THEN refCount[d] ELSE 0
  BY DEF Tally
<1>1. CASE d \in descs
  BY <1>1 DEF IInv, Refs, RefsExact
<1>2. CASE d \notin descs
  BY <1>2, Unreferenced DEF IInv, Life
<1> QED
  BY <1>1, <1>2

\* The same after a step.
LEMMA RefsCountedNext == IInv' => Tally'
BY RefsCounted, PTL

\* At the start all descriptors are free.
LEMMA RefInit == Init => RefSpec!Init
<1> SUFFICES ASSUME Init PROVE RefSpec!Init
  OBVIOUS
<1>1. \A d \in Desc : HeldRefs(d) = 0
  BY InitIInv, RefsCounted DEF Tally, Init
<1> QED
  BY <1>1 DEF RefSpec!Init, Init

\* A step that neither makes, closes, frees nor references a descriptor
LEMMA RefStutter ==
  ASSUME IInv, IInv', UNCHANGED <<descs, isClosed, refCount>>
  PROVE  UNCHANGED RefSpec!vars
<1>1. \A d \in Desc : HeldRefs(d)' = HeldRefs(d)
  BY RefsCounted, RefsCountedNext DEF Tally
<1> QED
  BY <1>1 DEF RefSpec!vars

\* _create_descriptor makes an object with one reference.
LEMMA RefCreate ==
  ASSUME IInv, IInv', NEW x \in Desc, x \notin descs, NEW t, CreateDescriptor(x, t)
  PROVE  RefSpec!Next
<1>1. /\ descs' = descs \cup {x} /\ isClosed' = isClosed \ {x}
      /\ refCount' = [refCount EXCEPT ![x] = 1]
  BY DEF CreateDescriptor
<1>2. \A d \in Desc : HeldRefs(d)' = IF d = x THEN 1 ELSE HeldRefs(d)
  BY <1>1, RefsCounted, RefsCountedNext DEF Tally, IInv, Types
<1>3. RefSpec!Create(x)
  BY <1>1, <1>2 DEF RefSpec!Create
<1> QED
  BY <1>3 DEF RefSpec!Next

\* anscheduler_socket_reference takes a reference to an open descriptor.
LEMMA RefAcquire ==
  ASSUME IInv, IInv', NEW x \in ends, Reference(x), UNCHANGED <<descs, isClosed>>
  PROVE  RefSpec!Next
<1>1. x \in Desc /\ x \in descs /\ refCount[x] \in Nat
  BY DEF IInv, Types, Life
<1>2. \A d \in Desc : HeldRefs(d)' = IF d = x THEN HeldRefs(d) + 1 ELSE HeldRefs(d)
  BY <1>1, RefsCounted, RefsCountedNext DEF Tally, Reference, IInv, Types
<1>3. RefSpec!Acquire(x)
  BY <1>1, <1>2 DEF RefSpec!Acquire, Reference
<1> QED
  BY <1>1, <1>3 DEF RefSpec!Next

\* anscheduler_socket_dereference gives one back.
LEMMA RefRelease ==
  ASSUME IInv, IInv', Running, NEW a \in Activity, Deref(a)
  PROVE  RefSpec!Next
<1>1. PICK x \in Desc : x = act[a].drop
  BY AtDeref DEF Deref
<1>2. Weight(a, act[a], x) # 0
  BY <1>1, Kinds DEF Weight, Deref, At
<1>3. x \in descs /\ refCount[x] > 0 /\ refCount[x] \in Nat
  BY <1>2, Referenced DEF IInv, Types
<1>4. /\ refCount' = [refCount EXCEPT ![x] = IF @ = 0 /\ x \in isClosed THEN 0 ELSE @ - 1]
      /\ UNCHANGED <<descs, isClosed>>
  BY <1>1 DEF Deref, descVars
<1>5. refCount[x] # 0
  BY <1>3
<1>6. refCount' = [refCount EXCEPT ![x] = refCount[x] - 1]
  BY <1>4, <1>5
<1>7. \A d \in Desc : HeldRefs(d)' = IF d = x THEN HeldRefs(d) - 1 ELSE HeldRefs(d)
  BY <1>3, <1>4, <1>6, RefsCounted, RefsCountedNext DEF Tally, IInv, Types
<1>8. HeldRefs(x) > 0
  BY <1>3, RefsCounted DEF Tally
<1>9. RefSpec!Release(x)
  BY <1>4, <1>7, <1>8 DEF RefSpec!Release
<1> QED
  BY <1>9 DEF RefSpec!Next

\* anscheduler_socket_close closes a descriptor that the caller has a
\* reference to; to close it again does nothing.
LEMMA RefKill ==
  ASSUME IInv, IInv', NEW a \in Activity, NEW x \in Desc, Weight(a, act[a], x) # 0,
         isClosed' = isClosed \cup {x}, UNCHANGED <<descs, refCount>>
  PROVE  [RefSpec!Next]_(RefSpec!vars)
<1>1. x \in descs /\ refCount[x] > 0
  BY Referenced
<1>2. \A d \in Desc : HeldRefs(d)' = HeldRefs(d)
  BY RefsCounted, RefsCountedNext DEF Tally
<1>3. CASE x \in isClosed
  <2>1. isClosed' = isClosed
    BY <1>3
  <2> QED
    BY <2>1, RefStutter
<1>4. CASE x \notin isClosed
  <2>1. HeldRefs(x) > 0
    BY <1>1, RefsCounted DEF Tally
  <2>2. RefSpec!Kill(x)
    BY <1>1, <1>2, <1>4, <2>1 DEF RefSpec!Kill
  <2> QED
    BY <2>2 DEF RefSpec!Next
<1> QED
  BY <1>3, <1>4

\* _socket_hangup frees a closed descriptor without references.
LEMMA RefReclaim ==
  ASSUME IInv, IInv', NEW d \in Desc, HangupFree(d)
  PROVE  RefSpec!Next
<1>1. /\ act[d].pc \in {"free", "freeboth"}
      /\ descs' = descs \ {d} /\ isClosed' = isClosed \ {d} /\ refCount' = refCount
  BY DEF HangupFree
<1>2. d \in descs
  BY <1>1 DEF IInv, Life
<1>3. d \in isClosed /\ refCount[d] = 0
  BY <1>1, <1>2 DEF IInv, Refs, At
<1>4. HeldRefs(d) = 0 /\ \A e \in Desc : HeldRefs(e)' = HeldRefs(e)
  BY <1>1, <1>2, <1>3, RefsCounted, RefsCountedNext DEF Tally
<1>5. RefSpec!Reclaim(d)
  BY <1>1, <1>2, <1>3, <1>4 DEF RefSpec!Reclaim
<1> QED
  BY <1>5 DEF RefSpec!Next

\* Every step of an activity is a step of one object or of none.
LEMMA RefStep ==
  ASSUME IInv, IInv', Next
  PROVE  [RefSpec!Next]_(RefSpec!vars)
<1> USE DEF descVars
<1>1. ASSUME NEW a, NEW o, NEW m, NEW p, ReferenceOther(a, o, m, p) \/ NoOther(a, o, p)
      PROVE  [RefSpec!Next]_(RefSpec!vars)
  BY <1>1, RefAcquire, RefStutter DEF ReferenceOther, NoOther, Reachable
<1>2. ASSUME Running, NEW a \in Activity, Proceed(a) PROVE [RefSpec!Next]_(RefSpec!vars)
  <2>1. Delete(a) \/ PushMessage(a) \/ WakeupEndpoint(a) \/ ScanFound(a) \/ ScanNone(a) =>
          UNCHANGED <<descs, isClosed, refCount>>
    BY DEF Delete, PushMessage, WakeupEndpoint, ScanFound, ScanNone
  <2> QED
    BY <1>2, <2>1, RefRelease, RefStutter DEF Proceed
<1>3. ASSUME NEW u \in User, Call(u) PROVE [RefSpec!Next]_(RefSpec!vars)
  <2>0. u \in Activity /\ Home[u] \in Task
    BY Kinds, SocketsAssumption
  <2>1. CASE SocketNew(u)
    <3>1. PICK s \in Sock : Connector(s) \notin descs /\ CreateDescriptor(Connector(s), Home[u])
      BY <2>1 DEF SocketNew
    <3> QED
      BY <3>1, EndsOf, RefCreate
  <2>2. CASE Connect(u)
    <3>1. PICK s : s = act[u].own[1]
      OBVIOUS
    <3>2. At(u, "have") /\ s \notin hasBeenConnected /\ \E t \in Task : CreateDescriptor(Receiver(s), t)
      BY <2>2, <3>1 DEF Connect, Has
    <3>3. s \in Sock /\ s \in socks /\ s \notin lost
      BY <2>0, <3>1, <3>2, AtHave
    <3>4. Receiver(s) \notin descs /\ Receiver(s) \in Desc
      BY <3>2, <3>3, EndsOf DEF IInv, Life
    <3> QED
      BY <3>2, <3>4, RefCreate
  <2>3. CASE SocketForDescriptor(u)
    <3>1. PICK x \in ToSet(table[Home[u]]) : Reference(x)
      BY <2>3 DEF SocketForDescriptor
    <3>2. x \in ends
      BY <2>0, <3>1 DEF IInv, Lists
    <3> QED
      BY <2>3, <3>1, <3>2, RefAcquire DEF SocketForDescriptor
  <2>4. CASE NextPending(u)
    <3>1. PICK x \in pending : refCount' = refCount \/ Reference(x)
      BY <2>4 DEF NextPending
    <3>2. x \in ends
      BY <3>1 DEF IInv, Lists
    <3> QED
      BY <2>4, <3>1, <3>2, RefAcquire, RefStutter DEF NextPending
  <2>5. CASE SocketClose(u)
    <3>1. PICK x : x = act[u].own
      OBVIOUS
    <3>2. At(u, "have") /\ isClosed' = isClosed \cup {x} /\ UNCHANGED <<descs, refCount>>
      BY <2>5, <3>1 DEF SocketClose, Has
    <3>3. x \in Desc /\ Weight(u, act[u], x) # 0
      BY <2>0, <3>1, <3>2, AtHave, Kinds DEF Weight
    <3> QED
      BY <2>0, <3>2, <3>3, RefKill
  <2>6. CASE SocketMsgAsync(u)
    <3>1. At(u, "have") /\ Reference(act[u].own) /\ UNCHANGED <<descs, isClosed>>
      BY <2>6 DEF SocketMsgAsync, Has
    <3>2. act[u].own \in ends
      BY <2>0, <3>1, AtHave
    <3> QED
      BY <3>1, <3>2, RefAcquire
  <2>7. \/ SocketNewFails(u) \/ Poll(u) \/ SocketRead(u) \/ ConnectFails(u) \/ LetGo(u)
        \/ RemoteTaskDereference(u)
        => UNCHANGED <<descs, isClosed, refCount>>
    BY DEF SocketNewFails, Poll, SocketRead, ConnectFails, LetGo, RemoteTaskDereference
  <2>8. CASE SocketMsg(u) \/ SocketRemote(u)
    BY <1>1, <2>8 DEF SocketMsg, SocketRemote
  <2> QED
    BY <1>3, <2>1, <2>2, <2>3, <2>4, <2>5, <2>6, <2>7, <2>8, RefStutter DEF Call
<1>4. ASSUME Running, NEW u \in User, ProceedUser(u) PROVE [RefSpec!Next]_(RefSpec!vars)
  <2>1. RemoteTask(u) \/ ConnectInsert(u) => UNCHANGED <<descs, isClosed, refCount>>
    BY DEF RemoteTask, ConnectInsert
  <2> QED
    BY <1>1, <1>2, <1>4, <2>1, Kinds, RefStutter DEF ProceedUser, ConnectMsg
<1>5. ASSUME Running, NEW k \in Async, ProceedAsync(k) PROVE [RefSpec!Next]_(RefSpec!vars)
  <2>1. LetGo(k) => UNCHANGED <<descs, isClosed, refCount>>
    BY DEF LetGo
  <2> QED
    BY <1>1, <1>2, <1>5, <2>1, Kinds, RefStutter DEF ProceedAsync, AsyncMsg
<1>6. ASSUME Running, NEW d \in Desc, ProceedHangup(d) PROVE [RefSpec!Next]_(RefSpec!vars)
  <2>1. Unhook(d) \/ HangupUnhook(d) \/ SocketFree(d) => UNCHANGED <<descs, isClosed, refCount>>
    BY DEF HangupUnhook, Unhook, SocketFree
  <2> QED
    BY <1>1, <1>2, <1>6, <2>1, Kinds, RefStutter, RefReclaim DEF ProceedHangup, Hangup
<1>7. ASSUME Running, NEW t \in Task, ProceedKill(t) PROVE [RefSpec!Next]_(RefSpec!vars)
  <2>0. t \in Activity
    BY Kinds
  <2>1. CASE KillPick(t)
    <3>1. CASE refCount' = refCount
      BY <2>1, <3>1, RefStutter DEF KillPick
    <3>2. CASE ~SocketsDone(t)
      <4>1. Reference(Head(table[t])) /\ UNCHANGED <<descs, isClosed>>
        BY <2>1, <3>2 DEF KillPick
      <4>2. Head(table[t]) \in ends
        <5>1. 1 \in DOMAIN table[t] /\ table[t] \in Seq(Desc)
          BY <3>2 DEF SocketsDone, IInv, Types
        <5>2. Head(table[t]) \in ToSet(table[t])
          BY <5>1 DEF ToSet
        <5> QED
          BY <5>2 DEF IInv, Lists
      <4> QED
        BY <4>1, <4>2, RefAcquire
    <3> QED
      BY <2>1, <3>1, <3>2 DEF KillPick
  <2>2. CASE KillClose(t)
    <3>1. PICK x : x = act[t].own
      OBVIOUS
    <3>2. At(t, "close") /\ isClosed' = isClosed \cup {x} /\ UNCHANGED <<descs, refCount>>
      BY <2>2, <3>1 DEF KillClose
    <3>3. x \in Desc
      BY <2>0, <3>1, <3>2, NotGiving DEF At, Shape, Keeps, Local
    <3>4. Weight(t, act[t], x) # 0
      BY <3>1, <3>2, <3>3, Kinds DEF Weight, At
    <3> QED
      BY <2>0, <3>2, <3>3, <3>4, RefKill
  <2>3. KillAwait(t) \/ FreeTask(t) => UNCHANGED <<descs, isClosed, refCount>>
    BY DEF KillAwait, FreeTask
  <2> QED
    BY <1>2, <1>7, <2>0, <2>1, <2>2, <2>3, RefStutter DEF ProceedKill, Proceed
<1>8. ASSUME NEW t \in Task, TaskKill(t) \/ GenerateKillJob(t) \/ TaskCreate(t)
      PROVE  [RefSpec!Next]_(RefSpec!vars)
  <2>1. UNCHANGED <<descs, isClosed, refCount>>
    BY <1>8 DEF TaskKill, GenerateKillJob, TaskCreate
  <2> QED
    BY <2>1, RefStutter
<1>9. CASE UNCHANGED vars
  BY <1>9, RefStutter DEF vars
<1> QED
  BY <1>3, <1>4, <1>5, <1>6, <1>7, <1>8, <1>9 DEF Next

\* Descriptors implement RefObject: references are taken only to descriptors
\* that are open, and one is freed only when it was closed and every reference
\* to it was given back (anscheduler_socket_reference,
\* anscheduler_socket_dereference, _socket_hangup).
THEOREM Refinement == Spec => DescriptorsAreRefObjects
<1>1. IInv /\ IInv' /\ [Next]_vars => [RefSpec!Next]_(RefSpec!vars)
  <2>1. UNCHANGED vars => UNCHANGED <<descs, isClosed, refCount>>
    BY DEF vars, descVars
  <2> QED
    BY <2>1, RefStep, RefStutter
<1> QED
  BY <1>1, RefInit, Invariance, PTL DEF Spec, DescriptorsAreRefObjects, RefSpec!Spec
=============================================================================
