------------------------------ MODULE ListProofs ------------------------------
(***************************************************************************)
(* The lists of a node.  First the list of a member in one election: it    *)
(* keeps the best heads it has heard, for any set of heads, any order of   *)
(* their declarations and any NUM_CH_MAX.  The inductive invariant is the  *)
(* conjunction of the three properties: that a full list is better than    *)
(* what it turned away is kept by an insertion only because the list is    *)
(* ranked, and there is always a block because the pool is exact.          *)
(*                                                                         *)
(* Then the invariants of ClusterLists, for any neighbours and any sizes   *)
(* of the pools.  Those are inductive only together, too: a list of        *)
(* bridges may grow because its length is below its pool's, a rebuilt list *)
(* of heads fits because the list of bridges does.                         *)
(***************************************************************************)
EXTENDS HeadElection, ClusterLists, CHBListsProofs

(* The inductive invariant of the election *)
ElectionInv == ElectionTypeOK /\ KeepsBestHeads /\ PoolExact

(* The rank is a strict total order of the heads. *)
LEMMA RankOrder ==
  ASSUME NEW a \in Heads, NEW b \in Heads, NEW c \in Heads
  PROVE  /\ Outranks(a, b) /\ Outranks(b, c) => Outranks(a, c)
         /\ a.addr = b.addr => a = b
         /\ a.addr # b.addr /\ ~Outranks(a, b) => Outranks(b, a)
<1>1. /\ a.addr \in Nat /\ a.degree \in Nat /\ b.addr \in Nat /\ b.degree \in Nat
      /\ c.addr \in Nat /\ c.degree \in Nat
  BY HeadsAssumption
<1>2. a.addr = b.addr => a = b
  BY HeadsAssumption
<1> QED
  BY <1>1, <1>2 DEF Outranks

(* What the scan for a head tells about a ranked list. *)
LEMMA RankedScan ==
  ASSUME NEW l \in Seq(Heads), NEW n \in Heads,
         \A i, j \in 1..Len(l) : i < j => Outranks(l[i], l[j])
  PROVE  LET p == ScanPosition(l, n)
         IN  /\ p \in 1..(Len(l) + 1)
             /\ \A i \in 1..(p - 1) : i \in 1..Len(l) /\ Outranks(l[i], n)
             /\ p <= Len(l) => \/ l[p].addr = n.addr /\ l[p] = n
                               \/ \A i \in p..Len(l) : Outranks(n, l[i])
<1> DEFINE p == ScanPosition(l, n)
<1>0. Len(l) \in Nat /\ \A i \in 1..Len(l) : l[i] \in Heads
  BY ElementOfSeq, LenProperties
<1>1. /\ p \in 1..(Len(l) + 1)
      /\ p <= Len(l) => l[p].addr = n.addr \/ Outranks(n, l[p])
      /\ \A i \in 1..(p - 1) : l[i].addr # n.addr /\ ~Outranks(n, l[i])
  BY ScanProperties
<1> HIDE DEF p
<1>2. \A i \in 1..(p - 1) : i \in 1..Len(l) /\ Outranks(l[i], n)
  <2> TAKE i \in 1..(p - 1)
  <2>1. i \in 1..Len(l)
    BY <1>0, <1>1
  <2>2. l[i] \in Heads /\ l[i].addr # n.addr /\ ~Outranks(n, l[i])
    BY <1>0, <1>1, <2>1
  <2> QED
    BY <2>1, <2>2, RankOrder
<1>3. ASSUME p <= Len(l), l[p].addr # n.addr
      PROVE  \A i \in p..Len(l) : Outranks(n, l[i])
  <2>1. p \in 1..Len(l) /\ l[p] \in Heads /\ Outranks(n, l[p])
    BY <1>0, <1>1, <1>3
  <2> TAKE i \in p..Len(l)
  <2>2. i \in 1..Len(l) /\ l[i] \in Heads /\ (i = p \/ p < i)
    BY <1>0, <1>1, <2>1
  <2>3. CASE i = p
    BY <2>1, <2>3
  <2>4. CASE p < i
    <3>1. Outranks(l[p], l[i])
      BY <2>1, <2>2, <2>4, \A x, y \in 1..Len(l) : x < y => Outranks(l[x], l[y])
    <3> QED
      BY <2>1, <2>2, <3>1, RankOrder
  <2> QED
    BY <2>2, <2>3, <2>4
<1>4. p <= Len(l) /\ l[p].addr = n.addr => l[p] = n
  <2> HAVE p <= Len(l) /\ l[p].addr = n.addr
  <2>1. l[p] \in Heads
    BY <1>0, <1>1
  <2> QED
    BY <2>1, RankOrder
<1> QED
  BY <1>1, <1>2, <1>3, <1>4 DEF p

(* An insertion at its place keeps a list ranked. *)
LEMMA InsertKeepsRank ==
  ASSUME NEW k \in Seq(Heads), NEW n \in Heads, NEW p \in 1..(Len(k) + 1),
         \A i, j \in 1..Len(k) : i < j => Outranks(k[i], k[j]),
         \A i \in 1..(p - 1) : Outranks(k[i], n),
         \A i \in p..Len(k) : Outranks(n, k[i])
  PROVE  LET z == InsertBefore(k, p, n)
         IN  \A i, j \in 1..Len(z) : i < j => Outranks(z[i], z[j])
<1> DEFINE z == InsertBefore(k, p, n)
<1>0. Len(k) \in Nat
  BY LenProperties
<1>a. Len(z) = Len(k) + 1 /\ Inserted(z, k, p, n)
  BY InsertProperties
<1> HIDE DEF z
<1>1. /\ Len(z) = Len(k) + 1
      /\ \A i \in 1..(Len(k) + 1) : z[i] = IF i < p THEN k[i] ELSE IF i = p THEN n ELSE k[i - 1]
  BY <1>a DEF Inserted
<1>2. ASSUME NEW i \in 1..Len(z), NEW j \in 1..Len(z), i < j
      PROVE  Outranks(z[i], z[j])
  <2>1. i \in 1..(Len(k) + 1) /\ j \in 1..(Len(k) + 1)
    BY <1>1
  <2>2. CASE j < p
    <3>1. z[i] = k[i] /\ z[j] = k[j] /\ i \in 1..Len(k) /\ j \in 1..Len(k)
      BY <1>0, <1>1, <1>2, <2>1, <2>2
    <3> QED
      BY <3>1, <1>2, \A x, y \in 1..Len(k) : x < y => Outranks(k[x], k[y])
  <2>3. CASE j = p
    <3>1. z[i] = k[i] /\ z[j] = n /\ i \in 1..(p - 1)
      BY <1>0, <1>1, <1>2, <2>1, <2>3
    <3> QED
      BY <3>1, \A x \in 1..(p - 1) : Outranks(k[x], n)
  <2>4. CASE p < j /\ i < p
    <3>1. z[i] = k[i] /\ z[j] = k[j - 1] /\ i \in 1..Len(k) /\ j - 1 \in 1..Len(k) /\ i < j - 1
      BY <1>0, <1>1, <1>2, <2>1, <2>4
    <3> QED
      BY <3>1, \A x, y \in 1..Len(k) : x < y => Outranks(k[x], k[y])
  <2>5. CASE p < j /\ i = p
    <3>1. z[i] = n /\ z[j] = k[j - 1] /\ j - 1 \in p..Len(k)
      BY <1>0, <1>1, <1>2, <2>1, <2>5
    <3> QED
      BY <3>1, \A x \in p..Len(k) : Outranks(n, k[x])
  <2>6. CASE p < i
    <3>1. /\ z[i] = k[i - 1] /\ z[j] = k[j - 1]
          /\ i - 1 \in 1..Len(k) /\ j - 1 \in 1..Len(k) /\ i - 1 < j - 1
      BY <1>0, <1>1, <1>2, <2>1, <2>6
    <3> QED
      BY <3>1, \A x, y \in 1..Len(k) : x < y => Outranks(k[x], k[y])
  <2> QED
    BY <1>2, <2>1, <2>2, <2>3, <2>4, <2>5, <2>6
<1> QED
  BY <1>2 DEF z

(* The entries of a list after an insertion: the old ones and the new one. *)
LEMMA InsertEntries ==
  ASSUME NEW k \in Seq(Heads), NEW n \in Heads, NEW p \in 1..(Len(k) + 1)
  PROVE  LET z == InsertBefore(k, p, n)
         IN  /\ \A i \in 1..Len(z) : z[i] = n \/ \E j \in 1..Len(k) : z[i] = k[j]
             /\ \A j \in 1..Len(k) : \E i \in 1..Len(z) : z[i] = k[j]
             /\ \E i \in 1..Len(z) : z[i] = n
<1> DEFINE z == InsertBefore(k, p, n)
<1>0. Len(k) \in Nat
  BY LenProperties
<1>a. Len(z) = Len(k) + 1 /\ Inserted(z, k, p, n)
  BY InsertProperties
<1> HIDE DEF z
<1>1. /\ Len(z) = Len(k) + 1
      /\ \A i \in 1..(Len(k) + 1) : z[i] = IF i < p THEN k[i] ELSE IF i = p THEN n ELSE k[i - 1]
  BY <1>a DEF Inserted
<1>2. ASSUME NEW i \in 1..Len(z)
      PROVE  z[i] = n \/ \E j \in 1..Len(k) : z[i] = k[j]
  <2>1. CASE i < p
    BY <1>0, <1>1, <2>1
  <2>2. CASE i = p
    BY <1>0, <1>1, <2>2
  <2>3. CASE p < i
    <3>1. z[i] = k[i - 1] /\ i - 1 \in 1..Len(k)
      BY <1>0, <1>1, <2>3
    <3> QED
      BY <3>1
  <2> QED
    BY <1>0, <1>1, <2>1, <2>2, <2>3
<1>3. ASSUME NEW j \in 1..Len(k)
      PROVE  \E i \in 1..Len(z) : z[i] = k[j]
  <2>1. CASE j < p
    <3>1. j \in 1..Len(z) /\ z[j] = k[j]
      BY <1>0, <1>1, <2>1
    <3> QED
      BY <3>1
  <2>2. CASE p <= j
    <3>1. j + 1 \in 1..Len(z) /\ z[j + 1] = k[j]
      BY <1>0, <1>1, <2>2
    <3> QED
      BY <3>1
  <2> QED
    BY <1>0, <2>1, <2>2
<1>4. p \in 1..Len(z) /\ z[p] = n
  BY <1>0, <1>1
<1> QED
  BY <1>2, <1>3, <1>4 DEF z

(* A declaration preserves the invariant. *)
LEMMA DeclareKeepsElectionInv ==
  ASSUME ElectionInv, NEW n \in Heads, Declare(n)
  PROVE  ElectionInv'
<1> DEFINE l == handle_list
           r == ListAdd(l, handle_memb, NUM_CH_MAX, n, n)
           p == ScanPosition(l, n)
           k == SubSeq(l, 1, Len(l) - 1)
           Ranked(s) == \A i, j \in 1..Len(s) : i < j => Outranks(s[i], s[j])
<1>0. /\ l \in Seq(Heads) /\ handle_memb \in Nat /\ declared \subseteq Heads
      /\ handle_memb = Len(l) /\ Len(l) <= NUM_CH_MAX
      /\ NUM_CH_MAX \in Nat \ {0} /\ Len(l) \in Nat
  BY ElectionInv, LenProperties, ListAssumption DEF ElectionInv, ElectionTypeOK, PoolExact
<1>1. /\ Ranked(l)
      /\ \A i \in 1..Len(l) : l[i] \in declared /\ l[i] \in Heads
      /\ \A d \in declared :
           \/ \E i \in 1..Len(l) : l[i] = d
           \/ Len(l) = NUM_CH_MAX /\ \A i \in 1..Len(l) : Outranks(l[i], d)
  BY ElectionInv, <1>0, ElementOfSeq DEF ElectionInv, KeepsBestHeads
<1>2. handle_list' = r.l /\ handle_memb' = r.used /\ declared' = declared \cup {n}
  BY Declare(n) DEF Declare
<1>3. /\ p \in 1..(Len(l) + 1)
      /\ \A i \in 1..(p - 1) : i \in 1..Len(l) /\ Outranks(l[i], n)
      /\ p <= Len(l) => \/ l[p].addr = n.addr /\ l[p] = n
                        \/ \A i \in p..Len(l) : Outranks(n, l[i])
  BY <1>0, <1>1, RankedScan, Zenon
<1>4. \/ /\ r.l = l /\ r.used = handle_memb
         /\ \/ p <= Len(l) /\ l[p].addr = n.addr
            \/ Len(l) = NUM_CH_MAX /\ p = Len(l) + 1
            \/ Len(l) < NUM_CH_MAX /\ handle_memb = NUM_CH_MAX
      \/ /\ Len(l) < NUM_CH_MAX /\ handle_memb < NUM_CH_MAX
         /\ p <= Len(l) => l[p].addr # n.addr
         /\ r.l = InsertBefore(l, p, n) /\ r.used = handle_memb + 1
      \/ /\ Len(l) = NUM_CH_MAX /\ p <= Len(l) /\ l[p].addr # n.addr
         /\ r.l = InsertBefore(k, p, n) /\ r.used = handle_memb
  <2>1. NUM_CH_MAX \in Nat /\ Len(l) <= handle_memb /\ handle_memb <= NUM_CH_MAX
    BY <1>0
  <2> QED
    BY <1>0, <2>1, ListAddCases
<1> HIDE DEF l, r, p, k
(* The head is listed, or ranks below a full list. *)
<1>5. CASE /\ r.l = l /\ r.used = handle_memb
           /\ \/ p <= Len(l) /\ l[p].addr = n.addr
              \/ Len(l) = NUM_CH_MAX /\ p = Len(l) + 1
              \/ Len(l) < NUM_CH_MAX /\ handle_memb = NUM_CH_MAX
  <2>1. handle_list' = l /\ handle_memb' = handle_memb /\ handle_list = l
    BY <1>2, <1>5 DEF l
  <2>2. \/ \E i \in 1..Len(l) : l[i] = n
        \/ Len(l) = NUM_CH_MAX /\ \A i \in 1..Len(l) : Outranks(l[i], n)
    <3>1. CASE p <= Len(l) /\ l[p].addr = n.addr
      <4>1. p \in 1..Len(l)
        BY <1>0, <1>3, <3>1
      <4>2. l[p] = n \/ Outranks(n, l[p])
        BY <1>0, <1>3, <3>1
      <4>3. l[p] = n
        BY <1>1, <3>1, <4>1, RankOrder
      <4> QED
        BY <4>1, <4>3
    <3>2. CASE Len(l) = NUM_CH_MAX /\ p = Len(l) + 1
      <4>1. \A i \in 1..Len(l) : i \in 1..(p - 1)
        BY <1>0, <3>2
      <4> QED
        BY <1>3, <3>2, <4>1
    <3> QED
      BY <1>0, <1>5, <3>1, <3>2
  <2>3. ElectionTypeOK'
    BY <1>0, <1>2, <2>1 DEF ElectionTypeOK
  <2>4. KeepsBestHeads'
    BY <1>1, <1>2, <2>1, <2>2 DEF KeepsBestHeads
  <2>5. PoolExact'
    BY <1>0, <2>1 DEF PoolExact
  <2> QED
    BY <2>3, <2>4, <2>5 DEF ElectionInv
(* The list has room. *)
<1>6. CASE /\ Len(l) < NUM_CH_MAX /\ handle_memb < NUM_CH_MAX
           /\ p <= Len(l) => l[p].addr # n.addr
           /\ r.l = InsertBefore(l, p, n) /\ r.used = handle_memb + 1
  <2> DEFINE z == InsertBefore(l, p, n)
  <2>1. z \in Seq(Heads) /\ Len(z) = Len(l) + 1
    BY <1>0, <1>3, InsertProperties
  <2>2. \A i \in p..Len(l) : Outranks(n, l[i])
    BY <1>0, <1>3, <1>6
  <2>3. Ranked(z)
    BY <1>0, <1>1, <1>3, <2>2, InsertKeepsRank
  <2>4. /\ \A i \in 1..Len(z) : z[i] = n \/ \E j \in 1..Len(l) : z[i] = l[j]
        /\ \A j \in 1..Len(l) : \E i \in 1..Len(z) : z[i] = l[j]
        /\ \E i \in 1..Len(z) : z[i] = n
    BY <1>0, <1>3, InsertEntries
  <2>5. handle_list' = z /\ handle_memb' = handle_memb + 1
    BY <1>2, <1>6
  <2> HIDE DEF z
  <2>6. \A d \in declared' : \E i \in 1..Len(z) : z[i] = d
    <3> TAKE d \in declared'
    <3>1. CASE d = n
      BY <2>4, <3>1
    <3>2. CASE d \in declared
      <4>1. \E j \in 1..Len(l) : l[j] = d
        BY <1>0, <1>1, <1>6, <3>2
      <4> QED
        BY <2>4, <4>1
    <3> QED
      BY <1>2, <3>1, <3>2
  <2>7. ElectionTypeOK'
    BY <1>0, <1>2, <2>1, <2>5 DEF ElectionTypeOK
  <2>8. KeepsBestHeads'
    BY <1>1, <1>2, <2>3, <2>4, <2>5, <2>6, ZenonT(30) DEF KeepsBestHeads
  <2>9. PoolExact'
    BY <1>0, <1>6, <2>1, <2>5 DEF PoolExact
  <2> QED
    BY <2>7, <2>8, <2>9 DEF ElectionInv
(* The tail of a full list gives way. *)
<1>7. CASE /\ Len(l) = NUM_CH_MAX /\ p <= Len(l) /\ l[p].addr # n.addr
           /\ r.l = InsertBefore(k, p, n) /\ r.used = handle_memb
  <2> DEFINE z == InsertBefore(k, p, n)
             t == l[Len(l)]
  <2>0. Len(l) > 0 /\ Len(l) \in 1..Len(l)
    BY <1>0, <1>7
  <2>1. k \in Seq(Heads) /\ Len(k) = Len(l) - 1 /\ \A i \in 1..(Len(l) - 1) : k[i] = l[i]
    BY <1>0, <2>0, ChopProperties DEF k
  <2>2. \A i \in p..Len(l) : Outranks(n, l[i])
    <3>1. p \in 1..Len(l)
      BY <1>0, <1>3, <1>7
    <3> QED
      BY <1>0, <1>3, <1>7, <3>1
  <2>3. p \in 1..(Len(k) + 1) /\ p \in p..Len(l) /\ Len(l) \in p..Len(l)
    BY <1>0, <1>3, <1>7, <2>1
  <2>4. z \in Seq(Heads) /\ Len(z) = Len(l)
    <3>1. z \in Seq(Heads) /\ Len(z) = Len(k) + 1
      BY <2>1, <2>3, InsertProperties
    <3> QED
      BY <1>0, <2>1, <3>1
  <2>5. Ranked(z)
    <3>1. Ranked(k)
      <4> TAKE i, j \in 1..Len(k)
      <4> HAVE i < j
      <4>1. i \in 1..(Len(l) - 1) /\ j \in 1..(Len(l) - 1) /\ i \in 1..Len(l) /\ j \in 1..Len(l)
        BY <1>0, <2>1
      <4> QED
        BY <1>1, <2>1, <4>1
    <3>2. \A i \in 1..(p - 1) : Outranks(k[i], n)
      <4> TAKE i \in 1..(p - 1)
      <4>1. i \in 1..(Len(l) - 1)
        BY <1>0, <1>3, <1>7
      <4> QED
        BY <1>3, <2>1, <4>1
    <3>3. \A i \in p..Len(k) : Outranks(n, k[i])
      <4> TAKE i \in p..Len(k)
      <4>1. i \in p..Len(l) /\ i \in 1..(Len(l) - 1)
        BY <1>0, <1>3, <2>1
      <4> QED
        BY <2>1, <2>2, <4>1
    <3> QED
      BY <2>1, <2>3, <3>1, <3>2, <3>3, InsertKeepsRank
  <2>6. /\ \A i \in 1..Len(z) : z[i] = n \/ \E j \in 1..Len(k) : z[i] = k[j]
        /\ \A j \in 1..Len(k) : \E i \in 1..Len(z) : z[i] = k[j]
        /\ \E i \in 1..Len(z) : z[i] = n
    BY <2>1, <2>3, InsertEntries
  <2>7. handle_list' = z /\ handle_memb' = handle_memb
    BY <1>2, <1>7
  <2> HIDE DEF z
  <2>8. t \in Heads /\ Outranks(n, t)
    BY <1>1, <2>0, <2>2, <2>3
  <2>9. \A i \in 1..Len(z) : z[i] \in declared' /\ z[i] \in Heads /\ Outranks(z[i], t)
    <3> TAKE i \in 1..Len(z)
    <3>1. CASE z[i] = n
      BY <1>2, <2>8, <3>1
    <3>2. CASE \E j \in 1..Len(k) : z[i] = k[j]
      <4>1. PICK j \in 1..Len(k) : z[i] = k[j]
        BY <3>2
      <4>2. j \in 1..(Len(l) - 1) /\ j \in 1..Len(l) /\ j < Len(l)
        BY <1>0, <2>1, <4>1
      <4>3. z[i] = l[j] /\ Outranks(l[j], t)
        BY <1>1, <2>0, <2>1, <4>1, <4>2
      <4> QED
        BY <1>1, <1>2, <4>2, <4>3
    <3> QED
      BY <2>6, <3>1, <3>2
  <2>10. \A d \in declared' :
           \/ \E i \in 1..Len(z) : z[i] = d
           \/ \A i \in 1..Len(z) : Outranks(z[i], d)
    <3> TAKE d \in declared'
    <3>1. CASE d = n
      BY <2>6, <3>1
    <3>2. CASE d = t
      BY <2>9, <3>2
    <3>3. CASE d \in declared /\ d # t /\ \E j \in 1..Len(l) : l[j] = d
      <4>1. PICK j \in 1..Len(l) : l[j] = d
        BY <3>3
      <4>2. j \in 1..Len(k) /\ k[j] = d
        <5>1. j # Len(l)
          BY <3>3, <4>1
        <5>2. j \in 1..(Len(l) - 1)
          BY <1>0, <4>1, <5>1
        <5> QED
          BY <2>1, <4>1, <5>2
      <4> QED
        BY <2>6, <4>2
    <3>4. CASE d \in declared /\ \A i \in 1..Len(l) : Outranks(l[i], d)
      <4>1. Outranks(t, d) /\ d \in Heads
        BY <1>0, <2>0, <3>4
      <4> QED
        BY <2>8, <2>9, <4>1, RankOrder
    <3> QED
      BY <1>1, <1>2, <3>1, <3>2, <3>3, <3>4
  <2>11. ElectionTypeOK'
    BY <1>0, <1>2, <2>4, <2>7 DEF ElectionTypeOK
  <2>12. KeepsBestHeads'
    BY <1>7, <2>4, <2>5, <2>7, <2>9, <2>10 DEF KeepsBestHeads
  <2>13. PoolExact'
    BY <1>0, <1>7, <2>4, <2>7 DEF PoolExact
  <2> QED
    BY <2>11, <2>12, <2>13 DEF ElectionInv
<1> QED
  BY <1>4, <1>5, <1>6, <1>7

(* The three properties hold in every reachable state. *)
THEOREM ElectionInvariance == ElectionSpec => []ElectionInv
<1>1. ElectionInit => ElectionInv
  <2> SUFFICES ASSUME ElectionInit PROVE ElectionInv
    OBVIOUS
  <2>1. handle_list = <<>> /\ handle_memb = 0 /\ declared = {} /\ Len(handle_list) = 0 /\ handle_list \in Seq(Heads)
    BY EmptySeq DEF ElectionInit
  <2> QED
    BY <2>1, ListAssumption DEF ElectionInv, ElectionTypeOK, KeepsBestHeads, PoolExact
<1>2. ElectionInv /\ [ElectionNext]_electionVars => ElectionInv'
  <2>1. ASSUME ElectionInv, ElectionNext PROVE ElectionInv'
    BY <2>1, DeclareKeepsElectionInv DEF ElectionNext
  <2>2. ASSUME ElectionInv, UNCHANGED electionVars PROVE ElectionInv'
    BY <2>2 DEF ElectionInv, ElectionTypeOK, KeepsBestHeads, PoolExact, electionVars
  <2> QED
    BY <2>1, <2>2
<1> QED
  BY <1>1, <1>2, PTL DEF ElectionSpec

(* A member keeps the best heads it has heard, whatever the order and the number
   of their declarations (handle_lists in ELECTION_DECLARATION). *)
THEOREM BestHeads == ElectionSpec => []KeepsBestHeads
<1>1. ElectionInv => KeepsBestHeads
  BY DEF ElectionInv
<1> QED
  BY <1>1, ElectionInvariance, PTL

(* The election loses no block of handle_memb and never needs more than there are. *)
THEOREM PoolIsExact == ElectionSpec => []PoolExact
<1>1. ElectionInv => PoolExact
  BY DEF ElectionInv
<1> QED
  BY <1>1, ElectionInvariance, PTL

-----------------------------------------------------------------------------
(* The inductive invariant of the cluster lists *)
ListsInv == TypeOK /\ PoolsCoverLists /\ RebuildFits

(* A list that handle_lists has added to is within its limits, and not shorter. *)
LEMMA TakenProperties ==
  ASSUME NEW l \in Seq(Addr), NEW used \in Nat, NEW num \in Nat,
         Len(l) <= NUM_CH_MAX, Len(l) <= used, used <= num,
         NEW t \in Taken(l, used, num)
  PROVE  /\ t.l \in Seq(Addr) /\ t.used \in Nat
         /\ Len(t.l) <= NUM_CH_MAX /\ Len(t.l) <= t.used /\ t.used <= num
         /\ Len(t.l) >= Len(l)
<1>0. /\ Len(l) \in Nat /\ NUM_CH_MAX \in Nat \ {0}
      /\ Len(l) <= NUM_CH_MAX /\ Len(l) <= used /\ used <= num
  BY LenProperties, ListAssumption
<1>1. ASSUME NEW k \in Seq(Addr), NEW g \in Grown(k)
      PROVE  g \in Seq(Addr) /\ Len(g) = Len(k) + 1
  <2>1. PICK p \in 1..(Len(k) + 1), a \in Addr : g = InsertBefore(k, p, a)
    BY DEF Grown
  <2> QED
    BY <2>1, InsertProperties
<1>2. CASE Len(l) = NUM_CH_MAX
  <2> DEFINE k == SubSeq(l, 1, Len(l) - 1)
  <2>1. k \in Seq(Addr) /\ Len(k) = Len(l) - 1
    <3>1. Len(l) > 0
      BY <1>0, <1>2
    <3> QED
      BY <3>1, ChopProperties
  <2>2. PICK g \in Grown(k) : t = [l |-> g, used |-> used]
    BY <1>2 DEF Taken
  <2> HIDE DEF k
  <2>3. g \in Seq(Addr) /\ Len(g) = Len(k) + 1
    BY <1>1, <2>1, <2>2
  <2> QED
    BY <1>0, <1>2, <2>1, <2>2, <2>3
<1>3. CASE Len(l) # NUM_CH_MAX
  <2>1. used < num
    BY <1>3 DEF Taken
  <2>2. PICK g \in Grown(l) : t = [l |-> g, used |-> used + 1]
    BY <1>3, <2>1 DEF Taken
  <2>3. g \in Seq(Addr) /\ Len(g) = Len(l) + 1
    BY <1>1, <2>2
  <2> QED
    BY <1>0, <1>3, <2>1, <2>2, <2>3
<1> QED
  BY <1>2, <1>3

(* The lists init_consensus_convergence may build are sequences of addresses, no
   longer than the pool of heads. *)
LEMMA BoundedIsSeq ==
  ASSUME NEW n \in Nat, NEW l \in BoundedSeq(Addr, n)
  PROVE  l \in Seq(Addr) /\ Len(l) <= n
<1>1. PICK m \in 0..n : l \in [1..m -> Addr]
  BY DEF BoundedSeq, SeqOf
<1>2. m \in Nat /\ m <= n
  BY <1>1
<1>3. l \in Seq(Addr)
  BY <1>1, <1>2, SeqDef
<1>4. Len(l) = m
  BY <1>1, <1>2, <1>3, LenProperties
<1> QED
  BY <1>2, <1>3, <1>4

(* Every action preserves the invariant. *)
LEMMA NextKeepsListsInv ==
  ASSUME ListsInv, Next
  PROVE  ListsInv'
<1>0. /\ role \in {CM, CH, CB} /\ CHs \in Seq(Addr) /\ CBs \in Seq(Addr)
      /\ m_CH \in Nat /\ m_CB \in Nat
      /\ Len(CHs) \in Nat /\ Len(CBs) \in Nat
      /\ Len(CHs) <= m_CH /\ m_CH <= NUM_CH_MAX /\ Len(CBs) <= m_CB /\ m_CB <= NUM_CB_MAX
      /\ Len(CHs) <= NUM_CH_MAX /\ Len(CBs) <= NUM_CH_MAX
      /\ NUM_CH_MAX \in Nat \ {0} /\ NUM_CB_MAX \in Nat
  BY ListsInv, LenProperties, ListAssumption DEF ListsInv, TypeOK, PoolsCoverLists, RebuildFits
<1>e. <<>> \in Seq(Addr) /\ Len(<<>>) = 0
  BY EmptySeq
<1> USE DEF ListsInv, TypeOK, PoolsCoverLists, RebuildFits
<1>1. CASE HeadDeclared
  <2>1. PICK t \in Taken(CHs, m_CH, NUM_CH_MAX) : CHs' = t.l /\ m_CH' = t.used
    BY <1>1 DEF HeadDeclared
  <2>2. /\ t.l \in Seq(Addr) /\ t.used \in Nat /\ Len(t.l) <= NUM_CH_MAX
        /\ Len(t.l) <= t.used /\ t.used <= NUM_CH_MAX
    BY <1>0, TakenProperties
  <2>3. role' \in {CM, CH, CB} /\ UNCHANGED <<CBs, m_CB>>
    BY <1>0, <1>1 DEF HeadDeclared
  <2> QED
    BY <1>0, <2>1, <2>2, <2>3
<1>2. CASE BridgeDeclared
  <2>1. PICK t \in Taken(CBs, m_CB, NUM_CB_MAX) : CBs' = t.l /\ m_CB' = t.used
    BY <1>2 DEF BridgeDeclared
  <2>2. /\ t.l \in Seq(Addr) /\ t.used \in Nat /\ Len(t.l) <= NUM_CH_MAX
        /\ Len(t.l) <= t.used /\ t.used <= NUM_CB_MAX
    BY <1>0, TakenProperties
  <2>3. UNCHANGED <<role, CHs, m_CH>>
    BY <1>2 DEF BridgeDeclared
  <2> QED
    BY <1>0, <2>1, <2>2, <2>3
<1>3. CASE ForgetHeads
  <2>1. CHs' = <<>> /\ UNCHANGED <<role, CBs, m_CH, m_CB>>
    BY <1>3 DEF ForgetHeads
  <2> QED
    BY <1>0, <1>e, <2>1
<1>4. CASE StepDown
  <2>0. role' = CM /\ UNCHANGED <<CHs, m_CH>>
    BY <1>4 DEF StepDown
  <2>1. CASE CBs' = <<>> /\ m_CB' = m_CB
    BY <1>0, <1>e, <2>0, <2>1
  <2>2. CASE \E t \in Taken(<<>>, m_CB, NUM_CB_MAX) : CBs' = t.l /\ m_CB' = t.used
    <3>1. PICK t \in Taken(<<>>, m_CB, NUM_CB_MAX) : CBs' = t.l /\ m_CB' = t.used
      BY <2>2
    <3>2. Len(<<>>) <= NUM_CH_MAX /\ Len(<<>>) <= m_CB
      BY <1>0, <1>e
    <3>3. /\ t.l \in Seq(Addr) /\ t.used \in Nat /\ Len(t.l) <= NUM_CH_MAX
          /\ Len(t.l) <= t.used /\ t.used <= NUM_CB_MAX
      BY <1>0, <1>e, <3>2, TakenProperties
    <3> QED
      BY <1>0, <2>0, <3>1, <3>3
  <2> QED
    BY <1>4, <2>1, <2>2 DEF StepDown
<1>5. CASE Rebuild
  <2>1. PICK l \in BoundedSeq(Addr, NUM_CH_MAX) : CHs' = l /\ m_CH' = Len(l)
    BY <1>5 DEF Rebuild
  <2>2. l \in Seq(Addr) /\ Len(l) <= NUM_CH_MAX /\ Len(l) \in Nat
    BY <1>0, <2>1, BoundedIsSeq, LenProperties
  <2>3. UNCHANGED <<role, CBs, m_CB>>
    BY <1>5 DEF Rebuild
  <2> QED
    BY <1>0, <2>1, <2>2, <2>3
<1>6. CASE BecomeBridge
  BY <1>0, <1>6 DEF BecomeBridge
<1>7. CASE JoinAsMember
  BY <1>0, <1>7 DEF JoinAsMember
<1> QED
  BY Next, <1>1, <1>2, <1>3, <1>4, <1>5, <1>6, <1>7 DEF Next

(* Roles, lists and pools keep the inductive invariant, whatever handle_lists,
   list_init and init_consensus_convergence do in whatever order. *)
THEOREM ListsInvariance == Spec => []ListsInv
<1>1. Init => ListsInv
  <2> SUFFICES ASSUME Init PROVE ListsInv
    OBVIOUS
  <2>1. <<>> \in Seq(Addr) /\ Len(<<>>) = 0
    BY EmptySeq
  <2> QED
    BY <2>1, ListAssumption DEF Init, ListsInv, TypeOK, PoolsCoverLists, RebuildFits
<1>2. ListsInv /\ [Next]_vars => ListsInv'
  <2>1. ASSUME ListsInv, UNCHANGED vars PROVE ListsInv'
    BY <2>1 DEF ListsInv, TypeOK, PoolsCoverLists, RebuildFits, vars
  <2> QED
    BY <2>1, NextKeepsListsInv
<1> QED
  BY <1>1, <1>2, PTL DEF Spec

(* Every entry of a list has a block of its own and no pool runs over. *)
THEOREM EntriesHaveBlocks == Spec => []PoolsCoverLists
<1>1. ListsInv => PoolsCoverLists
  BY DEF ListsInv
<1> QED
  BY <1>1, ListsInvariance, PTL

(* A head finds a block for every head behind its bridges. *)
THEOREM RebuildNeverStarves == Spec => []RebuildFits
<1>1. ListsInv => RebuildFits
  BY DEF ListsInv
<1> QED
  BY <1>1, ListsInvariance, PTL

(* Offering a head to a bridge never makes its list shorter. *)
THEOREM BridgeKeeps == Spec => BridgeKeepsHeads
<1>1. ASSUME ListsInv, Next, role = CB, role' = CB, CHs' # <<>>
      PROVE  Len(CHs') >= Len(CHs)
  <2>0. CHs \in Seq(Addr) /\ m_CH \in Nat /\ Len(CHs) \in Nat /\ Len(CHs) <= m_CH
        /\ m_CH <= NUM_CH_MAX /\ Len(CHs) <= NUM_CH_MAX /\ NUM_CH_MAX \in Nat
    BY <1>1, LenProperties, ListAssumption DEF ListsInv, TypeOK, PoolsCoverLists
  <2>1. CASE HeadDeclared
    BY <2>0, <2>1, TakenProperties DEF HeadDeclared
  <2>2. CASE ForgetHeads
    BY <1>1, <2>2 DEF ForgetHeads
  <2>3. CASE Rebuild
    BY <1>1, <2>3 DEF Rebuild, CB, CH
  <2>4. CASE BridgeDeclared \/ StepDown \/ BecomeBridge \/ JoinAsMember
    <3>1. CHs' = CHs
      BY <2>4 DEF BridgeDeclared, StepDown, BecomeBridge, JoinAsMember
    <3> QED
      BY <2>0, <3>1
  <2> QED
    BY <1>1, <2>1, <2>2, <2>3, <2>4 DEF Next
<1>2. ListsInv /\ [Next]_vars
        => [role = CB /\ role' = CB /\ CHs' # <<>> => Len(CHs') >= Len(CHs)]_vars
  BY <1>1
<1> QED
  BY <1>2, ListsInvariance, PTL DEF Spec, BridgeKeepsHeads

-----------------------------------------------------------------------------
(* From the entries of handle_lists to the addresses of this specification. *)

(* The addresses of a list (the refinement mapping) have its length and order. *)
LEMMA AddressesProperties ==
  ASSUME NEW S, NEW l \in Seq(S), \A e \in S : e.addr \in Addr
  PROVE  /\ Addresses(l) \in Seq(Addr) /\ Len(Addresses(l)) = Len(l)
         /\ \A i \in 1..Len(l) : Addresses(l)[i] = l[i].addr
<1>0. Len(l) \in Nat /\ \A i \in 1..Len(l) : l[i] \in S
  BY ElementOfSeq, LenProperties
<1>1. Addresses(l) \in [1..Len(l) -> Addr]
  BY <1>0, \A e \in S : e.addr \in Addr DEF Addresses
<1>2. Addresses(l) \in Seq(Addr)
  BY <1>0, <1>1, SeqDef
<1>3. Len(Addresses(l)) = Len(l)
  BY <1>0, <1>1, <1>2, LenProperties
<1> QED
  BY <1>2, <1>3 DEF Addresses

(* The addresses of a list with an insertion. *)
LEMMA AddressesOfInsert ==
  ASSUME NEW S, \A x \in S : x.addr \in Addr,
         NEW l \in Seq(S), NEW e \in S, NEW p \in 1..(Len(l) + 1)
  PROVE  Addresses(InsertBefore(l, p, e)) = InsertBefore(Addresses(l), p, e.addr)
<1> DEFINE z == InsertBefore(l, p, e)
           y == InsertBefore(Addresses(l), p, e.addr)
<1>0. Len(l) \in Nat /\ e.addr \in Addr
  BY LenProperties, \A x \in S : x.addr \in Addr
<1>1. /\ Addresses(l) \in Seq(Addr) /\ Len(Addresses(l)) = Len(l)
      /\ \A i \in 1..Len(l) : Addresses(l)[i] = l[i].addr
  BY AddressesProperties, \A x \in S : x.addr \in Addr
<1>a. z \in Seq(S) /\ Len(z) = Len(l) + 1 /\ Inserted(z, l, p, e)
  BY InsertProperties
<1>b. y \in Seq(Addr) /\ Len(y) = Len(Addresses(l)) + 1 /\ Inserted(y, Addresses(l), p, e.addr)
  <2> DEFINE a == Addresses(l)
             b == e.addr
  <2>1. a \in Seq(Addr) /\ b \in Addr /\ p \in 1..(Len(a) + 1)
    BY <1>0, <1>1
  <2> HIDE DEF a, b
  <2>2. /\ InsertBefore(a, p, b) \in Seq(Addr) /\ Len(InsertBefore(a, p, b)) = Len(a) + 1
        /\ Inserted(InsertBefore(a, p, b), a, p, b)
    BY <2>1, InsertProperties
  <2> QED
    BY <2>2 DEF a, b
<1> HIDE DEF z, y
<1>2. /\ z \in Seq(S) /\ Len(z) = Len(l) + 1
      /\ \A i \in 1..(Len(l) + 1) : z[i] = IF i < p THEN l[i] ELSE IF i = p THEN e ELSE l[i - 1]
  BY <1>a DEF Inserted
<1>3. /\ y \in Seq(Addr) /\ Len(y) = Len(l) + 1
      /\ \A i \in 1..(Len(l) + 1) : y[i] = IF i < p THEN Addresses(l)[i]
                                          ELSE IF i = p THEN e.addr ELSE Addresses(l)[i - 1]
  BY <1>1, <1>b DEF Inserted
<1>4. /\ Addresses(z) \in Seq(Addr) /\ Len(Addresses(z)) = Len(z)
      /\ \A i \in 1..Len(z) : Addresses(z)[i] = z[i].addr
  BY <1>2, AddressesProperties, \A x \in S : x.addr \in Addr
<1>5. ASSUME NEW i \in 1..(Len(l) + 1)
      PROVE  Addresses(z)[i] = y[i]
  <2>1. Addresses(z)[i] = z[i].addr
    BY <1>2, <1>4
  <2>2. CASE i < p
    <3>1. i \in 1..Len(l)
      BY <1>0, <2>2
    <3> QED
      BY <1>1, <1>2, <1>3, <2>1, <2>2, <3>1
  <2>3. CASE i = p
    BY <1>2, <1>3, <2>1, <2>3
  <2>4. CASE p < i
    <3>1. i - 1 \in 1..Len(l) /\ ~(i < p) /\ i # p
      BY <1>0, <2>4
    <3>2. z[i] = l[i - 1] /\ y[i] = Addresses(l)[i - 1]
      BY <1>2, <1>3, <3>1
    <3> QED
      BY <1>1, <2>1, <3>1, <3>2
  <2> QED
    BY <1>0, <2>2, <2>3, <2>4
<1> QED
  BY <1>2, <1>3, <1>4, <1>5, SeqEqual DEF z, y

(* What handle_lists does to a list is, in addresses, what HeadDeclared and
   BridgeDeclared do to theirs, or nothing. *)
THEOREM ListAddIsTaken ==
  ASSUME NEW S, \A x \in S : x.addr \in Addr,
         NEW l \in Seq(S), NEW used \in Nat, NEW num \in Nat, NEW n, NEW e \in S,
         Len(l) <= NUM_CH_MAX, Len(l) <= used, used <= num
  PROVE  LET r == ListAdd(l, used, num, n, e)
         IN  \/ r.l = l /\ r.used = used
             \/ [l |-> Addresses(r.l), used |-> r.used] \in Taken(Addresses(l), used, num)
<1> DEFINE r == ListAdd(l, used, num, n, e)
           p == ScanPosition(l, n)
           k == SubSeq(l, 1, Len(l) - 1)
           A == Addresses(l)
           B == SubSeq(A, 1, Len(A) - 1)
<1>0. Len(l) \in Nat /\ NUM_CH_MAX \in Nat \ {0} /\ e.addr \in Addr
  BY LenProperties, ListAssumption, \A x \in S : x.addr \in Addr, Zenon
<1>1. p \in 1..(Len(l) + 1)
  BY ScanProperties
<1>2. A \in Seq(Addr) /\ Len(A) = Len(l) /\ \A i \in 1..Len(l) : A[i] = l[i].addr
  BY AddressesProperties, \A x \in S : x.addr \in Addr, Zenon
<1>3. \/ r.l = l /\ r.used = used
      \/ /\ Len(l) < NUM_CH_MAX /\ used < num
         /\ r.l = InsertBefore(l, p, e) /\ r.used = used + 1
      \/ /\ Len(l) = NUM_CH_MAX /\ p <= Len(l)
         /\ r.l = InsertBefore(k, p, e) /\ r.used = used
  BY ListAddCases, Len(l) <= NUM_CH_MAX, Len(l) <= used, used <= num
<1> HIDE DEF r, p
<1>4. CASE /\ Len(l) < NUM_CH_MAX /\ used < num
           /\ r.l = InsertBefore(l, p, e) /\ r.used = used + 1
  <2>1. Addresses(r.l) = InsertBefore(A, p, e.addr)
    BY <1>1, <1>4, AddressesOfInsert, \A x \in S : x.addr \in Addr
  <2> HIDE DEF A
  <2>2. Addresses(r.l) \in Grown(A)
    BY <1>0, <1>1, <1>2, <2>1 DEF Grown
  <2>3. Len(A) # NUM_CH_MAX
    BY <1>0, <1>2, <1>4
  <2>4. [l |-> Addresses(r.l), used |-> r.used] \in Taken(A, used, num)
    BY <1>4, <2>2, <2>3 DEF Taken
  <2> QED
    BY <2>4 DEF A, r
<1>5. CASE /\ Len(l) = NUM_CH_MAX /\ p <= Len(l)
           /\ r.l = InsertBefore(k, p, e) /\ r.used = used
  <2>1. Len(l) > 0 /\ Len(A) > 0
    BY <1>0, <1>2, <1>5
  <2>2. k \in Seq(S) /\ Len(k) = Len(l) - 1 /\ \A i \in 1..(Len(l) - 1) : k[i] = l[i]
    BY <2>1, ChopProperties
  <2>3. B \in Seq(Addr) /\ Len(B) = Len(A) - 1 /\ \A i \in 1..(Len(A) - 1) : B[i] = A[i]
    BY <1>2, <2>1, ChopProperties
  <2> HIDE DEF k, A, B
  <2>4. /\ Addresses(k) \in Seq(Addr) /\ Len(Addresses(k)) = Len(k)
        /\ \A i \in 1..Len(k) : Addresses(k)[i] = k[i].addr
    BY <2>2, AddressesProperties, \A x \in S : x.addr \in Addr
  <2>5. Addresses(k) = B
    <3>1. Len(Addresses(k)) = Len(B)
      BY <1>0, <1>2, <2>2, <2>3, <2>4
    <3>2. ASSUME NEW i \in 1..Len(B) PROVE Addresses(k)[i] = B[i]
      <4>1. i \in 1..(Len(l) - 1) /\ i \in 1..Len(l) /\ i \in 1..Len(k) /\ i \in 1..(Len(A) - 1)
        BY <1>0, <1>2, <2>2, <2>3
      <4> QED
        BY <1>2, <2>2, <2>3, <2>4, <4>1
    <3> QED
      BY <2>3, <2>4, <3>1, <3>2, SeqEqual
  <2>6. p \in 1..(Len(k) + 1) /\ p \in 1..(Len(B) + 1)
    BY <1>0, <1>1, <1>2, <1>5, <2>2, <2>3
  <2>7. Addresses(r.l) = InsertBefore(B, p, e.addr)
    BY <1>5, <2>2, <2>5, <2>6, AddressesOfInsert, \A x \in S : x.addr \in Addr
  <2>8. Addresses(r.l) \in Grown(B)
    BY <1>0, <2>6, <2>7 DEF Grown
  <2>9. [l |-> Addresses(r.l), used |-> r.used] \in Taken(A, used, num)
    BY <1>2, <1>5, <2>8 DEF Taken, B
  <2> QED
    BY <2>9 DEF A, r
<1> QED
  BY <1>3, <1>4, <1>5 DEF r
=============================================================================
