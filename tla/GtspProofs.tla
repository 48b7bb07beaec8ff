----------------------------- MODULE GtspProofs -----------------------------
(***************************************************************************)
(* That the clock differences stay true, and what gtsp_update_rtimer may   *)
(* do to a clock, for any number of nodes, frames and neighbours and any   *)
(* clocks.  The first part is about the operators of Gtsp: the entries     *)
(* that FirstOf and LastOf choose, the sum of a loop, and the mean, which  *)
(* lies between the bounds of what was added up.                           *)
(***************************************************************************)
EXTENDS GtspNet, FiniteSetTheorems, WellFoundedInduction, TLAPS

(* A set of natural numbers has a least element. *)
LEMMA LeastNatural ==
  ASSUME NEW T \in SUBSET Nat, T # {}
  PROVE  \E x \in T : \A y \in T : x <= y
<1> DEFINE R == OpToRel(<, Nat)
<1>1. IsWellFoundedOn(R, Nat)
  BY NatLessThanWellFounded, Zenon
<1>2. \A x, y \in Nat : <<y, x>> \in R <=> y < x
  BY Zenon DEF OpToRel
<1> HIDE DEF R
<1>3. PICK x \in T : \A y \in T : ~ (<<y, x>> \in R)
  BY <1>1, WFMin, T # {}
<1>4. \A y \in T : y \in Nat /\ x \in Nat /\ ~(y < x)
  BY <1>2, <1>3
<1> QED
  BY <1>4

(* FirstOf chooses the first of a set of positions. *)
LEMMA FirstIsFirst ==
  ASSUME NEW S \in SUBSET Nat, S # {}
  PROVE  FirstOf(S) \in S /\ \A j \in S : FirstOf(S) <= j
<1>1. \E x \in S : \A y \in S : x <= y
  BY LeastNatural
<1> QED
  BY <1>1 DEF FirstOf

(* LastOf chooses the last of a set of positions. *)
LEMMA LastIsLast ==
  ASSUME NEW n \in Nat, NEW S \in SUBSET (1..n), S # {}
  PROVE  LastOf(S) \in S /\ \A j \in S : j <= LastOf(S)
<1> DEFINE T == {d \in 0..n : n - d \in S}
<1>1. T \in SUBSET Nat /\ T # {}
  <2>1. PICK i \in S : i \in 1..n
    OBVIOUS
  <2>2. n - i \in 0..n /\ n - (n - i) = i
    BY <2>1
  <2>3. n - i \in T
    BY <2>1, <2>2
  <2>4. T \in SUBSET Nat
    OBVIOUS
  <2> QED
    BY <2>3, <2>4, Zenon
<1>2. PICK d \in T : \A e \in T : d <= e
  BY <1>1, LeastNatural
<1>3. \A j \in S : j <= n - d
  <2> TAKE j \in S
  <2>1. j \in 1..n /\ n - j \in 0..n /\ n - (n - j) = j
    OBVIOUS
  <2>2. d <= n - j
    BY <1>2, <2>1
  <2> QED
    BY <1>2, <2>1, <2>2
<1>4. \E x \in S : \A y \in S : y <= x
  BY <1>2, <1>3
<1> QED
  BY <1>4 DEF LastOf

(* Finitely many numbers have a largest one. *)
LEMMA Largest ==
  ASSUME NEW n \in Nat \ {0}, NEW f, \A i \in 1..n : f[i] \in Int
  PROVE  \E i \in 1..n : \A j \in 1..n : f[j] <= f[i]
<1> DEFINE Has(k) == \E i \in 1..k : \A j \in 1..k : f[j] <= f[i]
           T == {k \in 1..n : ~Has(k)}
<1>1. CASE T = {}
  <2>1. n \in 1..n
    OBVIOUS
  <2> QED
    BY <1>1, <2>1
<1>2. CASE T # {}
  <2>1. T \in SUBSET Nat
    OBVIOUS
  <2>2. PICK k \in T : \A y \in T : k <= y
    BY <1>2, <2>1, LeastNatural
  <2>3. k \in 1..n /\ ~Has(k)
    BY <2>2
  <2>4. k # 1
    <3>1. ASSUME k = 1 PROVE FALSE
      <4>1. 1..k = {1} /\ f[1] \in Int /\ f[1] <= f[1]
        BY <2>3, <3>1
      <4> QED
        BY <2>3, <4>1
    <3> QED
      BY <3>1
  <2>5. k - 1 \in 1..n /\ ~(k <= k - 1)
    BY <2>3, <2>4
  <2>11. k - 1 \notin T
    BY <2>2, <2>5
  <2>6. Has(k - 1)
    BY <2>5, <2>11
  <2>7. PICK i \in 1..(k - 1) : \A j \in 1..(k - 1) : f[j] <= f[i]
    BY <2>6
  <2>8. /\ i \in 1..k /\ k \in 1..k /\ f[i] \in Int /\ f[k] \in Int
        /\ \A j \in 1..k : f[j] \in Int /\ (j \in 1..(k - 1) \/ j = k)
    BY <2>3, <2>7
  <2>9. CASE f[k] <= f[i]
    <3>1. \A j \in 1..k : f[j] <= f[i]
      BY <2>7, <2>8, <2>9
    <3> QED
      BY <2>3, <2>8, <3>1
  <2>10. CASE ~(f[k] <= f[i])
    <3>1. \A j \in 1..k : f[j] <= f[k]
      BY <2>7, <2>8, <2>10
    <3> QED
      BY <2>3, <2>8, <3>1
  <2> QED
    BY <2>9, <2>10
<1> QED
  BY <1>1, <1>2

(* And a smallest one. *)
LEMMA Smallest ==
  ASSUME NEW n \in Nat \ {0}, NEW f, \A i \in 1..n : f[i] \in Int
  PROVE  \E i \in 1..n : \A j \in 1..n : f[i] <= f[j]
<1> DEFINE g == [i \in 1..n |-> -f[i]]
<1>1. \A i \in 1..n : g[i] = -f[i] /\ g[i] \in Int
  OBVIOUS
<1> HIDE DEF g
<1>2. PICK i \in 1..n : \A j \in 1..n : g[j] <= g[i]
  BY <1>1, Largest
<1>3. \A j \in 1..n : f[i] <= f[j]
  BY <1>1, <1>2
<1> QED
  BY <1>3

-----------------------------------------------------------------------------
(* g[k] is what the loop has added up after k rounds. *)
AddsUp(g, f, S, n) ==
  g[0] = 0 /\ \A k \in 1..n : g[k] = g[k - 1] + (IF k \in S THEN f[k] ELSE 0)

(* SumOf adds up as its loop does: there is a function of the partial sums. *)
LEMMA PartialSums ==
  ASSUME NEW f, NEW S, NEW n \in Nat
  PROVE  \E g : SumOf(f, S, n) = g[n] /\ AddsUp(g, f, S, n)
<1> DEFINE Term(k) == IF k \in S THEN f[k] ELSE 0
           Sums(g, m) == g = [k \in 0..m |-> IF k = 0 THEN 0 ELSE g[k - 1] + Term(k)]
           T == {m \in Nat : ~ \E g : Sums(g, m)}
<1> HIDE DEF Term
<1>1. T = {}
  <2>1. ASSUME T # {} PROVE FALSE
    <3>1. T \in SUBSET Nat
      OBVIOUS
    <3>2. PICK m \in T : \A y \in T : m <= y
      BY <2>1, <3>1, LeastNatural
    <3>3. m # 0
      <4>1. Sums([k \in 0..0 |-> 0], 0)
        OBVIOUS
      <4> QED
        BY <3>2, <4>1
    <3>4. m - 1 \in Nat /\ ~(m <= m - 1)
      BY <3>2, <3>3
    <3>5. m - 1 \notin T
      BY <3>2, <3>4
    <3>6. PICK g : Sums(g, m - 1)
      BY <3>4, <3>5
    <3> DEFINE h == [k \in 0..m |-> IF k = m THEN g[m - 1] + Term(m) ELSE g[k]]
    <3>7. \A k \in 0..m : h[k] = IF k = 0 THEN 0 ELSE h[k - 1] + Term(k)
      <4> SUFFICES ASSUME NEW k \in 0..m PROVE h[k] = IF k = 0 THEN 0 ELSE h[k - 1] + Term(k)
        OBVIOUS
      <4>0. m \in Nat /\ m - 1 \in 0..m /\ m - 1 # m
        BY <3>2, <3>3
      <4>1. CASE k = m
        BY <3>3, <4>0, <4>1
      <4>2. CASE k # m
        <5>1. k \in 0..(m - 1) /\ (k # 0 => k - 1 \in 0..m /\ k - 1 # m)
          BY <4>0, <4>2
        <5>2. g[k] = IF k = 0 THEN 0 ELSE g[k - 1] + Term(k)
          BY <3>6, <5>1
        <5> QED
          BY <4>2, <5>1, <5>2
      <4> QED
        BY <4>1, <4>2
    <3>8. h = [k \in 0..m |-> IF k = 0 THEN 0 ELSE h[k - 1] + Term(k)]
      BY <3>7
    <3> QED
      BY <3>2, <3>8
  <2> QED
    BY <2>1
<1>2. \E g : Sums(g, n)
  BY <1>1
<1> DEFINE sum == CHOOSE g : Sums(g, n)
<1>3. Sums(sum, n)
  BY <1>2
<1>4. SumOf(f, S, n) = sum[n]
  BY DEF SumOf, Term
<1> HIDE DEF sum
<1>5. \A k \in 0..n : sum[k] = IF k = 0 THEN 0 ELSE sum[k - 1] + Term(k)
  BY <1>3
<1>6. 0 \in 0..n /\ \A k \in 1..n : k \in 0..n /\ k # 0
  OBVIOUS
<1>7. sum[0] = 0 /\ \A k \in 1..n : sum[k] = sum[k - 1] + Term(k)
  BY <1>5, <1>6
<1>8. \A k \in 1..n : sum[k] = sum[k - 1] + (IF k \in S THEN f[k] ELSE 0)
  BY <1>7 DEF Term
<1>9. AddsUp(sum, f, S, n)
  BY <1>7, <1>8 DEF AddsUp
<1> QED
  BY <1>4, <1>9

(* The sum of numbers between lo and hi lies between as many times lo and hi. *)
LEMMA SumBounds ==
  ASSUME NEW f, NEW n \in Nat, NEW S \in SUBSET (1..n), NEW lo \in Int, NEW hi \in Int,
         \A i \in S : f[i] \in Int /\ lo <= f[i] /\ f[i] <= hi
  PROVE  /\ SumOf(f, S, n) \in Int /\ Cardinality(S) \in Nat
         /\ lo * Cardinality(S) <= SumOf(f, S, n) /\ SumOf(f, S, n) <= hi * Cardinality(S)
<1>0. PICK g : SumOf(f, S, n) = g[n] /\ AddsUp(g, f, S, n)
  BY PartialSums
<1>1. /\ SumOf(f, S, n) = g[n] /\ g[0] = 0
      /\ \A k \in 1..n : g[k] = g[k - 1] + (IF k \in S THEN f[k] ELSE 0)
  BY <1>0 DEF AddsUp
<1> DEFINE Upto(k) == S \cap (1..k)
           c(k) == Cardinality(Upto(k))
           Good(k) == g[k] \in Int /\ c(k) \in Nat /\ lo * c(k) <= g[k] /\ g[k] <= hi * c(k)
           T == {k \in 0..n : ~Good(k)}
<1>2. Good(0)
  <2>1. Upto(0) = {}
    OBVIOUS
  <2>2. c(0) = 0
    BY <2>1, FS_EmptySet
  <2> QED
    BY <1>1, <2>2
<1>3. ASSUME NEW k \in 1..n, Good(k - 1) PROVE Good(k)
  <2>0. IsFiniteSet(Upto(k - 1))
    <3>1. IsFiniteSet(1..(k - 1)) /\ Upto(k - 1) \in SUBSET (1..(k - 1))
      BY FS_Interval
    <3> QED
      BY <3>1, FS_Subset
  <2>1. CASE k \in S
    <3>1. Upto(k) = Upto(k - 1) \cup {k} /\ k \notin Upto(k - 1)
      BY <2>1
    <3>2. c(k) = c(k - 1) + 1
      BY <2>0, <3>1, FS_AddElement
    <3> DEFINE C == c(k - 1)
    <3>3. C \in Nat /\ c(k) = C + 1
      BY <1>3, <3>2
    <3>4. g[k] = g[k - 1] + f[k] /\ f[k] \in Int /\ lo <= f[k] /\ f[k] <= hi
      BY <1>1, <2>1
    <3>5. g[k - 1] \in Int /\ lo * C <= g[k - 1] /\ g[k - 1] <= hi * C
      BY <1>3
    <3> HIDE DEF C, c
    <3>6. lo * (C + 1) = lo * C + lo /\ hi * (C + 1) = hi * C + hi /\ lo * C \in Int /\ hi * C \in Int
      BY <3>3
    <3>7. g[k] \in Int /\ c(k) \in Nat /\ lo * c(k) <= g[k] /\ g[k] <= hi * c(k)
      BY <3>3, <3>4, <3>5, <3>6
    <3> QED
      BY <3>7 DEF c
  <2>2. CASE k \notin S
    <3>1. Upto(k) = Upto(k - 1)
      BY <2>2
    <3>2. g[k] = g[k - 1] + 0
      BY <1>1, <2>2
    <3>3. g[k] = g[k - 1]
      BY <1>3, <3>2
    <3> QED
      BY <1>3, <3>1, <3>3
  <2> QED
    BY <2>1, <2>2
<1> HIDE DEF Good
<1>4. T = {}
  <2>1. ASSUME T # {} PROVE FALSE
    <3>1. T \in SUBSET Nat
      OBVIOUS
    <3>2. PICK k \in T : \A y \in T : k <= y
      BY <2>1, <3>1, LeastNatural
    <3>3. k \in 1..n /\ k - 1 \in 0..n /\ ~(k <= k - 1)
      BY <1>2, <3>2
    <3>4. Good(k - 1)
      BY <3>2, <3>3
    <3> QED
      BY <1>3, <3>2, <3>3, <3>4
  <2> QED
    BY <2>1
<1>5. Good(n)
  BY <1>4
<1>6. Upto(n) = S
  OBVIOUS
<1> QED
  BY <1>1, <1>5, <1>6 DEF Good

(* Multiplying by a number of entries keeps the order. *)
LEMMA TimesMonotonic ==
  ASSUME NEW x \in Int, NEW y \in Int, NEW b \in Nat, x <= y
  PROVE  x * b \in Int /\ y * b \in Int /\ x * b <= y * b
OBVIOUS

(* What the integer division of TLA+ returns. *)
LEMMA Division ==
  ASSUME NEW a \in Nat, NEW b \in Nat \ {0}
  PROVE  /\ a \div b \in Nat
         /\ (a \div b) * b <= a /\ a < (a \div b) * b + b
OBVIOUS

(* A number between lo and hi times b, divided by b as C does, is between lo and hi. *)
LEMMA QuotientBounds ==
  ASSUME NEW a \in Int, NEW b \in Nat \ {0}, NEW lo \in Int, NEW hi \in Int,
         lo * b <= a, a <= hi * b
  PROVE  Quotient(a, b) \in Int /\ lo <= Quotient(a, b) /\ Quotient(a, b) <= hi
<1>1. ASSUME NEW c \in Nat, NEW l \in Int, NEW h \in Int, l * b <= c, c <= h * b
      PROVE  c \div b \in Int /\ l <= c \div b /\ c \div b <= h
  <2> DEFINE q == c \div b
  <2>1. q \in Nat /\ q * b <= c /\ c < q * b + b
    BY Division
  <2> HIDE DEF q
  <2>2. l <= q
    <3>1. ASSUME ~(l <= q) PROVE FALSE
      <4>1. q + 1 <= l /\ q + 1 \in Int
        BY <2>1, <3>1
      <4>2. (q + 1) * b <= l * b /\ (q + 1) * b = q * b + b /\ q * b \in Int /\ l * b \in Int
        BY <2>1, <4>1, TimesMonotonic
      <4> QED
        BY <1>1, <2>1, <4>2
    <3> QED
      BY <3>1
  <2>3. q <= h
    <3>1. ASSUME ~(q <= h) PROVE FALSE
      <4>1. h + 1 <= q /\ h + 1 \in Int
        BY <2>1, <3>1
      <4>2. (h + 1) * b <= q * b /\ (h + 1) * b = h * b + b /\ q * b \in Int /\ h * b \in Int
        BY <2>1, <4>1, TimesMonotonic
      <4> QED
        BY <1>1, <2>1, <4>2
    <3> QED
      BY <3>1
  <2> QED
    BY <2>1, <2>2, <2>3 DEF q
<1>2. CASE a < 0
  <2>1. -a \in Nat /\ (-hi) * b <= -a /\ -a <= (-lo) * b
    <3>1. (-hi) * b = -(hi * b) /\ (-lo) * b = -(lo * b) /\ hi * b \in Int /\ lo * b \in Int
      OBVIOUS
    <3> QED
      BY <1>2, <3>1
  <2>2. (-a) \div b \in Int /\ -hi <= (-a) \div b /\ (-a) \div b <= -lo
    BY <1>1, <2>1
  <2>3. Quotient(a, b) = -((-a) \div b)
    BY <1>2 DEF Quotient
  <2> DEFINE q == (-a) \div b
  <2> HIDE DEF q
  <2>4. -q \in Int /\ lo <= -q /\ -q <= hi
    BY <2>2 DEF q
  <2> QED
    BY <2>3, <2>4 DEF q
<1>3. CASE ~(a < 0)
  <2>1. a \in Nat /\ Quotient(a, b) = a \div b
    BY <1>3 DEF Quotient
  <2> QED
    BY <1>1, <2>1
<1> QED
  BY <1>2, <1>3

-----------------------------------------------------------------------------
(* The entries of a neighbour list, with addresses in A. *)
Entries(A) == [addr : A, here : BOOLEAN, synced : BOOLEAN, coarse : Int, fine : Int]

(* What the entries of a list are. *)
LEMMA ListTypes ==
  ASSUME NEW A, NEW ns \in Seq(Entries(A))
  PROVE  /\ Len(ns) \in Nat /\ DOMAIN ns = 1..Len(ns)
         /\ \A i \in DOMAIN ns : ns[i] \in Entries(A) /\ ns[i].coarse \in Int /\ ns[i].fine \in Int
<1>1. Len(ns) \in Nat /\ DOMAIN ns = 1..Len(ns) /\ \A i \in DOMAIN ns : ns[i] \in Entries(A)
  OBVIOUS
<1> QED
  BY <1>1 DEF Entries

(* A set of positions of the list is finite. *)
LEMMA Positions ==
  ASSUME NEW n \in Nat, NEW S \in SUBSET (1..n)
  PROVE  IsFiniteSet(S) /\ Cardinality(S) \in Nat /\ (S # {} => Cardinality(S) # 0)
<1>1. IsFiniteSet(1..n)
  BY FS_Interval
<1>2. IsFiniteSet(S)
  BY <1>1, FS_Subset
<1> QED
  BY <1>2, FS_CardinalityType, FS_EmptySet

(* What the vote elects: 0, or the difference of a neighbour that no other difference
   outnumbers. *)
LEMMA VoteProperties ==
  ASSUME NEW A, NEW ns \in Seq(Entries(A))
  PROVE  \/ CoarseOffset(ns) = 0
         \/ \E i \in DOMAIN ns :
              /\ CoarseOffset(ns) = ns[i].coarse
              /\ \A j \in DOMAIN ns : Votes(ns, ns[j].coarse) <= Votes(ns, ns[i].coarse)
<1> DEFINE m == FirstOf(MostVoted(ns))
           f == [i \in 1..Len(ns) |-> Votes(ns, ns[i].coarse)]
<1>1. Len(ns) \in Nat /\ DOMAIN ns = 1..Len(ns)
  BY ListTypes
<1>2. CASE Outvoted(ns) = {}
  BY <1>2 DEF CoarseOffset
<1>3. CASE Outvoted(ns) # {}
  <2>1. Len(ns) \in Nat \ {0}
    <3>1. DOMAIN ns # {}
      BY <1>3 DEF Outvoted
    <3> QED
      BY <1>1, <3>1
  <2>2. \A i \in 1..Len(ns) : f[i] = Votes(ns, ns[i].coarse) /\ f[i] \in Int
    <3>1. \A d : Votes(ns, d) \in Nat
      BY <1>1, Positions DEF Votes
    <3> QED
      BY <3>1
  <2> HIDE DEF f
  <2>3. PICK i \in 1..Len(ns) : \A j \in 1..Len(ns) : f[j] <= f[i]
    BY <2>1, <2>2, Largest
  <2>4. i \in MostVoted(ns) /\ MostVoted(ns) \in SUBSET Nat
    BY <1>1, <2>2, <2>3 DEF MostVoted
  <2>5. m \in MostVoted(ns)
    BY <2>4, FirstIsFirst
  <2>6. m \in DOMAIN ns /\ \A j \in DOMAIN ns : Votes(ns, ns[j].coarse) <= Votes(ns, ns[m].coarse)
    BY <2>5 DEF MostVoted
  <2>7. CoarseOffset(ns) = 0 \/ CoarseOffset(ns) = ns[m].coarse
    BY DEF CoarseOffset
  <2> QED
    BY <2>6, <2>7
<1> QED
  BY <1>2, <1>3

-----------------------------------------------------------------------------
(* The first loop gets no further than the end of the list. *)
LEMMA ReachedIsThere ==
  ASSUME NEW A, NEW ns \in Seq(Entries(A))
  PROVE  Reached(ns) \in 0..Len(ns) /\ Looked(ns) \subseteq DOMAIN ns
<1>1. Len(ns) \in Nat /\ DOMAIN ns = 1..Len(ns)
  BY ListTypes
<1>2. Outvoted(ns) \subseteq DOMAIN ns
  BY DEF Outvoted
<1>3. Outvoted(ns) \in SUBSET Nat
  BY <1>1, <1>2
<1>4. Outvoted(ns) # {} => FirstOf(Outvoted(ns)) \in 1..Len(ns)
  BY <1>1, <1>2, <1>3, FirstIsFirst
<1>5. Reached(ns) \in 0..Len(ns)
  BY <1>1, <1>4 DEF Reached
<1> QED
  BY <1>1, <1>5 DEF Looked

(* The mean of the differences in step and 0 lies between bounds of them. *)
LEMMA MeanBounds ==
  ASSUME NEW A, NEW ns \in Seq(Entries(A)), NEW junk \in Int, NEW lo \in Int, NEW hi \in Int,
         lo <= 0, 0 <= hi,
         \A i \in InStepWith(ns, junk) : lo <= Read(ns, junk)[i] /\ Read(ns, junk)[i] <= hi
  PROVE  LET mean == Quotient(SumInStep(ns, junk), Cardinality(InStepWith(ns, junk)) + 1)
         IN  mean \in Int /\ lo <= mean /\ mean <= hi
<1> DEFINE S == InStepWith(ns, junk)
           f == Read(ns, junk)
           c == Cardinality(S)
           sum == SumOf(f, S, Len(ns))
<1>1. Len(ns) \in Nat /\ DOMAIN ns = 1..Len(ns) /\ \A i \in DOMAIN ns : ns[i].fine \in Int
  BY ListTypes
<1>2. Reached(ns) \in 0..Len(ns)
  BY ReachedIsThere
<1>3. S \in SUBSET (1..Len(ns)) /\ S \subseteq Looked(ns)
  BY <1>1, <1>2 DEF InStepWith, Looked
<1>4. \A i \in S : f[i] \in Int
  BY <1>1, <1>3 DEF Read
<1>5. \A i \in S : lo <= f[i] /\ f[i] <= hi
  OBVIOUS
<1> HIDE DEF S, f
<1>6. sum \in Int /\ c \in Nat /\ lo * c <= sum /\ sum <= hi * c
  BY <1>1, <1>3, <1>4, <1>5, SumBounds
<1> HIDE DEF c, sum
<1>7. c + 1 \in Nat \ {0} /\ lo * (c + 1) = lo * c + lo /\ hi * (c + 1) = hi * c + hi
      /\ lo * c \in Int /\ hi * c \in Int
  BY <1>6
<1>8. lo * (c + 1) <= sum /\ sum <= hi * (c + 1)
  BY <1>6, <1>7
<1>9. Quotient(sum, c + 1) \in Int /\ lo <= Quotient(sum, c + 1) /\ Quotient(sum, c + 1) <= hi
  BY <1>6, <1>7, <1>8, QuotientBounds
<1> QED
  BY <1>9 DEF sum, c, S, f, SumInStep

(* The mean of a group lies between bounds of the differences. *)
LEMMA GroupBounds ==
  ASSUME NEW A, NEW ns \in Seq(Entries(A)), NEW i \in DOMAIN ns, NEW lo \in Int, NEW hi \in Int,
         \A j \in DOMAIN ns : lo <= ns[j].fine /\ ns[j].fine <= hi
  PROVE  LET mean == Group(ns, i).offset IN mean \in Int /\ lo <= mean /\ mean <= hi
<1> DEFINE S == {j \in DOMAIN ns : j = i \/ (j > i /\ Near(ns[i].fine - ns[j].fine))}
           f == [j \in DOMAIN ns |-> ns[j].fine]
           c == Cardinality(S)
           sum == SumOf(f, S, Len(ns))
<1>1. Len(ns) \in Nat /\ DOMAIN ns = 1..Len(ns) /\ \A j \in DOMAIN ns : ns[j].fine \in Int
  BY ListTypes
<1>2. S \in SUBSET (1..Len(ns)) /\ i \in S
  BY <1>1
<1>3. \A j \in S : f[j] \in Int /\ lo <= f[j] /\ f[j] <= hi
  BY <1>1
<1>4. Group(ns, i).offset = Quotient(sum, c)
  BY DEF Group
<1> HIDE DEF S, f
<1>5. sum \in Int /\ c \in Nat \ {0} /\ lo * c <= sum /\ sum <= hi * c
  BY <1>1, <1>2, <1>3, SumBounds, Positions
<1> HIDE DEF c, sum
<1>6. Quotient(sum, c) \in Int /\ lo <= Quotient(sum, c) /\ Quotient(sum, c) <= hi
  BY <1>5, QuotientBounds
<1> QED
  BY <1>4, <1>6

(* The verdict of the first loop leaves the differences alone. *)
LEMMA MarkedProperties ==
  ASSUME NEW A, NEW ns \in Seq(Entries(A))
  PROVE  /\ Marked(ns) \in Seq(Entries(A)) /\ DOMAIN Marked(ns) = DOMAIN ns
         /\ \A i \in DOMAIN ns : Marked(ns)[i].fine = ns[i].fine
<1>1. Len(ns) \in Nat /\ DOMAIN ns = 1..Len(ns) /\ \A i \in DOMAIN ns : ns[i] \in Entries(A)
  BY ListTypes
<1>2. \A d : Near(d) \in BOOLEAN
  BY DEF Near
<1>3. \A i \in DOMAIN ns : Marked(ns)[i] \in Entries(A) /\ Marked(ns)[i].fine = ns[i].fine
  BY <1>1, <1>2 DEF Marked, Entries
<1>4. Marked(ns) \in [1..Len(ns) -> Entries(A)] /\ DOMAIN Marked(ns) = DOMAIN ns
  BY <1>1, <1>3 DEF Marked
<1> QED
  BY <1>1, <1>3, <1>4

(* A jump leads to the mean of a group, or nowhere. *)
LEMMA JumpBounds ==
  ASSUME NEW A, NEW ns \in Seq(Entries(A)), NEW count, NEW offset \in Int,
         NEW lo \in Int, NEW hi \in Int, lo <= offset, offset <= hi,
         \A j \in DOMAIN ns : lo <= ns[j].fine /\ ns[j].fine <= hi
  PROVE  LET d == Jump(ns, count, offset) IN d \in Int /\ lo <= d /\ d <= hi
<1> DEFINE out  == {i \in DOMAIN ns : ~ns[i].synced /\ Group(ns, i).count >= count}
           most == {i \in out : \A j \in out : Group(ns, j).count <= Group(ns, i).count}
<1>1. Len(ns) \in Nat /\ DOMAIN ns = 1..Len(ns)
  BY ListTypes
<1>2. most \subseteq DOMAIN ns
  OBVIOUS
<1>3. Jump(ns, count, offset) = IF most = {} THEN offset ELSE Group(ns, LastOf(most)).offset
  BY DEF Jump
<1> HIDE DEF most
<1>4. most # {} => LastOf(most) \in DOMAIN ns
  BY <1>1, <1>2, LastIsLast
<1>5. CASE most = {}
  BY <1>3, <1>5
<1>6. CASE most # {}
  <2> DEFINE d == Group(ns, LastOf(most)).offset
  <2>1. d \in Int /\ lo <= d /\ d <= hi
    BY <1>4, <1>6, GroupBounds
  <2> QED
    BY <1>3, <1>6, <2>1
<1> QED
  BY <1>5, <1>6

(* The correction lies between any bounds of the differences and 0, and of what was
   read through NULL, if a vote was called. *)
LEMMA FineBetween ==
  ASSUME NEW A, NEW ns \in Seq(Entries(A)), NEW discovery \in BOOLEAN, NEW junk \in Int,
         NEW lo \in Int, NEW hi \in Int, lo <= 0, 0 <= hi,
         \A j \in DOMAIN ns : lo <= ns[j].fine /\ ns[j].fine <= hi,
         Outvoted(ns) = {} \/ (lo <= junk /\ junk <= hi)
  PROVE  LET d == FineOffset(ns, discovery, junk) IN d \in Int /\ lo <= d /\ d <= hi
<1> DEFINE count == Cardinality(InStepWith(ns, junk))
           mean  == Quotient(SumInStep(ns, junk), count + 1)
           jump  == Jump(Marked(ns), count, mean)
<1>1. Len(ns) \in Nat /\ DOMAIN ns = 1..Len(ns) /\ \A j \in DOMAIN ns : ns[j].fine \in Int
  BY ListTypes
<1>2. \A i \in InStepWith(ns, junk) : lo <= Read(ns, junk)[i] /\ Read(ns, junk)[i] <= hi
  <2>1. SUFFICES ASSUME NEW i \in Looked(ns)
                 PROVE  lo <= Read(ns, junk)[i] /\ Read(ns, junk)[i] <= hi
    BY DEF InStepWith
  <2>2. i \in DOMAIN ns
    BY ReachedIsThere DEF Looked
  <2>3. Read(ns, junk)[i] = IF i \in Outvoted(ns) THEN junk ELSE ns[i].fine
    BY DEF Read
  <2> QED
    BY <2>2, <2>3
<1>3. mean \in Int /\ lo <= mean /\ mean <= hi
  BY <1>2, MeanBounds
<1> HIDE DEF mean, count
<1>4. jump \in Int /\ lo <= jump /\ jump <= hi
  BY <1>3, MarkedProperties, JumpBounds
<1>5. FineOffset(ns, discovery, junk) \in {mean, jump}
  BY DEF FineOffset, mean, count
<1> QED
  BY <1>3, <1>4, <1>5

(* Among the differences and 0 there are bounds of all of them. *)
LEMMA BoundsThere ==
  ASSUME NEW A, NEW ns \in Seq(Entries(A))
  PROVE  LET D == {0} \cup {ns[i].fine : i \in DOMAIN ns}
         IN  \E lo, hi \in D : /\ lo \in Int /\ hi \in Int /\ lo <= 0 /\ 0 <= hi
                              /\ \A j \in DOMAIN ns : lo <= ns[j].fine /\ ns[j].fine <= hi
<1> DEFINE D == {0} \cup {ns[i].fine : i \in DOMAIN ns}
           f == [i \in 1..Len(ns) |-> ns[i].fine]
           Bounds(lo, hi) == /\ lo \in Int /\ hi \in Int /\ lo <= 0 /\ 0 <= hi
                             /\ \A j \in DOMAIN ns : lo <= ns[j].fine /\ ns[j].fine <= hi
<1>1. Len(ns) \in Nat /\ DOMAIN ns = 1..Len(ns) /\ \A j \in DOMAIN ns : ns[j].fine \in Int
  BY ListTypes
<1>2. CASE Len(ns) = 0
  <2>1. DOMAIN ns = {} /\ 0 \in D
    BY <1>1, <1>2
  <2> QED
    BY <2>1
<1>3. CASE Len(ns) # 0
  <2>1. \A i \in 1..Len(ns) : f[i] = ns[i].fine /\ f[i] \in Int
    BY <1>1
  <2> HIDE DEF f
  <2>2. PICK h \in 1..Len(ns) : \A j \in 1..Len(ns) : f[j] <= f[h]
    BY <1>1, <1>3, <2>1, Largest
  <2>3. PICK l \in 1..Len(ns) : \A j \in 1..Len(ns) : f[l] <= f[j]
    BY <1>1, <1>3, <2>1, Smallest
  <2> DEFINE hi == IF f[h] >= 0 THEN f[h] ELSE 0
             lo == IF f[l] <= 0 THEN f[l] ELSE 0
  <2>4. f[h] \in D /\ f[l] \in D /\ 0 \in D
    BY <1>1, <2>1, <2>2, <2>3
  <2>5. hi \in D /\ lo \in D
    BY <2>4
  <2>6. hi \in Int /\ lo \in Int /\ lo <= 0 /\ 0 <= hi
    BY <2>1, <2>2, <2>3
  <2>7. \A j \in DOMAIN ns : lo <= ns[j].fine /\ ns[j].fine <= hi
    <3> TAKE j \in DOMAIN ns
    <3>1. /\ f[j] \in Int /\ f[h] \in Int /\ f[l] \in Int
          /\ f[j] = ns[j].fine /\ f[j] <= f[h] /\ f[l] <= f[j]
      BY <1>1, <2>1, <2>2, <2>3
    <3> QED
      BY <3>1
  <2>8. Bounds(lo, hi)
    BY <2>6, <2>7
  <2> QED
    BY <2>5, <2>8
<1> QED
  BY <1>1, <1>2, <1>3

(* The correction is a number, whatever is read through NULL. *)
LEMMA FineIsInt ==
  ASSUME NEW A, NEW ns \in Seq(Entries(A)), NEW discovery \in BOOLEAN, NEW junk \in Int
  PROVE  FineOffset(ns, discovery, junk) \in Int
<1> DEFINE D == {0} \cup {ns[i].fine : i \in DOMAIN ns}
<1>1. PICK lo \in D, hi \in D :
        /\ lo \in Int /\ hi \in Int /\ lo <= 0 /\ 0 <= hi
        /\ \A j \in DOMAIN ns : lo <= ns[j].fine /\ ns[j].fine <= hi
  BY BoundsThere, Zenon
<1> DEFINE l == IF junk < lo THEN junk ELSE lo
           h == IF junk > hi THEN junk ELSE hi
<1>2. l \in Int /\ h \in Int /\ l <= 0 /\ 0 <= h /\ l <= junk /\ junk <= h
  BY <1>1
<1>3. \A j \in DOMAIN ns : l <= ns[j].fine /\ ns[j].fine <= h
  BY <1>1, ListTypes
<1> HIDE DEF l, h
<1> QED
  BY <1>2, <1>3, FineBetween

(* Outside the discovery the clock is corrected by the mean of near differences. *)
LEMMA FineIsNear ==
  ASSUME NEW A, NEW ns \in Seq(Entries(A)), NEW discovery \in BOOLEAN, ~discovery, NEW junk \in Int
  PROVE  Near(FineOffset(ns, discovery, junk))
<1> DEFINE mean == Quotient(SumInStep(ns, junk), Cardinality(InStepWith(ns, junk)) + 1)
<1>1. FineOffset(ns, discovery, junk) = mean
  BY DEF FineOffset
<1>2. \A i \in InStepWith(ns, junk) : Read(ns, junk)[i] \in Int /\ Near(Read(ns, junk)[i])
  <2> SUFFICES ASSUME NEW i \in InStepWith(ns, junk)
               PROVE  Read(ns, junk)[i] \in Int /\ Near(Read(ns, junk)[i])
    OBVIOUS
  <2>1. i \in Looked(ns) /\ Near(Read(ns, junk)[i])
    BY DEF InStepWith
  <2>2. i \in DOMAIN ns
    BY <2>1, ReachedIsThere
  <2> QED
    BY <2>1, <2>2, ListTypes DEF Read
<1>3. \A d \in Int : Near(d) <=> -(JUMP - 1) <= d /\ d <= JUMP - 1
  BY JumpAssumption DEF Near
<1>4. JUMP - 1 \in Int /\ -(JUMP - 1) \in Int /\ -(JUMP - 1) <= 0 /\ 0 <= JUMP - 1
  BY JumpAssumption
<1>5. mean \in Int /\ -(JUMP - 1) <= mean /\ mean <= JUMP - 1
  BY <1>2, <1>3, <1>4, MeanBounds
<1> QED
  BY <1>1, <1>3, <1>5

-----------------------------------------------------------------------------
(* The list l and the reports h of a node whose clock is c: one entry for each node
   heard, with the difference to the clock it reported. *)
Known(l, h, c) ==
  /\ l \in Seq(Entries(Nodes))
  /\ \A m \in DOMAIN h : h[m].clock \in [coarse : Int, fine : Int]
  /\ \A i, j \in DOMAIN l : l[i].addr = l[j].addr => i = j
  /\ \A i \in DOMAIN l : l[i].addr \in DOMAIN h
  /\ \A m \in DOMAIN h : \E i \in DOMAIN l : l[i].addr = m
  /\ \A i \in DOMAIN l : /\ l[i].coarse = c.coarse - h[l[i].addr].clock.coarse
                         /\ l[i].fine = c.fine - h[l[i].addr].clock.fine

(* The inductive invariant: the types, and what every node knows.  DifferencesTrue alone
   says nothing of an entry whose address is missing from the reports or occurs twice,
   and the measurement of one entry must leave the others true. *)
GtspInv ==
  /\ net \in Networks
  /\ clock \in [Nodes -> [coarse : Int, fine : Int]]
  /\ air \in [Nodes -> [to : SUBSET Nodes, state : {Phases[i] : i \in 1..4},
                        clock : [coarse : Int, fine : Int]]]
  /\ my_state \in [Nodes -> {Phases[i] : i \in 1..4}]
  /\ DOMAIN list = Nodes /\ list = [n \in Nodes |-> list[n]]
  /\ DOMAIN heard = Nodes /\ heard = [n \in Nodes |-> heard[n]]
  /\ \A n \in Nodes : Known(list[n], heard[n], clock[n])

(* A list that keeps its addresses knows the clocks if its differences are right. *)
LEMMA KnownMapped ==
  ASSUME NEW l, NEW h, NEW c, Known(l, h, c),
         NEW k \in [DOMAIN l -> Entries(Nodes)], NEW g, NEW d,
         DOMAIN g = DOMAIN h, \A m \in DOMAIN g : g[m].clock \in [coarse : Int, fine : Int],
         \A i \in DOMAIN l : /\ k[i].addr = l[i].addr
                            /\ k[i].coarse = d.coarse - g[l[i].addr].clock.coarse
                            /\ k[i].fine = d.fine - g[l[i].addr].clock.fine
  PROVE  Known(k, g, d)
<1>1. l \in Seq(Entries(Nodes)) /\ DOMAIN k = DOMAIN l
  BY DEF Known
<1>2. Len(l) \in Nat /\ DOMAIN l = 1..Len(l)
  BY <1>1, ListTypes
<1>3. k \in Seq(Entries(Nodes))
  BY <1>2
<1>4. \A i, j \in DOMAIN k : k[i].addr = k[j].addr => i = j
  BY <1>1 DEF Known
<1>5. \A i \in DOMAIN k : k[i].addr \in DOMAIN g
  BY <1>1 DEF Known
<1>6. \A m \in DOMAIN g : \E i \in DOMAIN k : k[i].addr = m
  BY <1>1, ZenonT(30) DEF Known
<1>7. \A i \in DOMAIN k : /\ k[i].coarse = d.coarse - g[k[i].addr].clock.coarse
                         /\ k[i].fine = d.fine - g[k[i].addr].clock.fine
  BY <1>1, Zenon
<1> QED
  BY <1>3, <1>4, <1>5, <1>6, <1>7 DEF Known

(* A new neighbour at the end of the list. *)
LEMMA KnownAppended ==
  ASSUME NEW l, NEW h, NEW c, Known(l, h, c), NEW m \in Nodes, m \notin DOMAIN h,
         NEW g, DOMAIN g = DOMAIN h \cup {m}, \A k \in DOMAIN h : g[k] = h[k],
         g[m].clock \in [coarse : Int, fine : Int],
         NEW e \in Entries(Nodes), e.addr = m,
         e.coarse = c.coarse - g[m].clock.coarse, e.fine = c.fine - g[m].clock.fine
  PROVE  Known(Append(l, e), g, c)
<1> DEFINE k == Append(l, e)
           n == Len(l)
<1>1. l \in Seq(Entries(Nodes))
  BY DEF Known
<1>2. n \in Nat /\ DOMAIN l = 1..n
  BY <1>1, ListTypes
<1>3. /\ k \in Seq(Entries(Nodes)) /\ Len(k) = n + 1
      /\ \A i \in 1..n : k[i] = l[i]
      /\ k[n + 1] = e
  BY <1>1
<1> HIDE DEF k
<1>4. DOMAIN k = 1..(n + 1) /\ \A i \in DOMAIN k : i \in 1..n \/ i = n + 1
  BY <1>2, <1>3, ListTypes
<1>5. \A i \in 1..n : k[i].addr \in DOMAIN h /\ k[i].addr # m
  BY <1>2, <1>3 DEF Known
<1>6. \A i, j \in DOMAIN k : k[i].addr = k[j].addr => i = j
  <2> SUFFICES ASSUME NEW i \in DOMAIN k, NEW j \in DOMAIN k, k[i].addr = k[j].addr PROVE i = j
    OBVIOUS
  <2>1. CASE i \in 1..n /\ j \in 1..n
    BY <1>2, <1>3, <2>1 DEF Known
  <2>2. CASE i = n + 1 \/ j = n + 1
    BY <1>3, <1>4, <1>5, <2>2
  <2> QED
    BY <1>4, <2>1, <2>2
<1>7. \A i \in DOMAIN k : k[i].addr \in DOMAIN g
  BY <1>3, <1>4, <1>5
<1>8. \A a \in DOMAIN g : \E i \in DOMAIN k : k[i].addr = a
  <2> TAKE a \in DOMAIN g
  <2>1. CASE a = m
    BY <1>2, <1>3, <1>4, <2>1
  <2>2. CASE a \in DOMAIN h
    <3>1. PICK i \in DOMAIN l : l[i].addr = a
      BY <2>2 DEF Known
    <3> QED
      BY <1>2, <1>3, <1>4, <3>1
  <2> QED
    BY <2>1, <2>2
<1>9. \A i \in DOMAIN k : /\ k[i].coarse = c.coarse - g[k[i].addr].clock.coarse
                         /\ k[i].fine = c.fine - g[k[i].addr].clock.fine
  <2> TAKE i \in DOMAIN k
  <2>1. CASE i \in 1..n
    <3>1. k[i] = l[i] /\ l[i].addr \in DOMAIN h /\ g[l[i].addr] = h[l[i].addr]
      BY <1>2, <1>3, <2>1 DEF Known
    <3> QED
      BY <1>2, <2>1, <3>1 DEF Known
  <2>2. CASE i = n + 1
    BY <1>3, <2>2
  <2> QED
    BY <1>4, <2>1, <2>2
<1>10. \A a \in DOMAIN g : g[a].clock \in [coarse : Int, fine : Int]
  BY DEF Known
<1> QED
  BY <1>3, <1>6, <1>7, <1>8, <1>9, <1>10 DEF Known, k

(* The last loop of gtsp_update_rtimer. *)
LEMMA KnownCorrected ==
  ASSUME NEW l, NEW h, NEW c \in [coarse : Int, fine : Int], Known(l, h, c),
         NEW co \in Int, NEW fi \in Int
  PROVE  Known(Corrected(l, co, fi), h, [coarse |-> c.coarse - co, fine |-> c.fine - fi])
<1> DEFINE k == Corrected(l, co, fi)
           d == [coarse |-> c.coarse - co, fine |-> c.fine - fi]
<1>1. \A i \in DOMAIN l : l[i] \in Entries(Nodes)
  BY ListTypes DEF Known
<1>2. \A x : Near(x) \in BOOLEAN
  BY DEF Near
<1>3. \A i \in DOMAIN l : /\ k[i] \in Entries(Nodes) /\ k[i].addr = l[i].addr
                         /\ k[i].coarse = l[i].coarse - co /\ k[i].fine = l[i].fine - fi
  <2> TAKE i \in DOMAIN l
  <2>1. /\ l[i] \in Entries(Nodes) /\ l[i].coarse \in Int /\ l[i].fine \in Int
        /\ Near(l[i].fine - fi) \in BOOLEAN
    BY <1>1, <1>2 DEF Entries
  <2>2. k[i] = [l[i] EXCEPT !.coarse = l[i].coarse - co, !.fine = l[i].fine - fi,
                            !.synced = Near(l[i].fine - fi)]
    BY DEF Corrected
  <2> DEFINE b == Near(l[i].fine - fi)
             x == l[i].coarse - co
             y == l[i].fine - fi
  <2>3. b \in BOOLEAN /\ x \in Int /\ y \in Int /\ k[i] = [l[i] EXCEPT !.coarse = x, !.fine = y, !.synced = b]
    BY <2>1, <2>2
  <2> HIDE DEF b, k, x, y
  <2>4. k[i] \in Entries(Nodes) /\ k[i].addr = l[i].addr /\ k[i].coarse = x /\ k[i].fine = y
    BY <2>1, <2>3 DEF Entries
  <2> QED
    BY <2>4 DEF x, y
<1>4. k \in [DOMAIN l -> Entries(Nodes)]
  BY <1>3, Zenon DEF Corrected
<1> HIDE DEF k
<1>5. \A m \in DOMAIN h : h[m].clock \in [coarse : Int, fine : Int]
  BY DEF Known
<1>6. \A i \in DOMAIN l : /\ k[i].coarse = d.coarse - h[l[i].addr].clock.coarse
                         /\ k[i].fine = d.fine - h[l[i].addr].clock.fine
  <2> TAKE i \in DOMAIN l
  <2>1. /\ l[i].coarse = c.coarse - h[l[i].addr].clock.coarse
        /\ l[i].fine = c.fine - h[l[i].addr].clock.fine
        /\ h[l[i].addr].clock \in [coarse : Int, fine : Int]
    BY <1>5 DEF Known
  <2> QED
    BY <1>3, <2>1
<1> QED
  BY <1>3, <1>4, <1>5, <1>6, KnownMapped DEF k

(* The loop of csync_trusted_synchronization. *)
LEMMA KnownSetBack ==
  ASSUME NEW l, NEW h, NEW c \in [coarse : Int, fine : Int], Known(l, h, c), NEW fi \in Int
  PROVE  Known(SetBack(l, fi), h, [coarse |-> c.coarse, fine |-> c.fine - fi])
<1> DEFINE k == SetBack(l, fi)
           d == [coarse |-> c.coarse, fine |-> c.fine - fi]
<1>1. \A i \in DOMAIN l : l[i] \in Entries(Nodes)
  BY ListTypes DEF Known
<1>2. \A i \in DOMAIN l : /\ k[i] \in Entries(Nodes) /\ k[i].addr = l[i].addr
                         /\ k[i].coarse = l[i].coarse /\ k[i].fine = l[i].fine - fi
  <2> TAKE i \in DOMAIN l
  <2>1. l[i] \in Entries(Nodes) /\ l[i].fine \in Int
    BY <1>1 DEF Entries
  <2> DEFINE y == l[i].fine - fi
  <2>2. y \in Int /\ k[i] = [l[i] EXCEPT !.fine = y]
    BY <2>1 DEF SetBack
  <2> HIDE DEF k, y
  <2>3. k[i] \in Entries(Nodes) /\ k[i].addr = l[i].addr /\ k[i].coarse = l[i].coarse /\ k[i].fine = y
    BY <2>1, <2>2 DEF Entries
  <2> QED
    BY <2>3 DEF y
<1>3. k \in [DOMAIN l -> Entries(Nodes)]
  BY <1>2, Zenon DEF SetBack
<1> HIDE DEF k
<1>4. \A m \in DOMAIN h : h[m].clock \in [coarse : Int, fine : Int]
  BY DEF Known
<1>5. \A i \in DOMAIN l : /\ k[i].coarse = d.coarse - h[l[i].addr].clock.coarse
                         /\ k[i].fine = d.fine - h[l[i].addr].clock.fine
  <2> TAKE i \in DOMAIN l
  <2>1. /\ l[i].coarse = c.coarse - h[l[i].addr].clock.coarse
        /\ l[i].fine = c.fine - h[l[i].addr].clock.fine
        /\ h[l[i].addr].clock \in [coarse : Int, fine : Int]
    BY <1>4 DEF Known
  <2> QED
    BY <1>2, <2>1
<1> QED
  BY <1>2, <1>3, <1>4, <1>5, KnownMapped DEF k

-----------------------------------------------------------------------------
(* The frame of m that n takes is n's latest report of m; nothing else is forgotten. *)
LEMMA TakenReports ==
  ASSUME GtspInv, NEW n \in Nodes, NEW m \in Nodes, Taken(n, m)
  PROVE  /\ air' \in [Nodes -> [to : SUBSET Nodes, state : {Phases[i] : i \in 1..4},
                               clock : [coarse : Int, fine : Int]]]
         /\ DOMAIN heard' = Nodes /\ heard' = [p \in Nodes |-> heard'[p]]
         /\ \A p \in Nodes \ {n} : heard'[p] = heard[p]
         /\ DOMAIN heard'[n] = DOMAIN heard[n] \cup {m}
         /\ heard'[n][m].clock = air[m].clock /\ heard'[n][m].state = air[m].state
         /\ \A k \in DOMAIN heard[n] \ {m} : heard'[n][k] = heard[n][k]
         /\ air[m].clock \in [coarse : Int, fine : Int]
<1>1. air[m] \in [to : SUBSET Nodes, state : {Phases[i] : i \in 1..4}, clock : [coarse : Int, fine : Int]]
  BY DEF GtspInv
<1>2. DOMAIN heard = Nodes
  BY DEF GtspInv
<1> DEFINE g == [k \in DOMAIN heard[n] \cup {m} |->
                   IF k = m THEN [clock |-> air[m].clock, state |-> air[m].state] ELSE heard[n][k]]
<1>3. heard' = [heard EXCEPT ![n] = g]
  BY DEF Taken
<1>4. /\ DOMAIN g = DOMAIN heard[n] \cup {m} /\ g[m].clock = air[m].clock /\ g[m].state = air[m].state
      /\ \A k \in DOMAIN heard[n] \ {m} : g[k] = heard[n][k]
  OBVIOUS
<1> HIDE DEF g
<1>5. /\ DOMAIN heard' = Nodes /\ heard' = [p \in Nodes |-> heard'[p]]
      /\ \A p \in Nodes \ {n} : heard'[p] = heard[p]
      /\ heard'[n] = g
  BY <1>2, <1>3
<1>6. air' \in [Nodes -> [to : SUBSET Nodes, state : {Phases[i] : i \in 1..4}, clock : [coarse : Int, fine : Int]]]
  BY <1>1 DEF GtspInv, Taken
<1>7. air[m].clock \in [coarse : Int, fine : Int]
  BY <1>1
<1> QED
  BY <1>4, <1>5, <1>6, <1>7

(* gtsp_recv makes the difference to m that of the frame just taken. *)
LEMMA MeasuredKnown ==
  ASSUME GtspInv, NEW n \in Nodes, NEW m \in Nodes, m \in DOMAIN heard[n], Taken(n, m)
  PROVE  Known(Measured(n, m), heard'[n], clock[n])
<1> DEFINE l == list[n]
           k == Measured(n, m)
           g == heard'[n]
<1>1. Known(l, heard[n], clock[n]) /\ clock[n] \in [coarse : Int, fine : Int]
  BY DEF GtspInv
<1>2. /\ DOMAIN g = DOMAIN heard[n] /\ g[m].clock = air[m].clock
      /\ \A p \in DOMAIN heard[n] \ {m} : g[p] = heard[n][p]
      /\ air[m].clock \in [coarse : Int, fine : Int]
  <2>1. /\ DOMAIN g = DOMAIN heard[n] \cup {m} /\ g[m].clock = air[m].clock
        /\ \A p \in DOMAIN heard[n] \ {m} : g[p] = heard[n][p]
        /\ air[m].clock \in [coarse : Int, fine : Int]
    BY TakenReports
  <2>2. DOMAIN heard[n] \cup {m} = DOMAIN heard[n]
    BY Zenon
  <2> QED
    BY <2>1, <2>2
<1>3. \A i \in DOMAIN l : l[i] \in Entries(Nodes)
  BY <1>1, ListTypes, Zenon DEF Known
<1>4. \A i \in DOMAIN l :
        IF l[i].addr = m
        THEN /\ k[i] \in Entries(Nodes) /\ k[i].addr = m
             /\ k[i].coarse = clock[n].coarse - air[m].clock.coarse
             /\ k[i].fine = clock[n].fine - air[m].clock.fine
        ELSE k[i] = l[i]
  <2> TAKE i \in DOMAIN l
  <2>1. CASE l[i].addr # m
    BY <2>1 DEF Measured
  <2>2. CASE l[i].addr = m
    <3> DEFINE here == IF my_state[n] = "IDLE" THEN l[i].here ELSE air[m].state = my_state[n]
    <3>1. here \in BOOLEAN /\ l[i].synced \in BOOLEAN
      BY <1>3, Zenon DEF Entries
    <3>2. k[i] = Entry(n, m, here, l[i].synced)
      BY <2>2 DEF Measured
    <3> HIDE DEF here
    <3> QED
      BY <1>1, <1>2, <2>2, <3>1, <3>2 DEF Entry, Entries
  <2> QED
    BY <2>1, <2>2
<1>5. k \in [DOMAIN l -> Entries(Nodes)]
  <2>1. \A i \in DOMAIN l : k[i] \in Entries(Nodes)
    BY <1>3, <1>4
  <2> QED
    BY <2>1, Zenon DEF Measured
<1> HIDE DEF k
<1>6. \A p \in DOMAIN g : g[p].clock \in [coarse : Int, fine : Int]
  BY <1>1, <1>2, Zenon DEF Known
<1>7. \A i \in DOMAIN l : /\ k[i].addr = l[i].addr
                         /\ k[i].coarse = clock[n].coarse - g[l[i].addr].clock.coarse
                         /\ k[i].fine = clock[n].fine - g[l[i].addr].clock.fine
  <2> TAKE i \in DOMAIN l
  <2>1. CASE l[i].addr = m
    BY <1>2, <1>4, <2>1
  <2>2. CASE l[i].addr # m
    <3>1. k[i] = l[i] /\ l[i].addr \in DOMAIN heard[n] /\ g[l[i].addr] = heard[n][l[i].addr]
      BY <1>1, <1>2, <1>4, <2>2, Zenon DEF Known
    <3> QED
      BY <1>1, <3>1, Zenon DEF Known
  <2> QED
    BY <2>1, <2>2, Zenon
<1>8. Known(l, heard[n], clock[n]) /\ DOMAIN g = DOMAIN heard[n]
  BY <1>1, <1>2, Zenon
<1>9. Known(k, g, clock[n])
  BY ONLY <1>5, <1>6, <1>7, <1>8, KnownMapped, Zenon
<1> QED
  BY <1>9 DEF k

(* A node that has heard nobody knows everybody it has heard. *)
LEMMA GtspInvInit == Init => GtspInv
<1> SUFFICES ASSUME Init PROVE GtspInv
  OBVIOUS
<1>1. net \in Networks /\ net.starts \subseteq [coarse : Int, fine : Int]
  BY NetworksAssumption DEF Init
<1>2. clock \in [Nodes -> [coarse : Int, fine : Int]]
  BY <1>1 DEF Init
<1>3. "DISCOVERY" \in {Phases[i] : i \in 1..4}
  <2>1. 1 \in 1..4 /\ Phases[1] = "DISCOVERY"
    BY DEF Phases
  <2> QED
    BY <2>1
<1>4. air \in [Nodes -> [to : SUBSET Nodes, state : {Phases[i] : i \in 1..4},
                         clock : [coarse : Int, fine : Int]]]
  BY <1>2, <1>3 DEF Init
<1>5. my_state \in [Nodes -> {Phases[i] : i \in 1..4}]
  BY <1>3 DEF Init
<1>6. /\ DOMAIN list = Nodes /\ list = [n \in Nodes |-> list[n]]
      /\ DOMAIN heard = Nodes /\ heard = [n \in Nodes |-> heard[n]]
      /\ \A n \in Nodes : list[n] = <<>> /\ heard[n] = <<>>
  BY DEF Init
<1>7. Known(<<>>, <<>>, 0)
  BY DEF Known
<1>8. \A c : Known(<<>>, <<>>, c)
  BY <1>7 DEF Known
<1> QED
  BY <1>1, <1>2, <1>4, <1>5, <1>6, <1>8 DEF GtspInv

(* What one step of a node does to its clock: nothing, or the frame of some m is taken,
   the difference to it measured again and the clock set back by gtsp_update_rtimer. *)
Corrects(n) ==
  \E m \in Nodes \ {n}, junk \in net.junk :
    LET r == gtsp_update_rtimer(Measured(n, m), my_state[n] = "DISCOVERY", junk)
    IN  /\ m \in DOMAIN heard[n] /\ Taken(n, m)
        /\ clock'[n] = [coarse |-> clock[n].coarse - r.coarse, fine |-> clock[n].fine - r.fine]

(* The entry of m is marked as in step. *)
InStep(ns, m) == \E i \in DOMAIN ns : ns[i].addr = m /\ ns[i].synced

(* The other way in which a clock moves: the frame of some m in the consensus is taken,
   and its fine count with it. *)
Trusts(n) ==
  \E m \in Nodes \ {n} :
    /\ m \in DOMAIN heard[n] /\ Taken(n, m) /\ air[m].state = "CONSENSUS"
    /\ my_state[n] \in {"DISCOVERY", "CONSENSUS"}
    /\ clock'[n].fine = air[m].clock.fine
    /\ \/ clock'[n].coarse = clock[n].coarse
       \/ clock'[n].coarse = clock[n].coarse - CoarseOffset(Measured(n, m))
    /\ my_state[n] # "DISCOVERY" => InStep(list[n], m)

(* The lists and clocks of a node after a frame, from what gtsp_update_rtimer returns. *)
LEMMA UpdateKnown ==
  ASSUME GtspInv, NEW n \in Nodes, NEW m \in Nodes, m \in DOMAIN heard[n], Taken(n, m),
         NEW junk \in Int
  PROVE  LET r == gtsp_update_rtimer(Measured(n, m), my_state[n] = "DISCOVERY", junk)
         IN  /\ r.coarse \in Int /\ r.fine \in Int
             /\ Known(r.ns, heard'[n], [coarse |-> clock[n].coarse - r.coarse, fine |-> clock[n].fine - r.fine])
<1> DEFINE ns == Measured(n, m)
           c == CoarseOffset(ns)
           f == FineOffset(ns, my_state[n] = "DISCOVERY", junk)
           r == gtsp_update_rtimer(ns, my_state[n] = "DISCOVERY", junk)
<1>1. Known(ns, heard'[n], clock[n])
  BY MeasuredKnown
<1>2. ns \in Seq(Entries(Nodes))
  BY <1>1 DEF Known
<1>3. (my_state[n] = "DISCOVERY") \in BOOLEAN
  OBVIOUS
<1> HIDE DEF ns
<1>4. c \in Int
  <2>1. c = 0 \/ \E i \in DOMAIN ns : c = ns[i].coarse
    BY <1>2, VoteProperties
  <2> HIDE DEF c
  <2> QED
    BY <1>2, <2>1, ListTypes
<1>5. f \in Int
  BY <1>2, <1>3, FineIsInt, Zenon
<1>6. r.coarse = c /\ r.fine = f /\ r.ns = Corrected(ns, c, f)
  BY DEF gtsp_update_rtimer
<1>7. clock[n] \in [coarse : Int, fine : Int]
  BY DEF GtspInv
<1> HIDE DEF c, f, r
<1>8. Known(Corrected(ns, c, f), heard'[n], [coarse |-> clock[n].coarse - c, fine |-> clock[n].fine - f])
  BY <1>1, <1>4, <1>5, <1>7, KnownCorrected
<1>9. r.coarse \in Int /\ r.fine \in Int
      /\ Known(r.ns, heard'[n], [coarse |-> clock[n].coarse - r.coarse, fine |-> clock[n].fine - r.fine])
  BY <1>4, <1>5, <1>6, <1>8
<1> QED
  BY <1>9 DEF r, ns

(* The same, of all that add_to_neighbour does. *)
LEMMA HeardKnown ==
  ASSUME GtspInv, NEW n \in Nodes, NEW m \in Nodes, m \in DOMAIN heard[n], Taken(n, m),
         NEW junk \in Int
  PROVE  LET r == Heard(n, m, junk)
         IN  /\ r.coarse \in Int /\ r.fine \in Int
             /\ Known(r.ns, heard'[n], [coarse |-> clock[n].coarse - r.coarse, fine |-> clock[n].fine - r.fine])
<1>1. CASE Updates(n, m)
  <2>1. Heard(n, m, junk) = gtsp_update_rtimer(Measured(n, m), my_state[n] = "DISCOVERY", junk)
    BY <1>1, Zenon DEF Heard
  <2> QED
    BY <2>1, UpdateKnown, Zenon
<1>2. CASE ~Updates(n, m)
  <2> DEFINE r == Heard(n, m, junk)
             k == Measured(n, m)
  <2>1. r = [coarse |-> 0, fine |-> 0, ns |-> k]
    BY <1>2, Zenon DEF Heard
  <2>2. Known(k, heard'[n], clock[n])
    BY MeasuredKnown
  <2> HIDE DEF r, k
  <2>3. r.coarse = 0 /\ r.fine = 0 /\ r.ns = k
    BY <2>1
  <2>4. [coarse |-> clock[n].coarse - 0, fine |-> clock[n].fine - 0] = clock[n]
    BY DEF GtspInv
  <2> QED
    BY <2>2, <2>3, <2>4 DEF r
<1> QED
  BY <1>1, <1>2

(* The list and the clock that csync_trusted_synchronization leaves. *)
TakesOver(n, m, junk) ==
  \E l, d : /\ list' = [list EXCEPT ![n] = l] /\ Known(l, heard'[n], d)
            /\ d \in [coarse : Int, fine : Int] /\ clock' = [clock EXCEPT ![n] = d]
            /\ d.coarse = clock[n].coarse - Heard(n, m, junk).coarse
            /\ d.fine = air[m].clock.fine

(* csync_trusted_synchronization ends with the fine count that m has sent. *)
LEMMA TrustedTakesOver ==
  ASSUME GtspInv, NEW n \in Nodes, NEW m \in Nodes, NEW junk \in Int, TrustedNeighbour(n, m, junk)
  PROVE  TakesOver(n, m, junk) /\ InStep(Heard(n, m, junk).ns, m)
<1> DEFINE r == Heard(n, m, junk)
           E == {r.ns[i] : i \in DOMAIN r.ns}
           e == CHOOSE x \in E : x.addr = m
           b == [coarse |-> clock[n].coarse - r.coarse, fine |-> clock[n].fine - r.fine]
           d == [coarse |-> clock[n].coarse - r.coarse, fine |-> (clock[n].fine - r.fine) - e.fine]
<1>1. /\ m \in DOMAIN heard[n] /\ Taken(n, m) /\ e.synced
      /\ list' = [list EXCEPT ![n] = SetBack(r.ns, e.fine)] /\ clock' = [clock EXCEPT ![n] = d]
  BY Zenon DEF TrustedNeighbour
<1>2. r.coarse \in Int /\ r.fine \in Int /\ Known(r.ns, heard'[n], b)
  BY <1>1, HeardKnown, Zenon
<1>3. /\ clock[n] \in [coarse : Int, fine : Int] /\ air[m].clock \in [coarse : Int, fine : Int]
      /\ heard'[n][m].clock = air[m].clock /\ m \in DOMAIN heard'[n]
  BY <1>1, TakenReports DEF GtspInv
<1> HIDE DEF r
<1>4. PICK i \in DOMAIN r.ns : r.ns[i].addr = m
  BY <1>2, <1>3, Zenon DEF Known
<1>5. e \in E /\ e.addr = m
  BY <1>4, Zenon
<1>6. PICK j \in DOMAIN r.ns : e = r.ns[j]
  BY <1>5, Zenon
<1> HIDE DEF e, E
<1>7. e.fine = b.fine - air[m].clock.fine
  BY <1>2, <1>3, <1>5, <1>6, Zenon DEF Known
<1>8. /\ b \in [coarse : Int, fine : Int] /\ b.coarse = clock[n].coarse - r.coarse
      /\ b.fine = clock[n].fine - r.fine /\ b.fine \in Int /\ air[m].clock.fine \in Int
      /\ d = [coarse |-> b.coarse, fine |-> b.fine - e.fine]
  BY <1>2, <1>3
<1> HIDE DEF b, d
<1>9. e.fine \in Int /\ b.fine - e.fine = air[m].clock.fine
  BY <1>7, <1>8
<1>10. /\ d \in [coarse : Int, fine : Int] /\ d.coarse = clock[n].coarse - r.coarse
       /\ d.fine = air[m].clock.fine
  BY <1>8, <1>9
<1>11. Known(SetBack(r.ns, e.fine), heard'[n], d)
  BY <1>2, <1>8, <1>9, KnownSetBack
<1>12. r.ns[j].addr = m /\ r.ns[j].synced
  BY <1>1, <1>5, <1>6
<1> QED
  BY <1>1, <1>10, <1>11, <1>12, Zenon DEF r, TakesOver, InStep

(* Every action keeps the inductive invariant. *)
LEMMA GtspInvStep == GtspInv /\ [Next]_vars => GtspInv'
<1> SUFFICES ASSUME GtspInv, [Next]_vars PROVE GtspInv'
  OBVIOUS
<1> DEFINE Frames == [to : SUBSET Nodes, state : {Phases[i] : i \in 1..4},
                      clock : [coarse : Int, fine : Int]]
<1>0. /\ net \in Networks /\ clock \in [Nodes -> [coarse : Int, fine : Int]]
      /\ air \in [Nodes -> Frames] /\ my_state \in [Nodes -> {Phases[i] : i \in 1..4}]
      /\ DOMAIN list = Nodes /\ list = [n \in Nodes |-> list[n]]
      /\ DOMAIN heard = Nodes /\ heard = [n \in Nodes |-> heard[n]]
      /\ \A n \in Nodes : Known(list[n], heard[n], clock[n])
  BY Zenon DEF GtspInv
<1>1. ASSUME NEW n \in Nodes, Send(n) PROVE GtspInv'
  <2>1. net' = net /\ clock' = clock /\ my_state' = my_state /\ list' = list /\ heard' = heard
        /\ Nodes' = Nodes
    BY <1>1 DEF Send, Nodes
  <2>2. [to |-> Nodes \ {n}, state |-> my_state[n], clock |-> clock[n]] \in Frames
    BY <1>0
  <2>3. air' \in [Nodes -> Frames]
    BY <1>0, <1>1, <2>2 DEF Send
  <2>4. \A p \in Nodes : Known(list'[p], heard'[p], clock'[p])
    BY <1>0, <2>1, Zenon
  <2> QED
    BY <1>0, <2>1, <2>3, <2>4, Zenon DEF GtspInv, Known
<1>2. ASSUME NEW n \in Nodes, NEW m \in Nodes \ {n}, NewNeighbour(n, m) PROVE GtspInv'
  <2>1. /\ Taken(n, m) /\ m \notin DOMAIN heard[n] /\ clock' = clock
        /\ list' = [list EXCEPT ![n] = Append(list[n], Entry(n, m, air[m].state = my_state[n], FALSE))]
    BY <1>2 DEF NewNeighbour
  <2>2. net' = net /\ my_state' = my_state /\ Nodes' = Nodes
    BY <2>1 DEF Taken, Nodes
  <2> DEFINE here == air[m].state = my_state[n]
             e == Entry(n, m, here, FALSE)
  <2>3. /\ air' \in [Nodes -> Frames]
        /\ DOMAIN heard' = Nodes /\ heard' = [p \in Nodes |-> heard'[p]]
        /\ \A p \in Nodes \ {n} : heard'[p] = heard[p]
        /\ DOMAIN heard'[n] = DOMAIN heard[n] \cup {m}
        /\ heard'[n][m].clock = air[m].clock
        /\ \A k \in DOMAIN heard[n] \ {m} : heard'[n][k] = heard[n][k]
        /\ air[m].clock \in [coarse : Int, fine : Int]
    BY <2>1, TakenReports
  <2>4. here \in BOOLEAN
    OBVIOUS
  <2> HIDE DEF here
  <2>5. /\ e \in Entries(Nodes) /\ e.addr = m
        /\ e.coarse = clock[n].coarse - heard'[n][m].clock.coarse
        /\ e.fine = clock[n].fine - heard'[n][m].clock.fine
    BY <1>0, <2>3, <2>4 DEF Entry, Entries
  <2>6. list' = [list EXCEPT ![n] = Append(list[n], e)]
    BY <2>1 DEF here
  <2> HIDE DEF e
  <2>7. Known(list[n], heard[n], clock[n])
    BY <1>0
  <2>8. \A k \in DOMAIN heard[n] : heard'[n][k] = heard[n][k]
    BY <2>1, <2>3
  <2>9. Known(Append(list[n], e), heard'[n], clock[n])
    <3>1. heard'[n][m].clock \in [coarse : Int, fine : Int] /\ m \in Nodes
      BY <2>3
    <3> DEFINE l == list[n]
               h == heard[n]
               g == heard'[n]
               c == clock[n]
    <3>2. /\ Known(l, h, c) /\ m \notin DOMAIN h /\ DOMAIN g = DOMAIN h \cup {m}
          /\ \A k \in DOMAIN h : g[k] = h[k]
      BY <2>1, <2>3, <2>7, <2>8
    <3>3. e.coarse = c.coarse - g[m].clock.coarse /\ e.fine = c.fine - g[m].clock.fine
      BY <2>5
    <3>4. g[m].clock \in [coarse : Int, fine : Int]
      BY <3>1
    <3>5. e \in Entries(Nodes) /\ e.addr = m
      BY <2>5
    <3> HIDE DEF l, h, g, c
    <3>6. Known(Append(l, e), g, c)
      BY <3>1, <3>2, <3>3, <3>4, <3>5, KnownAppended
    <3> QED
      BY <3>6 DEF l, g, c
  <2>10. /\ DOMAIN list' = Nodes /\ list' = [p \in Nodes |-> list'[p]]
         /\ list'[n] = Append(list[n], e) /\ \A p \in Nodes \ {n} : list'[p] = list[p]
    BY <1>0, <2>6
  <2>11. \A p \in Nodes : Known(list'[p], heard'[p], clock'[p])
    BY <1>0, <2>1, <2>3, <2>9, <2>10
  <2> QED
    BY <1>0, <2>1, <2>2, <2>3, <2>10, <2>11, Zenon DEF GtspInv, Known
<1>6. ASSUME NEW n \in Nodes, NEW m \in Nodes \ {n}, Taken(n, m), NEW l, NEW d,
             list' = [list EXCEPT ![n] = l], Known(l, heard'[n], d),
             d \in [coarse : Int, fine : Int], clock' = [clock EXCEPT ![n] = d]
      PROVE  GtspInv'
  <2>2. net' = net /\ my_state' = my_state /\ Nodes' = Nodes
    BY <1>6 DEF Taken, Nodes
  <2>3. /\ air' \in [Nodes -> Frames]
        /\ DOMAIN heard' = Nodes /\ heard' = [p \in Nodes |-> heard'[p]]
        /\ \A p \in Nodes \ {n} : heard'[p] = heard[p]
    BY <1>6, TakenReports, Zenon
  <2>8. /\ DOMAIN list' = Nodes /\ list' = [p \in Nodes |-> list'[p]]
        /\ list'[n] = l /\ \A p \in Nodes \ {n} : list'[p] = list[p]
    BY <1>0, <1>6
  <2>9. /\ clock' \in [Nodes -> [coarse : Int, fine : Int]]
        /\ clock'[n] = d /\ \A p \in Nodes \ {n} : clock'[p] = clock[p]
    BY <1>0, <1>6
  <2>10. \A p \in Nodes : Known(list'[p], heard'[p], clock'[p])
    BY <1>0, <2>3, <1>6, <2>8, <2>9
  <2> QED
    BY <1>0, <2>2, <2>3, <2>8, <2>9, <2>10, Zenon DEF GtspInv, Known
<1>3. ASSUME NEW n \in Nodes, NEW m \in Nodes \ {n}, NEW junk \in net.junk, KnownNeighbour(n, m, junk)
      PROVE  GtspInv'
  <2> DEFINE r == Heard(n, m, junk)
             c == [coarse |-> clock[n].coarse - r.coarse, fine |-> clock[n].fine - r.fine]
  <2>0. junk \in Int
    BY <1>0, NetworksAssumption, Zenon
  <2>1. /\ Taken(n, m) /\ m \in DOMAIN heard[n]
        /\ list' = [list EXCEPT ![n] = r.ns] /\ clock' = [clock EXCEPT ![n] = c]
    BY <1>3, Zenon DEF KnownNeighbour
  <2>4. r.coarse \in Int /\ r.fine \in Int /\ Known(r.ns, heard'[n], c)
    BY <2>0, <2>1, HeardKnown, Zenon
  <2> HIDE DEF r
  <2>6. c \in [coarse : Int, fine : Int]
    BY <1>0, <2>4
  <2> HIDE DEF c
  <2> QED
    BY <1>6, <2>1, <2>4, <2>6, Zenon
<1>7. ASSUME NEW n \in Nodes, NEW m \in Nodes \ {n}, NEW junk \in net.junk, TrustedNeighbour(n, m, junk)
      PROVE  GtspInv'
  <2>1. junk \in Int
    BY <1>0, NetworksAssumption, Zenon
  <2>4. TakesOver(n, m, junk)
    BY <1>7, <2>1, TrustedTakesOver, Zenon
  <2>2. PICK l, d : /\ list' = [list EXCEPT ![n] = l] /\ Known(l, heard'[n], d)
                    /\ d \in [coarse : Int, fine : Int] /\ clock' = [clock EXCEPT ![n] = d]
    BY <2>4, Zenon DEF TakesOver
  <2>3. Taken(n, m)
    BY <1>7, Zenon DEF TrustedNeighbour
  <2> QED
    BY <1>6, <2>2, <2>3, Zenon
<1>4. ASSUME NEW n \in Nodes, NextPhase(n) PROVE GtspInv'
  <2>1. PICK i \in 1..net.phases - 1 :
          /\ my_state' = [my_state EXCEPT ![n] = Phases[i + 1]]
          /\ list' = [list EXCEPT ![n] = [j \in DOMAIN list[n] |->
                        [list[n][j] EXCEPT !.here = heard[n][list[n][j].addr].state = Phases[i + 1]]]]
          /\ UNCHANGED <<net, clock, heard, air, frames>>
    BY <1>4, Zenon DEF NextPhase
  <2> DEFINE here(j) == heard[n][list[n][j].addr].state = Phases[i + 1]
             l == [j \in DOMAIN list[n] |-> [list[n][j] EXCEPT !.here = here(j)]]
  <2>2. i + 1 \in 1..4
    <3>1. net.phases \in 1..4
      BY <1>0, NetworksAssumption
    <3> QED
      BY <3>1
  <2>3. my_state' \in [Nodes -> {Phases[k] : k \in 1..4}]
    BY <1>0, <2>1, <2>2
  <2>4. net' = net /\ Nodes' = Nodes /\ clock' = clock /\ heard' = heard /\ air' = air
    BY <2>1 DEF Nodes
  <2>5. Known(list[n], heard[n], clock[n])
    BY <1>0, Zenon
  <2>6. \A j \in DOMAIN list[n] : list[n][j] \in Entries(Nodes)
    BY <2>5, ListTypes DEF Known
  <2>7. list' = [list EXCEPT ![n] = l]
    BY <2>1
  <2>8. \A j : here(j) \in BOOLEAN
    OBVIOUS
  <2> HIDE DEF here
  <2>9. \A j \in DOMAIN list[n] : /\ l[j] \in Entries(Nodes) /\ l[j].addr = list[n][j].addr
                                  /\ l[j].coarse = list[n][j].coarse /\ l[j].fine = list[n][j].fine
    BY <2>6, <2>8 DEF Entries
  <2>10. l \in [DOMAIN list[n] -> Entries(Nodes)]
    BY <2>9, Zenon
  <2> HIDE DEF l
  <2>11. Known(l, heard[n], clock[n])
    <3>1. \A k \in DOMAIN heard[n] : heard[n][k].clock \in [coarse : Int, fine : Int]
      BY <2>5 DEF Known
    <3>2. \A j \in DOMAIN list[n] :
            /\ l[j].addr = list[n][j].addr
            /\ l[j].coarse = clock[n].coarse - heard[n][list[n][j].addr].clock.coarse
            /\ l[j].fine = clock[n].fine - heard[n][list[n][j].addr].clock.fine
      BY <2>5, <2>9, Zenon DEF Known
    <3> QED
      BY <2>5, <2>10, <3>1, <3>2, KnownMapped, Zenon
  <2>12. /\ DOMAIN list' = Nodes /\ list' = [p \in Nodes |-> list'[p]]
         /\ list'[n] = l /\ \A p \in Nodes \ {n} : list'[p] = list[p]
    BY <1>0, <2>7, Zenon
  <2>13. \A p \in Nodes : Known(list'[p], heard'[p], clock'[p])
    BY <1>0, <2>4, <2>11, <2>12, Zenon
  <2> QED
    BY <1>0, <2>3, <2>4, <2>12, <2>13, Zenon DEF GtspInv, Known
<1>5. CASE UNCHANGED vars
  <2>1. /\ net' = net /\ clock' = clock /\ my_state' = my_state /\ list' = list /\ heard' = heard
        /\ air' = air /\ Nodes' = Nodes
    BY <1>5 DEF vars, Nodes
  <2>2. \A p \in Nodes : Known(list'[p], heard'[p], clock'[p])
    BY <1>0, <2>1, Zenon
  <2> QED
    BY <1>0, <2>1, <2>2, Zenon DEF GtspInv, Known
<1> QED
  BY <1>1, <1>2, <1>3, <1>4, <1>5, <1>7 DEF Next

(* In every reachable state each node has one entry, with the right difference, for
   each node that it has heard. *)
THEOREM GtspInvariant == Spec => []GtspInv
<1>1. Init => GtspInv
  BY GtspInvInit
<1>2. GtspInv /\ [Next]_vars => GtspInv'
  BY GtspInvStep
<1> QED
  BY <1>1, <1>2, PTL DEF Spec

(* However many frames are lost and however often a clock is corrected, every stored
   difference is that to the clock in the neighbour's last frame. *)
THEOREM DifferencesAlwaysTrue == Spec => []DifferencesTrue
<1>1. GtspInv => DifferencesTrue
  BY DEF GtspInv, Known, DifferencesTrue
<1> QED
  BY <1>1, GtspInvariant, PTL

-----------------------------------------------------------------------------
(* A node that has left the discovery, and trusts, had found the sender in step. *)
LEMMA TrustedInStep ==
  ASSUME GtspInv, NEW n \in Nodes, NEW m \in Nodes, NEW junk \in Int, my_state[n] = "CONSENSUS",
         InStep(Heard(n, m, junk).ns, m)
  PROVE  InStep(list[n], m)
<1>0. PICK i \in DOMAIN Heard(n, m, junk).ns : /\ Heard(n, m, junk).ns[i].addr = m
                                              /\ Heard(n, m, junk).ns[i].synced
  BY DEF InStep
<1>1. ~Updates(n, m)
  BY DEF Updates
<1>2. Heard(n, m, junk).ns = Measured(n, m)
  BY <1>1 DEF Heard
<1>3. i \in DOMAIN list[n] /\ Measured(n, m)[i].addr = m /\ Measured(n, m)[i].synced
  BY <1>0, <1>2 DEF Measured
<1>4. CASE list[n][i].addr = m
  <2>1. Measured(n, m)[i].synced = list[n][i].synced
    BY <1>3, <1>4 DEF Measured, Entry
  <2> QED
    BY <1>3, <1>4, <2>1 DEF InStep
<1>5. CASE list[n][i].addr # m
  BY <1>3, <1>5 DEF Measured
<1> QED
  BY <1>4, <1>5

(* A clock moves only when a frame of a known neighbour is taken. *)
LEMMA ClockSteps ==
  ASSUME GtspInv, [Next]_vars, NEW n \in Nodes
  PROVE  clock'[n] = clock[n] \/ Corrects(n) \/ Trusts(n)
<1>0. clock \in [Nodes -> [coarse : Int, fine : Int]] /\ \A w \in net.junk : w \in Int
  BY NetworksAssumption DEF GtspInv
<1>1. ASSUME NEW k \in Nodes, NEW m \in Nodes \ {k}, NEW junk \in net.junk, KnownNeighbour(k, m, junk)
      PROVE  clock'[n] = clock[n] \/ Corrects(n)
  <2> DEFINE r == Heard(k, m, junk)
  <2>1. /\ m \in DOMAIN heard[k] /\ Taken(k, m)
        /\ clock' = [clock EXCEPT ![k] = [coarse |-> clock[k].coarse - r.coarse,
                                          fine |-> clock[k].fine - r.fine]]
    BY <1>1, Zenon DEF KnownNeighbour
  <2>2. CASE k # n
    BY <1>0, <2>1, <2>2
  <2>3. CASE k = n /\ Updates(n, m)
    <3>1. r = gtsp_update_rtimer(Measured(n, m), my_state[n] = "DISCOVERY", junk)
      BY <2>3, Zenon DEF Heard
    <3>2. clock'[n] = [coarse |-> clock[n].coarse - r.coarse, fine |-> clock[n].fine - r.fine]
      BY <1>0, <2>1, <2>3
    <3>3. m \in Nodes \ {n} /\ junk \in net.junk /\ m \in DOMAIN heard[n] /\ Taken(n, m)
      BY <1>1, <2>1, <2>3, Zenon
    <3> HIDE DEF r
    <3>4. \E a \in Nodes \ {n}, j \in net.junk :
            LET q == gtsp_update_rtimer(Measured(n, a), my_state[n] = "DISCOVERY", j)
            IN  /\ a \in DOMAIN heard[n] /\ Taken(n, a)
                /\ clock'[n] = [coarse |-> clock[n].coarse - q.coarse, fine |-> clock[n].fine - q.fine]
      BY <3>1, <3>2, <3>3
    <3> QED
      BY <3>4 DEF Corrects
  <2>4. CASE k = n /\ ~Updates(n, m)
    <3>1. r.coarse = 0 /\ r.fine = 0
      BY <2>4 DEF Heard
    <3> HIDE DEF r
    <3>2. clock'[n] = [coarse |-> clock[n].coarse - 0, fine |-> clock[n].fine - 0]
      BY <1>0, <2>1, <2>4, <3>1
    <3> QED
      BY <1>0, <3>2
  <2> QED
    BY <2>2, <2>3, <2>4
<1>3. ASSUME NEW k \in Nodes, NEW m \in Nodes \ {k}, NEW junk \in net.junk, TrustedNeighbour(k, m, junk)
      PROVE  clock'[n] = clock[n] \/ Trusts(n)
  <2>1. /\ m \in DOMAIN heard[k] /\ Taken(k, m) /\ air[m].state = "CONSENSUS"
        /\ my_state[k] \in {"DISCOVERY", "CONSENSUS"}
    BY <1>3, Zenon DEF TrustedNeighbour
  <2>2. PICK d : /\ clock' = [clock EXCEPT ![k] = d]
                 /\ d.coarse = clock[k].coarse - Heard(k, m, junk).coarse
                 /\ d.fine = air[m].clock.fine
    <3>1. TakesOver(k, m, junk)
      BY <1>0, <1>3, TrustedTakesOver, Zenon
    <3> QED
      BY <3>1, Zenon DEF TakesOver
  <2>3. CASE k # n
    BY <1>0, <2>2, <2>3
  <2>4. CASE k = n
    <3>1. clock'[n] = d
      BY <1>0, <2>2, <2>4
    <3>2. d.coarse = clock[n].coarse \/ d.coarse = clock[n].coarse - CoarseOffset(Measured(n, m))
      <4>1. CASE Updates(n, m)
        <5>1. Heard(n, m, junk).coarse = CoarseOffset(Measured(n, m))
          BY <4>1, Zenon DEF Heard, gtsp_update_rtimer
        <5> QED
          BY <2>2, <2>4, <5>1
      <4>2. CASE ~Updates(n, m)
        <5>1. Heard(n, m, junk).coarse = 0
          BY <4>2 DEF Heard
        <5> QED
          BY <1>0, <2>2, <2>4, <5>1
      <4> QED
        BY <4>1, <4>2
    <3>3. my_state[n] # "DISCOVERY" => InStep(list[n], m)
      <4>1. InStep(Heard(n, m, junk).ns, m)
        BY <1>0, <1>3, <2>4, TrustedTakesOver, Zenon
      <4> QED
        BY <1>0, <2>1, <2>4, <4>1, TrustedInStep, Zenon
    <3> QED
      BY <2>1, <2>2, <2>4, <3>1, <3>2, <3>3, Zenon DEF Trusts
  <2> QED
    BY <2>3, <2>4
<1>2. ASSUME clock' = clock PROVE clock'[n] = clock[n] \/ Corrects(n)
  BY <1>2, Zenon
<1> QED
  BY <1>1, <1>2, <1>3, Zenon DEF Next, Send, NewNeighbour, NextPhase, vars

(* The list that gtsp_update_rtimer works on in such a step. *)
LEMMA CorrectsFrom ==
  ASSUME GtspInv, NEW n \in Nodes, Corrects(n)
  PROVE  \E m \in Nodes, junk \in Int :
           LET ns == Measured(n, m)
               c == CoarseOffset(ns)
               f == FineOffset(ns, my_state[n] = "DISCOVERY", junk)
           IN  /\ Taken(n, m) /\ m \in DOMAIN heard[n] /\ Known(ns, heard'[n], clock[n]) /\ c \in Int /\ f \in Int
               /\ clock'[n] = [coarse |-> clock[n].coarse - c, fine |-> clock[n].fine - f]
<1>1. PICK m \in Nodes \ {n}, junk \in net.junk :
        LET r == gtsp_update_rtimer(Measured(n, m), my_state[n] = "DISCOVERY", junk)
        IN  /\ m \in DOMAIN heard[n] /\ Taken(n, m)
            /\ clock'[n] = [coarse |-> clock[n].coarse - r.coarse, fine |-> clock[n].fine - r.fine]
  BY DEF Corrects
<1> DEFINE ns == Measured(n, m)
           c == CoarseOffset(ns)
           f == FineOffset(ns, my_state[n] = "DISCOVERY", junk)
           r == gtsp_update_rtimer(ns, my_state[n] = "DISCOVERY", junk)
<1>2. junk \in Int
  BY NetworksAssumption DEF GtspInv
<1>3. r.coarse = c /\ r.fine = f
  BY Zenon DEF gtsp_update_rtimer
<1>4. r.coarse \in Int /\ r.fine \in Int
  BY <1>1, <1>2, UpdateKnown, Zenon
<1>5. Known(ns, heard'[n], clock[n])
  BY <1>1, MeasuredKnown, Zenon
<1>6. clock'[n] = [coarse |-> clock[n].coarse - c, fine |-> clock[n].fine - f] /\ c \in Int /\ f \in Int
  BY <1>1, <1>3, <1>4, Zenon
<1> HIDE DEF ns, c, f, r
<1>7. /\ Taken(n, m) /\ m \in DOMAIN heard[n] /\ Known(ns, heard'[n], clock[n]) /\ c \in Int /\ f \in Int
      /\ clock'[n] = [coarse |-> clock[n].coarse - c, fine |-> clock[n].fine - f]
  BY <1>1, <1>5, <1>6
<1> QED
  BY <1>2, <1>7 DEF ns, c, f

(* Where a coarse count changes, it is by the vote on the list just measured. *)
LEMMA VotedFrom ==
  ASSUME GtspInv, [Next]_vars, NEW n \in Nodes, clock'[n].coarse # clock[n].coarse
  PROVE  \E m \in Nodes :
           LET ns == Measured(n, m)
           IN  /\ Known(ns, heard'[n], clock[n]) /\ CoarseOffset(ns) \in Int
               /\ clock'[n].coarse = clock[n].coarse - CoarseOffset(ns)
<1>1. CASE Corrects(n)
  <2>1. PICK m \in Nodes, junk \in Int :
          LET ns == Measured(n, m)
              c == CoarseOffset(ns)
              f == FineOffset(ns, my_state[n] = "DISCOVERY", junk)
          IN  /\ Taken(n, m) /\ m \in DOMAIN heard[n] /\ Known(ns, heard'[n], clock[n]) /\ c \in Int /\ f \in Int
              /\ clock'[n] = [coarse |-> clock[n].coarse - c, fine |-> clock[n].fine - f]
    BY <1>1, CorrectsFrom
  <2> QED
    BY <2>1
<1>2. CASE Trusts(n)
  <2>1. PICK m \in Nodes : /\ m \in DOMAIN heard[n] /\ Taken(n, m)
                           /\ clock'[n].coarse = clock[n].coarse - CoarseOffset(Measured(n, m))
    BY <1>2, Zenon DEF Trusts
  <2> DEFINE ns == Measured(n, m)
             c == CoarseOffset(ns)
  <2>2. Known(ns, heard'[n], clock[n])
    BY <2>1, MeasuredKnown
  <2>3. ns \in Seq(Entries(Nodes))
    BY <2>2 DEF Known
  <2> HIDE DEF ns
  <2>4. c = 0 \/ \E i \in DOMAIN ns : c = ns[i].coarse
    BY <2>3, VoteProperties
  <2> HIDE DEF c
  <2>5. c \in Int
    BY <2>3, <2>4, ListTypes
  <2> QED
    BY <2>1, <2>2, <2>5, Zenon DEF c, ns
<1> QED
  BY <1>1, <1>2, ClockSteps, Zenon

(* In every reachable step a node that changes its coarse count takes over the count
   that a neighbour reported. *)
THEOREM CountsAlwaysKnown == Spec => CountsKnown
<1> DEFINE Step == \A n \in Nodes : clock'[n].coarse # clock[n].coarse =>
                      \E m \in DOMAIN heard'[n] : clock'[n].coarse = heard'[n][m].clock.coarse
<1>1. GtspInv /\ [Next]_vars => Step
  <2> SUFFICES ASSUME GtspInv, [Next]_vars, NEW n \in Nodes, clock'[n].coarse # clock[n].coarse
               PROVE  \E m \in DOMAIN heard'[n] : clock'[n].coarse = heard'[n][m].clock.coarse
    OBVIOUS
  <2>2. PICK m \in Nodes :
          LET ns == Measured(n, m)
          IN  /\ Known(ns, heard'[n], clock[n]) /\ CoarseOffset(ns) \in Int
              /\ clock'[n].coarse = clock[n].coarse - CoarseOffset(ns)
    BY VotedFrom
  <2> DEFINE ns == Measured(n, m)
             c == CoarseOffset(ns)
  <2>3. Known(ns, heard'[n], clock[n]) /\ c \in Int /\ clock'[n].coarse = clock[n].coarse - c
    BY <2>2
  <2>4. clock[n].coarse \in Int
    BY DEF GtspInv
  <2> HIDE DEF ns
  <2>5. ns \in Seq(Entries(Nodes))
    BY <2>3 DEF Known
  <2>6. c # 0
    BY <2>3, <2>4
  <2>7. PICK i \in DOMAIN ns : c = ns[i].coarse
    BY <2>5, <2>6, VoteProperties
  <2> DEFINE a == ns[i].addr
  <2>8. a \in DOMAIN heard'[n] /\ c = clock[n].coarse - heard'[n][a].clock.coarse
        /\ heard'[n][a].clock.coarse \in Int
    BY <2>3, <2>7, Zenon DEF Known
  <2> HIDE DEF c, a
  <2>9. clock'[n].coarse = heard'[n][a].clock.coarse
    BY <2>3, <2>4, <2>8
  <2> QED
    BY <2>8, <2>9
<1> QED
  BY <1>1, GtspInvariant, PTL DEF Spec, CountsKnown

(* The entries whose difference has a property are as many as the nodes heard whose
   clock has it: the addresses name each node heard once. *)
LEMMA SameNumber ==
  ASSUME NEW l, NEW h, NEW c, Known(l, h, c), NEW S \in SUBSET DOMAIN l, NEW T \in SUBSET DOMAIN h,
         \A i \in DOMAIN l : i \in S <=> l[i].addr \in T
  PROVE  IsFiniteSet(S) /\ IsFiniteSet(T) /\ Cardinality(T) = Cardinality(S)
<1> DEFINE f == [i \in S |-> l[i].addr]
<1>1. IsFiniteSet(S)
  <2>1. l \in Seq(Entries(Nodes))
    BY DEF Known
  <2>2. Len(l) \in Nat /\ DOMAIN l = 1..Len(l)
    BY <2>1, ListTypes
  <2> QED
    BY <2>2, Positions
<1>2. f \in [S -> T] /\ \A i \in S : f[i] = l[i].addr
  OBVIOUS
<1>3. \A i, j \in S : f[i] = f[j] => i = j
  BY <1>2 DEF Known
<1>4. \A t \in T : \E i \in S : f[i] = t
  <2> TAKE t \in T
  <2>1. PICK i \in DOMAIN l : l[i].addr = t
    BY DEF Known
  <2>2. i \in S
    BY <2>1
  <2> QED
    BY <1>2, <2>1, <2>2
<1> HIDE DEF f
<1>5. f \in Bijection(S, T)
  BY <1>2, <1>3, <1>4 DEF Bijection, Injection, Surjection, IsInjective
<1>6. ExistsBijection(S, T)
  BY <1>5 DEF ExistsBijection
<1> QED
  BY <1>1, <1>6, FS_Bijection

(* A difference of 0 that more than half of the entries have is not outvoted. *)
LEMMA ZeroWins ==
  ASSUME NEW A, NEW ns \in Seq(Entries(A)),
         2 * Votes(ns, 0) > Cardinality(DOMAIN ns)
  PROVE  CoarseOffset(ns) = 0
<1> SUFFICES ASSUME CoarseOffset(ns) # 0 PROVE FALSE
  OBVIOUS
<1>1. Len(ns) \in Nat /\ DOMAIN ns = 1..Len(ns)
  BY ListTypes
<1>2. PICK i \in DOMAIN ns :
        /\ CoarseOffset(ns) = ns[i].coarse
        /\ \A j \in DOMAIN ns : Votes(ns, ns[j].coarse) <= Votes(ns, ns[i].coarse)
  BY VoteProperties
<1> DEFINE d == ns[i].coarse
           V == {j \in DOMAIN ns : ns[j].coarse = d}
           Z == {j \in DOMAIN ns : ns[j].coarse = 0}
<1>3. V \in SUBSET (1..Len(ns)) /\ Z \in SUBSET (1..Len(ns)) /\ V \cap Z = {} /\ V \cup Z \in SUBSET (1..Len(ns))
  BY <1>1, <1>2
<1>4. Votes(ns, d) = Cardinality(V) /\ Votes(ns, 0) = Cardinality(Z)
  BY DEF Votes
<1> HIDE DEF V, Z
<1>5. /\ IsFiniteSet(V) /\ IsFiniteSet(Z) /\ Cardinality(V) \in Nat /\ Cardinality(Z) \in Nat
      /\ IsFiniteSet(1..Len(ns)) /\ Cardinality(1..Len(ns)) = Len(ns)
  <2>1. 1 \in Int /\ Len(ns) \in Int /\ (1 > Len(ns) <=> Len(ns) = 0)
    BY <1>1
  <2>2. IsFiniteSet(1..Len(ns)) /\ Cardinality(1..Len(ns)) = IF 1 > Len(ns) THEN 0 ELSE Len(ns) - 1 + 1
    BY <2>1, FS_Interval
  <2>3. Cardinality(1..Len(ns)) = Len(ns)
    BY <1>1, <2>1, <2>2
  <2>4. IsFiniteSet(V) /\ IsFiniteSet(Z) /\ Cardinality(V) \in Nat /\ Cardinality(Z) \in Nat
    BY <1>1, <1>3, Positions
  <2> QED
    BY <2>2, <2>3, <2>4
<1>6. Cardinality(V \cup Z) = Cardinality(V) + Cardinality(Z)
  <2>1. Cardinality(V \cup Z) = Cardinality(V) + Cardinality(Z) - Cardinality(V \cap Z)
    BY <1>5, FS_Union
  <2>2. Cardinality(V \cap Z) = 0
    BY <1>3, FS_EmptySet
  <2> QED
    BY <1>5, <2>1, <2>2
<1>7. Cardinality(V \cup Z) <= Len(ns)
  BY <1>3, <1>5, FS_Subset
<1>8. 2 * Cardinality(Z) > Len(ns)
  BY <1>1, <1>4, <1>5
<1>9. Cardinality(V) < Cardinality(Z) /\ Cardinality(Z) # 0
  BY <1>1, <1>5, <1>6, <1>7, <1>8
<1>10. PICK j \in DOMAIN ns : ns[j].coarse = 0
  <2>1. Z # {}
    BY <1>9, FS_EmptySet
  <2> QED
    BY <2>1 DEF Z
<1>11. Cardinality(Z) <= Cardinality(V)
  BY <1>2, <1>4, <1>10
<1> QED
  BY <1>5, <1>9, <1>11

(* In every reachable step a node whose coarse count is that of more than half of the
   neighbours it has heard keeps it, whatever order the neighbours are listed in. *)
THEOREM MajorityAlwaysKept == Spec => MajorityKept
<1> DEFINE Agree(n) == {m \in DOMAIN heard'[n] : heard'[n][m].clock.coarse = clock[n].coarse}
           Step == \A n \in Nodes : 2 * Cardinality(Agree(n)) > Cardinality(DOMAIN heard'[n])
                                      => clock'[n].coarse = clock[n].coarse
<1>1. GtspInv /\ [Next]_vars => Step
  <2> SUFFICES ASSUME GtspInv, [Next]_vars, NEW n \in Nodes,
                      2 * Cardinality(Agree(n)) > Cardinality(DOMAIN heard'[n])
               PROVE  clock'[n].coarse = clock[n].coarse
    OBVIOUS
  <2>1. CASE clock'[n].coarse = clock[n].coarse
    BY <2>1
  <2>2. CASE clock'[n].coarse # clock[n].coarse
    <3>1. PICK m \in Nodes :
            LET ns == Measured(n, m)
            IN  /\ Known(ns, heard'[n], clock[n]) /\ CoarseOffset(ns) \in Int
                /\ clock'[n].coarse = clock[n].coarse - CoarseOffset(ns)
      BY <2>2, VotedFrom
    <3> DEFINE ns == Measured(n, m)
               g == heard'[n]
               Z == {i \in DOMAIN ns : ns[i].coarse = 0}
    <3>2. Known(ns, g, clock[n]) /\ clock'[n].coarse = clock[n].coarse - CoarseOffset(ns)
      BY <3>1
    <3>3. clock[n].coarse \in Int
      BY DEF GtspInv
    <3> HIDE DEF ns
    <3>4. \A i \in DOMAIN ns : i \in Z <=> ns[i].addr \in Agree(n)
      <4> TAKE i \in DOMAIN ns
      <4>1. /\ ns[i].addr \in DOMAIN g /\ g[ns[i].addr].clock.coarse \in Int
            /\ ns[i].coarse = clock[n].coarse - g[ns[i].addr].clock.coarse
        BY <3>2 DEF Known
      <4> QED
        BY <3>3, <4>1
    <3>5. \A i \in DOMAIN ns : i \in DOMAIN ns <=> ns[i].addr \in DOMAIN g
      BY <3>2 DEF Known
    <3>6. Z \in SUBSET DOMAIN ns /\ Agree(n) \in SUBSET DOMAIN g
      OBVIOUS
    <3> HIDE DEF Z, Agree, g
    <3>7. Cardinality(Agree(n)) = Cardinality(Z)
      BY <3>2, <3>4, <3>6, SameNumber
    <3>8. Cardinality(DOMAIN g) = Cardinality(DOMAIN ns)
      BY <3>2, <3>5, SameNumber
    <3>9. 2 * Votes(ns, 0) > Cardinality(DOMAIN ns)
      BY <3>7, <3>8 DEF Votes, Z, g
    <3>10. CoarseOffset(ns) = 0
      <4>1. ns \in Seq(Entries(Nodes))
        BY <3>2 DEF Known
      <4> QED
        BY <3>9, <4>1, ZeroWins
    <3> QED
      BY <3>2, <3>3, <3>10
  <2> QED
    BY <2>1, <2>2
<1> QED
  BY <1>1, GtspInvariant, PTL DEF Spec, MajorityKept

(* In every reachable step a clock that moves by the threshold or more is that of a node
   in the discovery, or that of a node in the consensus, which takes over the clock that a
   neighbour in the consensus, found in step before, has sent. *)
THEOREM AlwaysJumpsToTrusted == Spec => JumpsOnlyToTrusted
<1> DEFINE Trusted(n) ==
             /\ my_state[n] = "CONSENSUS"
             /\ \E i \in DOMAIN list[n] :
                  LET h == heard'[n][list[n][i].addr]
                  IN  list[n][i].synced /\ h.state = "CONSENSUS" /\ clock'[n].fine = h.clock.fine
           Step == \A n \in Nodes :
                     my_state[n] # "DISCOVERY" /\ ~Near(clock'[n].fine - clock[n].fine) => Trusted(n)
<1>1. GtspInv /\ [Next]_vars => Step
  <2> SUFFICES ASSUME GtspInv, [Next]_vars, NEW n \in Nodes, my_state[n] # "DISCOVERY"
               PROVE  Near(clock'[n].fine - clock[n].fine) \/ Trusted(n)
    OBVIOUS
  <2>0. clock[n].fine \in Int
    BY DEF GtspInv
  <2>1. CASE clock'[n] = clock[n]
    BY <2>0, <2>1, JumpAssumption DEF Near
  <2>2. CASE Corrects(n)
    <3>1. PICK m \in Nodes, junk \in Int :
            LET ns == Measured(n, m)
                c == CoarseOffset(ns)
                f == FineOffset(ns, my_state[n] = "DISCOVERY", junk)
            IN  /\ Taken(n, m) /\ m \in DOMAIN heard[n] /\ Known(ns, heard'[n], clock[n]) /\ c \in Int /\ f \in Int
                /\ clock'[n] = [coarse |-> clock[n].coarse - c, fine |-> clock[n].fine - f]
      BY <2>2, CorrectsFrom
    <3> DEFINE ns == Measured(n, m)
               discovery == my_state[n] = "DISCOVERY"
               f == FineOffset(ns, discovery, junk)
    <3>2. discovery \in BOOLEAN /\ ~discovery
      BY Zenon
    <3>3. Known(ns, heard'[n], clock[n]) /\ f \in Int /\ clock'[n].fine = clock[n].fine - f
      BY <3>1
    <3> HIDE DEF ns, discovery
    <3>4. Near(f)
      <4>1. ns \in Seq(Entries(Nodes))
        BY <3>3 DEF Known
      <4> QED
        BY <3>2, <4>1, FineIsNear, Zenon
    <3> HIDE DEF f
    <3> QED
      BY <2>0, <3>3, <3>4, JumpAssumption DEF Near
  <2>3. CASE Trusts(n)
    <3>1. PICK m \in Nodes, i \in DOMAIN list[n] :
            /\ Taken(n, m) /\ air[m].state = "CONSENSUS" /\ my_state[n] = "CONSENSUS"
            /\ clock'[n].fine = air[m].clock.fine /\ list[n][i].addr = m /\ list[n][i].synced
      BY <2>3, Zenon DEF Trusts, InStep
    <3>2. heard'[n][m].clock = air[m].clock /\ heard'[n][m].state = air[m].state
      BY <3>1, TakenReports, Zenon
    <3> QED
      BY <3>1, <3>2, Zenon
  <2> QED
    BY <2>1, <2>2, <2>3, ClockSteps
<1> QED
  BY <1>1, GtspInvariant, PTL DEF Spec, JumpsOnlyToTrusted

-----------------------------------------------------------------------------
(* Where the coarse counts agree no vote is called. *)
LEMMA NoVote ==
  ASSUME NEW A, NEW ns \in Seq(Entries(A)), \A i \in DOMAIN ns : ns[i].coarse = 0
  PROVE  Outvoted(ns) = {}
<1>1. Len(ns) \in Nat /\ DOMAIN ns = 1..Len(ns)
  BY ListTypes
<1> SUFFICES ASSUME NEW k \in DOMAIN ns PROVE ~(InPhase(ns, k, TRUE) < InPhase(ns, k, FALSE))
  BY DEF Outvoted
<1>2. {i \in 1..k : ns[i].here /\ (ns[i].coarse = 0) = FALSE} = {}
  BY <1>1
<1>3. InPhase(ns, k, FALSE) = 0
  BY <1>2, FS_EmptySet DEF InPhase
<1>4. InPhase(ns, k, TRUE) \in Nat
  <2>1. k \in Nat
    BY <1>1
  <2> QED
    BY <2>1, Positions DEF InPhase
<1> DEFINE t == InPhase(ns, k, TRUE)
           u == InPhase(ns, k, FALSE)
<1>5. t \in Nat /\ u = 0
  BY <1>3, <1>4
<1> HIDE DEF t, u
<1>6. ~(t < u)
  BY <1>5
<1> QED
  BY <1>6 DEF t, u

(* In every reachable step, where the coarse counts agree, the new clock of a node lies
   between two of the clocks that its own, the frames on the air and the reports show. *)
THEOREM ClocksNeverApart == Spec => NeverApart
<1> DEFINE Agreed(n) == \A m \in DOMAIN heard'[n] : heard'[n][m].clock.coarse = clock[n].coarse
           Within(n) == \E a, b \in AllClocks : a.fine <= clock'[n].fine /\ clock'[n].fine <= b.fine
           Step == \A n \in Nodes : Agreed(n) => Within(n)
<1>1. GtspInv /\ [Next]_vars => Step
  <2> SUFFICES ASSUME GtspInv, [Next]_vars, NEW n \in Nodes, Agreed(n)
               PROVE  Within(n)
    OBVIOUS
  <2>0. clock[n].fine \in Int /\ clock[n].coarse \in Int /\ clock[n] \in AllClocks
    BY DEF GtspInv, AllClocks
  <2>1. CASE clock'[n] = clock[n]
    BY <2>0, <2>1
  <2>2. CASE Corrects(n)
    <3>1. PICK m \in Nodes, junk \in Int :
            LET ns == Measured(n, m)
                c == CoarseOffset(ns)
                f == FineOffset(ns, my_state[n] = "DISCOVERY", junk)
            IN  /\ Taken(n, m) /\ m \in DOMAIN heard[n] /\ Known(ns, heard'[n], clock[n]) /\ c \in Int /\ f \in Int
                /\ clock'[n] = [coarse |-> clock[n].coarse - c, fine |-> clock[n].fine - f]
      BY <2>2, CorrectsFrom, Zenon
    <3> DEFINE ns == Measured(n, m)
               g == heard'[n]
               f == FineOffset(ns, my_state[n] = "DISCOVERY", junk)
               D == {0} \cup {ns[i].fine : i \in DOMAIN ns}
    <3>2. Known(ns, g, clock[n]) /\ f \in Int /\ clock'[n].fine = clock[n].fine - f
      BY <3>1
    <3>3. (my_state[n] = "DISCOVERY") \in BOOLEAN
      OBVIOUS
    <3>4. \A k \in DOMAIN g : g[k].clock \in AllClocks
      <4> TAKE k \in DOMAIN g
      <4>1. /\ DOMAIN g = DOMAIN heard[n] \cup {m} /\ g[m].clock = air[m].clock
            /\ \A p \in DOMAIN heard[n] \ {m} : g[p] = heard[n][p]
        BY <3>1, TakenReports, Zenon
      <4>2. CASE k = m
        <5>1. air[m].to # {}
          BY <3>1 DEF Taken
        <5> QED
          BY <4>1, <4>2, <5>1 DEF AllClocks
      <4>3. CASE k # m
        <5>1. k \in DOMAIN heard[n] /\ g[k] = heard[n][k]
          BY <4>1, <4>3
        <5> QED
          BY <5>1 DEF AllClocks
      <4> QED
        BY <4>2, <4>3
    <3> HIDE DEF ns
    <3>5. ns \in Seq(Entries(Nodes))
      BY <3>2, Zenon DEF Known
    <3>6. \A i \in DOMAIN ns :
            LET h == g[ns[i].addr].clock
            IN  /\ ns[i].addr \in DOMAIN g /\ h.coarse \in Int /\ h.fine \in Int
                /\ ns[i].coarse = clock[n].coarse - h.coarse /\ ns[i].fine = clock[n].fine - h.fine
      BY <3>2 DEF Known
    <3>7. Outvoted(ns) = {}
      <4>1. \A i \in DOMAIN ns : ns[i].coarse = 0
        BY <2>0, <3>6
      <4> QED
        BY <3>5, <4>1, NoVote
    <3>8. PICK lo \in D, hi \in D :
            /\ lo \in Int /\ hi \in Int /\ lo <= 0 /\ 0 <= hi
            /\ \A j \in DOMAIN ns : lo <= ns[j].fine /\ ns[j].fine <= hi
      BY <3>5, BoundsThere
    <3>9. lo <= f /\ f <= hi
      BY <3>3, <3>5, <3>7, <3>8, FineBetween
    <3>10. \A d \in D : \E a \in AllClocks : a.fine \in Int /\ a.fine = clock[n].fine - d
      <4> TAKE d \in D
      <4>1. CASE d = 0
        BY <2>0, <4>1
      <4>2. CASE d # 0
        <5>1. PICK i \in DOMAIN ns : d = ns[i].fine
          BY <4>2
        <5> DEFINE h == g[ns[i].addr].clock
        <5>2. h \in AllClocks /\ h.fine \in Int /\ d = clock[n].fine - h.fine
          BY <3>4, <3>6, <5>1
        <5> HIDE DEF h
        <5>3. h.fine = clock[n].fine - d
          BY <2>0, <5>2
        <5> QED
          BY <5>2, <5>3
      <4> QED
        BY <4>1, <4>2
    <3> HIDE DEF f, D
    <3>11. PICK a \in AllClocks : a.fine \in Int /\ a.fine = clock[n].fine - hi
      BY <3>8, <3>10
    <3>12. PICK b \in AllClocks : b.fine \in Int /\ b.fine = clock[n].fine - lo
      BY <3>8, <3>10
    <3>13. a.fine <= clock'[n].fine /\ clock'[n].fine <= b.fine
      BY <2>0, <3>2, <3>8, <3>9, <3>11, <3>12
    <3> QED
      BY <3>13, Zenon
  <2>3. CASE Trusts(n)
    <3>1. PICK m \in Nodes : Taken(n, m) /\ clock'[n].fine = air[m].clock.fine
      BY <2>3, Zenon DEF Trusts
    <3>2. air[m].to # {} /\ air[m].clock.fine \in Int
      BY <3>1 DEF Taken, GtspInv
    <3>3. air[m].clock \in AllClocks
      BY <3>2 DEF AllClocks
    <3> QED
      BY <3>1, <3>2, <3>3
  <2> QED
    BY <2>1, <2>2, <2>3, ClockSteps
<1> QED
  BY <1>1, GtspInvariant, PTL DEF Spec, NeverApart
=============================================================================
