--------------------------- MODULE CHBListsProofs ---------------------------
(***************************************************************************)
(* What the operations of CHBLists return, for lists of any length.        *)
(***************************************************************************)
EXTENDS CHBLists, SequenceTheorems, WellFoundedInduction, TLAPS

(* z is l with e inserted at p: e is at its place, the entries before it stay and
   those from there on move up by one. *)
Inserted(z, l, p, e) ==
  \A i \in 1..(Len(l) + 1) : z[i] = IF i < p THEN l[i] ELSE IF i = p THEN e ELSE l[i - 1]

(* list_push and list_insert put one entry at its place. *)
LEMMA InsertProperties ==
  ASSUME NEW S, NEW l \in Seq(S), NEW p \in 1..(Len(l) + 1), NEW e \in S
  PROVE  /\ InsertBefore(l, p, e) \in Seq(S)
         /\ Len(InsertBefore(l, p, e)) = Len(l) + 1
         /\ Inserted(InsertBefore(l, p, e), l, p, e)
<1> DEFINE a == SubSeq(l, 1, p - 1)
           b == SubSeq(l, p, Len(l))
           c == a \o <<e>>
<1>0. Len(l) \in Nat /\ p \in Nat /\ \A i \in 1..Len(l) : l[i] \in S
  BY ElementOfSeq, LenProperties
<1>1. /\ a \in Seq(S) /\ Len(a) = p - 1
      /\ \A i \in 1..(p - 1) : a[i] = l[i]
  <2>1. \A i \in 1..(p - 1) : l[i] \in S
    BY <1>0
  <2> QED
    BY <1>0, <2>1, SubSeqProperties
<1>2. /\ b \in Seq(S) /\ Len(b) = Len(l) + 1 - p
      /\ \A i \in 1..(Len(l) + 1 - p) : b[i] = l[p + i - 1]
  <2>1. \A i \in p..Len(l) : l[i] \in S
    BY <1>0
  <2>2. /\ b \in Seq(S) /\ Len(b) = IF p <= Len(l) THEN Len(l) - p + 1 ELSE 0
        /\ \A i \in 1..(Len(l) - p + 1) : b[i] = l[p + i - 1]
    BY <1>0, <2>1, SubSeqProperties
  <2>3. Len(l) - p + 1 = Len(l) + 1 - p
    BY <1>0
  <2> QED
    BY <1>0, <2>2, <2>3
<1>3. <<e>> \in Seq(S) /\ Len(<<e>>) = 1 /\ <<e>>[1] = e
  OBVIOUS
<1>4. /\ c \in Seq(S) /\ Len(c) = p
      /\ \A i \in 1..p : c[i] = IF i < p THEN l[i] ELSE e
  <2> HIDE DEF a
  <2>1. /\ c \in Seq(S) /\ Len(c) = Len(a) + Len(<<e>>)
        /\ \A i \in 1..(Len(a) + Len(<<e>>)) :
             c[i] = IF i <= Len(a) THEN a[i] ELSE <<e>>[i - Len(a)]
    BY <1>1, <1>3, ConcatProperties
  <2> HIDE DEF c
  <2>2. \A i \in 1..p : c[i] = IF i < p THEN l[i] ELSE e
    BY <2>1, <1>0, <1>1, <1>3
  <2> QED
    BY <2>1, <2>2, <1>0, <1>1, <1>3
<1> HIDE DEF a, b, c
<1>5. /\ c \o b \in Seq(S) /\ Len(c \o b) = Len(c) + Len(b)
      /\ \A i \in 1..(Len(c) + Len(b)) :
           (c \o b)[i] = IF i <= Len(c) THEN c[i] ELSE b[i - Len(c)]
  BY <1>2, <1>4, ConcatProperties
<1>6. InsertBefore(l, p, e) = c \o b
  BY DEF InsertBefore, a, b, c
<1>7. \A i \in 1..(Len(l) + 1) :
        (c \o b)[i] = IF i < p THEN l[i] ELSE IF i = p THEN e ELSE l[i - 1]
  <2> TAKE i \in 1..(Len(l) + 1)
  <2>1. (c \o b)[i] = IF i <= p THEN c[i] ELSE b[i - p]
    BY <1>0, <1>2, <1>4, <1>5
  <2>2. i > p => b[i - p] = l[p + (i - p) - 1] /\ p + (i - p) - 1 = i - 1
    BY <1>0, <1>2
  <2>3. i <= p => c[i] = IF i < p THEN l[i] ELSE e
    BY <1>0, <1>4
  <2> QED
    BY <1>0, <2>1, <2>2, <2>3
<1>8. Inserted(InsertBefore(l, p, e), l, p, e)
  BY <1>6, <1>7 DEF Inserted
<1> QED
  BY <1>0, <1>2, <1>4, <1>5, <1>6, <1>8

(* The list without its tail, as list_chop leaves it. *)
LEMMA ChopProperties ==
  ASSUME NEW S, NEW l \in Seq(S), Len(l) > 0
  PROVE  /\ SubSeq(l, 1, Len(l) - 1) \in Seq(S)
         /\ Len(SubSeq(l, 1, Len(l) - 1)) = Len(l) - 1
         /\ \A i \in 1..(Len(l) - 1) : SubSeq(l, 1, Len(l) - 1)[i] = l[i]
<1>0. Len(l) \in Nat /\ \A i \in 1..Len(l) : l[i] \in S
  BY ElementOfSeq, LenProperties
<1> DEFINE n == Len(l) - 1
<1>1. n \in Nat
  BY <1>0, Len(l) > 0
<1>2. \A i \in 1..n : l[i] \in S
  BY <1>0
<1> HIDE DEF n
<1>3. /\ SubSeq(l, 1, n) \in Seq(S)
      /\ Len(SubSeq(l, 1, n)) = IF 1 <= n THEN n - 1 + 1 ELSE 0
      /\ \A i \in 1..(n - 1 + 1) : SubSeq(l, 1, n)[i] = l[1 + i - 1]
  BY <1>1, <1>2, SubSeqProperties
<1>4. \A i \in 1..n : SubSeq(l, 1, n)[i] = l[i]
  BY <1>1, <1>3
<1>5. Len(SubSeq(l, 1, n)) = n
  BY <1>1, <1>3
<1> QED
  BY <1>3, <1>4, <1>5 DEF n

(* A set of natural numbers has a least element. *)
LEMMA NatMin ==
  ASSUME NEW T \in SUBSET Nat, T # {}
  PROVE  \E x \in T : \A y \in T : x <= y
<1> DEFINE R == OpToRel(<, Nat)
<1>1. IsWellFoundedOn(R, Nat)
  BY NatLessThanWellFounded, Zenon
<1>4. \A x, y \in Nat : <<y, x>> \in R <=> y < x
  BY Zenon DEF OpToRel
<1> HIDE DEF R
<1>2. \E x \in T : \A y \in T : ~ (<<y, x>> \in R)
  BY <1>1, WFMin, T # {}
<1>3. PICK x \in T : \A y \in T : ~ (<<y, x>> \in R)
  BY <1>2
<1>5. \A y \in T : y \in Nat /\ x \in Nat /\ ~(y < x)
  BY <1>3, <1>4
<1>6. \A y \in T : x <= y
  BY <1>5
<1> QED
  BY <1>6

(* The scan of handle_lists stops at the first entry that is the neighbour or
   that the neighbour outranks. *)
LEMMA ScanProperties ==
  ASSUME NEW S, NEW l \in Seq(S), NEW n
  PROVE  LET p == ScanPosition(l, n)
         IN  /\ p \in 1..(Len(l) + 1)
             /\ p <= Len(l) => l[p].addr = n.addr \/ Outranks(n, l[p])
             /\ \A i \in 1..(p - 1) : l[i].addr # n.addr /\ ~Outranks(n, l[i])
<1> DEFINE T == ScanStop(l, n)
           p == ScanPosition(l, n)
           Stops(i) == l[i].addr = n.addr \/ Outranks(n, l[i])
<1>0. Len(l) \in Nat
  BY LenProperties
<1>1. T = {i \in 1..Len(l) : Stops(i)}
  BY DEF ScanStop
<1> HIDE DEF Stops
<1>2. CASE T = {}
  <2>1. p = Len(l) + 1
    BY <1>2 DEF ScanPosition
  <2>2. \A i \in 1..Len(l) : ~Stops(i)
    BY <1>1, <1>2
  <2>3. p \in 1..(Len(l) + 1) /\ ~(p <= Len(l)) /\ \A i \in 1..(p - 1) : ~Stops(i)
    BY <1>0, <2>1, <2>2
  <2> QED
    BY <2>3 DEF Stops
<1>3. CASE T # {}
  <2>1. T \in SUBSET Nat
    BY <1>0, <1>1
  <2>2. \E i \in T : \A j \in T : i <= j
    BY <1>3, <2>1, NatMin
  <2>3. p = CHOOSE i \in T : \A j \in T : i <= j
    BY <1>3 DEF ScanPosition
  <2>4. p \in T /\ \A j \in T : p <= j
    BY <2>2, <2>3
  <2> HIDE DEF p, T
  <2>5. p \in 1..Len(l) /\ Stops(p)
    BY <1>1, <2>4
  <2>6. \A i \in 1..(p - 1) : ~Stops(i)
    BY <1>0, <1>1, <2>4, <2>5
  <2>7. p \in 1..(Len(l) + 1)
    BY <1>0, <2>5
  <2> QED
    BY <2>5, <2>6, <2>7 DEF Stops, p
<1> QED
  BY <1>2, <1>3

(* The three things handle_lists may do with a list within its limits: leave it,
   because the neighbour is listed, ranks below a full list or finds no block;
   insert the entry; replace the tail of a full list. *)
LEMMA ListAddCases ==
  ASSUME NEW S, NEW l \in Seq(S), NEW used \in Nat, NEW num \in Nat, NEW n, NEW e \in S,
         Len(l) <= NUM_CH_MAX, Len(l) <= used, used <= num
  PROVE  LET r == ListAdd(l, used, num, n, e)
             p == ScanPosition(l, n)
             k == SubSeq(l, 1, Len(l) - 1)
         IN  \/ /\ r.l = l /\ r.used = used
                /\ \/ p <= Len(l) /\ l[p].addr = n.addr
                   \/ Len(l) = NUM_CH_MAX /\ p = Len(l) + 1
                   \/ Len(l) < NUM_CH_MAX /\ used = num
             \/ /\ Len(l) < NUM_CH_MAX /\ used < num
                /\ p <= Len(l) => l[p].addr # n.addr
                /\ r.l = InsertBefore(l, p, e) /\ r.used = used + 1
             \/ /\ Len(l) = NUM_CH_MAX /\ p <= Len(l) /\ l[p].addr # n.addr
                /\ r.l = InsertBefore(k, p, e) /\ r.used = used
<1> DEFINE r == ListAdd(l, used, num, n, e)
           p == ScanPosition(l, n)
           k == SubSeq(l, 1, Len(l) - 1)
           known == p <= Len(l) /\ l[p].addr = n.addr
<1>0. Len(l) \in Nat /\ NUM_CH_MAX \in Nat \ {0} /\ Len(l) <= NUM_CH_MAX
      /\ Len(l) <= used /\ used <= num
  BY LenProperties, ListAssumption
<1>1. p \in 1..(Len(l) + 1)
  BY ScanProperties
<1>2. CASE l = <<>>
  <2>1. Len(l) = 0
    BY <1>2
  <2>2. p = 1
    BY <1>1, <2>1
  <2>3. InsertBefore(l, 1, e) = <<e>>
    <3>0. 1 \in 1..(Len(l) + 1) /\ Len(l) + 1 = 1
      BY <2>1
    <3> DEFINE z == InsertBefore(l, 1, e)
    <3>2. z \in Seq(S) /\ Len(z) = Len(l) + 1 /\ Inserted(z, l, 1, e)
      BY <3>0, InsertProperties
    <3> HIDE DEF z
    <3>3. z[1] = e
      BY <3>0, <3>2 DEF Inserted
    <3>4. Len(z) = 1
      BY <3>0, <3>2
    <3>1. z = <<e>>
      BY <3>2, <3>3, <3>4
    <3> QED
      BY <3>1 DEF z
  <2>4. r = IF used < num THEN [ret |-> 1, l |-> <<e>>, used |-> used + 1]
            ELSE [ret |-> 0, l |-> l, used |-> used]
    BY <1>2 DEF ListAdd
  <2> HIDE DEF p, r, k
  <2>5. CASE used < num
    BY <1>0, <2>1, <2>2, <2>3, <2>4, <2>5 DEF p, r
  <2>6. CASE ~(used < num)
    BY <1>0, <2>1, <2>2, <2>4, <2>6 DEF p, r
  <2> QED
    BY <2>5, <2>6
<1>3. CASE l # <<>> /\ known
  <2>1. r = [ret |-> 1, l |-> l, used |-> used]
    BY <1>3 DEF ListAdd
  <2> HIDE DEF r
  <2> QED
    BY <1>3, <2>1 DEF r
<1>4. CASE l # <<>> /\ ~known /\ Len(l) = NUM_CH_MAX /\ ~(p <= Len(l))
  <2>1. r = [ret |-> 1, l |-> l, used |-> used]
    BY <1>0, <1>4 DEF ListAdd
  <2>2. p = Len(l) + 1
    BY <1>0, <1>1, <1>4
  <2> HIDE DEF r
  <2> QED
    BY <1>4, <2>1, <2>2 DEF r
<1>5. CASE l # <<>> /\ ~known /\ Len(l) = NUM_CH_MAX /\ p <= Len(l)
  <2>1. Len(l) > 0 /\ used - 1 < num /\ used - 1 + 1 = used
    BY <1>0, <1>5
  <2>2. r = [ret |-> 1, l |-> InsertBefore(k, p, e), used |-> used - 1 + 1]
    BY <1>5, <2>1 DEF ListAdd
  <2> HIDE DEF r
  <2> QED
    BY <1>5, <2>1, <2>2 DEF r
<1>6. CASE l # <<>> /\ ~known /\ Len(l) # NUM_CH_MAX
  <2>1. ~(Len(l) >= NUM_CH_MAX) /\ Len(l) < NUM_CH_MAX
    BY <1>0, <1>6
  <2>2. r = IF used < num THEN [ret |-> 1, l |-> InsertBefore(l, p, e), used |-> used + 1]
            ELSE [ret |-> 1, l |-> l, used |-> used]
    BY <1>6, <2>1 DEF ListAdd
  <2> HIDE DEF r
  <2>3. CASE used < num
    BY <1>6, <2>1, <2>2, <2>3 DEF r
  <2>4. CASE ~(used < num)
    BY <1>0, <2>1, <2>2, <2>4 DEF r
  <2> QED
    BY <2>3, <2>4
<1> QED
  BY <1>2, <1>3, <1>4, <1>5, <1>6
=============================================================================
