---------------------------- MODULE EtimerProofs ----------------------------
(***************************************************************************)
(* What the functions of etimer.c do to the list of timers, for any width  *)
(* of the clock and any number of timers.  Dates wrap, so that the proofs  *)
(* work with congruences modulo W: the first part is about those, the      *)
(* second about loops and lists, the third about the functions, each of    *)
(* which keeps the list sound and next_expiration ahead.                   *)
(***************************************************************************)
EXTENDS EventTimers, WellFoundedInduction, TLAPS

(* Two dates that clock_time_t does not tell apart. *)
Cong(a, b) == \E q \in Int : a = b + q * W

(* Half of the clock's values lie ahead; what a timer may be late fits into them. *)
LEMMA Widths ==
  /\ W \in Nat /\ W > 1 /\ MAX_TICKS \in Nat /\ 2 * MAX_TICKS + 2 = W
  /\ MaxLate \in Nat /\ MaxLate <= MAX_TICKS
<1>1. W \in Nat /\ W > 1 /\ W % 2 = 0
  BY WAssumption
<1>2. (W - 1) \div 2 \in Nat /\ 2 * ((W - 1) \div 2) + 2 = W
  BY <1>1
<1> QED
  BY <1>1, <1>2, IntervalsAssumption DEF MAX_TICKS

(* A number and its remainder are congruent. *)
LEMMA ModCong ==
  ASSUME NEW a \in Int
  PROVE  a % W \in 0..W - 1 /\ Cong(a % W, a) /\ Cong(a, a % W)
<1>1. W \in Nat /\ W > 0
  BY Widths
<1>2. a % W \in 0..W - 1 /\ a \div W \in Int /\ a = W * (a \div W) + (a % W)
  BY <1>1
<1> DEFINE q == a \div W
           r == a % W
<1> HIDE DEF q, r
<1>3. r \in 0..W - 1 /\ q \in Int /\ a = W * q + r
  BY <1>2 DEF q, r
<1>4. a = r + q * W /\ r = a + (-q) * W /\ -q \in Int
  BY <1>1, <1>3
<1> QED
  BY <1>3, <1>4 DEF Cong, r

(* Congruences may be added and subtracted. *)
LEMMA CongSum ==
  ASSUME NEW a \in Int, NEW b \in Int, NEW c \in Int, NEW d \in Int, Cong(a, b), Cong(c, d)
  PROVE  Cong(a + c, b + d) /\ Cong(a - c, b - d)
<1>1. PICK q \in Int : a = b + q * W
  BY DEF Cong
<1>2. PICK r \in Int : c = d + r * W
  BY DEF Cong
<1>3. W \in Int
  BY Widths
<1>4. (q + r) * W = q * W + r * W /\ (q - r) * W = q * W - r * W /\ q * W \in Int /\ r * W \in Int
  BY <1>1, <1>2, <1>3
<1>5. a + c = (b + d) + (q + r) * W /\ a - c = (b - d) + (q - r) * W
  BY <1>1, <1>2, <1>4
<1>6. q + r \in Int /\ q - r \in Int
  OBVIOUS
<1> QED
  BY <1>5, <1>6 DEF Cong

(* Being congruent is an equivalence. *)
LEMMA CongEquivalence ==
  /\ \A a \in Int : Cong(a, a)
  /\ \A a, b \in Int : Cong(a, b) => Cong(b, a)
  /\ \A a, b, c \in Int : Cong(a, b) /\ Cong(b, c) => Cong(a, c)
<1>0. W \in Int
  BY Widths
<1>1. ASSUME NEW a \in Int PROVE Cong(a, a)
  <2>1. a = a + 0 * W
    BY <1>0
  <2> QED
    BY <2>1 DEF Cong
<1>2. ASSUME NEW a \in Int, NEW b \in Int, Cong(a, b) PROVE Cong(b, a)
  <2>1. Cong(b - b + b, a)
    <3>1. Cong(b, b) /\ Cong(a, a)
      BY <1>1
    <3>2. PICK q \in Int : a = b + q * W
      BY <1>2 DEF Cong
    <3>3. b = a + (-q) * W /\ -q \in Int
      BY <1>0, <3>2
    <3> QED
      BY <3>3 DEF Cong
  <2> QED
    BY <2>1
<1>3. ASSUME NEW a \in Int, NEW b \in Int, NEW c \in Int, Cong(a, b), Cong(b, c) PROVE Cong(a, c)
  <2>1. Cong(a + b, b + c)
    BY <1>3, CongSum
  <2>2. Cong((a + b) - b, (b + c) - b)
    BY <1>1, <2>1, CongSum
  <2>3. (a + b) - b = a /\ (b + c) - b = c
    OBVIOUS
  <2> QED
    BY <2>2, <2>3
<1> QED
  BY <1>1, <1>2, <1>3

(* Congruent numbers that are less than W apart are the same. *)
LEMMA CongSame ==
  ASSUME NEW a \in Int, NEW b \in Int, Cong(a, b), -W < a - b, a - b < W
  PROVE  a = b
<1>1. PICK q \in Int : a = b + q * W
  BY DEF Cong
<1>2. W \in Nat /\ W > 0
  BY Widths
<1>3. ~(q >= 1)
  <2>1. ASSUME q >= 1 PROVE FALSE
    <3>1. q * W >= 1 * W /\ q * W \in Int
      BY <1>2, <2>1
    <3> QED
      BY <1>1, <1>2, <3>1
  <2> QED
    BY <2>1
<1>4. ~(q <= -1)
  <2>1. ASSUME q <= -1 PROVE FALSE
    <3>1. q * W <= (-1) * W /\ q * W \in Int /\ (-1) * W = -W
      BY <1>2, <2>1
    <3> QED
      BY <1>1, <1>2, <3>1
  <2> QED
    BY <2>1
<1>5. q = 0
  BY <1>3, <1>4
<1> QED
  BY <1>1, <1>2, <1>5

(* The remainder is the congruent number between 0 and W - 1. *)
LEMMA ModIs ==
  ASSUME NEW a \in Int, NEW r \in 0..W - 1, Cong(a, r)
  PROVE  a % W = r
<1>1. W \in Nat /\ a % W \in 0..W - 1 /\ Cong(a % W, a) /\ r \in Int /\ a % W \in Int
  BY Widths, ModCong
<1>2. Cong(a % W, r)
  BY <1>1, CongEquivalence
<1> DEFINE m == a % W
<1> HIDE DEF m
<1>3. m \in 0..W - 1 /\ Cong(m, r) /\ -W < m - r /\ m - r < W
  BY <1>1, <1>2 DEF m
<1>4. m = r
  BY <1>1, <1>3, CongSame
<1> QED
  BY <1>4 DEF m

-----------------------------------------------------------------------------
(* Every set of naturals that is not empty has a least member. *)
LEMMA LeastNat ==
  ASSUME NEW T \in SUBSET Nat, T # {}
  PROVE  \E x \in T : \A y \in T : x <= y
<1> DEFINE R == OpToRel(<, Nat)
<1>1. IsWellFoundedOn(R, Nat)
  BY NatLessThanWellFounded, Zenon
<1>2. \A x, y \in Nat : <<y, x>> \in R <=> y < x
  BY Zenon DEF OpToRel
<1> HIDE DEF R
<1>3. PICK x \in T : \A y \in T : ~ (<<y, x>> \in R)
  BY <1>1, WFMin, T # {}
<1>4. \A y \in T : y \in Nat /\ x \in Nat /\ ~(y < x)
  BY <1>2, <1>3
<1> QED
  BY <1>4

(* g[k] is the state of a loop after its round k; round k takes state x to F[k][x]. *)
Rounds(g, n, a, F) == g = [k \in 0..n |-> IF k = 0 THEN a ELSE F[k][g[k - 1]]]

(* The states of a loop exist, and lie where its rounds keep them. *)
LEMMA LoopExists ==
  ASSUME NEW n \in Nat, NEW X, NEW a \in X, NEW F, \A k \in 1..n : F[k] \in [X -> X]
  PROVE  \E g : Rounds(g, n, a, F) /\ g \in [0..n -> X]
<1> DEFINE Good(m) == \E g : Rounds(g, m, a, F) /\ g \in [0..m -> X]
           T == {m \in 0..n : ~Good(m)}
<1>1. T = {}
  <2>1. ASSUME T # {} PROVE FALSE
    <3>1. T \in SUBSET Nat
      OBVIOUS
    <3>2. PICK m \in T : \A y \in T : m <= y
      BY <2>1, <3>1, LeastNat
    <3>3. m # 0
      <4>1. Rounds([k \in 0..0 |-> a], 0, a, F) /\ [k \in 0..0 |-> a] \in [0..0 -> X]
        BY DEF Rounds
      <4> QED
        BY <3>2, <4>1
    <3>4. m \in 1..n /\ m - 1 \in 0..n /\ ~(m <= m - 1)
      BY <3>2, <3>3
    <3>5. m - 1 \notin T
      BY <3>2, <3>4
    <3>6. Good(m - 1)
      BY <3>4, <3>5
    <3>7. PICK g : Rounds(g, m - 1, a, F) /\ g \in [0..(m - 1) -> X]
      BY <3>6, Zenon
    <3> DEFINE h == [k \in 0..m |-> IF k = m THEN F[m][g[m - 1]] ELSE g[k]]
    <3>8. \A k \in 0..m : h[k] \in X /\ h[k] = IF k = 0 THEN a ELSE F[k][h[k - 1]]
      <4> SUFFICES ASSUME NEW k \in 0..m
                   PROVE  h[k] \in X /\ h[k] = IF k = 0 THEN a ELSE F[k][h[k - 1]]
        OBVIOUS
      <4>1. m - 1 \in 0..m /\ m - 1 # m /\ m - 1 \in 0..(m - 1)
        BY <3>4
      <4>2. CASE k = m
        <5>1. h[k] = F[m][g[m - 1]] /\ h[k - 1] = g[m - 1] /\ g[m - 1] \in X /\ k # 0
          BY <3>3, <3>7, <4>1, <4>2
        <5>2. F[m] \in [X -> X]
          BY <3>4
        <5> QED
          BY <4>2, <5>1, <5>2
      <4>3. CASE k # m
        <5>1. k \in 0..(m - 1) /\ (k # 0 => k - 1 \in 0..m /\ k - 1 # m)
          BY <3>4, <4>3
        <5>2. g[k] \in X /\ g[k] = IF k = 0 THEN a ELSE F[k][g[k - 1]]
          BY <3>7, <5>1 DEF Rounds
        <5> QED
          BY <4>3, <5>1, <5>2
      <4> QED
        BY <4>2, <4>3, Zenon
    <3>9. h = [k \in 0..m |-> IF k = 0 THEN a ELSE F[k][h[k - 1]]] /\ h \in [0..m -> X]
      BY <3>8
    <3>10. Good(m)
      BY <3>9 DEF Rounds
    <3> QED
      BY <3>2, <3>10
  <2> QED
    BY <2>1
<1> QED
  BY <1>1

(* What holds at the start of a loop of n rounds and is kept by every round holds at the
   end: G are the rounds after which it holds. *)
LEMMA LoopInduction ==
  ASSUME NEW n \in Nat, NEW G, 0 \in G, \A k \in 1..n : k - 1 \in G => k \in G
  PROVE  \A k \in 0..n : k \in G
<1> DEFINE T == (0..n) \ G
<1>1. ASSUME T # {} PROVE FALSE
  <2>1. T \in SUBSET Nat
    OBVIOUS
  <2>2. PICK m \in T : \A y \in T : m <= y
    BY <1>1, <2>1, LeastNat
  <2>3. m \in 1..n /\ m - 1 \in 0..n /\ ~(m <= m - 1)
    BY <2>2
  <2>4. m - 1 \notin T
    BY <2>2, <2>3
  <2> QED
    BY <2>2, <2>3, <2>4
<1> QED
  BY <1>1

-----------------------------------------------------------------------------
(* What list g holds once the first k entries of s have been gone through. *)
KeptUpTo(g, s, S, k) ==
  /\ Range(g) = {s[i] : i \in 1..k} \ S
  /\ IsInjective(s) => IsInjective(g)

(* One more round of the loop of Drop. *)
LEMMA AppendKept ==
  ASSUME NEW T, NEW s \in Seq(T), NEW S, NEW k \in 1..Len(s), NEW g \in Seq(T), KeptUpTo(g, s, S, k - 1)
  PROVE  KeptUpTo(IF s[k] \in S THEN g ELSE Append(g, s[k]), s, S, k)
<1>0. /\ k \in Nat /\ Len(s) \in Nat /\ DOMAIN s = 1..Len(s) /\ DOMAIN g = 1..Len(g) /\ Len(g) \in Nat
      /\ s[k] \in T
  OBVIOUS
<1>1. {s[i] : i \in 1..k} = {s[i] : i \in 1..(k - 1)} \cup {s[k]}
  <2>1. 1..k = (1..(k - 1)) \cup {k}
    BY <1>0
  <2> QED
    BY <2>1
<1>2. CASE s[k] \in S
  BY <1>1, <1>2 DEF KeptUpTo
<1>3. CASE s[k] \notin S
  <2> DEFINE h == Append(g, s[k])
  <2>1. /\ DOMAIN h = 1..Len(g) + 1 /\ h[Len(g) + 1] = s[k]
        /\ \A i \in 1..Len(g) : h[i] = g[i]
    BY <1>0
  <2> HIDE DEF h
  <2>2. \A i \in DOMAIN h : i \in DOMAIN g \/ i = Len(g) + 1
    BY <1>0, <2>1
  <2>3. Range(h) = Range(g) \cup {s[k]}
    <3>1. \A v \in Range(h) : v \in Range(g) \cup {s[k]}
      BY <1>0, <2>1, <2>2 DEF Range
    <3>2. \A v \in Range(g) : v \in Range(h)
      BY <1>0, <2>1 DEF Range
    <3>3. s[k] \in Range(h)
      BY <1>0, <2>1 DEF Range
    <3> QED
      BY <3>1, <3>2, <3>3
  <2>4. Range(h) = {s[i] : i \in 1..k} \ S
    BY <1>1, <1>3, <2>3 DEF KeptUpTo
  <2>5. ASSUME IsInjective(s) PROVE IsInjective(h)
    <3>1. IsInjective(g)
      BY <2>5 DEF KeptUpTo
    <3>2. \A i \in DOMAIN g : g[i] # s[k]
      <4> SUFFICES ASSUME NEW i \in DOMAIN g PROVE g[i] # s[k]
        OBVIOUS
      <4>1. g[i] \in {s[j] : j \in 1..(k - 1)}
        BY DEF KeptUpTo, Range
      <4>2. PICK j \in 1..(k - 1) : g[i] = s[j]
        BY <4>1
      <4>3. j \in DOMAIN s /\ k \in DOMAIN s /\ j # k
        BY <1>0
      <4> QED
        BY <2>5, <4>2, <4>3 DEF IsInjective
    <3> QED
      BY <1>0, <2>1, <2>2, <3>1, <3>2 DEF IsInjective
  <2> QED
    BY <1>3, <2>4, <2>5 DEF KeptUpTo, h
<1> QED
  BY <1>2, <1>3

(* Drop takes the members of S out of a list, and only them, and repeats no entry. *)
LEMMA DropProperties ==
  ASSUME NEW T, NEW s \in Seq(T), NEW S
  PROVE  /\ Drop(s, S) \in Seq(T) /\ Range(Drop(s, S)) = Range(s) \ S
         /\ IsInjective(s) => IsInjective(Drop(s, S))
<1> DEFINE n == Len(s)
           F == [k \in 1..n |-> [g \in Seq(T) |-> IF s[k] \in S THEN g ELSE Append(g, s[k])]]
           Keeps(g) == g = [i \in 0..Len(s) |->
                              IF i = 0 THEN <<>> ELSE IF s[i] \in S THEN g[i - 1] ELSE Append(g[i - 1], s[i])]
<1>1. n \in Nat /\ <<>> \in Seq(T) /\ DOMAIN s = 1..n /\ \A k \in 1..n : s[k] \in T
  OBVIOUS
<1>2. \A k \in 1..n : F[k] \in [Seq(T) -> Seq(T)]
  BY <1>1
<1>3. \A k \in 1..n : \A g \in Seq(T) : F[k][g] = IF s[k] \in S THEN g ELSE Append(g, s[k])
  OBVIOUS
<1> HIDE DEF F
<1>4. PICK g : Rounds(g, n, <<>>, F) /\ g \in [0..n -> Seq(T)]
  BY <1>1, <1>2, LoopExists
<1>5. Keeps(g)
  <2>1. \A i \in 0..n : g[i] = IF i = 0 THEN <<>> ELSE IF s[i] \in S THEN g[i - 1] ELSE Append(g[i - 1], s[i])
    <3> SUFFICES ASSUME NEW i \in 0..n
                 PROVE  g[i] = IF i = 0 THEN <<>> ELSE IF s[i] \in S THEN g[i - 1] ELSE Append(g[i - 1], s[i])
      OBVIOUS
    <3>1. g[i] = IF i = 0 THEN <<>> ELSE F[i][g[i - 1]]
      BY <1>4 DEF Rounds
    <3>2. i # 0 => i \in 1..n /\ i - 1 \in 0..n
      BY <1>1
    <3>3. i # 0 => g[i - 1] \in Seq(T)
      BY <1>4, <3>2
    <3> QED
      BY <1>3, <3>1, <3>2, <3>3
  <2> QED
    BY <1>4, <2>1
<1> DEFINE kept == CHOOSE h : Keeps(h)
<1>6. Keeps(kept)
  BY <1>5, Zenon
<1>7. Drop(s, S) = kept[Len(s)]
  BY DEF Drop
<1> HIDE DEF kept
<1>8. /\ kept[0] = <<>>
      /\ \A k \in 1..n : kept[k] = IF s[k] \in S THEN kept[k - 1] ELSE Append(kept[k - 1], s[k])
  <2>1. 0 \in 0..n /\ \A k \in 1..n : k \in 0..n /\ k # 0
    BY <1>1
  <2> QED
    BY <1>6, <2>1
<1> DEFINE G == {k \in 0..n : kept[k] \in Seq(T) /\ KeptUpTo(kept[k], s, S, k)}
<1>9. 0 \in G
  <2>1. Range(<<>>) = {} /\ IsInjective(<<>>)
    BY DEF Range, IsInjective
  <2>2. {s[i] : i \in 1..0} \ S = {}
    OBVIOUS
  <2>3. KeptUpTo(<<>>, s, S, 0)
    BY <2>1, <2>2 DEF KeptUpTo
  <2>4. kept[0] = <<>> /\ 0 \in 0..n
    BY <1>1, <1>8
  <2>5. KeptUpTo(kept[0], s, S, 0)
    BY <2>3, <2>4, Zenon
  <2>6. kept[0] \in Seq(T)
    BY <1>1, <2>4
  <2> QED
    BY <2>4, <2>5, <2>6
<1>10. ASSUME NEW k \in 1..n, k - 1 \in G PROVE k \in G
  <2>1. k - 1 \in 0..n /\ k \in 0..n
    BY <1>1
  <2>2. kept[k - 1] \in Seq(T) /\ KeptUpTo(kept[k - 1], s, S, k - 1)
    BY <1>10, <2>1
  <2>3. KeptUpTo(IF s[k] \in S THEN kept[k - 1] ELSE Append(kept[k - 1], s[k]), s, S, k)
    BY <2>2, AppendKept
  <2>5. kept[k] = IF s[k] \in S THEN kept[k - 1] ELSE Append(kept[k - 1], s[k])
    BY <1>8
  <2>6. kept[k] \in Seq(T)
    BY <1>1, <2>2, <2>5
  <2>4. KeptUpTo(kept[k], s, S, k) /\ kept[k] \in Seq(T)
    BY <2>3, <2>5, <2>6
  <2> QED
    BY <2>1, <2>4
<1>11. n \in G
  <2> HIDE DEF G
  <2>1. \A k \in 0..n : k \in G
    BY <1>1, <1>9, <1>10, LoopInduction
  <2> QED
    BY <1>1, <2>1
<1>12. kept[n] \in Seq(T) /\ KeptUpTo(kept[n], s, S, n)
  BY <1>1, <1>11
<1> QED
  BY <1>1, <1>7, <1>12 DEF KeptUpTo, Range

-----------------------------------------------------------------------------
(* The record r of a timer that is due in l ticks. *)
Timed(r, l, n) ==
  Cong(r.start + r.interval - n, l) /\ l <= MAX_TICKS - MaxLate /\ l <= r.interval + 1

(* struct etimer: intervals longer than MAX_TICKS - MaxLate would look expired at once. *)
TimerRecords == [start : 0..W - 1, interval : 0..MAX_TICKS - MaxLate, p : Procs \cup {PROCESS_NONE}]

(* The variables of etimer.c *)
EtimerStates ==
  [list : Seq(Timers), next : 0..W - 1, poll : BOOLEAN, t : [Timers -> TimerRecords]]

(* A state e of etimer.c when the clock shows n and timer x is due in lf[x] ticks: a timer
   that is listed belongs to its process and is not long overdue, and the records of the
   timers that are not long overdue tell when they are due. *)
Sound(e, lf, n) ==
  /\ e \in EtimerStates /\ IsInjective(e.list)
  /\ \A x \in Timers : e.t[x].p \in {Owner[x], PROCESS_NONE}
  /\ \A x \in Range(e.list) : e.t[x].p = Owner[x] /\ lf[x] >= -MaxLate
  /\ \A x \in Timers : lf[x] >= -MaxLate => Timed(e.t[x], lf[x], n)

(* Of every listed timer that is due there is a poll to come, and of every other one
   next_expiration is not behind, nor so far ahead that it looks past. *)
Ahead(e, lf, n) ==
  \A x \in Range(e.list) :
    /\ lf[x] <= 0 => e.poll
    /\ lf[x] > 0 => \E s \in lf[x] - (MAX_TICKS - MaxLate)..lf[x] : Cong(e.next - n, s)

(* An entry of the kernel's event queue *)
EventRecords == [to : Procs, timer : Timers \cup {"other"}]

-----------------------------------------------------------------------------
(* What the functions of etimer.c do to a sound state *)

(* The fields of a timer's record *)
LEMMA RecordTypes ==
  ASSUME NEW r \in TimerRecords
  PROVE  /\ r.start \in 0..W - 1 /\ r.start \in Int /\ r.p \in Procs \cup {PROCESS_NONE}
         /\ r.interval \in 0..MAX_TICKS - MaxLate /\ r.interval \in Int
BY Widths DEF TimerRecords

(* Half a turn of the clock is enough: a timer that is not long overdue has expired, for
   timer_expired, exactly when it is due. *)
LEMMA ExpiredIsDue ==
  ASSUME NEW r \in TimerRecords, NEW n \in 0..W - 1, NEW l \in Int, l >= -MaxLate, Timed(r, l, n)
  PROVE  Expired(r, n) <=> l <= 0
<1> DEFINE a == r.start
           i == r.interval
<1>1. a \in Int /\ i \in 0..MAX_TICKS - MaxLate /\ n \in Int /\ W \in Nat
  BY RecordTypes, Widths
<1>2. Cong(a + i - n, l) /\ l <= MAX_TICKS - MaxLate /\ l <= i + 1
  BY DEF Timed
<1> HIDE DEF a, i
<1>3. i \in Int /\ Cong(i + 1, i + 1)
  BY <1>1, CongEquivalence, Widths
<1>4. Cong((i + 1) - (a + i - n), (i + 1) - l)
  BY <1>1, <1>2, <1>3, CongSum
<1>5. (i + 1) - (a + i - n) = n - a + 1 /\ (i + 1) - l \in 0..W - 1
  BY <1>1, <1>2, <1>3, Widths
<1>6. (n - a + 1) % W = (i + 1) - l
  BY <1>1, <1>4, <1>5, ModIs
<1>7. Expired(r, n) <=> i < (i + 1) - l
  BY <1>6 DEF Expired, a, i
<1> QED
  BY <1>3, <1>7

(* The distance to a date that is ahead is the time until then. *)
LEMMA DistanceIsTime ==
  ASSUME NEW r \in TimerRecords, NEW n \in 0..W - 1
  PROVE  /\ Distance(r, n) \in 0..W - 1
         /\ \A l \in Int : l >= 0 /\ Timed(r, l, n) => Distance(r, n) = l
<1> DEFINE d == r.start + r.interval - n
<1>1. d \in Int
  BY RecordTypes, Widths
<1>2. d % W \in 0..W - 1
  BY <1>1, ModCong
<1>3. ASSUME NEW l \in Int, l >= 0, Timed(r, l, n) PROVE d % W = l
  <2>1. Cong(d, l) /\ l \in 0..W - 1
    BY <1>3, Widths DEF Timed
  <2> QED
    BY <1>1, <2>1, ModIs
<1> QED
  BY <1>2, <1>3 DEF Distance

(* The entries of a list. *)
LEMMA ListedTimers ==
  ASSUME NEW T, NEW s \in Seq(T)
  PROVE  Range(s) \subseteq T /\ (s = <<>> <=> Range(s) = {})
<1>1. DOMAIN s = 1..Len(s) /\ Len(s) \in Nat /\ \A i \in 1..Len(s) : s[i] \in T
  OBVIOUS
<1>2. s # <<>> => 1 \in 1..Len(s)
  OBVIOUS
<1>3. s = <<>> => 1..Len(s) = {}
  OBVIOUS
<1> QED
  BY <1>1, <1>2, <1>3 DEF Range

(* update_time only sets next_expiration, and sets it right. *)
LEMMA UpdateTime ==
  ASSUME NEW lf \in [Timers -> Int], NEW n \in 0..W - 1, NEW e, Sound(e, lf, n),
         \A x \in Range(e.list) : lf[x] <= 0 => e.poll
  PROVE  /\ Sound(update_time(e, n), lf, n) /\ Ahead(update_time(e, n), lf, n)
         /\ update_time(e, n).list = e.list /\ update_time(e, n).poll = e.poll
         /\ update_time(e, n).t = e.t
<1>1. e \in EtimerStates /\ n \in Int /\ 0 \in 0..W - 1 /\ W \in Nat
  BY Widths DEF Sound
<1>2. e.list \in Seq(Timers) /\ e.t \in [Timers -> TimerRecords] /\ e.poll \in BOOLEAN
  BY <1>1 DEF EtimerStates
<1>3. Range(e.list) \subseteq Timers /\ (e.list = <<>> <=> Range(e.list) = {})
  BY <1>2, ListedTimers
<1> DEFINE D == {Distance(e.t[x], n) : x \in Range(e.list)}
           Least(d) == \A x \in Range(e.list) : d <= Distance(e.t[x], n)
           tdist == CHOOSE d \in D : Least(d)
           v == IF e.list = <<>> THEN 0 ELSE (n + tdist) % W
           u == update_time(e, n)
<1>4. \A x \in Range(e.list) : e.t[x] \in TimerRecords /\ Distance(e.t[x], n) \in 0..W - 1
  BY <1>2, <1>3, DistanceIsTime
<1>5. e.list # <<>> => tdist \in 0..W - 1 /\ Least(tdist)
  <2> SUFFICES ASSUME e.list # <<>> PROVE tdist \in 0..W - 1 /\ Least(tdist)
    OBVIOUS
  <2>1. D \in SUBSET (0..W - 1)
    BY <1>4
  <2>2. D # {}
    BY <1>3
  <2>3. D \in SUBSET Nat
    BY <1>1, <2>1
  <2> HIDE DEF D
  <2>4. PICK d \in D : \A y \in D : d <= y
    BY <2>2, <2>3, LeastNat
  <2>5. Least(d)
    BY <2>4 DEF D
  <2>6. tdist \in D /\ Least(tdist)
    BY <2>4, <2>5
  <2> QED
    BY <2>1, <2>6
<1>6. u = [e EXCEPT !.next = v]
  BY DEF update_time
<1>7. v \in 0..W - 1 /\ (e.list # <<>> => Cong(v - n, tdist))
  <2>1. CASE e.list = <<>>
    BY <1>1, <2>1
  <2>2. CASE e.list # <<>>
    <3> HIDE DEF tdist
    <3>1. n + tdist \in Int /\ tdist \in Int
      BY <1>1, <1>5, <2>2
    <3>2. v \in 0..W - 1 /\ Cong(v, n + tdist) /\ Cong(n, n)
      BY <1>1, <2>2, <3>1, ModCong, CongEquivalence
    <3> HIDE DEF v
    <3>3. Cong(v - n, (n + tdist) - n)
      BY <1>1, <3>1, <3>2, CongSum
    <3>4. (n + tdist) - n = tdist
      BY <1>1, <3>1
    <3> QED
      BY <3>2, <3>3, <3>4
  <2> QED
    BY <2>1, <2>2
<1> HIDE DEF u, v
<1>8. u \in EtimerStates /\ u.list = e.list /\ u.poll = e.poll /\ u.t = e.t /\ u.next = v
  BY <1>1, <1>6, <1>7 DEF EtimerStates
<1>9. Sound(u, lf, n)
  BY <1>8 DEF Sound
<1>10. Ahead(u, lf, n)
  <2> SUFFICES ASSUME NEW x \in Range(e.list), lf[x] > 0
               PROVE  \E s \in lf[x] - (MAX_TICKS - MaxLate)..lf[x] : Cong(v - n, s)
    BY <1>8 DEF Ahead
  <2>1. x \in Timers /\ lf[x] \in Int /\ e.list # <<>>
    BY <1>3
  <2>2. Timed(e.t[x], lf[x], n)
    BY <2>1, Widths DEF Sound
  <2>3. Distance(e.t[x], n) = lf[x] /\ lf[x] <= MAX_TICKS - MaxLate
    BY <1>4, <2>1, <2>2, DistanceIsTime DEF Timed
  <2> HIDE DEF tdist
  <2>4. tdist \in 0..W - 1 /\ tdist <= lf[x]
    BY <1>5, <2>1, <2>3
  <2>5. tdist \in lf[x] - (MAX_TICKS - MaxLate)..lf[x]
    BY <2>1, <2>3, <2>4, Widths
  <2> QED
    BY <1>7, <2>1, <2>5
<1> QED
  BY <1>8, <1>9, <1>10 DEF u

(* State e1 is e but for the start and the interval of x. *)
Differs(e1, e, x) ==
  /\ e1 \in EtimerStates /\ e1.list = e.list /\ e1.poll = e.poll /\ e1.next = e.next
  /\ e1.t[x].p = e.t[x].p /\ \A y \in Timers \ {x} : e1.t[y] = e.t[y]

(* State a is e after x has been started, to be due in l ticks. *)
Starts(a, e, x, lf, l, n) ==
  /\ Sound(a, [lf EXCEPT ![x] = l], n) /\ Ahead(a, [lf EXCEPT ![x] = l], n)
  /\ Range(a.list) = Range(e.list) \cup {x}
  /\ \A y \in Timers : a.t[y].interval = IF y = x THEN a.t[x].interval ELSE e.t[y].interval

(* timer_set of etimer_set, and of ctimer_set *)
Timing(e, x, i, a) == [e EXCEPT !.t[x].interval = i, !.t[x].start = a]

(* timer_set touches the start and the interval of its timer only. *)
LEMMA DiffersIn ==
  ASSUME NEW e \in EtimerStates, NEW x \in Timers, NEW a \in 0..W - 1, NEW i \in 0..MAX_TICKS - MaxLate
  PROVE  Differs(Timing(e, x, i, a), e, x) /\ Timing(e, x, i, a).t[x].start = a
         /\ Timing(e, x, i, a).t[x].interval = i
<1> DEFINE e1 == Timing(e, x, i, a)
           r == [e.t[x] EXCEPT !.interval = i, !.start = a]
           t1 == [e.t EXCEPT ![x] = r]
<1>1. e.t \in [Timers -> TimerRecords] /\ e.t[x] \in TimerRecords
  BY DEF EtimerStates
<1>2. r \in TimerRecords /\ r.start = a /\ r.interval = i /\ r.p = e.t[x].p
  BY <1>1 DEF TimerRecords
<1>3. e1 = [e EXCEPT !.t = t1]
  BY <1>1 DEF EtimerStates, Timing
<1> HIDE DEF r
<1>4. t1 \in [Timers -> TimerRecords] /\ t1[x] = r /\ \A y \in Timers \ {x} : t1[y] = e.t[y]
  BY <1>1, <1>2
<1> HIDE DEF t1, e1
<1>5. /\ e1 \in EtimerStates /\ e1.t = t1 /\ e1.list = e.list /\ e1.poll = e.poll
      /\ e1.next = e.next
  BY <1>3, <1>4 DEF EtimerStates
<1> QED
  BY <1>2, <1>4, <1>5 DEF Differs, e1

(* list_push, and add_timer's insertion at the head of timerlist *)
LEMMA PutFirst ==
  ASSUME NEW T, NEW s \in Seq(T), NEW x \in T
  PROVE  /\ <<x>> \o s \in Seq(T) /\ Range(<<x>> \o s) = Range(s) \cup {x}
         /\ IsInjective(s) /\ x \notin Range(s) => IsInjective(<<x>> \o s)
<1> DEFINE h == <<x>> \o s
<1>1. /\ h \in Seq(T) /\ Len(s) \in Nat /\ DOMAIN s = 1..Len(s) /\ DOMAIN h = 1..Len(s) + 1 /\ h[1] = x
      /\ \A i \in 1..Len(s) : h[i + 1] = s[i]
  OBVIOUS
<1> HIDE DEF h
<1>2. \A i \in DOMAIN h : i = 1 \/ (i - 1 \in DOMAIN s /\ h[i] = s[i - 1])
  <2> TAKE i \in DOMAIN h
  <2>1. i = 1 \/ (i - 1 \in 1..Len(s) /\ (i - 1) + 1 = i)
    BY <1>1
  <2> QED
    BY <1>1, <2>1
<1>3. Range(h) = Range(s) \cup {x}
  <2>1. \A y \in Range(h) : y \in Range(s) \cup {x}
    BY <1>1, <1>2 DEF Range
  <2>2. x \in Range(h)
    BY <1>1 DEF Range
  <2>3. \A y \in Range(s) : y \in Range(h)
    <3> SUFFICES ASSUME NEW i \in DOMAIN s PROVE s[i] \in Range(h)
      BY DEF Range
    <3>1. i + 1 \in DOMAIN h /\ h[i + 1] = s[i]
      BY <1>1
    <3> QED
      BY <3>1 DEF Range
  <2> QED
    BY <2>1, <2>2, <2>3
<1>4. ASSUME IsInjective(s), x \notin Range(s) PROVE IsInjective(h)
  <2> SUFFICES ASSUME NEW i \in DOMAIN h, NEW j \in DOMAIN h, h[i] = h[j] PROVE i = j
    BY DEF IsInjective
  <2>1. \A k \in DOMAIN s : s[k] # x
    BY <1>4 DEF Range
  <2>2. CASE i = 1 \/ j = 1
    BY <1>1, <1>2, <2>1, <2>2
  <2>3. CASE i # 1 /\ j # 1
    <3>1. i - 1 \in DOMAIN s /\ j - 1 \in DOMAIN s /\ s[i - 1] = s[j - 1]
      BY <1>2, <2>3
    <3>2. i - 1 = j - 1
      BY <1>4, <3>1 DEF IsInjective
    <3> QED
      BY <1>1, <3>2
  <2> QED
    BY <2>2, <2>3
<1> QED
  BY <1>1, <1>3, <1>4 DEF h

(* add_timer: x is listed, once, and the others stay what they are. *)
LEMMA AddTimer ==
  ASSUME NEW lf \in [Timers -> Int], NEW n \in 0..W - 1, NEW e, Sound(e, lf, n),
         NEW x \in Timers, NEW e1, Differs(e1, e, x), NEW l \in Int, l >= -MaxLate,
         Timed(e1.t[x], l, n)
  PROVE  Starts(add_timer(e1, x, Owner[x], n), e, x, lf, l, n)
         /\ add_timer(e1, x, Owner[x], n).t[x].interval = e1.t[x].interval
<1> DEFINE p == Owner[x]
           r == [e1.t[x] EXCEPT !.p = p]
           t1 == [e1.t EXCEPT ![x] = r]
           f == [etimer_request_poll(e1) EXCEPT !.t[x].p = p]
           g == IF e1.t[x].p # PROCESS_NONE /\ x \in Range(e1.list) THEN f
                ELSE [f EXCEPT !.list = <<x>> \o @]
           s == IF x \in Range(e.list) THEN e.list ELSE <<x>> \o e.list
           lg == [lf EXCEPT ![x] = l]
<1>1. /\ e1 \in EtimerStates /\ e1.list \in Seq(Timers) /\ e1.t \in [Timers -> TimerRecords]
      /\ e1.t[x] \in TimerRecords /\ e1.list = e.list /\ p \in Procs /\ p # PROCESS_NONE
  BY NamesAssumption DEF Differs, EtimerStates
<1>2. r \in TimerRecords /\ r.start = e1.t[x].start /\ r.interval = e1.t[x].interval /\ r.p = p
  BY <1>1 DEF TimerRecords
<1>3. f = [e1 EXCEPT !.poll = TRUE, !.t = t1]
  BY <1>1 DEF EtimerStates, etimer_request_poll
<1> HIDE DEF r
<1>4. t1 \in [Timers -> TimerRecords] /\ t1[x] = r /\ \A y \in Timers \ {x} : t1[y] = e1.t[y]
  BY <1>1, <1>2
<1>5. e1.t[x].p # PROCESS_NONE /\ x \in Range(e1.list) <=> x \in Range(e.list)
  <2>1. x \in Range(e.list) => e1.t[x].p = p
    BY DEF Differs, Sound
  <2> QED
    BY <1>1, <2>1
<1>6. /\ s \in Seq(Timers) /\ Range(s) = Range(e.list) \cup {x} /\ IsInjective(s)
  BY <1>1, PutFirst DEF Sound
<1> HIDE DEF t1
<1>7. f \in EtimerStates /\ f.list = e.list /\ f.poll = TRUE /\ f.t = t1
  BY <1>1, <1>3, <1>4 DEF EtimerStates
<1> HIDE DEF f
<1>8. g \in EtimerStates /\ g.list = s /\ g.poll = TRUE /\ g.t = t1
  <2>1. CASE x \in Range(e.list)
    BY <1>5, <1>7, <2>1
  <2>2. CASE x \notin Range(e.list)
    <3>1. g = [f EXCEPT !.list = s]
      BY <1>5, <1>7, <2>2 DEF EtimerStates
    <3> HIDE DEF g, s
    <3> QED
      BY <1>6, <1>7, <3>1 DEF EtimerStates
  <2> QED
    BY <2>1, <2>2
<1> HIDE DEF s, p
<1>9. lg \in [Timers -> Int] /\ lg[x] = l /\ \A y \in Timers \ {x} : lg[y] = lf[y]
  OBVIOUS
<1> HIDE DEF g, lg
<1>10. Sound(g, lg, n)
  <2>1. Range(e.list) \subseteq Timers
    BY <1>1, ListedTimers
  <2>2. \A y \in Timers : g.t[y].p \in {Owner[y], PROCESS_NONE}
    BY <1>2, <1>4, <1>8 DEF Sound, Differs, p
  <2>3. \A y \in Range(g.list) : g.t[y].p = Owner[y] /\ lg[y] >= -MaxLate
    <3> SUFFICES ASSUME NEW y \in Range(s) PROVE g.t[y].p = Owner[y] /\ lg[y] >= -MaxLate
      BY <1>8
    <3>1. CASE y = x
      BY <1>2, <1>4, <1>8, <1>9, <3>1 DEF p
    <3>2. CASE y # x
      <4>1. y \in Range(e.list) /\ y \in Timers /\ g.t[y] = e.t[y] /\ lg[y] = lf[y]
        BY <1>4, <1>6, <1>8, <1>9, <2>1, <3>2 DEF Differs
      <4> QED
        BY <4>1 DEF Sound
    <3> QED
      BY <3>1, <3>2
  <2>4. Timed(r, l, n)
    BY <1>2 DEF Timed
  <2>5. \A y \in Timers : lg[y] >= -MaxLate => Timed(g.t[y], lg[y], n)
    <3> SUFFICES ASSUME NEW y \in Timers, lg[y] >= -MaxLate PROVE Timed(g.t[y], lg[y], n)
      OBVIOUS
    <3>1. CASE y = x
      BY <1>4, <1>8, <1>9, <2>4, <3>1
    <3>2. CASE y # x
      <4>1. g.t[y] = e.t[y] /\ lg[y] = lf[y]
        BY <1>4, <1>8, <1>9, <3>2 DEF Differs
      <4> QED
        BY <4>1 DEF Sound
    <3> QED
      BY <3>1, <3>2
  <2> QED
    BY <1>6, <1>8, <2>2, <2>3, <2>5 DEF Sound
<1> DEFINE a == update_time(g, n)
<1>11. Sound(a, lg, n) /\ Ahead(a, lg, n) /\ a.list = s /\ a.t = t1
  BY <1>8, <1>9, <1>10, UpdateTime
<1>12. add_timer(e1, x, p, n) = a
  BY DEF add_timer, g, f
<1> HIDE DEF a
<1>13. a.t[x].interval = e1.t[x].interval
  BY <1>2, <1>4, <1>11
<1>14. \A y \in Timers : a.t[y].interval = IF y = x THEN a.t[x].interval ELSE e.t[y].interval
  BY <1>4, <1>11 DEF Differs
<1>15. Starts(a, e, x, lf, l, n)
  BY <1>6, <1>11, <1>14 DEF Starts, lg
<1> QED
  BY <1>12, <1>13, <1>15 DEF p

(* The assignments of etimer_reset_with_new_interval *)
Retiming(e, x, a, i) == [e EXCEPT !.t[x].start = a, !.t[x].interval = i]

(* They touch the start and the interval of their timer only. *)
LEMMA DiffersBack ==
  ASSUME NEW e \in EtimerStates, NEW x \in Timers, NEW a \in 0..W - 1, NEW i \in 0..MAX_TICKS - MaxLate
  PROVE  Differs(Retiming(e, x, a, i), e, x) /\ Retiming(e, x, a, i).t[x].start = a
         /\ Retiming(e, x, a, i).t[x].interval = i
<1> DEFINE e1 == Retiming(e, x, a, i)
           r == [e.t[x] EXCEPT !.start = a, !.interval = i]
           t1 == [e.t EXCEPT ![x] = r]
<1>1. e.t \in [Timers -> TimerRecords] /\ e.t[x] \in TimerRecords
  BY DEF EtimerStates
<1>2. r \in TimerRecords /\ r.start = a /\ r.interval = i /\ r.p = e.t[x].p
  BY <1>1 DEF TimerRecords
<1>3. e1 = [e EXCEPT !.t = t1]
  BY <1>1 DEF EtimerStates, Retiming
<1> HIDE DEF r
<1>4. t1 \in [Timers -> TimerRecords] /\ t1[x] = r /\ \A y \in Timers \ {x} : t1[y] = e.t[y]
  BY <1>1, <1>2
<1> HIDE DEF t1, e1
<1>5. /\ e1 \in EtimerStates /\ e1.t = t1 /\ e1.list = e.list /\ e1.poll = e.poll
      /\ e1.next = e.next
  BY <1>3, <1>4 DEF EtimerStates
<1> QED
  BY <1>2, <1>4, <1>5 DEF Differs, e1

(* timer_reset and timer_restart: the interval is kept. *)
Restarting(e, x, a) == [e EXCEPT !.t[x].start = a]

(* They touch the start of their timer only. *)
LEMMA DiffersInStart ==
  ASSUME NEW e \in EtimerStates, NEW x \in Timers, NEW a \in 0..W - 1
  PROVE  Differs(Restarting(e, x, a), e, x) /\ Restarting(e, x, a).t[x].start = a
         /\ Restarting(e, x, a).t[x].interval = e.t[x].interval
<1> DEFINE e1 == Restarting(e, x, a)
           r == [e.t[x] EXCEPT !.start = a]
           t1 == [e.t EXCEPT ![x] = r]
<1>1. e.t \in [Timers -> TimerRecords] /\ e.t[x] \in TimerRecords
  BY DEF EtimerStates
<1>2. r \in TimerRecords /\ r.start = a /\ r.interval = e.t[x].interval /\ r.p = e.t[x].p
  BY <1>1 DEF TimerRecords
<1>3. e1 = [e EXCEPT !.t = t1]
  BY <1>1 DEF EtimerStates, Restarting
<1> HIDE DEF r
<1>4. t1 \in [Timers -> TimerRecords] /\ t1[x] = r /\ \A y \in Timers \ {x} : t1[y] = e.t[y]
  BY <1>1, <1>2
<1> HIDE DEF t1, e1
<1>5. /\ e1 \in EtimerStates /\ e1.t = t1 /\ e1.list = e.list /\ e1.poll = e.poll
      /\ e1.next = e.next
  BY <1>3, <1>4 DEF EtimerStates
<1> QED
  BY <1>2, <1>4, <1>5 DEF Differs, e1

(* A timer that starts now is due after its interval. *)
LEMMA TimedNow ==
  ASSUME NEW r, NEW n \in 0..W - 1, NEW i \in 0..MAX_TICKS - MaxLate, r.start = n, r.interval = i
  PROVE  Timed(r, i, n) /\ i >= -MaxLate
<1>1. n \in Int /\ i \in Int /\ n + i - n = i /\ i <= MAX_TICKS - MaxLate /\ i >= 0
  BY Widths
<1>2. Cong(i, i)
  BY <1>1, CongEquivalence
<1> QED
  BY <1>1, <1>2, Widths DEF Timed

(* One that starts at its last date, which was -l ticks ago, is due an interval later. *)
LEMMA TimedAgain ==
  ASSUME NEW r \in TimerRecords, NEW n \in 0..W - 1, NEW l \in Int, -MaxLate <= l, l <= 0, Timed(r, l, n),
         NEW i \in 0..MAX_TICKS - MaxLate,
         NEW r1, r1.start = (r.start + r.interval) % W, r1.interval = i
  PROVE  Timed(r1, l + i, n) /\ l + i >= -MaxLate /\ l + i \in Int
         /\ (r.start + r.interval) % W \in 0..W - 1
<1> DEFINE d == r.start + r.interval
           a == d % W
<1>1. d \in Int /\ n \in Int /\ i \in Int /\ 0 <= i /\ i <= MAX_TICKS - MaxLate
  BY RecordTypes, Widths
<1>2. a \in 0..W - 1 /\ Cong(a, d) /\ Cong(n, n) /\ Cong(i, i)
  BY <1>1, ModCong, CongEquivalence
<1>11. r.start + r.interval - n = d - n
  BY <1>1, RecordTypes
<1>3. Cong(d - n, l)
  BY <1>11 DEF Timed
<1> HIDE DEF d, a
<1>4. a \in Int
  BY <1>2, Widths
<1>5. Cong(a - n, d - n)
  BY <1>1, <1>2, <1>4, CongSum
<1>6. a - n \in Int /\ d - n \in Int
  BY <1>1, <1>4
<1>7. Cong(a - n, l)
  BY <1>3, <1>5, <1>6, CongEquivalence
<1>8. Cong((a - n) + i, l + i)
  BY <1>1, <1>2, <1>6, <1>7, CongSum
<1>9. (a - n) + i = a + i - n /\ l + i <= MAX_TICKS - MaxLate /\ l + i <= i + 1 /\ l + i >= -MaxLate
  BY <1>1, <1>4, Widths
<1>10. r1.start = a /\ r1.interval = i
  BY DEF a, d
<1> QED
  BY <1>1, <1>2, <1>8, <1>9, <1>10 DEF Timed, a, d

(* etimer_set: the timer is due after its interval. *)
LEMMA SetStarts ==
  ASSUME NEW lf \in [Timers -> Int], NEW n \in 0..W - 1, NEW e, Sound(e, lf, n),
         NEW x \in Timers, NEW i \in 0..MAX_TICKS - MaxLate
  PROVE  Starts(etimer_set(e, x, i, Owner[x], n), e, x, lf, i, n)
         /\ etimer_set(e, x, i, Owner[x], n).t[x].interval = i
<1> DEFINE e1 == Timing(e, x, i, n)
<1>1. e \in EtimerStates
  BY DEF Sound
<1>3. etimer_set(e, x, i, Owner[x], n) = add_timer(e1, x, Owner[x], n)
  BY DEF etimer_set, Timing
<1>2. Differs(e1, e, x) /\ e1.t[x].start = n /\ e1.t[x].interval = i
  BY <1>1, DiffersIn
<1> HIDE DEF e1
<1>4. Timed(e1.t[x], i, n) /\ i >= -MaxLate /\ i \in Int
  BY <1>2, TimedNow, Widths
<1>5. /\ Starts(add_timer(e1, x, Owner[x], n), e, x, lf, i, n)
      /\ add_timer(e1, x, Owner[x], n).t[x].interval = e1.t[x].interval
  BY <1>2, <1>4, AddTimer
<1> QED
  BY <1>2, <1>3, <1>5

(* etimer_restart: the timer is due after its interval, counted from now. *)
LEMMA RestartStarts ==
  ASSUME NEW lf \in [Timers -> Int], NEW n \in 0..W - 1, NEW e, Sound(e, lf, n), NEW x \in Timers
  PROVE  /\ Starts(etimer_restart(e, x, Owner[x], n), e, x, lf, e.t[x].interval, n)
         /\ e.t[x].interval \in 0..MAX_TICKS - MaxLate
<1> DEFINE e1 == Restarting(e, x, n)
           i == e.t[x].interval
<1>1. e \in EtimerStates /\ e.t[x] \in TimerRecords
  BY DEF Sound, EtimerStates
<1>3. etimer_restart(e, x, Owner[x], n) = add_timer(e1, x, Owner[x], n)
  BY DEF etimer_restart, Restarting
<1>4. i \in 0..MAX_TICKS - MaxLate /\ i \in Int
  BY <1>1, RecordTypes
<1>2. Differs(e1, e, x) /\ e1.t[x].start = n /\ e1.t[x].interval = i
  BY <1>1, DiffersInStart
<1> HIDE DEF e1, i
<1>5. Timed(e1.t[x], i, n) /\ i >= -MaxLate
  BY <1>2, <1>4, TimedNow
<1>6. Starts(add_timer(e1, x, Owner[x], n), e, x, lf, i, n)
  BY <1>2, <1>4, <1>5, AddTimer
<1> QED
  BY <1>3, <1>4, <1>6 DEF i

(* etimer_reset and etimer_reset_with_new_interval: the timer is due after its interval,
   counted from when it was last due. *)
LEMMA ResetStarts ==
  ASSUME NEW lf \in [Timers -> Int], NEW n \in 0..W - 1, NEW e, Sound(e, lf, n), NEW x \in Timers,
         -MaxLate <= lf[x], lf[x] <= 0
  PROVE  /\ Starts(etimer_reset(e, x, Owner[x], n), e, x, lf, lf[x] + e.t[x].interval, n)
         /\ \A i \in 0..MAX_TICKS - MaxLate :
              Starts(etimer_reset_with_new_interval(e, x, i, Owner[x], n), e, x, lf, lf[x] + i, n)
<1> DEFINE r == e.t[x]
           l == lf[x]
           a == (r.start + r.interval) % W
           j == r.interval
           e1 == Restarting(e, x, a)
<1>1. e \in EtimerStates /\ r \in TimerRecords /\ l \in Int
  BY DEF Sound, EtimerStates
<1>2. Timed(r, l, n)
  BY DEF Sound
<1>3. j \in 0..MAX_TICKS - MaxLate /\ a \in 0..W - 1
  BY <1>1, RecordTypes, ModCong
<1>5. etimer_reset(e, x, Owner[x], n) = add_timer(e1, x, Owner[x], n)
  BY <1>1 DEF etimer_reset, EtimerStates, Restarting
<1>9. a = (r.start + r.interval) % W
  OBVIOUS
<1>10. \A i : etimer_reset_with_new_interval(e, x, i, Owner[x], n)
                = add_timer(Retiming(e, x, a, i), x, Owner[x], n)
  BY <1>1 DEF etimer_reset_with_new_interval, EtimerStates, Retiming
<1> HIDE DEF a
<1>4. Differs(e1, e, x) /\ e1.t[x].start = a /\ e1.t[x].interval = j
  BY <1>1, <1>3, DiffersInStart, Zenon
<1> HIDE DEF e1
<1>6. Timed(e1.t[x], l + j, n) /\ l + j >= -MaxLate /\ l + j \in Int
  BY <1>1, <1>2, <1>3, <1>4, <1>9, TimedAgain, Zenon
<1>7. Starts(add_timer(e1, x, Owner[x], n), e, x, lf, l + j, n)
  BY <1>4, <1>6, AddTimer
<1>8. ASSUME NEW i \in 0..MAX_TICKS - MaxLate
      PROVE  Starts(etimer_reset_with_new_interval(e, x, i, Owner[x], n), e, x, lf, l + i, n)
  <2> DEFINE e2 == Retiming(e, x, a, i)
  <2>2. etimer_reset_with_new_interval(e, x, i, Owner[x], n) = add_timer(e2, x, Owner[x], n)
    BY <1>10
  <2>1. Differs(e2, e, x) /\ e2.t[x].start = a /\ e2.t[x].interval = i
    BY <1>1, <1>3, DiffersBack
  <2> HIDE DEF e2
  <2>3. Timed(e2.t[x], l + i, n) /\ l + i >= -MaxLate /\ l + i \in Int
    BY <1>1, <1>2, <1>9, <2>1, TimedAgain, Zenon
  <2>4. Starts(add_timer(e2, x, Owner[x], n), e, x, lf, l + i, n)
    BY <2>1, <2>3, AddTimer
  <2> QED
    BY <2>2, <2>4
<1> QED
  BY <1>5, <1>7, <1>8

(* A state stays sound when one timer gets a record that tells when it is due. *)
LEMMA DiffersSound ==
  ASSUME NEW lf \in [Timers -> Int], NEW n, NEW e, Sound(e, lf, n), NEW x \in Timers,
         NEW e1, Differs(e1, e, x), NEW l \in Int, l >= -MaxLate, Timed(e1.t[x], l, n)
  PROVE  Sound(e1, [lf EXCEPT ![x] = l], n)
<1> DEFINE lg == [lf EXCEPT ![x] = l]
<1>1. lg[x] = l /\ \A y \in Timers \ {x} : lg[y] = lf[y]
  OBVIOUS
<1> HIDE DEF lg
<1>2. e.list \in Seq(Timers)
  BY DEF Sound, EtimerStates
<1>3. Range(e.list) \subseteq Timers
  BY <1>2, ListedTimers
<1>4. \A y \in Timers : e1.t[y].p = e.t[y].p
  BY DEF Differs
<1>5. \A y \in Range(e1.list) : e1.t[y].p = Owner[y] /\ lg[y] >= -MaxLate
  <2> SUFFICES ASSUME NEW y \in Range(e.list) PROVE e1.t[y].p = Owner[y] /\ lg[y] >= -MaxLate
    BY DEF Differs
  <2>1. CASE y = x
    BY <1>1, <1>4, <2>1 DEF Sound
  <2>2. CASE y # x
    <3>1. y \in Timers \ {x} /\ lf[y] >= -MaxLate /\ e.t[y].p = Owner[y]
      BY <1>3, <2>2 DEF Sound
    <3> QED
      BY <1>1, <1>4, <3>1
  <2> QED
    BY <2>1, <2>2
<1>6. \A y \in Timers : lg[y] >= -MaxLate => Timed(e1.t[y], lg[y], n)
  <2> SUFFICES ASSUME NEW y \in Timers, lg[y] >= -MaxLate PROVE Timed(e1.t[y], lg[y], n)
    OBVIOUS
  <2>1. CASE y = x
    BY <1>1, <2>1
  <2>2. CASE y # x
    <3>1. e1.t[y] = e.t[y] /\ lg[y] = lf[y]
      BY <1>1, <2>2 DEF Differs
    <3> QED
      BY <3>1 DEF Sound
  <2> QED
    BY <2>1, <2>2
<1>7. e1 \in EtimerStates /\ IsInjective(e1.list)
  BY DEF Differs, Sound
<1>8. \A y \in Timers : e1.t[y].p \in {Owner[y], PROCESS_NONE}
  BY <1>4 DEF Sound
<1> QED
  BY <1>5, <1>6, <1>7, <1>8 DEF Sound, lg

(* State a is e after the date of x has been moved, to be due in l ticks. *)
Moves(a, e, x, lf, l, n) ==
  /\ Sound(a, [lf EXCEPT ![x] = l], n) /\ Ahead(a, [lf EXCEPT ![x] = l], n)
  /\ a.list = e.list

(* etimer_adjust, of a timer that is ahead and stays ahead *)
LEMMA AdjustKeeps ==
  ASSUME NEW lf \in [Timers -> Int], NEW n \in 0..W - 1, NEW e, Sound(e, lf, n), Ahead(e, lf, n),
         NEW x \in Timers, NEW d \in Int, lf[x] > 0, lf[x] + d > 0,
         lf[x] + d <= MAX_TICKS - MaxLate, lf[x] + d <= e.t[x].interval + 1
  PROVE  Moves(etimer_adjust(e, x, d, n), e, x, lf, lf[x] + d, n)
<1> DEFINE r == e.t[x]
           b == r.start
           i == r.interval
           l == lf[x]
           a == (b + d) % W
           e1 == Restarting(e, x, a)
           lg == [lf EXCEPT ![x] = l + d]
<1>1. e \in EtimerStates /\ r \in TimerRecords /\ l \in Int
  BY DEF Sound, EtimerStates
<1>2. Timed(r, l, n)
  BY Widths DEF Sound
<1>3. b \in Int /\ i \in Int /\ n \in Int
  BY <1>1, RecordTypes, Widths
<1>4. a \in 0..W - 1 /\ Cong(a, b + d)
  BY <1>3, ModCong
<1>5. etimer_adjust(e, x, d, n) = update_time(e1, n)
  BY <1>1, Zenon DEF etimer_adjust, EtimerStates, Restarting
<1> HIDE DEF a
<1>6. Differs(e1, e, x) /\ e1.t[x].start = a /\ e1.t[x].interval = i
  BY <1>1, <1>4, DiffersInStart
<1>7. Cong(b + i - n, l)
  BY <1>2 DEF Timed
<1>15. l + d \in Int /\ l + d >= -MaxLate /\ l + d <= MAX_TICKS - MaxLate /\ l + d <= i + 1
  BY <1>1, Widths
<1> HIDE DEF e1, b, i, l
<1>8. Cong(a + i - n, l + d)
  <2> DEFINE j == i - n
             c == b + d
  <2>1. a \in Int /\ j \in Int /\ c \in Int /\ Cong(j, j) /\ Cong(d, d)
    BY <1>3, <1>4, CongEquivalence, Widths
  <2>2. Cong((b + i - n) + d, l + d)
    BY <1>1, <1>3, <1>7, <2>1, CongSum
  <2>6. Cong(a, c)
    BY <1>4
  <2> HIDE DEF j, c
  <2>7. Cong(a + j, c + j)
    BY <2>1, <2>6, CongSum
  <2>3. Cong(a + (i - n), (b + d) + (i - n))
    BY <2>7 DEF c, j
  <2>4. (b + d) + (i - n) = (b + i - n) + d /\ a + (i - n) \in Int /\ (b + d) + (i - n) \in Int
    BY <1>3, <2>1 DEF c, j
  <2>5. Cong(a + (i - n), l + d)
    BY <1>15, <2>2, <2>3, <2>4, CongEquivalence
  <2> QED
    BY <2>5
<1>9. Timed(e1.t[x], l + d, n)
  BY <1>6, <1>8, <1>15 DEF Timed
<1>10. Sound(e1, lg, n)
  BY <1>6, <1>9, <1>15, DiffersSound
<1>11. lg \in [Timers -> Int] /\ lg[x] > 0 /\ \A y \in Timers \ {x} : lg[y] = lf[y]
  BY <1>15 DEF l
<1>12. [lf EXCEPT ![x] = lf[x] + d] = lg
  BY DEF l
<1> HIDE DEF lg
<1>13. \A y \in Range(e1.list) : lg[y] <= 0 => e1.poll
  <2> SUFFICES ASSUME NEW y \in Range(e.list), lg[y] <= 0 PROVE e.poll
    BY <1>6 DEF Differs
  <2>1. e.list \in Seq(Timers)
    BY <1>1 DEF EtimerStates
  <2>2. y \in Timers
    BY <2>1, ListedTimers
  <2>3. y # x
    BY <1>11
  <2> QED
    BY <1>11, <2>2, <2>3 DEF Ahead
<1>14. Sound(update_time(e1, n), lg, n) /\ Ahead(update_time(e1, n), lg, n) /\ update_time(e1, n).list = e1.list
  BY <1>10, <1>11, <1>13, UpdateTime
<1>16. update_time(e1, n).list = e.list
  BY <1>6, <1>14, Zenon DEF Differs
<1> QED
  BY <1>5, <1>12, <1>14, <1>16 DEF Moves

(* Taking timers out of the list: the rest is as before. *)
Fewer(f, e, S) ==
  /\ f \in EtimerStates /\ f.list = Drop(e.list, S)
  /\ \A x \in Timers \ S : f.t[x] = e.t[x]
  /\ \A x \in Timers : /\ f.t[x].start = e.t[x].start /\ f.t[x].interval = e.t[x].interval
                       /\ f.t[x].p \in {e.t[x].p, PROCESS_NONE}

(* A state stays sound when timers are taken out of the list. *)
LEMMA FewerSound ==
  ASSUME NEW lf \in [Timers -> Int], NEW n, NEW e, Sound(e, lf, n), NEW S, NEW f, Fewer(f, e, S)
  PROVE  Sound(f, lf, n) /\ Range(f.list) = Range(e.list) \ S /\ Range(f.list) \subseteq Timers
<1>1. e.list \in Seq(Timers)
  BY DEF Sound, EtimerStates
<1>2. Range(f.list) = Range(e.list) \ S /\ IsInjective(f.list)
  BY <1>1, DropProperties DEF Sound, Fewer
<1>3. Range(e.list) \subseteq Timers
  BY <1>1, ListedTimers
<1>4. \A x \in Timers : f.t[x].p \in {Owner[x], PROCESS_NONE}
  BY DEF Sound, Fewer
<1>5. \A x \in Range(f.list) : f.t[x].p = Owner[x] /\ lf[x] >= -MaxLate
  BY <1>2, <1>3 DEF Sound, Fewer
<1>6. \A x \in Timers : lf[x] >= -MaxLate => Timed(f.t[x], lf[x], n)
  BY DEF Sound, Timed, Fewer
<1> QED
  BY <1>2, <1>3, <1>4, <1>5, <1>6, Zenon DEF Sound, Fewer

(* list_remove changes the list and nothing else. *)
LEMMA ShorterList ==
  ASSUME NEW e \in EtimerStates, NEW S, NEW f, f = [e EXCEPT !.list = Drop(e.list, S)]
  PROVE  f \in EtimerStates /\ f.list = Drop(e.list, S) /\ f.t = e.t /\ f.poll = e.poll /\ f.next = e.next
<1> DEFINE d == Drop(e.list, S)
<1>1. e.list \in Seq(Timers)
  BY DEF EtimerStates
<1>2. d \in Seq(Timers)
  BY <1>1, DropProperties
<1>3. f = [e EXCEPT !.list = d]
  OBVIOUS
<1> HIDE DEF d
<1>4. f \in EtimerStates /\ f.list = d /\ f.t = e.t /\ f.poll = e.poll /\ f.next = e.next
  BY <1>2, <1>3, Zenon DEF EtimerStates
<1> QED
  BY <1>4 DEF d

(* State a is e without timer x on its list. *)
Stops(a, e, x, lf, n) ==
  Sound(a, lf, n) /\ Ahead(a, lf, n) /\ Range(a.list) = Range(e.list) \ {x}

(* etimer_stop: x is not listed any more. *)
LEMMA StopKeeps ==
  ASSUME NEW lf \in [Timers -> Int], NEW n \in 0..W - 1, NEW e, Sound(e, lf, n), Ahead(e, lf, n),
         NEW x \in Timers
  PROVE  Stops(etimer_stop(e, x, n), e, x, lf, n)
<1> DEFINE f == [e EXCEPT !.list = Drop(@, {x})]
           g == IF x \in Range(e.list) THEN update_time(f, n) ELSE e
           r == [g.t[x] EXCEPT !.p = PROCESS_NONE]
           t1 == [g.t EXCEPT ![x] = r]
           a == [g EXCEPT !.t[x].p = PROCESS_NONE]
<1>1. e \in EtimerStates /\ e.list \in Seq(Timers)
  BY DEF Sound, EtimerStates
<1>2. f = [e EXCEPT !.list = Drop(e.list, {x})]
  BY <1>1 DEF EtimerStates
<1>10. etimer_stop(e, x, n) = a
  BY DEF etimer_stop
<1> HIDE DEF f
<1>3. f \in EtimerStates /\ f.list = Drop(e.list, {x}) /\ f.t = e.t /\ f.poll = e.poll
  BY <1>1, <1>2, ShorterList
<1>16. Fewer(f, e, {x})
  BY <1>3 DEF Fewer
<1>4. Sound(f, lf, n) /\ Range(f.list) = Range(e.list) \ {x} /\ Range(f.list) \subseteq Timers
  BY <1>16, FewerSound
<1>5. Sound(g, lf, n) /\ Ahead(g, lf, n) /\ Range(g.list) = Range(e.list) \ {x}
  <2>1. CASE x \in Range(e.list)
    <3>1. \A y \in Range(f.list) : lf[y] <= 0 => f.poll
      BY <1>3, <1>4 DEF Ahead
    <3>2. /\ Sound(update_time(f, n), lf, n) /\ Ahead(update_time(f, n), lf, n)
          /\ update_time(f, n).list = f.list
      BY <1>4, <3>1, UpdateTime
    <3> QED
      BY <1>4, <2>1, <3>2
  <2>2. CASE x \notin Range(e.list)
    BY <2>2, Zenon
  <2> QED
    BY <2>1, <2>2
<1> HIDE DEF g
<1>6. g \in EtimerStates /\ g.t \in [Timers -> TimerRecords] /\ g.t[x] \in TimerRecords
  BY <1>5 DEF Sound, EtimerStates
<1>7. /\ r \in TimerRecords /\ r.start = g.t[x].start /\ r.interval = g.t[x].interval
      /\ r.p = PROCESS_NONE
  BY <1>6 DEF TimerRecords
<1>8. a = [g EXCEPT !.t = t1]
  BY <1>6 DEF EtimerStates
<1> HIDE DEF r
<1>9. t1 \in [Timers -> TimerRecords] /\ t1[x] = r /\ \A y \in Timers \ {x} : t1[y] = g.t[y]
  BY <1>6, <1>7
<1> HIDE DEF t1, a
<1>11. a \in EtimerStates /\ a.t = t1 /\ a.list = g.list /\ a.poll = g.poll /\ a.next = g.next
  BY <1>6, <1>8, <1>9, Zenon DEF EtimerStates
<1>12. g.list \in Seq(Timers)
  BY <1>6 DEF EtimerStates
<1>13. Range(g.list) \subseteq Timers \ {x}
  BY <1>5, <1>12, ListedTimers
<1>14. Sound(a, lf, n)
  <2>1. \A y \in Timers : a.t[y].p \in {Owner[y], PROCESS_NONE}
    BY <1>5, <1>7, <1>9, <1>11 DEF Sound
  <2>2. \A y \in Range(a.list) : a.t[y].p = Owner[y] /\ lf[y] >= -MaxLate
    BY <1>5, <1>9, <1>11, <1>13 DEF Sound
  <2>3. \A y \in Timers : a.t[y].start = g.t[y].start /\ a.t[y].interval = g.t[y].interval
    BY <1>7, <1>9, <1>11, Zenon
  <2>4. \A y \in Timers : lf[y] >= -MaxLate => Timed(a.t[y], lf[y], n)
    BY <1>5, <2>3, Zenon DEF Sound, Timed
  <2>5. IsInjective(a.list)
    BY <1>5, <1>11 DEF Sound
  <2> QED
    BY <1>11, <2>1, <2>2, <2>4, <2>5 DEF Sound
<1>15. Ahead(a, lf, n)
  BY <1>5, <1>11 DEF Ahead
<1> QED
  BY <1>5, <1>10, <1>11, <1>14, <1>15 DEF Stops

(* PROCESS_EVENT_EXITED: next_expiration is left alone, and is not behind. *)
LEMMA ExitKeeps ==
  ASSUME NEW lf \in [Timers -> Int], NEW n \in 0..W - 1, NEW e, Sound(e, lf, n), Ahead(e, lf, n), NEW p
  PROVE  /\ Sound(Exited(e, p), lf, n) /\ Ahead(Exited(e, p), lf, n)
         /\ Range(Exited(e, p).list) = {x \in Range(e.list) : e.t[x].p # p}
<1> DEFINE S == {x \in Range(e.list) : e.t[x].p = p}
           f == Exited(e, p)
<1>1. e \in EtimerStates /\ e.list \in Seq(Timers)
  BY DEF Sound, EtimerStates
<1>2. f = [e EXCEPT !.list = Drop(e.list, S)]
  BY <1>1 DEF EtimerStates, Exited
<1> HIDE DEF f, S
<1>3. f \in EtimerStates /\ f.list = Drop(e.list, S) /\ f.t = e.t /\ f.poll = e.poll /\ f.next = e.next
  BY <1>1, <1>2, ShorterList, Zenon
<1>6. Fewer(f, e, S)
  BY <1>3 DEF Fewer
<1>4. Sound(f, lf, n) /\ Range(f.list) = Range(e.list) \ S /\ Range(f.list) \subseteq Timers
  BY <1>6, FewerSound
<1>5. Ahead(f, lf, n)
  BY <1>3, <1>4 DEF Ahead
<1> QED
  BY <1>4, <1>5 DEF f, S

(* PROCESS_EVENT_POLL posts events of timers that are due, as many as there is room for. *)
LEMMA PostedDue ==
  ASSUME NEW lf \in [Timers -> Int], NEW n \in 0..W - 1, NEW e, Sound(e, lf, n),
         NEW q \in Seq(EventRecords), Len(q) <= NumEvents
  PROVE  LET due == Due(e, n)
             posted == Posted(e, q, n)
         IN  /\ posted \in Seq(Timers) /\ due \in Seq(Timers)
             /\ Range(due) = {x \in Range(e.list) : lf[x] <= 0} /\ Range(posted) \subseteq Range(due)
             /\ Len(q) + Len(posted) <= NumEvents
             /\ Len(posted) < Len(due) \/ posted = due
<1> DEFINE late == {x \in Range(e.list) : ~Expired(e.t[x], n)}
           due == Due(e, n)
           room == NumEvents - Len(q)
           m == IF Len(due) < room THEN Len(due) ELSE room
           posted == Posted(e, q, n)
<1>1. e.list \in Seq(Timers) /\ e.t \in [Timers -> TimerRecords]
  BY DEF Sound, EtimerStates
<1>2. Range(e.list) \subseteq Timers
  BY <1>1, ListedTimers
<1>3. due \in Seq(Timers) /\ Range(due) = Range(e.list) \ late
  BY <1>1, DropProperties DEF Due
<1>4. ASSUME NEW x \in Range(e.list) PROVE Expired(e.t[x], n) <=> lf[x] <= 0
  <2>1. x \in Timers /\ e.t[x] \in TimerRecords /\ lf[x] \in Int
    BY <1>1, <1>2
  <2>2. lf[x] >= -MaxLate /\ Timed(e.t[x], lf[x], n)
    BY <2>1 DEF Sound
  <2> QED
    BY <2>1, <2>2, ExpiredIsDue
<1>5. Range(due) = {x \in Range(e.list) : lf[x] <= 0}
  BY <1>3, <1>4
<1>6. posted = SubSeq(due, 1, m)
  BY DEF Posted
<1> HIDE DEF due, posted
<1>7. Len(due) \in Nat /\ room \in Nat /\ m \in 0..Len(due) /\ m <= room /\ Len(q) \in Nat /\ NumEvents \in Nat
  BY <1>3, NumEventsAssumption
<1>8. /\ posted \in Seq(Timers) /\ Len(posted) = m
      /\ \A i \in 1..m : posted[i] = due[i] /\ i \in 1..Len(due)
  <2> HIDE DEF m
  <2> QED
    BY <1>3, <1>6, <1>7
<1>9. DOMAIN posted = 1..m /\ DOMAIN due = 1..Len(due)
  <2> HIDE DEF m
  <2> QED
    BY <1>3, <1>8
<1>10. Range(posted) \subseteq Range(due)
  BY <1>8, <1>9 DEF Range
<1>11. Len(posted) < Len(due) \/ posted = due
  <2>1. CASE m < Len(due)
    BY <1>8, <2>1
  <2>2. CASE m = Len(due)
    <3> HIDE DEF m
    <3> QED
      BY <1>3, <1>6, <2>2
  <2> QED
    BY <1>7, <2>1, <2>2
<1>12. Len(q) + Len(posted) <= NumEvents
  BY <1>7, <1>8
<1> QED
  BY <1>3, <1>5, <1>8, <1>10, <1>11, <1>12 DEF due, posted

(* A poll of etimer_process keeps the state of etimer.c in order; the list loses the
   timers whose events were posted, and a poll is asked for when an event was not. *)
LEMMA PollKeeps ==
  ASSUME NEW lf \in [Timers -> Int], NEW n \in 0..W - 1, NEW e, Sound(e, lf, n), Ahead(e, lf, n),
         NEW q \in Seq(EventRecords), Len(q) <= NumEvents
  PROVE  /\ Sound(Polled(e, q, n), lf, n) /\ Ahead(Polled(e, q, n), lf, n)
         /\ Range(Polled(e, q, n).list) = Range(e.list) \ Range(Posted(e, q, n))
<1> DEFINE due == Due(e, n)
           posted == Posted(e, q, n)
           out == Range(posted)
           b == Len(posted) < Len(due)
           d == Drop(e.list, out)
           t1 == [x \in Timers |-> IF x \in out THEN [e.t[x] EXCEPT !.p = PROCESS_NONE] ELSE e.t[x]]
           f == [e EXCEPT !.poll = b, !.list = Drop(@, out),
                          !.t = [x \in DOMAIN @ |-> IF x \in out THEN [@[x] EXCEPT !.p = PROCESS_NONE] ELSE @[x]]]
           a == IF out = {} THEN f ELSE update_time(f, n)
<1>1. e \in EtimerStates /\ e.list \in Seq(Timers) /\ e.t \in [Timers -> TimerRecords]
  BY DEF Sound, EtimerStates
<1>2. /\ posted \in Seq(Timers) /\ due \in Seq(Timers)
      /\ Range(due) = {x \in Range(e.list) : lf[x] <= 0} /\ out \subseteq Range(due)
      /\ b \/ posted = due
  BY PostedDue
<1>3. Polled(e, q, n) = a
  BY DEF Polled
<1>4. f = [e EXCEPT !.poll = b, !.list = d, !.t = t1]
  BY <1>1 DEF EtimerStates
<1>5. t1 \in [Timers -> TimerRecords] /\ \A x \in Timers :
        /\ x \notin out => t1[x] = e.t[x]
        /\ t1[x].start = e.t[x].start /\ t1[x].interval = e.t[x].interval
        /\ t1[x].p \in {e.t[x].p, PROCESS_NONE}
  <2> SUFFICES ASSUME NEW x \in Timers
               PROVE  /\ t1[x] \in TimerRecords /\ (x \notin out => t1[x] = e.t[x])
                      /\ t1[x].start = e.t[x].start /\ t1[x].interval = e.t[x].interval
                      /\ t1[x].p \in {e.t[x].p, PROCESS_NONE}
    OBVIOUS
  <2>1. e.t[x] \in TimerRecords
    BY <1>1
  <2> DEFINE r == [e.t[x] EXCEPT !.p = PROCESS_NONE]
  <2>2. r \in TimerRecords /\ r.start = e.t[x].start /\ r.interval = e.t[x].interval /\ r.p = PROCESS_NONE
    BY <2>1 DEF TimerRecords
  <2>3. t1[x] = IF x \in out THEN r ELSE e.t[x]
    OBVIOUS
  <2> HIDE DEF r, t1
  <2> QED
    BY <2>1, <2>2, <2>3
<1>6. d \in Seq(Timers) /\ b \in BOOLEAN
  BY <1>1, DropProperties
<1> HIDE DEF b, d, t1, f
<1>7. f \in EtimerStates /\ f.poll = b /\ f.list = d /\ f.t = t1 /\ f.next = e.next
  BY <1>1, <1>4, <1>5, <1>6 DEF EtimerStates
<1>8. Sound(f, lf, n) /\ Range(f.list) = Range(e.list) \ out /\ Range(f.list) \subseteq Timers
  <2>1. f \in EtimerStates /\ f.list = Drop(e.list, out)
    BY <1>7 DEF d
  <2>2. \A x \in Timers \ out : f.t[x] = e.t[x]
    BY <1>5, <1>7
  <2>3. \A x \in Timers : /\ f.t[x].start = e.t[x].start /\ f.t[x].interval = e.t[x].interval
                         /\ f.t[x].p \in {e.t[x].p, PROCESS_NONE}
    BY <1>5, <1>7
  <2>4. Fewer(f, e, out)
    BY <2>1, <2>2, <2>3 DEF Fewer
  <2> QED
    BY <2>4, FewerSound
<1>9. \A x \in Range(f.list) : lf[x] <= 0 => f.poll
  BY <1>2, <1>7, <1>8
<1>10. Sound(a, lf, n) /\ Ahead(a, lf, n) /\ a.list = f.list
  <2>1. CASE out = {}
    <3>1. Ahead(f, lf, n)
      BY <1>7, <1>8, <1>9 DEF Ahead
    <3> QED
      BY <1>8, <2>1, <3>1
  <2>2. CASE out # {}
    <3>1. Sound(update_time(f, n), lf, n) /\ Ahead(update_time(f, n), lf, n) /\ update_time(f, n).list = f.list
      BY <1>8, <1>9, UpdateTime, Zenon
    <3> QED
      BY <2>2, <3>1
  <2> QED
    BY <2>1, <2>2
<1> QED
  BY <1>3, <1>8, <1>10, Zenon

(* The events that are posted: each for the process of its timer. *)
LEMMA EventsPosted ==
  ASSUME NEW lf \in [Timers -> Int], NEW n \in 0..W - 1, NEW e, Sound(e, lf, n),
         NEW q \in Seq(EventRecords), Len(q) <= NumEvents
  PROVE  LET ev == Events(e, q, n)
         IN  /\ ev \in Seq(EventRecords) /\ Len(q) + Len(ev) <= NumEvents
             /\ \A i \in DOMAIN ev :
                  /\ ev[i].timer \in Range(e.list) /\ lf[ev[i].timer] <= 0
                  /\ ev[i].to = Owner[ev[i].timer]
             /\ \A x \in Range(Posted(e, q, n)) : \E i \in DOMAIN ev : ev[i].timer = x
<1> DEFINE due == Due(e, n)
           posted == Posted(e, q, n)
           ev == Events(e, q, n)
<1>1. e.list \in Seq(Timers) /\ e.t \in [Timers -> TimerRecords]
  BY DEF Sound, EtimerStates
<1>2. Range(e.list) \subseteq Timers
  BY <1>1, ListedTimers
<1>3. /\ posted \in Seq(Timers)
      /\ Range(due) = {x \in Range(e.list) : lf[x] <= 0} /\ Range(posted) \subseteq Range(due)
      /\ Len(q) + Len(posted) <= NumEvents
  BY PostedDue
<1>4. /\ DOMAIN ev = DOMAIN posted
      /\ \A i \in DOMAIN posted : ev[i] = [to |-> e.t[posted[i]].p, timer |-> posted[i]]
  BY DEF Events
<1>5. ev = [i \in DOMAIN posted |-> ev[i]]
  BY DEF Events
<1> HIDE DEF ev, posted, due
<1>6. DOMAIN posted = 1..Len(posted) /\ Len(posted) \in Nat
  BY <1>3
<1>7. ASSUME NEW i \in DOMAIN posted
      PROVE  /\ ev[i] \in EventRecords /\ ev[i].timer \in Range(e.list) /\ lf[ev[i].timer] <= 0
             /\ ev[i].to = Owner[ev[i].timer] /\ ev[i].timer = posted[i]
  <2>1. posted[i] \in Range(posted)
    BY DEF Range
  <2>2. posted[i] \in Range(e.list) /\ lf[posted[i]] <= 0 /\ posted[i] \in Timers
    BY <1>2, <1>3, <2>1
  <2>3. e.t[posted[i]].p = Owner[posted[i]] /\ Owner[posted[i]] \in Procs
    BY <2>2, NamesAssumption DEF Sound
  <2>4. ev[i] = [to |-> e.t[posted[i]].p, timer |-> posted[i]]
    BY <1>4
  <2>5. ev[i].timer = posted[i] /\ ev[i].to = Owner[posted[i]]
    BY <2>3, <2>4
  <2>6. ev[i] \in EventRecords
    BY <2>2, <2>3, <2>4 DEF EventRecords
  <2> QED
    BY <2>2, <2>5, <2>6
<1>8. ev \in [1..Len(posted) -> EventRecords]
  BY <1>5, <1>6, <1>7
<1>9. ev \in Seq(EventRecords) /\ Len(ev) = Len(posted)
  BY <1>6, <1>8
<1>10. \A x \in Range(posted) : \E i \in DOMAIN ev : ev[i].timer = x
  BY <1>4, <1>7 DEF Range
<1> QED
  BY <1>3, <1>4, <1>7, <1>9, <1>10 DEF ev, posted

(* The clock shows m, and lg are the ticks left, when n and lf are k ticks ago. *)
Later(m, lg, e, lf, n, k) ==
  /\ m = (n + k) % W /\ lg \in [Timers -> Int]
  /\ \A x \in Timers : lg[x] = IF lf[x] - k < -MaxLate THEN -MaxLate - 1 ELSE lf[x] - k
  /\ \A x \in Range(e.list) : lf[x] - k >= -MaxLate

(* The clock interrupt, when it finds the clock k ticks on and no timer gets long overdue:
   next_expiration is close enough for a date that has passed not to look ahead. *)
LEMMA TickKeeps ==
  ASSUME NEW lf \in [Timers -> Int], NEW n \in 0..W - 1, NEW e, Sound(e, lf, n), Ahead(e, lf, n),
         NEW k \in Nat, NEW m, NEW lg, Later(m, lg, e, lf, n, k)
  PROVE  /\ m \in 0..W - 1 /\ Sound(Interrupt(e, m), lg, m) /\ Ahead(Interrupt(e, m), lg, m)
         /\ Interrupt(e, m).list = e.list
<1> DEFINE a == Interrupt(e, m)
           rings == e.list # <<>> /\ (e.next - m - 1) % W > MAX_TICKS
<1>0. /\ m = (n + k) % W /\ lg \in [Timers -> Int]
      /\ \A x \in Timers : lg[x] = IF lf[x] - k < -MaxLate THEN -MaxLate - 1 ELSE lf[x] - k
      /\ \A x \in Range(e.list) : lf[x] - k >= -MaxLate
  BY DEF Later
<1>1. /\ e \in EtimerStates /\ e.list \in Seq(Timers) /\ e.t \in [Timers -> TimerRecords]
      /\ e.next \in 0..W - 1 /\ e.poll \in BOOLEAN
  BY Zenon DEF Sound, EtimerStates
<1>2. Range(e.list) \subseteq Timers /\ (e.list = <<>> <=> Range(e.list) = {})
  BY <1>1, ListedTimers
<1>3. /\ n \in Int /\ k \in Int /\ n + k \in Int /\ W \in Nat /\ MaxLate \in Nat /\ MAX_TICKS \in Nat
      /\ e.next \in Int
  BY <1>1, Widths
<1>4. m \in 0..W - 1 /\ Cong(m, n + k) /\ m \in Int
  <2> DEFINE c == n + k
  <2>1. c \in Int /\ m = c % W
    BY <1>0, <1>3
  <2> HIDE DEF c
  <2>2. c % W \in 0..W - 1 /\ Cong(c % W, c)
    BY <2>1, ModCong
  <2>3. m \in 0..W - 1 /\ Cong(m, c)
    BY <2>1, <2>2
  <2> QED
    BY <1>3, <2>3 DEF c
<1>5. a = IF rings THEN [e EXCEPT !.poll = TRUE] ELSE e
  BY DEF Interrupt, etimer_request_poll
<1> HIDE DEF rings, a
<1>6. /\ a \in EtimerStates /\ a.list = e.list /\ a.t = e.t /\ a.next = e.next
      /\ (rings \/ e.poll => a.poll)
  BY <1>1, <1>5 DEF EtimerStates
<1>7. \A b \in Int, l \in Int : Cong(b - n, l) => Cong(b - m, l - k)
  <2> SUFFICES ASSUME NEW b \in Int, NEW l \in Int, Cong(b - n, l) PROVE Cong(b - m, l - k)
    OBVIOUS
  <2>1. Cong(n + k, m)
    BY <1>3, <1>4, CongEquivalence
  <2>2. Cong((b - n) + (n + k), l + m)
    <3> DEFINE c == b - n
               d == n + k
    <3>1. c \in Int /\ d \in Int /\ Cong(c, l) /\ Cong(d, m)
      BY <1>3, <2>1
    <3> HIDE DEF c, d
    <3>2. Cong(c + d, l + m)
      BY <1>4, <3>1, CongSum
    <3> QED
      BY <3>2 DEF c, d
  <2>3. (b - n) + (n + k) = b + k
    BY <1>3
  <2>4. Cong(m + k, m + k)
    BY <1>3, <1>4, CongEquivalence
  <2>5. Cong((b + k) - (m + k), (l + m) - (m + k))
    <3> DEFINE c == b + k
               d == l + m
               g == m + k
    <3>1. c \in Int /\ d \in Int /\ g \in Int /\ Cong(c, d) /\ Cong(g, g)
      BY <1>3, <1>4, <2>2, <2>3, <2>4
    <3> HIDE DEF c, d, g
    <3>2. Cong(c - g, d - g)
      BY <3>1, CongSum
    <3> QED
      BY <3>2 DEF c, d, g
  <2>6. (b + k) - (m + k) = b - m /\ (l + m) - (m + k) = l - k
    BY <1>3, <1>4
  <2> QED
    BY <2>5, <2>6
<1>8. ASSUME NEW x \in Timers, lg[x] >= -MaxLate
      PROVE  lg[x] = lf[x] - k /\ lf[x] >= -MaxLate /\ lg[x] <= lf[x] /\ Timed(e.t[x], lg[x], m)
  <2>1. lf[x] \in Int /\ lg[x] = lf[x] - k /\ lf[x] >= -MaxLate /\ lg[x] <= lf[x]
    BY <1>0, <1>3, <1>8
  <2>2. Timed(e.t[x], lf[x], n)
    BY <2>1 DEF Sound
  <2> DEFINE b == e.t[x].start + e.t[x].interval
  <2>3. e.t[x] \in TimerRecords
    BY <1>1, Zenon
  <2>4. b \in Int /\ b - n = e.t[x].start + e.t[x].interval - n /\ b - m = e.t[x].start + e.t[x].interval - m
    BY <1>3, <1>4, <2>3, RecordTypes
  <2> HIDE DEF b
  <2>5. Cong(b - n, lf[x]) /\ lf[x] <= MAX_TICKS - MaxLate /\ lf[x] <= e.t[x].interval + 1
    BY <2>2, <2>4, Zenon DEF Timed
  <2>6. Cong(b - m, lf[x] - k)
    BY <1>7, <2>1, <2>4, <2>5, Zenon
  <2>7. e.t[x].interval \in Int
    BY <2>3, RecordTypes, Zenon
  <2>8. lg[x] <= MAX_TICKS - MaxLate /\ lg[x] <= e.t[x].interval + 1
    BY <1>3, <2>1, <2>5, <2>7
  <2> QED
    BY <2>1, <2>4, <2>6, <2>8 DEF Timed
<1>9. \A x \in Range(e.list) : x \in Timers /\ lf[x] \in Int /\ lg[x] = lf[x] - k /\ lg[x] >= -MaxLate
  BY <1>0, <1>2, <1>3
<1>10. Sound(a, lg, m)
  <2>1. \A x \in Range(a.list) : a.t[x].p = Owner[x] /\ lg[x] >= -MaxLate
    BY <1>6, <1>9, Zenon DEF Sound
  <2>2. \A x \in Timers : lg[x] >= -MaxLate => Timed(a.t[x], lg[x], m)
    BY <1>6, <1>8
  <2> QED
    BY <1>6, <2>1, <2>2 DEF Sound
<1>11. ASSUME NEW x \in Range(e.list), lf[x] > 0
       PROVE  \E s \in lg[x] - (MAX_TICKS - MaxLate)..lg[x] : Cong(e.next - m, s)
  <2>1. PICK s \in lf[x] - (MAX_TICKS - MaxLate)..lf[x] : Cong(e.next - n, s)
    BY <1>11 DEF Ahead
  <2>2. s \in Int /\ lf[x] \in Int
    BY <1>3, <1>9
  <2>3. Cong(e.next - m, s - k)
    BY <1>3, <1>7, <2>1, <2>2
  <2>4. s - k \in lg[x] - (MAX_TICKS - MaxLate)..lg[x]
    BY <1>3, <1>9, <2>1, <2>2
  <2> QED
    BY <2>3, <2>4
<1>12. ASSUME NEW x \in Range(e.list), lf[x] > 0, lg[x] <= 0 PROVE rings
  <2>1. PICK s \in lg[x] - (MAX_TICKS - MaxLate)..lg[x] : Cong(e.next - m, s)
    BY <1>11, <1>12
  <2>2. s \in Int /\ -MAX_TICKS <= s /\ s <= 0
    BY <1>3, <1>9, <1>12, <2>1
  <2> DEFINE b == e.next - m
             c == e.next - m - 1
  <2>3. b \in Int /\ c = b - 1 /\ c \in Int
    BY <1>3, <1>4
  <2>4. Cong(b, s)
    BY <2>1
  <2>8. rings <=> e.list # <<>> /\ c % W > MAX_TICKS
    BY DEF rings
  <2> HIDE DEF b, c
  <2>5. Cong(-W, 0)
    <3>1. -W = 0 + (-1) * W /\ -1 \in Int
      BY <1>3
    <3> QED
      BY <3>1 DEF Cong
  <2>6. Cong(1 + (-W), 1 + 0) /\ 1 + (-W) \in Int /\ 1 + 0 = 1
    <3>1. Cong(1, 1) /\ -W \in Int /\ 1 + (-W) \in Int
      BY <1>3, CongEquivalence
    <3> QED
      BY <2>5, <3>1, CongSum
  <2> DEFINE g == 1 + (-W)
  <2>9. g \in Int /\ Cong(1, g) /\ g = 1 - W
    BY <1>3, <2>6, CongEquivalence
  <2> HIDE DEF g
  <2>7. Cong(b - 1, s - g) /\ s - g = s - 1 + W
    BY <1>3, <2>2, <2>3, <2>4, <2>9, CongSum
  <2>10. s - g \in 0..W - 1 /\ s - g > MAX_TICKS
    BY <1>3, <2>2, <2>9, Widths
  <2>11. c % W = s - g
    BY <2>3, <2>7, <2>10, ModIs
  <2> QED
    BY <1>2, <2>8, <2>10, <2>11
<1>13. Ahead(a, lg, m)
  <2> SUFFICES ASSUME NEW x \in Range(e.list)
               PROVE  /\ lg[x] <= 0 => a.poll
                      /\ lg[x] > 0 => \E s \in lg[x] - (MAX_TICKS - MaxLate)..lg[x] : Cong(e.next - m, s)
    BY <1>6, Zenon DEF Ahead
  <2>1. lf[x] <= 0 => a.poll
    BY <1>6 DEF Ahead
  <2>2. lf[x] > 0 /\ lg[x] <= 0 => a.poll
    BY <1>6, <1>12
  <2>3. lg[x] > 0 => lf[x] > 0
    BY <1>3, <1>9
  <2>4. lf[x] \in Int
    BY <1>9
  <2> QED
    BY <1>11, <2>1, <2>2, <2>3, <2>4
<1> QED
  BY <1>4, <1>6, <1>10, <1>13 DEF a
=============================================================================
