----------------------------- MODULE ClockProofs -----------------------------
(***************************************************************************)
(* For clocks of any period, and adjustments by any int32_t: the offset    *)
(* stays in its range until one is more than a carry makes good, the       *)
(* logical clock never goes back as time passes, an adjustment moves it by *)
(* exactly what it is asked to, neighbours are measured right, and a timer *)
(* fires on its date.                                                      *)
(***************************************************************************)
EXTENDS ClockDates, TLAPS

(* What the three arguments need of a state: the types of the counts and the
   range of the offset. *)
ClockInv ==
  /\ coarse_count \in Int
  /\ fine \in 0..FINE_MAX
  /\ fine_offset \in Int
  /\ overshot \in BOOLEAN
  /\ OffsetKept

(* FINE_MAX is a positive count. *)
LEMMA FineMax == FINE_MAX \in Nat /\ FINE_MAX >= 3 /\ FINE_MAX < Period
  BY PeriodAssumption DEF FINE_MAX

(* A word has room for the offset and the largest adjustment. *)
LEMMA WordLarge == Word \in Nat /\ Word > 4 * FINE_MAX
  BY PeriodAssumption, PeriodsAssumption DEF FINE_MAX

(* What Moved computes are numbers. *)
LEMMA MovedNumbers ==
  ASSUME ClockInv, NEW d \in Diffs
  PROVE  Moved(d).c \in Int /\ Moved(d).f \in Int
<1> DEFINE f == U(fine_offset - d)
<1>1. f \in Int /\ coarse_count \in Int /\ FINE_MAX \in Int
  BY DiffsAssumption, WordLarge, FineMax DEF ClockInv, U
<1>2. Moved(d) = IF 2 * f < FINE_MAX THEN [c |-> coarse_count - 1, f |-> f + FINE_MAX]
                 ELSE IF 2 * f > 3 * FINE_MAX THEN [c |-> coarse_count + 1, f |-> f - FINE_MAX]
                 ELSE [c |-> coarse_count, f |-> f]
  BY DEF Moved
<1> HIDE DEF f
<1> QED BY <1>1, <1>2

(* Moved keeps the offset in its range, when one carry is enough, and gives to the
   coarse count what it takes from the offset. *)
LEMMA MovedKeeps ==
  ASSUME ClockInv, OffsetInRange, NEW d \in Diffs, OneCarry(d)
  PROVE  /\ Moved(d).c \in Int /\ Moved(d).f \in Int
         /\ FINE_MAX <= 2 * Moved(d).f /\ 2 * Moved(d).f <= 3 * FINE_MAX
         /\ \/ Moved(d).c = coarse_count /\ Moved(d).f = fine_offset - d
            \/ Moved(d).c = coarse_count - 1 /\ Moved(d).f = fine_offset - d + FINE_MAX
            \/ Moved(d).c = coarse_count + 1 /\ Moved(d).f = fine_offset - d - FINE_MAX
<1> DEFINE f == fine_offset - d
<1>1. d \in Int /\ d <= fine_offset /\ 2 * (fine_offset - d) <= 5 * FINE_MAX
  BY DiffsAssumption DEF OneCarry
<1>2. fine_offset \in Int /\ coarse_count \in Int
      /\ FINE_MAX <= 2 * fine_offset /\ 2 * fine_offset <= 3 * FINE_MAX
  BY DEF ClockInv, OffsetInRange
<1>3. f \in Int /\ 0 <= f /\ f < Word
  BY <1>1, <1>2, FineMax, WordLarge
<1>4. U(f) = f
  BY <1>3, WordLarge DEF U
<1>5. Moved(d) = IF 2 * f < FINE_MAX THEN [c |-> coarse_count - 1, f |-> f + FINE_MAX]
                 ELSE IF 2 * f > 3 * FINE_MAX THEN [c |-> coarse_count + 1, f |-> f - FINE_MAX]
                 ELSE [c |-> coarse_count, f |-> f]
  BY <1>4 DEF Moved
<1>6. CASE 2 * f < FINE_MAX
  <2>1. Moved(d).c = coarse_count - 1 /\ Moved(d).f = f + FINE_MAX
    BY <1>5, <1>6
  <2> QED BY <2>1, <1>1, <1>2, <1>6, FineMax
<1>7. CASE ~(2 * f < FINE_MAX) /\ 2 * f > 3 * FINE_MAX
  <2>1. Moved(d).c = coarse_count + 1 /\ Moved(d).f = f - FINE_MAX
    BY <1>5, <1>7
  <2> QED BY <2>1, <1>1, <1>2, <1>7, FineMax
<1>8. CASE ~(2 * f < FINE_MAX) /\ ~(2 * f > 3 * FINE_MAX)
  <2>1. Moved(d).c = coarse_count /\ Moved(d).f = f
    BY <1>5, <1>8
  <2> QED BY <2>1, <1>1, <1>2, <1>8, FineMax
<1> QED BY <1>6, <1>7, <1>8

(* Every step keeps ClockInv. *)
LEMMA ClockInvStep == ASSUME ClockInv, [Next]_vars PROVE ClockInv'
<1>1. CASE Tick
  BY <1>1, FineMax DEF Tick, ClockInv, OffsetKept, OffsetInRange
<1>2. CASE Fire
  BY <1>2 DEF Fire, ClockInv, OffsetKept, OffsetInRange
<1>3. CASE \E n \in Ahead : ScheduleDate(Shifted(LogicalNow, n))
  BY <1>3 DEF ScheduleDate, ClockInv, OffsetKept, OffsetInRange
<1>4. CASE \E n \in Intervals : ScheduleInterval(n, Now) \/ ScheduleInterval(n, ref)
  <2>1. UNCHANGED <<coarse_count, fine, fine_offset, overshot>>
    BY <1>4, Zenon DEF ScheduleInterval
  <2> QED BY <2>1 DEF ClockInv, OffsetKept, OffsetInRange
<1>5. CASE \E d \in Diffs : AdjustFine(d)
  <2>1. PICK d \in Diffs : AdjustFine(d)
    BY <1>5
  <2>2. /\ coarse_count' = Moved(d).c /\ fine_offset' = Moved(d).f /\ fine' = fine
        /\ overshot' = (overshot \/ ~OneCarry(d))
    BY <2>1 DEF AdjustFine
  <2>3. coarse_count' \in Int /\ fine_offset' \in Int /\ fine' \in 0..FINE_MAX /\ overshot' \in BOOLEAN
    BY <2>2, MovedNumbers DEF ClockInv
  <2>4. ASSUME ~overshot' PROVE OffsetInRange'
    <3>1. OffsetInRange /\ OneCarry(d)
      BY <2>2, <2>4 DEF ClockInv, OffsetKept
    <3> QED BY <2>2, <3>1, MovedKeeps DEF OffsetInRange
  <2> QED BY <2>3, <2>4 DEF ClockInv, OffsetKept
<1>6. CASE \E d \in CoarseDiffs : AdjustCoarse(d)
  BY <1>6, CoarseAssumption DEF AdjustCoarse, ClockInv, OffsetKept, OffsetInRange
<1>7. CASE UNCHANGED vars
  BY <1>7 DEF vars, ClockInv, OffsetKept, OffsetInRange
<1> QED BY <1>1, <1>2, <1>3, <1>4, <1>5, <1>6, <1>7 DEF Next

(* rtimer_init leaves a clock in order. *)
LEMMA ClockInvInit == Init => ClockInv
<1> SUFFICES ASSUME Init PROVE ClockInv
  OBVIOUS
<1>1. /\ coarse_count = 0 /\ fine = 0 /\ fine_offset = FINE_MAX /\ overshot = FALSE
  BY DEF Init
<1>2. coarse_count \in Int /\ fine \in 0..FINE_MAX /\ fine_offset \in Int /\ OffsetInRange
  BY <1>1, FineMax DEF OffsetInRange
<1> QED BY <1>1, <1>2 DEF ClockInv, OffsetKept

(* The clock is in order at all times. *)
THEOREM ClockInvariant == Spec => []ClockInv
<1>1. ClockInv /\ [Next]_vars => ClockInv'
  BY ClockInvStep
<1> QED BY <1>1, ClockInvInit, PTL DEF Spec

(* However many adjustments are made, of whatever size an int32_t has,
   rtimer_adjust_fine_offset leaves an offset between half a period and one and a half,
   until one is more than the offset or more than one carry makes good. *)
THEOREM OffsetKeptInRange == Spec => []OffsetKept
<1>1. ClockInv => OffsetKept
  BY DEF ClockInv
<1> QED BY <1>1, ClockInvariant, PTL

(* The coarse count of a logical date in ticks, one period on and one back. *)
LEMMA OneMore ==
  ASSUME NEW c \in Int
  PROVE  /\ c * FINE_MAX \in Int
         /\ (c + 1) * FINE_MAX = c * FINE_MAX + FINE_MAX
         /\ (c - 1) * FINE_MAX = c * FINE_MAX - FINE_MAX
  BY FineMax

(* A coarse and a fine count *)
Dates == [c : Int, f : 0..FINE_MAX]

(* The ticks of a date are a number. *)
LEMMA DateTicks ==
  ASSUME NEW t \in Dates
  PROVE  /\ t.c \in Int /\ t.f \in 0..FINE_MAX /\ t.f \in Int /\ t = [c |-> t.c, f |-> t.f]
         /\ Ticks(t) \in Int /\ Ticks(t) = t.c * FINE_MAX + t.f
<1>1. t.c \in Int /\ t.f \in 0..FINE_MAX /\ t = [c |-> t.c, f |-> t.f]
  BY DEF Dates
<1> QED BY <1>1, FineMax DEF Ticks

(* One carry is enough for a count below two periods. *)
LEMMA CarryDate ==
  ASSUME NEW c \in Int, NEW f \in Int, 0 <= f, f <= 2 * FINE_MAX
  PROVE  /\ Carry([c |-> c, f |-> f]) \in Dates
         /\ Ticks(Carry([c |-> c, f |-> f])) = c * FINE_MAX + f
<1>1. CASE f > FINE_MAX
  <2>1. Carry([c |-> c, f |-> f]) = [c |-> c + 1, f |-> f - FINE_MAX]
    BY <1>1 DEF Carry
  <2>2. f - FINE_MAX \in 0..FINE_MAX /\ c + 1 \in Int
    BY <1>1, FineMax
  <2>3. Ticks(Carry([c |-> c, f |-> f])) = (c + 1) * FINE_MAX + (f - FINE_MAX)
    BY <2>1 DEF Ticks
  <2> QED BY <2>1, <2>2, <2>3, OneMore, FineMax DEF Dates
<1>2. CASE ~(f > FINE_MAX)
  <2>1. Carry([c |-> c, f |-> f]) = [c |-> c, f |-> f]
    BY <1>2 DEF Carry
  <2>2. f \in 0..FINE_MAX
    BY <1>2, FineMax
  <2> QED BY <2>1, <2>2 DEF Dates, Ticks
<1> QED BY <1>1, <1>2

(* rtimer_hwdate_to_lgdate: in ticks of the logical clock, the logical date is the hardware
   date plus the offset; neither carry changes it. *)
LEMMA LogicalDate ==
  ASSUME NEW t \in Dates, NEW o \in Int, FINE_MAX <= 2 * o, 2 * o <= 3 * FINE_MAX
  PROVE  /\ hwdate_to_lgdate(t, o) \in Dates
         /\ Ticks(hwdate_to_lgdate(t, o)) = Ticks(t) + o
<1>1. /\ t.c \in Int /\ t.f \in 0..FINE_MAX /\ t = [c |-> t.c, f |-> t.f]
      /\ Ticks(t) = t.c * FINE_MAX + t.f
  BY DateTicks
<1> DEFINE low   == t.f + (o - FINE_MAX)
           plain == t.f + o
<1>2. /\ low \in Int /\ plain \in Int /\ plain >= 0 /\ plain < Word
      /\ o > FINE_MAX => low >= 0 /\ low < Word /\ low <= 2 * FINE_MAX
      /\ ~(o > FINE_MAX) => plain <= 2 * FINE_MAX
  BY <1>1, FineMax, WordLarge
<1>3. U(plain) = plain /\ (o > FINE_MAX => U(low) = low)
  BY <1>2, WordLarge DEF U
<1>4. hwdate_to_lgdate(t, o) = IF o > FINE_MAX THEN Carry([c |-> t.c + 1, f |-> low])
                               ELSE Carry([c |-> t.c, f |-> plain])
  BY <1>3 DEF hwdate_to_lgdate
<1> HIDE DEF low, plain
<1>5. CASE o > FINE_MAX
  <2>1. t.c + 1 \in Int
    BY <1>1
  <2>2. /\ hwdate_to_lgdate(t, o) \in Dates
        /\ Ticks(hwdate_to_lgdate(t, o)) = (t.c + 1) * FINE_MAX + low
    BY <1>2, <1>4, <1>5, <2>1, CarryDate
  <2> QED BY <1>1, <2>2, OneMore, FineMax DEF low
<1>6. CASE ~(o > FINE_MAX)
  <2>1. /\ hwdate_to_lgdate(t, o) \in Dates
        /\ Ticks(hwdate_to_lgdate(t, o)) = t.c * FINE_MAX + plain
    BY <1>1, <1>2, <1>4, <1>6, CarryDate
  <2> QED BY <1>1, <2>1, OneMore, FineMax DEF plain
<1> QED BY <1>5, <1>6

(* The clock shows a date. *)
LEMMA NowDate ==
  ASSUME ClockInv, OffsetInRange
  PROVE  Now \in Dates /\ Now.c = coarse_count /\ Now.f = fine /\ LogicalNow \in Dates
<1>1. Now \in Dates /\ Now.c = coarse_count /\ Now.f = fine
  BY DEF ClockInv, Now, Dates
<1> QED BY <1>1, LogicalDate DEF ClockInv, OffsetInRange, LogicalNow

(* The reading of the logical clock, in ticks. *)
LEMMA NowTicks ==
  ASSUME ClockInv, OffsetInRange
  PROVE  Ticks(LogicalNow) = coarse_count * FINE_MAX + fine + fine_offset
<1>1. Now \in Dates /\ Now.c = coarse_count /\ Now.f = fine
  BY NowDate
<1>2. Ticks(Now) = coarse_count * FINE_MAX + fine
  BY <1>1, DateTicks
<1> QED BY <1>1, <1>2, LogicalDate DEF ClockInv, OffsetInRange, LogicalNow

(* A step of the hardware clock moves the logical clock on by one tick or, at the
   overflow, by none; it never moves it back. *)
THEOREM LogicalClockNeverBack == Spec => LogicalClockSteady
<1> DEFINE Steady == OffsetInRange /\ fine' # fine =>
                       Ticks(LogicalNow') - Ticks(LogicalNow) = IF fine = FINE_MAX THEN 0 ELSE 1
<1>1. ASSUME ClockInv, ClockInv', [Next]_vars PROVE [Steady]_vars
  <2> SUFFICES ASSUME OffsetInRange, fine' # fine
               PROVE  Ticks(LogicalNow') - Ticks(LogicalNow) = IF fine = FINE_MAX THEN 0 ELSE 1
    OBVIOUS
  <2>1. Tick
    BY <1>1 DEF Next, Fire, ScheduleDate, ScheduleInterval, AdjustFine, AdjustCoarse, vars
  <2>6. OffsetInRange'
    BY <2>1 DEF Tick, OffsetInRange
  <2>2. Ticks(LogicalNow') = coarse_count' * FINE_MAX + fine' + fine_offset'
    <3>1. Now' \in Dates /\ Now'.c = coarse_count' /\ Now'.f = fine'
      BY <1>1 DEF ClockInv, Now, Dates
    <3>2. Ticks(Now') = coarse_count' * FINE_MAX + fine'
      BY <3>1, DateTicks
    <3> QED BY <1>1, <2>6, <3>1, <3>2, LogicalDate DEF ClockInv, OffsetInRange, LogicalNow
  <2>3. /\ fine' = IF fine = FINE_MAX THEN 0 ELSE fine + 1
        /\ coarse_count' = IF fine = FINE_MAX THEN coarse_count + 1 ELSE coarse_count
        /\ fine_offset' = fine_offset
    BY <2>1 DEF Tick
  <2>4. coarse_count \in Int /\ fine \in 0..FINE_MAX /\ fine_offset \in Int
    BY <1>1 DEF ClockInv
  <2>5. Ticks(LogicalNow) = coarse_count * FINE_MAX + fine + fine_offset
    BY <1>1, NowTicks
  <2> QED BY <2>2, <2>3, <2>4, <2>5, OneMore, FineMax
<1> QED BY <1>1, ClockInvariant, PTL DEF Spec, LogicalClockSteady

(* rtimer_adjust_fine_offset(diff) sets the logical clock back by diff, also when
   it moves a whole period between the offset and the coarse count. *)
THEOREM AdjustmentsMoveTheClock == Spec => AdjustmentsExact
<1> DEFINE Exact == \A d \in Diffs : OffsetInRange /\ OneCarry(d) /\ AdjustFine(d) =>
                      Ticks(LogicalNow') = Ticks(LogicalNow) - d
<1>1. ASSUME ClockInv, ClockInv' PROVE [Exact]_vars
  <2> SUFFICES ASSUME NEW d \in Diffs, OffsetInRange, OneCarry(d), AdjustFine(d)
               PROVE  Ticks(LogicalNow') = Ticks(LogicalNow) - d
    OBVIOUS
  <2>1. coarse_count' = Moved(d).c /\ fine_offset' = Moved(d).f /\ fine' = fine
    BY DEF AdjustFine
  <2>6. OffsetInRange'
    BY <1>1, <2>1, MovedKeeps DEF OffsetInRange
  <2>2. Ticks(LogicalNow') = coarse_count' * FINE_MAX + fine' + fine_offset'
    <3>1. Now' \in Dates /\ Now'.c = coarse_count' /\ Now'.f = fine'
      BY <1>1 DEF ClockInv, Now, Dates
    <3>2. Ticks(Now') = coarse_count' * FINE_MAX + fine'
      BY <3>1, DateTicks
    <3> QED BY <1>1, <2>6, <3>1, <3>2, LogicalDate DEF ClockInv, OffsetInRange, LogicalNow
  <2>3. coarse_count \in Int /\ fine \in 0..FINE_MAX /\ fine_offset \in Int /\ d \in Int
    BY <1>1, DiffsAssumption DEF ClockInv
  <2>4. Ticks(LogicalNow) = coarse_count * FINE_MAX + fine + fine_offset
    BY <1>1, NowTicks
  <2>5. \/ coarse_count' = coarse_count /\ fine_offset' = fine_offset - d
        \/ coarse_count' = coarse_count - 1 /\ fine_offset' = fine_offset - d + FINE_MAX
        \/ coarse_count' = coarse_count + 1 /\ fine_offset' = fine_offset - d - FINE_MAX
    BY <1>1, <2>1, MovedKeeps
  <2> QED BY <2>1, <2>2, <2>3, <2>4, <2>5, OneMore, FineMax
<1> QED BY <1>1, ClockInvariant, PTL DEF Spec, AdjustmentsExact

(* gtsp_recv of a clock d ticks on, for any two dates less than the threshold apart. *)
LEMMA CloseMeasured ==
  ASSUME NEW c \in Int, NEW f \in 0..FINE_MAX, NEW t, t = [c |-> c, f |-> f],
         NEW d \in (1 - THRESHOLD)..(THRESHOLD - 1)
  PROVE  LET m == Measure(t, Shifted(t, d))
         IN  m.coarse = 0 /\ Abs(m.fine) = Abs(d) /\ (d <= 0 => m.fine = -d)
<1>1. /\ d \in Int /\ -THRESHOLD < d /\ d < THRESHOLD /\ THRESHOLD \in Nat
      /\ 2 * THRESHOLD < FINE_MAX
  BY ThresholdAssumption
<1>2. CASE f + d < 0
  <2>1. Shifted(t, d) = [c |-> c - 1, f |-> f + d + FINE_MAX]
    BY <1>2 DEF Shifted
  <2>2. Measure(t, Shifted(t, d)) = [coarse |-> 0, fine |-> (FINE_MAX - (f + d + FINE_MAX)) + f]
    BY <1>1, <1>2, <2>1, FineMax DEF Measure
  <2> QED BY <1>1, <1>2, <2>2, FineMax DEF Abs
<1>3. CASE f + d \in 0..FINE_MAX
  <2>1. Shifted(t, d) = [c |-> c, f |-> f + d]
    <3>1. [t EXCEPT !.f = @ + d] = [c |-> c, f |-> f + d]
      OBVIOUS
    <3> QED BY <1>1, <1>3, <3>1, FineMax DEF Shifted, Carry
  <2>2. Measure(t, Shifted(t, d)) = [coarse |-> 0, fine |-> f - (f + d)]
    BY <1>1, <1>3, <2>1, FineMax DEF Measure
  <2> QED BY <1>1, <1>3, <2>2, FineMax DEF Abs
<1>4. CASE f + d > FINE_MAX
  <2>1. Shifted(t, d) = [c |-> c + 1, f |-> f + d - FINE_MAX]
    <3>1. [t EXCEPT !.f = @ + d] = [c |-> c, f |-> f + d]
      OBVIOUS
    <3>2. Carry([c |-> c, f |-> f + d]) = [c |-> c + 1, f |-> f + d - FINE_MAX]
      BY <1>1, <1>4, FineMax DEF Carry
    <3>3. Carry([c |-> c + 1, f |-> f + d - FINE_MAX]) = [c |-> c + 1, f |-> f + d - FINE_MAX]
      BY <1>1, <1>4, FineMax DEF Carry
    <3> QED BY <1>1, <1>4, <3>1, <3>2, <3>3, FineMax DEF Shifted
  <2>2. Measure(t, Shifted(t, d)) = [coarse |-> 0, fine |-> (FINE_MAX - f) + (f + d - FINE_MAX)]
    BY <1>1, <1>4, <2>1, FineMax DEF Measure
  <2> QED BY <1>1, <1>4, <2>2, FineMax DEF Abs
<1> QED BY <1>1, <1>2, <1>3, <1>4, FineMax

(* gtsp_recv measures no coarse difference to a clock less than the threshold away, on
   whichever side of an overflow the two clocks are, and the right distance. *)
THEOREM NeighboursMeasuredRight == Spec => []MeasuredRight
<1>1. ClockInv => MeasuredRight
  <2> SUFFICES ASSUME ClockInv, OffsetInRange, NEW d \in (1 - THRESHOLD)..(THRESHOLD - 1)
               PROVE  LET m == Measure(LogicalNow, Shifted(LogicalNow, d))
                      IN  m.coarse = 0 /\ Abs(m.fine) = Abs(d) /\ (d <= 0 => m.fine = -d)
    BY DEF MeasuredRight
  <2>1. /\ LogicalNow = [c |-> LogicalNow.c, f |-> LogicalNow.f]
        /\ LogicalNow.c \in Int /\ LogicalNow.f \in 0..FINE_MAX
    BY NowDate, DateTicks
  <2> QED BY <2>1, CloseMeasured
<1> QED BY <1>1, ClockInvariant, PTL

-----------------------------------------------------------------------------
(* The rest is about the dates of the timer. *)

(* The hardware clock has not passed the hardware date of the timer, and its coarse
   count does not wrap on the way there. *)
NotPassed ==
  /\ rt.hw.c > coarse_count \/ (rt.hw.c = coarse_count /\ rt.hw.f >= fine)
  /\ Turn(rt.hw.c) = Turn(coarse_count)

(* The logical date at which the hardware date of the timer comes, and the logical date
   it is for, are not further apart than FiresOnDate allows. *)
CloseToDate ==
  /\ Ticks(rt.hw) + fine_offset - Ticks(rt.lg) <= ahead + RESCHEDULE * small
  /\ Ticks(rt.lg) - (Ticks(rt.hw) + fine_offset) <= ahead + RESCHEDULE * small

(* The timer's dates are in order. *)
TimerInOrder ==
  /\ rt \in [state : {"JUST_EXPIRED", "SCHEDULED", "INACTIVE"}, lg : Dates, hw : Dates]
  /\ small \in Nat /\ ahead \in Int
  /\ rt.state = "SCHEDULED" /\ ahead >= 0 => NotPassed /\ CloseToDate

(* Clock and timer while the offset is in its range.  scheduler_fine_offset_ref follows
   the offset. *)
DatesInv ==
  ClockInv /\ OffsetInRange /\ offset_ref = fine_offset /\ ref \in Dates /\ TimerInOrder

(* The inductive invariant of FiresOnDate *)
TimeInv == ClockInv /\ (~overshot => DatesInv)

(* Division with remainder *)
LEMMA Divided ==
  ASSUME NEW n \in Int, NEW m \in Nat, m > 0
  PROVE  n % m \in 0..m - 1 /\ n \div m \in Int /\ n = m * (n \div m) + (n % m)
  OBVIOUS

(* A number below a word is what a word holds of it. *)
LEMMA BelowWord ==
  ASSUME NEW n \in Nat, n < Word
  PROVE  n % Word = n
<1>1. Word \in Nat /\ Word > 0
  BY WordLarge, FineMax
<1>2. n % Word \in 0..Word - 1 /\ n \div Word \in Int /\ n = Word * (n \div Word) + (n % Word)
  BY <1>1, Divided
<1> DEFINE q == n \div Word
           r == n % Word
<1>3. r \in 0..Word - 1 /\ q \in Int /\ n = Word * q + r
  BY <1>2
<1> HIDE DEF q, r
<1>4. ~(q >= 1)
  <2> SUFFICES ASSUME q >= 1 PROVE FALSE
    OBVIOUS
  <2>1. Word * q >= Word * 1
    BY <1>1, <1>3
  <2> QED BY <1>1, <1>3, <2>1
<1>5. ~(q <= -1)
  <2> SUFFICES ASSUME q <= -1 PROVE FALSE
    OBVIOUS
  <2>1. Word * q <= -Word
    BY <1>1, <1>3
  <2> QED BY <1>1, <1>3, <2>1
<1>6. q = 0
  BY <1>3, <1>4, <1>5
<1> QED BY <1>1, <1>3, <1>6 DEF r

(* Of two coarse counts that have wrapped equally often, the words compare as the counts
   do. *)
LEMMA HeldOrder ==
  ASSUME NEW a \in Int, NEW b \in Int, Turn(a) = Turn(b)
  PROVE  /\ Held(a) \in Int /\ Held(b) \in Int
         /\ Held(a) - Held(b) = a - b
<1>1. CoarseWord \in Nat /\ CoarseWord > 0
  BY CoarseWordAssumption
<1>2. /\ a % CoarseWord \in 0..CoarseWord - 1 /\ a \div CoarseWord \in Int
      /\ a = CoarseWord * (a \div CoarseWord) + (a % CoarseWord)
      /\ b % CoarseWord \in 0..CoarseWord - 1 /\ b \div CoarseWord \in Int
      /\ b = CoarseWord * (b \div CoarseWord) + (b % CoarseWord)
  BY <1>1, Divided
<1> DEFINE q == CoarseWord * (a \div CoarseWord)
<1>3. q \in Int /\ a = q + (a % CoarseWord) /\ b = q + (b % CoarseWord)
  BY <1>1, <1>2 DEF Turn
<1> HIDE DEF q
<1>4. a % CoarseWord \in Int /\ b % CoarseWord \in Int
  BY <1>1, <1>2
<1> QED BY <1>3, <1>4 DEF Held

(* A count between two that have wrapped equally often has wrapped as often as they. *)
LEMMA TurnBetween ==
  ASSUME NEW a \in Int, NEW b \in Int, NEW c \in Int, a <= b, b <= c, Turn(a) = Turn(c)
  PROVE  Turn(b) = Turn(a)
<1> DEFINE w  == CoarseWord
           qa == a \div CoarseWord
           qb == b \div CoarseWord
           ra == a % CoarseWord
           rb == b % CoarseWord
           rc == c % CoarseWord
<1>1. w \in Nat /\ w > 0
  BY CoarseWordAssumption
<1>2. /\ qa \in Int /\ ra \in 0..w - 1 /\ a = w * qa + ra
      /\ qb \in Int /\ rb \in 0..w - 1 /\ b = w * qb + rb
      /\ rc \in 0..w - 1 /\ c = w * qa + rc
  BY <1>1, Divided DEF Turn
<1> HIDE DEF w, qa, qb, ra, rb, rc
<1>3. ~(qb >= qa + 1)
  <2> SUFFICES ASSUME qb >= qa + 1 PROVE FALSE
    OBVIOUS
  <2>1. w * qb >= w * qa + w
    BY <1>1, <1>2
  <2> QED BY <1>1, <1>2, <2>1
<1>4. ~(qb <= qa - 1)
  <2> SUFFICES ASSUME qb <= qa - 1 PROVE FALSE
    OBVIOUS
  <2>1. w * qb <= w * qa - w
    BY <1>1, <1>2
  <2> QED BY <1>1, <1>2, <2>1
<1>5. qb = qa
  BY <1>2, <1>3, <1>4
<1> QED BY <1>5 DEF Turn, qa, qb

(* rtimer_lginterval_to_hwdate: n ticks after then, also over many periods. *)
LEMMA IntervalDate ==
  ASSUME NEW n \in Nat, NEW then \in Dates
  PROVE  /\ lginterval_to_hwdate(n, then) \in Dates
         /\ Ticks(lginterval_to_hwdate(n, then)) = Ticks(then) + n
<1> DEFINE m == IF FINE_MAX < n THEN [c |-> n \div FINE_MAX, f |-> n % FINE_MAX]
                ELSE [c |-> 0, f |-> n]
           q == m.c
           r == m.f
           s == Carry([c |-> q, f |-> r + then.f])
<1>1. /\ m = [c |-> q, f |-> r] /\ q \in Int /\ r \in 0..FINE_MAX /\ n = q * FINE_MAX + r
  <2>1. /\ n % FINE_MAX \in 0..FINE_MAX - 1 /\ n \div FINE_MAX \in Int
        /\ n = FINE_MAX * (n \div FINE_MAX) + (n % FINE_MAX)
    BY Divided, FineMax
  <2> DEFINE d == n \div FINE_MAX
             e == n % FINE_MAX
  <2>2. e \in 0..FINE_MAX - 1 /\ d \in Int /\ n = FINE_MAX * d + e
    BY <2>1
  <2>3. m = IF FINE_MAX < n THEN [c |-> d, f |-> e] ELSE [c |-> 0, f |-> n]
    OBVIOUS
  <2> HIDE DEF d, e, m
  <2> QED BY <2>2, <2>3, FineMax
<1>2. /\ then.c \in Int /\ then.f \in 0..FINE_MAX /\ Ticks(then) = then.c * FINE_MAX + then.f
  BY DateTicks
<1>3. lginterval_to_hwdate(n, then) = [s EXCEPT !.c = @ + then.c]
  <2>1. [m EXCEPT !.f = @ + then.f] = [c |-> q, f |-> r + then.f]
    BY <1>1
  <2> QED BY <2>1 DEF lginterval_to_hwdate
<1> HIDE DEF m, q, r
<1>4. r + then.f \in Int /\ 0 <= r + then.f /\ r + then.f <= 2 * FINE_MAX
  BY <1>1, <1>2, FineMax
<1>5. s \in Dates /\ Ticks(s) = q * FINE_MAX + (r + then.f)
  BY <1>1, <1>4, CarryDate
<1> HIDE DEF s
<1>6. s.c \in Int /\ s.f \in 0..FINE_MAX /\ s = [c |-> s.c, f |-> s.f] /\ Ticks(s) = s.c * FINE_MAX + s.f
  BY <1>5, DateTicks
<1>7. [s EXCEPT !.c = @ + then.c] = [c |-> s.c + then.c, f |-> s.f]
  BY <1>6
<1>8. (s.c + then.c) * FINE_MAX = s.c * FINE_MAX + then.c * FINE_MAX
  BY <1>2, <1>6, FineMax
<1>9. lginterval_to_hwdate(n, then) \in Dates
      /\ Ticks(lginterval_to_hwdate(n, then)) = (s.c + then.c) * FINE_MAX + s.f
  BY <1>2, <1>3, <1>6, <1>7 DEF Dates, Ticks
<1>10. q * FINE_MAX \in Int /\ s.c * FINE_MAX \in Int /\ then.c * FINE_MAX \in Int
  BY <1>1, <1>2, <1>6, FineMax
<1>11. r \in Int /\ s.f \in Int /\ then.f \in Int
  BY <1>1, <1>2, <1>6, FineMax
<1> QED BY <1>1, <1>2, <1>5, <1>6, <1>8, <1>9, <1>10, <1>11

(* rtimer_lgdates_to_lg_interval, to a date that lies ahead by less than a word: as the
   interval counts whole periods and the dates carry a tick before, it is e ticks too long
   when e periods are counted. *)
LEMMA IntervalTo ==
  ASSUME NEW t \in Dates, NEW then \in Dates, Coming(then, t)
  PROVE  \E e \in Nat :
           /\ lgdates_to_lg_interval(t, then) = (Ticks(t) - Ticks(then)) + e
           /\ lgdates_to_lg_interval(t, then) >= e * FINE_MAX + e
           /\ lgdates_to_lg_interval(t, then) \in Nat
<1> DEFINE k == t.c - then.c
<1>1. /\ t.c \in Int /\ t.f \in 0..FINE_MAX /\ t.f \in Int /\ Ticks(t) = t.c * FINE_MAX + t.f
      /\ then.c \in Int /\ then.f \in 0..FINE_MAX /\ then.f \in Int
      /\ Ticks(then) = then.c * FINE_MAX + then.f
  BY DateTicks
<1>2. k \in Int /\ k * FINE_MAX \in Int /\ k * FINE_MAX = t.c * FINE_MAX - then.c * FINE_MAX
      /\ t.c * FINE_MAX \in Int /\ then.c * FINE_MAX \in Int
  BY <1>1, FineMax
<1>3. Ticks(t) - Ticks(then) = k * FINE_MAX + (t.f - then.f)
  BY <1>1, <1>2
<1>4. Period = FINE_MAX + 1 /\ Period \in Int /\ FINE_MAX \in Nat
  BY FineMax, PeriodAssumption DEF FINE_MAX
<1>5. /\ k > 0 \/ (k = 0 /\ then.f < t.f)
      /\ k * Period + (t.f - then.f) < Word
  BY <1>1 DEF Coming, Before
<1>6. k * Period = k * FINE_MAX + k
  BY <1>2, <1>4
<1>7. lgdates_to_lg_interval(t, then) =
        IF then.f < t.f THEN (k * Period + (t.f - then.f)) % Word
        ELSE ((k - 1) * Period + t.f + (FINE_MAX - then.f)) % Word
  BY DEF lgdates_to_lg_interval
<1>8. (k - 1) * Period = k * Period - Period /\ (k - 1) * FINE_MAX = k * FINE_MAX - FINE_MAX
  BY <1>2, <1>4
<1> HIDE DEF k
<1>9. CASE then.f < t.f
  <2> DEFINE n == k * Period + (t.f - then.f)
  <2>1. k \in Nat /\ k * FINE_MAX >= 0
    BY <1>2, <1>4, <1>5
  <2>2. n \in Nat /\ n < Word /\ n = (k * FINE_MAX + k) + (t.f - then.f)
    BY <1>1, <1>2, <1>5, <1>6, <1>9, <2>1
  <2>3. lgdates_to_lg_interval(t, then) = n
    <3>1. lgdates_to_lg_interval(t, then) = n % Word
      BY <1>7, <1>9
    <3> HIDE DEF n
    <3> QED BY <2>2, <3>1, BelowWord
  <2>4. n = (Ticks(t) - Ticks(then)) + k /\ n >= k * FINE_MAX + k
    BY <1>1, <1>2, <1>3, <1>9, <2>2
  <2> QED BY <2>1, <2>2, <2>3, <2>4
<1>10. CASE ~(then.f < t.f)
  <2> DEFINE n == (k - 1) * Period + t.f + (FINE_MAX - then.f)
             e == k - 1
  <2>1. e \in Nat /\ e * FINE_MAX >= 0 /\ e * FINE_MAX \in Int /\ e * FINE_MAX = k * FINE_MAX - FINE_MAX
    BY <1>2, <1>4, <1>5, <1>8, <1>10
  <2>2. n = (e * FINE_MAX + e) + (t.f + (FINE_MAX - then.f))
    BY <1>1, <1>2, <1>4, <1>6, <1>8, <2>1
  <2>6. e = k - 1
    OBVIOUS
  <2> DEFINE fm == FINE_MAX
             x == e * fm
             y == k * fm
  <2>7. /\ x \in Int /\ y \in Int /\ x >= 0 /\ x = y - fm /\ n = (x + e) + (t.f + (fm - then.f))
        /\ (y + k) + (t.f - then.f) < Word /\ fm \in Nat /\ t.f \in 0..fm /\ then.f \in 0..fm
        /\ Ticks(t) - Ticks(then) = y + (t.f - then.f)
    BY <1>1, <1>2, <1>3, <1>4, <1>5, <1>6, <2>1, <2>2
  <2> HIDE DEF x, y, n, e, fm
  <2>3. n \in Nat /\ n < Word
    BY <1>2, <2>1, <2>6, <2>7, WordLarge
  <2>4. lgdates_to_lg_interval(t, then) = n
    <3>1. lgdates_to_lg_interval(t, then) = n % Word
      BY <1>7, <1>10 DEF n
    <3> QED BY <2>3, <3>1, BelowWord
  <2>8. n = (Ticks(t) - Ticks(then)) + e /\ n >= x + e
    BY <1>2, <2>1, <2>6, <2>7
  <2>5. n = (Ticks(t) - Ticks(then)) + e /\ n >= e * FINE_MAX + e
    BY <2>8 DEF x, fm
  <2> QED BY <2>1, <2>3, <2>4, <2>5
<1> QED BY <1>9, <1>10

(* rtimer_lgdate_to_hwdate gives a date, also for a logical date that has passed. *)
LEMMA HardwareIsDate ==
  ASSUME NEW t \in Dates, NEW now \in Dates, NEW o \in Int, FINE_MAX <= 2 * o, 2 * o <= 3 * FINE_MAX
  PROVE  lgdate_to_hwdate(t, now, o) \in Dates
<1> DEFINE lgnow == hwdate_to_lgdate(now, o)
           n == lgdates_to_lg_interval(t, lgnow)
<1>1. lgnow \in Dates
  BY LogicalDate
<1>2. lgdate_to_hwdate(t, now, o) = lginterval_to_hwdate(n, now)
  BY DEF lgdate_to_hwdate
<1> HIDE DEF lgnow
<1>3. n \in Nat
  <2>1. /\ t.c \in Int /\ t.f \in Int /\ lgnow.c \in Int /\ lgnow.f \in Int /\ FINE_MAX \in Int
        /\ Period \in Int /\ Word \in Nat /\ Word > 0
    BY <1>1, DateTicks, FineMax, PeriodAssumption, WordLarge
  <2> DEFINE x == (t.c - lgnow.c) * Period + (t.f - lgnow.f)
             y == (t.c - lgnow.c - 1) * Period + t.f + (FINE_MAX - lgnow.f)
  <2>2. x \in Int /\ y \in Int
    BY <2>1
  <2>3. n = IF lgnow.f < t.f THEN x % Word ELSE y % Word
    BY DEF lgdates_to_lg_interval
  <2> HIDE DEF x, y, n
  <2>4. x % Word \in 0..Word - 1 /\ y % Word \in 0..Word - 1
    BY <2>1, <2>2, Divided
  <2> QED BY <2>1, <2>3, <2>4
<1> HIDE DEF n
<1> QED BY <1>2, <1>3, IntervalDate

(* A timer whose dates are those of rtimer_schedule when the clock shows now and the
   offset is o: the date is met up to a tick for every period in between. *)
LEMMA HardwareDate ==
  ASSUME NEW t \in Dates, NEW now \in Dates, NEW o \in Int, FINE_MAX <= 2 * o, 2 * o <= 3 * FINE_MAX,
         Coming(hwdate_to_lgdate(now, o), t), NEW hw, hw = lgdate_to_hwdate(t, now, o), now.c <= hw.c
  PROVE  Ticks(t) <= Ticks(hw) + o /\ (Ticks(hw) + o) - Ticks(t) <= hw.c - now.c
<1> DEFINE lgnow == hwdate_to_lgdate(now, o)
           n == lgdates_to_lg_interval(t, lgnow)
<1>1. lgnow \in Dates /\ Ticks(lgnow) = Ticks(now) + o
  BY LogicalDate
<1>2. hw = lginterval_to_hwdate(n, now)
  BY DEF lgdate_to_hwdate
<1>3. Coming(lgnow, t)
  OBVIOUS
<1> HIDE DEF lgnow
<1>4. PICK e \in Nat : n = (Ticks(t) - Ticks(lgnow)) + e /\ n >= e * FINE_MAX + e /\ n \in Nat
  BY <1>1, <1>3, IntervalTo
<1> HIDE DEF n
<1>5. hw \in Dates /\ Ticks(hw) = Ticks(now) + n
  BY <1>2, <1>4, IntervalDate
<1>6. /\ hw.c \in Int /\ hw.f \in 0..FINE_MAX /\ hw.f \in Int /\ Ticks(hw) = hw.c * FINE_MAX + hw.f
      /\ now.c \in Int /\ now.f \in 0..FINE_MAX /\ now.f \in Int /\ Ticks(now) = now.c * FINE_MAX + now.f
      /\ Ticks(t) \in Int /\ Ticks(now) \in Int /\ Ticks(hw) \in Int /\ FINE_MAX \in Nat
  BY <1>5, DateTicks, FineMax
<1>7. (Ticks(hw) + o) - Ticks(t) = e
  BY <1>1, <1>4, <1>5, <1>6
<1>8. e <= hw.c - now.c
  <2> SUFFICES ASSUME hw.c - now.c <= e - 1 PROVE FALSE
    BY <1>4, <1>6
  <2> DEFINE k == hw.c - now.c
  <2>1. k \in Int /\ k * FINE_MAX = hw.c * FINE_MAX - now.c * FINE_MAX
        /\ k * FINE_MAX \in Int /\ hw.c * FINE_MAX \in Int /\ now.c * FINE_MAX \in Int
    BY <1>6
  <2>2. k <= e - 1 /\ 0 <= k
    BY <1>6
  <2> HIDE DEF k
  <2>3. k * FINE_MAX <= (e - 1) * FINE_MAX
    BY <1>6, <2>1, <2>2
  <2>4. (e - 1) * FINE_MAX = e * FINE_MAX - FINE_MAX /\ e * FINE_MAX \in Int
    BY <1>6
  <2>5. n = k * FINE_MAX + (hw.f - now.f)
    BY <1>4, <1>5, <1>6, <2>1
  <2> QED BY <1>4, <1>6, <2>1, <2>2, <2>3, <2>4, <2>5
<1> QED BY <1>6, <1>7, <1>8

(* The end of rtimer_schedule, when it takes the dates lg and hw. *)
LEMMA SetInOrder ==
  ASSUME NEW lg \in Dates, NEW hw \in Dates, NEW now \in Dates, NEW coming,
         ~TooSoon(hw, now), Set(lg, hw, now, coming),
         coarse_count' = now.c, fine' = now.f, fine_offset' \in Int,
         coming /\ now.c <= hw.c =>
           /\ Ticks(lg) <= Ticks(hw) + fine_offset'
           /\ (Ticks(hw) + fine_offset') - Ticks(lg) <= hw.c - now.c
  PROVE  TimerInOrder'
<1>1. rt' = [state |-> "SCHEDULED", lg |-> lg, hw |-> hw] /\ small' = 0
      /\ ahead' = IF coming /\ Turn(hw.c) = Turn(now.c) THEN hw.c - now.c ELSE -1
  BY DEF Set
<1>2. rt' \in [state : {"JUST_EXPIRED", "SCHEDULED", "INACTIVE"}, lg : Dates, hw : Dates]
      /\ rt'.hw = hw /\ rt'.lg = lg
  BY <1>1
<1>3. /\ hw.c \in Int /\ now.c \in Int /\ hw.f \in Int /\ now.f \in Int
      /\ Ticks(hw) \in Int /\ Ticks(lg) \in Int
  BY DateTicks
<1>4. small' \in Nat /\ ahead' \in Int /\ RESCHEDULE * small' = 0
  BY <1>1, <1>3, MarginAssumption
<1>5. ASSUME Turn(hw.c) = Turn(now.c)
      PROVE  hw.c > now.c \/ (hw.c = now.c /\ hw.f >= now.f)
  <2>1. ~(Held(hw.c) < Held(now.c)) /\ (Held(hw.c) = Held(now.c) => ~(hw.f < now.f + MARGIN))
    BY DEF TooSoon
  <2>2. MARGIN \in Nat
    BY MarginAssumption
  <2>5. Held(hw.c) \in Int /\ Held(now.c) \in Int /\ Held(hw.c) - Held(now.c) = hw.c - now.c
    BY <1>3, <1>5, HeldOrder
  <2> DEFINE a == hw.c
             b == now.c
             x == hw.f
             y == now.f
             ha == Held(hw.c)
             hb == Held(now.c)
  <2>3. /\ a \in Int /\ b \in Int /\ x \in Int /\ y \in Int /\ ha \in Int /\ hb \in Int
        /\ ha - hb = a - b /\ ~(ha < hb) /\ (ha = hb => ~(x < y + MARGIN))
    BY <1>3, <2>1, <2>5
  <2> HIDE DEF a, b, x, y, ha, hb
  <2>4. a > b \/ (a = b /\ x >= y)
    BY <2>2, <2>3
  <2> QED BY <2>4 DEF a, b, x, y
<1>6. ASSUME ahead' >= 0 PROVE NotPassed' /\ CloseToDate'
  <2>1. coming /\ Turn(hw.c) = Turn(now.c) /\ ahead' = hw.c - now.c
    BY <1>1, <1>6
  <2>2. NotPassed'
    BY <1>2, <1>5, <2>1 DEF NotPassed
  <2>4. now.c <= hw.c
    BY <1>3, <1>5, <2>1
  <2>3. /\ Ticks(hw) + fine_offset' - Ticks(lg) <= ahead' + RESCHEDULE * small'
        /\ Ticks(lg) - (Ticks(hw) + fine_offset') <= ahead' + RESCHEDULE * small'
    BY <1>3, <1>4, <1>6, <2>1, <2>4
  <2> QED BY <1>2, <2>2, <2>3 DEF CloseToDate
<1> QED BY <1>2, <1>4, <1>6 DEF TimerInOrder

(* A clock that is still ahead has not passed the date. *)
LEMMA AheadNotPassed ==
  ASSUME NEW now \in Dates, NEW hw \in Dates, StillAhead(now, hw)
  PROVE  Turn(hw.c) = Turn(now.c) /\ (hw.c > now.c \/ (hw.c = now.c /\ hw.f >= now.f))
<1> DEFINE a == hw.c
           b == now.c
           x == hw.f
           y == now.f
<1>1. /\ a \in Int /\ b \in Int /\ x \in Int /\ y \in Int /\ Turn(a) = Turn(b)
      /\ ~(a < b \/ (a = b /\ x < y))
  BY DateTicks DEF StillAhead, Before
<1> HIDE DEF a, b, x, y
<1>2. a > b \/ (a = b /\ x >= y)
  BY <1>1
<1> QED BY <1>1, <1>2 DEF a, b, x, y

(* A step that changes neither the timer nor the clocks *)
LEMMA InOrderStill ==
  ASSUME TimerInOrder, UNCHANGED <<coarse_count, fine, fine_offset, rt, small, ahead>>
  PROVE  TimerInOrder'
  BY DEF TimerInOrder, NotPassed, CloseToDate

(* The dates that are asked for are dates. *)
LEMMA ShiftedDate ==
  ASSUME NEW t \in Dates, NEW n \in -FINE_MAX..2 * FINE_MAX
  PROVE  Shifted(t, n) \in Dates
<1>1. t.c \in Int /\ t.f \in 0..FINE_MAX /\ t = [c |-> t.c, f |-> t.f] /\ t.f \in Int /\ n \in Int
      /\ -FINE_MAX <= n /\ n <= 2 * FINE_MAX
  BY DateTicks, FineMax
<1>2. CASE t.f + n < 0
  BY <1>1, <1>2, FineMax DEF Shifted, Dates
<1>3. CASE ~(t.f + n < 0)
  <2> DEFINE s == Carry([c |-> t.c, f |-> t.f + n])
  <2>1. [t EXCEPT !.f = @ + n] = [c |-> t.c, f |-> t.f + n]
    BY <1>1
  <2>2. Shifted(t, n) = Carry(s)
    BY <1>3, <2>1 DEF Shifted
  <2>3. s.c \in Int /\ s.f \in Int /\ 0 <= s.f /\ s.f <= 2 * FINE_MAX /\ s = [c |-> s.c, f |-> s.f]
    <3>1. CASE t.f + n > FINE_MAX
      <4>1. s = [c |-> t.c + 1, f |-> (t.f + n) - FINE_MAX]
        BY <3>1, <1>1, FineMax DEF Carry
      <4> QED BY <1>1, <3>1, <4>1, FineMax
    <3>2. CASE ~(t.f + n > FINE_MAX)
      <4>1. s = [c |-> t.c, f |-> t.f + n]
        BY <3>2 DEF Carry
      <4> QED BY <1>1, <1>3, <3>2, <4>1, FineMax
    <3> QED BY <3>1, <3>2
  <2> HIDE DEF s
  <2> QED BY <2>2, <2>3, CarryDate
<1> QED BY <1>2, <1>3

(* A tick of the hardware clock does not pass the date of a timer that is not due. *)
LEMMA TickInOrder == ASSUME DatesInv, Tick PROVE TimerInOrder'
<1>1. /\ rt \in [state : {"JUST_EXPIRED", "SCHEDULED", "INACTIVE"}, lg : Dates, hw : Dates]
      /\ small \in Nat /\ ahead \in Int /\ coarse_count \in Int /\ fine \in 0..FINE_MAX
  BY DEF DatesInv, TimerInOrder, ClockInv
<1>2. rt.hw \in Dates
  BY <1>1
<1>3. rt.hw.c \in Int /\ rt.hw.f \in 0..FINE_MAX /\ FINE_MAX \in Nat
  BY <1>2, DateTicks, FineMax
<1>4. /\ fine' = IF fine = FINE_MAX THEN 0 ELSE fine + 1
      /\ coarse_count' = IF fine = FINE_MAX THEN coarse_count + 1 ELSE coarse_count
      /\ UNCHANGED <<fine_offset, rt, small, ahead>> /\ ~Due
  BY DEF Tick
<1>5. ASSUME rt.state = "SCHEDULED", ahead >= 0 PROVE NotPassed' /\ CloseToDate'
  <2>1. NotPassed /\ CloseToDate
    BY <1>5 DEF DatesInv, TimerInOrder
  <2>2. CloseToDate'
    BY <1>4, <2>1 DEF CloseToDate
  <2> DEFINE a == rt.hw.c
             x == rt.hw.f
             ha == Held(rt.hw.c)
             hb == Held(coarse_count)
  <2>6. ha \in Int /\ hb \in Int /\ ha - hb = a - coarse_count /\ Turn(a) = Turn(coarse_count)
    BY <1>1, <1>3, <2>1, HeldOrder DEF NotPassed
  <2>3. /\ a \in Int /\ x \in 0..FINE_MAX /\ ~(x = fine /\ ha <= hb)
        /\ a > coarse_count \/ (a = coarse_count /\ x >= fine)
    BY <1>3, <1>4, <1>5, <2>1 DEF NotPassed, Due
  <2> HIDE DEF a, x, ha, hb
  <2>4. a > coarse_count' \/ (a = coarse_count' /\ x >= fine')
    BY <1>1, <1>3, <1>4, <2>3, <2>6
  <2>7. coarse_count' \in Int /\ coarse_count <= coarse_count' /\ coarse_count' <= a
    BY <1>1, <1>3, <1>4, <2>3, <2>4
  <2>8. Turn(a) = Turn(coarse_count')
    BY <1>1, <2>3, <2>6, <2>7, TurnBetween
  <2>5. rt' = rt
    BY <1>4
  <2> QED BY <2>2, <2>4, <2>5, <2>8 DEF NotPassed, a, x
<1> QED BY <1>1, <1>4, <1>5 DEF TimerInOrder

(* rtimer_schedule with RTIMER_DATE *)
LEMMA DateInOrder ==
  ASSUME DatesInv, NEW d \in Dates, ScheduleDate(d)
  PROVE  TimerInOrder' /\ ref' \in Dates
<1> DEFINE hw == lgdate_to_hwdate(d, Now, fine_offset)
           lgnow == hwdate_to_lgdate(Now, fine_offset)
<1>1. /\ Now \in Dates /\ Now.c = coarse_count /\ Now.f = fine /\ coarse_count \in Int
      /\ fine_offset \in Int /\ FINE_MAX <= 2 * fine_offset /\ 2 * fine_offset <= 3 * FINE_MAX
  BY NowDate DEF DatesInv, ClockInv, OffsetInRange
<1>2. /\ ref' = Now /\ UNCHANGED <<coarse_count, fine, fine_offset>>
      /\ Set(d, hw, Now, Coming(lgnow, d))
  BY DEF ScheduleDate
<1>3. CASE TooSoon(hw, Now)
  <2>1. UNCHANGED <<rt, small, ahead>>
    BY <1>2, <1>3 DEF Set
  <2>2. TimerInOrder'
    BY <1>2, <2>1, InOrderStill DEF DatesInv
  <2> QED BY <1>1, <1>2, <2>2
<1>4. CASE ~TooSoon(hw, Now)
  <2>1. hw \in Dates
    BY <1>1, HardwareIsDate
  <2>3. Coming(lgnow, d) /\ Now.c <= hw.c =>
          /\ Ticks(d) <= Ticks(hw) + fine_offset
          /\ (Ticks(hw) + fine_offset) - Ticks(d) <= hw.c - Now.c
    BY <1>1, HardwareDate
  <2> HIDE DEF hw, lgnow
  <2>4. TimerInOrder'
    BY <1>1, <1>2, <1>4, <2>1, <2>3, SetInOrder
  <2> QED BY <1>1, <1>2, <2>4
<1> QED BY <1>3, <1>4

(* rtimer_schedule with an interval, from now or from the reference *)
LEMMA IntervalInOrder ==
  ASSUME DatesInv, NEW n \in Intervals, NEW then \in Dates, ScheduleInterval(n, then)
  PROVE  TimerInOrder'
<1> DEFINE hw == lginterval_to_hwdate(n, then)
           lg == hwdate_to_lgdate(hw, fine_offset)
<1>1. /\ Now \in Dates /\ Now.c = coarse_count /\ Now.f = fine /\ n \in Nat
      /\ fine_offset \in Int /\ FINE_MAX <= 2 * fine_offset /\ 2 * fine_offset <= 3 * FINE_MAX
  BY NowDate, DatesAssumption DEF DatesInv, ClockInv, OffsetInRange
<1>2. UNCHANGED <<coarse_count, fine, fine_offset>> /\ Set(lg, hw, Now, TRUE)
  BY DEF ScheduleInterval
<1>3. hw \in Dates
  BY <1>1, IntervalDate
<1> HIDE DEF hw
<1>4. lg \in Dates /\ Ticks(lg) = Ticks(hw) + fine_offset
  BY <1>1, <1>3, LogicalDate
<1> HIDE DEF lg
<1>5. CASE TooSoon(hw, Now)
  <2>1. UNCHANGED <<rt, small, ahead>>
    BY <1>2, <1>5 DEF Set
  <2> QED BY <1>2, <2>1, InOrderStill DEF DatesInv
<1>6. CASE ~TooSoon(hw, Now)
  <2>1. hw.c \in Int /\ Now.c \in Int /\ Ticks(hw) \in Int
    BY <1>1, <1>3, DateTicks
  <2>3. Now.c <= hw.c => /\ Ticks(lg) <= Ticks(hw) + fine_offset
                         /\ (Ticks(hw) + fine_offset) - Ticks(lg) <= hw.c - Now.c
    BY <1>1, <1>4, <2>1
  <2> QED BY <1>1, <1>2, <1>3, <1>4, <1>6, <2>3, SetInOrder
<1> QED BY <1>5, <1>6

(* rtimer_adjust_fine_offset: the offset of a timer that is not scheduled again has
   moved by at most RESCHEDULE. *)
LEMMA AdjustInOrder ==
  ASSUME DatesInv, NEW d \in Diffs, OneCarry(d), AdjustFine(d)
  PROVE  TimerInOrder' /\ ref' \in Dates
<1> DEFINE m   == Moved(d)
           now == [c |-> m.c, f |-> fine]
           hw  == lgdate_to_hwdate(rt.lg, now, m.f)
           lgnow == hwdate_to_lgdate(now, m.f)
<1>1. /\ m.c \in Int /\ m.f \in Int /\ FINE_MAX <= 2 * m.f /\ 2 * m.f <= 3 * FINE_MAX
  BY MovedKeeps DEF DatesInv
<1>2. /\ coarse_count' = m.c /\ fine_offset' = m.f /\ fine' = fine
      /\ IF Far(offset_ref - m.f) /\ rt.state = "SCHEDULED"
         THEN /\ ref' = now
              /\ IF TooSoon(hw, now) THEN ahead' = -1 /\ UNCHANGED <<rt, small>>
                 ELSE Set(rt.lg, hw, now, Coming(lgnow, rt.lg))
         ELSE /\ small' = small + 1 /\ UNCHANGED <<ref, rt>>
              /\ ahead' = IF StillAhead(now, rt.hw) THEN ahead ELSE -1
  BY DEF AdjustFine
<1>3. /\ rt \in [state : {"JUST_EXPIRED", "SCHEDULED", "INACTIVE"}, lg : Dates, hw : Dates]
      /\ small \in Nat /\ ahead \in Int /\ rt.lg \in Dates /\ rt.hw \in Dates /\ ref \in Dates
  BY DEF DatesInv, TimerInOrder
<1>4. /\ coarse_count \in Int /\ fine \in 0..FINE_MAX /\ fine_offset \in Int /\ offset_ref = fine_offset
  BY DEF DatesInv, ClockInv
<1> HIDE DEF m
<1>5. now \in Dates /\ now.c = m.c /\ now.f = fine
  BY <1>1, <1>4, Zenon DEF Dates
<1> HIDE DEF now
<1>6. CASE Far(offset_ref - m.f) /\ rt.state = "SCHEDULED" /\ TooSoon(hw, now)
  <2>1. ref' = now /\ ahead' = -1 /\ UNCHANGED <<rt, small>>
    BY <1>2, <1>6
  <2> QED BY <1>3, <1>5, <2>1 DEF TimerInOrder
<1>7. CASE Far(offset_ref - m.f) /\ rt.state = "SCHEDULED" /\ ~TooSoon(hw, now)
  <2>1. ref' = now /\ Set(rt.lg, hw, now, Coming(lgnow, rt.lg))
    BY <1>2, <1>7
  <2>2. hw \in Dates
    BY <1>1, <1>3, <1>5, HardwareIsDate
  <2>4. Coming(lgnow, rt.lg) /\ now.c <= hw.c =>
          /\ Ticks(rt.lg) <= Ticks(hw) + m.f
          /\ (Ticks(hw) + m.f) - Ticks(rt.lg) <= hw.c - now.c
    BY <1>1, <1>3, <1>5, HardwareDate
  <2> HIDE DEF hw, lgnow
  <2>5. TimerInOrder'
    BY <1>1, <1>2, <1>3, <1>5, <1>7, <2>1, <2>2, <2>4, SetInOrder
  <2> QED BY <1>5, <2>1, <2>5
<1>8. CASE ~(Far(offset_ref - m.f) /\ rt.state = "SCHEDULED")
  <2>1. /\ small' = small + 1 /\ UNCHANGED <<ref, rt>>
        /\ ahead' = IF StillAhead(now, rt.hw) THEN ahead ELSE -1
    BY <1>2, <1>8
  <2>2. ASSUME rt.state = "SCHEDULED", ahead' >= 0 PROVE NotPassed' /\ CloseToDate'
    <3>0. StillAhead(now, rt.hw) /\ ahead' = ahead /\ ahead >= 0
      BY <2>1, <2>2
    <3>1. CloseToDate
      BY <2>2, <3>0 DEF DatesInv, TimerInOrder
    <3>2. -RESCHEDULE <= fine_offset - m.f /\ fine_offset - m.f <= RESCHEDULE
          /\ RESCHEDULE \in Nat
      BY <1>1, <1>4, <1>8, <2>2, MarginAssumption DEF Far
    <3>3. Turn(rt.hw.c) = Turn(now.c) /\ (rt.hw.c > now.c \/ (rt.hw.c = now.c /\ rt.hw.f >= now.f))
      BY <1>3, <1>5, <3>0, AheadNotPassed
    <3>4. NotPassed'
      BY <1>2, <1>5, <2>1, <3>3 DEF NotPassed
    <3> DEFINE x == Ticks(rt.hw)
               y == Ticks(rt.lg)
               z == RESCHEDULE * small
    <3>5. /\ x \in Int /\ y \in Int /\ z \in Int
          /\ (x + fine_offset) - y <= ahead + z /\ y - (x + fine_offset) <= ahead + z
      <4>1. x \in Int /\ y \in Int /\ z \in Int
        BY <1>3, <3>2, DateTicks
      <4>2. x + fine_offset - y <= ahead + z /\ y - (x + fine_offset) <= ahead + z
        BY <3>1 DEF CloseToDate
      <4> HIDE DEF x, y, z
      <4> QED BY <1>4, <4>1, <4>2
    <3>6. RESCHEDULE * (small + 1) = z + RESCHEDULE
      BY <1>3, <3>2
    <3> HIDE DEF x, y, z
    <3>7. /\ x + m.f - y <= ahead + (z + RESCHEDULE)
          /\ y - (x + m.f) <= ahead + (z + RESCHEDULE)
      BY <1>1, <1>3, <1>4, <3>2, <3>5
    <3>8. CloseToDate'
      BY <1>2, <2>1, <3>0, <3>6, <3>7 DEF CloseToDate, x, y
    <3> QED BY <3>4, <3>8
  <2>4. small' \in Nat /\ ahead' \in Int
    BY <1>3, <2>1
  <2>3. TimerInOrder'
    BY <1>3, <2>1, <2>2, <2>4 DEF TimerInOrder
  <2> QED BY <1>3, <2>1, <2>3
<1> QED BY <1>6, <1>7, <1>8

(* rtimer_adjust_coarse_count, which leaves the timer alone *)
LEMMA CoarseInOrder ==
  ASSUME DatesInv, NEW d \in CoarseDiffs, AdjustCoarse(d)
  PROVE  TimerInOrder'
<1>1. /\ coarse_count' = coarse_count - d /\ UNCHANGED <<fine, fine_offset, rt, small>>
      /\ ahead' = IF StillAhead([Now EXCEPT !.c = @ - d], rt.hw) THEN ahead ELSE -1
  BY DEF AdjustCoarse
<1>2. /\ rt \in [state : {"JUST_EXPIRED", "SCHEDULED", "INACTIVE"}, lg : Dates, hw : Dates]
      /\ small \in Nat /\ ahead \in Int /\ coarse_count \in Int /\ fine \in 0..FINE_MAX /\ d \in Int
      /\ rt.hw \in Dates
  BY CoarseAssumption DEF DatesInv, TimerInOrder, ClockInv
<1> DEFINE now == [Now EXCEPT !.c = @ - d]
<1>3. now \in Dates /\ now.c = coarse_count' /\ now.f = fine'
  BY <1>1, <1>2 DEF Now, Dates
<1>4. ASSUME rt.state = "SCHEDULED", ahead' >= 0 PROVE NotPassed' /\ CloseToDate'
  <2>1. StillAhead(now, rt.hw) /\ ahead' = ahead /\ ahead >= 0
    BY <1>1, <1>4
  <2>2. CloseToDate
    BY <1>4, <2>1 DEF DatesInv, TimerInOrder
  <2>3. CloseToDate'
    BY <1>1, <2>1, <2>2 DEF CloseToDate
  <2> HIDE DEF now
  <2>4. Turn(rt.hw.c) = Turn(now.c) /\ (rt.hw.c > now.c \/ (rt.hw.c = now.c /\ rt.hw.f >= now.f))
    BY <1>2, <1>3, <2>1, AheadNotPassed
  <2> QED BY <1>1, <1>3, <2>3, <2>4 DEF NotPassed
<1> QED BY <1>1, <1>2, <1>4 DEF TimerInOrder

(* Every step that the offset stays in its range by keeps DatesInv. *)
LEMMA DatesInvStep == ASSUME DatesInv, [Next]_vars, ~overshot' PROVE DatesInv'
<1>1. ClockInv' /\ OffsetInRange'
  BY ClockInvStep DEF DatesInv, ClockInv, OffsetKept
<1>2. ref \in Dates /\ Now \in Dates /\ LogicalNow \in Dates /\ TimerInOrder /\ offset_ref = fine_offset
  BY NowDate DEF DatesInv
<1>3. CASE Tick
  <2>1. TimerInOrder'
    BY <1>3, TickInOrder
  <2> QED BY <1>1, <1>2, <1>3, <2>1 DEF Tick, DatesInv
<1>4. CASE Fire
  <2>1. /\ rt' = [rt EXCEPT !.state = "INACTIVE"] /\ ref' = rt.hw
        /\ UNCHANGED <<small, ahead, fine_offset, offset_ref>>
    BY <1>4 DEF Fire
  <2>2. rt' \in [state : {"JUST_EXPIRED", "SCHEDULED", "INACTIVE"}, lg : Dates, hw : Dates]
        /\ rt'.state = "INACTIVE" /\ ref' \in Dates
    BY <1>2, <2>1 DEF TimerInOrder
  <2>3. TimerInOrder'
    BY <1>2, <2>1, <2>2 DEF TimerInOrder
  <2> QED BY <1>1, <1>2, <2>1, <2>2, <2>3 DEF DatesInv
<1>5. CASE \E n \in Ahead : ScheduleDate(Shifted(LogicalNow, n))
  <2>1. PICK n \in Ahead : ScheduleDate(Shifted(LogicalNow, n))
    BY <1>5
  <2>2. n \in -FINE_MAX..2 * FINE_MAX
    BY DatesAssumption
  <2>3. Shifted(LogicalNow, n) \in Dates
    BY <1>2, <2>2, ShiftedDate
  <2>4. TimerInOrder' /\ ref' \in Dates
    BY <2>1, <2>3, DateInOrder
  <2>5. UNCHANGED <<fine_offset, offset_ref>>
    BY <2>1 DEF ScheduleDate
  <2> QED BY <1>1, <1>2, <2>4, <2>5 DEF DatesInv
<1>6. CASE \E n \in Intervals : ScheduleInterval(n, Now) \/ ScheduleInterval(n, ref)
  <2>1. PICK n \in Intervals, then \in {Now, ref} : ScheduleInterval(n, then)
    BY <1>6
  <2>2. TimerInOrder'
    BY <1>2, <2>1, IntervalInOrder
  <2>3. UNCHANGED <<fine_offset, offset_ref, ref>>
    BY <2>1 DEF ScheduleInterval
  <2> QED BY <1>1, <1>2, <2>2, <2>3 DEF DatesInv
<1>7. CASE \E d \in Diffs : AdjustFine(d)
  <2>1. PICK d \in Diffs : AdjustFine(d)
    BY <1>7
  <2>2. TimerInOrder' /\ ref' \in Dates
    <3>1. OneCarry(d)
      BY <2>1 DEF AdjustFine
    <3> QED BY <2>1, <3>1, AdjustInOrder
  <2>3. offset_ref' = fine_offset'
    BY <2>1 DEF AdjustFine
  <2> QED BY <1>1, <2>2, <2>3 DEF DatesInv
<1>8. CASE \E d \in CoarseDiffs : AdjustCoarse(d)
  <2>1. PICK d \in CoarseDiffs : AdjustCoarse(d)
    BY <1>8
  <2>2. TimerInOrder'
    BY <2>1, CoarseInOrder
  <2>3. UNCHANGED <<fine_offset, offset_ref, ref>>
    BY <2>1 DEF AdjustCoarse
  <2> QED BY <1>1, <1>2, <2>2, <2>3 DEF DatesInv
<1>9. CASE UNCHANGED vars
  BY <1>1, <1>2, <1>9, InOrderStill DEF vars, DatesInv
<1> QED BY <1>3, <1>4, <1>5, <1>6, <1>7, <1>8, <1>9 DEF Next

(* In ticks, the date on which a timer that is not passed fires is its hardware date
   plus the offset. *)
LEMMA FiringTicks ==
  ASSUME DatesInv, rt.state = "SCHEDULED", ahead >= 0
  PROVE  Ticks(Firing) = Ticks(rt.hw) + fine_offset
<1>1. /\ rt.hw \in Dates /\ coarse_count \in Int /\ fine \in 0..FINE_MAX /\ NotPassed
      /\ fine_offset \in Int /\ FINE_MAX <= 2 * fine_offset /\ 2 * fine_offset <= 3 * FINE_MAX
  BY DEF DatesInv, TimerInOrder, ClockInv, OffsetInRange
<1>2. /\ rt.hw.c \in Int /\ rt.hw.f \in 0..FINE_MAX /\ rt.hw = [c |-> rt.hw.c, f |-> rt.hw.f]
  BY <1>1, DateTicks
<1> DEFINE a  == rt.hw.c
           x  == rt.hw.f
           ha == Held(rt.hw.c)
           hb == Held(coarse_count)
           wait == IF ha > hb THEN ha - hb ELSE IF x >= fine THEN 0 ELSE 1
<1>6. ha \in Int /\ hb \in Int /\ ha - hb = a - coarse_count
  BY <1>1, <1>2, HeldOrder DEF NotPassed
<1>7. a \in Int /\ x \in 0..FINE_MAX /\ (a > coarse_count \/ (a = coarse_count /\ x >= fine))
  BY <1>1, <1>2 DEF NotPassed
<1>4. Firing = hwdate_to_lgdate([c |-> coarse_count + wait, f |-> x], fine_offset)
  BY Zenon DEF Firing
<1> HIDE DEF a, x, ha, hb
<1>3. coarse_count + wait = a
  BY <1>1, <1>6, <1>7, FineMax
<1> HIDE DEF wait
<1>5. Firing = hwdate_to_lgdate(rt.hw, fine_offset)
  BY <1>2, <1>3, <1>4 DEF a, x
<1> QED BY <1>1, <1>5, LogicalDate

(* RTIMER_0 fires on its logical date, up to a tick for every period in between and up to
   RESCHEDULE for every adjustment that rtimer_adjust_fine_offset took for too small to
   schedule it again. *)
THEOREM TimerFiresOnDate == Spec => []FiresOnDate
<1>1. Init => TimeInv
  <2> SUFFICES ASSUME Init PROVE TimeInv
    OBVIOUS
  <2>1. ClockInv /\ OffsetInRange
    BY ClockInvInit DEF Init, ClockInv, OffsetKept
  <2>2. Zero \in Dates
    BY FineMax DEF Zero, Dates
  <2>3. TimerInOrder
    BY <2>2 DEF Init, TimerInOrder
  <2> QED BY <2>1, <2>2, <2>3 DEF Init, DatesInv, TimeInv
<1>2. TimeInv /\ [Next]_vars => TimeInv'
  <2> SUFFICES ASSUME TimeInv, [Next]_vars PROVE TimeInv'
    OBVIOUS
  <2>1. ClockInv'
    BY ClockInvStep DEF TimeInv
  <2>2. ASSUME ~overshot' PROVE DatesInv'
    <3>1. ~overshot
      BY <2>2 DEF Next, Tick, Fire, ScheduleDate, ScheduleInterval, AdjustFine, AdjustCoarse, vars
    <3> QED BY <2>2, <3>1, DatesInvStep DEF TimeInv
  <2> QED BY <2>1, <2>2 DEF TimeInv
<1>3. TimeInv => FiresOnDate
  <2> SUFFICES ASSUME DatesInv, rt.state = "SCHEDULED", ahead >= 0
               PROVE  Abs(Ticks(Firing) - Ticks(rt.lg)) <= ahead + RESCHEDULE * small
    BY DEF FiresOnDate, TimeInv
  <2>1. CloseToDate /\ rt.lg \in Dates /\ rt.hw \in Dates /\ fine_offset \in Int /\ small \in Nat
        /\ ahead \in Int
    BY DEF DatesInv, TimerInOrder, ClockInv
  <2> DEFINE x == Ticks(rt.hw)
             y == Ticks(rt.lg)
             z == RESCHEDULE * small
  <2>2. x \in Int /\ y \in Int /\ z \in Int
    BY <2>1, DateTicks, MarginAssumption
  <2>3. x + fine_offset - y <= ahead + z /\ y - (x + fine_offset) <= ahead + z
    BY <2>1 DEF CloseToDate
  <2>4. Ticks(Firing) = x + fine_offset
    BY FiringTicks
  <2> HIDE DEF x, y, z
  <2>5. Abs((x + fine_offset) - y) <= ahead + z
    BY <2>1, <2>2, <2>3 DEF Abs
  <2> QED BY <2>4, <2>5 DEF y, z
<1> QED BY <1>1, <1>2, <1>3, PTL DEF Spec
=============================================================================
