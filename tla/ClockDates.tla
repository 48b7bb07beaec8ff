----------------------------- MODULE ClockDates -----------------------------
(***************************************************************************)
(* The two clocks of a node and the dates of its timer.  The hardware      *)
(* clock is coarse_count, incremented by the overflow interrupt, and the   *)
(* fine count of Timer A and B below it; the logical clock is the hardware *)
(* clock plus fine_offset, which the synchronization adjusts.  A timer is  *)
(* scheduled for a logical date and fires on the hardware date computed    *)
(* from it at that time.  Dates are pairs [c, f]; the period of f is       *)
(* Period, but the code carries at FINE_MAX = Period - 1.  Fine counts are *)
(* words of Periods periods.  Coarse counts are written without their wrap *)
(* and Held gives the word the code holds: sums, differences and intervals *)
(* do not tell the two apart (a word of coarse counts is a whole number of *)
(* words of fine ones), comparisons do.  avg_rate is 0: no clock drifts.   *)
(***************************************************************************)
EXTENDS Integers

CONSTANTS
  Period,          \* 2^RTIMER_COARSE_FINE_SHIFT
  Periods,         \* how many of them a 32-bit word holds
  CoarseWord,      \* 2^32, the values of a coarse count
  MARGIN,          \* RTIMER_SCHEDULE_SAFETY_MARGIN
  RESCHEDULE,      \* an adjustment above it schedules the timer again
  Diffs,           \* adjustments of the fine offset, int32_t
  CoarseDiffs,     \* adjustments of the coarse count
  Intervals,       \* intervals given to rtimer_schedule
  Ahead,           \* dates given to rtimer_schedule, as intervals from now
  MaxCoarse,       \* bound on the coarse count
  MaxAdjust,       \* bound on the adjustments
  THRESHOLD        \* GTSP_COARSE_OVERFLOW_THRESHOLD

FINE_MAX == Period - 1
Word     == Periods * Period

ASSUME PeriodAssumption  == Period \in Nat /\ Period >= 4
ASSUME PeriodsAssumption == Periods \in Nat /\ Word \in Nat /\ Word >= 4 * Period
ASSUME CoarseWordAssumption == CoarseWord \in Nat \ {0} /\ CoarseWord % Periods = 0
ASSUME DiffsAssumption   == \A d \in Diffs : d \in Int /\ -Word <= 2 * d /\ 2 * d < Word
ASSUME ThresholdAssumption == THRESHOLD \in Nat /\ 2 * THRESHOLD < FINE_MAX
ASSUME CoarseAssumption  == CoarseDiffs \subseteq Int
ASSUME MarginAssumption  == MARGIN \in Nat /\ RESCHEDULE \in Nat /\ 2 * RESCHEDULE < FINE_MAX
ASSUME DatesAssumption   == Intervals \subseteq Nat /\ Ahead \subseteq -FINE_MAX..2 * FINE_MAX

VARIABLES
  coarse_count,
  fine,            \* what rtimer_stamps_to_now reads
  fine_offset,
  offset_ref,      \* scheduler_fine_offset_ref
  ref,             \* rtimer_*_schedule_ref
  rt,              \* RTIMER_0: state and its dates lg, hw
  small,           \* adjustments since rt was scheduled that did not schedule it again
  ahead,           \* periods from there to its date; -1 if a jump or the caller missed
                   \* it, or if the interval to it did not fit into a word, or a coarse
                   \* count has wrapped in between
  overshot,        \* an adjustment was more than one carry of the offset makes good
  adjusts

vars == <<coarse_count, fine, fine_offset, offset_ref, ref, rt, small, ahead, overshot, adjusts>>

Zero == [c |-> 0, f |-> 0]
Now  == [c |-> coarse_count, f |-> fine]

(* uint32_t, for a result at most one word outside of the range. *)
U(n) == IF n < 0 THEN n + Word ELSE IF n >= Word THEN n - Word ELSE n

(* The uint32_t a coarse count is held in, and how often the count has wrapped. *)
Held(c) == c % CoarseWord
Turn(c) == c \div CoarseWord

Carry(t) == IF t.f > FINE_MAX THEN [c |-> t.c + 1, f |-> t.f - FINE_MAX] ELSE t

hwdate_to_lgdate(t, offset) ==
  IF offset > FINE_MAX THEN Carry([c |-> t.c + 1, f |-> U(t.f + (offset - FINE_MAX))])
  ELSE Carry([c |-> t.c, f |-> U(t.f + offset)])

(* The interval from the date "then" to the date t, one word.  A date that is
   not after "then" appears a whole word, less the time gone since, ahead. *)
lgdates_to_lg_interval(t, then) ==
  IF then.f < t.f THEN ((t.c - then.c) * Period + (t.f - then.f)) % Word
  ELSE ((t.c - then.c - 1) * Period + t.f + (FINE_MAX - then.f)) % Word

lginterval_to_hwdate(n, then) ==
  LET m == IF FINE_MAX < n THEN [c |-> n \div FINE_MAX, f |-> n % FINE_MAX]
           ELSE [c |-> 0, f |-> n]
      s == Carry([m EXCEPT !.f = @ + then.f])
  IN  [s EXCEPT !.c = @ + then.c]

(* rtimer_lgdate_to_hwdate: by way of the interval from now. *)
lgdate_to_hwdate(t, now, offset) ==
  lginterval_to_hwdate(lgdates_to_lg_interval(t, hwdate_to_lgdate(now, offset)), now)

(* Mutant of Measure: the overflow is not looked for. *)
MeasurePlain(a, b) == [coarse |-> a.c - b.c, fine |-> a.f - b.f]

(* The end of gtsp_recv: coarse_diff and fine_diff of a node whose clock shows a with a
   neighbour whose clock shows b. *)
Measure(a, b) ==
  IF a.c - b.c = -1 /\ a.f > FINE_MAX - THRESHOLD /\ b.f < THRESHOLD
  THEN [coarse |-> 0, fine |-> (FINE_MAX - a.f) + b.f]
  ELSE IF a.c - b.c = 1 /\ a.f < THRESHOLD /\ b.f > FINE_MAX - THRESHOLD
  THEN [coarse |-> 0, fine |-> (FINE_MAX - b.f) + a.f]
  ELSE [coarse |-> a.c - b.c, fine |-> a.f - b.f]

(* Why rtimer_schedule refuses a hardware date. *)
TooSoon(hw, now) ==
  Held(hw.c) < Held(now.c) \/ (Held(hw.c) = Held(now.c) /\ hw.f < now.f + MARGIN)
-----------------------------------------------------------------------------
(* rtimer_init *)
Init ==
  /\ coarse_count = 0 /\ fine = 0
  /\ fine_offset = FINE_MAX /\ offset_ref = FINE_MAX
  /\ ref = Zero
  /\ rt = [state |-> "JUST_EXPIRED", lg |-> Zero, hw |-> Zero]
  /\ small = 0 /\ ahead = 0 /\ overshot = FALSE /\ adjusts = 0

(* The compare interrupts match the fine count, and any coarse count that is not
   before the timer's. *)
Due == rt.state = "SCHEDULED" /\ rt.hw.f = fine /\ Held(rt.hw.c) <= Held(coarse_count)

(* Mutant of Tick: the overflow is counted a tick early. *)
TickEarly ==
  /\ ~Due /\ coarse_count <= MaxCoarse
  /\ fine' = (fine + 1) % Period
  /\ coarse_count' = IF fine = FINE_MAX - 1 THEN coarse_count + 1 ELSE coarse_count
  /\ UNCHANGED <<fine_offset, offset_ref, ref, rt, small, ahead, overshot, adjusts>>

(* The fine count goes on; the interrupts are served at once. *)
Tick ==
  /\ ~Due /\ coarse_count <= MaxCoarse
  /\ fine' = IF fine = FINE_MAX THEN 0 ELSE fine + 1
  /\ coarse_count' = IF fine = FINE_MAX THEN coarse_count + 1 ELSE coarse_count
  /\ UNCHANGED <<fine_offset, offset_ref, ref, rt, small, ahead, overshot, adjusts>>

Before(s, t) == s.c < t.c \/ (s.c = t.c /\ s.f < t.f)

(* The date t lies ahead of lgnow, by less than the word of lgdates_to_lg_interval. *)
Coming(lgnow, t) == Before(lgnow, t) /\ (t.c - lgnow.c) * Period + (t.f - lgnow.f) < Word

(* The end of rtimer_schedule. *)
Set(lg, hw, now, coming) ==
  IF TooSoon(hw, now) THEN UNCHANGED <<rt, small, ahead>>
  ELSE /\ rt' = [state |-> "SCHEDULED", lg |-> lg, hw |-> hw]
       /\ small' = 0
       /\ ahead' = IF coming /\ Turn(hw.c) = Turn(now.c) THEN hw.c - now.c ELSE -1

(* rtimer_schedule with RTIMER_DATE; the conversion makes now the reference. *)
ScheduleDate(d) ==
  /\ ~(Held(d.c) = 0 /\ d.f = 0)
  /\ ref' = Now
  /\ Set(d, lgdate_to_hwdate(d, Now, fine_offset), Now,
         Coming(hwdate_to_lgdate(Now, fine_offset), d))
  /\ UNCHANGED <<coarse_count, fine, fine_offset, offset_ref, overshot, adjusts>>

(* RTIMER_INTERVAL_NOW (then = Now) and RTIMER_INTERVAL_REF (then = ref) *)
ScheduleInterval(n, then) ==
  LET hw == lginterval_to_hwdate(n, then)
  IN  /\ n # 0
      /\ Set(hwdate_to_lgdate(hw, fine_offset), hw, Now, TRUE)
      /\ UNCHANGED <<coarse_count, fine, fine_offset, offset_ref, ref, overshot, adjusts>>

(* RTIMER0_HF_CALLBACK.  The callback makes its own date the reference. *)
Fire ==
  /\ Due
  /\ rt' = [rt EXCEPT !.state = "INACTIVE"]
  /\ ref' = rt.hw
  /\ UNCHANGED <<coarse_count, fine, fine_offset, offset_ref, small, ahead, overshot, adjusts>>

(* Mutant of Moved: the coarse count is not told. *)
MovedAlone(diff) ==
  LET f == U(fine_offset - diff)
  IN  IF 2 * f < FINE_MAX THEN [c |-> coarse_count, f |-> f + FINE_MAX]
      ELSE IF 2 * f > 3 * FINE_MAX THEN [c |-> coarse_count, f |-> f - FINE_MAX]
      ELSE [c |-> coarse_count, f |-> f]

(* Mutant of Moved: the offset takes it all. *)
MovedFree(diff) == [c |-> coarse_count, f |-> U(fine_offset - diff)]

(* The offset is kept between half a period and one and a half; what it gives up
   goes to the coarse count.  The new coarse count and offset. *)
Moved(diff) ==
  LET f == U(fine_offset - diff)
  IN  IF 2 * f < FINE_MAX THEN [c |-> coarse_count - 1, f |-> f + FINE_MAX]
      ELSE IF 2 * f > 3 * FINE_MAX THEN [c |-> coarse_count + 1, f |-> f - FINE_MAX]
      ELSE [c |-> coarse_count, f |-> f]

(* Mutant of Far: only jumps ahead count. *)
FarAhead(n) == n < -RESCHEDULE

Far(n) == n < -RESCHEDULE \/ n > RESCHEDULE

(* What one carry of Moved brings back into the range. *)
OneCarry(diff) == diff <= fine_offset /\ 2 * (fine_offset - diff) <= 5 * FINE_MAX

(* The clock, at now, is still before the date hw or on it. *)
StillAhead(now, hw) == Turn(hw.c) = Turn(now.c) /\ ~Before(hw, now)

(* rtimer_adjust_fine_offset: a SCHEDULED timer gets a new hardware date when the
   offset has moved far since the last adjustment. *)
AdjustFine(diff) ==
  LET m   == Moved(diff)
      now == [c |-> m.c, f |-> fine]
      hw  == lgdate_to_hwdate(rt.lg, now, m.f)
  IN  /\ coarse_count' = m.c /\ fine_offset' = m.f /\ offset_ref' = m.f
      /\ IF Far(offset_ref - m.f) /\ rt.state = "SCHEDULED"
         THEN /\ ref' = now
              /\ IF TooSoon(hw, now) THEN ahead' = -1 /\ UNCHANGED <<rt, small>>
                 ELSE Set(rt.lg, hw, now, Coming(hwdate_to_lgdate(now, m.f), rt.lg))
         ELSE /\ small' = small + 1 /\ ahead' = IF StillAhead(now, rt.hw) THEN ahead ELSE -1
              /\ UNCHANGED <<ref, rt>>
      /\ overshot' = (overshot \/ ~OneCarry(diff))
      /\ adjusts < MaxAdjust /\ adjusts' = adjusts + 1
      /\ UNCHANGED fine

(* rtimer_adjust_coarse_count *)
AdjustCoarse(diff) ==
  /\ coarse_count' = coarse_count - diff
  /\ ahead' = IF StillAhead([Now EXCEPT !.c = @ - diff], rt.hw) THEN ahead ELSE -1
  /\ adjusts < MaxAdjust /\ adjusts' = adjusts + 1
  /\ UNCHANGED <<fine, fine_offset, offset_ref, ref, rt, small, overshot>>

(* The date n ticks after t, or before it for a negative n; -FINE_MAX <= n <= 2 * FINE_MAX. *)
Shifted(t, n) ==
  IF t.f + n < 0 THEN [c |-> t.c - 1, f |-> t.f + n + FINE_MAX]
  ELSE Carry(Carry([t EXCEPT !.f = @ + n]))

LogicalNow == hwdate_to_lgdate(Now, fine_offset)

Next == \/ Tick \/ Fire
        \/ \E n \in Ahead : ScheduleDate(Shifted(LogicalNow, n))
        \/ \E n \in Intervals : ScheduleInterval(n, Now)
        \/ \E n \in Intervals : ScheduleInterval(n, ref)
        \/ \E d \in Diffs : AdjustFine(d)
        \/ \E d \in CoarseDiffs : AdjustCoarse(d)

Spec == Init /\ [][Next]_vars
-----------------------------------------------------------------------------
(* Dates as ticks of the logical clock. *)
Ticks(t) == t.c * FINE_MAX + t.f

(* The offset lies between RTIMER_OFFSET_MIN and RTIMER_OFFSET_MAX: hwdate_to_lgdate
   carries at most twice and needs an offset below two periods.  "If fine_offset grows
   too big or too small", rtimer.c has the coarse count adjusted "immediately".  One
   carry is all it makes: a clock that an earlier adjustment has left with half a period
   is set back by more than that by a jump of the discovery, and fine_offset wraps. *)
OffsetInRange == FINE_MAX <= 2 * fine_offset /\ 2 * fine_offset <= 3 * FINE_MAX

(* rtimer_adjust_fine_offset gives to the coarse count what the offset has too much or
   too little, and loses the range only by a difference of more than the offset, or of
   so much less that two carries were needed: whatever the adjustments before, any
   difference of up to half a period is made good. *)
OffsetKept == ~overshot => OffsetInRange

(* A tick of the hardware moves the logical clock on by one tick, and by none at
   the overflow, where the code counts a period one tick short: it never goes
   back, although the two counts it is read from do. *)
LogicalClockSteady ==
  [][OffsetInRange /\ fine' # fine =>
       Ticks(LogicalNow') - Ticks(LogicalNow) = IF fine = FINE_MAX THEN 0 ELSE 1]_vars

(* An adjustment by diff sets the logical clock back by diff, whether or not the
   offset has to be brought back into its range, and also when the coarse count wraps. *)
AdjustmentsExact ==
  [][\A d \in Diffs : OffsetInRange /\ OneCarry(d) /\ AdjustFine(d) =>
       Ticks(LogicalNow') = Ticks(LogicalNow) - d]_vars

(* The logical date at which the timer fires. *)
Firing ==
  LET wait == IF Held(rt.hw.c) > Held(coarse_count) THEN Held(rt.hw.c) - Held(coarse_count)
              ELSE IF rt.hw.f >= fine THEN 0 ELSE 1
  IN  hwdate_to_lgdate([c |-> coarse_count + wait, f |-> rt.hw.f], fine_offset)

Abs(n) == IF n < 0 THEN -n ELSE n

(* A timer fires on its logical date: up to a tick for every period in between,
   which the conversion counts short, and up to RESCHEDULE for each adjustment that did not
   schedule it again (scheduler_fine_offset_ref moves on with every one).  An adjustment
   of a whole period, which leaves the offset where it was, does not schedule it again. *)
FiresOnDate ==
  ~overshot /\ rt.state = "SCHEDULED" /\ ahead >= 0 =>
    Abs(Ticks(Firing) - Ticks(rt.lg)) <= ahead + RESCHEDULE * small

(* gtsp_recv of a neighbour whose clock is less than the threshold away: it has no
   coarse difference, also while only one of the clocks has entered the next period,
   so that the vote of gtsp_update_rtimer does not move a count that is right; the
   distance is right, and its sign when this clock is not behind. *)
MeasuredRight ==
  OffsetInRange => \A d \in (1 - THRESHOLD)..(THRESHOLD - 1) :
    LET m == Measure(LogicalNow, Shifted(LogicalNow, d))
    IN  m.coarse = 0 /\ Abs(m.fine) = Abs(d) /\ (d <= 0 => m.fine = -d)
=============================================================================
