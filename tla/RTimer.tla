------------------------------- MODULE RTimer -------------------------------
(***************************************************************************)
(* RTIMER_0, the only real-time timer of C-sync, in relative time.  One    *)
(* unit is one slot (REGULAR_SLOT_INTERVAL = CONS_CTRL_SLOT_INTERVAL).     *)
(*   state  JUST_EXPIRED, SCHEDULED, INACTIVE or SINGLEPASS                *)
(*   func   the callback                                                   *)
(*   lg     its logical date, counted from now (time_*_lg)                 *)
(*   hw     its hardware date, counted from now (time_*_hw); LongAgo when  *)
(*          it is out of reach                                             *)
(*   age    the time since rtimer_*_schedule_ref; negative when the        *)
(*          reference lies ahead; LongAgo or -LongAgo when out of reach    *)
(* Date 0 is inside the safety margin, a negative date has passed.         *)
(***************************************************************************)
EXTENDS Integers

CONSTANT LongAgo      \* a time no interval reaches, behind or ahead

ASSUME LongAgoAssumption == LongAgo \in Nat

ZeroTimer == [state |-> "JUST_EXPIRED", func |-> "none", lg |-> 0, hw |-> 0,
              age |-> LongAgo]

OutOfReach(n) == IF n > LongAgo THEN LongAgo ELSE n

(* Mutant of Arm: a SINGLEPASS timer is left as it is. *)
ArmNotSinglePass(t, lg, hw, f) ==
  IF t.state = "SINGLEPASS" THEN [ok |-> TRUE, t |-> t]
  ELSE IF hw > 0 THEN [ok |-> TRUE, t |-> [t EXCEPT !.state = "SCHEDULED", !.func = f,
                                                     !.lg = OutOfReach(lg), !.hw = OutOfReach(hw)]]
  ELSE [ok |-> FALSE, t |-> [t EXCEPT !.func = f]]

(* The part of rtimer_schedule after the hardware date is known: a SINGLEPASS
   timer keeps its date and callback and becomes SCHEDULED; otherwise the callback
   is stored before the date is tested, and stays stored when the test fails. *)
Arm(t, lg, hw, f) ==
  IF t.state = "SINGLEPASS" THEN [ok |-> TRUE, t |-> [t EXCEPT !.state = "SCHEDULED"]]
  ELSE IF hw > 0 THEN [ok |-> TRUE, t |-> [t EXCEPT !.state = "SCHEDULED", !.func = f,
                                                     !.lg = OutOfReach(lg), !.hw = OutOfReach(hw)]]
  ELSE [ok |-> FALSE, t |-> [t EXCEPT !.func = f]]

(* RTIMER_INTERVAL_REF: n units after the reference.  A zero interval is
   refused before anything is looked at; a negative one is stored in 32 unsigned
   bits (msp430-gcc converts modulo 2^32) and asks for a date out of reach. *)
ScheduleRef(t, n, f) ==
  LET d == IF n < 0 THEN LongAgo ELSE n - t.age
  IN  IF n = 0 THEN [ok |-> FALSE, t |-> t] ELSE Arm(t, d, d, f)

(* RTIMER_INTERVAL_NOW *)
ScheduleNow(t, n, f) == Arm(t, n, n, f)

(* rtimer_lgdate_to_hwdate.  The interval to a date that has passed is negative,
   and the unsigned subtraction makes it one of nearly 64 periods of the coarse
   counter, more than two hours. *)
lgdate_to_hwdate(d) == IF d < 0 THEN LongAgo ELSE d

(* RTIMER_DATE: the conversion to a hardware date makes "now" the reference. *)
ScheduleDate(t, d, f) ==
  Arm(IF t.state = "SINGLEPASS" THEN t ELSE [t EXCEPT !.age = 0], d, lgdate_to_hwdate(d), f)

(* The callers' pattern "if(rtimer_schedule(.., RTIMER_DATE, ..)) rt.state =
   RTIMER_SINGLEPASS": the timer holds the date for the schedule that follows. *)
HoldDate(t, d, f) ==
  LET r == ScheduleDate(t, d, f)
  IN  IF r.ok THEN [r EXCEPT !.t.state = "SINGLEPASS"] ELSE r

(* rtimer_compare(..) == 1: the date d is later than the timer's, or the timer
   is not scheduled. *)
LaterThan(t, d) == t.state \in {"JUST_EXPIRED", "INACTIVE"} \/ t.lg < d

(* rtimer_adjust_fine_offset by more than its threshold schedules a SCHEDULED
   timer again with RTIMER_DATE: the reference becomes now.  Its date stands when
   the jump is short, and has passed when the clock jumps over it. *)
Readjust(t, jump) ==
  LET lg == IF jump = "past" THEN -1 ELSE t.lg
  IN  IF t.state # "SCHEDULED" \/ jump = "none" THEN t ELSE ScheduleDate(t, lg, t.func).t

(* One unit of time passes.  The date of a timer that is not set is not read. *)
Elapse(t) ==
  LET set == t.state \in {"SCHEDULED", "SINGLEPASS"}
      Nearer(n) == IF n \in {-LongAgo, LongAgo} THEN n ELSE n - 1
  IN  [t EXCEPT !.lg = IF set THEN Nearer(@) ELSE @,
                !.hw = IF set THEN Nearer(@) ELSE @,
                !.age = -Nearer(-@)]
=============================================================================
