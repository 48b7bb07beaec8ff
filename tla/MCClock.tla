------------------------------- MODULE MCClock -------------------------------
(* Clocks of eight ticks to the period and four periods to the word. *)
EXTENDS ClockDates

(* Back by less and by more than half a period; on by a tick and by a whole period *)
FarDiffs == {-7, -1, 3, 5}

(* Two jumps of a discovery, each of less than a period *)
JumpDiffs == {3, 5}

UnitDiffs == {-1, 1}

(* Dates that have just passed, that come soon, and a period later *)
SomeDates == {-1, 1, 7, 10}
==============================================================================
