------------------------------ MODULE MCTimers ------------------------------
(* A process with a timer of its own, and a callback timer. *)
EXTENDS CallbackTimers

OneEach == [x \in Timers |-> IF x \in CTimers THEN ctimer_process ELSE "p"]
BothWays == {-1, 1}
=============================================================================
