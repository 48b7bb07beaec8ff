----------------------------- MODULE EventTimers -----------------------------
(***************************************************************************)
(* The event timers of a node: the processes that set them, etimer_process,*)
(* the kernel's event queue, the clock interrupt, and the main loop that   *)
(* polls etimer_process and then delivers one event.  A process that is    *)
(* called may work on its timers any number of times before it returns;    *)
(* the interrupt may come between any two steps.  CallbackTimers adds the  *)
(* timers of ctimer.c and states the specification.                        *)
(***************************************************************************)
EXTENDS Etimer

CONSTANTS
  Procs,           \* processes with timers
  Timers,
  Owner,           \* Owner[x]: the process that uses timer x
  Intervals,       \* intervals, at most half the clock's values
  Diffs,           \* arguments of etimer_adjust
  Jumps,           \* by how much an interrupt may find the clock advanced
  MaxLate          \* bound: how late the main loop may be, in ticks

ASSUME IntervalsAssumption == MaxLate \in 0..MAX_TICKS /\ Intervals \subseteq 0..MAX_TICKS - MaxLate
ASSUME StepsAssumption == Jumps \subseteq Nat /\ Diffs \subseteq Int
ASSUME NamesAssumption ==
  /\ Owner \in [Timers -> Procs] /\ Procs \cap {"poll", "event", PROCESS_NONE} = {}
  /\ "other" \notin Timers /\ "none" \notin Timers

VARIABLES
  now,             \* clock_time
  et,              \* the state of etimer.c
  queue,           \* events, [to, timer]; timer is "other" in those of other sources
  running,         \* processes that have not exited
  loop,            \* "poll" or "event": what process_run does next; or the process called
  left             \* left[x]: ticks until timer x is due, negative once it is overdue

eventVars == <<now, et, queue, running, loop, left>>

EventTimersInit ==
  /\ now = 0
  /\ et = [list |-> <<>>, next |-> 0, poll |-> FALSE,
           t |-> [x \in Timers |-> [start |-> 0, interval |-> 0, p |-> PROCESS_NONE]]]
  /\ queue = <<>> /\ running = Procs
  /\ left = [x \in Timers |-> -MaxLate - 1]

(* ISR(TIMERB1), case 4 *)
Tick(k) ==
  /\ now' = (now + k) % W
  /\ et' = Interrupt(et, now')
  /\ left' = [x \in Timers |-> IF left[x] - k < -MaxLate THEN -MaxLate - 1 ELSE left[x] - k]
  /\ \A x \in Range(et.list) : left[x] - k >= -MaxLate
  /\ UNCHANGED <<queue, running, loop>>

(* process_run: do_poll... *)
DoPoll ==
  /\ loop = "poll" /\ loop' = "event"
  /\ IF et.poll
     THEN et' = Polled(et, queue, now) /\ queue' = queue \o Events(et, queue, now)
     ELSE UNCHANGED <<et, queue>>
  /\ UNCHANGED <<now, running, left>>

(* ... and do_event *)
DoEvent ==
  /\ loop = "event"
  /\ IF queue = <<>> THEN loop' = "poll" /\ UNCHANGED queue
     ELSE /\ queue' = Tail(queue)
          /\ loop' = IF Head(queue).to \in running THEN Head(queue).to ELSE "poll"
  /\ UNCHANGED <<now, et, running, left>>

Return ==
  /\ loop \in Procs /\ loop' = "poll"
  /\ UNCHANGED <<now, et, queue, running, left>>

(* Any event of another source for a process *)
Post(p) ==
  /\ Len(queue) < NumEvents
  /\ queue' = Append(queue, [to |-> p, timer |-> "other"])
  /\ UNCHANGED <<now, et, running, loop, left>>

(* What a process does to its timer x while it is called *)
Uses(x) == loop = Owner[x] /\ UNCHANGED <<now, queue, running, loop>>

Set(x, i) ==
  /\ Uses(x)
  /\ et' = etimer_set(et, x, i, loop, now) /\ left' = [left EXCEPT ![x] = i]

Restart(x) ==
  /\ Uses(x)
  /\ et' = etimer_restart(et, x, loop, now) /\ left' = [left EXCEPT ![x] = et.t[x].interval]

(* "Must not be executed before timer expired", nor when that is long ago. *)
Reset(x) ==
  /\ Uses(x) /\ -MaxLate <= left[x] /\ left[x] <= 0
  /\ et' = etimer_reset(et, x, loop, now)
  /\ left' = [left EXCEPT ![x] = @ + et.t[x].interval]

ResetWithNewInterval(x, i) ==
  /\ Uses(x) /\ -MaxLate <= left[x] /\ left[x] <= 0
  /\ et' = etimer_reset_with_new_interval(et, x, i, loop, now)
  /\ left' = [left EXCEPT ![x] = @ + i]

(* "only ... for small adjustments": the timer stays ahead, and its start is not moved
   past the next tick, where timer_expired would take it for one long expired. *)
Adjust(x, d) ==
  /\ Uses(x) /\ x \in Range(et.list) /\ left[x] > 0 /\ left[x] + d \in 1..MAX_TICKS - MaxLate
  /\ left[x] + d <= et.t[x].interval + 1
  /\ et' = etimer_adjust(et, x, d, now) /\ left' = [left EXCEPT ![x] = @ + d]

Stop(x) ==
  /\ Uses(x) /\ et' = etimer_stop(et, x, now) /\ UNCHANGED left

(* The called process ends; etimer_process is told. *)
Exit ==
  /\ loop \in Procs /\ loop' = "poll"
  /\ running' = running \ {loop} /\ et' = Exited(et, loop)
  /\ UNCHANGED <<now, queue, left>>

(* The main loop has nothing to do and the CPU sleeps. *)
Asleep == loop = "poll" /\ queue = <<>> /\ ~et.poll

-----------------------------------------------------------------------------
(* A timer on the list that is due has a poll coming, although next_expiration holds
   one date for all timers, is not updated by an exit, and wraps. *)
NeverForgotten == \A x \in Range(et.list) : left[x] <= 0 => et.poll

(* Events are posted for no timer that is not due. *)
NeverEarly ==
  [][Len(queue') > Len(queue) =>
       \A i \in Len(queue) + 1..Len(queue') :
         queue'[i].timer \in Timers => left[queue'[i].timer] <= 0]_eventVars
=============================================================================
