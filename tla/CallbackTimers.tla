--------------------------- MODULE CallbackTimers ---------------------------
(***************************************************************************)
(* The timers of a node: the event timers of its processes, and ctimer.c   *)
(* on top of them.  Every callback timer is an event timer of              *)
(* ctimer_process; the event of an expired one waits in the kernel's       *)
(* queue, and ctimer_process calls back whatever timer of its own list the *)
(* event names.  User code, in a process that is called or in a callback,  *)
(* may work on the callback timers any number of times.                    *)
(***************************************************************************)
EXTENDS EventTimers

CONSTANT CTimers   \* the callback timers

ctimer_process == "ctimer_process"

ASSUME CTimersAssumption ==
  /\ ctimer_process \in Procs /\ CTimers \subseteq Timers
  /\ \A x \in Timers : x \in CTimers <=> Owner[x] = ctimer_process

VARIABLES
  ctimer_list,
  redone,          \* timers that were set again while their event was in the queue
  called           \* the timer whose callback the last step has called, or "none"

vars == <<now, et, queue, running, loop, left, ctimer_list, redone, called>>

(* In particular no timer is listed twice, by either module: both lists are lists,
   with no cycle, and the queue keeps to its size. *)
TypeOK ==
  /\ now \in 0..W - 1 /\ et.next \in 0..W - 1 /\ et.poll \in BOOLEAN
  /\ \A x \in Timers : et.t[x].start \in 0..W - 1 /\ et.t[x].p \in {Owner[x], PROCESS_NONE}
  /\ Len(queue) <= NumEvents
  /\ running \subseteq Procs /\ loop \in {"poll", "event"} \cup running
  /\ IsInjective(et.list) /\ IsInjective(ctimer_list) /\ Range(ctimer_list) \subseteq CTimers

(* ctimer_init has started ctimer_process, which has found no timer to set, and a process
   that uses the timers is being started. *)
Init ==
  /\ EventTimersInit
  /\ loop \in Procs \ {ctimer_process}
  /\ ctimer_list = <<>> /\ redone = {} /\ called = "none"

-----------------------------------------------------------------------------
(* ctimer_process *)

(* The event of a timer: the callback of one that is not listed is not called. *)
CallBack ==
  LET c == Head(queue).timer
      listed == c \in Range(ctimer_list)
  IN  /\ loop = "event" /\ queue # <<>> /\ Head(queue).to = ctimer_process
      /\ queue' = Tail(queue)
      /\ loop' = IF listed THEN ctimer_process ELSE "poll"
      /\ called' = IF listed THEN c ELSE "none"
      /\ ctimer_list' = Drop(ctimer_list, {c})
      /\ redone' = redone \ {c}
      /\ UNCHANGED <<now, et, running, left>>

-----------------------------------------------------------------------------
(* What user code does to the callback timers *)

list_add(l, c) == Append(Drop(l, {c}), c)

UsesCallback(c) ==
  /\ loop \in Procs
  /\ called' = "none"
  /\ UNCHANGED <<now, queue, running, loop>>

(* The end of the three ways to start c anew, due in n ticks *)
Anew(c, n) ==
  /\ ctimer_list' = list_add(ctimer_list, c)
  /\ left' = [left EXCEPT ![c] = n]
  /\ redone' = IF \E i \in DOMAIN queue : queue[i].timer = c THEN redone \cup {c} ELSE redone

(* ctimer_set and ctimer_set_with_process *)
ctimer_set(c, i) ==
  /\ UsesCallback(c)
  /\ et' = etimer_set(et, c, i, ctimer_process, now)
  /\ Anew(c, i)

(* Of a timer that has expired, not long ago *)
ctimer_reset(c) ==
  /\ UsesCallback(c) /\ left[c] \in -MaxLate..0
  /\ et' = etimer_reset(et, c, ctimer_process, now)
  /\ Anew(c, left[c] + et.t[c].interval)

ctimer_restart(c) ==
  /\ UsesCallback(c)
  /\ et' = etimer_restart(et, c, ctimer_process, now)
  /\ Anew(c, et.t[c].interval)

(* Mutant of ctimer_stop: only the event timer is stopped. *)
ctimer_stop_event_only(c) ==
  /\ UsesCallback(c)
  /\ et' = etimer_stop(et, c, now)
  /\ UNCHANGED <<ctimer_list, left, redone>>

ctimer_stop(c) ==
  /\ UsesCallback(c)
  /\ et' = etimer_stop(et, c, now)
  /\ ctimer_list' = Drop(ctimer_list, {c})
  /\ UNCHANGED <<left, redone>>

-----------------------------------------------------------------------------
(* A step of the event timers leaves those of ctimer.c alone. *)
Elsewhere == called' = "none" /\ UNCHANGED <<ctimer_list, redone>>

Next ==
  \/ CallBack
  \/ \E c \in CTimers :
       \/ ctimer_reset(c) \/ ctimer_restart(c) \/ ctimer_stop(c)
       \/ \E i \in Intervals : ctimer_set(c, i)
  \/ /\ Elsewhere
     /\ \/ \E k \in Jumps : Tick(k)
        \/ DoPoll
        \/ DoEvent /\ (queue # <<>> => Head(queue).to # ctimer_process)
        \/ Return
        \/ Exit /\ loop # ctimer_process
        \/ \E p \in running \ {ctimer_process} : Post(p)
        \/ \E x \in Timers \ CTimers :
             \/ Restart(x) \/ Reset(x) \/ Stop(x)
             \/ \E i \in Intervals : Set(x, i) \/ ResetWithNewInterval(x, i)
             \/ \E d \in Diffs : Adjust(x, d)

(* The clock ticks, and the main loop goes round: processes return, and the node is not
   so busy that it never sleeps again. *)
Fairness == []<>Asleep /\ SF_vars(Elsewhere /\ Tick(1))

Spec == Init /\ [][Next]_vars /\ Fairness

-----------------------------------------------------------------------------
(* A timer on the list comes to its event, unless its process works on it. *)
EachComes ==
  \A x \in Timers \ CTimers : (x \in Range(et.list)) ~> (x \notin Range(et.list) \/ loop = Owner[x])

(* A timer that waits for its callback is on the list of etimer.c, or its event is in
   the queue: the two lists, kept by two modules, do not lose a timer between them. *)
WillBeCalled ==
  \A c \in Range(ctimer_list) :
    c \in Range(et.list) \/ \E i \in DOMAIN queue : queue[i].timer = c

(* A callback that comes early is one whose timer was set again between its expiry
   and the callback.  (ctimer.h says it is called "when the callback timer expires";
   the event of the old expiry cannot be told from that of the new one.) *)
EarlyOnlyIfRedone == [][called' # "none" => left[called'] <= 0 \/ called' \in redone]_vars
=============================================================================
