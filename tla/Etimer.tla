------------------------------- MODULE Etimer -------------------------------
(***************************************************************************)
(* The operations of etimer.c, as functions from the module's state        *)
(*   list   timerlist, the timers in the order of the list                 *)
(*   next   next_expiration                                                *)
(*   poll   etimer_process needs a poll                                    *)
(*   t      the timers: start, interval, and the process p they belong to  *)
(* and the clock to the next state.  clock_time_t has W values.            *)
(***************************************************************************)
EXTENDS Integers, Sequences, Functions, FiniteSets

CONSTANTS
  W,               \* values of clock_time_t
  NumEvents        \* PROCESS_CONF_NUMEVENTS

ASSUME WAssumption == W \in Nat /\ W > 1 /\ W % 2 = 0
ASSUME NumEventsAssumption == NumEvents \in Nat /\ NumEvents > 0

MAX_TICKS == (W - 1) \div 2

PROCESS_NONE == "none"

(* list_remove, and the loops that take entries out of a list: the entries of s that are
   not in S, in their order. *)
Drop(s, S) ==
  LET kept[i \in 0..Len(s)] ==
        IF i = 0 THEN <<>> ELSE IF s[i] \in S THEN kept[i - 1] ELSE Append(kept[i - 1], s[i])
  IN  kept[Len(s)]

Distance(r, now) == (r.start + r.interval - now) % W

(* Mutant of Expired: one tick early. *)
ExpiredEarly(r, now) == r.interval <= (now - r.start + 1) % W

(* timer_expired *)
Expired(r, now) == r.interval < (now - r.start + 1) % W

-----------------------------------------------------------------------------
(* Mutant of update_time: the dates are compared, not the distances. *)
update_time_dates(e, now) ==
  [e EXCEPT !.next =
     IF e.list = <<>> THEN 0
     ELSE CHOOSE d \in {Distance(e.t[x], 0) : x \in Range(e.list)} :
            \A x \in Range(e.list) : d <= Distance(e.t[x], 0)]

update_time(e, now) ==
  [e EXCEPT !.next =
     IF e.list = <<>> THEN 0
     ELSE LET tdist == CHOOSE d \in {Distance(e.t[x], now) : x \in Range(e.list)} :
                         \A x \in Range(e.list) : d <= Distance(e.t[x], now)
          IN  (now + tdist) % W]

etimer_request_poll(e) == [e EXCEPT !.poll = TRUE]

(* Mutant of add_timer: the list is not searched. *)
add_timer_blind(e, x, p, now) ==
  update_time([e EXCEPT !.poll = TRUE, !.t[x].p = p, !.list = <<x>> \o @], now)

add_timer(e, x, p, now) ==
  LET f == [etimer_request_poll(e) EXCEPT !.t[x].p = p]
  IN  update_time(IF e.t[x].p # PROCESS_NONE /\ x \in Range(e.list) THEN f
                  ELSE [f EXCEPT !.list = <<x>> \o @], now)

(* timer_set, timer_reset, timer_restart, each followed by add_timer *)
etimer_set(e, x, interval, p, now) ==
  add_timer([e EXCEPT !.t[x].interval = interval, !.t[x].start = now], x, p, now)

etimer_reset(e, x, p, now) ==
  add_timer([e EXCEPT !.t[x].start = (@ + e.t[x].interval) % W], x, p, now)

etimer_reset_with_new_interval(e, x, interval, p, now) ==
  add_timer([e EXCEPT !.t[x].start = (@ + e.t[x].interval) % W, !.t[x].interval = interval], x, p, now)

etimer_restart(e, x, p, now) ==
  add_timer([e EXCEPT !.t[x].start = now], x, p, now)

etimer_adjust(e, x, timediff, now) ==
  update_time([e EXCEPT !.t[x].start = (@ + timediff) % W], now)

etimer_stop(e, x, now) ==
  [(IF x \in Range(e.list) THEN update_time([e EXCEPT !.list = Drop(@, {x})], now) ELSE e)
     EXCEPT !.t[x].p = PROCESS_NONE]

(* etimer_process, PROCESS_EVENT_EXITED: the timers of p leave the list. *)
Exited(e, p) == [e EXCEPT !.list = Drop(@, {x \in Range(@) : e.t[x].p = p})]

-----------------------------------------------------------------------------
(* etimer_process, PROCESS_EVENT_POLL: the expired timers leave the list and their
   events are posted, in the order of the list and as long as the queue has room;
   for the others a poll is requested. *)

Due(e, now) == Drop(e.list, {x \in Range(e.list) : ~Expired(e.t[x], now)})

Posted(e, queue, now) ==
  LET room == NumEvents - Len(queue)
  IN  SubSeq(Due(e, now), 1, IF Len(Due(e, now)) < room THEN Len(Due(e, now)) ELSE room)

(* Mutant of Polled: a timer whose event finds no room is not tried again. *)
PolledOnce(e, queue, now) ==
  LET out == Range(Posted(e, queue, now))
      f   == [e EXCEPT !.poll = FALSE,
                       !.list = Drop(@, out),
                       !.t = [x \in DOMAIN @ |-> IF x \in out THEN [@[x] EXCEPT !.p = PROCESS_NONE] ELSE @[x]]]
  IN  IF out = {} THEN f ELSE update_time(f, now)

Polled(e, queue, now) ==
  LET out == Range(Posted(e, queue, now))
      f   == [e EXCEPT !.poll = Len(Posted(e, queue, now)) < Len(Due(e, now)),
                       !.list = Drop(@, out),
                       !.t = [x \in DOMAIN @ |-> IF x \in out THEN [@[x] EXCEPT !.p = PROCESS_NONE] ELSE @[x]]]
  IN  IF out = {} THEN f ELSE update_time(f, now)

Events(e, queue, now) ==
  [i \in DOMAIN Posted(e, queue, now) |->
     [to |-> e.t[Posted(e, queue, now)[i]].p, timer |-> Posted(e, queue, now)[i]]]

-----------------------------------------------------------------------------
(* The clock interrupt: a poll when next_expiration is not in the future, which is
   half of the clock's values. *)
Interrupt(e, now) ==
  IF e.list # <<>> /\ (e.next - now - 1) % W > MAX_TICKS THEN etimer_request_poll(e) ELSE e
=============================================================================
