----------------------------- MODULE TimerProofs -----------------------------
(***************************************************************************)
(* That no event timer is forgotten or comes early and no callback is      *)
(* lost, for any width of the clock, any number of processes and timers    *)
(* and any length of the event queue: the steps of the node, each of which *)
(* does to the timers what EtimerProofs says.                              *)
(***************************************************************************)
EXTENDS CallbackTimers, EtimerProofs

(* Every event in the queue of a timer with a callback is for ctimer_process, and comes
   from a timer that is due or has been set again. *)
Waiting ==
  \A i \in DOMAIN queue :
    queue[i].timer \in CTimers =>
      /\ queue[i].to = ctimer_process
      /\ queue[i].timer \in Range(ctimer_list) => left[queue[i].timer] <= 0 \/ queue[i].timer \in redone

(* The state of etimer.c, read with the clock and with the time each timer has left *)
EtimersInv ==
  /\ now \in 0..W - 1 /\ left \in [Timers -> Int] /\ \A x \in Timers : left[x] >= -MaxLate - 1
  /\ Sound(et, left, now) /\ Ahead(et, left, now)

(* The event queue *)
QueueInv == queue \in Seq(EventRecords) /\ Len(queue) <= NumEvents /\ Waiting

(* The processes and the main loop *)
ProcessesInv ==
  /\ running \subseteq Procs /\ loop \in {"poll", "event"} \cup running /\ ctimer_process \in running

(* The state of ctimer.c *)
CtimersInv ==
  /\ ctimer_list \in Seq(CTimers) /\ IsInjective(ctimer_list)
  /\ WillBeCalled

(* The inductive invariant *)
TimersInv == EtimersInv /\ QueueInv /\ ProcessesInv /\ CtimersInv

(* The steps of the node.  First two facts about the queue. *)

(* do_event takes the first event; the others stay. *)
LEMMA TailOf ==
  ASSUME NEW S, NEW q \in Seq(S), q # <<>>
  PROVE  /\ Tail(q) \in Seq(S) /\ Len(Tail(q)) <= Len(q) /\ Head(q) \in S
         /\ 1 \in DOMAIN q /\ Head(q) = q[1]
         /\ \A i \in DOMAIN Tail(q) : \E j \in DOMAIN q : Tail(q)[i] = q[j]
         /\ \A i \in DOMAIN q : q[i] = Head(q) \/ \E j \in DOMAIN Tail(q) : Tail(q)[j] = q[i]
<1> DEFINE r == Tail(q)
<1>1. /\ r \in Seq(S) /\ Len(q) \in Nat /\ Len(q) > 0 /\ Len(r) = Len(q) - 1 /\ Head(q) = q[1]
      /\ DOMAIN q = 1..Len(q) /\ DOMAIN r = 1..Len(r) /\ \A i \in 1..Len(r) : r[i] = q[i + 1]
      /\ \A i \in 1..Len(q) : q[i] \in S
  OBVIOUS
<1> HIDE DEF r
<1>2. \A i \in DOMAIN r : i + 1 \in DOMAIN q /\ r[i] = q[i + 1]
  BY <1>1
<1>3. \A i \in DOMAIN q : i = 1 \/ (i - 1 \in DOMAIN r /\ r[i - 1] = q[i])
  <2> TAKE i \in DOMAIN q
  <2>1. i = 1 \/ (i - 1 \in 1..Len(r) /\ (i - 1) + 1 = i)
    BY <1>1
  <2> QED
    BY <1>1, <2>1
<1> QED
  BY <1>1, <1>2, <1>3 DEF r

(* h is q followed by r. *)
Joined(h, q, r) ==
  /\ Len(h) = Len(q) + Len(r)
  /\ \A i \in DOMAIN h :
       \/ i \in DOMAIN q /\ h[i] = q[i]
       \/ i > Len(q) /\ \E j \in DOMAIN r : h[i] = r[j]
  /\ \A i \in DOMAIN q : i \in DOMAIN h /\ h[i] = q[i]
  /\ \A j \in DOMAIN r : \E i \in DOMAIN h : h[i] = r[j]

(* Events are added behind those that wait. *)
LEMMA JoinOf ==
  ASSUME NEW S, NEW q \in Seq(S), NEW r \in Seq(S)
  PROVE  q \o r \in Seq(S) /\ Joined(q \o r, q, r)
<1> DEFINE h == q \o r
<1>1. /\ h \in Seq(S) /\ Len(q) \in Nat /\ Len(r) \in Nat /\ Len(h) = Len(q) + Len(r)
      /\ DOMAIN q = 1..Len(q) /\ DOMAIN r = 1..Len(r) /\ DOMAIN h = 1..(Len(q) + Len(r))
      /\ \A i \in 1..Len(q) : h[i] = q[i]
      /\ \A i \in Len(q) + 1..Len(q) + Len(r) : h[i] = r[i - Len(q)]
  OBVIOUS
<1> HIDE DEF h
<1>2. \A i \in DOMAIN h :
        \/ i \in DOMAIN q /\ h[i] = q[i]
        \/ i > Len(q) /\ \E j \in DOMAIN r : h[i] = r[j]
  <2> TAKE i \in DOMAIN h
  <2>1. i \in 1..Len(q) \/ (i > Len(q) /\ i \in Len(q) + 1..Len(q) + Len(r) /\ i - Len(q) \in 1..Len(r))
    BY <1>1
  <2> QED
    BY <1>1, <2>1
<1>3. \A i \in DOMAIN q : i \in DOMAIN h /\ h[i] = q[i]
  BY <1>1
<1>4. \A j \in DOMAIN r : \E i \in DOMAIN h : h[i] = r[j]
  <2> TAKE j \in DOMAIN r
  <2>1. /\ Len(q) + j \in DOMAIN h /\ Len(q) + j \in Len(q) + 1..Len(q) + Len(r)
        /\ (Len(q) + j) - Len(q) = j
    BY <1>1
  <2>2. h[Len(q) + j] = r[j]
    BY <1>1, <2>1
  <2> QED
    BY <2>1, <2>2
<1> QED
  BY <1>1, <1>2, <1>3, <1>4 DEF Joined, h

(* What the assumptions say of the processes and the owners of the timers *)
LEMMA Names ==
  /\ "poll" \notin Procs /\ "event" \notin Procs /\ ctimer_process \in Procs
  /\ CTimers \subseteq Timers /\ \A c \in CTimers : Owner[c] = ctimer_process
  /\ \A x \in Timers : Owner[x] \in Procs /\ (x \notin CTimers => Owner[x] # ctimer_process)
  /\ "other" \notin CTimers /\ "none" \notin CTimers
BY NamesAssumption, CTimersAssumption

(* The invariant holds when the node starts. *)
LEMMA TimersInvInit == Init => TimersInv
<1> SUFFICES ASSUME Init PROVE TimersInv
  OBVIOUS
<1> USE DEF Init, EventTimersInit
<1>1. /\ W \in Nat /\ W > 1 /\ MaxLate \in Nat /\ MAX_TICKS \in Nat /\ 0 \in 0..MAX_TICKS - MaxLate
      /\ 0 \in 0..W - 1
  BY Widths
<1>2. Range(<<>>) = {} /\ IsInjective(<<>>)
  BY DEF Range, IsInjective
<1> DEFINE r == [start |-> 0, interval |-> 0, p |-> PROCESS_NONE]
<1>3. r \in TimerRecords /\ r.p = PROCESS_NONE
  BY <1>1 DEF TimerRecords
<1>4. \A x \in Timers : et.t[x] = r
  OBVIOUS
<1> HIDE DEF r
<1>5. et.list = <<>> /\ et.next = 0 /\ et.poll = FALSE
  OBVIOUS
<1>6. et \in EtimerStates
  <2>1. [x \in Timers |-> r] \in [Timers -> TimerRecords]
    BY <1>3
  <2> DEFINE t1 == [x \in Timers |-> r]
  <2>2. et = [list |-> <<>>, next |-> 0, poll |-> FALSE, t |-> t1]
    BY DEF r
  <2> HIDE DEF t1
  <2> QED
    BY <1>1, <2>1, <2>2 DEF EtimerStates, t1
<1>7. \A x \in Timers : left[x] = -MaxLate - 1
  OBVIOUS
<1>8. left \in [Timers -> Int]
  BY <1>1
<1>9. Sound(et, left, now)
  BY <1>1, <1>2, <1>3, <1>4, <1>5, <1>6, <1>7 DEF Sound
<1>10. Ahead(et, left, now)
  BY <1>2, <1>5 DEF Ahead
<1>11. EtimersInv
  BY <1>1, <1>7, <1>8, <1>9, <1>10 DEF EtimersInv
<1>12. QueueInv
  BY NumEventsAssumption DEF QueueInv, Waiting
<1>13. ProcessesInv
  BY Names DEF ProcessesInv
<1>15. CtimersInv
  BY <1>2 DEF CtimersInv, WillBeCalled
<1> QED
  BY <1>11, <1>12, <1>13, <1>15 DEF TimersInv

(* A step that starts timer x, to be due in l ticks, keeps the part about etimer.c. *)
LEMMA StartsKeep ==
  ASSUME TimersInv, NEW x \in Timers, NEW l \in Int, Starts(et', et, x, left, l, now),
         left' = [left EXCEPT ![x] = l], now' = now
  PROVE  /\ EtimersInv' /\ Range(et'.list) = Range(et.list) \cup {x}
         /\ \A y \in Timers : y # x => left'[y] = left[y]
<1>1. left \in [Timers -> Int] /\ (\A y \in Timers : left[y] >= -MaxLate - 1) /\ now \in 0..W - 1
  BY DEF TimersInv, EtimersInv
<1>2. left' \in [Timers -> Int] /\ left'[x] = l /\ \A y \in Timers : y # x => left'[y] = left[y]
  BY <1>1
<1>3. /\ Sound(et', left', now') /\ Ahead(et', left', now')
      /\ Range(et'.list) = Range(et.list) \cup {x}
  BY DEF Starts
<1>4. l >= -MaxLate
  BY <1>2, <1>3 DEF Sound
<1>5. \A y \in Timers : left'[y] >= -MaxLate - 1
  BY <1>1, <1>2, <1>4, Widths
<1> QED
  BY <1>1, <1>2, <1>3, <1>5 DEF EtimersInv

(* A step of a process on a timer of its own, that no callback has: x may come onto the
   list or leave it. *)
LEMMA OwnTimerStep ==
  ASSUME TimersInv, NEW x \in Timers \ CTimers, EtimersInv', Uses(x), Elsewhere,
         Range(et.list) \ {x} \subseteq Range(et'.list), Range(et'.list) \subseteq Range(et.list) \cup {x},
         \A y \in Timers : y # x => left'[y] = left[y]
  PROVE  TimersInv'
<1>0. /\ CTimers \subseteq Timers /\ x \notin CTimers
      /\ UNCHANGED <<now, queue, running, loop, ctimer_list, redone>>
  BY Names DEF Uses, Elsewhere
<1>1. \A c \in CTimers : left'[c] = left[c] /\ (c \in Range(et'.list) <=> c \in Range(et.list))
  BY <1>0
<1>2. QueueInv'
  BY <1>0, <1>1 DEF TimersInv, QueueInv, Waiting
<1>3. ProcessesInv'
  BY <1>0 DEF TimersInv, ProcessesInv
<1>4. /\ et.list \in Seq(Timers) /\ et'.list \in Seq(Timers) /\ ctimer_list \in Seq(CTimers)
  BY Zenon DEF TimersInv, EtimersInv, CtimersInv, Sound, EtimerStates
<1>6. Range(ctimer_list) \subseteq CTimers
  BY <1>4, ListedTimers
<1>7. WillBeCalled'
  BY <1>0, <1>1, <1>6 DEF TimersInv, CtimersInv, WillBeCalled
<1>8. CtimersInv'
  BY <1>0, <1>7, Zenon DEF TimersInv, CtimersInv
<1> QED
  BY <1>2, <1>3, <1>8 DEF TimersInv

(* Every interval that is asked for fits into a record. *)
LEMMA IntervalsFit == Intervals \subseteq 0..MAX_TICKS - MaxLate
BY IntervalsAssumption

(* A process works on a timer of its own. *)
LEMMA UsesStep ==
  ASSUME TimersInv, NEW x \in Timers \ CTimers, Elsewhere,
         \/ Restart(x) \/ Reset(x) \/ Stop(x)
         \/ \E i \in Intervals : Set(x, i) \/ ResetWithNewInterval(x, i)
         \/ \E d \in Diffs : Adjust(x, d)
  PROVE  TimersInv'
<1>1. /\ now \in 0..W - 1 /\ left \in [Timers -> Int] /\ Sound(et, left, now) /\ Ahead(et, left, now)
      /\ (\A y \in Timers : left[y] >= -MaxLate - 1) /\ x \in Timers /\ left[x] \in Int
  BY DEF TimersInv, EtimersInv
<1>2. ASSUME NEW l \in Int, Starts(et', et, x, left, l, now), left' = [left EXCEPT ![x] = l], Uses(x)
      PROVE  TimersInv'
  <2>1. now' = now
    BY <1>2 DEF Uses
  <2>2. /\ EtimersInv' /\ Range(et'.list) = Range(et.list) \cup {x}
        /\ \A y \in Timers : y # x => left'[y] = left[y]
    BY <1>1, <1>2, <2>1, StartsKeep, Zenon
  <2> QED
    BY <1>2, <2>2, OwnTimerStep, Zenon
<1>4. et.t[x] \in TimerRecords
  BY <1>1, Zenon DEF Sound, EtimerStates
<1>5. et.t[x].interval \in 0..MAX_TICKS - MaxLate /\ et.t[x].interval \in Int
  BY <1>4, RecordTypes, Zenon
<1>6. CASE Restart(x)
  <2>1. Starts(etimer_restart(et, x, Owner[x], now), et, x, left, et.t[x].interval, now)
    BY <1>1, RestartStarts, Zenon
  <2>2. et' = etimer_restart(et, x, Owner[x], now) /\ left' = [left EXCEPT ![x] = et.t[x].interval] /\ Uses(x)
    BY <1>6, Zenon DEF Restart, Uses
  <2> QED
    BY <1>2, <1>5, <2>1, <2>2, Zenon
<1>7. CASE Reset(x)
  <2>1. et' = etimer_reset(et, x, Owner[x], now) /\ Uses(x) /\ -MaxLate <= left[x] /\ left[x] <= 0
    BY <1>7, Zenon DEF Reset, Uses
  <2>2. left' = [left EXCEPT ![x] = left[x] + et.t[x].interval]
    BY <1>1, <1>7, Zenon DEF Reset
  <2>3. Starts(etimer_reset(et, x, Owner[x], now), et, x, left, left[x] + et.t[x].interval, now)
    BY <1>1, <2>1, ResetStarts, Zenon
  <2> DEFINE l == left[x] + et.t[x].interval
  <2>4. l \in Int /\ Starts(et', et, x, left, l, now) /\ left' = [left EXCEPT ![x] = l]
    BY <1>1, <1>5, <2>1, <2>2, <2>3
  <2> HIDE DEF l
  <2> QED
    BY <1>2, <2>1, <2>4, Zenon
<1>8. CASE Stop(x)
  <2>1. et' = etimer_stop(et, x, now) /\ Uses(x) /\ left' = left /\ now' = now
    BY <1>8 DEF Stop, Uses
  <2>4. Stops(etimer_stop(et, x, now), et, x, left, now)
    BY <1>1, StopKeeps
  <2>2. Sound(et', left', now') /\ Ahead(et', left', now') /\ Range(et'.list) = Range(et.list) \ {x}
    BY <2>1, <2>4, Zenon DEF Stops
  <2>3. EtimersInv'
    BY <1>1, <2>1, <2>2 DEF EtimersInv
  <2> QED
    BY <2>1, <2>2, <2>3, OwnTimerStep, Zenon
<1>9. ASSUME NEW i \in Intervals, Set(x, i) PROVE TimersInv'
  <2>1. i \in 0..MAX_TICKS - MaxLate /\ i \in Int
    BY IntervalsFit, Widths
  <2>2. et' = etimer_set(et, x, i, Owner[x], now) /\ left' = [left EXCEPT ![x] = i] /\ Uses(x)
    BY <1>9 DEF Set, Uses
  <2>3. Starts(etimer_set(et, x, i, Owner[x], now), et, x, left, i, now)
    BY <1>1, <2>1, SetStarts, Zenon
  <2> QED
    BY <1>2, <2>1, <2>2, <2>3
<1>10. ASSUME NEW i \in Intervals, ResetWithNewInterval(x, i) PROVE TimersInv'
  <2>1. i \in 0..MAX_TICKS - MaxLate /\ i \in Int
    BY IntervalsFit, Widths
  <2>2. /\ et' = etimer_reset_with_new_interval(et, x, i, Owner[x], now) /\ Uses(x)
        /\ -MaxLate <= left[x] /\ left[x] <= 0
    BY <1>10 DEF ResetWithNewInterval, Uses
  <2>3. left' = [left EXCEPT ![x] = left[x] + i]
    BY <1>1, <1>10 DEF ResetWithNewInterval
  <2>4. Starts(etimer_reset_with_new_interval(et, x, i, Owner[x], now), et, x, left, left[x] + i, now)
    BY <1>1, <2>1, <2>2, ResetStarts, Zenon
  <2> DEFINE l == left[x] + i
  <2>5. l \in Int /\ Starts(et', et, x, left, l, now) /\ left' = [left EXCEPT ![x] = l]
    BY <1>1, <2>1, <2>2, <2>3, <2>4
  <2> HIDE DEF l
  <2> QED
    BY <1>2, <2>2, <2>5
<1>11. ASSUME NEW d \in Diffs, Adjust(x, d) PROVE TimersInv'
  <2>1. d \in Int
    BY StepsAssumption
  <2>2. /\ et' = etimer_adjust(et, x, d, now) /\ left' = [left EXCEPT ![x] = @ + d] /\ Uses(x)
        /\ left[x] > 0 /\ left[x] + d \in 1..MAX_TICKS - MaxLate /\ left[x] + d <= et.t[x].interval + 1
        /\ now' = now
    BY <1>11, Zenon DEF Adjust, Uses
  <2>3. left[x] + d > 0 /\ left[x] + d <= MAX_TICKS - MaxLate
    BY <1>1, <2>1, <2>2, Widths
  <2> DEFINE lg == [left EXCEPT ![x] = @ + d]
             a == etimer_adjust(et, x, d, now)
  <2>10. Moves(a, et, x, left, left[x] + d, now)
    BY <1>1, <2>1, <2>2, <2>3, AdjustKeeps, Zenon
  <2>8. Sound(a, lg, now) /\ Ahead(a, lg, now) /\ a.list = et.list
    BY <2>10, Zenon DEF Moves
  <2>9. et' = a /\ left' = lg
    BY <2>2, Zenon
  <2> HIDE DEF a, lg
  <2>4. Sound(et', left', now') /\ Ahead(et', left', now') /\ et'.list = et.list
    BY <2>2, <2>8, <2>9, Zenon
  <2>5. left' \in [Timers -> Int] /\ left'[x] > 0 /\ \A y \in Timers : y # x => left'[y] = left[y]
    BY <1>1, <2>1, <2>2, <2>3
  <2>6. \A y \in Timers : left'[y] >= -MaxLate - 1
    BY <1>1, <2>5, Widths
  <2>7. EtimersInv'
    BY <1>1, <2>2, <2>4, <2>5, <2>6, Zenon DEF EtimersInv
  <2> QED
    BY <2>2, <2>4, <2>5, <2>7, OwnTimerStep, Zenon
<1> QED
  BY <1>6, <1>7, <1>8, <1>9, <1>10, <1>11

(* list_add: c is on the list, once, and nothing else comes or goes. *)
LEMMA ListAdd ==
  ASSUME NEW T, NEW s \in Seq(T), NEW c \in T, IsInjective(s)
  PROVE  list_add(s, c) \in Seq(T) /\ IsInjective(list_add(s, c)) /\ Range(list_add(s, c)) = Range(s) \cup {c}
<1> DEFINE d == Drop(s, {c})
           h == Append(d, c)
<1>1. d \in Seq(T) /\ Range(d) = Range(s) \ {c} /\ IsInjective(d)
  BY DropProperties
<1> HIDE DEF d
<1>2. /\ h \in Seq(T) /\ Len(d) \in Nat /\ DOMAIN d = 1..Len(d) /\ DOMAIN h = 1..Len(d) + 1
      /\ h[Len(d) + 1] = c /\ \A i \in 1..Len(d) : h[i] = d[i]
  BY <1>1
<1>6. list_add(s, c) = h
  BY DEF list_add, d
<1> HIDE DEF h
<1>3. \A i \in DOMAIN h : i \in DOMAIN d \/ i = Len(d) + 1
  BY <1>2
<1>4. Range(h) = Range(d) \cup {c}
  <2>1. \A v \in Range(h) : v \in Range(d) \cup {c}
    BY <1>2, <1>3 DEF Range
  <2>2. \A v \in Range(d) : v \in Range(h)
    BY <1>2 DEF Range
  <2>3. c \in Range(h)
    BY <1>2 DEF Range
  <2> QED
    BY <2>1, <2>2, <2>3
<1>5. IsInjective(h)
  <2>1. \A i \in DOMAIN d : d[i] # c
    BY <1>1 DEF Range
  <2> QED
    BY <1>1, <1>2, <1>3, <2>1 DEF IsInjective
<1> QED
  BY <1>1, <1>2, <1>4, <1>5, <1>6

(* Starting callback timer c anew *)
LEMMA AnewStep ==
  ASSUME TimersInv, NEW c \in CTimers, NEW l \in Int, UsesCallback(c), Anew(c, l),
         Starts(et', et, c, left, l, now)
  PROVE  TimersInv'
<1>0. /\ CTimers \subseteq Timers /\ c \in Timers
      /\ UNCHANGED <<now, queue, running, loop>> /\ left' = [left EXCEPT ![c] = l]
      /\ ctimer_list' = list_add(ctimer_list, c)
      /\ redone' = IF \E i \in DOMAIN queue : queue[i].timer = c THEN redone \cup {c} ELSE redone
  BY Names DEF UsesCallback, Anew
<1>1. /\ EtimersInv' /\ Range(et'.list) = Range(et.list) \cup {c}
      /\ \A y \in Timers : y # c => left'[y] = left[y]
  BY <1>0, StartsKeep
<1>2. /\ ctimer_list \in Seq(CTimers) /\ IsInjective(ctimer_list) /\ et.list \in Seq(Timers)
      /\ et'.list \in Seq(Timers)
  BY <1>1, Zenon DEF TimersInv, CtimersInv, EtimersInv, Sound, EtimerStates
<1>3. /\ ctimer_list' \in Seq(CTimers) /\ IsInjective(ctimer_list')
      /\ Range(ctimer_list') = Range(ctimer_list) \cup {c}
  BY <1>0, <1>2, ListAdd
<1>5. Waiting'
  <2> SUFFICES ASSUME NEW i \in DOMAIN queue, queue[i].timer \in CTimers
               PROVE  /\ queue[i].to = ctimer_process
                      /\ queue[i].timer \in Range(ctimer_list') =>
                           left'[queue[i].timer] <= 0 \/ queue[i].timer \in redone'
    BY <1>0 DEF Waiting
  <2>1. /\ queue[i].to = ctimer_process
        /\ queue[i].timer \in Range(ctimer_list) => left[queue[i].timer] <= 0 \/ queue[i].timer \in redone
    BY DEF TimersInv, QueueInv, Waiting
  <2>2. CASE queue[i].timer = c
    BY <1>0, <2>1, <2>2
  <2>3. CASE queue[i].timer # c
    <3>1. left'[queue[i].timer] = left[queue[i].timer]
      BY <1>0, <1>1, <2>3
    <3> QED
      BY <1>0, <1>3, <2>1, <2>3, <3>1
  <2> QED
    BY <2>2, <2>3, Zenon
<1>6. QueueInv'
  BY <1>0, <1>5 DEF TimersInv, QueueInv
<1>7. ProcessesInv'
  BY <1>0 DEF TimersInv, ProcessesInv
<1>8. WillBeCalled'
  BY <1>0, <1>1, <1>3, Zenon DEF TimersInv, CtimersInv, WillBeCalled
<1>9. CtimersInv'
  BY <1>0, <1>3, <1>8 DEF CtimersInv
<1> QED
  BY <1>1, <1>6, <1>7, <1>9 DEF TimersInv

(* A process works on a callback timer. *)
LEMMA CallbackUseStep ==
  ASSUME TimersInv, NEW c \in CTimers,
         \/ ctimer_reset(c) \/ ctimer_restart(c) \/ ctimer_stop(c)
         \/ \E i \in Intervals : ctimer_set(c, i)
  PROVE  TimersInv'
<1>0. /\ now \in 0..W - 1 /\ left \in [Timers -> Int] /\ Sound(et, left, now) /\ Ahead(et, left, now)
      /\ et \in EtimerStates /\ c \in Timers /\ Owner[c] = ctimer_process /\ left[c] \in Int
      /\ CTimers \subseteq Timers
  BY Names, Zenon DEF TimersInv, EtimersInv, ProcessesInv, Sound
<1>1. et.t[c] \in TimerRecords /\ et.list \in Seq(Timers)
  BY <1>0 DEF EtimerStates
<1>2. et.t[c].interval \in 0..MAX_TICKS - MaxLate /\ et.t[c].interval \in Int
  BY <1>1, RecordTypes
<1>3. et.t[c].p \in {Owner[c], PROCESS_NONE}
  BY <1>0, Zenon DEF Sound
<1>4. ctimer_list \in Seq(CTimers) /\ IsInjective(ctimer_list)
  BY DEF TimersInv, CtimersInv
<1>5. CASE ctimer_reset(c)
  <2> DEFINE l == left[c] + et.t[c].interval
  <2>1. UsesCallback(c) /\ Anew(c, l) /\ et' = etimer_reset(et, c, Owner[c], now) /\ left[c] \in -MaxLate..0
    BY <1>0, <1>5, Zenon DEF ctimer_reset
  <2>2. -MaxLate <= left[c] /\ left[c] <= 0 /\ l \in Int
    <3>1. l \in Int
      BY <1>0, <1>2
    <3> HIDE DEF l
    <3>2. -MaxLate <= left[c] /\ left[c] <= 0
      BY <1>0, <2>1, Widths
    <3> QED
      BY <3>1, <3>2
  <2>3. Starts(etimer_reset(et, c, Owner[c], now), et, c, left, l, now)
    BY <1>0, <2>2, ResetStarts, Zenon
  <2> HIDE DEF l
  <2> QED
    BY <2>1, <2>2, <2>3, AnewStep, Zenon
<1>6. CASE ctimer_restart(c)
  <2> DEFINE l == et.t[c].interval
  <2>1. UsesCallback(c) /\ Anew(c, l) /\ et' = etimer_restart(et, c, Owner[c], now)
    BY <1>0, <1>6, Zenon DEF ctimer_restart
  <2>2. Starts(etimer_restart(et, c, Owner[c], now), et, c, left, l, now) /\ l \in Int
    BY <1>0, <1>2, RestartStarts, Zenon
  <2> HIDE DEF l
  <2> QED
    BY <2>1, <2>2, AnewStep
<1>7. ASSUME NEW i \in Intervals, ctimer_set(c, i) PROVE TimersInv'
  <2>0. i \in 0..MAX_TICKS - MaxLate /\ i \in Int
    BY IntervalsFit, Widths
  <2>1. UsesCallback(c) /\ Anew(c, i) /\ et' = etimer_set(et, c, i, Owner[c], now)
    BY <1>0, <1>7 DEF ctimer_set
  <2>2. Starts(etimer_set(et, c, i, Owner[c], now), et, c, left, i, now)
    BY <1>0, <2>0, SetStarts, Zenon
  <2> QED
    BY <2>0, <2>1, <2>2, AnewStep
<1>8. CASE ctimer_stop(c)
  <2>0. /\ UsesCallback(c) /\ ctimer_list' = Drop(ctimer_list, {c}) /\ left' = left /\ redone' = redone
    BY <1>8 DEF ctimer_stop
  <2>1. /\ ctimer_list' \in Seq(CTimers) /\ Range(ctimer_list') = Range(ctimer_list) \ {c}
        /\ IsInjective(ctimer_list')
    BY <1>4, <2>0, DropProperties
  <2>2. et' = etimer_stop(et, c, now)
    BY <1>8 DEF ctimer_stop
  <2>3. UNCHANGED <<now, queue, running, loop, left, redone>>
    BY <2>0 DEF UsesCallback
  <2>4. Stops(etimer_stop(et, c, now), et, c, left, now)
    BY <1>0, StopKeeps
  <2>5. Sound(et', left', now') /\ Ahead(et', left', now') /\ Range(et'.list) = Range(et.list) \ {c}
    BY <2>2, <2>3, <2>4, Zenon DEF Stops
  <2>6. EtimersInv'
    BY <2>3, <2>5, Zenon DEF TimersInv, EtimersInv
  <2>7. QueueInv'
    BY <2>1, <2>3 DEF TimersInv, QueueInv, Waiting
  <2>8. ProcessesInv'
    BY <2>2, <2>3 DEF TimersInv, ProcessesInv
  <2>9. WillBeCalled'
    BY <2>1, <2>2, <2>3, <2>5, Zenon DEF TimersInv, CtimersInv, WillBeCalled
  <2>10. CtimersInv'
    BY <2>1, <2>2, <2>9 DEF CtimersInv
  <2> QED
    BY <2>6, <2>7, <2>8, <2>10 DEF TimersInv
<1> QED
  BY <1>5, <1>6, <1>7, <1>8

(* ctimer_process or another process takes its event out of the queue. *)
LEMMA TakeStep ==
  ASSUME TimersInv, queue # <<>>, queue' = Tail(queue), loop = "event",
         UNCHANGED <<now, et, running, left>>,
         loop' \in {"poll", "event"} \cup running,
         \/ Head(queue).to # ctimer_process /\ ctimer_list' = ctimer_list /\ redone' = redone
         \/ /\ ctimer_list' = Drop(ctimer_list, {Head(queue).timer})
            /\ redone' = redone \ {Head(queue).timer}
  PROVE  TimersInv'
<1> DEFINE c == Head(queue).timer
<1>0. queue \in Seq(EventRecords) /\ Len(queue) <= NumEvents /\ Waiting
  BY DEF TimersInv, QueueInv
<1>1. /\ queue' \in Seq(EventRecords) /\ Len(queue') <= Len(queue) /\ 1 \in DOMAIN queue
      /\ Head(queue) = queue[1]
      /\ \A i \in DOMAIN queue' : \E j \in DOMAIN queue : queue'[i] = queue[j]
      /\ \A i \in DOMAIN queue : queue[i] = Head(queue) \/ \E j \in DOMAIN queue' : queue'[j] = queue[i]
  BY <1>0, TailOf
<1>2. Len(queue') <= NumEvents
  BY <1>0, <1>1, NumEventsAssumption
<1>3. ctimer_list \in Seq(CTimers) /\ IsInjective(ctimer_list)
  BY DEF TimersInv, CtimersInv
<1>5. EtimersInv'
  BY DEF TimersInv, EtimersInv
<1>6. ProcessesInv'
  BY DEF TimersInv, ProcessesInv
<1>7. Range(ctimer_list) \subseteq CTimers
  BY <1>3, ListedTimers
<1>8. CASE Head(queue).to # ctimer_process /\ ctimer_list' = ctimer_list /\ redone' = redone
  <2>1. c \notin CTimers
    BY <1>0, <1>1, <1>8 DEF Waiting
  <2>2. Waiting'
    <3> SUFFICES ASSUME NEW i \in DOMAIN queue', queue'[i].timer \in CTimers
                 PROVE  /\ queue'[i].to = ctimer_process
                        /\ queue'[i].timer \in Range(ctimer_list) =>
                             left[queue'[i].timer] <= 0 \/ queue'[i].timer \in redone
      BY <1>8 DEF Waiting
    <3>1. PICK j \in DOMAIN queue : queue'[i] = queue[j]
      BY <1>1
    <3> QED
      BY <1>0, <3>1 DEF Waiting
  <2>3. WillBeCalled'
    <3> SUFFICES ASSUME NEW d \in Range(ctimer_list), d \notin Range(et.list)
                 PROVE  \E j \in DOMAIN queue' : queue'[j].timer = d
      BY <1>8 DEF WillBeCalled
    <3>1. PICK i \in DOMAIN queue : queue[i].timer = d
      BY DEF TimersInv, CtimersInv, WillBeCalled
    <3>2. queue[i] # Head(queue)
      BY <1>7, <2>1, <3>1
    <3> QED
      BY <1>1, <3>1, <3>2
  <2>4. QueueInv' /\ CtimersInv'
    BY <1>1, <1>2, <1>3, <1>8, <2>2, <2>3 DEF QueueInv, CtimersInv
  <2> QED
    BY <1>5, <1>6, <2>4 DEF TimersInv
<1>9. CASE ctimer_list' = Drop(ctimer_list, {c}) /\ redone' = redone \ {c}
  <2>1. /\ ctimer_list' \in Seq(CTimers) /\ Range(ctimer_list') = Range(ctimer_list) \ {c}
        /\ IsInjective(ctimer_list')
    BY <1>3, <1>9, DropProperties
  <2>2. Waiting'
    <3> SUFFICES ASSUME NEW i \in DOMAIN queue', queue'[i].timer \in CTimers
                 PROVE  /\ queue'[i].to = ctimer_process
                        /\ queue'[i].timer \in Range(ctimer_list') =>
                             left[queue'[i].timer] <= 0 \/ queue'[i].timer \in redone'
      BY DEF Waiting
    <3>1. PICK j \in DOMAIN queue : queue'[i] = queue[j]
      BY <1>1
    <3>2. /\ queue[j].to = ctimer_process
          /\ queue[j].timer \in Range(ctimer_list) => left[queue[j].timer] <= 0 \/ queue[j].timer \in redone
      BY <1>0, <3>1 DEF Waiting
    <3> QED
      BY <1>9, <2>1, <3>1, <3>2
  <2>3. WillBeCalled'
    <3> SUFFICES ASSUME NEW d \in Range(ctimer_list'), d \notin Range(et.list)
                 PROVE  \E j \in DOMAIN queue' : queue'[j].timer = d
      BY DEF WillBeCalled
    <3>1. d \in Range(ctimer_list) /\ d # c
      BY <2>1
    <3>2. PICK i \in DOMAIN queue : queue[i].timer = d
      BY <3>1 DEF TimersInv, CtimersInv, WillBeCalled
    <3>3. queue[i] # Head(queue)
      BY <3>1, <3>2
    <3> QED
      BY <1>1, <3>2, <3>3
  <2>4. QueueInv' /\ CtimersInv'
    BY <1>1, <1>2, <2>1, <2>2, <2>3 DEF QueueInv, CtimersInv
  <2> QED
    BY <1>5, <1>6, <2>4 DEF TimersInv
<1> QED
  BY <1>8, <1>9

(* The clock interrupt, some of them missed: next_expiration is not passed unseen. *)
LEMMA TickStep ==
  ASSUME TimersInv, NEW k \in Jumps, Tick(k), Elsewhere
  PROVE  TimersInv'
<1>0. /\ now \in 0..W - 1 /\ left \in [Timers -> Int] /\ Sound(et, left, now) /\ Ahead(et, left, now)
      /\ (\A x \in Timers : left[x] >= -MaxLate - 1) /\ k \in Nat /\ CTimers \subseteq Timers
      /\ MaxLate \in Nat /\ et.list \in Seq(Timers)
  BY StepsAssumption, Names, Widths, Zenon DEF TimersInv, EtimersInv, Sound, EtimerStates
<1>1. /\ now' = (now + k) % W /\ et' = Interrupt(et, now')
      /\ left' = [x \in Timers |-> IF left[x] - k < -MaxLate THEN -MaxLate - 1 ELSE left[x] - k]
      /\ \A x \in Range(et.list) : left[x] - k >= -MaxLate
      /\ UNCHANGED <<queue, running, loop, ctimer_list, redone>>
  BY DEF Tick, Elsewhere
<1>2. /\ left' \in [Timers -> Int]
      /\ \A x \in Timers : left'[x] = IF left[x] - k < -MaxLate THEN -MaxLate - 1 ELSE left[x] - k
  BY <1>0, <1>1
<1> DEFINE m == now'
           lg == left'
<1>3. /\ m \in 0..W - 1 /\ Sound(Interrupt(et, m), lg, m) /\ Ahead(Interrupt(et, m), lg, m)
      /\ Interrupt(et, m).list = et.list
  <2>1. m = (now + k) % W /\ lg \in [Timers -> Int]
        /\ \A x \in Timers : lg[x] = IF left[x] - k < -MaxLate THEN -MaxLate - 1 ELSE left[x] - k
    BY <1>1, <1>2
  <2>2. Later(m, lg, et, left, now, k)
    BY <1>1, <2>1 DEF Later
  <2> HIDE DEF m, lg
  <2> QED
    BY <1>0, <2>2, TickKeeps
<1>4. \A x \in Timers : /\ left'[x] >= -MaxLate - 1 /\ left[x] \in Int
                       /\ (left[x] <= 0 => left'[x] <= 0)
                       /\ (left[x] = -MaxLate - 1 => left'[x] = -MaxLate - 1)
  BY <1>0, <1>2
<1>5. EtimersInv'
  BY <1>1, <1>2, <1>3, <1>4 DEF EtimersInv
<1>6. QueueInv'
  <2>1. Waiting'
    <3> SUFFICES ASSUME NEW i \in DOMAIN queue, queue[i].timer \in CTimers
                 PROVE  /\ queue[i].to = ctimer_process
                        /\ queue[i].timer \in Range(ctimer_list) =>
                             left'[queue[i].timer] <= 0 \/ queue[i].timer \in redone
      BY <1>1 DEF Waiting
    <3>1. queue[i].timer \in Timers
      BY <1>0
    <3> QED
      BY <1>4, <3>1 DEF TimersInv, QueueInv, Waiting
  <2> QED
    BY <1>1, <2>1 DEF TimersInv, QueueInv
<1>7. ProcessesInv'
  BY <1>1 DEF TimersInv, ProcessesInv
<1>8. et'.list = et.list
  BY <1>1, <1>3
<1>9. CtimersInv'
  <2>1. WillBeCalled'
    BY <1>1, <1>8, Zenon DEF TimersInv, CtimersInv, WillBeCalled
  <2> QED
    BY <1>1, <2>1 DEF TimersInv, CtimersInv
<1> QED
  BY <1>5, <1>6, <1>7, <1>9 DEF TimersInv

(* The poll of etimer_process: what leaves its list is in the queue. *)
LEMMA PollStep ==
  ASSUME TimersInv, DoPoll, Elsewhere
  PROVE  TimersInv'
<1>0. /\ now \in 0..W - 1 /\ left \in [Timers -> Int] /\ Sound(et, left, now) /\ Ahead(et, left, now)
      /\ queue \in Seq(EventRecords) /\ Len(queue) <= NumEvents /\ Waiting /\ et.list \in Seq(Timers)
      /\ ctimer_list \in Seq(CTimers)
  BY Zenon DEF TimersInv, EtimersInv, QueueInv, CtimersInv, Sound, EtimerStates
<1>1. /\ loop = "poll" /\ loop' = "event"
      /\ UNCHANGED <<now, running, left, ctimer_list, redone>>
  BY DEF DoPoll, Elsewhere
<1>3. ProcessesInv'
  BY <1>1 DEF TimersInv, ProcessesInv
<1>4. CASE ~et.poll
  <2>1. UNCHANGED <<et, queue>>
    BY <1>4 DEF DoPoll
  <2>2. EtimersInv' /\ QueueInv' /\ CtimersInv'
    BY <1>1, <2>1, Zenon DEF TimersInv, EtimersInv, QueueInv, Waiting, CtimersInv, WillBeCalled
  <2> QED
    BY <1>3, <2>2 DEF TimersInv
<1>5. CASE et.poll
  <2> DEFINE ev == Events(et, queue, now)
             a == Polled(et, queue, now)
             out == Range(Posted(et, queue, now))
  <2>1. et' = a /\ queue' = queue \o ev
    BY <1>5 DEF DoPoll
  <2>2. /\ Sound(a, left, now) /\ Ahead(a, left, now) /\ Range(a.list) = Range(et.list) \ out
    BY <1>0, PollKeeps, Zenon
  <2>3. /\ ev \in Seq(EventRecords) /\ Len(queue) + Len(ev) <= NumEvents
        /\ \A i \in DOMAIN ev : /\ ev[i].timer \in Range(et.list) /\ left[ev[i].timer] <= 0
                               /\ ev[i].to = Owner[ev[i].timer]
        /\ \A x \in out : \E i \in DOMAIN ev : ev[i].timer = x
    <3>1. /\ now \in 0..W - 1 /\ left \in [Timers -> Int] /\ Sound(et, left, now)
          /\ queue \in Seq(EventRecords) /\ Len(queue) <= NumEvents
      BY <1>0, Zenon
    <3> QED
      BY ONLY <3>1, EventsPosted
  <2> HIDE DEF ev, a, out
  <2>4. EtimersInv'
    BY <1>0, <1>1, <2>1, <2>2 DEF TimersInv, EtimersInv
  <2>5. /\ queue' \in Seq(EventRecords) /\ Len(queue') = Len(queue) + Len(ev)
        /\ \A i \in DOMAIN queue' :
             \/ i \in DOMAIN queue /\ queue'[i] = queue[i]
             \/ \E j \in DOMAIN ev : queue'[i] = ev[j]
        /\ \A i \in DOMAIN queue : i \in DOMAIN queue' /\ queue'[i] = queue[i]
        /\ \A j \in DOMAIN ev : \E i \in DOMAIN queue' : queue'[i] = ev[j]
    <3>1. queue \o ev \in Seq(EventRecords) /\ Joined(queue \o ev, queue, ev)
      BY <1>0, <2>3, JoinOf, Zenon
    <3>2. queue' \in Seq(EventRecords) /\ Joined(queue', queue, ev)
      BY <2>1, <3>1
    <3> QED
      BY <3>2 DEF Joined
  <2>6. Waiting'
    <3> SUFFICES ASSUME NEW i \in DOMAIN queue', queue'[i].timer \in CTimers
                 PROVE  /\ queue'[i].to = ctimer_process
                        /\ queue'[i].timer \in Range(ctimer_list) =>
                             left[queue'[i].timer] <= 0 \/ queue'[i].timer \in redone
      BY <1>1 DEF Waiting
    <3>1. CASE i \in DOMAIN queue /\ queue'[i] = queue[i]
      BY <1>0, <3>1 DEF Waiting
    <3>2. ASSUME NEW j \in DOMAIN ev, queue'[i] = ev[j]
          PROVE  queue'[i].to = ctimer_process /\ left[queue'[i].timer] <= 0
      BY <2>3, <3>2, Names, Zenon
    <3> QED
      BY <2>5, <3>1, <3>2
  <2>7. QueueInv'
    BY <2>3, <2>5, <2>6, Zenon DEF QueueInv
  <2>10. WillBeCalled'
    <3> SUFFICES ASSUME NEW d \in Range(ctimer_list), d \notin Range(a.list)
                 PROVE  \E i \in DOMAIN queue' : queue'[i].timer = d
      BY <1>1, <2>1 DEF WillBeCalled
    <3>1. d \in Range(et.list) \/ \E i \in DOMAIN queue : queue[i].timer = d
      BY DEF TimersInv, CtimersInv, WillBeCalled
    <3>2. CASE \E i \in DOMAIN queue : queue[i].timer = d
      BY <2>5, <3>2
    <3>3. CASE d \in Range(et.list)
      <4>1. d \in out
        BY <2>2, <3>3
      <4>2. PICK j \in DOMAIN ev : ev[j].timer = d
        BY <2>3, <4>1
      <4> QED
        BY <2>5, <4>2
    <3> QED
      BY <3>1, <3>2, <3>3
  <2>11. CtimersInv'
    BY <1>1, <2>10 DEF TimersInv, CtimersInv
  <2> QED
    BY <1>3, <2>4, <2>7, <2>11 DEF TimersInv
<1> QED
  BY <1>4, <1>5

(* A process exits, and its timers leave the list. *)
LEMMA ExitStep ==
  ASSUME TimersInv, Exit, loop # ctimer_process, Elsewhere
  PROVE  TimersInv'
<1>0. /\ now \in 0..W - 1 /\ left \in [Timers -> Int] /\ Sound(et, left, now) /\ Ahead(et, left, now)
      /\ et.list \in Seq(Timers) /\ ctimer_list \in Seq(CTimers)
  BY Zenon DEF TimersInv, EtimersInv, CtimersInv, Sound, EtimerStates
<1>1. /\ loop' = "poll" /\ running' = running \ {loop} /\ et' = Exited(et, loop)
      /\ UNCHANGED <<now, queue, left, ctimer_list, redone>>
  BY DEF Exit, Elsewhere
<1> DEFINE a == Exited(et, loop)
<1>2. /\ Sound(a, left, now) /\ Ahead(a, left, now)
      /\ Range(a.list) = {x \in Range(et.list) : et.t[x].p # loop}
  <2>1. now \in 0..W - 1 /\ left \in [Timers -> Int] /\ Sound(et, left, now) /\ Ahead(et, left, now)
    BY <1>0, Zenon
  <2> QED
    BY ONLY <2>1, ExitKeeps
<1> HIDE DEF a
<1>3. et' = a
  BY <1>1 DEF a
<1>4. EtimersInv'
  BY <1>1, <1>2, <1>3 DEF TimersInv, EtimersInv
<1>5. QueueInv'
  BY <1>1 DEF TimersInv, QueueInv, Waiting
<1>6. ProcessesInv'
  BY <1>1 DEF TimersInv, ProcessesInv
<1>9. Range(ctimer_list) \subseteq CTimers
  BY <1>0, ListedTimers
<1>10. \A d \in CTimers : d \in Range(et.list) => et.t[d].p = ctimer_process
  BY <1>0, Names DEF Sound
<1>11. WillBeCalled'
  BY <1>1, <1>2, <1>3, <1>9, <1>10, Zenon DEF TimersInv, CtimersInv, WillBeCalled
<1>12. CtimersInv'
  BY <1>1, <1>11 DEF TimersInv, CtimersInv
<1> QED
  BY <1>4, <1>5, <1>6, <1>12 DEF TimersInv

(* An event that is no timer's is posted. *)
LEMMA PostStep ==
  ASSUME TimersInv, NEW p \in running, Post(p), Elsewhere
  PROVE  TimersInv'
<1>0. queue \in Seq(EventRecords) /\ Waiting /\ p \in Procs
  BY DEF TimersInv, QueueInv, ProcessesInv
<1> DEFINE v == [to |-> p, timer |-> "other"]
<1>1. /\ Len(queue) < NumEvents /\ queue' = Append(queue, v)
      /\ UNCHANGED <<now, et, running, loop, left, ctimer_list, redone>>
  BY DEF Post, Elsewhere
<1>2. v \in EventRecords /\ v.timer \notin CTimers
  BY <1>0, Names DEF EventRecords
<1> HIDE DEF v
<1>3. /\ queue' \in Seq(EventRecords) /\ Len(queue') = Len(queue) + 1 /\ Len(queue) \in Nat
      /\ DOMAIN queue = 1..Len(queue) /\ DOMAIN queue' = 1..(Len(queue) + 1)
      /\ queue'[Len(queue) + 1] = v /\ \A i \in 1..Len(queue) : queue'[i] = queue[i]
  BY <1>0, <1>1, <1>2
<1>4. \A i \in DOMAIN queue' : queue'[i] = v \/ (i \in DOMAIN queue /\ queue'[i] = queue[i])
  <2> TAKE i \in DOMAIN queue'
  <2>1. i = Len(queue) + 1 \/ i \in 1..Len(queue)
    BY <1>3
  <2> QED
    BY <1>3, <2>1
<1>5. \A i \in DOMAIN queue : i \in DOMAIN queue' /\ queue'[i] = queue[i]
  BY <1>3
<1>6. Waiting'
  <2> SUFFICES ASSUME NEW i \in DOMAIN queue', queue'[i].timer \in CTimers
               PROVE  /\ queue'[i].to = ctimer_process
                      /\ queue'[i].timer \in Range(ctimer_list) =>
                           left[queue'[i].timer] <= 0 \/ queue'[i].timer \in redone
    BY <1>1 DEF Waiting
  <2>1. i \in DOMAIN queue /\ queue'[i] = queue[i]
    BY <1>2, <1>4
  <2> QED
    BY <1>0, <2>1 DEF Waiting
<1>7. QueueInv'
  BY <1>1, <1>3, <1>6, NumEventsAssumption DEF QueueInv
<1>8. EtimersInv' /\ ProcessesInv'
  BY <1>1 DEF TimersInv, EtimersInv, ProcessesInv
<1>9. WillBeCalled'
  <2> SUFFICES ASSUME NEW d \in Range(ctimer_list), d \notin Range(et.list)
               PROVE  \E i \in DOMAIN queue' : queue'[i].timer = d
    BY <1>1 DEF WillBeCalled
  <2>1. PICK i \in DOMAIN queue : queue[i].timer = d
    BY DEF TimersInv, CtimersInv, WillBeCalled
  <2> QED
    BY <1>5, <2>1
<1>11. CtimersInv'
  BY <1>1, <1>9 DEF TimersInv, CtimersInv
<1> QED
  BY <1>7, <1>8, <1>11 DEF TimersInv

(* Every step keeps the invariant: one case for each action. *)
LEMMA TimersInvStep == TimersInv /\ [Next]_vars => TimersInv'
<1> SUFFICES ASSUME TimersInv, [Next]_vars PROVE TimersInv'
  OBVIOUS
<1>1. CASE CallBack
  <2>1. /\ loop = "event" /\ queue # <<>> /\ queue' = Tail(queue)
        /\ UNCHANGED <<now, et, running, left>>
        /\ ctimer_list' = Drop(ctimer_list, {Head(queue).timer})
        /\ redone' = redone \ {Head(queue).timer} /\ loop' \in {ctimer_process, "poll"}
    BY <1>1 DEF CallBack
  <2>2. loop' \in {"poll", "event"} \cup running
    BY <2>1 DEF TimersInv, ProcessesInv
  <2> QED
    BY <2>1, <2>2, TakeStep
<1>2. ASSUME NEW c \in CTimers,
             \/ ctimer_reset(c) \/ ctimer_restart(c) \/ ctimer_stop(c)
             \/ \E i \in Intervals : ctimer_set(c, i)
      PROVE  TimersInv'
  BY <1>2, CallbackUseStep
<1>3. ASSUME Elsewhere, NEW k \in Jumps, Tick(k) PROVE TimersInv'
  BY <1>3, TickStep
<1>4. CASE Elsewhere /\ DoPoll
  BY <1>4, PollStep
<1>5. CASE Elsewhere /\ DoEvent /\ (queue # <<>> => Head(queue).to # ctimer_process)
  <2>1. /\ loop = "event" /\ UNCHANGED <<now, et, running, left, ctimer_list, redone>>
    BY <1>5 DEF DoEvent, Elsewhere
  <2>2. CASE queue = <<>>
    <3>1. loop' = "poll" /\ queue' = queue
      BY <1>5, <2>2 DEF DoEvent
    <3> QED
      BY <2>1, <3>1, Zenon
         DEF TimersInv, EtimersInv, QueueInv, Waiting, ProcessesInv, CtimersInv, WillBeCalled
  <2>3. CASE queue # <<>>
    <3>1. queue' = Tail(queue) /\ loop' \in {"poll", "event"} \cup running /\ Head(queue).to # ctimer_process
      BY <1>5, <2>3 DEF DoEvent
    <3> QED
      BY <2>1, <2>3, <3>1, TakeStep
  <2> QED
    BY <2>2, <2>3
<1>6. CASE Elsewhere /\ Return
  BY <1>6, Zenon DEF Return, Elsewhere, TimersInv, EtimersInv, QueueInv, Waiting, ProcessesInv, CtimersInv, WillBeCalled
<1>7. CASE Elsewhere /\ Exit /\ loop # ctimer_process
  BY <1>7, ExitStep
<1>8. ASSUME Elsewhere, NEW p \in running \ {ctimer_process}, Post(p) PROVE TimersInv'
  BY <1>8, PostStep
<1>9. ASSUME Elsewhere, NEW x \in Timers \ CTimers,
              \/ Restart(x) \/ Reset(x) \/ Stop(x)
              \/ \E i \in Intervals : Set(x, i) \/ ResetWithNewInterval(x, i)
              \/ \E d \in Diffs : Adjust(x, d)
       PROVE  TimersInv'
  BY <1>9, UsesStep
<1>10. CASE UNCHANGED vars
  BY <1>10, Zenon
     DEF vars, TimersInv, EtimersInv, QueueInv, Waiting, ProcessesInv, CtimersInv, WillBeCalled
<1> QED
  BY <1>1, <1>2, <1>3, <1>4, <1>5, <1>6, <1>7, <1>8, <1>9, <1>10, Zenon DEF Next

(* The timers, the queue and the two lists agree at all times. *)
THEOREM TimersInvariant == Spec => []TimersInv
<1>1. Init /\ [][Next]_vars => []TimersInv
  BY TimersInvInit, TimersInvStep, PTL
<1> QED
  BY <1>1, PTL DEF Spec

(* The lists of etimer.c and ctimer.c never hold a timer twice, the queue never more
   than PROCESS_CONF_NUMEVENTS events, and a timer belongs to its process or to none. *)
THEOREM TimersWellTyped == Spec => []TypeOK
<1>1. TimersInv => TypeOK
  <2> SUFFICES ASSUME TimersInv PROVE TypeOK
    BY Zenon
  <2>1. /\ et.next \in 0..W - 1 /\ et.poll \in BOOLEAN /\ et.t \in [Timers -> TimerRecords]
        /\ IsInjective(et.list) /\ \A x \in Timers : et.t[x].p \in {Owner[x], PROCESS_NONE}
    BY DEF TimersInv, EtimersInv, Sound, EtimerStates
  <2>2. \A x \in Timers : et.t[x].start \in 0..W - 1
    BY <2>1, RecordTypes
  <2>3. Range(ctimer_list) \subseteq CTimers /\ IsInjective(ctimer_list)
    <3>1. ctimer_list \in Seq(CTimers) /\ IsInjective(ctimer_list)
      BY DEF TimersInv, CtimersInv
    <3> QED
      BY <3>1, ListedTimers
  <2> QED
    BY <2>1, <2>2, <2>3, Zenon DEF TypeOK, TimersInv, EtimersInv, QueueInv, ProcessesInv
<1> QED
  BY <1>1, TimersInvariant, PTL

(* A timer on timerlist that is due has a poll of etimer_process coming: the one date
   next_expiration, compared with a clock that wraps, misses none of them, in whatever
   order timers are set, reset, adjusted, stopped and dropped with their process. *)
THEOREM NoTimerForgotten == Spec => []NeverForgotten
<1>1. TimersInv => NeverForgotten
  BY DEF TimersInv, EtimersInv, Ahead, NeverForgotten
<1> QED
  BY <1>1, TimersInvariant, PTL

(* A timer on ctimer_list is on timerlist, or its event waits for ctimer_process: no
   order of expiries, callbacks and calls of ctimer.h loses one between the two. *)
THEOREM NoCallbackLost == Spec => []WillBeCalled
<1>1. TimersInv => WillBeCalled
  BY DEF TimersInv, CtimersInv
<1> QED
  BY <1>1, TimersInvariant, PTL

(* What one step may add to the queue: NeverEarly, of a step *)
LEMMA NotEarlyStep ==
  ASSUME TimersInv, Next, Len(queue') > Len(queue),
         NEW i \in Len(queue) + 1..Len(queue'), queue'[i].timer \in Timers
  PROVE  left[queue'[i].timer] <= 0
<1>0. /\ queue \in Seq(EventRecords) /\ Len(queue) <= NumEvents /\ Len(queue) \in Nat
      /\ DOMAIN queue = 1..Len(queue)
  BY DEF TimersInv, QueueInv
<1>1. queue' # queue
  BY <1>0
<1>2. ~(queue # <<>> /\ queue' = Tail(queue))
  <2>1. queue # <<>> => Len(Tail(queue)) <= Len(queue) /\ Len(Tail(queue)) \in Nat
    BY <1>0
  <2> QED
    BY <1>0, <2>1
<1>3. (Elsewhere /\ DoPoll) \/ \E p \in running : Post(p)
  <2>1. ~(\E k \in Jumps : Tick(k)) /\ ~Return /\ ~Exit
    BY <1>1, Zenon DEF Tick, Return, Exit
  <2>2. ~CallBack /\ ~DoEvent
    BY <1>1, <1>2, Zenon DEF CallBack, DoEvent
  <2>3. \A c \in CTimers : ~UsesCallback(c)
    BY <1>1 DEF UsesCallback
  <2>4. ~ \E c \in CTimers : \/ ctimer_reset(c) \/ ctimer_restart(c) \/ ctimer_stop(c)
                            \/ \E j \in Intervals : ctimer_set(c, j)
    BY <2>3 DEF ctimer_reset, ctimer_restart, ctimer_stop, ctimer_set
  <2>5. \A x \in Timers : ~Uses(x)
    BY <1>1 DEF Uses
  <2>6. ~ \E x \in Timers \ CTimers :
            \/ Restart(x) \/ Reset(x) \/ Stop(x)
            \/ \E j \in Intervals : Set(x, j) \/ ResetWithNewInterval(x, j)
            \/ \E d \in Diffs : Adjust(x, d)
    BY <2>5, Zenon DEF Restart, Reset, Stop, Set, ResetWithNewInterval, Adjust
  <2> QED
    BY <2>1, <2>2, <2>4, <2>6 DEF Next
<1>4. i \in Int /\ i > Len(queue) /\ i \notin DOMAIN queue
  BY <1>0
<1>5. ASSUME NEW p \in running, Post(p) PROVE FALSE
  <2> DEFINE v == [to |-> p, timer |-> "other"]
  <2>1. queue' = Append(queue, v)
    BY <1>5 DEF Post
  <2>2. p \in Procs
    BY DEF TimersInv, ProcessesInv
  <2>3. v \in EventRecords /\ v.timer = "other"
    BY <2>2 DEF EventRecords
  <2> HIDE DEF v
  <2>4. Len(queue') = Len(queue) + 1 /\ queue'[Len(queue) + 1] = v
    BY <1>0, <2>1, <2>3
  <2>5. i = Len(queue) + 1
    BY <1>0, <2>4
  <2> QED
    BY <2>3, <2>4, <2>5, NamesAssumption
<1>6. ASSUME Elsewhere, DoPoll PROVE left[queue'[i].timer] <= 0
  <2> DEFINE ev == Events(et, queue, now)
  <2>1. queue' = queue \o ev
    BY <1>1, <1>6, Zenon DEF DoPoll
  <2>2. /\ ev \in Seq(EventRecords)
        /\ \A j \in DOMAIN ev : /\ ev[j].timer \in Range(et.list) /\ left[ev[j].timer] <= 0
                               /\ ev[j].to = Owner[ev[j].timer]
    <3>1. now \in 0..W - 1 /\ left \in [Timers -> Int] /\ Sound(et, left, now)
      BY DEF TimersInv, EtimersInv
    <3> QED
      BY <1>0, <3>1, EventsPosted
  <2> HIDE DEF ev
  <2>3. queue \o ev \in Seq(EventRecords) /\ Joined(queue \o ev, queue, ev)
    BY <1>0, <2>2, JoinOf, Zenon
  <2>4. queue' \in Seq(EventRecords) /\ Joined(queue', queue, ev)
    BY <2>1, <2>3
  <2>5. i \in DOMAIN queue'
    BY <1>0, <2>4
  <2>6. PICK j \in DOMAIN ev : queue'[i] = ev[j]
    BY <1>4, <2>4, <2>5 DEF Joined
  <2> QED
    BY <2>2, <2>6
<1> QED
  BY <1>3, <1>5, <1>6

(* etimer_process posts the event of no timer before it is due, however the clock wraps. *)
THEOREM NoEventEarly == Spec => NeverEarly
<1>1. TimersInv /\ [Next]_vars =>
        [Len(queue') > Len(queue) =>
           \A i \in Len(queue) + 1..Len(queue') :
             queue'[i].timer \in Timers => left[queue'[i].timer] <= 0]_eventVars
  <2>1. CASE UNCHANGED vars
    BY <2>1 DEF vars, eventVars
  <2>2. CASE Next
    BY <2>2, NotEarlyStep
  <2> QED
    BY <2>1, <2>2
<1> QED
  BY <1>1, TimersInvariant, PTL DEF Spec, NeverEarly

(* ctimer_process calls back early only for a timer that was set again while the event of
   its old expiry was waiting. *)
THEOREM CallbackEarlyOnlyIfRedone == Spec => EarlyOnlyIfRedone
<1>1. TimersInv /\ [Next]_vars => [called' # "none" => left[called'] <= 0 \/ called' \in redone]_vars
  <2> SUFFICES ASSUME TimersInv, Next, called' # "none"
               PROVE  left[called'] <= 0 \/ called' \in redone
    OBVIOUS
  <2>1. CallBack
    BY DEF Next, Elsewhere, UsesCallback, ctimer_set, ctimer_reset, ctimer_restart, ctimer_stop
  <2> DEFINE c == Head(queue).timer
  <2>2. queue # <<>> /\ called' = c /\ c \in Range(ctimer_list)
    BY <2>1 DEF CallBack
  <2>3. queue \in Seq(EventRecords) /\ ctimer_list \in Seq(CTimers) /\ Waiting
    BY DEF TimersInv, QueueInv, CtimersInv
  <2>4. 1 \in DOMAIN queue /\ Head(queue) = queue[1]
    BY <2>2, <2>3, TailOf
  <2>5. c \in Range(ctimer_list) /\ c \in CTimers
    BY <2>2, <2>3, ListedTimers
  <2> QED
    BY <2>2, <2>3, <2>4, <2>5 DEF Waiting
<1> QED
  BY <1>1, TimersInvariant, PTL DEF Spec, EarlyOnlyIfRedone
=============================================================================
