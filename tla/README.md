# C-sync in TLA+

C-sync synchronises the clocks of a wireless sensor network. In rounds, the nodes
of the network elect cluster heads, connect the clusters through bridges, give
every head a slot and pass one clock from cluster to cluster. The code is C on
Contiki: the protocol itself (`examples/c-sync/c-sync.c`, `core/net/c-sync/`), the
path of its announcements (`core/net/rime/`, `core/net/mac/csma.c`) and the
real-time timer of the CPU (`cpu/msp430/f1xxx/rtimer.c`).

This directory holds TLA+ modules that model that code, TLC configurations that
check them, and TLAPS proofs. The build modelled is that of
`examples/c-sync/project-conf.h`: `TEST_GTSP`, `TEST_BYZ` and `AVG_CONSENSUS` are 0.

## Inventory

### Parts and their state

| part | state | operations |
|---|---|---|
| process thread | the yield it waits at, `my_state`, slots, counters, `saved_*`, radio, open channels | the stretches of code between two `PROCESS_YIELD`s |
| timer callbacks `enter_*` | `my_state`, announcements' values, schedule reference | one per phase, run from the timer interrupt |
| receive handlers | everything above, roles, lists, neighbours, blacklist | `received_{discovery,revelation,declaration,convergence,synchronization}_announcement` |
| cluster lists | role, `CHs_list`, `CBs_list`, pools `m_CH`, `m_CB` | `handle_lists`, `list_init`, `init_consensus_convergence` |
| real-time timer | state, callback, date, reference | `rtimer_schedule`, adjustment, expiry |
| announcement path | values, observer, resend counter, waiting packet, csma queue | bump, cancel, init, stop, timer, sent callback, collision |
| logical clock | `coarse_count`, `fine_offset`, the armed date | ticks, overflow, adjustments, schedules by date and by interval |
| clock estimation (GTSP) | differences to the neighbours, their phases, who was in step | `gtsp_recv`, `gtsp_update_rtimer`, `add_to_neighbour` |
| event timers | list, next expiration, events in the queue | set, restart, reset, adjust, stop, poll, exit of a process |
| callback timers | list | set, reset, restart, stop, the process that calls back |
| broadcast announcements | randomised timer | send, set timers |

A round: DISCOVERY, ELECTION_REVELATION and _DECLARATION (heads declare
themselves, the others list the best), CONNECTION_REVELATION and _DECLARATION
(a member of two clusters becomes a bridge and declares the sum of its heads'
addresses), CONSENSUS_CONVERGENCE (heads claim slots, bridges acknowledge),
CONSENSUS_REVELATION, then a few iterations of CONSENSUS_SYNCHRONIZATION and IDLE,
and `soft_reset`.

### How they interact, and what is hard

The thread waits at one of eight yields. Every callback and some handlers wake
it with `process_poll`, which does not say who called. Handlers run between
yields and use the same globals as the thread; one of them may call the callback
of a phase itself and put the timer into SINGLEPASS, so that the thread's next
`rtimer_schedule` keeps the handler's date and callback. A schedule can fail,
having already replaced the callback. Announcements are resent from a callback
that arrives long after the packet was handed over. Lists are dropped without
freeing their blocks, and `soft_reset` keeps roles and lists. `PROJECT.json` lists
these hazards with the lines where they bite.

## Modules

| module | models |
|---|---|
| `CHBLists` | `handle_lists` on one list and its pool |
| `HeadElection` | the list of a member during one election |
| `ClusterLists` | abstract: what a node's role, lists and pools may do |
| `RTimer` | the timer, in relative time; one unit is one slot |
| `CSyncThread` | thread between two yields, timer callbacks, resets |
| `CSyncHandlers` | the five receive handlers |
| `CSyncNode` | one node: thread, interrupt, handlers and time interleaved; its properties |
| `DiscoveryNet` | several nodes that agree on the date of the election, on top of `RTimer` |
| `ClockDates` | hardware and logical clock in ticks, dates modulo a word, one timer, the difference measured to a neighbour |
| `Gtsp` | `gtsp_update_rtimer` as a function of the neighbour list: vote, mean, jump |
| `GtspNet` | nodes that broadcast their clocks, measure and correct; frames lost and late |
| `Etimer` | the functions of `etimer.c` and `timer.c` on the list of timers |
| `EventTimers` | event timers of several processes with the clock, the event queue and polls |
| `CallbackTimers` | `ctimer.c` composed with `EventTimers` |
| `PoliteAnnouncement` | announcement, polite-announcement, ipolite and csma |
| `MCHeadElection`, `MCNode`, `MCClock`, `MCGtsp`, `MCTimers` | constants for TLC |
| `CHBListsProofs`, `ListProofs` | lemmas on `handle_lists`, theorems on the election and the cluster lists |
| `PoliteProofs`, `ClockProofs`, `GtspProofs`, `DiscoveryProofs` | theorems on the announcement path, the clock, the clock estimation and the discovery |
| `EtimerProofs`, `TimerProofs` | lemmas on the functions of `etimer.c`, theorems on the event and callback timers |

`CSyncThread` and `CSyncHandlers` are functions from the record of the node's globals
to the next record, under the names of the source; `CSyncNode` makes them actions
(`Thread`, `Timer`, `Tick`, `Hear...`). A C function that calls others is one step with
all of them. An invalid memory access is recorded in `fault` and stops the node.
The cancels of the polite module do not touch the node's globals and appear only
in `PoliteAnnouncement`. Operators called a mutant of another definition state a
plausible mistake in it; they are not used by any specification and only serve
to see that a property would notice.

The neighbours are an environment: any message of `Messages` may arrive whenever the
radio is on and a channel is open, if the sender's phase differs from the node's by
an amount in `Skew`, and any message may be lost, repeated or reordered. A message of
the node's own phase carries the end of that phase; one of another phase carries a
date of `Dates`. `add_to_neighbour` is modelled for known, synced neighbours here; its
branch for a new neighbour is in `GtspNet` and `DiscoveryNet`.

`DiscoveryNet` is the discovery seen from outside: every node runs the two handlers that
matter there on frames of the others. One frame is on the channel at a time; it is
received by any subset of the nodes, at once or after some slots. A node that was
switched on just now knows nobody; the others know each other from the round before.

## Runs

| run | shows | distinct states |
|---|---|---|
| `head_election` | the list is the best four of eight heads, best first, whatever the order (`KeepsBestHeads`); no block is lost (`PoolExact`) | 256 |
| `polite` | a bump hands over at most `max_send_dups` packets, an idle cancel is final, the queue drains | 11,803 |
| `node_rounds` | two rounds among neighbours in the same phase, the second on the roles and lists of the first: no invalid access, the thread and the phase stay in step, nothing stale is announced, ranked lists, a block for every list entry, distinct slots, the sum a bridge declares, phases that keep time, iterations that start alike, a border head that does start the synchronization, and every round ends | 499,595 |
| `node_late` | messages of any later phase, with dates to come, too near and passed: the node always has a poll or a timer that will come (`WakeUpComes`), and `CSyncNode` implements `ClusterLists` | 537,982 |
| `clock_dates` | the logical clock advances by at most one tick per tick and never goes back; adjustments move it exactly; the offset stays in its range until an adjustment is more than one carry makes good (`OffsetKept`); the timer fires on its date unless the clock jumped over it; a close neighbour is measured at the right distance on both sides of an overflow (`MeasuredRight`) | 366,210 |
| `gtsp` | mean and jump lead no clock outside the known ones (`NeverApart`); stored differences stay true; a coarse count is only exchanged for one that was heard, never against the majority; after the discovery a clock jumps only to that of a neighbour in the consensus found in step before (`JumpsOnlyToTrusted`) | 423,894 |
| `timers` | no due timer without a poll, no event early, no timer lost between the lists of `etimer.c` and `ctimer.c`, each comes to its event; with a full queue, exits and a clock that wraps | 739,784 |
| `discovery_net` | three nodes: who has received a date that is still announced does not leave the discovery before it (`NotBefore`), and the dates are not put off for ever (`DateComes`) | 377,822 |

Four runs end in a counterexample, each to a sentence of the repository:

- `polite_cancel`: `ipolite.h:190` says a cancel "cancels a pending transmission".
  The callback of a packet that csma.c still holds counts the byte `send_dups` from
  255 to 0, and the resends begin again.
- `node_blacklists`: the comment behind the yield at `c-sync.c:819` says `// IDLE`. A bridge
  that blacklists a sender polls its own process, which leaves that yield while the
  synchronization is still on.
- `node_forgets`: `memb.h:47` says that blocks "are deallocated with the memb_free()
  function". `list_init` in the declaration and convergence handlers drops a list
  whose blocks stay in use.
- `clock_jumps`: `rtimer.c:349` says "if fine_offset grows too big or too small, adjust
  coarse_offset", and "BETTER, DO IT IMMEDIATELY". One carry is made: when an earlier
  adjustment has left half a period of offset, a jump back by more than that, which the
  discovery may ask for, wraps `fine_offset` below zero.

### Bounds

The node has address 2 and degree 2; neighbours 4 and 5 outrank it and 1 does not, so
it becomes a member (one of them heard), a bridge (both) or stays a head; 7 and 8
are heads behind a bridge. Lists hold two heads (`NUM_CH_MAX = 2`) and pools of bridges
three, so that a list fills. Four slots in `node_rounds` (five in the build) and three
in the others, with two iterations, let a slot be first, middle and last and let the
slots be restored once. `MAX_RX_SYNC_DISCOVERY = 1` shortens the counting of the
discovery. `MaxMsgs` says how many messages that are not of the discovery arrive in
each round: four in the first and one in the second, or two. `MaxAdjust` bounds the
large clock adjustments of a round. `LongAgo` exceeds every interval. `MaxLate` is 0: the
thread runs within the slot in which it is polled, which on the node is milliseconds
against a slot of 0.3 s. The idle phase and the lead of the election, ten and more
slots in the build, last one: nothing in them is counted in slots. In `polite`,
`MaxCalls` bounds the calls of the protocol; three buffers and two resends let packets
of two bumps overlap.

`DiscoveryNet` has two nodes of earlier rounds and a newcomer; an election two slots
ahead and a frame one slot late let a date be received on time, too late, and after a
later one was set. Frames and rounds of announcing are not bounded.

`ClockDates` has a period of a few ticks and a word of a few periods; every offset and
every position of a date relative to both overflows occurs. `MaxAdjust` bounds the
adjustments, which go back and on by up to a period, and `MaxCoarse` the coarse count; it starts
at 0, and an adjustment back takes it below, to the end of its word (`CoarseWord`). `GtspNet` checks
the networks of `Networks`: a set of nodes, their starting clocks, the differences that
may be read through a null pointer (near and far ones), and bounds on frames and phases. Three nodes let a
mean and a group form, four let a majority be outvoted, two go through a whole round,
with the correction of the consensus that follows a neighbour found in step. Three nodes
in the consensus are beyond TLC here; for them that correction rests on the proofs.
Nodes are interchangeable (`SYMMETRY`), and so are the coarse counts 0 and 1 at which they
start: `MCSpec` starts at most half of them at 1 (`FewAhead`). Clocks there do not drift between frames; rates
are 1. The timers' clock has three bits so that it wraps many times; intervals stay
below half of it, as `clock_time_t` demands; `MaxLate` bounds by how much the processes
may lag behind the clock, and the queue holds two events so that it fills.

`CHECK_DEADLOCK FALSE` is set where the model may stop: the announcement path when the
protocol makes no more calls, a node that has run into an invalid access among
neighbours of other phases, and clocks and networks at the end of their bounds.

### Fairness

`CSyncNode`: time passes (`WF_vars(Tick)`), and again and again no interrupt is due and no
poll is pending (`[]<>Rests`), because Contiki's scheduler runs a polled process and
the CPU serves its timer. Nothing is assumed of messages. `PoliteAnnouncement`: the
callback timer of a waiting packet fires, and every transmission attempt comes to
some outcome; neither success nor the protocol's calls are assumed. `EventTimers`: the
clock ticks, and again and again the CPU sleeps (`[]<>Asleep`), which `main` of
`contiki-sky-main.c` does only when no poll and no event is left. Without it a process
that always posts would keep the queue full and starve a timer at the list's end.
The clock's fairness there is strong (`SF`), since it waits while the processes lag
`MaxLate` behind. `DiscoveryNet`: time passes and interrupts are served; no frame is ever
assumed to be sent or received.

## Proofs

All are safety, for every value of the constants under the assumptions named in the
modules. Every safety property of the runs `head_election`, `polite`, `clock_dates`, `gtsp`,
`timers` and `discovery_net` is proved, and what `ClusterLists` promises, which `node_late`
shows the node to implement; each inductive invariant
was checked with TLC on the run's instance before its proof was written.

| module | assumed of the constants |
|---|---|
| lists | `NUM_CH_MAX <= NUM_CB_MAX`, a list of at least one entry (`ListAssumption`), heads told apart by address (`HeadsAssumption`) |
| `PoliteAnnouncement` | at least one buffer, resend and try, and `max_send_dups + QUEUEBUF_NUM < 255` (`PoliteAssumption`; 10 + 16 in the build) |
| `ClockDates` | a period of at least four ticks and a word of at least four periods; a coarse word of whole words; adjustments that a signed word holds; the rescheduling threshold and the threshold of a close neighbour below half a period; dates at most two periods ahead or one behind (`DatesAssumption`) |
| `GtspNet` | at least one node, integer clocks, a positive threshold; whatever is read through the null pointer |
| timers | an even width `W` of the clock; intervals of at most half of it less `MaxLate`; the callback timers are those that `ctimer_process` owns |
| `DiscoveryNet` | an interval of at least one slot, shorter than `LongAgo` |

- `CHBListsProofs`: lemmas on the scan, the insertion and the chop of `handle_lists`.
- `ListProofs`, the election: `KeepsBestHeads` and `PoolExact` are inductive together with the
  types. The rank is a strict total order; the scan of a ranked list stops where
  everything before outranks the newcomer and everything after is outranked by it;
  so the insertion keeps the order, and what a full list drops or turns away is
  outranked by all that stay. (`BestHeads`, `PoolIsExact`)
- `ListProofs`, the cluster lists: the pools cover the lists and `CBs_list` fits the pool of heads
  (`EntriesHaveBlocks`, `RebuildNeverStarves`); the list of a bridge is never shortened
  (`BridgeKeeps`). `ListAddIsTaken` ties `handle_lists` itself to the abstract step: the
  addresses of the list it returns are what `Taken` allows.
- `PoliteProofs`: the resend counter is a byte that old packets advance too. The
  invariant bounds it by what is still on its way (`CounterOK`), so that only a cancel
  makes it wrap, and pays for every packet handed over with a step of the counter
  (`BudgetOK`). From it `TypeCorrect`, `ResendBudgetHolds` and `IdleCancelIsFinal`.
- `ClockProofs`: an adjustment that takes the offset out of half a period to one and a
  half carries one period into `coarse_count`, so that only one of more than the offset, or
  of more than a carry makes good, leaves the range (`OffsetKeptInRange`). In that range one comparison decides the carry of the logical
  date, from which the logical clock never goes back (`LogicalClockNeverBack`) and an
  adjustment moves it exactly (`AdjustmentsMoveTheClock`). A neighbour less than the
  threshold away is measured with no coarse difference and at its true distance, on
  either side of an overflow (`NeighboursMeasuredRight`): both logical dates lie within
  a period (`LogicalDate`), so two close ones differ by at most one coarse count.
  `TimerFiresOnDate` needs more (`DatesInv`, as long as nothing is `overshot`): the hardware date has not passed
  (`NotPassed`), it and the logical date differ by no more than the offset and the
  tolerance (`CloseToDate`), and `scheduler_fine_offset_ref` follows the offset, so that
  an adjustment either moves the date by less than `RESCHEDULE` or schedules it again.
  The conversions are division with remainder by a period; that the intervals fit into
  a word is what keeps the wrap of `rtimer_lgdates_to_lg_interval` out.
- `GtspProofs`: `GtspInv` says that a node's list and the reports it has heard belong
  together (`Known`): one entry for each address heard, and every stored difference
  true. `DifferencesTrue` alone is not inductive, since a measurement must leave the other
  entries true. From it `DifferencesAlwaysTrue`; the vote of `gtsp_update_rtimer` elects
  the count of an entry (`CountsAlwaysKnown`) and cannot outvote more than half of the
  entries (`MajorityAlwaysKept`); a mean of differences below the threshold, with the
  node's own 0, is below it, so that only the correction to a neighbour in step moves a
  clock further (`AlwaysJumpsToTrusted`); and a mean, divided towards
  zero, lies between the least and the greatest of what is averaged, for the whole
  list as for the group that a jump follows (`ClocksNeverApart`). The sums are recursive
  functions bounded along the list.
- `EtimerProofs`, `TimerProofs`: the ghost `left` counts, without a wrap, the ticks to a
  timer's expiry. `Sound` ties it to the record by a congruence modulo `W` (`Timed`);
  `Ahead` says that a due timer has a poll and that for every other `next_expiration`
  lies between half the clock before its date and the date, which is what lets the
  interrupt's comparison see it in time although an exit leaves `next_expiration` behind.
  The lemmas of `EtimerProofs` say that each function of `etimer.c` keeps both; the least
  distance that `update_time` looks for exists since naturals are well-founded.
  `TimersInv` adds that an event in the queue for a callback timer belongs to one that is
  due or was set again (`Waiting`). From it `NoTimerForgotten`, `NoCallbackLost`,
  `CallbackEarlyOnlyIfRedone`, and `TimersWellTyped`: neither list ever holds a timer
  twice. `NoEventEarly` follows from the congruence, as two congruent numbers less than
  `W` apart are equal.
- `DiscoveryProofs`: `NotBefore` compares timers, and is inductive only with what they
  hold (`DiscoveryInv`): a node's announced date is its timer's, a date is to come or out
  of reach (`ToCome`), and whoever was told a date that is still announced has its timer
  set for that date or a later one (`ToldAndSet`). Each handler keeps this because it
  follows to the later of two dates only (`Reacts`). From it `NeverLeavesBefore`.

Only model-checked: everything about `CSyncNode`, whose thread is recursive (the loop of
iterations calls itself when a schedule fails), which takes it out of the prover's
reach, and with it the refinement of `ClusterLists` by the node; and the liveness
properties `Quiesces`, `RoundsComplete`, `InitiatorSends`, `EachComes` and `DateComes`, since the
prover has no fairness.

## What the checks do not say

Where a property has an exception, the code has it too:

- A date that has passed is accepted by `rtimer_schedule`: its interval is taken modulo
  2^32 (`rtimer.c:424`) and lies some 64 coarse periods ahead, although the guard time
  of `rtimer.h:262` is there "to avoid accidentally scheduling a rtimer in the past".
  Such a timer comes (`WakeUpComes`), but not on time: `RoundsComplete`, `NotBefore` and
  `DateComes` leave out a timer at `LongAgo`. In the discovery such a date can be passed on
  to nodes that have none.
- An entry without a slot that `soft_reset` keeps gives the next round a head whose slot
  comes to 0. The interval to it is negative; its conversion to the unsigned word is
  undefined in C, and where it wraps the timer comes some 17 minutes later. `PhasesKeepTime`
  and `RoundsComplete` leave this wait out (`AwaitsSlotZero`).
- A clock that jumps over the date of its timer loses it (`FiresOnDate`). The offset
  stays in its range until an adjustment is larger than one carry makes good, as
  `clock_jumps` shows; from there on `overshot` leaves the timer and the clock out. A date that lies a word
  (64 periods) or more ahead when an adjustment schedules it again has its interval
  taken modulo the word and fires that much early; the ghost `ahead` leaves it out.
- `etimer_adjust` that moves a timer ahead by more than has passed of its interval puts
  its start into the future, and `timer_expired` takes it for one long expired. `Adjust`
  stays within that; `etimer.h:157` says it "should only be used for small adjustments",
  and its one caller in the tree moves back.
- A callback timer set again while the event of its last expiry is queued is called
  back at once and its new interval is dropped, although `ctimer.h:109` says "when the
  callback timer expires". `EarlyOnlyIfRedone` says that this is the only case.
- The branches of `ctimer.c` for timers set before its process has run are dead code:
  `process_start` runs `ctimer_process` up to its first yield. The model starts there.
- In the search for the majority (`gtsp.c:210`) the inner loop reuses the iterator of
  the outer one; a fine difference is then read through a null pointer, which `Read`
  shows as a choice of values. `MajorityKept` and `CountsKnown` hold whatever is read. The vote counts
  neighbours of other phases. `NeverApart` is claimed of nodes whose neighbours agree
  with them on the coarse count.
- When the receiver is behind a neighbour across an overflow, `gtsp.c:132` gives the
  distance with the wrong sign: `MeasuredRight` claims the sign only where the receiver
  is not behind.
- With neighbours of another phase the iterations need not start alike. A node in the
  discovery that hears a message four or more phases ahead may join with no timer set;
  `leapt` leaves it out of `WakeUpComes`. The other properties of the node are checked
  for the `Skew` named in their runs and not beyond it.
- In rounds after the first, roles and lists are those of the round before, and the
  properties of bridges (`FirstRound`) are claimed for the first round only.
  `BridgeSlotsDistinct` leaves out slot 1: a head heard between the timer and the thread
  meets the `my_slot_ack` of before.

## Not modelled

- The floating-point clock rates of GTSP, and so the drift of clocks: TLC has no reals,
  and the bounds of a drift are not in the code.
- The capture registers of the timer and the radio drivers: hardware.
- The randomised timer and packet contents of the broadcast announcements, and the
  placing of announcements: they choose a delay, and every delay is allowed.
- The Byzantine messages and the average consensus, compiled out.
- The test topologies of `check_mod_neighbours`: a table of laboratory nodes.
- Several whole nodes: the state of one node alone fills a run, so agreement between
  heads and bridges on a slot, and "every head has been synchronised", are not checked
  across nodes; the neighbours of `CSyncNode` may say anything of `Messages` instead.
- Earlier variants of the main file, and the rest of Contiki.
