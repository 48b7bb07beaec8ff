------------------------- MODULE PoliteAnnouncement -------------------------
(***************************************************************************)
(* The path an announcement takes out of a C-sync node: announcement.c     *)
(* (values and the bump observer), polite-announcement.c (the resend       *)
(* counter), ipolite.c (one packet waiting for a callback timer) and the   *)
(* broadcast queue of csma.c, whose "sent" callback arrives long after the *)
(* packet was handed over.                                                 *)
(*                                                                         *)
(* Packet contents are left out: a packet is a copy of every announcement  *)
(* that has a value, and only whether there is one decides what is sent.   *)
(***************************************************************************)
EXTENDS Integers

CONSTANTS QUEUEBUF_NUM,       \* packet buffers of the node (queuebuf.h)
          max_send_dups,      \* PA_RESILIENCE_MAX_SEND_DUPS, every caller's
          max_recv_dups,      \* PA_REGULAR_MAX_RECV_DUPS, every caller's
          POLITE_INTERVAL,
          Intervals,          \* the values c.interval is set to
          CSMA_MAX_BACKOFF,
          max_transmissions,  \* CSMA_MAX_MAX_FRAME_RETRIES + 1
          MaxCalls            \* bound: calls made by the protocol

ASSUME PoliteAssumption ==
  /\ QUEUEBUF_NUM \in Nat \ {0}
  /\ max_send_dups \in Nat \ {0}
  /\ max_recv_dups \in Nat \ {0}
  /\ max_send_dups + QUEUEBUF_NUM < 255
  /\ POLITE_INTERVAL \in Nat \ {0}
  /\ Intervals \subseteq Nat
  /\ 0 \in Intervals
  /\ CSMA_MAX_BACKOFF \in Nat
  /\ max_transmissions \in Nat \ {0}
  /\ MaxCalls \in Nat

VARIABLES
  has_value,  \* some registered announcement has a value
  observer,   \* which module announcement_bump calls
  open,       \* the ipolite connection is open
  interval,   \* c.interval
  last_event, \* c.last_event
  send_dups,  \* c.send_dups, a uint8_t
  q,          \* 1 when c.c.q holds a packet and its ctimer is armed, else 0
  dups,       \* c.c.dups
  mac,        \* packets in the broadcast queue of csma.c
  attempt,    \* transmissions and collisions of the packet at its head
  calls,      \* calls the protocol made so far (bounded by MaxCalls)
  handed,     \* history: packets given to csma.c since the last bump
  cancelled,  \* history: cancelled since the last bump
  raced       \* history: cancelled or reopened since the last bump while a
              \* packet was still on its way

vars == <<has_value, observer, open, interval, last_event, send_dups, q, dups,
          mac, attempt, calls, handed, cancelled, raced>>

\* The buffers in use never exceed those there are, the counters keep to their
\* limits and no packet is tried more than max_transmissions times.
TypeOK ==
  /\ has_value \in BOOLEAN
  /\ observer \in {"none", "pa", "ba"}
  /\ open \in BOOLEAN
  /\ interval \in Intervals
  /\ last_event \in {"PENDING", "SENT", "DROPPED"}
  /\ send_dups \in 0..255
  /\ q \in {0, 1}
  /\ dups \in 0..max_recv_dups
  /\ mac \in 0..QUEUEBUF_NUM
  /\ attempt \in [transmissions : 0..(max_transmissions - 1),
                  collisions : 0..CSMA_MAX_BACKOFF]
  /\ calls \in 0..MaxCalls
  /\ handed \in Nat
  /\ cancelled \in BOOLEAN
  /\ raced \in BOOLEAN

FirstAttempt == [transmissions |-> 0, collisions |-> 0]

\* Every static variable is zero and no module is open yet.
Init ==
  /\ has_value = FALSE /\ observer = "none" /\ open = FALSE
  /\ interval = 0 /\ last_event = "PENDING" /\ send_dups = 0
  /\ q = 0 /\ dups = 0
  /\ mac = 0 /\ attempt = FirstAttempt
  /\ calls = 0 /\ handed = 0 /\ cancelled = FALSE /\ raced = FALSE

-----------------------------------------------------------------------------
(***************************************************************************)
(* The functions below are called from one another before the handler      *)
(* returns, so they work on a record p of the fields they may change.      *)
(***************************************************************************)
Fields == [last_event |-> last_event, send_dups |-> send_dups, q |-> q,
           dups |-> dups, mac |-> mac, attempt |-> attempt, handed |-> handed]

Store(p) ==
  /\ last_event' = p.last_event /\ send_dups' = p.send_dups
  /\ q' = p.q /\ dups' = p.dups
  /\ mac' = p.mac /\ attempt' = p.attempt /\ handed' = p.handed

Buffers(p) == p.mac + p.q

\* ipolite_send with a non-zero interval: the old packet is dropped and the new
\* one waits in a buffer, if there is one.
ipolite_send_later(p) ==
  LET free == [p EXCEPT !.q = 0, !.dups = 0]
  IN  IF Buffers(free) < QUEUEBUF_NUM THEN [free EXCEPT !.q = 1] ELSE free

\* adv_packet_sent when the resend is not immediate: the counter is a uint8_t.
resend_later(p) ==
  LET n == (p.send_dups + 1) % 256
      s == [p EXCEPT !.send_dups = n]
  IN  IF n >= max_send_dups THEN [s EXCEPT !.last_event = "SENT"]
      ELSE IF has_value THEN ipolite_send_later(s) ELSE s

\* Mutant of broadcast_send: csma.c does not look whether there is a buffer.
broadcast_send_unchecked(p) ==
  [p EXCEPT !.mac = @ + 1, !.handed = @ + 1,
            !.attempt = IF p.mac = 0 THEN FirstAttempt ELSE @]

\* csma's send_packet behind broadcast_send: the packet is queued, or the sent
\* callback runs at once with MAC_TX_ERR. A packet is only sent without delay
\* when send_dups is 0, so that callback's own resend is a delayed one.
broadcast_send(p) ==
  IF Buffers(p) < QUEUEBUF_NUM
    THEN [p EXCEPT !.mac = @ + 1, !.handed = @ + 1,
                   !.attempt = IF p.mac = 0 THEN FirstAttempt ELSE @]
    ELSE resend_later(p)

\* send_adv(i) with the ipolite_send it ends in.
send_adv(p, i) ==
  IF ~has_value THEN p
  ELSE IF i = 0 THEN broadcast_send([p EXCEPT !.q = 0, !.dups = 0])
  ELSE ipolite_send_later(p)

\* Mutant of adv_packet_sent: one resend too many.
adv_packet_sent_once_more(p) ==
  LET n == (p.send_dups + 1) % 256
      s == [p EXCEPT !.send_dups = n]
  IN  IF n <= max_send_dups THEN send_adv(s, interval + POLITE_INTERVAL * n)
      ELSE [s EXCEPT !.last_event = "SENT"]

\* The callback counts the resends and starts the next one.
adv_packet_sent(p) ==
  LET n == (p.send_dups + 1) % 256
      s == [p EXCEPT !.send_dups = n]
  IN  IF n < max_send_dups THEN send_adv(s, interval + POLITE_INTERVAL * n)
      ELSE [s EXCEPT !.last_event = "SENT"]

\* free_packet and then the callback: the packet leaves the queue first.
tx_done(p) ==
  adv_packet_sent([p EXCEPT !.mac = @ - 1, !.attempt = FirstAttempt])

-----------------------------------------------------------------------------
(***************************************************************************)
(* Calls made by the protocol.                                             *)
(***************************************************************************)
Call == calls < MaxCalls /\ calls' = calls + 1

announcement_add_value ==
  /\ Call /\ ~has_value /\ has_value' = TRUE
  /\ UNCHANGED <<observer, open, interval, last_event, send_dups, q, dups, mac,
                 attempt, handed, cancelled, raced>>

announcement_remove_value ==
  /\ Call /\ has_value /\ has_value' = FALSE
  /\ UNCHANGED <<observer, open, interval, last_event, send_dups, q, dups, mac,
                 attempt, handed, cancelled, raced>>

\* announcement_bump, whose observer is observer_pa once the polite module is
\* the last one that was initialised.
announcement_bump ==
  /\ Call
  /\ observer = "pa"
  /\ Store(send_adv([Fields EXCEPT !.send_dups = 0, !.handed = 0], interval))
  /\ cancelled' = FALSE /\ raced' = FALSE
  /\ UNCHANGED <<has_value, observer, open, interval>>

polite_announcement_init(i) ==
  /\ Call
  /\ open' = TRUE /\ observer' = "pa" /\ interval' = i
  /\ last_event' = "PENDING" /\ send_dups' = 0
  /\ raced' = (raced \/ mac > 0 \/ q = 1)
  /\ UNCHANGED <<has_value, q, dups, mac, attempt, handed, cancelled>>

polite_announcement_set_interval(i) ==
  /\ Call /\ open /\ interval' = i
  /\ UNCHANGED <<has_value, observer, open, last_event, send_dups, q, dups, mac,
                 attempt, handed, cancelled, raced>>

\* Mutant of polite_announcement_cancel: the packet that waits is forgotten.
polite_announcement_cancel_count_only ==
  /\ Call
  /\ last_event' = "PENDING" /\ send_dups' = 255
  /\ cancelled' = TRUE /\ raced' = (raced \/ mac > 0)
  /\ UNCHANGED <<has_value, observer, open, interval, q, dups, mac, attempt, handed>>

polite_announcement_cancel ==
  /\ Call
  /\ last_event' = "PENDING" /\ send_dups' = 255 /\ q' = 0
  /\ cancelled' = TRUE /\ raced' = (raced \/ mac > 0)
  /\ UNCHANGED <<has_value, observer, open, interval, dups, mac, attempt, handed>>

polite_announcement_stop ==
  /\ Call /\ open
  /\ open' = FALSE /\ q' = 0
  /\ UNCHANGED <<has_value, observer, interval, last_event, send_dups, dups, mac,
                 attempt, handed, cancelled, raced>>

\* The broadcast module takes the observer callback over (discovery, idle).
broadcast_announcement_init ==
  /\ Call /\ ~open /\ observer # "ba" /\ observer' = "ba"
  /\ UNCHANGED <<has_value, open, interval, last_event, send_dups, q, dups, mac,
                 attempt, handed, cancelled, raced>>

-----------------------------------------------------------------------------
(***************************************************************************)
(* Events: the ipolite timer, a copy of the waiting packet on the air, the *)
(* outcome of one transmission attempt of csma.c.                          *)
(***************************************************************************)
\* ipolite's send: the buffer is freed before the packet goes to csma.c.
send ==
  /\ q = 1
  /\ Store(broadcast_send([Fields EXCEPT !.q = 0]))
  /\ UNCHANGED <<has_value, observer, open, interval, calls, cancelled, raced>>

\* ipolite's recv of a copy of the waiting packet; at the limit it is dropped.
recv ==
  /\ open /\ q = 1
  /\ IF dups + 1 >= max_recv_dups
       THEN q' = 0 /\ last_event' = "DROPPED"
       ELSE UNCHANGED <<q, last_event>>
  /\ dups' = dups + 1
  /\ UNCHANGED <<has_value, observer, open, interval, send_dups, mac, attempt,
                 calls, handed, cancelled, raced>>

\* The transmission succeeded, or failed for good (MAC_TX_ERR).
tx_ok ==
  /\ mac > 0
  /\ Store(tx_done(Fields))
  /\ UNCHANGED <<has_value, observer, open, interval, calls, cancelled, raced>>

\* Mutant of collision: a busy channel never counts as a try.
collision_forever ==
  /\ mac > 0
  /\ LET again == attempt.collisions + 1 > CSMA_MAX_BACKOFF
     IN  Store([Fields EXCEPT !.attempt.collisions = IF again THEN 0 ELSE @ + 1])
  /\ UNCHANGED <<has_value, observer, open, interval, calls, cancelled, raced>>

\* The channel was busy: back off, and after enough backoffs count a try.
collision ==
  /\ mac > 0
  /\ LET again == attempt.collisions + 1 > CSMA_MAX_BACKOFF
         next == IF again
                   THEN [transmissions |-> attempt.transmissions + 1,
                         collisions |-> 0]
                   ELSE [attempt EXCEPT !.collisions = @ + 1]
     IN  Store(IF next.transmissions >= max_transmissions
                 THEN tx_done(Fields)
                 ELSE [Fields EXCEPT !.attempt = next])
  /\ UNCHANGED <<has_value, observer, open, interval, calls, cancelled, raced>>

Events == send \/ recv \/ tx_ok \/ collision

Next ==
  \/ announcement_add_value \/ announcement_remove_value \/ announcement_bump
  \/ \E i \in Intervals : polite_announcement_init(i)
  \/ \E i \in Intervals : polite_announcement_set_interval(i)
  \/ polite_announcement_cancel \/ polite_announcement_stop
  \/ broadcast_announcement_init
  \/ Events

\* Callback timers of the node run: the ipolite timer fires and every
\* transmission attempt comes to an outcome (any outcome).
Spec == Init /\ [][Next]_vars /\ WF_vars(send) /\ WF_vars(tx_ok \/ collision)

-----------------------------------------------------------------------------
(***************************************************************************)
(* Properties.                                                             *)
(***************************************************************************)
\* One bump hands at most max_send_dups packets to csma.c, whatever older
\* packets are still in the queue when their callbacks advance the counter.
ResendBudget == ~raced => handed <= max_send_dups

\* A cancel that finds nothing in csma.c silences the module until the next
\* bump: no timer or callback hands over another packet.
IdleCancelSticks == [][cancelled /\ cancelled' /\ ~raced => handed' <= handed]_vars

\* ipolite.h of ipolite_cancel: "This function cancels a pending transmission
\* that has previously been started with ipolite_send()." After a cancel no
\* packet goes out until the next bump. The callback of a packet that csma.c
\* still holds wraps send_dups from 255 to 0 and starts ten new transmissions.
CancelSticks == [][cancelled /\ cancelled' => handed' <= handed]_vars

\* The protocol makes finitely many calls, and then the resends and the
\* transmission retries end too, whatever the channel does.
Quiesces == <>[](q = 0 /\ mac = 0)

=============================================================================
