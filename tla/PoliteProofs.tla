----------------------------- MODULE PoliteProofs -----------------------------
(***************************************************************************)
(* The resend budget and the silence after a cancel, for any numbers of    *)
(* buffers, resends and calls.  The resend counter is a byte that old      *)
(* packets advance too: the invariant bounds it by what is still on its    *)
(* way, so that only a cancel can make it wrap.                            *)
(***************************************************************************)
EXTENDS PoliteAnnouncement, TLAPS

Attempts == [transmissions : 0..(max_transmissions - 1), collisions : 0..CSMA_MAX_BACKOFF]

IsRec(p) == p = [last_event |-> p.last_event, send_dups |-> p.send_dups, q |-> p.q,
                 dups |-> p.dups, mac |-> p.mac, attempt |-> p.attempt, handed |-> p.handed]

(* The fields of the helper functions, within the buffers of the node. *)
FieldsOK(p) ==
  /\ IsRec(p)
  /\ p.last_event \in {"PENDING", "SENT", "DROPPED"}
  /\ p.send_dups \in 0..255 /\ p.q \in {0, 1} /\ p.dups \in 0..max_recv_dups
  /\ p.mac \in Nat /\ p.attempt \in Attempts /\ p.handed \in Nat
  /\ p.mac + p.q <= QUEUEBUF_NUM
  /\ p.q = 1 => p.dups < max_recv_dups

(* The byte is 255 after a cancel, and otherwise cannot be driven there by the
   packets on their way. *)
CounterOK(p) ==
  \/ p.send_dups = 255 /\ p.q = 0
  \/ p.send_dups + p.mac + p.q <= max_send_dups + QUEUEBUF_NUM

(* What has been or will be handed over is paid for by a step of the counter. *)
BudgetOK(p) ==
  /\ p.handed <= max_send_dups
  /\ \/ p.mac = 0 /\ p.q = 0
     \/ /\ p.handed + p.q <= p.send_dups + 1
        /\ p.handed + p.q <= max_send_dups

Globals ==
  /\ has_value \in BOOLEAN /\ observer \in {"none", "pa", "ba"} /\ open \in BOOLEAN
  /\ interval \in Intervals /\ calls \in 0..MaxCalls
  /\ cancelled \in BOOLEAN /\ raced \in BOOLEAN

IInv ==
  /\ Globals
  /\ FieldsOK(Fields)
  /\ CounterOK(Fields)
  /\ ~raced => BudgetOK(Fields)
  /\ cancelled /\ ~raced => mac = 0 /\ q = 0
  /\ send_dups = 255 => cancelled

-----------------------------------------------------------------------------
(* What the assumption says of each constant, in the form the provers use. *)
LEMMA Constants ==
  /\ QUEUEBUF_NUM \in Nat /\ QUEUEBUF_NUM >= 1
  /\ max_send_dups \in Nat /\ max_send_dups >= 1
  /\ max_recv_dups \in Nat /\ max_recv_dups >= 1
  /\ max_send_dups + QUEUEBUF_NUM < 255
  /\ max_transmissions \in Nat /\ max_transmissions >= 1
  /\ CSMA_MAX_BACKOFF \in Nat
  /\ FirstAttempt \in Attempts
  /\ POLITE_INTERVAL \in Nat
<1>1. 0 \in 0..(max_transmissions - 1) /\ 0 \in 0..CSMA_MAX_BACKOFF
  BY PoliteAssumption
<1>2. FirstAttempt \in Attempts
  BY <1>1 DEF FirstAttempt, Attempts
<1> QED
  BY <1>2, PoliteAssumption

(* What the assignment to one field leaves of a record. *)
LEMMA SetLastEvent ==
  ASSUME NEW p, IsRec(p), NEW v
  PROVE  LET r == [p EXCEPT !.last_event = v]
         IN  /\ IsRec(r) /\ r.last_event = v /\ r.send_dups = p.send_dups /\ r.q = p.q
             /\ r.dups = p.dups /\ r.mac = p.mac /\ r.attempt = p.attempt /\ r.handed = p.handed
  BY IsRec(p) DEF IsRec

(* The same for c.send_dups. *)
LEMMA SetSendDups ==
  ASSUME NEW p, IsRec(p), NEW v
  PROVE  LET r == [p EXCEPT !.send_dups = v]
         IN  /\ IsRec(r) /\ r.send_dups = v /\ r.last_event = p.last_event /\ r.q = p.q
             /\ r.dups = p.dups /\ r.mac = p.mac /\ r.attempt = p.attempt /\ r.handed = p.handed
  BY IsRec(p) DEF IsRec

(* The same for the waiting packet c.c.q. *)
LEMMA SetQ ==
  ASSUME NEW p, IsRec(p), NEW v
  PROVE  LET r == [p EXCEPT !.q = v]
         IN  /\ IsRec(r) /\ r.q = v /\ r.last_event = p.last_event /\ r.send_dups = p.send_dups
             /\ r.dups = p.dups /\ r.mac = p.mac /\ r.attempt = p.attempt /\ r.handed = p.handed
  BY IsRec(p) DEF IsRec

(* The same for c.c.dups. *)
LEMMA SetDups ==
  ASSUME NEW p, IsRec(p), NEW v
  PROVE  LET r == [p EXCEPT !.dups = v]
         IN  /\ IsRec(r) /\ r.dups = v /\ r.last_event = p.last_event /\ r.send_dups = p.send_dups
             /\ r.q = p.q /\ r.mac = p.mac /\ r.attempt = p.attempt /\ r.handed = p.handed
  BY IsRec(p) DEF IsRec

(* The same for the length of csma.c's queue. *)
LEMMA SetMac ==
  ASSUME NEW p, IsRec(p), NEW v
  PROVE  LET r == [p EXCEPT !.mac = v]
         IN  /\ IsRec(r) /\ r.mac = v /\ r.last_event = p.last_event /\ r.send_dups = p.send_dups
             /\ r.q = p.q /\ r.dups = p.dups /\ r.attempt = p.attempt /\ r.handed = p.handed
  BY IsRec(p) DEF IsRec

(* The same for the tries of the packet at its head. *)
LEMMA SetAttempt ==
  ASSUME NEW p, IsRec(p), NEW v
  PROVE  LET r == [p EXCEPT !.attempt = v]
         IN  /\ IsRec(r) /\ r.attempt = v /\ r.last_event = p.last_event /\ r.send_dups = p.send_dups
             /\ r.q = p.q /\ r.dups = p.dups /\ r.mac = p.mac /\ r.handed = p.handed
  BY IsRec(p) DEF IsRec

(* The same for the history of packets handed over. *)
LEMMA SetHanded ==
  ASSUME NEW p, IsRec(p), NEW v
  PROVE  LET r == [p EXCEPT !.handed = v]
         IN  /\ IsRec(r) /\ r.handed = v /\ r.last_event = p.last_event /\ r.send_dups = p.send_dups
             /\ r.q = p.q /\ r.dups = p.dups /\ r.mac = p.mac /\ r.attempt = p.attempt
  BY IsRec(p) DEF IsRec

(* ipolite_send with a delay: at most one packet waits, in a buffer of its own. *)
LEMMA SendLater ==
  ASSUME NEW p, FieldsOK(p)
  PROVE  LET r == ipolite_send_later(p)
         IN  /\ FieldsOK(r)
             /\ r.send_dups = p.send_dups /\ r.handed = p.handed /\ r.mac = p.mac
<1> DEFINE g == [p EXCEPT !.q = 0]
           f == [g EXCEPT !.dups = 0]
           h == [f EXCEPT !.q = 1]
<1>0. ipolite_send_later(p) = IF Buffers(f) < QUEUEBUF_NUM THEN h ELSE f
  BY DEF ipolite_send_later
<1>1. /\ IsRec(g) /\ g.last_event = p.last_event /\ g.send_dups = p.send_dups /\ g.q = 0
      /\ g.mac = p.mac /\ g.attempt = p.attempt /\ g.handed = p.handed
  <2>1. IsRec(p)
    BY FieldsOK(p) DEF FieldsOK
  <2> QED
    BY SetQ, <2>1
<1> HIDE DEF g
<1>2. /\ IsRec(f) /\ f.last_event = p.last_event /\ f.send_dups = p.send_dups /\ f.q = 0
      /\ f.dups = 0 /\ f.mac = p.mac /\ f.attempt = p.attempt /\ f.handed = p.handed
  BY SetDups, <1>1
<1> HIDE DEF f
<1>3. /\ IsRec(h) /\ h.last_event = p.last_event /\ h.send_dups = p.send_dups /\ h.q = 1
      /\ h.dups = 0 /\ h.mac = p.mac /\ h.attempt = p.attempt /\ h.handed = p.handed
  BY SetQ, <1>2
<1> HIDE DEF h
<1>4. FieldsOK(f)
  BY <1>2, Constants, FieldsOK(p) DEF FieldsOK
<1>5. Buffers(f) < QUEUEBUF_NUM => FieldsOK(h)
  BY <1>2, <1>3, Constants, FieldsOK(p) DEF FieldsOK, Buffers
<1> QED
  BY <1>0, <1>2, <1>3, <1>4, <1>5

(* The sent callback of a packet that found no buffer. *)
LEMMA ResendLater ==
  ASSUME NEW p, FieldsOK(p), p.send_dups < max_send_dups
  PROVE  LET r == resend_later(p)
         IN  /\ FieldsOK(r)
             /\ r.send_dups = p.send_dups + 1 /\ r.handed = p.handed /\ r.mac = p.mac
<1> DEFINE n == (p.send_dups + 1) % 256
           s == [p EXCEPT !.send_dups = n]
           t == [s EXCEPT !.last_event = "SENT"]
<1>0. resend_later(p) = IF n >= max_send_dups THEN t
                        ELSE IF has_value THEN ipolite_send_later(s) ELSE s
  BY DEF resend_later
<1>1. n = p.send_dups + 1 /\ n \in 0..255
  BY FieldsOK(p), p.send_dups < max_send_dups, Constants DEF FieldsOK
<1> HIDE DEF n
<1>2. /\ IsRec(s) /\ s.last_event = p.last_event /\ s.send_dups = n /\ s.q = p.q
      /\ s.dups = p.dups /\ s.mac = p.mac /\ s.attempt = p.attempt /\ s.handed = p.handed
  BY SetSendDups, FieldsOK(p) DEF FieldsOK
<1> HIDE DEF s
<1>3. /\ IsRec(t) /\ t.last_event = "SENT" /\ t.send_dups = n /\ t.q = p.q
      /\ t.dups = p.dups /\ t.mac = p.mac /\ t.attempt = p.attempt /\ t.handed = p.handed
  BY SetLastEvent, <1>2
<1> HIDE DEF t
<1>4. FieldsOK(s)
  BY <1>1, <1>2, FieldsOK(p) DEF FieldsOK
<1>5. FieldsOK(t)
  BY <1>1, <1>3, FieldsOK(p) DEF FieldsOK
<1>6. /\ FieldsOK(ipolite_send_later(s)) /\ ipolite_send_later(s).send_dups = n
      /\ ipolite_send_later(s).handed = p.handed /\ ipolite_send_later(s).mac = p.mac
  BY <1>2, <1>4, SendLater
<1> QED
  BY <1>0, <1>1, <1>2, <1>3, <1>4, <1>5, <1>6

(* The hand-over to csma.c when a buffer is free. *)
LEMMA HandOver ==
  ASSUME NEW p, FieldsOK(p), Buffers(p) < QUEUEBUF_NUM
  PROVE  LET r == broadcast_send(p)
         IN  /\ FieldsOK(r) /\ r.send_dups = p.send_dups /\ r.q = p.q
             /\ r.handed = p.handed + 1 /\ r.mac = p.mac + 1
<1> DEFINE a == IF p.mac = 0 THEN FirstAttempt ELSE p.attempt
           f == [p EXCEPT !.mac = p.mac + 1]
           g == [f EXCEPT !.handed = p.handed + 1]
           h == [g EXCEPT !.attempt = a]
<1>1. /\ IsRec(f) /\ f.last_event = p.last_event /\ f.send_dups = p.send_dups /\ f.q = p.q
      /\ f.dups = p.dups /\ f.mac = p.mac + 1 /\ f.attempt = p.attempt /\ f.handed = p.handed
  <2>1. IsRec(p)
    BY FieldsOK(p) DEF FieldsOK
  <2> QED
    BY SetMac, <2>1
<1>2. /\ IsRec(g) /\ g.last_event = p.last_event /\ g.send_dups = p.send_dups /\ g.q = p.q
      /\ g.dups = p.dups /\ g.mac = p.mac + 1 /\ g.attempt = p.attempt /\ g.handed = p.handed + 1
  <2> HIDE DEF f
  <2> QED
    BY SetHanded, <1>1
<1>3. a \in Attempts
  BY Constants, FieldsOK(p) DEF FieldsOK
<1>4. broadcast_send(p) = h
  <2>1. f.handed = p.handed /\ g.attempt = p.attempt
    BY <1>1, <1>2
  <2> QED
    BY <2>1, Buffers(p) < QUEUEBUF_NUM DEF broadcast_send
<1> HIDE DEF a, g
<1>5. /\ IsRec(h) /\ h.last_event = p.last_event /\ h.send_dups = p.send_dups /\ h.q = p.q
      /\ h.dups = p.dups /\ h.mac = p.mac + 1 /\ h.attempt = a /\ h.handed = p.handed + 1
  BY SetAttempt, <1>2
<1> HIDE DEF h
<1>6. FieldsOK(h)
  BY <1>3, <1>5, Constants, FieldsOK(p), Buffers(p) < QUEUEBUF_NUM DEF FieldsOK, Buffers
<1> QED
  BY <1>4, <1>5, <1>6

(* send_adv while resends are left: it takes at most one packet on, waiting or
   handed over, and counts at most one resend that found no buffer. *)
LEMMA SendAdv ==
  ASSUME NEW p, FieldsOK(p), p.send_dups < max_send_dups, NEW i
  PROVE  LET r == send_adv(p, i)
         IN  /\ FieldsOK(r)
             /\ r.send_dups \in p.send_dups..(p.send_dups + 1)
             /\ r.handed + r.q <= p.handed + 1
<1> DEFINE g == [p EXCEPT !.q = 0]
           f == [g EXCEPT !.dups = 0]
<1>0. send_adv(p, i) = IF ~has_value THEN p
                       ELSE IF i = 0 THEN broadcast_send(f) ELSE ipolite_send_later(p)
  BY DEF send_adv
<1>1. /\ IsRec(g) /\ g.last_event = p.last_event /\ g.send_dups = p.send_dups /\ g.q = 0
      /\ g.mac = p.mac /\ g.attempt = p.attempt /\ g.handed = p.handed
  <2>1. IsRec(p)
    BY FieldsOK(p) DEF FieldsOK
  <2> QED
    BY SetQ, <2>1
<1> HIDE DEF g
<1>2. /\ IsRec(f) /\ f.last_event = p.last_event /\ f.send_dups = p.send_dups /\ f.q = 0
      /\ f.dups = 0 /\ f.mac = p.mac /\ f.attempt = p.attempt /\ f.handed = p.handed
  BY SetDups, <1>1
<1> HIDE DEF f
<1>3. FieldsOK(f) /\ f.send_dups < max_send_dups
  BY <1>2, Constants, FieldsOK(p), p.send_dups < max_send_dups DEF FieldsOK
<1>4. CASE ~has_value
  BY <1>0, <1>4, FieldsOK(p) DEF FieldsOK
<1>5. CASE has_value /\ i = 0 /\ Buffers(f) < QUEUEBUF_NUM
  <2> DEFINE r == broadcast_send(f)
  <2>1. /\ FieldsOK(r) /\ r.send_dups = f.send_dups /\ r.q = f.q
        /\ r.handed = f.handed + 1
    BY <1>3, <1>5, HandOver
  <2> HIDE DEF r
  <2>2. r.send_dups \in p.send_dups..(p.send_dups + 1) /\ r.handed + r.q <= p.handed + 1
    BY <1>2, <2>1, FieldsOK(p) DEF FieldsOK
  <2> QED
    BY <1>0, <1>5, <2>1, <2>2 DEF r
<1>6. CASE has_value /\ i = 0 /\ ~(Buffers(f) < QUEUEBUF_NUM)
  <2> DEFINE r == resend_later(f)
  <2>0. broadcast_send(f) = r
    BY <1>6 DEF broadcast_send
  <2>1. /\ FieldsOK(r) /\ r.send_dups = f.send_dups + 1 /\ r.handed = f.handed
    BY <1>3, ResendLater
  <2> HIDE DEF r
  <2>2. r.send_dups \in p.send_dups..(p.send_dups + 1) /\ r.handed + r.q <= p.handed + 1
    BY <1>2, <2>1, FieldsOK(p) DEF FieldsOK
  <2> QED
    BY <1>0, <1>6, <2>0, <2>1, <2>2
<1>7. CASE has_value /\ i # 0
  <2> DEFINE r == ipolite_send_later(p)
  <2>1. FieldsOK(r) /\ r.send_dups = p.send_dups /\ r.handed = p.handed
    BY FieldsOK(p), SendLater
  <2> HIDE DEF r
  <2>2. r.send_dups \in p.send_dups..(p.send_dups + 1) /\ r.handed + r.q <= p.handed + 1
    BY <2>1, FieldsOK(p) DEF FieldsOK
  <2> QED
    BY <1>0, <1>7, <2>1, <2>2 DEF r
<1> QED
  BY <1>4, <1>5, <1>6, <1>7

(* The sent callback, which wraps the counter after a cancel and otherwise only
   goes on within the budget. *)
LEMMA AdvSent ==
  ASSUME NEW p, FieldsOK(p)
  PROVE  LET r == adv_packet_sent(p)
             n == (p.send_dups + 1) % 256
         IN  /\ FieldsOK(r)
             /\ \/ /\ n < max_send_dups
                   /\ r.send_dups \in n..(n + 1)
                   /\ r.handed + r.q <= p.handed + 1
                \/ /\ n >= max_send_dups
                   /\ r.send_dups = n /\ r.handed = p.handed /\ r.q = p.q /\ r.mac = p.mac
<1> DEFINE n == (p.send_dups + 1) % 256
           s == [p EXCEPT !.send_dups = n]
           t == [s EXCEPT !.last_event = "SENT"]
           i == interval + POLITE_INTERVAL * n
<1>0. adv_packet_sent(p) = IF n < max_send_dups THEN send_adv(s, i) ELSE t
  BY DEF adv_packet_sent
<1>1. n \in 0..255
  BY FieldsOK(p) DEF FieldsOK
<1> HIDE DEF n, i
<1>2. /\ IsRec(s) /\ s.last_event = p.last_event /\ s.send_dups = n /\ s.q = p.q
      /\ s.dups = p.dups /\ s.mac = p.mac /\ s.attempt = p.attempt /\ s.handed = p.handed
  BY SetSendDups, FieldsOK(p) DEF FieldsOK
<1> HIDE DEF s
<1>3. /\ IsRec(t) /\ t.last_event = "SENT" /\ t.send_dups = n /\ t.q = p.q
      /\ t.dups = p.dups /\ t.mac = p.mac /\ t.attempt = p.attempt /\ t.handed = p.handed
  BY SetLastEvent, <1>2
<1> HIDE DEF t
<1>4. FieldsOK(s)
  BY <1>1, <1>2, FieldsOK(p) DEF FieldsOK
<1>5. FieldsOK(t)
  BY <1>1, <1>3, FieldsOK(p) DEF FieldsOK
<1>6. CASE n < max_send_dups
  <2> DEFINE r == send_adv(s, i)
  <2>1. /\ FieldsOK(r) /\ r.send_dups \in n..(n + 1) /\ r.handed + r.q <= p.handed + 1
    BY <1>2, <1>4, <1>6, SendAdv
  <2> QED
    BY <1>0, <1>6, <2>1 DEF n
<1>7. CASE n >= max_send_dups
  BY <1>0, <1>1, <1>3, <1>5, <1>7, Constants DEF n
<1> QED
  BY <1>1, <1>6, <1>7, Constants

(* The packet leaves the queue of csma.c before its callback runs. *)
LEMMA TxDone ==
  ASSUME NEW p, FieldsOK(p), CounterOK(p), p.mac > 0
  PROVE  LET r == tx_done(p)
         IN  /\ FieldsOK(r) /\ CounterOK(r)
             /\ r.send_dups # 255
             /\ p.send_dups # 255 /\ BudgetOK(p) => BudgetOK(r)
<1> DEFINE f == [p EXCEPT !.mac = p.mac - 1]
           g == [f EXCEPT !.attempt = FirstAttempt]
           r == adv_packet_sent(g)
           n == (p.send_dups + 1) % 256
<1>0. tx_done(p) = r
  BY DEF tx_done
<1>1. /\ IsRec(f) /\ f.last_event = p.last_event /\ f.send_dups = p.send_dups /\ f.q = p.q
      /\ f.dups = p.dups /\ f.mac = p.mac - 1 /\ f.attempt = p.attempt /\ f.handed = p.handed
  <2>1. IsRec(p)
    BY FieldsOK(p) DEF FieldsOK
  <2> QED
    BY SetMac, <2>1
<1> HIDE DEF f
<1>2. /\ IsRec(g) /\ g.last_event = p.last_event /\ g.send_dups = p.send_dups /\ g.q = p.q
      /\ g.dups = p.dups /\ g.mac = p.mac - 1 /\ g.attempt = FirstAttempt /\ g.handed = p.handed
  BY SetAttempt, <1>1
<1> HIDE DEF g
<1>3. FieldsOK(g)
  BY <1>2, Constants, FieldsOK(p), p.mac > 0 DEF FieldsOK
<1>4. /\ FieldsOK(r)
      /\ \/ /\ n < max_send_dups
            /\ r.send_dups \in n..(n + 1)
            /\ r.handed + r.q <= p.handed + 1
         \/ /\ n >= max_send_dups
            /\ r.send_dups = n /\ r.handed = p.handed /\ r.q = p.q /\ r.mac = p.mac - 1
  BY <1>2, <1>3, AdvSent
<1> HIDE DEF r
<1>5. \/ p.send_dups = 255 /\ n = 0
      \/ p.send_dups < 255 /\ n = p.send_dups + 1
  BY FieldsOK(p) DEF FieldsOK
<1>6. n \in Nat /\ p.send_dups \in 0..255 /\ p.q \in {0, 1} /\ p.mac \in Nat /\ p.handed \in Nat
  BY <1>5, FieldsOK(p) DEF FieldsOK
<1> HIDE DEF n
<1>7. /\ r.send_dups \in 0..255 /\ r.q \in {0, 1} /\ r.mac \in Nat /\ r.handed \in Nat
      /\ r.mac + r.q <= QUEUEBUF_NUM
  BY <1>4 DEF FieldsOK
<1>8. p.send_dups = 255 \/ p.send_dups + p.mac + p.q <= max_send_dups + QUEUEBUF_NUM
  BY CounterOK(p) DEF CounterOK
<1>9. CounterOK(r) /\ r.send_dups # 255
  <2>1. CASE n < max_send_dups
    BY <2>1, <1>4, <1>6, <1>7, Constants DEF CounterOK
  <2>2. CASE n >= max_send_dups
    BY <2>2, <1>4, <1>5, <1>6, <1>7, <1>8, Constants, p.mac > 0, SMTT(30) DEF CounterOK
  <2> QED
    BY <2>1, <2>2, <1>6, Constants
<1>10. ASSUME p.send_dups # 255, BudgetOK(p) PROVE BudgetOK(r)
  <2>1. p.handed + p.q <= p.send_dups + 1 /\ p.handed + p.q <= max_send_dups
    BY <1>10, <1>6, p.mac > 0 DEF BudgetOK
  <2>2. CASE n < max_send_dups
    BY <2>1, <2>2, <1>4, <1>5, <1>6, <1>7, <1>10, Constants DEF BudgetOK
  <2>3. CASE n >= max_send_dups
    BY <2>1, <2>3, <1>4, <1>5, <1>6, <1>7, <1>10, Constants DEF BudgetOK
  <2> QED
    BY <2>2, <2>3, <1>6, Constants
<1> QED
  BY <1>0, <1>4, <1>9, <1>10

(* The record of the helper functions is the state, before and after a step. *)
LEMMA FieldValues ==
  /\ IsRec(Fields)
  /\ Fields.last_event = last_event /\ Fields.send_dups = send_dups /\ Fields.q = q /\ Fields.dups = dups
  /\ Fields.mac = mac /\ Fields.attempt = attempt /\ Fields.handed = handed
  BY DEF Fields, IsRec

(* The fields of the record after a step are the primed variables. *)
LEMMA NextFieldValues ==
  /\ IsRec(Fields')
  /\ Fields'.last_event = last_event' /\ Fields'.send_dups = send_dups' /\ Fields'.q = q' /\ Fields'.dups = dups'
  /\ Fields'.mac = mac' /\ Fields'.attempt = attempt' /\ Fields'.handed = handed'
  BY DEF Fields, IsRec

(* Storing a record makes it the fields of the next state. *)
LEMMA Stored ==
  ASSUME NEW p, IsRec(p), Store(p)
  PROVE  Fields' = p
  BY IsRec(p), Store(p) DEF Store, IsRec, Fields

(* The inductive invariant implies the type invariant. *)
LEMMA Typed == IInv => TypeOK
<1> SUFFICES ASSUME IInv PROVE TypeOK
  OBVIOUS
<1>1. Globals /\ FieldsOK(Fields)
  BY DEF IInv
<1>2. mac \in 0..QUEUEBUF_NUM
  BY <1>1, FieldValues, Constants DEF FieldsOK
<1> QED
  BY <1>1, <1>2, FieldValues DEF TypeOK, Globals, FieldsOK, Attempts

(* The plain facts of the invariant, for the actions that assign the variables
   one by one. *)
LEMMA Unfolded ==
  ASSUME IInv
  PROVE  /\ last_event \in {"PENDING", "SENT", "DROPPED"}
         /\ send_dups \in 0..255 /\ q \in {0, 1} /\ dups \in 0..max_recv_dups
         /\ mac \in Nat /\ attempt \in Attempts /\ handed \in Nat
         /\ mac + q <= QUEUEBUF_NUM
         /\ q = 1 => dups < max_recv_dups
         /\ \/ send_dups = 255 /\ q = 0
            \/ send_dups + mac + q <= max_send_dups + QUEUEBUF_NUM
         /\ ~raced => handed <= max_send_dups
         /\ ~raced => \/ mac = 0 /\ q = 0
                      \/ handed + q <= send_dups + 1 /\ handed + q <= max_send_dups
         /\ cancelled /\ ~raced => mac = 0 /\ q = 0
         /\ send_dups = 255 => cancelled
  BY IInv, FieldValues DEF IInv, FieldsOK, CounterOK, BudgetOK

(* The invariant of the next state, from its parts. *)
LEMMA Folded ==
  ASSUME Globals',
         last_event' \in {"PENDING", "SENT", "DROPPED"},
         send_dups' \in 0..255, q' \in {0, 1}, dups' \in 0..max_recv_dups,
         mac' \in Nat, attempt' \in Attempts, handed' \in Nat,
         mac' + q' <= QUEUEBUF_NUM,
         q' = 1 => dups' < max_recv_dups,
         \/ send_dups' = 255 /\ q' = 0
         \/ send_dups' + mac' + q' <= max_send_dups + QUEUEBUF_NUM,
         ~raced' => handed' <= max_send_dups,
         ~raced' => \/ mac' = 0 /\ q' = 0
                    \/ handed' + q' <= send_dups' + 1 /\ handed' + q' <= max_send_dups,
         cancelled' /\ ~raced' => mac' = 0 /\ q' = 0,
         send_dups' = 255 => cancelled'
  PROVE  IInv'
<1>1. FieldsOK(Fields')
  BY NextFieldValues DEF FieldsOK
<1>2. CounterOK(Fields')
  BY NextFieldValues DEF CounterOK
<1>3. ~raced' => BudgetOK(Fields')
  BY NextFieldValues DEF BudgetOK
<1> QED
  BY <1>1, <1>2, <1>3 DEF IInv

(* A call of the protocol keeps the number of calls within its bound. *)
LEMMA CallBounded ==
  ASSUME IInv, Call
  PROVE  calls' \in 0..MaxCalls
  BY IInv, Call, PoliteAssumption DEF IInv, Globals, Call

(* announcement_bump starts a new budget, whatever is still on its way. *)
LEMMA BumpKeepsIInv ==
  ASSUME IInv, announcement_bump
  PROVE  IInv'
<1> DEFINE f == [Fields EXCEPT !.send_dups = 0]
           g == [f EXCEPT !.handed = 0]
           r == send_adv(g, interval)
<1>0. Store(r) /\ ~cancelled' /\ ~raced'
  BY announcement_bump DEF announcement_bump
<1>1. /\ IsRec(f) /\ f.last_event = last_event /\ f.send_dups = 0 /\ f.q = q
      /\ f.dups = dups /\ f.mac = mac /\ f.attempt = attempt /\ f.handed = handed
  BY SetSendDups, FieldValues
<1> HIDE DEF f
<1>2. /\ IsRec(g) /\ g.last_event = last_event /\ g.send_dups = 0 /\ g.q = q
      /\ g.dups = dups /\ g.mac = mac /\ g.attempt = attempt /\ g.handed = 0
  BY SetHanded, <1>1
<1> HIDE DEF g
<1>3. FieldsOK(g) /\ g.send_dups < max_send_dups
  BY <1>2, Unfolded, Constants, IInv DEF FieldsOK
<1>4. FieldsOK(r) /\ r.send_dups \in g.send_dups..(g.send_dups + 1) /\ r.handed + r.q <= g.handed + 1
  BY <1>3, SendAdv
<1> HIDE DEF r
<1>5. Fields' = r
  BY <1>0, <1>4, Stored DEF FieldsOK
<1>6. r.send_dups \in 0..1 /\ r.handed + r.q <= 1
  BY <1>2, <1>4
<1>7. CounterOK(r) /\ BudgetOK(r) /\ r.send_dups # 255
  BY <1>4, <1>6, Constants DEF FieldsOK, CounterOK, BudgetOK
<1>8. Globals'
  <2>1. Call
    BY announcement_bump DEF announcement_bump
  <2>2. calls' \in 0..MaxCalls
    BY <2>1, IInv, CallBounded
  <2> QED
    BY <2>2, IInv, announcement_bump DEF IInv, Globals, announcement_bump
<1> QED
  BY <1>0, <1>4, <1>5, <1>7, <1>8, NextFieldValues DEF IInv

(* The end of a transmission, for tx_ok and for the last collision. *)
LEMMA TxDoneKeepsIInv ==
  ASSUME IInv, mac > 0, Store(tx_done(Fields)),
         UNCHANGED <<has_value, observer, open, interval, calls, cancelled, raced>>
  PROVE  IInv'
<1> DEFINE r == tx_done(Fields)
<1>1. FieldsOK(Fields) /\ CounterOK(Fields) /\ Fields.mac > 0
  BY IInv, mac > 0, FieldValues DEF IInv
<1>2. /\ FieldsOK(r) /\ CounterOK(r) /\ r.send_dups # 255
      /\ Fields.send_dups # 255 /\ BudgetOK(Fields) => BudgetOK(r)
  BY <1>1, TxDone
<1>3. Store(r)
  BY Store(tx_done(Fields))
<1> HIDE DEF r
<1>4. Fields' = r
  BY <1>2, <1>3, Stored DEF FieldsOK
<1>5. ~raced => ~cancelled /\ send_dups # 255 /\ BudgetOK(Fields)
  BY IInv, mac > 0, Unfolded DEF IInv
<1>6. ~raced => BudgetOK(r)
  BY <1>2, <1>5, FieldValues
<1>7. Globals'
  BY IInv DEF IInv, Globals
<1>8. send_dups' # 255
  BY <1>2, <1>4, NextFieldValues
<1> QED
  BY <1>2, <1>4, <1>5, <1>6, <1>7, <1>8, IInv DEF IInv

(* ipolite's timer: the packet moves from its own buffer to csma.c. *)
LEMMA SendKeepsIInv ==
  ASSUME IInv, send
  PROVE  IInv'
<1> DEFINE f == [Fields EXCEPT !.q = 0]
           r == broadcast_send(f)
<1>0. Store(r) /\ q = 1
  BY send DEF send
<1>1. /\ IsRec(f) /\ f.last_event = last_event /\ f.send_dups = send_dups /\ f.q = 0
      /\ f.dups = dups /\ f.mac = mac /\ f.attempt = attempt /\ f.handed = handed
  BY SetQ, FieldValues
<1> HIDE DEF f
<1>2. FieldsOK(f) /\ Buffers(f) < QUEUEBUF_NUM
  BY <1>0, <1>1, Unfolded, Constants, IInv DEF FieldsOK, Buffers
<1>3. /\ FieldsOK(r) /\ r.send_dups = send_dups /\ r.q = 0
      /\ r.handed = handed + 1 /\ r.mac = mac + 1
  BY <1>1, <1>2, HandOver
<1> HIDE DEF r
<1>4. Fields' = r
  BY <1>0, <1>3, Stored DEF FieldsOK
<1>5. CounterOK(r) /\ (~raced => BudgetOK(r))
  BY <1>0, <1>3, Unfolded, Constants, IInv DEF CounterOK, BudgetOK
<1>6. Globals' /\ UNCHANGED <<cancelled, raced>>
  BY IInv, send DEF IInv, Globals, send
<1>7. send_dups' = 255 => cancelled
  BY <1>3, <1>4, NextFieldValues, Unfolded, IInv
<1>8. ~(cancelled /\ ~raced)
  BY <1>0, Unfolded, IInv
<1> QED
  BY <1>3, <1>4, <1>5, <1>6, <1>7, <1>8 DEF IInv

(* A collision either counts or ends the transmission. *)
LEMMA CollisionKeepsIInv ==
  ASSUME IInv, collision
  PROVE  IInv'
<1> DEFINE next == IF attempt.collisions + 1 > CSMA_MAX_BACKOFF
                     THEN [transmissions |-> attempt.transmissions + 1, collisions |-> 0]
                     ELSE [attempt EXCEPT !.collisions = attempt.collisions + 1]
           r == [Fields EXCEPT !.attempt = next]
<1>0. /\ Store(IF next.transmissions >= max_transmissions THEN tx_done(Fields) ELSE r)
      /\ mac > 0
      /\ UNCHANGED <<has_value, observer, open, interval, calls, cancelled, raced>>
  BY collision DEF collision
<1>1. CASE next.transmissions >= max_transmissions
  BY <1>0, <1>1, IInv, TxDoneKeepsIInv
<1>2. CASE ~(next.transmissions >= max_transmissions)
  <2>1. next \in Attempts
    BY <1>2, IInv, Unfolded, Constants DEF Attempts
  <2> HIDE DEF next
  <2>2. /\ IsRec(r) /\ r.last_event = last_event /\ r.send_dups = send_dups /\ r.q = q
        /\ r.dups = dups /\ r.mac = mac /\ r.attempt = next /\ r.handed = handed
    BY SetAttempt, FieldValues
  <2>3. Store(r)
    BY <1>0, <1>2
  <2> HIDE DEF r
  <2>4. UNCHANGED <<last_event, send_dups, q, dups, mac, handed>> /\ attempt' = next
    BY <2>2, <2>3 DEF Store
  <2>5. Globals'
    BY <1>0, IInv DEF IInv, Globals
  <2> QED
    BY <1>0, <2>1, <2>4, <2>5, IInv, Unfolded, Folded
<1> QED
  BY <1>1, <1>2

(* Steps that leave the packets and the counter alone. *)
LEMMA QuietStepKeepsIInv ==
  ASSUME IInv, Globals', UNCHANGED <<last_event, send_dups, q, dups, mac, attempt, handed>>,
         UNCHANGED <<cancelled, raced>>
  PROVE  IInv'
  BY Unfolded, Folded

(* Every call and every event of the announcement path keeps the invariant. *)
LEMMA NextKeepsIInv ==
  ASSUME IInv, [Next]_vars
  PROVE  IInv'
<1>1. ASSUME announcement_add_value \/ announcement_remove_value PROVE IInv'
  <2>1. calls' \in 0..MaxCalls
    BY <1>1, IInv, CallBounded DEF announcement_add_value, announcement_remove_value
  <2>0. has_value' \in BOOLEAN /\ UNCHANGED <<observer, open, interval, cancelled, raced>>
    BY <1>1, Zenon DEF announcement_add_value, announcement_remove_value
  <2>2. Globals'
    BY <2>0, <2>1, IInv DEF IInv, Globals
  <2>3. UNCHANGED <<last_event, send_dups, q, dups, mac, attempt, handed, cancelled, raced>>
    BY <1>1 DEF announcement_add_value, announcement_remove_value
  <2> QED
    BY <2>2, <2>3, IInv, QuietStepKeepsIInv
<1>2. ASSUME NEW i \in Intervals, polite_announcement_init(i) PROVE IInv'
  <2>1. calls' \in 0..MaxCalls
    BY <1>2, IInv, CallBounded DEF polite_announcement_init
  <2>2. Globals'
    BY <1>2, <2>1, IInv DEF IInv, Globals, polite_announcement_init
  <2>3. ~raced' => ~raced /\ ~(mac > 0) /\ q # 1
    BY <1>2 DEF polite_announcement_init
  <2>4. /\ last_event' = "PENDING" /\ send_dups' = 0
        /\ UNCHANGED <<q, dups, mac, attempt, handed, cancelled>>
    BY <1>2 DEF polite_announcement_init
  <2>5. ~raced' => ~raced /\ mac = 0 /\ q = 0
    BY <2>3, IInv, Unfolded
  <2> QED
    BY <2>2, <2>4, <2>5, IInv, Unfolded, Folded, Constants
<1>3. ASSUME NEW i \in Intervals, polite_announcement_set_interval(i) PROVE IInv'
  <2>1. calls' \in 0..MaxCalls
    BY <1>3, IInv, CallBounded DEF polite_announcement_set_interval
  <2>2. Globals'
    BY <1>3, <2>1, IInv DEF IInv, Globals, polite_announcement_set_interval
  <2> QED
    BY <1>3, <2>2, IInv, QuietStepKeepsIInv DEF polite_announcement_set_interval
<1>4. ASSUME polite_announcement_cancel PROVE IInv'
  <2>1. calls' \in 0..MaxCalls
    BY <1>4, IInv, CallBounded DEF polite_announcement_cancel
  <2>2. Globals'
    BY <1>4, <2>1, IInv DEF IInv, Globals, polite_announcement_cancel
  <2>3. ~raced' => ~raced /\ ~(mac > 0)
    BY <1>4 DEF polite_announcement_cancel
  <2>4. /\ last_event' = "PENDING" /\ send_dups' = 255 /\ q' = 0 /\ cancelled' = TRUE
        /\ UNCHANGED <<dups, mac, attempt, handed>>
    BY <1>4 DEF polite_announcement_cancel
  <2>5. ~raced' => ~raced /\ mac = 0
    BY <2>3, IInv, Unfolded
  <2>6. /\ mac' \in Nat /\ attempt' \in Attempts /\ handed' \in Nat /\ dups' \in 0..max_recv_dups
        /\ mac' + q' <= QUEUEBUF_NUM /\ send_dups' \in 0..255 /\ q' # 1
    BY <2>4, IInv, Unfolded, Constants
  <2>7. ~raced' => handed' <= max_send_dups /\ mac' = 0
    BY <2>4, <2>5, IInv, Unfolded
  <2> QED
    BY <2>2, <2>4, <2>6, <2>7, Folded
<1>5. ASSUME polite_announcement_stop PROVE IInv'
  <2>1. calls' \in 0..MaxCalls
    BY <1>5, IInv, CallBounded DEF polite_announcement_stop
  <2>2. Globals'
    BY <1>5, <2>1, IInv, ZenonT(30) DEF IInv, Globals, polite_announcement_stop
  <2>3. q' = 0 /\ UNCHANGED <<last_event, send_dups, dups, mac, attempt, handed, cancelled, raced>>
    BY <1>5 DEF polite_announcement_stop
  <2>4. /\ mac' \in Nat /\ attempt' \in Attempts /\ handed' \in Nat /\ dups' \in 0..max_recv_dups
        /\ mac' + q' <= QUEUEBUF_NUM /\ send_dups' \in 0..255 /\ q' # 1
        /\ send_dups' = 255 \/ send_dups' + mac' + q' <= max_send_dups + QUEUEBUF_NUM
        /\ last_event' \in {"PENDING", "SENT", "DROPPED"}
    BY <2>3, IInv, Unfolded, Constants
  <2>5. ~raced' => /\ handed' <= max_send_dups
                   /\ \/ mac' = 0
                      \/ handed' + q' <= send_dups' + 1 /\ handed' + q' <= max_send_dups
    BY <2>3, IInv, Unfolded, Constants
  <2>6. (cancelled' /\ ~raced' => mac' = 0) /\ (send_dups' = 255 => cancelled')
    BY <2>3, IInv, Unfolded
  <2> QED
    BY <2>2, <2>3, <2>4, <2>5, <2>6, Folded
<1>6. ASSUME broadcast_announcement_init PROVE IInv'
  <2>1. calls' \in 0..MaxCalls
    BY <1>6, IInv, CallBounded DEF broadcast_announcement_init
  <2>2. Globals'
    BY <1>6, <2>1, IInv DEF IInv, Globals, broadcast_announcement_init
  <2> QED
    BY <1>6, <2>2, IInv, QuietStepKeepsIInv DEF broadcast_announcement_init
<1>7. ASSUME recv PROVE IInv'
  <2>1. Globals'
    BY <1>7, IInv DEF IInv, Globals, recv
  <2>2. /\ q = 1 /\ dups' = dups + 1
        /\ \/ dups + 1 >= max_recv_dups /\ q' = 0 /\ last_event' = "DROPPED"
           \/ ~(dups + 1 >= max_recv_dups) /\ UNCHANGED <<q, last_event>>
        /\ UNCHANGED <<send_dups, mac, attempt, handed, cancelled, raced>>
    BY <1>7 DEF recv
  <2> QED
    BY <2>1, <2>2, IInv, Unfolded, Folded, Constants
<1>8. ASSUME tx_ok PROVE IInv'
  BY <1>8, IInv, TxDoneKeepsIInv DEF tx_ok
<1>9. ASSUME UNCHANGED vars PROVE IInv'
  <2>1. Globals'
    BY <1>9, IInv DEF vars, IInv, Globals
  <2> QED
    BY <1>9, <2>1, IInv, QuietStepKeepsIInv DEF vars
<1> QED
  BY <1>1, <1>2, <1>3, <1>4, <1>5, <1>6, <1>7, <1>8, <1>9, IInv, [Next]_vars,
     BumpKeepsIInv, SendKeepsIInv, CollisionKeepsIInv DEF Next, Events

(* The strengthened invariant of the announcement path. *)
THEOREM Invariance == Spec => []IInv
<1>1. Init => IInv
  <2> SUFFICES ASSUME Init PROVE IInv
    OBVIOUS
  <2>0. 0 \in 0..MaxCalls /\ 0 \in Intervals
    BY PoliteAssumption
  <2>1. Globals
    BY <2>0 DEF Init, Globals
  <2>2. FieldsOK(Fields) /\ CounterOK(Fields) /\ BudgetOK(Fields)
    BY FieldValues, Constants DEF Init, FieldsOK, CounterOK, BudgetOK
  <2> QED
    BY <2>1, <2>2 DEF Init, IInv
<1>2. IInv /\ [Next]_vars => IInv'
  BY NextKeepsIInv
<1> QED
  BY <1>1, <1>2, PTL DEF Spec

(* The types of polite-announcement.c hold: the buffers never run below zero or
   over QUEUEBUF_NUM, and no waiting packet has reached the duplicate limit. *)
THEOREM TypeCorrect == Spec => []TypeOK
  BY Invariance, Typed, PTL

(* One bump hands at most max_send_dups packets to csma.c. *)
THEOREM ResendBudgetHolds == Spec => []ResendBudget
<1>1. IInv => ResendBudget
  BY Unfolded DEF ResendBudget
<1> QED
  BY <1>1, Invariance, PTL

(* A cancel with nothing in csma.c is final until the next bump. *)
THEOREM IdleCancelIsFinal == Spec => IdleCancelSticks
<1>1. ASSUME IInv, [Next]_vars
      PROVE  [cancelled /\ cancelled' /\ ~raced => handed' <= handed]_vars
  <2> SUFFICES ASSUME Next, cancelled, cancelled', ~raced PROVE handed' <= handed
    BY <1>1
  <2>1. mac = 0 /\ q = 0 /\ handed \in Nat
    BY <1>1, Unfolded
  <2>2. ~announcement_bump
    BY DEF announcement_bump
  <2>3. ~send /\ ~recv /\ ~tx_ok /\ ~collision
    BY <2>1 DEF send, recv, tx_ok, collision
  <2>4. handed' = handed
    BY <2>2, <2>3 DEF Next, Events, announcement_add_value, announcement_remove_value,
       polite_announcement_init, polite_announcement_set_interval, polite_announcement_cancel,
       polite_announcement_stop, broadcast_announcement_init
  <2> QED
    BY <2>1, <2>4
<1> QED
  BY <1>1, Invariance, PTL DEF Spec, IdleCancelSticks
=============================================================================
