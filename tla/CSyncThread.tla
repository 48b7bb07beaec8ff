----------------------------- MODULE CSyncThread -----------------------------
(***************************************************************************)
(* What the C-sync process of one node computes between two of its yields, *)
(* and what its timer callbacks do.  x is the record of the                *)
(* node's globals, under their names in the source; besides them           *)
(*   pc      the PROCESS_YIELD the thread waits at                         *)
(*   poll    process_poll has been called and the thread has not run since *)
(*   radio   NETSTACK_RADIO is on                                          *)
(*   open    the announcement channels that are open                       *)
(*   values  the announcements with has_value set                          *)
(*   out     the announcement the last step bumped, if any                 *)
(*   sdate   the date in the synchronization announcement, from now        *)
(*   sref    the address in the synchronization announcement               *)
(*   fault   the invalid memory access the node has run into, if any       *)
(* my_placing and the announcement intervals only shape how soon a bumped  *)
(* announcement leaves and are left out.  The build is that of             *)
(* project-conf.h: TEST_GTSP, TEST_BYZ and AVG_CONSENSUS are 0.            *)
(***************************************************************************)
EXTENDS CHBLists, RTimer, SequencesExt

CONSTANTS
  my_addr, my_degree,
  NUM_CONS_SLOTS, NUM_CONS_CTRL_ITERATIONS,
  IDLE_SLOT_INTERVAL,       \* in slots
  InitialDegree             \* neighbour -> the degree known at boot

(* state_t and role_t *)
DISCOVERY                 == 0
DISC_TO_EREV              == 1
ELECTION_REVELATION       == 2
ELECTION_DECLARATION      == 4
CONNECTION_REVELATION     == 6
CONNECTION_DECLARATION    == 8
CONSENSUS_CONVERGENCE     == 10
CONVERGENCE_PROACTIVE     == 11
CONSENSUS_REVELATION      == 12
CONSENSUS_SYNCHRONIZATION == 14
IDLE                      == 16

CM == 0
CH == 1
CB == 2

Byte(n) == n % 256

NoBump == [kind |-> "none"]

(* announcement_bump: kind is the announcement, with the values it carries. *)
Bump(x, kind, degree, ref_addr) ==
  [x EXCEPT !.out = [kind |-> kind, degree |-> degree, ref_addr |-> ref_addr]]

SetSlots(l, f(_)) == [i \in DOMAIN l |-> [l[i] EXCEPT !.cons_slot = f(l[i])]]

Fault(x, what) == [x EXCEPT !.fault = what]

-----------------------------------------------------------------------------
(* The timer callbacks.  Each drops the announcement of the phase it ends and
   makes its own date the reference of the next phase's schedule. *)

(* Mutant of EnteredState: the instruction announced for a phase is taken for it. *)
EnteredStateOfInstr ==
  [enter_election_revelation       |-> ELECTION_REVELATION,
   enter_election_declaration      |-> ELECTION_DECLARATION,
   enter_connection_revelation     |-> CONNECTION_REVELATION,
   enter_connection_declaration    |-> CONNECTION_DECLARATION,
   enter_convergence               |-> CONVERGENCE_PROACTIVE,
   enter_consensus_revelation      |-> CONSENSUS_REVELATION,
   enter_consensus_synchronization |-> CONSENSUS_SYNCHRONIZATION,
   enter_idle                      |-> IDLE]

EnteredState ==
  [enter_election_revelation       |-> ELECTION_REVELATION,
   enter_election_declaration      |-> ELECTION_DECLARATION,
   enter_connection_revelation     |-> CONNECTION_REVELATION,
   enter_connection_declaration    |-> CONNECTION_DECLARATION,
   enter_convergence               |-> CONSENSUS_CONVERGENCE,
   enter_consensus_revelation      |-> CONSENSUS_REVELATION,
   enter_consensus_synchronization |-> CONSENSUS_SYNCHRONIZATION,
   enter_idle                      |-> IDLE]

EndedAnnouncement ==
  [enter_election_revelation       |-> "discovery",
   enter_election_declaration      |-> "revelation",
   enter_connection_revelation     |-> "declaration",
   enter_connection_declaration    |-> "revelation",
   enter_convergence               |-> "declaration",
   enter_consensus_revelation      |-> "convergence",
   enter_consensus_synchronization |-> "revelation",
   enter_idle                      |-> "synchronization"]

EndedChannel == [enter_election_revelation |-> {"broadcast"}, enter_idle |-> {"polite"}]

Enter(x, f) ==
  [x EXCEPT !.my_state = EnteredState[f],
            !.values = @ \ {EndedAnnouncement[f]},
            !.open = @ \ (IF f \in DOMAIN EndedChannel THEN EndedChannel[f] ELSE {}),
            !.radio = CASE f \in {"enter_connection_revelation", "enter_idle"} -> FALSE
                        [] f = "enter_consensus_revelation" -> TRUE
                        [] OTHER -> @,
            !.rt.age = -x.rt.hw,
            !.poll = TRUE]

(* enter_discovery closes the polite channel and leaves my_state alone. *)
enter_discovery(x) ==
  [x EXCEPT !.open = @ \ {"polite"}, !.rt.age = -x.rt.hw, !.poll = TRUE]

(* Mutant of enter_convergence_slot: the last slot does not end the phase. *)
enter_convergence_slot_late(x) ==
  IF x.my_cons_slot <= NUM_CONS_SLOTS THEN [x EXCEPT !.poll = TRUE]
  ELSE Enter(x, "enter_consensus_revelation")

enter_convergence_slot(x) ==
  IF x.my_cons_slot < NUM_CONS_SLOTS THEN [x EXCEPT !.poll = TRUE]
  ELSE Enter(x, "enter_consensus_revelation")

enter_synchronization_slot(x) ==
  IF x.ref_n_CHB_degree - 1 < NUM_CONS_SLOTS THEN [x EXCEPT !.poll = TRUE]
  ELSE Enter(x, "enter_idle")

(* RTIMER0_HF_CALLBACK *)
Expire(x) ==
  LET y == CASE x.rt.func = "enter_convergence_slot"     -> enter_convergence_slot(x)
             [] x.rt.func = "enter_synchronization_slot" -> enter_synchronization_slot(x)
             [] x.rt.func = "enter_discovery"            -> enter_discovery(x)
             [] OTHER                                    -> Enter(x, x.rt.func)
  IN  [y EXCEPT !.rt.state = "INACTIVE"]
-----------------------------------------------------------------------------
(* Mutant of soft_reset: the list of heads is emptied, the role kept. *)
soft_reset_lists(x) ==
  [x EXCEPT !.my_state = DISCOVERY, !.rt = ZeroTimer, !.synced_counter = 0,
            !.my_proactive_slot = 1, !.my_cons_slot = 1, !.my_slot_ack = 0,
            !.this_sync_slot = 1, !.my_sync_border = 0, !.cons_ctrl_counter = 0,
            !.radio = TRUE, !.instr = DISCOVERY, !.values = {"discovery"},
            !.open = @ \cup {"broadcast"}, !.sref = 0, !.sdate = -LongAgo,
            !.soft_reset_count = @ + 1, !.pc = "discovery",
            !.my_cluster.CHs = <<>>, !.my_cluster.m_CH = 0]

(* soft_reset.  The role, the lists and their pools, the neighbours, the
   blacklist and ref_n_CHB_* are left alone, and so is an open channel. *)
soft_reset(x) ==
  [x EXCEPT !.my_state = DISCOVERY, !.rt = ZeroTimer, !.synced_counter = 0,
            !.my_proactive_slot = 1, !.my_cons_slot = 1, !.my_slot_ack = 0,
            !.this_sync_slot = 1, !.my_sync_border = 0, !.cons_ctrl_counter = 0,
            !.radio = TRUE, !.instr = DISCOVERY, !.values = {"discovery"},
            !.open = @ \cup {"broadcast"}, !.sref = 0, !.sdate = -LongAgo,
            !.soft_reset_count = @ + 1, !.pc = "discovery"]

(* reset_c_gtsp, then the soft_reset that follows it before the first yield. *)
Boot ==
  soft_reset([my_state |-> DISCOVERY, pc |-> "discovery", poll |-> FALSE, rt |-> ZeroTimer,
              my_cluster |-> [role |-> CH, CHs |-> <<>>, CBs |-> <<>>, m_CH |-> 0, m_CB |-> 0],
              blacklist |-> <<>>, degree |-> InitialDegree, away |-> {},
              synced_counter |-> 0, instr |-> DISCOVERY,
              my_proactive_slot |-> 1, my_cons_slot |-> 1, my_slot_ack |-> 0,
              this_sync_slot |-> 1, my_sync_border |-> 0, cons_ctrl_counter |-> 0,
              saved |-> [proactive |-> 0, cons |-> 0, ack |-> 0, border |-> 0],
              ref_n_CHB_degree |-> 0, ref_n_CHB_addr |-> 0,
              soft_reset_count |-> 0, radio |-> TRUE, open |-> {}, values |-> {}, out |-> NoBump,
              sdate |-> 0, sref |-> 0, fault |-> "none"])

-----------------------------------------------------------------------------
(* The switch of the clustering phases.  A schedule that fails falls through to
   the next case.  csync_print_status reads the first head of a member without
   looking whether there is one. *)

ConnectionDeclaration(x) ==
  LET r == ScheduleRef(x.rt, 1, "enter_convergence")
      y == [x EXCEPT !.rt = r.t]
  IN  CASE r.ok /\ x.my_cluster.role = CH -> [y EXCEPT !.radio = TRUE]
        [] r.ok /\ x.my_cluster.role = CB ->
             Bump([y EXCEPT !.values = @ \cup {"declaration"}],
                  "declaration", x.ref_n_CHB_degree, x.ref_n_CHB_addr)
        [] OTHER -> y

(* Mutant of BecomeBridge: the second address summed is the bridge's own. *)
BecomeBridgeOwnAddr(x) ==
  LET l == x.my_cluster.CHs
      y == [x EXCEPT !.radio = TRUE, !.my_cluster.role = CB,
                     !.values = @ \cup {"revelation"},
                     !.ref_n_CHB_addr = (l[1].addr + my_addr) % 65536,
                     !.ref_n_CHB_degree = Byte(l[1].degree + l[2].degree)]
  IN  Bump(y, "revelation", my_degree, y.ref_n_CHB_addr)

(* A member of several clusters is a bridge between the best two. *)
BecomeBridge(x) ==
  LET l == x.my_cluster.CHs
      y == [x EXCEPT !.radio = TRUE, !.my_cluster.role = CB,
                     !.values = @ \cup {"revelation"},
                     !.ref_n_CHB_addr = (l[1].addr + l[2].addr) % 65536,
                     !.ref_n_CHB_degree = Byte(l[1].degree + l[2].degree)]
  IN  Bump(y, "revelation", my_degree, y.ref_n_CHB_addr)

ConnectionRevelation(x) ==
  LET r == ScheduleRef(x.rt, 1, "enter_connection_declaration")
      c == x.my_cluster
      y == [x EXCEPT !.rt = r.t]
      z == IF r.ok /\ c.role = CM /\ Len(c.CHs) > 1 THEN BecomeBridge(y) ELSE y
  IN  IF r.ok /\ x.my_state = CONNECTION_REVELATION /\ c.role = CM /\ c.CHs = <<>>
      THEN Fault(y, "head of an empty list")
      ELSE IF z.rt.func = "enter_convergence"
      THEN ConnectionDeclaration([z EXCEPT !.rt.state = "SINGLEPASS"])
      ELSE z

ElectionDeclaration(x) ==
  LET r == ScheduleRef(x.rt, 1, "enter_connection_revelation")
      y == [x EXCEPT !.rt = r.t]
  IN  IF r.ok THEN Bump([y EXCEPT !.values = @ \cup {"declaration"}],
                        "declaration", my_degree, my_addr)
      ELSE ConnectionRevelation(y)

ElectionRevelation(x) ==
  LET r == ScheduleRef(x.rt, 1, "enter_election_declaration")
      y == [x EXCEPT !.rt = r.t]
  IN  IF r.ok THEN Bump([y EXCEPT !.open = @ \cup {"polite"}, !.values = @ \cup {"revelation"}],
                        "revelation", my_degree, my_addr)
      ELSE ElectionDeclaration(y)

Clustering(x) ==
  LET y == [x EXCEPT !.pc = "clustering"]
  IN  CASE x.my_state = ELECTION_REVELATION    -> ElectionRevelation(y)
        [] x.my_state = ELECTION_DECLARATION   -> ElectionDeclaration(y)
        [] x.my_state = CONNECTION_REVELATION  -> ConnectionRevelation(y)
        [] x.my_state = CONNECTION_DECLARATION -> ConnectionDeclaration(y)
        [] OTHER                               -> y
-----------------------------------------------------------------------------
(* init_consensus_synchronization: from the slot a head was acknowledged in to
   the slot it hears or starts the synchronization in.  A bridge takes the slot
   of its last head other than the first one to synchronize. *)
init_consensus_synchronization(x) ==
  LET role     == x.my_cluster.role
      Reverse1(e) == Byte(NUM_CONS_SLOTS + 1 - e.cons_slot)
      l        == SetSlots(x.my_cluster.CHs, Reverse1)
      mine     == Byte(NUM_CONS_SLOTS + 1 - x.my_cons_slot)
      start    == [addr |-> my_addr, cons_slot |-> IF role = CH THEN mine ELSE NUM_CONS_SLOTS]
      first    == FoldLeft(LAMBDA b, e : IF e.cons_slot < b.cons_slot
                                         THEN [addr |-> e.addr, cons_slot |-> e.cons_slot] ELSE b,
                           start, l)
      others   == SelectSeq(l, LAMBDA e : e.addr # first.addr)
      cleared  == first # start \/ \E i \in DOMAIN l : l[i].cons_slot > NUM_CONS_SLOTS
  IN  [x EXCEPT !.my_cluster.CHs = l,
                !.ref_n_CHB_addr = first.addr,
                !.ref_n_CHB_degree = first.cons_slot,
                !.my_sync_border = IF cleared THEN 0 ELSE IF role = CH THEN 1 ELSE @,
                !.my_cons_slot = IF role = CB /\ others # <<>> THEN Last(others).cons_slot
                                 ELSE mine]

(* Mutant of SyncSlots: the interval of a slot is not counted from one. *)
SyncSlotsFromZero(x) ==
  LET Taken(s) == ScheduleRef(x.rt, s, "enter_synchronization_slot")
      open_s   == {s \in x.ref_n_CHB_degree .. NUM_CONS_SLOTS + 1 : Taken(s).ok}
      s1       == IF open_s = {} THEN NUM_CONS_SLOTS + 2 ELSE Min(open_s)
      t        == IF open_s # {} THEN Taken(s1).t ELSE x.rt
      y        == [x EXCEPT !.rt = t, !.radio = @ \/ s1 > x.ref_n_CHB_degree]
  IN  IF x.ref_n_CHB_degree > NUM_CONS_SLOTS + 1 THEN x
      ELSE IF s1 <= NUM_CONS_SLOTS THEN [y EXCEPT !.ref_n_CHB_degree = s1, !.pc = "sync_slot"]
      ELSE [y EXCEPT !.ref_n_CHB_degree = NUM_CONS_SLOTS + 2]

(* The slots of the synchronization, from the head of the loop to its next yield
   or its end.  The slot tried first may be refused: a slot's interval is counted
   from one, so that the interval of slot 1 is zero and that of slot 0 negative. *)
SyncSlots(x) ==
  LET Taken(s) == ScheduleRef(x.rt, s - 1, "enter_synchronization_slot")
      open_s   == {s \in x.ref_n_CHB_degree .. NUM_CONS_SLOTS + 1 : Taken(s).ok}
      s1       == IF open_s = {} THEN NUM_CONS_SLOTS + 2 ELSE Min(open_s)
      refused  == s1 > x.ref_n_CHB_degree
      t        == IF open_s # {} THEN Taken(s1).t
                  ELSE IF refused THEN Taken(NUM_CONS_SLOTS + 1).t ELSE x.rt
      y        == [x EXCEPT !.rt = t, !.radio = @ \/ refused]
  IN  IF x.ref_n_CHB_degree > NUM_CONS_SLOTS + 1 THEN x
      ELSE IF s1 <= NUM_CONS_SLOTS THEN [y EXCEPT !.ref_n_CHB_degree = s1, !.pc = "sync_slot"]
      ELSE [y EXCEPT !.ref_n_CHB_degree = NUM_CONS_SLOTS + 2]

(* The slots as the first iteration found them.  Those of the heads have been
   reversed since and are turned back.  RestoredReversed is a mutant of Restored
   that leaves them. *)
RestoredReversed(x) ==
  LET s == x.saved
  IN  [x EXCEPT !.my_proactive_slot = s.proactive, !.my_cons_slot = s.cons,
                !.my_slot_ack = s.ack, !.my_sync_border = s.border, !.this_sync_slot = 1]

Restored(x) ==
  LET Reverse1(e) == Byte(NUM_CONS_SLOTS + 1 - e.cons_slot)
      s == x.saved
  IN  [x EXCEPT !.my_proactive_slot = s.proactive, !.my_cons_slot = s.cons,
                !.my_slot_ack = s.ack, !.my_sync_border = s.border, !.this_sync_slot = 1,
                !.my_cluster.CHs = SetSlots(@, Reverse1)]

RECURSIVE Synchronization(_)

(* After the slots: wait for the end of the phase, or go on to the next
   iteration when the slot counter has been pushed past the end. *)
EndOfSlots(x) ==
  IF x.pc = "sync_slot" THEN x
  ELSE IF x.ref_n_CHB_degree - 2 <= NUM_CONS_SLOTS THEN [x EXCEPT !.pc = "sync_end"]
  ELSE Synchronization([x EXCEPT !.cons_ctrl_counter = @ + 1])

(* The head of the synchronization loop.  The first iteration saves the slots,
   the others restore them. *)
Synchronization(x) ==
  LET y == IF x.cons_ctrl_counter > 0
           THEN [Restored(x) EXCEPT !.my_state = CONSENSUS_SYNCHRONIZATION,
                                    !.radio = @ \/ x.my_cluster.role > CM,
                                    !.open = @ \cup {"polite"}]
           ELSE [x EXCEPT !.saved = [proactive |-> x.my_proactive_slot, cons |-> x.my_cons_slot,
                                     ack |-> x.my_slot_ack, border |-> x.my_sync_border]]
      r == ScheduleRef(y.rt, NUM_CONS_SLOTS, "enter_idle")
      z == [y EXCEPT !.rt = r.t, !.pc = "none"]
  IN  IF x.cons_ctrl_counter >= NUM_CONS_CTRL_ITERATIONS THEN soft_reset(x)
      ELSE IF r.ok
      THEN EndOfSlots(SyncSlots([init_consensus_synchronization(z)
                                 EXCEPT !.values = @ \cup {"synchronization"},
                                        !.sdate = r.t.lg, !.sref = my_addr,
                                        !.radio = FALSE]))
      ELSE Synchronization([z EXCEPT !.cons_ctrl_counter = @ + 1])
-----------------------------------------------------------------------------
(* init_consensus_convergence: a head rebuilds its list of neighbouring heads
   from its bridges; the pool starts from nothing.  The function returns at the
   first bridge whose head finds no block (done). *)
HeadsOf(CBs) ==
  FoldLeft(LAMBDA b, e :
             IF b.done \/ (\E i \in DOMAIN b.l : b.l[i].addr = e.A) THEN b
             ELSE IF Len(b.l) = NUM_CH_MAX THEN [b EXCEPT !.done = TRUE]
             ELSE [b EXCEPT !.l = <<[addr |-> e.A, degree |-> e.degree,
                                     cons_slot |-> 0, A |-> e.addr]>> \o @],
           [l |-> <<>>, done |-> FALSE], CBs)

(* Mutant of init_consensus_convergence: the pool starts from nothing, the list does not. *)
init_consensus_convergence_pool_only(x) ==
  LET b == HeadsOf(x.my_cluster.CBs)
  IN  [x EXCEPT !.my_cluster.CHs = b.l \o @, !.my_cluster.m_CH = Len(b.l)]

init_consensus_convergence(x) ==
  LET b == HeadsOf(x.my_cluster.CBs)
  IN  [x EXCEPT !.my_cluster.CHs = b.l, !.my_cluster.m_CH = Len(b.l),
                !.my_proactive_slot = CASE b.done -> @ [] Len(b.l) <= 1 -> 0
                                        [] Len(b.l) = 2 -> 1 [] OTHER -> 3]

(* The end of the convergence: wait for its timer, unless the slot counter is
   past the last slot. *)
EndOfConvergence(x) ==
  IF x.my_cons_slot <= NUM_CONS_SLOTS THEN [x EXCEPT !.pc = "conv_end"] ELSE Synchronization(x)

(* The slots of the convergence, from the head of the loop to its next yield or
   its end: the first slot from my_cons_slot on that can still be scheduled. *)
ConvergenceSlots(x) ==
  LET c        == x.my_cluster
      waiting  == Len(SelectSeq(c.CHs, LAMBDA e : e.cons_slot = 0))
      Taken(s) == ScheduleRef(x.rt, s, "enter_convergence_slot")
      open_s   == {s \in x.my_cons_slot .. NUM_CONS_SLOTS : Taken(s).ok}
      s1       == Min(open_s)
      y        == [x EXCEPT !.rt = Taken(s1).t, !.my_cons_slot = s1,
                            !.my_slot_ack = IF c.role = CB THEN 0 ELSE @]
      announce == c.role = CH /\ x.my_slot_ack = 0 /\ (waiting <= 1 \/ s1 = x.my_proactive_slot)
      z        == IF announce THEN Bump(y, "convergence", s1, 0) ELSE y
  IN  IF x.my_cons_slot > NUM_CONS_SLOTS THEN EndOfConvergence(x)
      ELSE IF c.role = CH /\ c.CHs = <<>> THEN EndOfConvergence([x EXCEPT !.radio = FALSE])
      ELSE IF open_s = {} THEN EndOfConvergence([x EXCEPT !.my_cons_slot = NUM_CONS_SLOTS + 1,
                                                          !.rt.func = "enter_convergence_slot"])
      ELSE IF s1 < NUM_CONS_SLOTS THEN [z EXCEPT !.pc = "conv_slot"]
      ELSE EndOfConvergence(z)

(* cons_ctrl_counter is zero here: soft_reset clears it before every round. *)
Convergence(x) ==
  LET r == ScheduleRef(x.rt, NUM_CONS_SLOTS, "enter_consensus_revelation")
      y == [x EXCEPT !.rt = r.t, !.values = @ \cup {"convergence"}]
  IN  IF ~r.ok THEN EndOfConvergence([x EXCEPT !.rt = r.t])
      ELSE IF x.my_cluster.role = CH THEN ConvergenceSlots(init_consensus_convergence(y))
      ELSE IF x.my_cluster.role = CB THEN ConvergenceSlots(y)
      ELSE EndOfConvergence(y)

(* Back from a slot of the convergence.  A bridge has its acknowledgement when
   all its heads have a slot. *)
AfterConvergenceSlot(x) ==
  LET ack == IF x.my_cluster.role # CB THEN x.my_slot_ack
             ELSE FoldLeft(LAMBDA b, e : Byte(b * e.cons_slot), x.my_slot_ack, x.my_cluster.CHs)
      r   == ScheduleRef(x.rt, NUM_CONS_SLOTS, "enter_consensus_revelation")
      y   == [x EXCEPT !.my_slot_ack = ack]
      z   == [y EXCEPT !.rt = r.t, !.radio = FALSE]
  IN  IF ack = 0 THEN ConvergenceSlots([y EXCEPT !.my_cons_slot = @ + 1])
      ELSE IF r.ok THEN EndOfConvergence(z)
      ELSE ConvergenceSlots([z EXCEPT !.my_cons_slot = @ + 1])

AfterConvergence(x) ==
  LET r == ScheduleRef(x.rt, 1, "enter_consensus_synchronization")
      y == [x EXCEPT !.rt = r.t, !.pc = "cs_rev"]
  IN  IF ~r.ok THEN Synchronization([x EXCEPT !.rt = r.t])
      ELSE IF x.my_cluster.role = CH
      THEN Bump([y EXCEPT !.values = @ \cup {"revelation"}], "revelation", x.my_cons_slot, my_addr)
      ELSE y

(* Mutant of AfterSyncSlot: the slot is compared after it has been counted. *)
AfterSyncSlotCounted(x) ==
  LET s == x.ref_n_CHB_degree + 1
      y == [x EXCEPT !.radio = TRUE, !.this_sync_slot = s, !.pc = "none",
                     !.ref_n_CHB_degree = Byte(s)]
      z == IF x.my_sync_border # 0 /\ s = x.my_cons_slot
           THEN Bump([y EXCEPT !.my_sync_border = 0], "synchronization", x.my_cons_slot, x.sref)
           ELSE y
  IN  EndOfSlots(SyncSlots(z))

(* Back from a slot of the synchronization: a border node starts in its own slot. *)
AfterSyncSlot(x) ==
  LET s == x.ref_n_CHB_degree
      y == [x EXCEPT !.radio = TRUE, !.this_sync_slot = s, !.pc = "none",
                     !.ref_n_CHB_degree = Byte(s + 1)]
      z == IF x.my_sync_border # 0 /\ s = x.my_cons_slot
           THEN Bump([y EXCEPT !.my_sync_border = 0], "synchronization", x.my_cons_slot, x.sref)
           ELSE y
  IN  EndOfSlots(SyncSlots(z))

AfterSynchronization(x) ==
  LET r == ScheduleDate(x.rt, x.sdate + IDLE_SLOT_INTERVAL, "enter_discovery")
      y == [x EXCEPT !.rt = r.t]
  IN  IF r.ok THEN [y EXCEPT !.radio = TRUE, !.values = @ \cup {"discovery"},
                             !.open = @ \cup {"broadcast"}, !.pc = "idle"]
      ELSE Synchronization([y EXCEPT !.cons_ctrl_counter = @ + 1])

(* Mutants of AfterIdle: the discovery announcement is kept; the iteration is not
   counted. *)
AfterIdleKeeps(x) ==
  Synchronization([x EXCEPT !.open = @ \ {"broadcast"}, !.cons_ctrl_counter = @ + 1])

AfterIdleUncounted(x) ==
  Synchronization([x EXCEPT !.open = @ \ {"broadcast"}, !.values = @ \ {"discovery"}])

AfterIdle(x) ==
  Synchronization([x EXCEPT !.open = @ \ {"broadcast"}, !.values = @ \ {"discovery"},
                            !.cons_ctrl_counter = @ + 1])

(* PROCESS_THREAD from one yield to the next. *)
Resume(x) ==
  LET y == [x EXCEPT !.poll = FALSE, !.out = NoBump]
  IN  CASE x.pc \in {"discovery", "clustering"} ->
             IF x.my_state < CONSENSUS_CONVERGENCE THEN Clustering(y) ELSE Convergence(y)
        [] x.pc = "conv_slot" -> AfterConvergenceSlot(y)
        [] x.pc = "conv_end"  -> AfterConvergence(y)
        [] x.pc = "cs_rev"    -> Synchronization(y)
        [] x.pc = "sync_slot" -> AfterSyncSlot(y)
        [] x.pc = "sync_end"  -> AfterSynchronization(y)
        [] x.pc = "idle"      -> AfterIdle(y)
=============================================================================
