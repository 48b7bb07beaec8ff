---------------------------- MODULE CSyncHandlers ----------------------------
(***************************************************************************)
(* The announcement callbacks (received_..._announcement) of one node.     *)
(* A message m has the fields kind (the announcement), instr, addr (the    *)
(* sender), degree and ref_addr.  d is the date it carries, counted from   *)
(* now; adj is the jump of the clock it causes, if it causes one: "none",  *)
(* one that makes rtimer_adjust_fine_offset schedule the timer again       *)
(* ("small"), or one over the date of the timer as well ("past");          *)
(* diff classifies the sender's clock difference: below, on or above the   *)
(* thresholds BYZANTINE_FINE_DIFF and BYZANTINE_COARSE_DIFF.               *)
(***************************************************************************)
EXTENDS CSyncThread

CONSTANTS
  MAX_RX_SYNC_DISCOVERY,
  DISC_TO_EREV_INTERVAL,    \* in slots
  NUM_BL_MAX

Me == [addr |-> my_addr, degree |-> my_degree]

Neighbour(x, m) == [addr |-> m.addr, degree |-> x.degree[m.addr]]

Phase(instr) == IF instr \in {DISC_TO_EREV, CONVERGENCE_PROACTIVE} THEN instr - 1 ELSE instr

(* add_to_neighbour for a known, synced neighbour.  away is the set of the
   neighbours last heard in a phase after the discovery. *)
add_to_neighbour(x, m, adj) ==
  LET tunes == x.my_state = DISCOVERY
               \/ (x.my_state < CONSENSUS_SYNCHRONIZATION /\ Phase(m.instr) = x.my_state)
  IN  IF x.my_state = IDLE THEN x
      ELSE [x EXCEPT !.rt = IF tunes THEN Readjust(@, adj) ELSE @,
                     !.away = IF Phase(m.instr) = DISCOVERY THEN @ \ {m.addr} ELSE @ \cup {m.addr},
                     !.degree[m.addr] = IF x.my_state < CONNECTION_DECLARATION THEN m.degree
                                        ELSE @]

(* handle_lists makes a node whose CHs_list it begins a member. *)
ListsHeads(x) == x.my_state \in {ELECTION_DECLARATION, CONSENSUS_CONVERGENCE}

(* Mutant of ElectedRole: the node remains what it was. *)
ElectedRoleKept(x) == x.my_cluster.role

ElectedRole(x) ==
  LET c == x.my_cluster
  IN  IF ListsHeads(x) /\ c.CHs = <<>> /\ c.m_CH < NUM_CH_MAX THEN CM ELSE c.role

(* handle_lists: [ret, x].  A head keeps, as the degree and the address of a new
   entry, what its own leave of the sums a bridge announces. *)
handle_lists(x, m) ==
  LET c      == x.my_cluster
      n      == Neighbour(x, m)
      role   == ElectedRole(x)
      e      == IF role = CH
                THEN [addr |-> n.addr, degree |-> Byte(m.degree - my_degree), cons_slot |-> 0,
                      A |-> (m.ref_addr - my_addr) % 65536]
                ELSE [addr |-> n.addr, degree |-> n.degree, cons_slot |-> 0, A |-> m.ref_addr]
      h      == ListAdd(c.CHs, c.m_CH, NUM_CH_MAX, n, e)
      b      == ListAdd(c.CBs, c.m_CB, NUM_CB_MAX, n, e)
  IN  CASE ListsHeads(x) -> [ret |-> h.ret, x |-> [x EXCEPT !.my_cluster.role = role,
                                !.my_cluster.CHs = h.l, !.my_cluster.m_CH = h.used]]
        [] x.my_state = CONNECTION_DECLARATION ->
             [ret |-> b.ret, x |-> [x EXCEPT !.my_cluster.CBs = b.l, !.my_cluster.m_CB = b.used]]
        [] OTHER -> [ret |-> 0, x |-> x]

(* Give the sender's entry in CHs_list the announced slot. *)
SlotOf(l, addr, slot) == SetSlots(l, LAMBDA e : IF e.addr = addr THEN slot ELSE e.cons_slot)

IsHead(x, addr) == \E i \in DOMAIN x.my_cluster.CHs : x.my_cluster.CHs[i].addr = addr
IsBridge(x, addr) == \E i \in DOMAIN x.my_cluster.CBs : x.my_cluster.CBs[i].addr = addr

(* A head without bridges takes the sender into its lists. *)
Unattached(x) == x.my_cluster.role = CH /\ x.my_cluster.CBs = <<>>

(* Leave the discovery for the polite channel as a member. *)
JoinAsMember(x) ==
  [x EXCEPT !.my_cluster.role = CM, !.open = (@ \ {"broadcast"}) \cup {"polite"},
            !.values = @ \ {"discovery"}]

-----------------------------------------------------------------------------
(* synced_counter counts up to its threshold; past it only its reset to zero
   matters.  csync_all_synced is x.away = {}. *)
received_discovery_announcement(x0, m, d, adj) ==
  LET x   == add_to_neighbour(x0, m, adj)
      n   == IF x.synced_counter < MAX_RX_SYNC_DISCOVERY THEN x.synced_counter + 1
             ELSE x.synced_counter
      y   == IF x.away = {} THEN [x EXCEPT !.synced_counter = n]
             ELSE [x EXCEPT !.synced_counter = 0, !.instr = DISCOVERY]
      now == ScheduleNow(y.rt, DISC_TO_EREV_INTERVAL, "enter_election_revelation")
      at  == ScheduleDate(y.rt, d, "enter_election_revelation")
  IN  IF x.my_state # DISCOVERY THEN [x EXCEPT !.synced_counter = n]
      ELSE IF m.instr = DISCOVERY /\ y.instr = DISCOVERY /\ y.synced_counter >= MAX_RX_SYNC_DISCOVERY
      THEN IF now.ok THEN [y EXCEPT !.rt = now.t, !.instr = DISC_TO_EREV] ELSE [y EXCEPT !.rt = now.t]
      ELSE IF m.instr = DISC_TO_EREV /\ LaterThan(y.rt, d)
      THEN IF at.ok THEN [y EXCEPT !.rt = at.t, !.instr = DISC_TO_EREV]
           ELSE [y EXCEPT !.rt = [at.t EXCEPT !.state = "INACTIVE"], !.instr = DISCOVERY,
                          !.synced_counter = 0]
      ELSE y

received_revelation_announcement(x0, m, d, adj) ==
  LET x  == add_to_neighbour(x0, m, adj)
      n  == Neighbour(x, m)
      c  == x.my_cluster
      er == HoldDate(x.rt, d, "enter_connection_revelation")
      cs == HoldDate(x.rt, d, "enter_consensus_synchronization")
      y  == [x EXCEPT !.rt = cs.t]
      cm == [y EXCEPT !.my_cluster.role = CM]
      l  == IF Unattached(x) THEN handle_lists(y, m).x ELSE y
  IN  CASE x.my_state = DISCOVERY /\ m.instr = ELECTION_REVELATION /\ Outranks(n, Me) ->
             IF er.ok THEN Enter([x EXCEPT !.rt = er.t], "enter_election_revelation")
             ELSE [x EXCEPT !.rt = er.t]
        [] x.my_state = DISCOVERY /\ m.instr = CONNECTION_REVELATION ->
             IF cs.ok THEN Enter(JoinAsMember(y), "enter_connection_revelation") ELSE cm
        [] x.my_state = DISCOVERY /\ m.instr = CONSENSUS_REVELATION ->
             IF ~cs.ok THEN cm
             ELSE IF c.CHs = <<>> THEN Fault(JoinAsMember(y), "pool pushed as an entry")
             ELSE Enter([JoinAsMember(y) EXCEPT
                           !.my_cluster.CHs = SlotOf(@, m.addr, m.degree),
                           !.my_cons_slot = IF IsHead(x, m.addr) THEN m.degree ELSE @],
                        "enter_consensus_revelation")
        [] x.my_state = CONSENSUS_CONVERGENCE /\ m.instr = CONSENSUS_REVELATION ->
             IF ~cs.ok THEN y
             ELSE Enter([l EXCEPT !.my_cluster.CHs = IF Unattached(x) THEN SlotOf(@, m.addr, m.degree)
                                                     ELSE @,
                                  !.my_cons_slot = NUM_CONS_SLOTS + 1, !.my_slot_ack = 0],
                        "enter_consensus_revelation")
        [] x.my_state = CONSENSUS_REVELATION /\ m.instr = x.my_state /\ c.role = CM ->
             [x EXCEPT !.my_cluster.CHs = SlotOf(@, m.addr, m.degree),
                       !.my_cons_slot = IF IsHead(x, m.addr) THEN m.degree ELSE @]
        [] OTHER -> x

received_declaration_announcement(x0, m, d, adj) ==
  LET x  == add_to_neighbour(x0, m, adj)
      j  == JoinAsMember(x)
      cr == HoldDate(x.rt, d, "enter_connection_revelation")
      cv == HoldDate(x.rt, d, "enter_convergence")
      h  == handle_lists(x, m)
  IN  CASE x.my_state = DISCOVERY /\ m.instr = CONNECTION_DECLARATION ->
             [j EXCEPT !.my_state = CONNECTION_DECLARATION, !.poll = TRUE]
        [] x.my_state = DISCOVERY /\ m.instr = ELECTION_DECLARATION ->
             IF cr.ok THEN Enter([j EXCEPT !.rt = cr.t], "enter_election_declaration")
             ELSE [j EXCEPT !.rt = cr.t]
        [] x.my_state = ELECTION_REVELATION /\ m.instr = ELECTION_DECLARATION ->
             IF cr.ok THEN Enter([x EXCEPT !.rt = cr.t], "enter_election_declaration")
             ELSE [x EXCEPT !.rt = cr.t]
        [] x.my_state = ELECTION_DECLARATION /\ m.instr = x.my_state ->
             IF ~Outranks(Neighbour(x, m), Me) THEN x
             ELSE IF h.ret = 0 THEN Bump(h.x, "declaration", my_degree, my_addr)
             ELSE h.x
        [] x.my_state = ELECTION_DECLARATION /\ m.instr = CONNECTION_DECLARATION ->
             IF cv.ok THEN Enter([x EXCEPT !.rt = cv.t, !.my_cluster.CHs = <<>>],
                                 "enter_connection_revelation")
             ELSE [x EXCEPT !.rt = cv.t]
        [] x.my_state = CONNECTION_DECLARATION /\ m.instr = x.my_state /\ x.my_cluster.role = CH -> h.x
        [] OTHER -> x

(* The entry of CHs_list that waits for the slot m announces. *)
Waiting(x, m) ==
  {i \in DOMAIN x.my_cluster.CHs : /\ x.my_cluster.CHs[i].addr = m.addr
                                   /\ x.my_cluster.CHs[i].cons_slot = 0}

(* Mutant of Acknowledges: a bridge answers every head it hears in a slot. *)
AcknowledgesAll(x, m) ==
  x.my_cluster.role = CB /\ x.my_cons_slot = m.degree /\ Waiting(x, m) # {}

(* A bridge answers one head in a slot. *)
Acknowledges(x, m) ==
  /\ x.my_cluster.role = CB /\ x.my_slot_ack = 0
  /\ x.my_cons_slot = m.degree /\ Waiting(x, m) # {}

received_convergence_announcement(x0, m, d, adj) ==
  LET x  == add_to_neighbour(x0, m, adj)
      c  == x.my_cluster
      hd == HoldDate(x.rt, d, "enter_consensus_revelation")
      y  == [x EXCEPT !.rt = hd.t]
      (* A head steps down and forgets its bridges. *)
      member == IF c.role = CH
                THEN handle_lists([y EXCEPT !.my_cluster.role = CM, !.my_cluster.CBs = <<>>], m).x
                ELSE y
      z      == [x EXCEPT !.my_sync_border = 0, !.rt = hd.t]
  IN  CASE x.my_state = CONNECTION_DECLARATION /\ m.instr = CONSENSUS_CONVERGENCE ->
             IF hd.ok THEN Enter(member, "enter_convergence") ELSE y
        [] x.my_state = CONSENSUS_CONVERGENCE ->
             IF ~IsHead(x, m.addr) /\ ~IsBridge(x, m.addr)
             THEN IF Unattached(x) THEN handle_lists(x, m).x ELSE x
             ELSE IF Acknowledges(x, m)
             THEN Bump([x EXCEPT !.my_slot_ack = 1,
                                 !.my_cluster.CHs[Min(Waiting(x, m))].cons_slot = m.degree],
                       "convergence", m.degree, m.addr)
             ELSE IF c.role = CH /\ m.ref_addr = my_addr
             THEN [x EXCEPT !.my_cons_slot = m.degree, !.my_slot_ack = 1]
             ELSE IF c.role = CH THEN [x EXCEPT !.my_cluster.CHs = SlotOf(@, m.ref_addr, m.degree)]
             ELSE x
        [] x.my_state = CONSENSUS_SYNCHRONIZATION /\ m.instr = CONSENSUS_CONVERGENCE ->
             IF ~hd.ok THEN z
             ELSE enter_discovery([(IF c.role = CH
                                    THEN [z EXCEPT !.my_cluster.role = CM, !.my_cluster.CBs = <<>>]
                                    ELSE z) EXCEPT !.ref_n_CHB_degree = NUM_CONS_SLOTS + 3])
        [] OTHER -> x

-----------------------------------------------------------------------------
(* csync_trusted_synchronization: whether the node adjusts its clock.  A head
   outside its slot does so only for a neighbouring local centre; adj covers
   both outcomes.  A member reads its first head. *)
csync_trusted_synchronization(x, addr, adj) ==
  LET c    == x.my_cluster
      acts == CASE c.role = CM -> c.CHs # <<>> /\ c.CHs[1].addr = addr
                [] c.role = CB -> ~IsBridge(x, addr)
                [] OTHER       -> \A i \in DOMAIN c.CBs : c.CBs[i].addr = addr
  IN  IF c.role = CM /\ c.CHs = <<>> THEN Fault(x, "head of an empty list")
      ELSE IF acts THEN [x EXCEPT !.rt = Readjust(@, adj)]
      ELSE x

(* The sender's block in the blacklist comes from a pool whose answer is not
   looked at; the border node then polls its own process. *)
Blacklist(x, addr) ==
  IF Len(x.blacklist) = NUM_BL_MAX THEN Fault(x, "no block for the blacklist")
  ELSE [x EXCEPT !.blacklist = <<addr>> \o @, !.my_sync_border = 1, !.poll = TRUE]

TakeOver(x, m, d) == [x EXCEPT !.sdate = d, !.sref = m.ref_addr]

received_synchronization_announcement(x0, m, d, adj, diff) ==
  LET x       == add_to_neighbour(x0, m, adj)
      c       == x.my_cluster
      id      == HoldDate(x.rt, d, "enter_idle")
      j       == [JoinAsMember(x) EXCEPT !.rt = id.t]
      t       == TakeOver(x, m, d)
      inslot  == x.this_sync_slot = x.my_cons_slot
      trusted == csync_trusted_synchronization(t, m.addr, adj)
      border  == [x EXCEPT !.my_sync_border = 1]
  IN  CASE m.ref_addr = my_addr -> x0
        [] m.ref_addr # my_addr /\ x.my_state = DISCOVERY ->
             IF id.ok /\ c.CHs # <<>> THEN Fault(j, "pool pushed as an entry") ELSE j
        [] m.ref_addr # my_addr /\ x.my_state = CONSENSUS_REVELATION ->
             IF ~id.ok THEN [x EXCEPT !.rt = id.t]
             ELSE Enter([x EXCEPT !.rt = id.t,
                                  !.my_cluster.CHs = IF Unattached(x) THEN SlotOf(@, m.addr, m.degree)
                                                     ELSE @],
                        "enter_consensus_synchronization")
        [] /\ m.ref_addr # my_addr
           /\ x.my_state = CONSENSUS_SYNCHRONIZATION
           /\ \A i \in DOMAIN x.blacklist : x.blacklist[i] # m.addr ->
             CASE c.role = CB /\ x.my_cons_slot > x.this_sync_slot ->
                    IF diff = "below"
                    THEN TakeOver([csync_trusted_synchronization(x, m.addr, adj)
                                   EXCEPT !.my_sync_border = 1], m, d)
                    ELSE Blacklist(x, m.addr)
               [] c.role = CB /\ inslot ->
                    IF diff = "above" THEN Blacklist(x, m.addr) ELSE TakeOver(border, m, d)
               [] c.role = CB /\ x.my_cons_slot < x.this_sync_slot -> t
               [] c.role = CH /\ inslot /\ x.my_sync_border = 0 ->
                    Bump([trusted EXCEPT !.my_sync_border = 1],
                         "synchronization", x.my_cons_slot, m.ref_addr)
               [] c.role = CH /\ ~(inslot /\ x.my_sync_border = 0) -> trusted
               [] c.role = CM /\ inslot -> trusted
               [] OTHER -> x
        [] OTHER -> x
=============================================================================
