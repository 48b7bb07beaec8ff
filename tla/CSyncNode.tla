------------------------------ MODULE CSyncNode ------------------------------
(***************************************************************************)
(* One C-sync node: its process thread, the timer interrupt, the receive   *)
(* callbacks and the passing of time, among neighbours that send what      *)
(* Messages holds.  A neighbour's phase differs from the node's own by an  *)
(* amount in Skew.  The timer fires on its date.  The thread runs before   *)
(* the next unit of time, but for MaxLate delays in all.                   *)
(***************************************************************************)
EXTENDS CSyncHandlers, FiniteSets

CONSTANTS
  Messages,        \* [kind, instr, addr, degree, ref_addr]
  Dates,           \* dates of messages from another phase, counted from now
  Skew,            \* phase of a sender minus the node's own
  SlotSkew,        \* convergence slot of a sender minus the node's own
  Diffs,           \* clock differences of synchronization messages
  MaxMsgs,         \* MaxMsgs[r]: messages of the phases after the discovery in round r
  MaxLate,
  Jumps,           \* the clock adjustments that schedule the timer again
  MaxAdjust        \* how many of them, per round

VARIABLES
  node,            \* the globals of the node
  since,           \* time the node has spent in its phase
  msgs, late, adjusts,
  leapt            \* a message four or more phases ahead has reached the node in its discovery

vars == <<node, since, msgs, late, adjusts, leapt>>

Init == node = Boot /\ since = 0 /\ msgs = 0 /\ late = 0 /\ adjusts = 0 /\ leapt = FALSE

Runs == node.fault = "none"

(* since starts again when the phase changes.  That of the discovery is not kept. *)
SinceRestarts == since' = IF node'.my_state # node.my_state THEN 0 ELSE since

(* The counters of the environment start again with every round. *)
NewRound == node.pc # "discovery" /\ node'.pc = "discovery"

Thread ==
  /\ Runs /\ node.poll
  /\ node' = Resume(node)
  /\ msgs' = IF NewRound THEN 0 ELSE msgs
  /\ adjusts' = IF NewRound THEN 0 ELSE adjusts
  /\ SinceRestarts
  /\ UNCHANGED <<late, leapt>>

Due == node.rt.state = "SCHEDULED" /\ node.rt.hw = 0

Timer ==
  /\ Runs /\ Due
  /\ node' = Expire([node EXCEPT !.out = NoBump])
  /\ SinceRestarts
  /\ UNCHANGED <<msgs, late, adjusts, leapt>>

Tick ==
  /\ Runs /\ ~Due
  /\ node.poll => late < MaxLate
  /\ late' = IF node.poll THEN late + 1 ELSE late
  /\ node' = [node EXCEPT !.rt = Elapse(@), !.out = NoBump,
                          !.sdate = IF @ > -LongAgo THEN @ - 1 ELSE @]
  /\ since' = IF node.my_state # DISCOVERY /\ since < LongAgo THEN since + 1 ELSE since
  /\ UNCHANGED <<msgs, adjusts, leapt>>

(* The messages that announcement_heard may hand to the handler of the kind: the
   radio is on and a channel is open (both channels have the same number), and
   the sender's phase is not too far from the node's. *)
Arriving(kind) ==
  {m \in Messages : /\ m.kind = kind
                    /\ Runs /\ node.radio /\ node.open # {}
                    /\ node.soft_reset_count <= Len(MaxMsgs)
                    /\ kind = "discovery" \/ msgs < MaxMsgs[node.soft_reset_count]
                    /\ (Phase(m.instr) - node.my_state) \div 2 \in Skew
                    /\ kind = "convergence" /\ Phase(m.instr) = node.my_state
                         => m.degree - node.my_cons_slot \in SlotSkew}

(* The date a message carries.  One of the node's own phase carries the end of
   that phase. *)
Carried(m) ==
  IF Phase(m.instr) = node.my_state /\ m.kind # "discovery" THEN {node.sdate} ELSE Dates

(* The jump of the clock a frame may cause.  It passes the date of the timer in
   the discovery, where clocks may be far apart, or when that date is near. *)
Adjustments ==
  {"none"} \cup {j \in Jumps : /\ adjusts < MaxAdjust
                               /\ j = "past" => node.my_state = DISCOVERY \/ node.rt.lg <= 0}

(* The globals as the handler finds them. *)
Before == [node EXCEPT !.out = NoBump]

(* The bounds' count of messages and adjustments, once the handler has made node'. *)
Counted(m, adj) ==
  /\ adjusts' = IF adj # "none" THEN adjusts + 1 ELSE adjusts
  /\ msgs' = IF m.kind = "discovery" THEN msgs ELSE msgs + 1
  /\ leapt' = (leapt \/ (node.my_state = DISCOVERY /\ Phase(m.instr) >= CONNECTION_DECLARATION))
  /\ SinceRestarts
  /\ UNCHANGED late

HearDiscovery ==
  \E m \in Arriving("discovery"), adj \in Adjustments : \E d \in Carried(m) :
    /\ node' = received_discovery_announcement(Before, m, d, adj)
    /\ Counted(m, adj)

HearRevelation ==
  \E m \in Arriving("revelation"), adj \in Adjustments : \E d \in Carried(m) :
    /\ node' = received_revelation_announcement(Before, m, d, adj)
    /\ Counted(m, adj)

HearDeclaration ==
  \E m \in Arriving("declaration"), adj \in Adjustments : \E d \in Carried(m) :
    /\ node' = received_declaration_announcement(Before, m, d, adj)
    /\ Counted(m, adj)

HearConvergence ==
  \E m \in Arriving("convergence"), adj \in Adjustments : \E d \in Carried(m) :
    /\ node' = received_convergence_announcement(Before, m, d, adj)
    /\ Counted(m, adj)

HearSynchronization ==
  \E m \in Arriving("synchronization"), adj \in Adjustments, diff \in Diffs :
    \E d \in Carried(m) :
      /\ node' = received_synchronization_announcement(Before, m, d, adj, diff)
      /\ Counted(m, adj)

Next == \/ Thread \/ Timer \/ Tick
        \/ HearDiscovery \/ HearRevelation \/ HearDeclaration
        \/ HearConvergence \/ HearSynchronization

Spec == Init /\ [][Next]_vars

(* Nothing waits for the processor: no interrupt is due, no poll is pending. *)
Rests == Runs => ~Due /\ ~node.poll

(* The processor gets around to the interrupt and to the thread, and the clock
   never stops.  []<>Rests is what weak fairness of Thread and Timer gives, as
   each is enabled until it runs and ends what enabled it. *)
Fairness == []<>Rests /\ WF_vars(Tick)

FairSpec == Spec /\ Fairness

-----------------------------------------------------------------------------
States == {DISCOVERY, ELECTION_REVELATION, ELECTION_DECLARATION, CONNECTION_REVELATION,
           CONNECTION_DECLARATION, CONSENSUS_CONVERGENCE, CONSENSUS_REVELATION,
           CONSENSUS_SYNCHRONIZATION, IDLE}

Yields == {"discovery", "clustering", "conv_slot", "conv_end", "cs_rev",
           "sync_slot", "sync_end", "idle"}

Entries(l) == {l[i] : i \in DOMAIN l}

(* Every global keeps to the values its C type and its use allow; in particular
   the counters of slots and iterations end where their loops end. *)
TypeOK ==
  /\ node.my_state \in States
  /\ node.pc \in Yields
  /\ node.my_cluster.role \in {CM, CH, CB}
  /\ node.rt.lg \in -LongAgo..LongAgo /\ node.rt.hw \in -LongAgo..LongAgo
  /\ node.rt.age \in -LongAgo..LongAgo
  /\ node.my_cons_slot \in 0..255
  /\ node.ref_n_CHB_degree \in 0..255
  /\ node.my_slot_ack \in 0..255
  /\ node.my_sync_border \in {0, 1}
  /\ node.cons_ctrl_counter \in 0..NUM_CONS_CTRL_ITERATIONS
  /\ \A e \in Entries(node.my_cluster.CHs) : e.cons_slot \in 0..255

(* Among neighbours that keep to its phase the node never follows the head of an
   empty list and never takes a block that is not there, although
   csync_print_status and csync_trusted_synchronization read the first head of a
   member without looking and soft_reset keeps the roles and lists of old rounds. *)
NoFault == node.fault = "none"

ExpectedState ==
  [discovery  |-> {ELECTION_REVELATION},
   clustering |-> {ELECTION_DECLARATION, CONNECTION_REVELATION, CONNECTION_DECLARATION,
                   CONSENSUS_CONVERGENCE},
   conv_slot  |-> {CONSENSUS_CONVERGENCE},
   conv_end   |-> {CONSENSUS_REVELATION},
   cs_rev     |-> {CONSENSUS_SYNCHRONIZATION},
   sync_slot  |-> {CONSENSUS_SYNCHRONIZATION},
   sync_end   |-> {IDLE},
   idle       |-> {IDLE}]

(* The thread and the phase stay together: a yield is only ended by the callback
   it waits for, so that the code after a PROCESS_YIELD runs in the state it is
   written for.  All callbacks wake the thread the same way, by process_poll, and
   the thread does not look which one did. *)
InStep == node.poll => node.my_state \in ExpectedState[node.pc]

(* A node that has left the discovery is always going to run again: it has been
   polled, or its timer is set for a date to come.  A schedule may fail, or find
   a timer that a handler has put into SINGLEPASS.  The date may be far ahead.  (A
   node in its discovery that follows a sender four or more phases ahead is left out:
   the schedule of the phase it lands in can fail for good.) *)
WakeUpComes ==
  leapt \/ node.poll \/ node.pc = "discovery" \/ (node.rt.state = "SCHEDULED" /\ node.rt.hw >= 0)

Announced ==
  (DISCOVERY :> {"discovery"}) @@ (ELECTION_REVELATION :> {"revelation"})
  @@ (ELECTION_DECLARATION :> {"declaration"}) @@ (CONNECTION_REVELATION :> {"revelation"})
  @@ (CONNECTION_DECLARATION :> {"declaration"}) @@ (CONSENSUS_CONVERGENCE :> {"convergence"})
  @@ (CONSENSUS_REVELATION :> {"revelation"}) @@ (CONSENSUS_SYNCHRONIZATION :> {"synchronization"})
  @@ (IDLE :> {"discovery"})

(* A packet carries every announcement that has a value, so each must lose its
   value when its phase ends: the callback of the next phase or, for the
   discovery announcement of the idle phase, the thread takes it away. *)
NothingStaleAnnounced == node.values \subseteq Announced[node.my_state]

(* Roles and lists survive soft_reset; what the slots promise a bridge holds in
   the round that elected it. *)
FirstRound == node.soft_reset_count = 1

(* A bridge gives each of its heads a convergence slot of its own, so that the
   synchronization can pass from one to the other.  Slot 1 is left out: there a
   handler may run between the timer and the thread that clears my_slot_ack. *)
BridgeSlotsDistinct ==
  LET l == node.my_cluster.CHs
  IN  FirstRound /\ node.my_cluster.role = CB /\ node.pc = "conv_slot" =>
        \A i, j \in DOMAIN l : i # j /\ l[i].cons_slot > 1 => l[i].cons_slot # l[j].cons_slot

(* The iterations of the consensus start from the same slots: what the loop
   restores, and the slots of the heads it turns back, are what
   init_consensus_synchronization made of them the first time. *)
IterationsAgree ==
  [][node.pc = "idle" /\ node'.pc \in {"sync_slot", "sync_end"} =>
       /\ node'.my_cons_slot = node.my_cons_slot
       /\ node'.my_cluster = node.my_cluster]_vars

(* The list of a member or bridge is best head first, whatever came in between
   the declarations: ref_n_CHB_addr and csync_trusted_synchronization rely on it. *)
HeadsRanked ==
  LET l == node.my_cluster.CHs
  IN  node.my_cluster.role # CH =>
        \A i, j \in DOMAIN l : i < j => Outranks(l[i], l[j])

(* What a bridge declares in CONNECTION_DECLARATION is the sum of its first two
   heads at that time, although it was computed one phase earlier: each head
   takes its own address off and keeps the other's. *)
BridgeDeclaresItsHeads ==
  LET l == node.my_cluster.CHs
  IN  FirstRound /\ node.my_cluster.role = CB /\ node.my_state = CONNECTION_DECLARATION
      /\ node.out.kind = "declaration" =>
        node.out.ref_addr = l[1].addr + l[2].addr

(* The synchronization begins with slot 0, one before the first, and its interval with
   a date far ahead.  An entry of the last round without a slot, turned once to slot
   NUM_CONS_SLOTS + 1 and kept by soft_reset, is turned to slot 0 in this one. *)
AwaitsSlotZero == node.pc = "sync_slot" /\ node.ref_n_CHB_degree = 0

(* No phase outlasts its slots: a callback makes its own date the reference, so
   that the phases of the nodes do not drift apart.  Large clock adjustments move
   the reference and are left out, and so is a node that waits for slot 0. *)
PhasesKeepTime ==
  adjusts = 0 /\ ~AwaitsSlotZero =>
    since <= CASE node.my_state \in {CONSENSUS_CONVERGENCE, CONSENSUS_SYNCHRONIZATION} -> NUM_CONS_SLOTS
               [] node.my_state = IDLE -> IDLE_SLOT_INTERVAL
               [] OTHER -> 1

(* A border head that waits for a slot not before its own starts the
   synchronization.  (In slot 1 it cannot: the interval of that slot is zero.) *)
InitiatorSends ==
  (node.pc = "sync_slot" /\ node.my_cluster.role = CH /\ node.my_sync_border = 1
   /\ node.my_cons_slot >= 2 /\ node.ref_n_CHB_degree <= node.my_cons_slot)
    ~> (node.out.kind = "synchronization")

(* The addresses a list may come to hold. *)
ListedAddr == {m.addr : m \in Messages} \cup {(m.ref_addr - my_addr) % 65536 : m \in Messages}

(* The roles, lists and pools of the node change as ClusterLists allows. *)
Lists == INSTANCE ClusterLists WITH
  Addr <- ListedAddr,
  role <- node.my_cluster.role,
  CHs <- Addresses(node.my_cluster.CHs), CBs <- Addresses(node.my_cluster.CBs),
  m_CH <- node.my_cluster.m_CH, m_CB <- node.my_cluster.m_CB

(* Every entry of a list has a block of its own: the list_init that drops a list
   without memb_free, the chopped tail and the pool that init_consensus_convergence
   initializes again never leave fewer blocks in use than there are entries, and
   never more than the pool has. *)
PoolsCoverLists == Lists!PoolsCoverLists

(* Every step of the thread and of the handlers, at any time and for messages of
   any later phase, is a step of ClusterLists on the lists and pools.  (Lists!vars
   is a function of my_cluster: this is Lists!Spec, written so that steps that leave
   my_cluster alone cost nothing to check.) *)
ImplementsClusterLists ==
  Lists!Init /\ [][node'.my_cluster # node.my_cluster => Lists!Next]_(Lists!vars)

(* A round that has begun comes to its end: the node is back in the discovery
   again and again, unless its timer is set far ahead: an adjustment of the clock
   moved the reference of a phase so far that the next date lies in the past, or it
   waits for slot 0. *)
RoundsComplete == []<>(node.pc = "discovery" \/ node.rt.hw = LongAgo)

(* The comment on the yield that ends a synchronization says "// IDLE": the code
   behind it runs in the idle phase.  A bridge that blacklists the sender of a
   synchronization polls the process itself. *)
SynchronizationEndsIdle == node.pc = "sync_end" /\ node.poll => node.my_state = IDLE

(* memb.h: memory blocks "are deallocated with the memb_free() function".  A list
   that is dropped as a whole keeps its blocks. *)
BlocksReturned ==
  node.my_cluster.m_CH = Len(node.my_cluster.CHs) /\ node.my_cluster.m_CB = Len(node.my_cluster.CBs)
=============================================================================
