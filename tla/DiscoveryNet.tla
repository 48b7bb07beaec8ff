---------------------------- MODULE DiscoveryNet ----------------------------
(***************************************************************************)
(* Nodes in reach of each other agree on the date at which they leave the  *)
(* discovery.  Each announces DISCOVERY until it has heard enough frames   *)
(* of synchronized neighbours; then it sets its timer and announces        *)
(* DISC_TO_EREV with the date, and the others follow to the later of two   *)
(* dates.  Frames are lost, and may be on their way while time passes.  A  *)
(* node in the election announces its end with ELECTION_REVELATION, which  *)
(* nodes of a lower rank in the discovery follow.  The clocks agree: a     *)
(* neighbour is synced from its second frame on.  A unit of time is a      *)
(* slot; dates count from now, and the thread runs before time passes.     *)
(***************************************************************************)
EXTENDS RTimer, FiniteSets

CONSTANTS
  Nodes,
  Newcomers,              \* the nodes that have just been switched on
  MAX_RX_SYNC_DISCOVERY,
  DISC_TO_EREV_INTERVAL,
  MaxTransit              \* how long a frame may be on its way

ASSUME IntervalAssumption ==
  /\ MAX_RX_SYNC_DISCOVERY \in Nat /\ DISC_TO_EREV_INTERVAL \in Nat \ {0} /\ MaxTransit \in Nat
  /\ DISC_TO_EREV_INTERVAL < LongAgo

VARIABLES
  node,     \* my_state, synced_counter, instr and date of what it announces, rt; the
            \* neighbours in its list (known), and those of them not synced or with
            \* n->state > 1 (away)
  air,      \* the frame on the channel: its sender, what it announces, its age
  told      \* <<n, m>>: n has received what m announces now, a date of the discovery

vars == <<node, air, told>>

Start == [my_state |-> "DISCOVERY", synced_counter |-> 0, instr |-> "DISCOVERY", date |-> 0,
          rt |-> ZeroTimer, known |-> {}, away |-> {}]

Silence == [from |-> "nobody", instr |-> "DISCOVERY", date |-> 0, age |-> 0]

(* The neighbours n knows from rounds before: they were last heard in a later phase. *)
OldOnes(n) == IF n \in Newcomers THEN {} ELSE Nodes \ (Newcomers \cup {n})

Init ==
  /\ node = [n \in Nodes |-> [Start EXCEPT !.known = OldOnes(n), !.away = OldOnes(n)]]
  /\ air = Silence
  /\ told = {}

Due(n) == node[n].rt.state = "SCHEDULED" /\ node[n].rt.hw = 0

(* A frame with the announcement of the moment. *)
Send(n) ==
  /\ air = Silence /\ node[n].my_state # "LATER"
  /\ air' = [from |-> n, instr |-> node[n].instr, date |-> node[n].date, age |-> 0]
  /\ UNCHANGED <<node, told>>

(* add_to_neighbour; later says that the sender has left the discovery. *)
add_to_neighbour(x, m, later) ==
  [x EXCEPT !.known = @ \cup {m},
            !.away = IF m \in x.known /\ ~later THEN @ \ {m} ELSE @ \cup {m}]

(* Only its reset to zero matters once the counter has reached its threshold. *)
Counted(c) == IF c < MAX_RX_SYNC_DISCOVERY THEN c + 1 ELSE c

(* csync_all_synced, and what received_discovery_announcement makes of its answer. *)
Checked(x) ==
  IF x.away = {} THEN [x EXCEPT !.synced_counter = Counted(@)]
  ELSE [x EXCEPT !.synced_counter = 0, !.instr = "DISCOVERY", !.date = 0]

Announces(x, r, date) == [x EXCEPT !.rt = r.t, !.instr = "DISC_TO_EREV", !.date = date]

(* Mutant of Initiates: the node does not look whether it has set one. *)
InitiatesAgain(x, f) == f.instr = "DISCOVERY" /\ x.synced_counter >= MAX_RX_SYNC_DISCOVERY

(* The node sets a date of its own. *)
Initiates(x, f) ==
  f.instr = "DISCOVERY" /\ x.instr = "DISCOVERY" /\ x.synced_counter >= MAX_RX_SYNC_DISCOVERY

(* Mutant of Follows: a node that has set a date stays with it. *)
FollowsFirst(x, f) == f.instr = "DISC_TO_EREV" /\ x.rt.state # "SCHEDULED"

(* The sender's date is later than the node's, or the node has none. *)
Follows(x, f) == f.instr = "DISC_TO_EREV" /\ LaterThan(x.rt, f.date)

Follow(x, date) ==
  LET r == ScheduleDate(x.rt, date, "enter_election_revelation")
  IN  IF r.ok THEN Announces(x, r, date)
      ELSE [x EXCEPT !.rt = [r.t EXCEPT !.state = "INACTIVE"], !.instr = "DISCOVERY",
                     !.date = 0, !.synced_counter = 0]

received_discovery_announcement(x0, m, f) ==
  LET x   == Checked(add_to_neighbour(x0, m, FALSE))
      now == ScheduleNow(x.rt, DISC_TO_EREV_INTERVAL, "enter_election_revelation")
  IN  IF Initiates(x, f) THEN IF now.ok THEN Announces(x, now, now.t.lg) ELSE [x EXCEPT !.rt = now.t]
      ELSE IF Follows(x, f) THEN Follow(x, f.date)
      ELSE x

(* The thread in ELECTION_REVELATION: a timer that holds a date keeps it. *)
Electing(x) ==
  LET r == ScheduleRef(x.rt, 1, "enter_election_declaration")
  IN  [x EXCEPT !.my_state = "ELECTION_REVELATION", !.rt = r.t,
                !.instr = "ELECTION_REVELATION", !.date = r.t.lg]

(* The case DISCOVERY of received_revelation_announcement for ELECTION_REVELATION. *)
received_revelation_announcement(x0, m, f, outranks) ==
  LET x == add_to_neighbour(x0, m, TRUE)
      r == HoldDate(x.rt, f.date, "enter_connection_revelation")
  IN  IF m \notin x0.known \/ ~outranks THEN x
      ELSE IF r.ok THEN Electing([x EXCEPT !.rt = r.t]) ELSE [x EXCEPT !.rt = r.t]

(* Without what is not read any more: the reference of the timer, the dates of one that
   is not set, the neighbours of a node in the election. *)
Kept(x) ==
  LET rt == IF x.rt.state = "INACTIVE" THEN ZeroTimer ELSE [x.rt EXCEPT !.age = LongAgo]
  IN  CASE x.my_state = "DISCOVERY" -> [x EXCEPT !.rt = rt]
        [] x.my_state = "ELECTION_REVELATION" ->
             [x EXCEPT !.rt = rt, !.known = {}, !.away = {}, !.synced_counter = 0]
        [] OTHER -> [Start EXCEPT !.my_state = x.my_state]

Heard(n, outranks) ==
  Kept(IF air.instr = "ELECTION_REVELATION"
       THEN received_revelation_announcement(node[n], air.from, air, outranks)
       ELSE received_discovery_announcement(node[n], air.from, air))

Listening == {n \in Nodes \ {air.from} : node[n].my_state = "DISCOVERY" /\ ~Due(n)}

(* The frame arrives at the nodes S and is lost for the others; those in low are
   outranked by the sender. *)
Receive(S, low) ==
  LET m     == air.from
      after == [n \in Nodes |-> IF n \in S THEN Heard(n, n \in low) ELSE node[n]]
      same(n) == after[n].my_state = "DISCOVERY" /\ after[n].instr = node[n].instr
                 /\ after[n].date = node[n].date
  IN  /\ air # Silence
      /\ node' = after /\ air' = Silence
      /\ told' = {p \in told : same(p[2])} \cup
           {<<n, m>> : n \in {k \in S : air.instr = "DISC_TO_EREV" /\ node[m].instr = air.instr
                                      /\ node[m].date = air.date}}

(* The interrupt.  A follower whose schedule failed has another callback stored. *)
Timer(n) ==
  LET x == node[n]
      e == IF x.my_state = "DISCOVERY" /\ x.rt.func = "enter_election_revelation"
           THEN Electing([x EXCEPT !.rt.state = "INACTIVE", !.rt.age = 0])
           ELSE [x EXCEPT !.my_state = "LATER"]
  IN  /\ Due(n)
      /\ node' = [node EXCEPT ![n] = Kept(e)]
      /\ told' = {p \in told : n \notin {p[1], p[2]}}
      /\ UNCHANGED air

Passed(d) == IF d > -LongAgo THEN d - 1 ELSE d

Tick ==
  /\ \A n \in Nodes : ~Due(n)
  /\ node' = [n \in Nodes |-> Kept([node[n] EXCEPT !.rt = Elapse(@),
                !.date = IF node[n].instr = "DISCOVERY" THEN 0 ELSE Passed(@)])]
  /\ air' = IF air = Silence \/ air.age = MaxTransit THEN Silence
            ELSE [air EXCEPT !.age = @ + 1, !.date = IF air.instr = "DISCOVERY" THEN 0 ELSE Passed(@)]
  /\ UNCHANGED told

Next ==
  \/ Tick
  \/ \E n \in Nodes : Send(n) \/ Timer(n)
  \/ \E S \in SUBSET Listening :
       \E low \in IF air.instr = "ELECTION_REVELATION" THEN SUBSET S ELSE {{}} : Receive(S, low)

Spec == Init /\ [][Next]_vars

Rests == \A n \in Nodes : ~Due(n)

(* Interrupts are served and the clock does not stop. *)
FairSpec == Spec /\ []<>Rests /\ WF_vars(Tick)

-----------------------------------------------------------------------------
Announcing(n) == node[n].my_state = "DISCOVERY" /\ node[n].instr = "DISC_TO_EREV"

(* The nodes follow to the latest date: one that has received the date another is still
   announcing does not leave the discovery before it, so that two that have received
   each other's leave together, whatever frames were lost, whoever fell back to
   DISCOVERY in between and set a new date.  (A date that had passed when it was
   received is out of reach, the timer takes it for one far ahead.) *)
NotBefore ==
  \A n, m \in Nodes :
    /\ <<n, m>> \in told /\ Announcing(m) /\ node[m].rt.hw # LongAgo
    /\ node[n].my_state = "DISCOVERY" /\ node[n].rt.state = "SCHEDULED"
    => node[n].rt.hw >= node[m].rt.hw

(* Dates are not put off for ever: a node that has announced one leaves the discovery,
   though it gives up its date for every later one it receives, and starts again when
   a newcomer or a node in the election is heard. *)
DateComes ==
  \A n \in Nodes : Announcing(n) ~> (node[n].my_state # "DISCOVERY" \/ node[n].rt.hw = LongAgo)
=============================================================================
