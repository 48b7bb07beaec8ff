------------------------------- MODULE GtspNet -------------------------------
(***************************************************************************)
(* Nodes that keep their clocks together: each broadcasts sync frames with *)
(* its clock and its phase, and add_to_neighbour makes a neighbour of the  *)
(* sender, measures the difference (gtsp_recv) and corrects the receiver's *)
(* clock (gtsp_update_rtimer).  In the consensus a node may then set its   *)
(* clock to that of the sender (csync_trusted_synchronization).  Frames    *)
(* are lost, and arrive after the sender's clock has moved on.  Clocks     *)
(* count the ticks and the periods relative to a perfect clock: they do    *)
(* not drift, and no coarse overflow lies between two of them.             *)
(***************************************************************************)
EXTENDS Gtsp

CONSTANTS
  Networks,        \* [nodes, starts, junk, frames, phases]: the nodes in reach of each
                   \* other, the clocks at which they start, the values that may be read
                   \* through NULL, and two bounds: the frames sent in all, and how far
                   \* the nodes get, an index of Phases
  MaxNeighbours    \* size of neighbour_memb

ASSUME NetworksAssumption ==
  \A w \in Networks : /\ w.nodes # {} /\ w.starts \subseteq [coarse : Int, fine : Int]
                     /\ w.junk # {} /\ w.junk \subseteq Int /\ w.frames \in Nat /\ w.phases \in 1..4

VARIABLES
  net,             \* the network
  clock,           \* clock[n] = [coarse, fine]
  my_state,        \* the phase
  list,            \* list[n]: the neighbours of n, in the order of the list
  heard,           \* heard[n][m]: the clock and the phase in the last frame of m that n took
  air,             \* air[n]: n's latest frame, and the nodes that may still receive it
  frames           \* how many have been sent

vars == <<net, clock, my_state, list, heard, air, frames>>

Nodes == net.nodes

Phases == <<"DISCOVERY", "CLUSTERING", "CONSENSUS", "IDLE">>

Init ==
  /\ net \in Networks
  /\ clock \in [Nodes -> net.starts]
  /\ my_state = [n \in Nodes |-> "DISCOVERY"]
  /\ list = [n \in Nodes |-> <<>>]
  /\ heard = [n \in Nodes |-> <<>>]
  /\ air = [n \in Nodes |-> [to |-> {}, state |-> "DISCOVERY", clock |-> clock[n]]]
  /\ frames = 0

(* A sync frame leaves; those who have not received the one before never will. *)
Send(n) ==
  /\ frames < net.frames /\ frames' = frames + 1
  /\ air' = [air EXCEPT ![n] = [to |-> Nodes \ {n}, state |-> my_state[n], clock |-> clock[n]]]
  /\ UNCHANGED <<net, clock, my_state, list, heard>>

Entry(n, m, here, synced) ==
  [addr |-> m, here |-> here, synced |-> synced,
   coarse |-> clock[n].coarse - air[m].clock.coarse, fine |-> clock[n].fine - air[m].clock.fine]

Taken(n, m) ==
  /\ n \in air[m].to
  /\ air' = [air EXCEPT ![m].to = @ \ {n}]
  /\ heard' = [heard EXCEPT ![n] =
       [k \in DOMAIN @ \cup {m} |-> IF k = m THEN [clock |-> air[m].clock, state |-> air[m].state] ELSE @[k]]]
  /\ UNCHANGED <<net, my_state, frames>>

(* add_to_neighbour for an unknown sender; the clock is left alone. *)
NewNeighbour(n, m) ==
  /\ m \notin DOMAIN heard[n] /\ Len(list[n]) < MaxNeighbours
  /\ Taken(n, m)
  /\ list' = [list EXCEPT ![n] = Append(@, Entry(n, m, air[m].state = my_state[n], FALSE))]
  /\ UNCHANGED clock

(* The list with the difference to m measured again: gtsp_recv, and n->state = state,
   which is left out in IDLE. *)
Measured(n, m) ==
  [i \in DOMAIN list[n] |->
     IF list[n][i].addr = m
     THEN Entry(n, m, IF my_state[n] = "IDLE" THEN list[n][i].here ELSE air[m].state = my_state[n],
                list[n][i].synced)
     ELSE list[n][i]]

Updates(n, m) ==
  \/ my_state[n] = "DISCOVERY"
  \/ my_state[n] = "CLUSTERING" /\ air[m].state = my_state[n]

(* [coarse, fine, ns]: what add_to_neighbour sets the clock back by when it hears a known
   sender, and the list it leaves. *)
Heard(n, m, junk) ==
  IF Updates(n, m) THEN gtsp_update_rtimer(Measured(n, m), my_state[n] = "DISCOVERY", junk)
  ELSE [coarse |-> 0, fine |-> 0, ns |-> Measured(n, m)]

(* add_to_neighbour for a known sender. *)
KnownNeighbour(n, m, junk) ==
  LET r == Heard(n, m, junk)
  IN  /\ m \in DOMAIN heard[n]
      /\ Taken(n, m)
      /\ list' = [list EXCEPT ![n] = r.ns]
      /\ clock' = [clock EXCEPT ![n] = [coarse |-> @.coarse - r.coarse, fine |-> @.fine - r.fine]]

(* The loop of csync_trusted_synchronization. *)
SetBack(ns, d) == [i \in DOMAIN ns |-> [ns[i] EXCEPT !.fine = @ - d]]

(* received_synchronization_announcement of a known sender m that was found in step:
   csync_trusted_synchronization takes over its fine count.  Roles, slots and the
   blacklist decide between this and KnownNeighbour. *)
TrustedNeighbour(n, m, junk) ==
  LET r == Heard(n, m, junk)
      e == CHOOSE e \in {r.ns[i] : i \in DOMAIN r.ns} : e.addr = m
  IN  /\ my_state[n] \in {"DISCOVERY", "CONSENSUS"} /\ air[m].state = "CONSENSUS"
      /\ m \in DOMAIN heard[n] /\ e.synced
      /\ Taken(n, m)
      /\ list' = [list EXCEPT ![n] = SetBack(r.ns, e.fine)]
      /\ clock' = [clock EXCEPT ![n] = [coarse |-> @.coarse - r.coarse, fine |-> (@.fine - r.fine) - e.fine]]

(* The node's timer moves it to the next phase. *)
NextPhase(n) ==
  \E i \in 1..net.phases - 1 :
    /\ my_state[n] = Phases[i]
    /\ my_state' = [my_state EXCEPT ![n] = Phases[i + 1]]
    /\ list' = [list EXCEPT ![n] = [j \in DOMAIN @ |->
                  [@[j] EXCEPT !.here = heard[n][list[n][j].addr].state = Phases[i + 1]]]]
    /\ UNCHANGED <<net, clock, heard, air, frames>>

Next ==
  \E n \in Nodes :
    \/ Send(n)
    \/ NextPhase(n)
    \/ \E m \in Nodes \ {n} :
         \/ NewNeighbour(n, m)
         \/ \E junk \in net.junk : KnownNeighbour(n, m, junk)
         \/ \E junk \in net.junk : TrustedNeighbour(n, m, junk)

Spec == Init /\ [][Next]_vars

-----------------------------------------------------------------------------
(* gtsp_update_rtimer and csync_trusted_synchronization set the clock back by an offset
   and take the same offset off every difference they have stored: each entry is this clock minus the clock in the
   neighbour's last frame, however many corrections came in between. *)
DifferencesTrue ==
  \A n \in Nodes : \A i \in DOMAIN list[n] :
    LET e == list[n][i]  h == heard[n][e.addr].clock
    IN  e.coarse = clock[n].coarse - h.coarse /\ e.fine = clock[n].fine - h.fine

(* The clocks of the nodes and of the frames that still matter. *)
AllClocks ==
  {clock[n] : n \in Nodes}
    \cup {air[n].clock : n \in {k \in Nodes : air[k].to # {}}}
    \cup UNION {{heard[n][m].clock : m \in DOMAIN heard[n]} : n \in Nodes}

(* Averaging and jumping lead no clock away: the new clock of a node lies between two
   of the clocks that were known.  Where coarse counts differ a vote may be called, and
   what is then read through NULL may be near enough to enter the mean. *)
NeverApart ==
  [][\A n \in Nodes :
       (\A m \in DOMAIN heard'[n] : heard'[n][m].clock.coarse = clock[n].coarse) =>
         \E a, b \in AllClocks : a.fine <= clock'[n].fine /\ clock'[n].fine <= b.fine]_vars

(* A coarse count is only ever exchanged for the count of a neighbour. *)
CountsKnown ==
  [][\A n \in Nodes : clock'[n].coarse # clock[n].coarse =>
       \E m \in DOMAIN heard'[n] : clock'[n].coarse = heard'[n][m].clock.coarse]_vars

(* "Majority in sync, no jump is made": a node whose coarse count is that of more than
   half of its neighbours keeps it. *)
MajorityKept ==
  [][\A n \in Nodes :
       LET agree == {m \in DOMAIN heard'[n] : heard'[n][m].clock.coarse = clock[n].coarse}
       IN  2 * Cardinality(agree) > Cardinality(DOMAIN heard'[n])
             => clock'[n].coarse = clock[n].coarse]_vars

(* After the discovery a clock moves by the threshold or more in one case only: a node in
   the consensus takes over the very clock that a neighbour in the consensus has sent, one
   that was found in step when gtsp_update_rtimer last looked.  The mean of the clustering
   never does it, whatever is read through NULL. *)
JumpsOnlyToTrusted ==
  [][\A n \in Nodes : my_state[n] # "DISCOVERY" /\ ~Near(clock'[n].fine - clock[n].fine) =>
       /\ my_state[n] = "CONSENSUS"
       /\ \E i \in DOMAIN list[n] :
            LET h == heard'[n][list[n][i].addr]
            IN  list[n][i].synced /\ h.state = "CONSENSUS" /\ clock'[n].fine = h.clock.fine]_vars
=============================================================================
