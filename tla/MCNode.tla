------------------------------- MODULE MCNode -------------------------------
(* A node of address 2 and degree 2 among three neighbours.  4 and 5 outrank
   it, 1 does not; 7 and 8 are heads two hops away, behind a bridge. *)
EXTENDS CSyncNode

Degrees == 1 :> 1 @@ 4 :> 3 @@ 5 :> 3

Msg(kind, instr, addr, degree, ref_addr) ==
  [kind |-> kind, instr |-> instr, addr |-> addr, degree |-> degree, ref_addr |-> ref_addr]

(* A date that has passed, one inside the safety margin, one to come. *)
AnyDates == {-1, 0, 1}

(* How many messages arrive in the first round, and in the second. *)
FourMsgs == <<4>>
FourThenOne == <<4, 1>>
ThreeMsgs == <<3>>
TwoMsgs == <<2>>

Slots == 1..NUM_CONS_SLOTS

DiscoveryMsgs ==
  {Msg("discovery", i, 1, g, 1) : i \in {DISCOVERY, DISC_TO_EREV}, g \in {0, 1}}
  \cup {Msg("discovery", IDLE, 4, 1, 4), Msg("discovery", DISCOVERY, 4, 3, 4)}

ElectionMsgs ==
  {Msg("revelation", ELECTION_REVELATION, a, Degrees[a], a) : a \in {1, 4}}
  \cup {Msg("declaration", ELECTION_DECLARATION, a, Degrees[a], a) : a \in {1, 4, 5}}

ConnectionMsgs ==
  {Msg("revelation", CONNECTION_REVELATION, 1, 1, 9),
   Msg("declaration", CONNECTION_DECLARATION, 1, 5, 9),
   Msg("declaration", CONNECTION_DECLARATION, 4, 4, 10)}

ConsensusMsgs ==
  {Msg("convergence", i, 4, s, 0) : i \in {CONSENSUS_CONVERGENCE, CONVERGENCE_PROACTIVE}, s \in Slots}
  \cup {Msg("convergence", CONSENSUS_CONVERGENCE, 5, s, 0) : s \in Slots}
  \cup {Msg("convergence", CONSENSUS_CONVERGENCE, 1, s, r) : s \in Slots, r \in {2, 7}}
  \cup {Msg("revelation", CONSENSUS_REVELATION, 4, s, 4) : s \in Slots}
  \cup {Msg("synchronization", CONSENSUS_SYNCHRONIZATION, 4, s, 4) : s \in {1, NUM_CONS_SLOTS}}
  \cup {Msg("synchronization", CONSENSUS_SYNCHRONIZATION, 1, s, 7) : s \in {1, NUM_CONS_SLOTS}}

AllMessages == DiscoveryMsgs \cup ElectionMsgs \cup ConnectionMsgs \cup ConsensusMsgs
=============================================================================
