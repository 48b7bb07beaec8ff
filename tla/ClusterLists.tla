---------------------------- MODULE ClusterLists ----------------------------
(***************************************************************************)
(* What a node promises about its place in the clusters: its role, the     *)
(* addresses in CHs_list and CBs_list, and the pools of their blocks.  The *)
(* rank of a neighbour only decides where its entry goes, so here an entry *)
(* may go anywhere.  The module CSyncNode implements this specification.   *)
(***************************************************************************)
EXTENDS CHBLists, SequencesExt

CONSTANT Addr

VARIABLES role, CHs, CBs, m_CH, m_CB

vars == <<role, CHs, CBs, m_CH, m_CB>>

(* role_t *)
CM == 0
CH == 1
CB == 2

Init == role = CH /\ CHs = <<>> /\ CBs = <<>> /\ m_CH = 0 /\ m_CB = 0

(* handle_lists has taken an entry into the list l: a full list has given up its
   tail with the tail's block, a list with room has taken a block of the pool. *)
Grown(l) == {InsertBefore(l, p, a) : p \in 1..(Len(l) + 1), a \in Addr}

Taken(l, used, num) ==
  IF Len(l) = NUM_CH_MAX
  THEN {[l |-> k, used |-> used] : k \in Grown(SubSeq(l, 1, Len(l) - 1))}
  ELSE IF used < num THEN {[l |-> k, used |-> used + 1] : k \in Grown(l)}
  ELSE {}

(* A head has declared itself: the first one makes the node a member. *)
HeadDeclared ==
  /\ \E t \in Taken(CHs, m_CH, NUM_CH_MAX) : CHs' = t.l /\ m_CH' = t.used
  /\ role' = IF CHs = <<>> THEN CM ELSE role
  /\ UNCHANGED <<CBs, m_CB>>

BridgeDeclared ==
  /\ role = CH
  /\ \E t \in Taken(CBs, m_CB, NUM_CB_MAX) : CBs' = t.l /\ m_CB' = t.used
  /\ UNCHANGED <<role, CHs, m_CH>>

(* list_init without memb_free: the blocks of the list stay in use. *)
ForgetHeads ==
  /\ CHs' = <<>>
  /\ UNCHANGED <<role, CBs, m_CH, m_CB>>

(* A head that hears a convergence it has not entered becomes a member.  It
   forgets its bridges, whose blocks stay in use, and may list the sender. *)
StepDown ==
  /\ role = CH /\ role' = CM
  /\ \/ CBs' = <<>> /\ m_CB' = m_CB
     \/ \E t \in Taken(<<>>, m_CB, NUM_CB_MAX) : CBs' = t.l /\ m_CB' = t.used
  /\ UNCHANGED <<CHs, m_CH>>

(* init_consensus_convergence: a head takes the heads behind its bridges for its
   CHs_list.  Both the list and the pool start from nothing. *)
Rebuild ==
  /\ role = CH
  /\ \E l \in BoundedSeq(Addr, NUM_CH_MAX) :
       /\ Len(l) <= Len(CBs)
       /\ \A i, j \in 1..Len(l) : i # j => l[i] # l[j]
       /\ CHs' = l /\ m_CH' = Len(l)
  /\ UNCHANGED <<role, CBs, m_CB>>

BecomeBridge ==
  /\ role = CM /\ Len(CHs) > 1 /\ role' = CB
  /\ UNCHANGED <<CHs, CBs, m_CH, m_CB>>

(* A node that joins a round under way does so as a member. *)
JoinAsMember ==
  /\ role' = CM
  /\ UNCHANGED <<CHs, CBs, m_CH, m_CB>>

Next == \/ HeadDeclared \/ BridgeDeclared \/ ForgetHeads \/ StepDown
        \/ Rebuild \/ BecomeBridge \/ JoinAsMember

Spec == Init /\ [][Next]_vars

-----------------------------------------------------------------------------
(* The lists hold addresses and the pools count blocks. *)
TypeOK ==
  /\ role \in {CM, CH, CB}
  /\ CHs \in Seq(Addr) /\ CBs \in Seq(Addr)
  /\ m_CH \in Nat /\ m_CB \in Nat

(* Every entry of a list has a block of its own: the list_init that drops a list
   without memb_free, the chopped tail and the pool that init_consensus_convergence
   initializes again never leave fewer blocks in use than there are entries, and
   never more than the pool has. *)
PoolsCoverLists ==
  /\ Len(CHs) <= m_CH /\ m_CH <= NUM_CH_MAX
  /\ Len(CBs) <= m_CB /\ m_CB <= NUM_CB_MAX

(* init_consensus_convergence always finds a block for the head behind a bridge:
   handle_lists keeps CBs_list, too, to NUM_CH_MAX entries, although its pool has
   more. *)
RebuildFits == Len(CBs) <= NUM_CH_MAX

(* The list of a bridge never gets shorter by being offered a head: the tail that
   handle_lists drops from a full list is always replaced.  It can only be
   dropped as a whole, by list_init. *)
BridgeKeepsHeads ==
  [][role = CB /\ role' = CB /\ CHs' # <<>> => Len(CHs') >= Len(CHs)]_vars
=============================================================================
