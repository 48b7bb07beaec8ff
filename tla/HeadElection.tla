---------------------------- MODULE HeadElection ----------------------------
(***************************************************************************)
(* The CHs_list of a member during one ELECTION_DECLARATION: heads declare *)
(* themselves in any order and any number of times, and handle_lists puts  *)
(* each into the list.  A head's degree does not change meanwhile.  The    *)
(* entry of a head is its address and its degree.                          *)
(***************************************************************************)
EXTENDS CHBLists

CONSTANT Heads     \* the heads in reach, [addr, degree]

ASSUME HeadsAssumption ==
  /\ Heads \subseteq [addr : Nat, degree : Nat]
  /\ \A m, n \in Heads : m.addr = n.addr => m = n

VARIABLES handle_list,  \* CHs_list, as handle_lists names it
          handle_memb,  \* the blocks of m_CH in use
          declared      \* history: the heads heard so far

electionVars == <<handle_list, handle_memb, declared>>

ElectionInit == handle_list = <<>> /\ handle_memb = 0 /\ declared = {}

(* received_declaration_announcement of n in ELECTION_DECLARATION. *)
Declare(n) ==
  LET r == ListAdd(handle_list, handle_memb, NUM_CH_MAX, n, n)
  IN  /\ handle_list' = r.l /\ handle_memb' = r.used
      /\ declared' = declared \cup {n}

ElectionNext == \E n \in Heads : Declare(n)

ElectionSpec == ElectionInit /\ [][ElectionNext]_electionVars

-----------------------------------------------------------------------------
(* The list holds heads, with the degree they declared. *)
ElectionTypeOK == handle_list \in Seq(Heads) /\ handle_memb \in Nat /\ declared \subseteq Heads

(* Whatever the order of the declarations, a member keeps the best heads it has
   heard, at most NUM_CH_MAX, best first: a head that is not in the list was
   turned away or pushed out by a full list of better ones.  BecomeBridge and
   csync_trusted_synchronization rely on the first entries being the best. *)
KeepsBestHeads ==
  /\ \A i, j \in 1..Len(handle_list) : i < j => Outranks(handle_list[i], handle_list[j])
  /\ \A i \in 1..Len(handle_list) : handle_list[i] \in declared
  /\ \A n \in declared :
       \/ \E i \in 1..Len(handle_list) : handle_list[i] = n
       \/ Len(handle_list) = NUM_CH_MAX /\ \A i \in 1..Len(handle_list) : Outranks(handle_list[i], n)

(* handle_lists takes a block for every entry and returns that of every entry it
   drops: nothing of the pool is lost in the election. *)
PoolExact == handle_memb = Len(handle_list) /\ handle_memb <= NUM_CH_MAX
=============================================================================
