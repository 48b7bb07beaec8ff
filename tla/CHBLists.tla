------------------------------ MODULE CHBLists ------------------------------
(***************************************************************************)
(* The lists of cluster heads (CHs_list) and cluster bridges (CBs_list) a  *)
(* node keeps, and the memory pools (m_CH, m_CB) their blocks come from.   *)
(* A list is a sequence of entries ("struct CHB"), head first; a pool is   *)
(* the number of its blocks in use.  An entry has at least the fields addr *)
(* and degree; what else it carries is up to the module that uses it.      *)
(***************************************************************************)
EXTENDS Integers, Sequences

CONSTANTS
  NUM_CH_MAX,     \* blocks of m_CH, and the length handle_lists gives any list
  NUM_CB_MAX      \* blocks of m_CB

ASSUME ListAssumption == /\ NUM_CH_MAX \in Nat \ {0}
                         /\ NUM_CB_MAX \in Nat
                         /\ NUM_CH_MAX <= NUM_CB_MAX

(* A neighbour of larger degree, or of the same degree and a larger address. *)
Outranks(n, e) == n.degree > e.degree \/ (n.degree = e.degree /\ n.addr > e.addr)

(* Mutant of ScanStop: the scan looks at degrees only. *)
ScanStopDegreeOnly(l, n) == {i \in 1..Len(l) : l[i].addr = n.addr \/ n.degree > l[i].degree}

(* The entry at which the scan of handle_lists for n stops: the first that is
   n itself or that n outranks; one past the end when there is none. *)
ScanStop(l, n) == {i \in 1..Len(l) : l[i].addr = n.addr \/ Outranks(n, l[i])}

ScanPosition(l, n) ==
  IF ScanStop(l, n) = {} THEN Len(l) + 1
  ELSE CHOOSE i \in ScanStop(l, n) : \A j \in ScanStop(l, n) : i <= j

Addresses(l) == [i \in 1..Len(l) |-> l[i].addr]

(* list_push (position 1) or list_insert (after the entry before position). *)
InsertBefore(l, p, e) == SubSeq(l, 1, p - 1) \o <<e>> \o SubSeq(l, p, Len(l))

(* Mutant of ListAdd: the tail that makes room is chopped, its block not freed. *)
ListAddLeaking(l, used, num, n, e) ==
  LET p     == ScanPosition(l, n)
      known == p <= Len(l) /\ l[p].addr = n.addr
      chop  == Len(l) = NUM_CH_MAX /\ p <= Len(l)
      kept  == IF chop THEN SubSeq(l, 1, Len(l) - 1) ELSE l
  IN  IF known \/ (Len(l) >= NUM_CH_MAX /\ ~chop) THEN [ret |-> 1, l |-> l, used |-> used]
      ELSE IF used < num THEN [ret |-> 1, l |-> InsertBefore(kept, p, e), used |-> used + 1]
      ELSE [ret |-> 1, l |-> kept, used |-> used]

(* handle_lists on the list it has selected: l is the list, used the blocks in
   use of its pool of num blocks, n the neighbour and e its new entry.  The
   result is the return value with the new list and pool.  A full list gives
   up its tail, and the tail's block, to an entry that belongs before the end. *)
ListAdd(l, used, num, n, e) ==
  LET p      == ScanPosition(l, n)
      known  == p <= Len(l) /\ l[p].addr = n.addr
      chop   == Len(l) = NUM_CH_MAX /\ p <= Len(l)
      kept   == IF chop THEN SubSeq(l, 1, Len(l) - 1) ELSE l
      in_use == IF chop THEN used - 1 ELSE used
  IN  IF l = <<>> THEN IF used < num THEN [ret |-> 1, l |-> <<e>>, used |-> used + 1]
                       ELSE [ret |-> 0, l |-> l, used |-> used]
      ELSE IF known \/ (Len(l) >= NUM_CH_MAX /\ ~chop) THEN [ret |-> 1, l |-> l, used |-> used]
      ELSE IF in_use < num THEN [ret |-> 1, l |-> InsertBefore(kept, p, e), used |-> in_use + 1]
      ELSE [ret |-> 1, l |-> kept, used |-> in_use]
=============================================================================
