------------------------------- MODULE MCGtsp -------------------------------
(* Three nodes whose clocks differ by less and by more than JUMP, three and four whose
   periods differ, and two that go through a whole round. *)
EXTENDS GtspNet, TLC

CONSTANT Motes

Sized(k, starts, junk, most, last) ==
  {[nodes |-> s, starts |-> starts, junk |-> junk, frames |-> most, phases |-> last] :
     s \in {r \in SUBSET Motes : Cardinality(r) = k}}

FineStarts == {[coarse |-> 0, fine |-> f] : f \in {0, 2, 7}}
CoarseStarts == {[coarse |-> c, fine |-> 0] : c \in {0, 1}}

FourNetworks ==
  Sized(3, FineStarts, {5}, 3, 2) \cup Sized(2, FineStarts, {5}, 6, 4)
    \cup Sized(3, CoarseStarts, {-2, 5}, 4, 1) \cup Sized(4, CoarseStarts, {5}, 4, 1)

(* The nodes vote on differences of the coarse counts, and only on whether they are 0 and
   equal to each other: to start with 0 and 1 exchanged negates the differences and changes
   nothing else, so that at most half of the nodes are started at 1. *)
FewAhead == 2 * Cardinality({n \in Nodes : clock[n].coarse = 1}) <= Cardinality(Nodes)

MCInit == Init /\ FewAhead

MCSpec == MCInit /\ [][Next]_vars

Interchangeable == Permutations(Motes)
=============================================================================
