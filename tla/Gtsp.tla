-------------------------------- MODULE Gtsp --------------------------------
(***************************************************************************)
(* gtsp_update_rtimer: what a node makes of the clock differences it has   *)
(* measured.  A neighbour n of the list ns has                             *)
(*   here         n->state == my_state                                     *)
(*   coarse, fine coarse_diff and fine_diff: this clock minus that one     *)
(*   synced                                                                *)
(* The vote on the coarse count uses the iterator of the loop around it,   *)
(* so that the neighbour counted afterwards is NULL: junk is what is read  *)
(* there, and the neighbours behind are not looked at.  The rates, which   *)
(* are averaged along with the fine differences, are left out.             *)
(***************************************************************************)
EXTENDS Integers, Sequences, FiniteSets

CONSTANT JUMP        \* GTSP_JUMP_THRESHOLD

ASSUME JumpAssumption == JUMP \in Nat /\ JUMP > 0

Near(d) == -JUMP < d /\ d < JUMP

(* The division of C, towards zero. *)
Quotient(a, b) == IF a < 0 THEN -((-a) \div b) ELSE a \div b

-----------------------------------------------------------------------------
(* The coarse vote *)

InPhase(ns, k, zero) ==
  Cardinality({i \in 1..k : ns[i].here /\ (ns[i].coarse = 0) = zero})

(* The neighbours at which those counted so far are mostly out of step. *)
Outvoted(ns) == {k \in DOMAIN ns : ns[k].here /\ InPhase(ns, k, TRUE) < InPhase(ns, k, FALSE)}

FirstOf(S) == CHOOSE k \in S : \A j \in S : k <= j

LastOf(S) == CHOOSE k \in S : \A j \in S : j <= k

Votes(ns, d) == Cardinality({i \in DOMAIN ns : ns[i].coarse = d})

(* What a loop over 1..n adds up that skips the indices outside S. *)
SumOf(f, S, n) ==
  LET sum[k \in 0..n] == IF k = 0 THEN 0 ELSE sum[k - 1] + (IF k \in S THEN f[k] ELSE 0)
  IN  sum[n]

(* Mutant of CoarseOffset: the first difference met is taken. *)
CoarseOffsetFirst(ns) == IF Outvoted(ns) = {} THEN 0 ELSE ns[FirstOf(Outvoted(ns))].coarse

(* Mutant of CoarseOffset: the differences are added up. *)
CoarseOffsetSum(ns) == SumOf([i \in DOMAIN ns |-> ns[i].coarse], DOMAIN ns, Len(ns))

(* The neighbours whose difference no other has more often. *)
MostVoted(ns) == {k \in DOMAIN ns : \A j \in DOMAIN ns : Votes(ns, ns[j].coarse) <= Votes(ns, ns[k].coarse)}

(* coarse_synced_offset: the first of the most frequent differences, if it has more
   votes than there were neighbours in step when the vote was called. *)
CoarseOffset(ns) ==
  LET winner == ns[FirstOf(MostVoted(ns))].coarse
  IN  IF Outvoted(ns) # {} /\ Votes(ns, winner) > InPhase(ns, FirstOf(Outvoted(ns)), TRUE)
      THEN winner ELSE 0

-----------------------------------------------------------------------------
(* How far the first loop gets: to the neighbour at which the vote is called. *)
Reached(ns) == IF Outvoted(ns) = {} THEN Len(ns) ELSE FirstOf(Outvoted(ns))

Looked(ns) == {i \in 1..Reached(ns) : ns[i].here}

(* The fine differences that the first loop reads. *)
Read(ns, junk) == [i \in Looked(ns) |-> IF i \in Outvoted(ns) THEN junk ELSE ns[i].fine]

(* The first loop's verdict on the neighbours it has looked at. *)
Marked(ns) ==
  [i \in DOMAIN ns |-> IF i \in Looked(ns) \ Outvoted(ns)
                       THEN [ns[i] EXCEPT !.synced = Near(ns[i].fine)] ELSE ns[i]]

(* The mean of the differences near that of neighbour i, from i on. *)
Group(ns, i) ==
  LET near == {j \in DOMAIN ns : j = i \/ (j > i /\ Near(ns[i].fine - ns[j].fine))}
      sum  == SumOf([j \in DOMAIN ns |-> ns[j].fine], near, Len(ns))
  IN  [count |-> Cardinality(near), offset |-> Quotient(sum, Cardinality(near))]

(* In the discovery a node that is not in step with most of the neighbours looked
   at jumps to the last of the largest groups. *)
Jump(ns, count, offset) ==
  LET out  == {i \in DOMAIN ns : ~ns[i].synced /\ Group(ns, i).count >= count}
      most == {i \in out : \A j \in out : Group(ns, j).count <= Group(ns, i).count}
  IN  IF most = {} THEN offset ELSE Group(ns, LastOf(most)).offset

(* The neighbours found in step, what their differences add up to, and whether they
   are more than the others. *)
InStepWith(ns, junk) == {i \in Looked(ns) : Near(Read(ns, junk)[i])}
SumInStep(ns, junk) == SumOf(Read(ns, junk), InStepWith(ns, junk), Len(ns))
MostInStep(ns, junk) == 2 * Cardinality(InStepWith(ns, junk)) > Cardinality(Looked(ns))

(* Mutant of FineOffset: the node jumps in every phase. *)
FineOffsetAnyPhase(ns, discovery, junk) ==
  LET count == Cardinality(InStepWith(ns, junk))
      mean  == Quotient(SumInStep(ns, junk), count + 1)
  IN  IF MostInStep(ns, junk) THEN mean ELSE Jump(Marked(ns), count, mean)

(* Mutant of FineOffset: the sum is not divided. *)
FineOffsetSum(ns, discovery, junk) ==
  LET count == Cardinality(InStepWith(ns, junk))
      sum   == SumInStep(ns, junk)
  IN  IF MostInStep(ns, junk) \/ ~discovery THEN sum ELSE Jump(Marked(ns), count, sum)

(* fine_synced_offset: the mean of the near differences and 0, the node's own. *)
FineOffset(ns, discovery, junk) ==
  LET count == Cardinality(InStepWith(ns, junk))
      mean  == Quotient(SumInStep(ns, junk), count + 1)
  IN  IF MostInStep(ns, junk) \/ ~discovery THEN mean ELSE Jump(Marked(ns), count, mean)

(* Mutant of Corrected: the differences are left as they were measured. *)
CorrectedNot(ns, coarse, fine) ==
  [i \in DOMAIN ns |-> [ns[i] EXCEPT !.synced = Near(ns[i].fine - fine)]]

(* The last loop: the differences as they are after the adjustment. *)
Corrected(ns, coarse, fine) ==
  [i \in DOMAIN ns |-> [ns[i] EXCEPT !.coarse = @ - coarse, !.fine = @ - fine,
                                     !.synced = Near(ns[i].fine - fine)]]

(* [coarse, fine, ns]: how far the clock is set back, and the list afterwards. *)
gtsp_update_rtimer(ns, discovery, junk) ==
  LET c == CoarseOffset(ns)
      f == FineOffset(ns, discovery, junk)
  IN  [coarse |-> c, fine |-> f, ns |-> Corrected(ns, c, f)]
=============================================================================
