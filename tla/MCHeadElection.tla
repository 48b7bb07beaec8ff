--------------------------- MODULE MCHeadElection ---------------------------
(* Eight heads, twice as many as a list holds, with ties of the degree at either
   end of the ranking and in the middle. *)
EXTENDS HeadElection

EightHeads == {[addr |-> 1, degree |-> 4], [addr |-> 2, degree |-> 4],
               [addr |-> 3, degree |-> 2], [addr |-> 4, degree |-> 1],
               [addr |-> 5, degree |-> 1], [addr |-> 6, degree |-> 2],
               [addr |-> 7, degree |-> 3], [addr |-> 8, degree |-> 2]}
=============================================================================
