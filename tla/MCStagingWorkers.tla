------------------------- MODULE MCStagingWorkers -------------------------
(***************************************************************************)
(* StagingWorkers for TLC.                                                 *)
(***************************************************************************)
EXTENDS StagingWorkers, TLC

CONSTANTS r1, r2, k1, k2, m1, m2

AllCall == [r \in Rows |-> "call"]

OneMachine == [k \in Keys |-> m1]

(* All rows to one gateway. *)
AllToK1 == {[r \in Rows |-> k1]}

(* The same gateway by its id and, from another request, by its address.   *)
ByIdOrUrl == {[r \in Rows |-> k1], [r \in Rows |-> k2]}

NoMarks == {}
EveryMark == {"pending", "done", "skip"}

Symmetry == Permutations(Tasks)
=============================================================================
