--------------------------- MODULE MCGatewayJobs ---------------------------
(***************************************************************************)
(* GatewayJobs for TLC.  Every task may send any of the Requests a         *)
(* configuration gives.                                                    *)
(***************************************************************************)
EXTENDS GatewayJobs

(* One row for each gateway. *)
OneRowEach == {[items |-> [k \in Keys |-> 1], blocked |-> 0]}

(* Two rows for each gateway and a blocked one, or a blocked one only. *)
RowsAndBlocked ==
    {[items |-> [k \in Keys |-> 2], blocked |-> 1],
     [items |-> [k \in Keys |-> 0], blocked |-> 1]}

OneOutcome == {<<1, 0, 0>>}
EveryOutcome == {<<1, 0, 0>>, <<0, 1, 0>>, <<0, 0, 1>>}

Symmetry == Permutations(Tasks)
=============================================================================
