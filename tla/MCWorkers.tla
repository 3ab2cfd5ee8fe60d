----------------------------- MODULE MCWorkers -----------------------------
(***************************************************************************)
(* The work of a job for TLC: StagingWorkers as Step 3 meets it and as     *)
(* Step 5 does.  They share nothing: a behaviour is about one of them, the *)
(* view.                                                                   *)
(***************************************************************************)
EXTENDS MCStagingWorkers

CONSTANTS r3, t3   \* Step 5

(* Step 5 meets every kind of row, and rows routed to two gateways, all of *)
(* them or all but one.                                                    *)
ScaleKinds == (r1 :> "call") @@ (r2 :> "unscaled") @@ (r3 :> "incomplete")
Spread == (r1 :> k1) @@ (r2 :> k2) @@ (r3 :> k1)
Routed == {Spread, [Spread EXCEPT ![r2] = Blocked]}

VARIABLES
    view,  \* the part the behaviour is about, besides those of StagingWorkers
    step5Arrived, step5Answered, step5Present, step5Serving, step5Ahead,
    step5Status, step5Built, step5Part, step5Cancelled, step5Touched,
    step5Unrecorded

Step5 == INSTANCE StagingWorkers WITH
    arrived <- step5Arrived, answered <- step5Answered,
    present <- step5Present, serving <- step5Serving, ahead <- step5Ahead,
    status <- step5Status, built <- step5Built, part <- step5Part,
    cancelled <- step5Cancelled, touched <- step5Touched,
    unrecorded <- step5Unrecorded, Keys <- {k1, k2}, Tasks <- {t3},
    Rows <- {r1, r2, r3}, RowKind <- ScaleKinds, Machines <- {m1, m2},
    MachineOf <- (k1 :> m1) @@ (k2 :> m2), Plans <- Routed,
    Marks <- EveryMark

Views == {"step3", "step5"}

step5Vars ==
    <<step5Arrived, step5Answered, step5Present, step5Serving, step5Ahead,
      step5Status, step5Built, step5Part, step5Cancelled, step5Touched,
      step5Unrecorded>>
allVars == <<view, vars, step5Vars>>

(* A part that the behaviour is not about has no state, or stays as it is   *)
(* at first.                                                                *)
Unused == "unused"
PartsInit ==
    /\ view \in Views
    /\ Init
    /\ IF view = "step5" THEN Step5!Init ELSE
              /\ step5Arrived = Unused /\ step5Answered = Unused
              /\ step5Present = Unused /\ step5Serving = Unused
              /\ step5Ahead = Unused /\ step5Status = Unused
              /\ step5Built = Unused /\ step5Part = Unused
              /\ step5Cancelled = Unused /\ step5Touched = Unused
              /\ step5Unrecorded = Unused

(* A step of a part: the others stay. *)
StepIn(component) ==
    /\ UNCHANGED view
    /\ IF component = "step3" THEN TRUE ELSE UNCHANGED vars
    /\ IF component = "step5" THEN TRUE ELSE UNCHANGED step5Vars

PartsNext ==
    \/ view = "step3" /\ StepIn("step3") /\ Next
    \/ view = "step5" /\ StepIn("step5") /\ Step5!Next

PartsSpec == PartsInit /\ [][PartsNext]_allVars

-----------------------------------------------------------------------------
(* The properties of the parts.                                            *)

(* The staging table and the summaries tell what was built: nothing built   *)
(* is forgotten, nothing is claimed that was not, and no row is uncounted.  *)
ScaleRecordsAreTrue == view = "step5" => Step5!TypeOK /\ Step5!RecordsAreTrue
=============================================================================
