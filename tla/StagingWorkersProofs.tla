------------------------ MODULE StagingWorkersProofs ------------------------
(***************************************************************************)
(* Theorems about StagingWorkers: type correctness, exclusive service, and *)
(* that no row is sent twice as long as requests agree where a row goes.   *)
(***************************************************************************)
EXTENDS StagingWorkers, FiniteSetTheorems, TLAPS

(* Whatever request it comes in, a row that is routed goes to one key. *)
RoutesAgree ==
    \A p, q \in Plans, r \in Rows :
        p[r] # Blocked /\ q[r] # Blocked => p[r] = q[r]

-----------------------------------------------------------------------------
(* Service is exclusive *)

ServiceInv ==
    /\ arrived \subseteq Tasks
    /\ present \in [Keys -> SUBSET Tasks]
    /\ serving \in [Keys -> SUBSET Tasks]
    /\ ahead \in [Keys -> [Tasks -> SUBSET Tasks]]
    /\ \A k \in Keys : present[k] \subseteq arrived /\ serving[k] \subseteq present[k]
    /\ \A k \in Keys : \A t \in serving[k] : ahead[k][t] = {}
    /\ \A k \in Keys : \A t, u \in present[k] :
          t # u => t \in ahead[k][u] \/ u \in ahead[k][t]

OneServed == \A k \in Keys : \A t, u \in serving[k] : t = u

LEMMA ServiceInvServesOne == ServiceInv => OneServed
BY DEF ServiceInv, OneServed

LEMMA ServiceInvInit == ServiceInit => ServiceInv
BY DEF ServiceInit, ServiceInv

LEMMA ArriveStep ==
    ASSUME ServiceInv, NEW t \in Tasks, NEW K \in SUBSET Keys, Arrive(t, K)
    PROVE  ServiceInv'
BY DEF ServiceInv, Arrive

LEMMA ServeStep ==
    ASSUME ServiceInv, NEW t \in Tasks, NEW k \in Keys, Serve(k, t)
    PROVE  ServiceInv'
BY DEF ServiceInv, Serve

LEMMA EndServiceStep ==
    ASSUME ServiceInv, NEW t \in Tasks, NEW k \in Keys, EndService(k, t)
    PROVE  ServiceInv'
BY DEF ServiceInv, EndService

LEMMA LeaveStep ==
    ASSUME ServiceInv, NEW t \in Tasks, NEW k \in Keys, Leave(k, t)
    PROVE  ServiceInv'
BY DEF ServiceInv, Leave

(* On each gateway the abstract service serves one task at a time: the     *)
(* promise GatewayQueue and GatewayJobs are held to.                       *)
THEOREM ServiceIsExclusive == ServiceSpec => []OneServed
<1>1. ServiceInv /\ [ServiceNext]_serviceVars => ServiceInv'
    <2> SUFFICES ASSUME ServiceInv, [ServiceNext]_serviceVars
                 PROVE  ServiceInv'
        OBVIOUS
    <2>1. CASE UNCHANGED serviceVars
        BY <2>1 DEF serviceVars, ServiceInv
    <2>2. CASE \E t \in Tasks : Answer(t)
        BY <2>2 DEF Answer, ServiceInv
    <2> QED
        BY <2>1, <2>2, ArriveStep, ServeStep, EndServiceStep, LeaveStep DEF ServiceNext
<1> QED
    BY <1>1, ServiceInvInit, ServiceInvServesOne, PTL DEF ServiceSpec

-----------------------------------------------------------------------------
(* What a part knows and holds *)

Excused == touched \cup unrecorded

(* The rows some request may send to key k. *)
RowsOf(k) == {r \in Rows : \E p \in Plans : p[r] = k}

InService == {"turn", "ready", "rows", "done", "skips"}
Fresh == {"none", "waiting", "turn", "ready"}

(* The part of task t on key k: its rows are routed there and were in the  *)
(* table; it works only while it is served; what it has sent is not        *)
(* pending except for the time until the write-back, and, if requests      *)
(* agree on routes, what it has yet to send still is.                      *)
PartOK(p, t, k) ==
    /\ p.items \cup p.todo \cup p.good \cup p.off \subseteq RowsOf(k)
    /\ \A r \in p.items \cup p.todo \cup p.good : status[r] # "absent"
    /\ p.at \in InService => t \in serving[k]
    /\ p.at \in Fresh => p.good = {}
    /\ \A r \in p.good :
          status[r] # "pending" \/ r \in Excused \/ p.at \in {"rows", "done"}
    /\ RoutesAgree /\ p.at \in {"ready", "rows"} =>
          \A r \in Left(p) : status[r] = "pending" \/ r \in Excused

PartsOK == \A t \in Tasks, k \in Keys : PartOK(part[t][k], t, k)

LEMMA RowsOfDisjoint ==
    ASSUME RoutesAgree, NEW j \in Keys, NEW k \in Keys, NEW r,
           r \in RowsOf(j), r \in RowsOf(k)
    PROVE  j = k
BY BlockedAssumption DEF RowsOf, RoutesAgree

LEMMA BecomesShape ==
    ASSUME TypeOK, NEW t \in Tasks, NEW k \in Keys, NEW p \in PartType, Becomes(t, k, p)
    PROVE  /\ part' \in [Tasks -> [Keys -> PartType]]
           /\ part'[t][k] = p
           /\ \A u \in Tasks, j \in Keys :
                 ~(u = t /\ j = k) => part'[u][j] = part[u][j]
BY DEF TypeOK, Becomes

LEMMA PartShape ==
    ASSUME NEW at \in Stages, NEW items \in SUBSET Rows
    PROVE  Part(at, items) \in PartType
BY DEF Part, PartType, NoReport, Report

LEMMA GoneShape ==
    ASSUME NEW p \in PartType, NEW at \in Stages
    PROVE  /\ Gone(p, at) \in PartType
           /\ Gone(p, at).at = at
           /\ Gone(p, at).good = p.good
           /\ Gone(p, at).items = {}
           /\ Gone(p, at).todo = {}
           /\ Gone(p, at).off = {}
BY DEF Gone, Part, PartType, NoReport, Report

ReportType == [total : Nat, success : Nat, fail : Nat, skip : Nat, rest : Nat]

LEMMA ReportsTyped ==
    ASSUME NEW p \in PartType
    PROVE  Failed(p) \in ReportType /\ Summary(p) \in ReportType
<1>1. \A S \in SUBSET Rows : Cardinality(S) \in Nat
    BY RowsAssumption, FS_Subset, FS_CardinalityType
<1>2. /\ p.items \in SUBSET Rows /\ p.good \in SUBSET Rows /\ p.bad \in SUBSET Rows
      /\ p.off \in SUBSET Rows /\ p.items \ p.todo \in SUBSET Rows
      /\ Left(p) \in SUBSET Rows
    BY DEF PartType, Left
<1> QED
    BY <1>1, <1>2 DEF Failed, Summary, Report, ReportType

(* The part that a worker's return leaves behind. *)
LEMMA ReturnsShape ==
    ASSUME TypeOK, NEW t \in Tasks, NEW k \in Keys, NEW report \in ReportType,
           Returns(t, k, report)
    PROVE  \E p \in PartType :
              /\ Becomes(t, k, p)
              /\ EndService(k, t)
              /\ p.at = "leaving"
              /\ p.items = part[t][k].items
              /\ p.good = part[t][k].good
              /\ p.todo = {}
              /\ p.off = {}
              /\ p.report = report
<1> DEFINE o == part[t][k]
           g == Gone(o, "leaving")
           p == [g EXCEPT !.items = o.items, !.report = report]
<1>1. o \in PartType
    BY DEF TypeOK
<1>2. g \in PartType /\ g.at = "leaving" /\ g.good = o.good /\ g.todo = {} /\ g.off = {}
    BY <1>1, GoneShape DEF Stages
<1>3. p \in PartType
    BY <1>1, <1>2 DEF PartType, ReportType
<1>4. /\ p.at = "leaving" /\ p.items = o.items /\ p.good = o.good
      /\ p.todo = {} /\ p.off = {} /\ p.report = report
    BY <1>2 DEF PartType
<1> QED
    BY <1>3, <1>4 DEF Returns

-----------------------------------------------------------------------------
(* One step of a worker *)

(* What a step of t's worker on k may do to what others rely on. *)
Frame(t, k) ==
    /\ \A r \in Rows :
          \/ status'[r] = status[r]
          \/ /\ status'[r] \in {"done", "skip"}
             /\ status[r] # "absent"
             /\ r \in part[t][k].good \cup part[t][k].off
             /\ part[t][k].at \in InService
    /\ Excused \subseteq Excused'
    /\ \A u \in Tasks, j \in Keys :
          u \in serving[j] /\ ~(u = t /\ j = k) => u \in serving'[j]

(* Only a row of the loop is newly sent. *)
Sends(t, k, p) ==
    \A r \in p.good : r \in part[t][k].good
                      \/ (part[t][k].at = "rows" /\ r \in Left(part[t][k]))

Move(t, k, p) ==
    /\ Becomes(t, k, p)
    /\ p.at # "lost"
    /\ Frame(t, k)
    /\ Sends(t, k, p)
    /\ PartOK(p, t, k)'

RestTyped ==
    /\ status' \in [Rows -> {"absent", "pending", "done", "skip", "deleted"}]
    /\ built' \in [Machines -> SUBSET Rows]
    /\ cancelled' \subseteq Tasks
    /\ touched' \subseteq Rows
    /\ unrecorded' \subseteq Rows
    /\ answered' \subseteq Tasks

LEMMA ReturnStep ==
    ASSUME TypeOK, NEW t \in Tasks, NEW k \in Keys,
           PartOK(part[t][k], t, k), NEW report \in ReportType,
           Returns(t, k, report),
           UNCHANGED <<built, cancelled, touched>>,
           unrecorded \subseteq unrecorded', unrecorded' \subseteq Rows,
           \/ status' = status
           \/ status' = Updated(part[t][k].off, "skip") /\ part[t][k].at \in InService,
           \/ part[t][k].at \in {"turn", "ready", "skips"}
           \/ part[t][k].good \subseteq unrecorded'
    PROVE  RestTyped /\ \E p \in PartType : Move(t, k, p)
<1> DEFINE o == part[t][k]
<1>1. o \in PartType
    BY DEF TypeOK
<1>2. PICK p \in PartType :
         /\ Becomes(t, k, p) /\ EndService(k, t)
         /\ p.at = "leaving" /\ p.items = o.items /\ p.good = o.good
         /\ p.todo = {} /\ p.off = {}
    BY ReturnsShape
<1>3. \A r \in Rows :
         \/ status'[r] = status[r]
         \/ /\ status'[r] = "skip" /\ r \in o.off /\ status[r] # "absent"
            /\ o.at \in InService
    BY DEF Updated, InTable, TypeOK
<1>4. status' \in [Rows -> {"absent", "pending", "done", "skip", "deleted"}]
    BY DEF Updated, TypeOK
<1>5. RestTyped
    BY <1>2, <1>4 DEF RestTyped, TypeOK, EndService
<1>6. Frame(t, k)
    BY <1>2, <1>3 DEF Frame, Excused, EndService, TypeOK
<1>7. Sends(t, k, p)
    BY <1>2 DEF Sends
<1>8. PartOK(p, t, k)'
    <2>1. p.items \cup p.good \subseteq Rows
        BY DEF PartType
    <2>2. \A r \in p.good : status[r] # "pending" \/ r \in Excused'
        BY <1>2 DEF PartOK, Excused, Fresh
    <2> QED
        BY <1>2, <1>3, <2>1, <2>2 DEF PartOK, Excused, InService, Fresh
<1> QED
    BY <1>2, <1>5, <1>6, <1>7, <1>8 DEF Move

(* A step that changes nothing but the part and, maybe, what is built. *)
LEMMA LocalStep ==
    ASSUME TypeOK, NEW t \in Tasks, NEW k \in Keys, NEW p \in PartType,
           Becomes(t, k, p),
           UNCHANGED <<serviceVars, status, cancelled, touched>>,
           unrecorded \subseteq unrecorded', unrecorded' \subseteq Rows,
           \/ built' = built
           \/ \E r \in Rows : Reaches(k, r),
           p.at # "lost", Sends(t, k, p), PartOK(p, t, k)'
    PROVE  RestTyped /\ \E q \in PartType : Move(t, k, q)
<1>1. built' \in [Machines -> SUBSET Rows]
    BY MachineAssumption DEF TypeOK, Reaches
<1>2. RestTyped
    BY <1>1 DEF RestTyped, TypeOK, serviceVars
<1>3. Frame(t, k)
    BY DEF Frame, Excused, serviceVars
<1> QED
    BY <1>2, <1>3 DEF Move

LEMMA WorkerStep ==
    ASSUME TypeOK, NEW t \in Tasks, NEW k \in Keys,
           PartOK(part[t][k], t, k), Worker(t, k)
    PROVE  RestTyped /\ \E p \in PartType : Move(t, k, p)
<1> DEFINE o == part[t][k]
           Goal == RestTyped /\ \E p \in PartType : Move(t, k, p)
<1>1. o \in PartType
    BY DEF TypeOK
<1>2. Summary(o) \in ReportType /\ Failed(o) \in ReportType
    BY <1>1, ReportsTyped
<1>3. UNCHANGED unrecorded => unrecorded \subseteq unrecorded' /\ unrecorded' \subseteq Rows
    BY DEF TypeOK
<1>4. CASE TakeTurn(t, k)
    <2>t. [o EXCEPT !.at = "turn"] \in PartType
        BY <1>1 DEF PartType, Stages
    <2>p. PICK p \in PartType : p = [o EXCEPT !.at = "turn"]
        BY <2>t, Zenon
    <2>1. p.at = "turn" /\ p.items = o.items /\ p.todo = o.todo
             /\ p.good = o.good /\ p.off = o.off /\ p.bad = o.bad
        BY <1>1, <2>p DEF PartType, Stages
    <2>2. Becomes(t, k, p) /\ Serve(k, t) /\ o.at = "waiting"
             /\ UNCHANGED <<status, built, cancelled, touched, unrecorded>>
        BY <2>p, <1>4 DEF TakeTurn, At
    <2>3. t \in serving'[k] /\ RestTyped /\ Frame(t, k)
        BY <2>2 DEF Serve, TypeOK, RestTyped, Frame, Excused
    <2>4. Sends(t, k, p)
        BY <2>1 DEF Sends
    <2>5. PartOK(p, t, k)'
        BY <2>1, <2>2, <2>3 DEF PartOK, Fresh, Excused
    <2> QED
        BY <2>1, <2>2, <2>3, <2>4, <2>5 DEF Move
<1>5. CASE GiveUp(t, k) \/ LeaveLine(t, k)
    <2>t. Gone(o, "over") \in PartType
        BY <1>1, GoneShape DEF Stages
    <2>p. PICK p \in PartType : p = Gone(o, "over")
        BY <2>t, Zenon
    <2>1. p.at = "over" /\ p.items = {} /\ p.todo = {}
             /\ p.good = o.good /\ p.off = {}
        BY <1>1, <2>p, GoneShape DEF Stages
    <2>2. Becomes(t, k, p) /\ Leave(k, t) /\ o.at \in {"waiting", "leaving"}
             /\ UNCHANGED <<status, built, cancelled, touched, unrecorded>>
        BY <2>p, <1>5 DEF GiveUp, LeaveLine, At
    <2>3. RestTyped /\ Frame(t, k)
        BY <2>2 DEF Leave, TypeOK, RestTyped, Frame, Excused
    <2>4. Sends(t, k, p)
        BY <2>1 DEF Sends
    <2>5. PartOK(p, t, k)'
        BY <2>1, <2>2 DEF PartOK, Fresh, InService, Excused
    <2> QED
        BY <2>1, <2>2, <2>3, <2>4, <2>5 DEF Move
<1>6. CASE Recheck(t, k)
    <2>t. [o EXCEPT !.at = "ready", !.todo = {r \in o.items : status[r] = "pending"}] \in PartType
        BY <1>1 DEF PartType, Stages
    <2>p. PICK p \in PartType : p = [o EXCEPT !.at = "ready", !.todo = {r \in o.items : status[r] = "pending"}]
        BY <2>t, Zenon
    <2>1. p.at = "ready" /\ p.items = o.items
             /\ p.todo = {r \in o.items : status[r] = "pending"}
             /\ p.good = o.good /\ p.off = o.off /\ p.bad = o.bad
        BY <1>1, <2>p DEF PartType, Stages
    <2>2. Becomes(t, k, p) /\ o.at = "turn"
             /\ UNCHANGED <<serviceVars, status, built, cancelled, touched, unrecorded>>
        BY <2>p, <1>6 DEF Recheck, At
    <2>3. Sends(t, k, p)
        BY <2>1 DEF Sends
    <2>4. PartOK(p, t, k)'
        BY <2>1, <2>2 DEF PartOK, Fresh, InService, Excused, Left, serviceVars
    <2> QED
        BY <1>3, <2>1, <2>2, <2>3, <2>4, LocalStep
<1>7. CASE RecheckFails(t, k)
    BY <1>2, <1>3, <1>7, ReturnStep DEF RecheckFails, At
<1>8. CASE ReturnEarly(t, k)
    BY <1>2, <1>3, <1>8, ReturnStep DEF ReturnEarly, At
<1>9. CASE LoginFails(t, k)
    <2> DEFINE p == [o EXCEPT !.bad = @ \cup o.todo]
    <2>1. p \in PartType
        BY <1>1 DEF PartType
    <2>2. Summary(p) \in ReportType
        BY <2>1, ReportsTyped
    <2> QED
        BY <1>3, <1>9, <2>2, ReturnStep DEF LoginFails, LogsIn, At
<1>10. CASE Login(t, k)
    <2>t. [o EXCEPT !.at = "rows"] \in PartType
        BY <1>1 DEF PartType, Stages
    <2>p. PICK p \in PartType : p = [o EXCEPT !.at = "rows"]
        BY <2>t, Zenon
    <2>1. p.at = "rows" /\ p.items = o.items /\ p.todo = o.todo
             /\ p.good = o.good /\ p.off = o.off /\ p.bad = o.bad
        BY <1>1, <2>p DEF PartType, Stages
    <2>2. Becomes(t, k, p) /\ o.at = "ready"
             /\ UNCHANGED <<serviceVars, status, built, cancelled, touched, unrecorded>>
        BY <2>p, <1>10 DEF Login, LogsIn, At
    <2>3. Sends(t, k, p)
        BY <2>1 DEF Sends
    <2>4. PartOK(p, t, k)'
        BY <2>1, <2>2 DEF PartOK, Fresh, InService, Excused, Left, serviceVars
    <2> QED
        BY <1>3, <2>1, <2>2, <2>3, <2>4, LocalStep
<1>11. ASSUME NEW r \in Rows, RowWithoutCall(t, k, r) \/ CallFails(t, k, r) \/ CallTimesOut(t, k, r)
       PROVE  Goal
    <2>1. o.at = "rows" /\ r \in Left(o)
        BY <1>11 DEF RowWithoutCall, CallFails, CallTimesOut, NextRow, At
    <2>t. (IF RowWithoutCall(t, k, r) /\ RowKind[r] = "unscaled"
                THEN [o EXCEPT !.off = @ \cup {r}] ELSE [o EXCEPT !.bad = @ \cup {r}]) \in PartType
        BY <1>1, <2>1 DEF PartType, Left
    <2>p. PICK p \in PartType : p = (IF RowWithoutCall(t, k, r) /\ RowKind[r] = "unscaled"
                THEN [o EXCEPT !.off = @ \cup {r}] ELSE [o EXCEPT !.bad = @ \cup {r}])
        BY <2>t, Zenon
    <2>2. p.at = "rows" /\ p.items = o.items /\ p.todo = o.todo
             /\ p.good = o.good /\ p.off \subseteq o.off \cup {r} /\ Left(p) \subseteq Left(o)
        BY <1>1, <2>p, <2>1 DEF PartType, Left
    <2>3. Becomes(t, k, p)
        BY <2>p, <1>11 DEF RowWithoutCall, CallFails, CallTimesOut
    <2>4. /\ UNCHANGED <<serviceVars, status, cancelled, touched>>
          /\ built' = built \/ Reaches(k, r)
          /\ unrecorded \subseteq unrecorded' /\ unrecorded' \subseteq Rows
        BY <1>11 DEF RowWithoutCall, CallFails, CallTimesOut, TypeOK
    <2>5. Sends(t, k, p)
        BY <2>2 DEF Sends
    <2>6. r \in RowsOf(k)
        BY <2>1 DEF PartOK, Left
    <2>7. PartOK(p, t, k)'
        BY <2>1, <2>2, <2>4, <2>6 DEF PartOK, Fresh, InService, Excused, serviceVars
    <2> QED
        BY <2>2, <2>3, <2>4, <2>5, <2>7, LocalStep
<1>12. ASSUME NEW r \in Rows, CallSucceeds(t, k, r)
       PROVE  Goal
    <2>1. o.at = "rows" /\ r \in Left(o)
        BY <1>12 DEF CallSucceeds, NextRow, At
    <2>t. [o EXCEPT !.good = @ \cup {r}] \in PartType
        BY <1>1, <2>1 DEF PartType, Left
    <2>p. PICK p \in PartType : p = [o EXCEPT !.good = @ \cup {r}]
        BY <2>t, Zenon
    <2>2. p.at = "rows" /\ p.items = o.items /\ p.todo = o.todo
             /\ p.good = o.good \cup {r} /\ p.off = o.off /\ Left(p) \subseteq Left(o)
        BY <1>1, <2>p, <2>1 DEF PartType, Left
    <2>3. /\ Becomes(t, k, p) /\ Reaches(k, r)
          /\ UNCHANGED <<serviceVars, status, cancelled, touched, unrecorded>>
        BY <2>p, <1>12 DEF CallSucceeds
    <2>4. Sends(t, k, p)
        BY <2>1, <2>2 DEF Sends
    <2>5. r \in RowsOf(k) /\ status[r] # "absent"
        BY <2>1 DEF PartOK, Left
    <2>6. PartOK(p, t, k)'
        BY <2>1, <2>2, <2>3, <2>5 DEF PartOK, Fresh, InService, Excused, serviceVars
    <2> QED
        BY <1>3, <2>2, <2>3, <2>4, <2>6, LocalStep
<1>13. CASE LoopEnds(t, k) \/ LoopRaises(t, k)
    <2>t. (IF LoopEnds(t, k) THEN [o EXCEPT !.at = "done"]
                ELSE [o EXCEPT !.at = "done", !.raised = TRUE]) \in PartType
        BY <1>1 DEF PartType, Stages
    <2>p. PICK p \in PartType : p = (IF LoopEnds(t, k) THEN [o EXCEPT !.at = "done"]
                ELSE [o EXCEPT !.at = "done", !.raised = TRUE])
        BY <2>t, Zenon
    <2>1. p.at = "done" /\ p.items = o.items /\ p.todo = o.todo
             /\ p.good = o.good /\ p.off = o.off
        BY <1>1, <2>p DEF PartType, Stages
    <2>2. Becomes(t, k, p) /\ o.at = "rows"
             /\ UNCHANGED <<serviceVars, status, built, cancelled, touched, unrecorded>>
        BY <2>p, <1>13 DEF LoopEnds, LoopRaises, At
    <2>3. Sends(t, k, p)
        BY <2>1 DEF Sends
    <2>4. PartOK(p, t, k)'
        BY <2>1, <2>2 DEF PartOK, Fresh, InService, Excused, serviceVars
    <2> QED
        BY <1>3, <2>1, <2>2, <2>3, <2>4, LocalStep
<1>14. CASE WriteDone(t, k)
    <2>t. [o EXCEPT !.at = "skips"] \in PartType
        BY <1>1 DEF PartType, Stages
    <2>p. PICK p \in PartType : p = [o EXCEPT !.at = "skips"]
        BY <2>t, Zenon
    <2>1. p.at = "skips" /\ p.items = o.items /\ p.todo = o.todo
             /\ p.good = o.good /\ p.off = o.off
        BY <1>1, <2>p DEF PartType, Stages
    <2>2. Becomes(t, k, p) /\ o.at = "done" /\ status' = Updated(o.good, "done")
             /\ UNCHANGED <<serviceVars, built, cancelled, touched, unrecorded>>
        BY <2>p, <1>14 DEF WriteDone, At
    <2>3. \A r \in Rows :
             status'[r] = IF r \in o.good /\ InTable(r) THEN "done" ELSE status[r]
        BY <2>2 DEF Updated
    <2>4. RestTyped
        BY <2>2 DEF RestTyped, Updated, TypeOK, serviceVars
    <2>5. Frame(t, k)
        BY <2>2, <2>3 DEF Frame, Excused, InTable, InService, serviceVars
    <2>6. Sends(t, k, p)
        BY <2>1 DEF Sends
    <2>7. p.items \cup p.todo \cup p.good \subseteq Rows
        BY <2>1 DEF PartType
    <2>8. PartOK(p, t, k)'
        BY <2>1, <2>2, <2>3, <2>7 DEF PartOK, Fresh, InService, InTable, Excused, serviceVars
    <2> QED
        BY <2>1, <2>2, <2>4, <2>5, <2>6, <2>8 DEF Move
<1>15. CASE WriteSkips(t, k)
    BY <1>2, <1>3, <1>15, ReturnStep DEF WriteSkips, At, InService
<1>16. CASE WriteFails(t, k)
    <2>1. o.good \in SUBSET Rows
        BY <1>1 DEF PartType
    <2> QED
        BY <1>2, <1>3, <1>16, <2>1, ReturnStep DEF WriteFails, At, TypeOK
<1> QED
    BY <1>4, <1>5, <1>6, <1>7, <1>8, <1>9, <1>10, <1>11, <1>12, <1>13, <1>14,
       <1>15, <1>16 DEF Worker
-----------------------------------------------------------------------------
(* What a step of one worker means for the others *)

LEMMA OthersOK ==
    ASSUME OneServed, TypeOK, PartsOK, NEW t \in Tasks, NEW k \in Keys, Frame(t, k),
           NEW u \in Tasks, NEW j \in Keys, ~(u = t /\ j = k),
           part'[u][j] = part[u][j]
    PROVE  PartOK(part[u][j], u, j)'
<1>1. PartOK(part[u][j], u, j) /\ PartOK(part[t][k], t, k)
    BY DEF PartsOK
<1>2. part[u][j] \in PartType /\ part[t][k] \in PartType
    BY DEF TypeOK
<1>3. /\ part[u][j].items \subseteq Rows /\ part[u][j].todo \subseteq Rows
      /\ part[u][j].good \subseteq Rows /\ part[u][j].off \subseteq Rows
    BY <1>2 DEF PartType
<1>4. \A r \in Rows : status'[r] = status[r] \/ status'[r] \in {"done", "skip"}
    BY DEF Frame
<1>5. part[u][j].at \in InService => u \in serving'[j]
    BY <1>1 DEF PartOK, Frame
<1>6. ASSUME RoutesAgree, part[u][j].at \in {"ready", "rows"}, NEW r \in Left(part[u][j])
      PROVE  status'[r] = "pending" \/ r \in Excused'
    <2>1. r \in Rows /\ r \in RowsOf(j)
        BY <1>1, <1>3, <1>6 DEF PartOK, Left
    <2>2. status[r] = "pending" \/ r \in Excused
        BY <1>1, <1>6 DEF PartOK
    <2>3. CASE status'[r] = status[r]
        BY <2>2, <2>3 DEF Frame
    <2>4. CASE r \in part[t][k].good \cup part[t][k].off /\ part[t][k].at \in InService
        <3>1. r \in RowsOf(k) /\ t \in serving[k]
            BY <1>1, <2>4 DEF PartOK
        <3>2. u \in serving[j]
            BY <1>1, <1>6 DEF PartOK, InService
        <3>3. j = k
            BY <1>6, <2>1, <3>1, RowsOfDisjoint
        <3> QED
            BY <3>1, <3>2, <3>3 DEF OneServed
    <2> QED
        BY <2>1, <2>3, <2>4 DEF Frame
<1>7. \A r \in part[u][j].good :
         status'[r] # "pending" \/ r \in Excused' \/ part[u][j].at \in {"rows", "done"}
    BY <1>1, <1>3, <1>4 DEF PartOK, Frame
<1>8. \A r \in part[u][j].items \cup part[u][j].todo \cup part[u][j].good : status'[r] # "absent"
    BY <1>1, <1>3, <1>4 DEF PartOK
<1> QED
    BY <1>1, <1>5, <1>6, <1>7, <1>8 DEF PartOK, RowsOf

(* The heart of the matter: what a worker newly sends, nobody else has. *)
LEMMA SendsOnce ==
    ASSUME RoutesAgree, OneServed, TypeOK, PartsOK, NEW t \in Tasks, NEW k \in Keys,
           part[t][k].at = "rows", NEW r \in Left(part[t][k]),
           NEW u \in Tasks, u # t, NEW j \in Keys, r \in part[u][j].good
    PROVE  r \in Excused
<1>1. PartOK(part[u][j], u, j) /\ PartOK(part[t][k], t, k)
    BY DEF PartsOK
<1>2. r \in RowsOf(k) /\ r \in RowsOf(j)
    BY <1>1 DEF PartOK, Left
<1>3. j = k
    BY <1>2, RowsOfDisjoint
<1>4. t \in serving[k]
    BY <1>1 DEF PartOK, InService
<1>5. CASE part[u][j].at \in {"rows", "done"}
    BY <1>1, <1>3, <1>4, <1>5 DEF PartOK, InService, OneServed
<1>6. CASE status[r] # "pending"
    BY <1>1, <1>6 DEF PartOK
<1> QED
    BY <1>1, <1>5, <1>6 DEF PartOK

LEMMA MoveSendsOnce ==
    ASSUME RoutesAgree, OneServed, TypeOK, PartsOK, NoRowSentTwice,
           NEW t \in Tasks, NEW k \in Keys, NEW p \in PartType, Move(t, k, p)
    PROVE  NoRowSentTwice'
<1>1. /\ part'[t][k] = p
      /\ \A u \in Tasks, j \in Keys : ~(u = t /\ j = k) => part'[u][j] = part[u][j]
    BY BecomesShape DEF Move
<1>2. Excused \subseteq Excused'
    BY DEF Move, Frame
<1>3. ASSUME NEW u \in Tasks, u # t, NEW j \in Keys
      PROVE  p.good \cap part[u][j].good \subseteq Excused
    <2> SUFFICES ASSUME NEW r \in p.good, r \in part[u][j].good
                 PROVE  r \in Excused
        OBVIOUS
    <2>1. CASE r \in part[t][k].good
        BY <1>3, <2>1 DEF NoRowSentTwice, Excused
    <2>2. CASE part[t][k].at = "rows" /\ r \in Left(part[t][k])
        BY <1>3, <2>2, SendsOnce
    <2> QED
        BY <2>1, <2>2 DEF Move, Sends
<1>4. SUFFICES ASSUME NEW u \in Tasks, NEW v \in Tasks, NEW i \in Keys, NEW j \in Keys, u # v
               PROVE  part'[u][i].good \cap part'[v][j].good \subseteq Excused'
    BY DEF NoRowSentTwice, Excused
<1>5. CASE u = t /\ i = k
    BY <1>1, <1>2, <1>3, <1>4, <1>5
<1>6. CASE v = t /\ j = k
    BY <1>1, <1>2, <1>3, <1>4, <1>6
<1>7. CASE ~(u = t /\ i = k) /\ ~(v = t /\ j = k)
    BY <1>1, <1>2, <1>4, <1>7 DEF NoRowSentTwice, Excused
<1> QED
    BY <1>5, <1>6, <1>7
-----------------------------------------------------------------------------
(* The steps of operators, requests and restarts *)

Present == answered \subseteq arrived /\ \A k \in Keys : present[k] \subseteq Alive

StagingInv ==
    /\ TypeOK
    /\ ServiceInv
    /\ Present
    /\ PartsOK
    /\ RoutesAgree => NoRowSentTwice

LEMMA StagingInvInit == Init => StagingInv
<1> SUFFICES ASSUME Init PROVE StagingInv
    OBVIOUS
<1>1. Part("none", {}) \in PartType
    BY PartShape DEF Stages
<1>2. TypeOK
    BY <1>1 DEF Init, ServiceInit, TypeOK
<1>3. /\ Part("none", {}).items = {} /\ Part("none", {}).todo = {}
      /\ Part("none", {}).good = {} /\ Part("none", {}).off = {}
      /\ Part("none", {}).at = "none"
    BY DEF Part
<1>4. \A t \in Tasks, k \in Keys : part[t][k] = Part("none", {})
    BY DEF Init
<1>5. PartsOK
    BY <1>3, <1>4 DEF PartsOK, PartOK, InService, Fresh
<1>6. NoRowSentTwice
    BY <1>3, <1>4 DEF NoRowSentTwice
<1>7. ServiceInv /\ Present
    BY ServiceInvInit DEF Init, ServiceInit, Present
<1> QED
    BY <1>2, <1>5, <1>6, <1>7 DEF StagingInv

LEMMA WorkerService ==
    ASSUME ServiceInv, NEW t \in Tasks, NEW k \in Keys, Worker(t, k)
    PROVE  /\ ServiceInv'
           /\ arrived' = arrived /\ answered' = answered
           /\ \A j \in Keys : present'[j] \subseteq present[j]
<1>1. \/ Serve(k, t) \/ EndService(k, t) \/ Leave(k, t) \/ UNCHANGED serviceVars
    BY DEF Worker, TakeTurn, GiveUp, Recheck, RecheckFails, ReturnEarly, Login,
           LoginFails, RowWithoutCall, CallSucceeds, CallFails, CallTimesOut,
           LoopEnds, LoopRaises, WriteDone, WriteSkips, WriteFails, LeaveLine, Returns
<1>2. CASE UNCHANGED serviceVars
    BY <1>2 DEF serviceVars, ServiceInv
<1>3. CASE Serve(k, t)
    BY <1>3, ServeStep DEF Serve
<1>4. CASE EndService(k, t)
    BY <1>4, EndServiceStep DEF EndService
<1>5. CASE Leave(k, t)
    BY <1>5, LeaveStep DEF Leave, ServiceInv
<1> QED
    BY <1>1, <1>2, <1>3, <1>4, <1>5

LEMMA WorkerKeepsInv ==
    ASSUME StagingInv, NEW t \in Tasks, NEW k \in Keys, Worker(t, k)
    PROVE  StagingInv'
<1> USE DEF StagingInv
<1>1. RestTyped /\ \E p \in PartType : Move(t, k, p)
    BY WorkerStep DEF PartsOK
<1>2. PICK p \in PartType : Move(t, k, p)
    BY <1>1
<1>3. /\ ServiceInv' /\ arrived' = arrived /\ answered' = answered
      /\ \A j \in Keys : present'[j] \subseteq present[j]
    BY WorkerService
<1>4. /\ part' \in [Tasks -> [Keys -> PartType]]
      /\ part'[t][k] = p
      /\ \A u \in Tasks, j \in Keys : ~(u = t /\ j = k) => part'[u][j] = part[u][j]
    BY <1>2, BecomesShape DEF Move
<1>5. TypeOK'
    BY <1>1, <1>3, <1>4 DEF TypeOK, RestTyped, ServiceInv
<1>6. Present'
    <2>1. Alive \subseteq Alive'
        BY <1>2, <1>3, <1>4 DEF Alive, At, Move, TypeOK
    <2> QED
        BY <1>3, <2>1 DEF Present
<1>7. PartsOK'
    <2> SUFFICES ASSUME NEW u \in Tasks, NEW j \in Keys
                 PROVE  PartOK(part[u][j], u, j)'
        BY DEF PartsOK
    <2>1. CASE u = t /\ j = k
        BY <1>2, <1>4, <2>1 DEF Move, PartOK
    <2>2. CASE ~(u = t /\ j = k)
        BY <1>2, <1>4, <2>2, ServiceInvServesOne, OthersOK DEF Move
    <2> QED
        BY <2>1, <2>2
<1>8. RoutesAgree => NoRowSentTwice'
    BY <1>2, ServiceInvServesOne, MoveSendsOnce
<1> QED
    BY <1>3, <1>5, <1>6, <1>7, <1>8

(* An operator gives one row a status: its first, or one the row remembers. *)
LEMMA OperatorStep ==
    ASSUME TypeOK, NEW r \in Rows,
           Import(r) \/ Delete(r) \/ \E s \in Marks : Mark(r, s)
    PROVE  /\ UNCHANGED <<serviceVars, built, part, cancelled, unrecorded>>
           /\ touched \subseteq touched' /\ touched' \subseteq touched \cup {r}
           /\ \E v \in {"pending", "done", "skip", "deleted"} :
                 /\ status' = [status EXCEPT ![r] = v]
                 /\ r \in touched' \/ (status[r] = "absent" /\ v = "pending")
<1>1. CASE Import(r)
    BY <1>1 DEF Import
<1>2. CASE Delete(r)
    BY <1>2 DEF Delete
<1>3. ASSUME NEW s \in Marks, Mark(r, s)
      PROVE  /\ UNCHANGED <<serviceVars, built, part, cancelled, unrecorded>>
             /\ touched \subseteq touched' /\ touched' \subseteq touched \cup {r}
             /\ r \in touched' /\ status' = [status EXCEPT ![r] = s]
             /\ s \in {"pending", "done", "skip", "deleted"}
    BY <1>3, MarksAssumption DEF Mark
<1> QED
    BY <1>1, <1>2, <1>3

LEMMA OperatorKeepsInv ==
    ASSUME StagingInv, NEW r \in Rows,
           Import(r) \/ Delete(r) \/ \E s \in Marks : Mark(r, s)
    PROVE  StagingInv'
<1> USE DEF StagingInv
<1>1. /\ UNCHANGED <<serviceVars, built, part, cancelled, unrecorded>>
      /\ touched \subseteq touched' /\ touched' \subseteq touched \cup {r}
      /\ status' \in [Rows -> {"absent", "pending", "done", "skip", "deleted"}]
      /\ \A x \in Rows : \/ status'[x] = status[x]
                         \/ x = r /\ status[x] = "absent"
                         \/ x = r /\ r \in touched' /\ status'[x] # "absent"
    <2>1. PICK v \in {"pending", "done", "skip", "deleted"} :
             /\ status' = [status EXCEPT ![r] = v]
             /\ r \in touched' \/ (status[r] = "absent" /\ v = "pending")
        BY OperatorStep
    <2>2. status \in [Rows -> {"absent", "pending", "done", "skip", "deleted"}]
        BY DEF TypeOK
    <2>3. status' \in [Rows -> {"absent", "pending", "done", "skip", "deleted"}]
        BY <2>1, <2>2
    <2> QED
        BY <2>1, <2>2, <2>3, OperatorStep
<1>2. TypeOK'
    BY <1>1 DEF TypeOK, serviceVars
<1>3. ServiceInv' /\ Present'
    BY <1>1 DEF serviceVars, ServiceInv, Present, Alive, At
<1>4. PartsOK'
    <2> SUFFICES ASSUME NEW u \in Tasks, NEW j \in Keys
                 PROVE  PartOK(part[u][j], u, j)'
        BY DEF PartsOK
    <2>1. PartOK(part[u][j], u, j) /\ part[u][j] \in PartType
        BY DEF PartsOK, TypeOK
    <2>2. part'[u][j] = part[u][j] /\ serving' = serving /\ Excused \subseteq Excused'
        BY <1>1 DEF serviceVars, Excused
    <2>3. /\ part[u][j].items \subseteq Rows /\ part[u][j].todo \subseteq Rows
          /\ part[u][j].good \subseteq Rows /\ Left(part[u][j]) \subseteq part[u][j].todo
        BY <2>1 DEF PartType, Left
    <2>4. \A x \in part[u][j].items \cup part[u][j].todo \cup part[u][j].good :
             /\ status'[x] # "absent"
             /\ status'[x] = status[x] \/ x \in Excused'
        BY <1>1, <2>1, <2>3 DEF PartOK, Excused
    <2> QED
        BY <2>1, <2>2, <2>3, <2>4 DEF PartOK, RowsOf
<1>5. RoutesAgree => NoRowSentTwice'
    BY <1>1 DEF NoRowSentTwice
<1> QED
    BY <1>2, <1>3, <1>4, <1>5

LEMMA SubmitKeepsInv ==
    ASSUME StagingInv, NEW t \in Tasks, NEW ids \in SUBSET Rows, NEW plan \in Plans,
           Submit(t, ids, plan)
    PROVE  StagingInv'
<1> USE DEF StagingInv
<1> DEFINE picked == {r \in ids : status[r] = "pending"}
           Group(k) == {r \in picked : plan[r] = k}
           K == {k \in Keys : Group(k) # {}}
           new(k) == Part(IF k \in K THEN "waiting" ELSE "none", Group(k))
<1>1. /\ Arrive(t, K)
      /\ part' = [part EXCEPT ![t] = [k \in Keys |-> new(k)]]
      /\ UNCHANGED <<status, built, cancelled, touched, unrecorded>>
    BY DEF Submit
<1>2. \A k \in Keys : /\ new(k) \in PartType /\ new(k).at \in {"waiting", "none"}
                       /\ new(k).items = Group(k) /\ new(k).todo = {}
                       /\ new(k).good = {} /\ new(k).off = {}
    BY PartShape DEF Part, Stages
<1>3. /\ part' \in [Tasks -> [Keys -> PartType]]
      /\ \A k \in Keys : part'[t][k] = new(k)
      /\ \A u \in Tasks, k \in Keys : u # t => part'[u][k] = part[u][k]
    <2> HIDE DEF new
    <2> QED
        BY <1>1, <1>2 DEF TypeOK
<1> HIDE DEF new
<1>4. ServiceInv'
    BY <1>1, ArriveStep
<1>5. TypeOK'
    BY <1>1, <1>3, <1>4 DEF TypeOK, ServiceInv, Arrive
<1>6. Present'
    <2>1. t \in Alive' /\ Alive \subseteq Alive'
        BY <1>1, <1>2, <1>3 DEF Arrive, Alive, At, Present
    <2> QED
        BY <1>1, <2>1 DEF Present, Arrive, ServiceInv
<1>7. PartsOK'
    <2> SUFFICES ASSUME NEW u \in Tasks, NEW j \in Keys
                 PROVE  PartOK(part[u][j], u, j)'
        BY DEF PartsOK
    <2>1. CASE u = t
        <3>1. Group(j) \subseteq RowsOf(j) /\ \A r \in Group(j) : status[r] = "pending"
            BY DEF RowsOf
        <3> HIDE DEF Group
        <3> QED
            BY <1>1, <1>2, <1>3, <2>1, <3>1 DEF PartOK, InService, Fresh, RowsOf
    <2>2. CASE u # t
        BY <1>1, <1>3, <2>2 DEF PartsOK, PartOK, Excused, Arrive, RowsOf
    <2> QED
        BY <2>1, <2>2
<1>8. ASSUME RoutesAgree PROVE NoRowSentTwice'
    <2>1. \A u \in Tasks, k \in Keys : part'[u][k].good \subseteq part[u][k].good
        BY <1>2, <1>3
    <2> QED
        BY <1>1, <1>8, <2>1 DEF NoRowSentTwice
<1> QED
    BY <1>4, <1>5, <1>6, <1>7, <1>8

LEMMA RestartKeepsInv ==
    ASSUME StagingInv, Restart
    PROVE  StagingInv'
<1> USE DEF StagingInv
<1>1. ServiceInv' /\ Present'
    BY DEF Restart, ServiceInv, Present
<1>2. ASSUME NEW u \in Tasks, NEW j \in Keys
      PROVE  /\ part'[u][j] \in PartType
             /\ part'[u][j].good = part[u][j].good
             /\ \/ part'[u][j] = Gone(part[u][j], "lost")
                \/ part'[u][j] = part[u][j] /\ (u \notin Alive \/ part[u][j].at = "none")
    <2>1. part[u][j] \in PartType
        BY DEF TypeOK
    <2>2. part'[u][j] = IF u \in Alive /\ ~At(u, j, "none") THEN Gone(part[u][j], "lost")
                        ELSE part[u][j]
        BY DEF Restart
    <2> QED
        BY <2>1, <2>2, GoneShape DEF At, Stages
<1>3. \A u \in Tasks, j \in Keys : Unwritten(part[u][j]) \subseteq unrecorded'
    BY DEF Restart
<1>4. unrecorded \subseteq unrecorded' /\ unrecorded' \subseteq Rows
    <2>1. \A u \in Tasks, j \in Keys : Unwritten(part[u][j]) \subseteq Rows
        BY DEF TypeOK, PartType, Unwritten
    <2> QED
        BY <2>1 DEF Restart, TypeOK
<1>5. TypeOK'
    <2>1. part' \in [Tasks -> [Keys -> PartType]]
        BY <1>2 DEF Restart
    <2> QED
        BY <1>1, <1>4, <2>1 DEF TypeOK, ServiceInv, Restart
<1>6. PartsOK'
    <2> SUFFICES ASSUME NEW u \in Tasks, NEW j \in Keys
                 PROVE  PartOK(part[u][j], u, j)'
        BY DEF PartsOK
    <2>1. PartOK(part[u][j], u, j) /\ part[u][j] \in PartType
        BY DEF PartsOK, TypeOK
    <2>2. status' = status /\ touched' = touched /\ Excused \subseteq Excused'
        BY <1>4 DEF Restart, Excused
    <2>3. CASE part'[u][j] = Gone(part[u][j], "lost")
        <3>1. /\ part'[u][j].at = "lost" /\ part'[u][j].items = {}
              /\ part'[u][j].todo = {} /\ part'[u][j].off = {}
              /\ part'[u][j].good = part[u][j].good
            BY <2>1, <2>3, GoneShape DEF Stages
        <3>2. \A r \in part[u][j].good : status[r] # "pending" \/ r \in Excused'
            BY <1>3, <2>1, <2>2 DEF PartOK, Unwritten, Excused
        <3> QED
            BY <2>1, <2>2, <3>1, <3>2 DEF PartOK, InService, Fresh, RowsOf
    <2>4. CASE part'[u][j] = part[u][j] /\ (u \notin Alive \/ part[u][j].at = "none")
        <3>1. part[u][j].at \notin InService
            BY <2>1, <2>4 DEF PartOK, Present, ServiceInv, InService
        <3> QED
            BY <2>1, <2>2, <2>4, <3>1 DEF PartOK, InService, RowsOf
    <2> QED
        BY <1>2, <2>3, <2>4
<1>7. RoutesAgree => NoRowSentTwice'
    BY <1>2, <1>4 DEF NoRowSentTwice, Restart
<1> QED
    BY <1>1, <1>5, <1>6, <1>7

LEMMA StagingInvStep == StagingInv /\ [Next]_vars => StagingInv'
<1> SUFFICES ASSUME StagingInv, [Next]_vars
             PROVE  StagingInv'
    OBVIOUS
<1>1. ASSUME NEW t \in Tasks, Cancel(t) \/ Complete(t)
      PROVE  StagingInv'
    <2>1. /\ UNCHANGED <<arrived, present, ahead, serving, status, built, part, touched, unrecorded>>
          /\ cancelled' \subseteq Tasks /\ answered' \subseteq arrived
          /\ answered' = answered \/ (answered' = answered \cup {t} /\ \A k \in Keys : t \notin present[k])
        BY <1>1 DEF Cancel, Complete, Answer, Alive, StagingInv, TypeOK, Present,
                    serviceVars, stagingVars
    <2>2. TypeOK' /\ ServiceInv'
        BY <2>1 DEF StagingInv, TypeOK, ServiceInv
    <2>3. Present'
        BY <2>1 DEF StagingInv, Present, Alive, At
    <2>4. PartsOK' /\ (RoutesAgree => NoRowSentTwice')
        BY <2>1 DEF StagingInv, PartsOK, PartOK, Excused, RowsOf, NoRowSentTwice
    <2> QED
        BY <2>2, <2>3, <2>4 DEF StagingInv
<1>2. CASE UNCHANGED vars
    <2>1. UNCHANGED <<arrived, present, ahead, serving, answered,
                      status, built, part, cancelled, touched, unrecorded>>
        BY <1>2 DEF vars, serviceVars, stagingVars
    <2> QED
        BY <2>1 DEF StagingInv, TypeOK, ServiceInv, Present, Alive, At, PartsOK, PartOK,
                    Excused, RowsOf, NoRowSentTwice
<1> QED
    BY <1>1, <1>2, OperatorKeepsInv, SubmitKeepsInv, WorkerKeepsInv, RestartKeepsInv DEF Next

-----------------------------------------------------------------------------
(* The table, the workers and the lines keep their types, whatever the     *)
(* rows, gateways and routing decisions.                                   *)
THEOREM StagingTypeCorrect == Spec => []TypeOK
<1>1. StagingInv => TypeOK
    BY DEF StagingInv
<1> QED
    BY <1>1, StagingInvInit, StagingInvStep, PTL DEF Spec

(* As long as requests agree on the key a row is routed to, no row is sent *)
(* with success by two tasks, unless an operator reset it or the record of *)
(* the first was lost: the second look at the status, taken at the turn,   *)
(* and exclusive service are enough (main.py:1568-1575).                   *)
THEOREM NoRowIsSentTwice == RoutesAgree => (Spec => []NoRowSentTwice)
<1> SUFFICES ASSUME RoutesAgree
             PROVE  Spec => []NoRowSentTwice
    OBVIOUS
<1>1. StagingInv => NoRowSentTwice
    BY DEF StagingInv
<1> QED
    BY <1>1, StagingInvInit, StagingInvStep, PTL DEF Spec

-----------------------------------------------------------------------------
(* The records are true *)

(* How the rows of a part were sorted by its worker. *)
Sorted(p) ==
    /\ p.good \cup p.bad \cup p.off \subseteq p.todo
    /\ p.good \cap p.bad = {}
    /\ p.good \cap p.off = {}
    /\ p.bad \cap p.off = {}

AddsUp(report, items) ==
    /\ report.total = Cardinality(items)
    /\ report.total = report.success + report.fail + report.skip + report.rest

(* What the part of a task on key k says of its rows is so. *)
Truthful(p, k) ==
    /\ p.good \subseteq built[MachineOf[k]]
    /\ \A r \in p.off : RowKind[r] = "unscaled"
    /\ p.todo \subseteq p.items
    /\ p.at \in Fresh => p.good = {} /\ p.bad = {} /\ p.off = {}
    /\ p.at \in {"ready", "rows", "done", "skips"} => Sorted(p)
    /\ p.at = "leaving" => AddsUp(p.report, p.items)

(* A row that some gateway has was in the table.                           *)
RecordsInv ==
    /\ \A t \in Tasks, k \in Keys : Truthful(part[t][k], k)
    /\ \A r \in Rows, m \in Machines : r \in built[m] => status[r] # "absent"
    /\ BuiltRowsRecorded
    /\ StatusIsTrue

LEMMA CardinalityOfParts ==
    ASSUME NEW S \in SUBSET Rows, NEW T \in SUBSET S
    PROVE  /\ Cardinality(S) \in Nat /\ Cardinality(T) \in Nat /\ Cardinality(S \ T) \in Nat
           /\ Cardinality(S) = Cardinality(T) + Cardinality(S \ T)
<1>1. IsFiniteSet(S) /\ IsFiniteSet(T) /\ IsFiniteSet(S \ T)
    BY RowsAssumption, FS_Subset
<1>2. Cardinality(S) \in Nat /\ Cardinality(T) \in Nat /\ Cardinality(S \ T) \in Nat
    BY <1>1, FS_CardinalityType
<1>3. /\ Cardinality(T \cup (S \ T))
           = Cardinality(T) + Cardinality(S \ T) - Cardinality(T \cap (S \ T))
    BY <1>1, FS_Union
<1>4. T \cup (S \ T) = S /\ T \cap (S \ T) = {}
    OBVIOUS
<1>5. Cardinality(S) = Cardinality(T) + Cardinality(S \ T) - Cardinality({})
    BY <1>3, <1>4, Zenon
<1> QED
    BY <1>2, <1>5, FS_EmptySet

(* The summary of a part whose rows are sorted accounts for each of them.  *)
LEMMA SummaryAddsUp ==
    ASSUME NEW p \in PartType, p.todo \subseteq p.items, Sorted(p)
    PROVE  AddsUp(Summary(p), p.items)
<1> DEFINE i == p.items
           d == p.todo
           g == p.good
           b == p.bad
           f == p.off
           l == d \ (g \cup b \cup f)
<1>1. i \in SUBSET Rows /\ d \in SUBSET i /\ g \in SUBSET d /\ b \in SUBSET d /\ f \in SUBSET d
      /\ g \cap b = {} /\ g \cap f = {} /\ b \cap f = {}
    BY DEF PartType, Sorted
<1>2. Summary(p) = Report(Cardinality(i), Cardinality(g), Cardinality(b),
                          Cardinality(i \ d) + Cardinality(f), Cardinality(l))
    BY DEF Summary, Left
<1> HIDE DEF i, d, g, b, f
<1>3. /\ Cardinality(i) = Cardinality(d) + Cardinality(i \ d)
      /\ Cardinality(i) \in Nat /\ Cardinality(d) \in Nat /\ Cardinality(i \ d) \in Nat
    BY <1>1, CardinalityOfParts
<1>4. /\ Cardinality(d) = Cardinality(g) + Cardinality(d \ g)
      /\ Cardinality(g) \in Nat /\ Cardinality(d \ g) \in Nat
    BY <1>1, CardinalityOfParts
<1>5. /\ Cardinality(d \ g) = Cardinality(b) + Cardinality((d \ g) \ b)
      /\ Cardinality(b) \in Nat /\ Cardinality((d \ g) \ b) \in Nat
    <2>1. d \ g \in SUBSET Rows /\ b \in SUBSET (d \ g)
        BY <1>1
    <2> QED
        BY <2>1, CardinalityOfParts
<1>6. /\ Cardinality((d \ g) \ b) = Cardinality(f) + Cardinality(((d \ g) \ b) \ f)
      /\ Cardinality(f) \in Nat /\ Cardinality(((d \ g) \ b) \ f) \in Nat
    <2>1. (d \ g) \ b \in SUBSET Rows /\ f \in SUBSET ((d \ g) \ b)
        BY <1>1
    <2> QED
        BY <2>1, CardinalityOfParts
<1>7. Cardinality(((d \ g) \ b) \ f) = Cardinality(l)
    <2>1. ((d \ g) \ b) \ f = l
        OBVIOUS
    <2> QED
        BY <2>1, Zenon
<1> DEFINE x == Cardinality(i \ d)
           y == Cardinality(g)
           z == Cardinality(b)
           v == Cardinality(f)
           w == Cardinality(l)
<1>8. /\ x \in Nat /\ y \in Nat /\ z \in Nat /\ v \in Nat /\ w \in Nat
      /\ Cardinality(i) = y + z + (x + v) + w
    BY <1>3, <1>4, <1>5, <1>6, <1>7
<1>9. Summary(p).total = Cardinality(i) /\ Summary(p).success = y /\ Summary(p).fail = z
      /\ Summary(p).skip = x + v /\ Summary(p).rest = w
    BY <1>2 DEF Report
<1> QED
    BY <1>8, <1>9 DEF AddsUp, i

LEMMA FailedAddsUp ==
    ASSUME NEW p \in PartType
    PROVE  AddsUp(Failed(p), p.items)
<1>1. Cardinality(p.items) \in Nat
    BY RowsAssumption, FS_Subset, FS_CardinalityType DEF PartType
<1> QED
    BY <1>1 DEF AddsUp, Failed, Report

(* What a step of t's worker on k, which leaves its part as p, does to the *)
(* records.                                                                *)
Recorded(t, k, p) ==
    /\ Becomes(t, k, p)
    /\ Truthful(p, k)'
    /\ touched' = touched
    /\ unrecorded \subseteq unrecorded'
    /\ \A m \in Machines : built[m] \subseteq built'[m]
    /\ \A m \in Machines : \A r \in built'[m] \ built[m] :
          status[r] # "absent" /\ r \in Unwritten(p) \cup unrecorded'
    /\ \A r \in Unwritten(part[t][k]) :
          r \in Unwritten(p) \cup unrecorded' \/ status'[r] # "pending"
    /\ \A r \in Rows :
          \/ status'[r] = status[r]
          \/ /\ status[r] # "absent"
             /\ \/ status'[r] = "done" /\ r \in part[t][k].good
                \/ status'[r] = "skip" /\ RowKind[r] = "unscaled"

LEMMA RecordedKeepsRecords ==
    ASSUME TypeOK, RecordsInv, NEW t \in Tasks, NEW k \in Keys, NEW p \in PartType,
           Recorded(t, k, p)
    PROVE  RecordsInv'
<1> USE DEF RecordsInv
<1>1. /\ part'[t][k] = p
      /\ \A u \in Tasks, j \in Keys : ~(u = t /\ j = k) => part'[u][j] = part[u][j]
    BY BecomesShape DEF Recorded
<1>2. \A m \in Machines : built[m] \subseteq built'[m]
    BY DEF Recorded
<1>3. \A u \in Tasks, j \in Keys : Truthful(part[u][j], j)'
    <2> SUFFICES ASSUME NEW u \in Tasks, NEW j \in Keys
                 PROVE  Truthful(part[u][j], j)'
        OBVIOUS
    <2>1. CASE u = t /\ j = k
        BY <1>1, <2>1 DEF Recorded, Truthful
    <2>2. CASE ~(u = t /\ j = k)
        <3>1. part'[u][j] = part[u][j] /\ Truthful(part[u][j], j) /\ MachineOf[j] \in Machines
            BY <1>1, <2>2, MachineAssumption
        <3> QED
            BY <1>2, <3>1 DEF Truthful
    <2> QED
        BY <2>1, <2>2
<1>4. \A r \in Rows, m \in Machines : r \in built'[m] => status'[r] # "absent"
    BY DEF Recorded
<1>5. BuiltRowsRecorded'
    <2> SUFFICES ASSUME NEW r \in Rows, NEW m \in Machines,
                        r \in built'[m], status'[r] = "pending",
                        r \notin touched' \cup unrecorded'
                 PROVE  \E u \in Tasks, j \in Keys : r \in Unwritten(part'[u][j])
        BY DEF BuiltRowsRecorded, Unwritten
    <2>1. CASE r \notin built[m]
        BY <1>1, <2>1 DEF Recorded
    <2>2. CASE r \in built[m]
        <3>1. status[r] = "pending" /\ r \notin touched \cup unrecorded
            BY DEF Recorded
        <3>2. PICK u \in Tasks, j \in Keys : r \in Unwritten(part[u][j])
            BY <2>2, <3>1 DEF BuiltRowsRecorded
        <3>3. CASE u = t /\ j = k
            BY <1>1, <3>2, <3>3 DEF Recorded
        <3>4. CASE ~(u = t /\ j = k)
            BY <1>1, <3>2, <3>4
        <3> QED
            BY <3>3, <3>4
    <2> QED
        BY <2>1, <2>2
<1>6. StatusIsTrue'
    <2> SUFFICES ASSUME NEW r \in Rows
                 PROVE  /\ status'[r] = "done" => (r \in touched' \/ \E m \in Machines : r \in built'[m])
                        /\ status'[r] = "skip" => (r \in touched' \/ RowKind[r] = "unscaled")
        BY DEF StatusIsTrue
    <2>1. \A x \in part[t][k].good : x \in built[MachineOf[k]] /\ MachineOf[k] \in Machines
        BY MachineAssumption DEF Truthful
    <2>2. CASE status'[r] = status[r]
        BY <1>2, <2>2 DEF StatusIsTrue, Recorded
    <2>3. CASE status'[r] = "done" /\ r \in part[t][k].good
        BY <1>2, <2>1, <2>3
    <2>4. CASE status'[r] = "skip" /\ RowKind[r] = "unscaled"
        BY <2>4
    <2> QED
        BY <2>2, <2>3, <2>4 DEF Recorded
<1> QED
    BY <1>3, <1>4, <1>5, <1>6

-----------------------------------------------------------------------------
(* What the steps of a worker record *)

LEMMA ReturnRecorded ==
    ASSUME TypeOK, NEW t \in Tasks, NEW k \in Keys, Truthful(part[t][k], k),
           NEW report \in ReportType, AddsUp(report, part[t][k].items),
           Returns(t, k, report),
           UNCHANGED <<built, touched>>, unrecorded \subseteq unrecorded',
           Unwritten(part[t][k]) \subseteq unrecorded',
           status' = status \/ status' = Updated(part[t][k].off, "skip")
    PROVE  \E p \in PartType : Recorded(t, k, p)
<1> DEFINE o == part[t][k]
<1>1. PICK p \in PartType :
         /\ Becomes(t, k, p) /\ p.at = "leaving" /\ p.items = o.items /\ p.good = o.good
         /\ p.todo = {} /\ p.off = {} /\ p.report = report
    BY ReturnsShape
<1>2. \A r \in Rows :
         \/ status'[r] = status[r]
         \/ status[r] # "absent" /\ status'[r] = "skip" /\ RowKind[r] = "unscaled"
    BY DEF Updated, InTable, Truthful, TypeOK
<1>3. Truthful(p, k)'
    BY <1>1 DEF Truthful, Fresh
<1> QED
    BY <1>1, <1>2, <1>3 DEF Recorded

(* A step that neither calls nor writes keeps the successes of the part.   *)
LEMMA QuietRecorded ==
    ASSUME TypeOK, NEW t \in Tasks, NEW k \in Keys, NEW p \in PartType,
           Becomes(t, k, p), UNCHANGED <<status, built, touched, unrecorded>>,
           Truthful(p, k), Unwritten(part[t][k]) \subseteq Unwritten(p)
    PROVE  Recorded(t, k, p)
BY DEF Recorded, Truthful

(* A call with effect: the row is in good, or its success is lost.         *)
LEMMA ReachRecorded ==
    ASSUME TypeOK, NEW t \in Tasks, NEW k \in Keys, NEW p \in PartType, NEW r \in Rows,
           Becomes(t, k, p), UNCHANGED <<status, touched>>, Reaches(k, r),
           unrecorded \subseteq unrecorded',
           status[r] # "absent", r \in Unwritten(p) \cup unrecorded',
           Truthful(p, k)', Unwritten(part[t][k]) \subseteq Unwritten(p)
    PROVE  Recorded(t, k, p)
<1>1. MachineOf[k] \in Machines
    BY MachineAssumption
<1>2. \A m \in Machines :
         built'[m] = IF m = MachineOf[k] THEN built[m] \cup {r} ELSE built[m]
    BY <1>1 DEF Reaches, TypeOK
<1> QED
    BY <1>2 DEF Recorded

LEMMA WorkerRecords ==
    ASSUME TypeOK, NEW t \in Tasks, NEW k \in Keys, Truthful(part[t][k], k),
           PartOK(part[t][k], t, k), Worker(t, k)
    PROVE  \E p \in PartType : Recorded(t, k, p)
<1> DEFINE o == part[t][k]
           Goal == \E p \in PartType : Recorded(t, k, p)
<1>1. o \in PartType
    BY DEF TypeOK
<1>2. /\ Summary(o) \in ReportType /\ Failed(o) \in ReportType
      /\ AddsUp(Failed(o), o.items)
      /\ Sorted(o) => AddsUp(Summary(o), o.items)
    BY <1>1, ReportsTyped, FailedAddsUp, SummaryAddsUp DEF Truthful
<1>3. o.at \in Fresh => Sorted(o)
    BY DEF Truthful, Sorted
<1>4. CASE TakeTurn(t, k) \/ Login(t, k)
    <2> DEFINE at == IF TakeTurn(t, k) THEN "turn" ELSE "rows"
    <2>t. [o EXCEPT !.at = at] \in PartType
        BY <1>1 DEF PartType, Stages
    <2>p. PICK p \in PartType : p = [o EXCEPT !.at = at]
        BY <2>t, Zenon
    <2>1. p.at \in {"turn", "rows"} /\ p.items = o.items /\ p.todo = o.todo
             /\ p.good = o.good /\ p.off = o.off /\ p.bad = o.bad
        BY <1>1, <2>p DEF PartType
    <2>2. /\ Becomes(t, k, p) /\ o.at \in Fresh
          /\ UNCHANGED <<status, built, touched, unrecorded>>
        BY <2>p, <1>4 DEF TakeTurn, Login, LogsIn, At, Fresh
    <2>3. Truthful(p, k)
        BY <1>3, <2>1, <2>2 DEF Truthful, Sorted
    <2>4. Unwritten(o) = {}
        BY <2>2 DEF Unwritten, Fresh
    <2> QED
        BY <2>2, <2>3, <2>4, QuietRecorded
<1>5. CASE GiveUp(t, k) \/ LeaveLine(t, k)
    <2>t. Gone(o, "over") \in PartType
        BY <1>1, GoneShape DEF Stages
    <2>p. PICK p \in PartType : p = Gone(o, "over")
        BY <2>t, Zenon
    <2>1. p.at = "over" /\ p.todo = {} /\ p.good = o.good /\ p.off = {}
        BY <1>1, <2>p, GoneShape DEF Stages
    <2>2. /\ Becomes(t, k, p) /\ o.at \in {"waiting", "leaving"}
          /\ UNCHANGED <<status, built, touched, unrecorded>>
        BY <2>p, <1>5 DEF GiveUp, LeaveLine, At
    <2>3. Truthful(p, k)
        BY <2>1 DEF Truthful, Fresh
    <2>4. Unwritten(o) = {}
        BY <2>2 DEF Unwritten
    <2> QED
        BY <2>2, <2>3, <2>4, QuietRecorded
<1>6. CASE Recheck(t, k)
    <2> DEFINE d == {r \in o.items : status[r] = "pending"}
    <2>t. [o EXCEPT !.at = "ready", !.todo = d] \in PartType
        BY <1>1 DEF PartType, Stages
    <2>p. PICK p \in PartType : p = [o EXCEPT !.at = "ready", !.todo = d]
        BY <2>t, Zenon
    <2>1. p.at = "ready" /\ p.items = o.items /\ p.todo = d
             /\ p.good = o.good /\ p.off = o.off /\ p.bad = o.bad
        BY <1>1, <2>p DEF PartType
    <2>2. /\ Becomes(t, k, p) /\ o.at = "turn"
          /\ UNCHANGED <<status, built, touched, unrecorded>>
        BY <2>p, <1>6 DEF Recheck, At
    <2>3. Truthful(p, k)
        BY <2>1, <2>2 DEF Truthful, Sorted, Fresh
    <2>4. Unwritten(o) = {}
        BY <2>2 DEF Unwritten
    <2> QED
        BY <2>2, <2>3, <2>4, QuietRecorded
<1>7. CASE RecheckFails(t, k)
    BY <1>2, <1>7, ReturnRecorded DEF RecheckFails, At, Unwritten
<1>8. CASE ReturnEarly(t, k)
    BY <1>2, <1>3, <1>8, ReturnRecorded DEF ReturnEarly, At, Unwritten, Fresh
<1>9. CASE LoginFails(t, k)
    <2>1. o.at = "ready" /\ UNCHANGED <<status, built, touched, unrecorded>>
        BY <1>9 DEF LoginFails, LogsIn, At
    <2>t. [o EXCEPT !.bad = @ \cup o.todo] \in PartType
        BY <1>1 DEF PartType
    <2>p. PICK p \in PartType : p = [o EXCEPT !.bad = @ \cup o.todo]
        BY <2>t, Zenon
    <2>2. p.items = o.items /\ p.todo = o.todo /\ p.good = {} /\ p.off = {} /\ p.bad = o.todo
        BY <1>1, <2>p, <2>1 DEF PartType, Truthful, Fresh
    <2>3. Summary(p) \in ReportType /\ AddsUp(Summary(p), o.items)
        BY <2>2, ReportsTyped, SummaryAddsUp DEF Truthful, Sorted
    <2>4. Returns(t, k, Summary(p))
        BY <1>9, <2>p DEF LoginFails
    <2> QED
        BY <2>1, <2>3, <2>4, ReturnRecorded DEF Unwritten
<1>10. CASE LoopEnds(t, k) \/ LoopRaises(t, k)
    <2>t. (IF LoopEnds(t, k) THEN [o EXCEPT !.at = "done"]
                ELSE [o EXCEPT !.at = "done", !.raised = TRUE]) \in PartType
        BY <1>1 DEF PartType, Stages
    <2>p. PICK p \in PartType : p = (IF LoopEnds(t, k) THEN [o EXCEPT !.at = "done"]
                ELSE [o EXCEPT !.at = "done", !.raised = TRUE])
        BY <2>t, Zenon
    <2>1. p.at = "done" /\ p.items = o.items /\ p.todo = o.todo
             /\ p.good = o.good /\ p.off = o.off /\ p.bad = o.bad
        BY <1>1, <2>p DEF PartType
    <2>2. /\ Becomes(t, k, p) /\ o.at = "rows"
          /\ UNCHANGED <<status, built, touched, unrecorded>>
        BY <2>p, <1>10 DEF LoopEnds, LoopRaises, At
    <2>3. Truthful(p, k)
        BY <2>1, <2>2 DEF Truthful, Sorted, Fresh
    <2>4. Unwritten(o) \subseteq Unwritten(p)
        BY <2>1, <2>2 DEF Unwritten
    <2> QED
        BY <2>2, <2>3, <2>4, QuietRecorded
<1>11. ASSUME NEW r \in Rows, RowWithoutCall(t, k, r) \/ CallFails(t, k, r)
       PROVE  Goal
    <2>1. o.at = "rows" /\ r \in Left(o) /\ UNCHANGED <<status, built, touched, unrecorded>>
        BY <1>11 DEF RowWithoutCall, CallFails, NextRow, At
    <2> DEFINE skips == RowWithoutCall(t, k, r) /\ RowKind[r] = "unscaled"
    <2>t. (IF skips THEN [o EXCEPT !.off = @ \cup {r}] ELSE [o EXCEPT !.bad = @ \cup {r}]) \in PartType
        BY <1>1, <2>1 DEF PartType, Left
    <2>p. PICK p \in PartType :
             p = (IF skips THEN [o EXCEPT !.off = @ \cup {r}] ELSE [o EXCEPT !.bad = @ \cup {r}])
        BY <2>t, Zenon
    <2>2. /\ p.at = "rows" /\ p.items = o.items /\ p.todo = o.todo /\ p.good = o.good
          /\ \/ p.off = o.off /\ p.bad = o.bad \cup {r}
             \/ p.off = o.off \cup {r} /\ p.bad = o.bad /\ RowKind[r] = "unscaled"
        BY <1>1, <2>p, <2>1 DEF PartType
    <2>3. Becomes(t, k, p)
        BY <2>p, <1>11 DEF RowWithoutCall, CallFails
    <2>4. Sorted(p)
        BY <2>1, <2>2 DEF Truthful, Sorted, Left
    <2>5. Truthful(p, k) /\ Unwritten(o) \subseteq Unwritten(p)
        BY <2>1, <2>2, <2>4 DEF Truthful, Unwritten, Fresh
    <2> QED
        BY <2>1, <2>3, <2>5, QuietRecorded
<1>12. ASSUME NEW r \in Rows, CallSucceeds(t, k, r) \/ CallTimesOut(t, k, r)
       PROVE  Goal
    <2>1. /\ o.at = "rows" /\ r \in Left(o) /\ Reaches(k, r)
          /\ UNCHANGED <<status, touched>> /\ unrecorded \subseteq unrecorded'
        BY <1>12 DEF CallSucceeds, CallTimesOut, NextRow, At
    <2> DEFINE answers == CallSucceeds(t, k, r)
    <2>t. (IF answers THEN [o EXCEPT !.good = @ \cup {r}] ELSE [o EXCEPT !.bad = @ \cup {r}]) \in PartType
        BY <1>1, <2>1 DEF PartType, Left
    <2>p. PICK p \in PartType :
             p = (IF answers THEN [o EXCEPT !.good = @ \cup {r}] ELSE [o EXCEPT !.bad = @ \cup {r}])
        BY <2>t, Zenon
    <2>2. /\ p.at = "rows" /\ p.items = o.items /\ p.todo = o.todo /\ p.off = o.off
          /\ \/ p.good = o.good /\ p.bad = o.bad \cup {r} /\ r \in unrecorded'
             \/ p.good = o.good \cup {r} /\ p.bad = o.bad
        BY <1>1, <1>12, <2>p, <2>1 DEF PartType, CallTimesOut
    <2>3. Becomes(t, k, p)
        BY <2>p, <1>12 DEF CallSucceeds, CallTimesOut
    <2>4. Sorted(p)
        BY <2>1, <2>2 DEF Truthful, Sorted, Left
    <2>5. built'[MachineOf[k]] = built[MachineOf[k]] \cup {r}
        BY <2>1, MachineAssumption DEF Reaches, TypeOK
    <2>6. Truthful(p, k)'
        BY <2>1, <2>2, <2>4, <2>5 DEF Truthful, Fresh, Sorted
    <2>7. Unwritten(o) \subseteq Unwritten(p) /\ r \in Unwritten(p) \cup unrecorded'
        BY <2>1, <2>2 DEF Unwritten
    <2>8. status[r] # "absent"
        BY <2>1 DEF PartOK, Left
    <2> QED
        BY <2>1, <2>3, <2>6, <2>7, <2>8, ReachRecorded
<1>13. CASE WriteDone(t, k)
    <2>t. [o EXCEPT !.at = "skips"] \in PartType
        BY <1>1 DEF PartType, Stages
    <2>p. PICK p \in PartType : p = [o EXCEPT !.at = "skips"]
        BY <2>t, Zenon
    <2>1. p.at = "skips" /\ p.items = o.items /\ p.todo = o.todo
             /\ p.good = o.good /\ p.off = o.off /\ p.bad = o.bad
        BY <1>1, <2>p DEF PartType
    <2>2. /\ Becomes(t, k, p) /\ o.at = "done" /\ status' = Updated(o.good, "done")
          /\ UNCHANGED <<built, touched, unrecorded>>
        BY <2>p, <1>13 DEF WriteDone, At
    <2>3. o.good \subseteq Rows
        BY <1>1 DEF PartType
    <2>4. \A r \in Rows :
             status'[r] = IF r \in o.good /\ InTable(r) THEN "done" ELSE status[r]
        BY <2>2 DEF Updated
    <2>5. Truthful(p, k)'
        BY <2>1, <2>2 DEF Truthful, Sorted, Fresh
    <2>6. \A r \in Unwritten(o) : status'[r] # "pending"
        BY <2>3, <2>4 DEF Unwritten, InTable
    <2> QED
        BY <2>2, <2>4, <2>5, <2>6 DEF Recorded, InTable
<1>14. CASE WriteSkips(t, k)
    <2>1. o.at = "skips" /\ Sorted(o) /\ Unwritten(o) = {}
        BY <1>14 DEF WriteSkips, At, Truthful, Unwritten
    <2>2. CASE o.raised
        BY <1>2, <1>14, <2>1, <2>2, ReturnRecorded DEF WriteSkips
    <2>3. CASE ~o.raised
        BY <1>2, <1>14, <2>1, <2>3, ReturnRecorded DEF WriteSkips
    <2> QED
        BY <2>2, <2>3
<1>15. CASE WriteFails(t, k)
    BY <1>2, <1>15, ReturnRecorded DEF WriteFails, At, Unwritten
<1> QED
    BY <1>4, <1>5, <1>6, <1>7, <1>8, <1>9, <1>10, <1>11, <1>12, <1>13, <1>14, <1>15
       DEF Worker

-----------------------------------------------------------------------------
(* The records under the other steps *)

LEMMA RecordsInit == Init => RecordsInv
<1> SUFFICES ASSUME Init PROVE RecordsInv
    OBVIOUS
<1>1. \A t \in Tasks, k \in Keys : part[t][k] = Part("none", {})
    BY DEF Init
<1>2. /\ Part("none", {}).at = "none" /\ Part("none", {}).todo = {}
      /\ Part("none", {}).good = {} /\ Part("none", {}).bad = {} /\ Part("none", {}).off = {}
    BY DEF Part
<1>3. \A t \in Tasks, k \in Keys : Truthful(part[t][k], k)
    BY <1>1, <1>2 DEF Truthful, Fresh
<1> QED
    BY <1>3 DEF RecordsInv, BuiltRowsRecorded, StatusIsTrue, Init

LEMMA OperatorKeepsRecords ==
    ASSUME TypeOK, RecordsInv, NEW r \in Rows,
           Import(r) \/ Delete(r) \/ \E s \in Marks : Mark(r, s)
    PROVE  RecordsInv'
<1> USE DEF RecordsInv
<1>1. /\ UNCHANGED <<built, part, unrecorded>> /\ touched \subseteq touched'
      /\ \A x \in Rows :
            \/ status'[x] = status[x]
            \/ x = r /\ status[x] = "absent" /\ status'[x] = "pending"
            \/ x = r /\ r \in touched' /\ status'[x] \in {"pending", "done", "skip", "deleted"}
    <2>1. PICK v \in {"pending", "done", "skip", "deleted"} :
             /\ status' = [status EXCEPT ![r] = v]
             /\ r \in touched' \/ (status[r] = "absent" /\ v = "pending")
        BY OperatorStep
    <2>2. status \in [Rows -> {"absent", "pending", "done", "skip", "deleted"}]
        BY DEF TypeOK
    <2> QED
        BY <2>1, <2>2, OperatorStep
<1>2. \A t \in Tasks, k \in Keys : Truthful(part[t][k], k)'
    BY <1>1 DEF Truthful
<1>3. BuiltRowsRecorded'
    BY <1>1 DEF BuiltRowsRecorded
<1>4. StatusIsTrue'
    BY <1>1 DEF StatusIsTrue
<1> QED
    BY <1>1, <1>2, <1>3, <1>4

(* A task that has not arrived works nowhere. *)
LEMMA NotArrivedIsIdle ==
    ASSUME StagingInv, NEW t \in Tasks, t \notin arrived, NEW k \in Keys
    PROVE  Unwritten(part[t][k]) = {}
BY DEF StagingInv, ServiceInv, PartsOK, PartOK, InService, Unwritten

LEMMA SubmitKeepsRecords ==
    ASSUME StagingInv, RecordsInv, NEW t \in Tasks, NEW ids \in SUBSET Rows, NEW plan \in Plans,
           Submit(t, ids, plan)
    PROVE  RecordsInv'
<1> USE DEF RecordsInv
<1> DEFINE picked == {r \in ids : status[r] = "pending"}
           Group(k) == {r \in picked : plan[r] = k}
           K == {k \in Keys : Group(k) # {}}
           new(k) == Part(IF k \in K THEN "waiting" ELSE "none", Group(k))
<1>1. /\ Arrive(t, K)
      /\ part' = [part EXCEPT ![t] = [k \in Keys |-> new(k)]]
      /\ UNCHANGED <<status, built, touched, unrecorded>>
    BY DEF Submit
<1>2. \A k \in Keys : /\ new(k).at \in {"waiting", "none"} /\ new(k).todo = {}
                       /\ new(k).good = {} /\ new(k).bad = {} /\ new(k).off = {}
    BY DEF Part
<1> HIDE DEF new
<1>3. /\ \A k \in Keys : part'[t][k] = new(k)
      /\ \A u \in Tasks, k \in Keys : u # t => part'[u][k] = part[u][k]
    BY <1>1 DEF StagingInv, TypeOK
<1>4. \A u \in Tasks, k \in Keys : Truthful(part[u][k], k)'
    <2> SUFFICES ASSUME NEW u \in Tasks, NEW k \in Keys
                 PROVE  Truthful(part[u][k], k)'
        OBVIOUS
    <2>1. CASE u = t
        BY <1>2, <1>3, <2>1 DEF Truthful, Fresh
    <2>2. CASE u # t
        BY <1>1, <1>3, <2>2 DEF Truthful
    <2> QED
        BY <2>1, <2>2
<1>5. BuiltRowsRecorded'
    <2>1. \A k \in Keys : Unwritten(part[t][k]) = {}
        BY <1>1, NotArrivedIsIdle DEF Arrive
    <2> QED
        BY <1>1, <1>3, <2>1 DEF BuiltRowsRecorded
<1>6. StatusIsTrue'
    BY <1>1 DEF StatusIsTrue
<1> QED
    BY <1>1, <1>4, <1>5, <1>6

LEMMA RestartKeepsRecords ==
    ASSUME TypeOK, RecordsInv, Restart
    PROVE  RecordsInv'
<1> USE DEF RecordsInv
<1>1. /\ UNCHANGED <<status, built, touched>> /\ unrecorded \subseteq unrecorded'
      /\ \A u \in Tasks, j \in Keys : Unwritten(part[u][j]) \subseteq unrecorded'
    BY DEF Restart
<1>2. \A u \in Tasks, j \in Keys : Truthful(part[u][j], j)'
    <2> SUFFICES ASSUME NEW u \in Tasks, NEW j \in Keys
                 PROVE  Truthful(part[u][j], j)'
        OBVIOUS
    <2>1. part[u][j] \in PartType /\ Truthful(part[u][j], j)
        BY DEF TypeOK
    <2>2. part'[u][j] = Gone(part[u][j], "lost") \/ part'[u][j] = part[u][j]
        BY DEF Restart
    <2>3. CASE part'[u][j] = Gone(part[u][j], "lost")
        BY <1>1, <2>1, <2>3, GoneShape DEF Stages, Truthful, Fresh
    <2>4. CASE part'[u][j] = part[u][j]
        BY <1>1, <2>1, <2>4 DEF Truthful
    <2> QED
        BY <2>2, <2>3, <2>4
<1>3. BuiltRowsRecorded'
    BY <1>1 DEF BuiltRowsRecorded
<1>4. StatusIsTrue'
    BY <1>1 DEF StatusIsTrue
<1> QED
    BY <1>1, <1>2, <1>3, <1>4

LEMMA RecordsStep == StagingInv /\ RecordsInv /\ [Next]_vars => RecordsInv'
<1> SUFFICES ASSUME StagingInv, RecordsInv, [Next]_vars
             PROVE  RecordsInv'
    OBVIOUS
<1>1. TypeOK
    BY DEF StagingInv
<1>2. ASSUME NEW t \in Tasks, NEW k \in Keys, Worker(t, k)
      PROVE  RecordsInv'
    <2>1. Truthful(part[t][k], k) /\ PartOK(part[t][k], t, k)
        BY DEF RecordsInv, StagingInv, PartsOK
    <2> QED
        BY <1>1, <1>2, <2>1, WorkerRecords, RecordedKeepsRecords
<1>3. ASSUME UNCHANGED <<status, built, part, touched, unrecorded>>
      PROVE  RecordsInv'
    BY <1>3 DEF RecordsInv, Truthful, BuiltRowsRecorded, StatusIsTrue
<1>4. ASSUME NEW t \in Tasks, Cancel(t) \/ Complete(t)
      PROVE  RecordsInv'
    BY <1>3, <1>4 DEF Cancel, Complete, stagingVars
<1>5. CASE UNCHANGED vars
    BY <1>3, <1>5 DEF vars, stagingVars
<1> QED
    BY <1>1, <1>2, <1>4, <1>5, OperatorKeepsRecords, SubmitKeepsRecords, RestartKeepsRecords
       DEF Next

(* Whatever workers, operators, cancels, failures and restarts do: what a  *)
(* gateway has is recorded or about to be, the table claims nothing that   *)
(* was not built, and every summary accounts for each of its rows (the     *)
(* finally of main.py:1659-1662, and _failed_result of gateway_jobs.py).   *)
THEOREM RecordsStayTrue == Spec => []RecordsAreTrue
<1>1. RecordsInv => RecordsAreTrue
    BY DEF RecordsInv, RecordsAreTrue, ReportsAddUp, Truthful, AddsUp
<1> QED
    BY <1>1, StagingInvInit, StagingInvStep, RecordsInit, RecordsStep, PTL DEF Spec
=============================================================================
