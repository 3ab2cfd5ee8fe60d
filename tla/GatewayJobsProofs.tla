-------------------------- MODULE GatewayJobsProofs --------------------------
(***************************************************************************)
(* Theorems about Spec of GatewayJobs, for any gateways, tasks, depth      *)
(* limit and requests.                                                     *)
(***************************************************************************)
EXTENDS GatewayJobs, GatewayQueueProofs, FiniteSetTheorems

-----------------------------------------------------------------------------
(* The job runner is one of the queue's callers *)

LEMMA JobStepIsQueueStep == [Next]_vars => [QueueNext]_queueVars
<1> SUFFICES ASSUME [Next]_vars
             PROVE  [QueueNext]_queueVars
    OBVIOUS
<1>1. CASE UNCHANGED vars
    BY <1>1 DEF vars
<1>2. ASSUME NEW t \in Tasks, NEW r \in Requests, Submit(t, r) \/ SubmitRefused(t, r)
      PROVE  [QueueNext]_queueVars
    BY <1>2 DEF Submit, SubmitRefused, QueueNext
<1>3. ASSUME NEW t \in Tasks, NEW k \in Keys,
             StartThread(t, k) \/ StartFails(t, k) \/ ThreadStep(t, k) \/ WaitTimesOut(t, k)
      PROVE  [QueueNext]_queueVars
    BY <1>3 DEF StartThread, StartFails, ThreadStep, WaitTimesOut, WaitPass, GivesUp,
       MarkRunning, WorkerStep, TakeRow, ReportRow, WorkerReturns, WorkerRaises,
       ReleaseLine, Record, QueueNext
<1>4. ASSUME NEW t \in Tasks, Respond(t) \/ Cancel(t) \/ CancelSets(t) \/ CompleteStep(t)
      PROVE  [QueueNext]_queueVars
    BY <1>4 DEF Respond, Cancel, CancelSets, CompleteStep, BuildAndPush, SetDone, QueueNext
<1>5. ASSUME CancelWakes
      PROVE  [QueueNext]_queueVars
    BY <1>5 DEF CancelWakes, QueueNext
<1> QED
    BY <1>1, <1>2, <1>3, <1>4, <1>5 DEF Next, HandlerStep

(* Every behaviour of the job runner is one of the queue under some        *)
(* caller, so what is proved of QueueSpec holds of Spec.                   *)
THEOREM JobsImplementQueue == Spec => QueueSpec
<1>1. Init => QueueInit
    BY DEF Init
<1> QED
    BY <1>1, JobStepIsQueueStep, PTL DEF Spec, QueueSpec

-----------------------------------------------------------------------------
(* Types *)

LEMMA EntryTyped ==
    ASSUME NEW s \in States, NEW a \in Nat, NEW b \in Nat, NEW c \in Nat
    PROVE  Entry(s, a, b, c) \in EntryType
BY DEF Entry, EntryType

LEMMA ResultTyped ==
    ASSUME NEW s \in States, NEW n \in Nat, NEW a \in Nat, NEW b \in Nat,
           NEW c \in Nat, NEW d \in Nat
    PROVE  Result(s, n, a, b, c, d) \in ResultType
BY DEF Result, ResultType

LEMMA NoResultTyped == NoResult \in ResultType
BY ResultTyped DEF NoResult, States

LEMMA PartCount ==
    ASSUME NEW K \in SUBSET Keys
    PROVE  Cardinality(K) \in Nat /\ IsFiniteSet(K)
BY KeysAssumption, FS_Subset, FS_CardinalityType

LEMMA InitTyped == Init => JobTypeOK
<1> SUFFICES ASSUME Init
             PROVE  JobTypeOK
    OBVIOUS
<1> USE DEF Init
<1>1. loop \in LoopType
    BY DEF LoopType
<1>2. request \in [Tasks -> RequestType]
    BY DEF NoRequest, RequestType
<1>3. entry \in [Tasks -> [Keys -> EntryType]]
    BY EntryTyped DEF States
<1>4. /\ outcome \in [Tasks -> [Keys -> ResultType]]
      /\ result \in [Tasks -> [Keys -> ResultType]]
    BY NoResultTyped
<1>5. summary \in [Tasks -> SummaryType]
    BY NoResultTyped DEF NoSummary, Summary, SummaryType
<1> QED
    BY <1>1, <1>2, <1>3, <1>4, <1>5 DEF JobTypeOK, StageNames, ClosingNames

(* A part's end, and the handler's view of it, keep the types. *)
LEMMA EndsTyped ==
    ASSUME TypeOK, NEW t \in Tasks, NEW k \in Keys, NEW r \in ResultType, Ends(t, k, r)
    PROVE  JobTypeOK'
BY DEF TypeOK, JobTypeOK, Ends, StageNames

LEMMA RowsTyped ==
    ASSUME TypeOK, NEW t \in Tasks, NEW k \in Keys
    PROVE  RowsOf(t, k) \in Nat
BY DEF TypeOK, JobTypeOK, RowsOf, RequestType

LEMMA LoopTyped ==
    /\ Idle \in LoopType
    /\ Cancelling \in LoopType
    /\ \A t \in Tasks : Checked(t) \in LoopType
    /\ \A t \in Tasks, k \in Keys \cup {NoKey}, c \in BOOLEAN : Submitting(t, k, c) \in LoopType
BY DEF LoopType

LEMMA HandlerTyped ==
    ASSUME TypeOK, loop.op = "submit"
    PROVE  /\ \A k \in Keys : [loop EXCEPT !.at = k] \in LoopType
           /\ \A c \in BOOLEAN : [loop EXCEPT !.closes = c] \in LoopType
<1>1. PICK t \in Tasks, k \in Keys \cup {NoKey}, c \in BOOLEAN : loop = Submitting(t, k, c)
    BY DEF TypeOK, JobTypeOK, LoopType, Idle, Checked, Cancelling
<1>2. ASSUME NEW j \in Keys
      PROVE  [loop EXCEPT !.at = j] = Submitting(t, j, c)
    BY <1>1 DEF Submitting
<1>3. ASSUME NEW d \in BOOLEAN
      PROVE  [loop EXCEPT !.closes = d] = Submitting(t, k, d)
    BY <1>1 DEF Submitting
<1> QED
    BY <1>2, <1>3 DEF LoopType

LEMMA JobTypeStep == TypeOK /\ [Next]_vars => JobTypeOK'
<1> SUFFICES ASSUME TypeOK, [Next]_vars
             PROVE  JobTypeOK'
    OBVIOUS
<1> USE DEF TypeOK
<1>1. ASSUME NEW t \in Tasks, NEW r \in Requests, Submit(t, r)
      PROVE  JobTypeOK'
    <2> DEFINE K == {k \in Keys : r.items[k] > 0}
    <2>1. r \in RequestType /\ Cardinality(K) \in Int
        BY RequestsAssumption, PartCount
    <2>2. loop' = Submitting(t, NoKey, K = {})
        BY <1>1 DEF Submit
    <2>3. /\ phase' = [phase EXCEPT ![t] = "accepted"]
          /\ request' = [request EXCEPT ![t] = r]
          /\ stage' = [stage EXCEPT ![t] = [k \in Keys |-> IF k \in K THEN "unstarted" ELSE "none"]]
          /\ remaining' = [remaining EXCEPT ![t] = Cardinality(K)]
          /\ closing' = [closing EXCEPT ![t] = IF K = {} THEN "claimed" ELSE "open"]
          /\ UNCHANGED <<entry, outcome, result, summary, done, pushes>>
        BY <1>1 DEF Submit
    <2> HIDE DEF K
    <2>4. (K = {}) \in BOOLEAN
        OBVIOUS
    <2>5. loop' \in LoopType
        BY <2>2, <2>4, LoopTyped
    <2> QED
        BY <2>1, <2>3, <2>5 DEF JobTypeOK, StageNames, ClosingNames
<1>2. ASSUME NEW t \in Tasks, NEW r \in Requests, SubmitRefused(t, r)
      PROVE  JobTypeOK'
    BY <1>2 DEF SubmitRefused, JobTypeOK
<1>3. ASSUME NEW t \in Tasks, NEW k \in Keys, StartThread(t, k)
      PROVE  JobTypeOK'
    BY <1>3 DEF StartThread, JobTypeOK, StageNames
<1>4. ASSUME NEW t \in Tasks, NEW k \in Keys, StartFails(t, k)
      PROVE  JobTypeOK'
    <2>1. FailedResult(RowsOf(t, k)) \in ResultType
        BY RowsTyped, ResultTyped DEF FailedResult, States
    <2>2. loop.op = "submit" /\ loop' = [loop EXCEPT !.at = k]
        BY <1>4 DEF StartFails, HandlerFree
    <2>3. loop' \in LoopType
        BY <2>2, HandlerTyped
    <2> QED
        BY <1>4, <2>1, <2>3 DEF StartFails, JobTypeOK, StageNames
<1>5. ASSUME NEW t \in Tasks, Respond(t)
      PROVE  JobTypeOK'
    BY <1>5, LoopTyped DEF Respond, JobTypeOK
<1>6. ASSUME NEW t \in Tasks, Cancel(t) \/ CancelSets(t)
      PROVE  JobTypeOK'
    BY <1>6, LoopTyped DEF Cancel, CancelSets, JobTypeOK
<1>7. ASSUME CancelWakes
      PROVE  JobTypeOK'
    BY <1>7, LoopTyped DEF CancelWakes, JobTypeOK
<1>8. ASSUME NEW t \in Tasks, NEW k \in Keys, WaitPass(t, k) \/ WaitTimesOut(t, k)
      PROVE  JobTypeOK'
    BY <1>8 DEF WaitPass, WaitTimesOut, JobTypeOK, jobVars
<1>9. ASSUME NEW t \in Tasks, NEW k \in Keys, GivesUp(t, k)
      PROVE  JobTypeOK'
    <2>1. NeverRan(RowsOf(t, k)) \in ResultType
        BY RowsTyped, ResultTyped DEF NeverRan, States
    <2> QED
        BY <1>9, <2>1, EndsTyped DEF GivesUp
<1>10. ASSUME NEW t \in Tasks, NEW k \in Keys, MarkRunning(t, k)
       PROVE  JobTypeOK'
    <2>1. [entry[t][k] EXCEPT !.state = "running"] \in EntryType
        <3> DEFINE e == entry[t][k]
        <3>1. e \in EntryType
            BY DEF JobTypeOK
        <3>2. "running" \in States
            BY DEF States
        <3> HIDE DEF e
        <3>3. [e EXCEPT !.state = "running"] \in EntryType
            BY <3>1, <3>2 DEF EntryType
        <3> QED
            BY <3>3 DEF e
    <2>2. entry' = [entry EXCEPT ![t] = [@ EXCEPT ![k] = [entry[t][k] EXCEPT !.state = "running"]]]
        BY <1>10 DEF MarkRunning, JobTypeOK
    <2> QED
        BY <1>10, <2>1, <2>2 DEF MarkRunning, JobTypeOK, StageNames
<1>11. ASSUME NEW t \in Tasks, NEW k \in Keys, TakeRow(t, k)
       PROVE  JobTypeOK'
    BY <1>11 DEF TakeRow, JobTypeOK, StageNames
<1>12. ASSUME NEW t \in Tasks, NEW k \in Keys, ReportRow(t, k)
       PROVE  JobTypeOK'
    <2>1. PICK o \in RowOutcomes : entry' = [entry EXCEPT ![t][k] = Counted(@, o)]
        BY <1>12 DEF ReportRow
    <2>2. o[1] \in Nat /\ o[2] \in Nat /\ o[3] \in Nat
        BY OutcomesAssumption
    <2>3. Counted(entry[t][k], o) \in EntryType
        <3> DEFINE e == entry[t][k]
        <3>1. e \in EntryType
            BY DEF JobTypeOK
        <3>2. /\ e.state \in States
              /\ e.success + o[1] \in Nat
              /\ e.fail + o[2] \in Nat
              /\ e.skip + o[3] \in Nat
            BY <2>2, <3>1 DEF EntryType
        <3> QED
            BY <3>2, EntryTyped DEF Counted
    <2> QED
        BY <1>12, <2>1, <2>3 DEF ReportRow, JobTypeOK, StageNames
<1>13. ASSUME NEW t \in Tasks, NEW k \in Keys, WorkerReturns(t, k)
       PROVE  JobTypeOK'
    <2> DEFINE e == entry[t][k]
               left == RowsOf(t, k) - e.current
    <2>1. PICK late \in 0..left :
              Ends(t, k, Result("done", RowsOf(t, k), e.success, e.fail, e.skip + late, left - late))
        BY <1>13 DEF WorkerReturns
    <2>2. /\ RowsOf(t, k) \in Nat /\ e.current \in Nat
          /\ e.success \in Nat /\ e.fail \in Nat /\ e.skip \in Nat
        BY RowsTyped DEF JobTypeOK, EntryType
    <2>3. e.skip + late \in Nat /\ left - late \in Nat
        BY <2>2
    <2>4. Result("done", RowsOf(t, k), e.success, e.fail, e.skip + late, left - late) \in ResultType
        BY <2>2, <2>3, ResultTyped DEF States
    <2> QED
        BY <2>1, <2>4, EndsTyped
<1>14. ASSUME NEW t \in Tasks, NEW k \in Keys, WorkerRaises(t, k)
       PROVE  JobTypeOK'
    <2>1. FailedResult(RowsOf(t, k)) \in ResultType
        BY RowsTyped, ResultTyped DEF FailedResult, States
    <2> QED
        BY <1>14, <2>1, EndsTyped DEF WorkerRaises
<1>15. ASSUME NEW t \in Tasks, NEW k \in Keys, ReleaseLine(t, k)
       PROVE  JobTypeOK'
    BY <1>15 DEF ReleaseLine, JobTypeOK, StageNames
<1>16. ASSUME NEW t \in Tasks, NEW k \in Keys, Record(t, k)
       PROVE  JobTypeOK'
    <2>1. outcome[t][k] \in ResultType
        BY DEF JobTypeOK
    <2>2. Recorded(outcome[t][k]) \in EntryType
        BY <2>1, EntryTyped DEF Recorded, ResultType
    <2>3. loop' \in LoopType
        <3>1. CASE ~EndedByHandler(t, k)
            BY <1>16, <3>1 DEF Record, JobTypeOK
        <3>2. CASE EndedByHandler(t, k)
            <4>1. loop.op = "submit" /\ loop' = [loop EXCEPT !.closes = IsLast(t)]
                BY <1>16, <3>2 DEF EndedByHandler, Record
            <4>2. IsLast(t) \in BOOLEAN
                BY DEF IsLast
            <4> QED
                BY <4>1, <4>2, HandlerTyped
        <3> QED
            BY <3>1, <3>2
    <2> QED
        BY <1>16, <2>1, <2>2, <2>3 DEF Record, JobTypeOK, StageNames, ClosingNames
<1>17. ASSUME NEW t \in Tasks, BuildAndPush(t)
       PROVE  JobTypeOK'
    <2>1. Summary(result[t], cancelled[t], request[t].blocked)
              \in SummaryType
        BY DEF JobTypeOK, QueueTypeOK, Summary, SummaryType, RequestType
    <2> QED
        BY <1>17, <2>1 DEF BuildAndPush, JobTypeOK, ClosingNames
<1>18. ASSUME NEW t \in Tasks, SetDone(t)
       PROVE  JobTypeOK'
    BY <1>18 DEF SetDone, JobTypeOK, ClosingNames
<1>19. CASE UNCHANGED vars
    BY <1>19 DEF vars, jobVars, JobTypeOK
<1> QED
    BY <1>1, <1>2, <1>3, <1>4, <1>5, <1>6, <1>7, <1>8, <1>9, <1>10, <1>11, <1>12,
       <1>13, <1>14, <1>15, <1>16, <1>17, <1>18, <1>19
       DEF Next, HandlerStep, ThreadStep, WorkerStep, CompleteStep

(* The state of the queue and of the jobs keeps its shape. *)
THEOREM TypeCorrect == Spec => []TypeOK
<1>1. Init => JobTypeOK
    BY InitTyped
<1>2. Spec => []QueueTypeOK
    BY JobsImplementQueue, QueueTypeCorrect, PTL
<1>3. JobTypeOK /\ QueueTypeOK /\ [Next]_vars => JobTypeOK'
    BY JobTypeStep DEF TypeOK
<1> QED
    BY <1>1, <1>2, <1>3, PTL DEF Spec, TypeOK

-----------------------------------------------------------------------------
(* One job at a time *)

(* Waking a waiter gives nobody a turn. *)
LEMMA NotifiedGrants ==
    ASSUME NEW k \in Keys, NEW t \in Tasks, Notified(waiter)[k][t] = "granted"
    PROVE  waiter[k][t] = "granted"
BY DEF Notified

LEMMA HolderStep == TypeOK /\ HolderIsHead /\ [Next]_vars => HolderIsHead'
<1> SUFFICES ASSUME TypeOK, HolderIsHead, [Next]_vars,
                    NEW t \in Tasks, NEW k \in Keys, HasGateway(t, k)'
             PROVE  IsHead(k, t)'
    BY DEF HolderIsHead
<1>0. /\ QueueTypeOK
      /\ stage \in [Tasks -> [Keys -> StageNames]]
      /\ waiter \in [Keys -> [Tasks -> WaiterStates]]
    BY DEF TypeOK, JobTypeOK, QueueTypeOK
<1>a. HasGateway(t, k) => IsHead(k, t)
    BY DEF HolderIsHead
<1>b. queues' = queues /\ IsHead(k, t) => IsHead(k, t)'
    BY DEF IsHead
<1>1. ASSUME NEW u \in Tasks, NEW r \in Requests, Submit(u, r)
      PROVE  IsHead(k, t)'
    <2> DEFINE K == {j \in Keys : r.items[j] > 0}
    <2>1. queues' = Appended(u, K) /\ waiter' = waiter
        BY <1>1 DEF Submit, EnqueueMany
    <2>2. u # t
        BY <1>0, <1>1 DEF Submit, HasGateway
    <2>3. HasGateway(t, k)
        BY <1>0, <1>1, <2>1, <2>2 DEF Submit, HasGateway
    <2> QED
        BY <1>0, <1>a, <2>1, <2>3, HeadAppended
<1>2. ASSUME NEW u \in Tasks, NEW r \in Requests, SubmitRefused(u, r)
      PROVE  IsHead(k, t)'
    BY <1>2, <1>a, <1>b DEF SubmitRefused, EnqueueRefused, queueVars, HasGateway
<1>3. ASSUME NEW u \in Tasks, NEW j \in Keys, StartThread(u, j)
      PROVE  IsHead(k, t)'
    BY <1>0, <1>3, <1>a, <1>b DEF StartThread, BeginWait, HasGateway
<1>4. ASSUME NEW u \in Tasks, NEW j \in Keys, StartFails(u, j)
      PROVE  IsHead(k, t)'
    BY <1>0, <1>4, <1>a, <1>b DEF StartFails, queueVars, HasGateway
<1>5. ASSUME NEW u \in Tasks, Respond(u) \/ Cancel(u) \/ CancelSets(u)
      PROVE  IsHead(k, t)'
    BY <1>5, <1>a, <1>b DEF Respond, Cancel, CancelSets, SetCancelled, queueVars, HasGateway
<1>6. ASSUME CancelWakes
      PROVE  IsHead(k, t)'
    BY <1>6, <1>a, <1>b, NotifiedGrants DEF CancelWakes, Wake, HasGateway
<1>7. ASSUME NEW u \in Tasks, NEW j \in Keys, WaitPass(u, j)
      PROVE  IsHead(k, t)'
    <2>1. stage' = stage
        BY <1>7 DEF WaitPass, jobVars
    <2>2. CASE TurnMissing(j, u) \/ TurnSleeps(j, u)
        BY <1>0, <1>a, <1>b, <2>1, <2>2 DEF TurnMissing, TurnSleeps, HasGateway
    <2>3. CASE TurnGranted(j, u)
        BY <1>0, <1>a, <1>b, <2>1, <2>3 DEF TurnGranted, HasGateway
    <2>4. CASE TurnCancelled(j, u)
        <3>1. Notified(waiter) \in [Keys -> [Tasks -> WaiterStates]]
            BY <1>0, NotifiedType
        <3>2. /\ queues' = Removed(j, u)
              /\ waiter' = [Notified(waiter) EXCEPT ![j][u] = "refused"]
              /\ waiter[j][u] = "awake"
            BY <2>4 DEF TurnCancelled
        <3>3. stage[u][j] = "waiting"
            BY <1>7 DEF WaitPass
        <3>4. j # k \/ u # t
            BY <2>1, <3>1, <3>2, <3>3 DEF HasGateway
        <3>5. waiter'[k][t] = Notified(waiter)[k][t]
            BY <3>1, <3>2, <3>4
        <3>6. HasGateway(t, k)
            BY <2>1, <3>5, NotifiedGrants DEF HasGateway
        <3> QED
            BY <1>0, <1>a, <3>2, <3>4, <3>6, HeadRemoved
    <2> QED
        BY <1>7, <2>2, <2>3, <2>4 DEF WaitPass, Turn
<1>8. ASSUME NEW u \in Tasks, NEW j \in Keys, WaitTimesOut(u, j)
      PROVE  IsHead(k, t)'
    BY <1>0, <1>8, <1>a, <1>b DEF WaitTimesOut, PollTimeout, jobVars, HasGateway
<1>9. ASSUME NEW u \in Tasks, NEW j \in Keys, GivesUp(u, j)
      PROVE  IsHead(k, t)'
    BY <1>0, <1>9, <1>a, <1>b DEF GivesUp, EndWait, Ends, HasGateway
<1>10. ASSUME NEW u \in Tasks, NEW j \in Keys, MarkRunning(u, j)
       PROVE  IsHead(k, t)'
    BY <1>0, <1>10, <1>a, <1>b DEF MarkRunning, EndWait, HasGateway
<1>11. ASSUME NEW u \in Tasks, NEW j \in Keys, TakeRow(u, j) \/ ReportRow(u, j)
       PROVE  IsHead(k, t)'
    <2>1. /\ queues' = queues /\ waiter' = waiter
          /\ stage[u][j] \in {"running", "calling"}
          /\ \E s \in {"running", "calling"} : stage' = [stage EXCEPT ![u][j] = s]
        BY <1>11 DEF TakeRow, ReportRow, queueVars
    <2>2. HasGateway(t, k)
        BY <1>0, <2>1 DEF HasGateway
    <2> QED
        BY <1>a, <1>b, <2>1, <2>2
<1>12. ASSUME NEW u \in Tasks, NEW j \in Keys, WorkerReturns(u, j) \/ WorkerRaises(u, j)
       PROVE  IsHead(k, t)'
    BY <1>0, <1>12, <1>a, <1>b DEF WorkerReturns, WorkerRaises, Ends, queueVars, HasGateway
<1>13. ASSUME NEW u \in Tasks, NEW j \in Keys, ReleaseLine(u, j)
       PROVE  IsHead(k, t)'
    <2>1. /\ queues' = Removed(j, u)
          /\ waiter' \in {waiter, Notified(waiter)}
          /\ stage[u][j] = "ending"
          /\ stage' = [stage EXCEPT ![u][j] = "released"]
        BY <1>13 DEF ReleaseLine, Release
    <2>2. j # k \/ u # t
        BY <1>0, <2>1 DEF HasGateway
    <2>3. waiter'[k][t] = "granted" => waiter[k][t] = "granted"
        BY <2>1, NotifiedGrants
    <2>4. stage'[t][k] = stage[t][k]
        BY <1>0, <2>1, <2>2
    <2>5. HasGateway(t, k)
        BY <2>3, <2>4 DEF HasGateway
    <2> QED
        BY <1>0, <1>a, <2>1, <2>2, <2>5, HeadRemoved
<1>14. ASSUME NEW u \in Tasks, NEW j \in Keys, Record(u, j)
       PROVE  IsHead(k, t)'
    BY <1>0, <1>14, <1>a, <1>b DEF Record, queueVars, HasGateway
<1>15. ASSUME NEW u \in Tasks, CompleteStep(u)
       PROVE  IsHead(k, t)'
    BY <1>15, <1>a, <1>b DEF CompleteStep, BuildAndPush, SetDone, queueVars, HasGateway
<1>16. CASE UNCHANGED vars
    BY <1>16, <1>a, <1>b DEF vars, jobVars, queueVars, HasGateway
<1> QED
    BY <1>1, <1>2, <1>3, <1>4, <1>5, <1>6, <1>7, <1>8, <1>9, <1>10, <1>11, <1>12,
       <1>13, <1>14, <1>15, <1>16 DEF Next, HandlerStep, ThreadStep, WorkerStep

(* Whoever has a gateway is at the head of its line. *)
THEOREM HoldersAreHeads == Spec => []HolderIsHead
<1>1. Init => HolderIsHead
    BY DEF Init, HolderIsHead, HasGateway
<1> QED
    BY <1>1, HolderStep, TypeCorrect, PTL DEF Spec

(* One gateway serves one job at a time. *)
THEOREM GatewaysAreExclusive == Spec => []Exclusive
<1>1. HolderIsHead => Exclusive
    BY DEF HolderIsHead, Exclusive, IsHead
<1> QED
    BY <1>1, HoldersAreHeads, PTL

-----------------------------------------------------------------------------
(* Lines and parts *)

LEMMA NotifiedRefuses ==
    ASSUME NEW k \in Keys, NEW t \in Tasks
    PROVE  Notified(waiter)[k][t] = "refused" <=> waiter[k][t] = "refused"
BY DEF Notified

(* A task that was never accepted has no parts. *)
OnlyAcceptedHaveParts ==
    \A t \in Tasks, k \in Keys : phase[t] # "accepted" => stage[t][k] = "none"

(* The inductive invariant: without OnlyAcceptedHaveParts a submission     *)
(* could overwrite parts that still have a place in a line, without        *)
(* NoDuplicates a removal could leave a second place behind.               *)
LinesInv ==
    /\ NoDuplicates
    /\ OnlyAcceptedHaveParts
    /\ LinesMatchParts

LEMMA AcceptedStep == TypeOK /\ OnlyAcceptedHaveParts /\ [Next]_vars => OnlyAcceptedHaveParts'
<1> SUFFICES ASSUME TypeOK, OnlyAcceptedHaveParts, [Next]_vars,
                    NEW t \in Tasks, NEW k \in Keys, phase'[t] # "accepted"
             PROVE  stage'[t][k] = "none"
    BY DEF OnlyAcceptedHaveParts
<1>1. /\ stage \in [Tasks -> [Keys -> StageNames]]
      /\ phase \in [Tasks -> {"new", "refused", "accepted"}]
    BY DEF TypeOK, JobTypeOK
<1>2. phase[t] # "accepted" => stage[t][k] = "none"
    BY DEF OnlyAcceptedHaveParts
<1>3. ASSUME NEW u \in Tasks, NEW r \in Requests, Submit(u, r) \/ SubmitRefused(u, r)
      PROVE  stage'[t][k] = "none"
    BY <1>1, <1>2, <1>3 DEF Submit, SubmitRefused
<1>4. ASSUME phase' = phase, stage' = stage
      PROVE  stage'[t][k] = "none"
    BY <1>2, <1>4
<1>5. ASSUME NEW u \in Tasks, NEW j \in Keys, NEW s \in StageNames,
             phase' = phase, stage[u][j] # "none", stage' = [stage EXCEPT ![u][j] = s]
      PROVE  stage'[t][k] = "none"
    BY <1>1, <1>2, <1>5
<1>6. ASSUME NEW u \in Tasks, NEW j \in Keys,
             StartThread(u, j) \/ StartFails(u, j) \/ ThreadStep(u, j) \/ WaitTimesOut(u, j)
      PROVE  \/ phase' = phase /\ stage' = stage
             \/ \E s \in StageNames :
                    phase' = phase /\ stage[u][j] # "none" /\ stage' = [stage EXCEPT ![u][j] = s]
    BY <1>6 DEF StartThread, StartFails, ThreadStep, WaitTimesOut, WaitPass, GivesUp,
       MarkRunning, WorkerStep, TakeRow, ReportRow, WorkerReturns, WorkerRaises, Ends,
       ReleaseLine, Record, jobVars, StageNames
<1>7. ASSUME \/ \E u \in Tasks : Respond(u) \/ Cancel(u) \/ CancelSets(u) \/ CompleteStep(u)
             \/ CancelWakes
             \/ UNCHANGED vars
      PROVE  stage'[t][k] = "none"
    BY <1>4, <1>7 DEF Respond, Cancel, CancelSets, CompleteStep, BuildAndPush, SetDone, CancelWakes,
       vars, jobVars
<1> QED
    BY <1>3, <1>4, <1>5, <1>6, <1>7 DEF Next, HandlerStep

LEMMA LinesStep == TypeOK /\ LinesInv /\ [Next]_vars => LinesMatchParts'
<1> SUFFICES ASSUME TypeOK, LinesInv, [Next]_vars,
                    NEW t \in Tasks, NEW k \in Keys
             PROVE  InLine(k, t)' <=> NeedsLine(t, k)'
    BY DEF LinesMatchParts
<1>0. /\ QueueTypeOK
      /\ NoDuplicates
      /\ stage \in [Tasks -> [Keys -> StageNames]]
      /\ outcome \in [Tasks -> [Keys -> ResultType]]
      /\ waiter \in [Keys -> [Tasks -> WaiterStates]]
    BY DEF TypeOK, JobTypeOK, QueueTypeOK, LinesInv
<1>a. InLine(k, t) <=> NeedsLine(t, k)
    BY DEF LinesInv, LinesMatchParts
<1>b. queues' = queues => (InLine(k, t)' <=> InLine(k, t))
    BY DEF InLine
(* A step that does not touch this part. *)
<1>c. ASSUME InLine(k, t)' <=> InLine(k, t),
             stage'[t][k] = stage[t][k],
             outcome'[t][k] = outcome[t][k],
             waiter'[k][t] = "refused" <=> waiter[k][t] = "refused"
      PROVE  InLine(k, t)' <=> NeedsLine(t, k)'
    BY <1>a, <1>c DEF NeedsLine
<1>1. ASSUME NEW u \in Tasks, NEW r \in Requests, Submit(u, r)
      PROVE  InLine(k, t)' <=> NeedsLine(t, k)'
    <2> DEFINE K == {j \in Keys : r.items[j] > 0}
    <2>1. /\ queues' = Appended(u, K) /\ waiter' = waiter
          /\ outcome' = outcome
          /\ stage' = [stage EXCEPT ![u] = [j \in Keys |-> IF j \in K THEN "unstarted" ELSE "none"]]
        BY <1>1 DEF Submit, EnqueueMany
    <2>2. InLine(k, t)' <=> InLine(k, t) \/ (k \in K /\ t = u)
        <3>1. K \in SUBSET Keys /\ queues' = Appended(u, K)
            BY <2>1
        <3> HIDE DEF K
        <3> QED
            BY <1>0, <3>1, InLineAppended
    <2>3. CASE t = u
        <3>1. stage[t][k] = "none"
            BY <1>1, <2>3 DEF Submit, LinesInv, OnlyAcceptedHaveParts
        <3>2. ~InLine(k, t)
            BY <1>a, <3>1 DEF NeedsLine
        <3>3. stage'[t][k] = IF k \in K THEN "unstarted" ELSE "none"
            BY <1>0, <2>1, <2>3
        <3> QED
            BY <2>2, <2>3, <3>2, <3>3 DEF NeedsLine
    <2>4. CASE t # u
        BY <1>0, <1>c, <2>1, <2>2, <2>4
    <2> QED
        BY <2>3, <2>4
<1>2. ASSUME NEW u \in Tasks, NEW r \in Requests, SubmitRefused(u, r)
      PROVE  InLine(k, t)' <=> NeedsLine(t, k)'
    BY <1>2, <1>b, <1>c DEF SubmitRefused, EnqueueRefused, queueVars
<1>3. ASSUME NEW u \in Tasks, NEW j \in Keys, StartThread(u, j)
      PROVE  InLine(k, t)' <=> NeedsLine(t, k)'
    <2>1. CASE u = t /\ j = k
        BY <1>0, <1>3, <1>a, <1>b, <2>1 DEF StartThread, BeginWait, NeedsLine
    <2>2. CASE ~(u = t /\ j = k)
        BY <1>0, <1>3, <1>b, <1>c, <2>2 DEF StartThread, BeginWait
    <2> QED
        BY <2>1, <2>2
<1>4. ASSUME NEW u \in Tasks, NEW j \in Keys, StartFails(u, j)
      PROVE  InLine(k, t)' <=> NeedsLine(t, k)'
    <2>1. CASE u = t /\ j = k
        BY <1>0, <1>4, <1>a, <1>b, <2>1
           DEF StartFails, queueVars, NeedsLine, FailedResult, Result
    <2>2. CASE ~(u = t /\ j = k)
        BY <1>0, <1>4, <1>b, <1>c, <2>2 DEF StartFails, queueVars
    <2> QED
        BY <2>1, <2>2
<1>5. ASSUME NEW u \in Tasks, Respond(u) \/ Cancel(u) \/ CancelSets(u) \/ CompleteStep(u)
      PROVE  InLine(k, t)' <=> NeedsLine(t, k)'
    BY <1>5, <1>b, <1>c DEF Respond, Cancel, CancelSets, SetCancelled, CompleteStep, BuildAndPush,
       SetDone, queueVars
<1>6. ASSUME CancelWakes
      PROVE  InLine(k, t)' <=> NeedsLine(t, k)'
    BY <1>6, <1>b, <1>c, NotifiedRefuses DEF CancelWakes, Wake
<1>7. ASSUME NEW u \in Tasks, NEW j \in Keys, WaitPass(u, j)
      PROVE  InLine(k, t)' <=> NeedsLine(t, k)'
    <2>1. stage' = stage /\ outcome' = outcome /\ stage[u][j] = "waiting"
        BY <1>7 DEF WaitPass, jobVars
    <2>2. CASE TurnMissing(j, u)
        <3>1. ~(j = k /\ u = t)
            BY <1>a, <2>1, <2>2 DEF TurnMissing, NeedsLine
        <3> QED
            BY <1>0, <1>b, <1>c, <2>1, <2>2, <3>1 DEF TurnMissing
    <2>3. CASE TurnSleeps(j, u) \/ TurnGranted(j, u)
        <3>1. waiter'[k][t] = "refused" <=> waiter[k][t] = "refused"
            BY <1>0, <2>3 DEF TurnSleeps, TurnGranted
        <3> QED
            BY <1>b, <1>c, <2>1, <2>3, <3>1 DEF TurnSleeps, TurnGranted
    <2>4. CASE TurnCancelled(j, u)
        <3>1. Notified(waiter) \in [Keys -> [Tasks -> WaiterStates]]
            BY <1>0, NotifiedType
        <3>2. /\ queues' = Removed(j, u)
              /\ waiter' = [Notified(waiter) EXCEPT ![j][u] = "refused"]
            BY <2>4 DEF TurnCancelled
        <3>3. InLine(k, t)' <=> InLine(k, t) /\ ~(j = k /\ u = t)
            BY <1>0, <3>2, InLineRemoved
        <3>4. CASE j = k /\ u = t
            BY <2>1, <3>1, <3>2, <3>3, <3>4 DEF NeedsLine
        <3>5. CASE ~(j = k /\ u = t)
            <4>1. waiter'[k][t] = Notified(waiter)[k][t]
                BY <3>1, <3>2, <3>5
            <4> QED
                BY <1>c, <2>1, <3>3, <3>5, <4>1, NotifiedRefuses
        <3> QED
            BY <3>4, <3>5
    <2> QED
        BY <1>7, <2>2, <2>3, <2>4 DEF WaitPass, Turn
<1>8. ASSUME NEW u \in Tasks, NEW j \in Keys, WaitTimesOut(u, j)
      PROVE  InLine(k, t)' <=> NeedsLine(t, k)'
    BY <1>0, <1>8, <1>b, <1>c DEF WaitTimesOut, PollTimeout, jobVars
<1>9. ASSUME NEW u \in Tasks, NEW j \in Keys, GivesUp(u, j)
      PROVE  InLine(k, t)' <=> NeedsLine(t, k)'
    <2>1. CASE u = t /\ j = k
        BY <1>0, <1>9, <1>a, <1>b, <2>1
           DEF GivesUp, EndWait, Ends, NeedsLine, NeverRan, Result
    <2>2. CASE ~(u = t /\ j = k)
        BY <1>0, <1>9, <1>b, <1>c, <2>2 DEF GivesUp, EndWait, Ends
    <2> QED
        BY <2>1, <2>2
<1>10. ASSUME NEW u \in Tasks, NEW j \in Keys, MarkRunning(u, j)
       PROVE  InLine(k, t)' <=> NeedsLine(t, k)'
    <2>1. CASE u = t /\ j = k
        BY <1>0, <1>10, <1>a, <1>b, <2>1 DEF MarkRunning, EndWait, NeedsLine
    <2>2. CASE ~(u = t /\ j = k)
        BY <1>0, <1>10, <1>b, <1>c, <2>2 DEF MarkRunning, EndWait
    <2> QED
        BY <2>1, <2>2
<1>11. ASSUME NEW u \in Tasks, NEW j \in Keys, TakeRow(u, j) \/ ReportRow(u, j)
       PROVE  InLine(k, t)' <=> NeedsLine(t, k)'
    <2>1. /\ queues' = queues /\ waiter' = waiter /\ outcome' = outcome
          /\ stage[u][j] \in {"running", "calling"}
          /\ \E s \in {"running", "calling"} : stage' = [stage EXCEPT ![u][j] = s]
        BY <1>11 DEF TakeRow, ReportRow, queueVars
    <2> QED
        BY <1>0, <1>a, <1>b, <2>1 DEF NeedsLine
<1>12. ASSUME NEW u \in Tasks, NEW j \in Keys, WorkerReturns(u, j) \/ WorkerRaises(u, j)
       PROVE  InLine(k, t)' <=> NeedsLine(t, k)'
    <2>1. /\ queues' = queues /\ waiter' = waiter
          /\ stage[u][j] \in {"running", "calling"}
          /\ \E x : x.state # "cancelled" /\ Ends(u, j, x)
        BY <1>12 DEF WorkerReturns, WorkerRaises, queueVars, FailedResult, Result
    <2>2. PICK x : x.state # "cancelled" /\ Ends(u, j, x)
        BY <2>1
    <2>3. CASE u = t /\ j = k
        BY <1>0, <1>a, <1>b, <2>1, <2>2, <2>3 DEF Ends, NeedsLine
    <2>4. CASE ~(u = t /\ j = k)
        BY <1>0, <1>b, <1>c, <2>1, <2>2, <2>4 DEF Ends
    <2> QED
        BY <2>3, <2>4
<1>13. ASSUME NEW u \in Tasks, NEW j \in Keys, ReleaseLine(u, j)
       PROVE  InLine(k, t)' <=> NeedsLine(t, k)'
    <2>1. /\ queues' = Removed(j, u)
          /\ waiter' \in {waiter, Notified(waiter)}
          /\ outcome' = outcome
          /\ stage' = [stage EXCEPT ![u][j] = "released"]
        BY <1>13 DEF ReleaseLine, Release
    <2>2. InLine(k, t)' <=> InLine(k, t) /\ ~(j = k /\ u = t)
        BY <1>0, <2>1, InLineRemoved
    <2>3. CASE u = t /\ j = k
        BY <1>0, <2>1, <2>2, <2>3 DEF NeedsLine
    <2>4. CASE ~(u = t /\ j = k)
        <3>1. waiter'[k][t] = "refused" <=> waiter[k][t] = "refused"
            BY <2>1, NotifiedRefuses
        <3>2. stage'[t][k] = stage[t][k]
            BY <1>0, <2>1, <2>4
        <3> QED
            BY <1>c, <2>1, <2>2, <2>4, <3>1, <3>2
    <2> QED
        BY <2>3, <2>4
<1>14. ASSUME NEW u \in Tasks, NEW j \in Keys, Record(u, j)
       PROVE  InLine(k, t)' <=> NeedsLine(t, k)'
    BY <1>0, <1>14, <1>a, <1>b DEF Record, queueVars, NeedsLine
<1>15. CASE UNCHANGED vars
    BY <1>15, <1>b, <1>c DEF vars, jobVars, queueVars
<1> QED
    BY <1>1, <1>2, <1>3, <1>4, <1>5, <1>6, <1>7, <1>8, <1>9, <1>10, <1>11, <1>12,
       <1>13, <1>14, <1>15 DEF Next, HandlerStep, ThreadStep, WorkerStep

(* A line holds exactly the parts that still need their gateway: nothing   *)
(* is left behind and nothing is dropped early.                            *)
THEOREM LinesHoldTheParts == Spec => []LinesMatchParts
<1>1. Init => OnlyAcceptedHaveParts /\ LinesMatchParts
    BY EmptySeq DEF Init, QueueInit, OnlyAcceptedHaveParts, LinesMatchParts, InLine, NeedsLine
<1>2. Spec => []NoDuplicates
    BY JobsImplementQueue, LinesHaveNoDuplicates, PTL
<1>3. TypeOK /\ NoDuplicates /\ OnlyAcceptedHaveParts /\ LinesMatchParts /\ [Next]_vars
        => OnlyAcceptedHaveParts' /\ LinesMatchParts'
    BY AcceptedStep, LinesStep DEF LinesInv
<1> QED
    BY <1>1, <1>2, <1>3, TypeCorrect, PTL DEF Spec

-----------------------------------------------------------------------------
(* Completion *)

Live == StageNames \ {"none", "over"}

Unfinished(t) == {k \in Keys : stage[t][k] \in Live}

(* What ties a task's counter, its parts and its completion together: the  *)
(* counter is the number of parts that have not ended, the parts are those *)
(* of the request, and the completion is claimed only when none is left.   *)
Completing(t) ==
    /\ phase[t] # "accepted" => closing[t] = "open" /\ Parts(t) = {}
    /\ \A k \in Keys : stage[t][k] # "none" <=> k \in Parts(t)
    /\ remaining[t] = Cardinality(Unfinished(t))
    /\ closing[t] # "open" => Unfinished(t) = {}
    /\ pushes[t] = IF closing[t] \in {"open", "claimed"} THEN 0 ELSE 1
    /\ done[t] <=> closing[t] = "closed"

CompletionInv == \A t \in Tasks : Completing(t)

(* A step that only moves one part on, from a live stage to a live stage. *)
MovesAPart ==
    /\ UNCHANGED <<phase, request, result, remaining, closing, summary, done, pushes>>
    /\ \/ stage' = stage
       \/ \E t \in Tasks, k \in Keys, s \in Live :
             stage[t][k] \in Live /\ stage' = [stage EXCEPT ![t][k] = s]

LEMMA JobStepShape ==
    ASSUME [Next]_vars
    PROVE  \/ \E t \in Tasks, r \in Requests : Submit(t, r) \/ SubmitRefused(t, r)
           \/ \E t \in Tasks, k \in Keys : Record(t, k)
           \/ \E t \in Tasks : CompleteStep(t)
           \/ MovesAPart
<1>1. ASSUME NEW t \in Tasks, NEW k \in Keys,
             StartThread(t, k) \/ StartFails(t, k) \/ WaitPass(t, k) \/ WaitTimesOut(t, k)
                \/ GivesUp(t, k) \/ MarkRunning(t, k) \/ WorkerStep(t, k) \/ ReleaseLine(t, k)
      PROVE  MovesAPart
    <2>1. CASE WaitPass(t, k) \/ WaitTimesOut(t, k)
        BY <2>1 DEF MovesAPart, WaitPass, WaitTimesOut, jobVars
    <2>2. CASE StartThread(t, k) \/ StartFails(t, k) \/ GivesUp(t, k) \/ MarkRunning(t, k)
                  \/ WorkerStep(t, k) \/ ReleaseLine(t, k)
        <3>1. /\ UNCHANGED <<phase, request, result, remaining, closing, summary, done, pushes>>
              /\ stage[t][k] \in {"unstarted", "waiting", "running", "calling", "ending"}
              /\ \E s \in {"waiting", "ending", "running", "calling", "released"} :
                    stage' = [stage EXCEPT ![t][k] = s]
            BY <2>2 DEF StartThread, StartFails, GivesUp, MarkRunning, WorkerStep, TakeRow,
               ReportRow, WorkerReturns, WorkerRaises, Ends, ReleaseLine
        <3>2. /\ stage[t][k] \in Live
              /\ {"waiting", "ending", "running", "calling", "released"} \subseteq Live
            BY <3>1 DEF Live, StageNames
        <3> QED
            BY <3>1, <3>2 DEF MovesAPart
    <2> QED
        BY <1>1, <2>1, <2>2
<1>2. ASSUME \/ \E t \in Tasks : Respond(t) \/ Cancel(t) \/ CancelSets(t)
             \/ CancelWakes
             \/ UNCHANGED vars
      PROVE  MovesAPart
    BY <1>2 DEF MovesAPart, Respond, Cancel, CancelSets, CancelWakes, vars, jobVars
<1> QED
    BY <1>1, <1>2 DEF Next, HandlerStep, ThreadStep

LEMMA CompletionInit == Init => CompletionInv
<1> SUFFICES ASSUME Init, NEW t \in Tasks
             PROVE  Completing(t)
    BY DEF CompletionInv
<1>1. Unfinished(t) = {} /\ Parts(t) = {}
    BY DEF Init, Unfinished, Live, Parts, RowsOf, NoRequest
<1> QED
    BY <1>1, FS_EmptySet DEF Init, Completing

LEMMA CompletionStep == TypeOK /\ CompletionInv /\ [Next]_vars => CompletionInv'
<1> SUFFICES ASSUME TypeOK, CompletionInv, [Next]_vars, NEW t \in Tasks
             PROVE  Completing(t)'
    BY DEF CompletionInv
<1>0. /\ stage \in [Tasks -> [Keys -> StageNames]]
      /\ remaining \in [Tasks -> Int]
      /\ closing \in [Tasks -> ClosingNames]
      /\ done \in [Tasks -> BOOLEAN]
      /\ pushes \in [Tasks -> Nat]
      /\ phase \in [Tasks -> {"new", "refused", "accepted"}]
      /\ request \in [Tasks -> RequestType]
    BY DEF TypeOK, JobTypeOK
<1>a. Completing(t)
    BY DEF CompletionInv
(* A step that leaves the task's bookkeeping alone. *)
<1>b. ASSUME Unfinished(t)' = Unfinished(t),
             \A k \in Keys : stage'[t][k] # "none" <=> stage[t][k] # "none",
             phase'[t] = phase[t] \/ (phase[t] # "accepted" /\ phase'[t] # "accepted"),
             request'[t] = request[t], remaining'[t] = remaining[t],
             closing'[t] = closing[t], pushes'[t] = pushes[t], done'[t] = done[t]
      PROVE  Completing(t)'
    <2>1. Parts(t)' = Parts(t)
        BY <1>b DEF Parts, RowsOf
    <2> QED
        BY <1>a, <1>b, <2>1 DEF Completing
<1>c. stage'[t] = stage[t] => Unfinished(t)' = Unfinished(t)
    BY DEF Unfinished
<1>1. ASSUME NEW u \in Tasks, NEW r \in Requests, Submit(u, r)
      PROVE  Completing(t)'
    <2> DEFINE K == {k \in Keys : r.items[k] > 0}
    <2>1. /\ phase[u] = "new"
          /\ phase' = [phase EXCEPT ![u] = "accepted"]
          /\ request' = [request EXCEPT ![u] = r]
          /\ stage' = [stage EXCEPT ![u] = [k \in Keys |-> IF k \in K THEN "unstarted" ELSE "none"]]
          /\ remaining' = [remaining EXCEPT ![u] = Cardinality(K)]
          /\ closing' = [closing EXCEPT ![u] = IF K = {} THEN "claimed" ELSE "open"]
          /\ UNCHANGED <<done, pushes>>
        BY <1>1 DEF Submit
    <2>2. CASE u = t
        <3>1. Parts(t)' = K
            BY <1>0, <2>1, <2>2 DEF Parts, RowsOf
        <3>2. Unfinished(t)' = K /\ \A k \in Keys : stage'[t][k] # "none" <=> k \in K
            BY <1>0, <2>1, <2>2 DEF Unfinished, Live, StageNames
        <3>3. pushes[t] = 0 /\ ~done[t]
            BY <1>0, <1>a, <2>1, <2>2 DEF Completing
        <3> HIDE DEF K
        <3> QED
            BY <1>0, <2>1, <2>2, <3>1, <3>2, <3>3 DEF Completing
    <2>3. CASE u # t
        <3>1. stage'[t] = stage[t]
            BY <1>0, <2>1, <2>3
        <3> QED
            BY <1>0, <1>b, <1>c, <2>1, <2>3, <3>1
    <2> QED
        BY <2>2, <2>3
<1>2. ASSUME NEW u \in Tasks, NEW r \in Requests, SubmitRefused(u, r)
      PROVE  Completing(t)'
    <2>1. stage' = stage
        BY <1>2 DEF SubmitRefused
    <2> QED
        BY <1>0, <1>2, <1>b, <1>c, <2>1 DEF SubmitRefused
<1>3. ASSUME NEW u \in Tasks, NEW j \in Keys, Record(u, j)
      PROVE  Completing(t)'
    <2>1. /\ stage[u][j] = "released"
          /\ stage' = [stage EXCEPT ![u][j] = "over"]
          /\ remaining' = [remaining EXCEPT ![u] = @ - 1]
          /\ closing' = [closing EXCEPT ![u] = IF IsLast(u) THEN "claimed" ELSE @]
          /\ UNCHANGED <<phase, request, done, pushes>>
        BY <1>3 DEF Record
    <2>2. CASE u = t
        <3>1. j \in Unfinished(t) /\ Unfinished(t)' = Unfinished(t) \ {j}
            BY <1>0, <2>1, <2>2 DEF Unfinished, Live, StageNames
        <3>2. IsFiniteSet(Unfinished(t)) /\ IsFiniteSet(Unfinished(t) \ {j})
            BY KeysAssumption, FS_Subset DEF Unfinished
        <3>3. Cardinality(Unfinished(t)') = Cardinality(Unfinished(t)) - 1
            BY <3>1, <3>2, FS_RemoveElement
        <3>4. closing[t] = "open"
            BY <1>a, <3>1 DEF Completing
        <3>5. IsLast(t) => Unfinished(t)' = {}
            <4>1. ASSUME IsLast(t)
                  PROVE  Cardinality(Unfinished(t) \ {j}) = 0
                BY <1>a, <3>1, <3>3, <4>1 DEF IsLast, Completing
            <4> QED
                BY <3>1, <3>2, <4>1, FS_EmptySet
        <3>6. Parts(t)' = Parts(t)
            BY <2>1 DEF Parts, RowsOf
        <3>7. remaining'[t] = remaining[t] - 1
            BY <1>0, <2>1, <2>2
        <3>8. closing'[t] = IF IsLast(t) THEN "claimed" ELSE "open"
            BY <1>0, <2>1, <2>2, <3>4
        <3>9. \A k \in Keys : stage'[t][k] # "none" <=> stage[t][k] # "none"
            BY <1>0, <2>1, <2>2
        <3>10. phase[t] = "accepted"
            BY <1>a, <2>1, <2>2 DEF Completing
        <3> QED
            BY <1>a, <2>1, <3>3, <3>4, <3>5, <3>6, <3>7, <3>8, <3>9, <3>10 DEF Completing
    <2>3. CASE u # t
        <3>1. stage'[t] = stage[t]
            BY <1>0, <2>1, <2>3
        <3> QED
            BY <1>0, <1>b, <1>c, <2>1, <2>3, <3>1
    <2> QED
        BY <2>2, <2>3
<1>4. ASSUME NEW u \in Tasks, CompleteStep(u)
      PROVE  Completing(t)'
    <2>1. stage' = stage /\ phase' = phase /\ request' = request /\ remaining' = remaining
        BY <1>4 DEF CompleteStep, BuildAndPush, SetDone
    <2>2. Parts(t)' = Parts(t) /\ Unfinished(t)' = Unfinished(t)
        BY <2>1 DEF Parts, RowsOf, Unfinished
    <2>3. CASE BuildAndPush(u)
        BY <1>0, <1>a, <2>1, <2>2, <2>3 DEF BuildAndPush, Completing
    <2>4. CASE SetDone(u)
        BY <1>0, <1>a, <2>1, <2>2, <2>4 DEF SetDone, Completing
    <2> QED
        BY <1>4, <2>3, <2>4 DEF CompleteStep
<1>5. CASE MovesAPart
    <2>1. \A k \in Keys : /\ stage'[t][k] \in Live <=> stage[t][k] \in Live
                          /\ stage'[t][k] # "none" <=> stage[t][k] # "none"
        BY <1>0, <1>5 DEF MovesAPart, Live
    <2>2. Unfinished(t)' = Unfinished(t)
        BY <2>1 DEF Unfinished
    <2> QED
        BY <1>5, <1>b, <2>1, <2>2 DEF MovesAPart
<1> QED
    BY <1>1, <1>2, <1>3, <1>4, <1>5, JobStepShape

THEOREM CompletionIsKept == Spec => []CompletionInv
    BY CompletionInit, CompletionStep, TypeCorrect, PTL DEF Spec

(* A task completes once, when every part has ended, and is done only      *)
(* after its one complete event.                                           *)
THEOREM TasksCompleteOnce == Spec => []CompletedOnce
<1>1. TypeOK /\ CompletionInv => CompletedOnce
    <2> SUFFICES ASSUME TypeOK, CompletionInv, NEW t \in Tasks
                 PROVE  /\ pushes[t] <= 1
                        /\ closing[t] # "open" => \A k \in Parts(t) : stage[t][k] = "over"
                        /\ done[t] => pushes[t] = 1
        BY DEF CompletedOnce
    <2>1. Completing(t) /\ stage \in [Tasks -> [Keys -> StageNames]]
        BY DEF CompletionInv, TypeOK, JobTypeOK
    <2> QED
        BY <2>1 DEF Completing, Unfinished, Live, Parts
<1> QED
    BY <1>1, CompletionIsKept, TypeCorrect, PTL

-----------------------------------------------------------------------------
(* The cancel request's wake-up *)

LEMMA CancelStep ==
    TypeOK /\ CancelLosesNoWakeup /\ [Next]_vars => CancelLosesNoWakeup'
<1> SUFFICES ASSUME TypeOK, CancelLosesNoWakeup, [Next]_vars,
                    NEW t \in Tasks, NEW k \in Keys,
                    waiter'[k][t] = "asleep", cancelled'[t]
             PROVE  loop' = Cancelling
    BY DEF CancelLosesNoWakeup
<1>0. /\ waiter \in [Keys -> [Tasks -> WaiterStates]]
      /\ cancelled \in [Tasks -> BOOLEAN]
    BY DEF TypeOK, QueueTypeOK
<1>a. waiter[k][t] = "asleep" /\ cancelled[t] => loop = Cancelling
    BY DEF CancelLosesNoWakeup
<1>b. Cancelling.op = "cancel" /\ Idle # Cancelling
    BY DEF Cancelling, Idle
(* The event loop is busy with the cancel request until it wakes. *)
<1>1. ASSUME NEW u \in Tasks,
             \/ \E r \in Requests : Submit(u, r) \/ SubmitRefused(u, r)
             \/ \E j \in Keys : StartThread(u, j) \/ StartFails(u, j)
             \/ Respond(u)
             \/ Cancel(u)
      PROVE  loop' = Cancelling
    <2>1. loop # Cancelling
        <3>1. loop = Idle \/ loop.op = "submit"
            BY <1>1 DEF Submit, SubmitRefused, StartThread, StartFails, Respond, Cancel, HandlerFree
        <3> QED
            BY <1>b, <3>1
    <2>2. cancelled' = cancelled /\ (waiter' = waiter \/ \E j \in Keys : BeginWait(j, u))
        BY <1>1 DEF Submit, SubmitRefused, EnqueueMany, EnqueueRefused, StartThread, BeginWait,
           StartFails, Respond, Cancel, queueVars
    <2>3. waiter[k][t] = "asleep"
        BY <1>0, <2>2 DEF BeginWait
    <2> QED
        BY <1>a, <2>1, <2>2, <2>3
<1>2. ASSUME NEW u \in Tasks, CancelSets(u)
      PROVE  loop' = Cancelling
    BY <1>2 DEF CancelSets
<1>3. ASSUME CancelWakes
      PROVE  loop' = Cancelling
    BY <1>0, <1>3, NotifiedWakes DEF CancelWakes, Wake
<1>4. ASSUME NEW u \in Tasks, NEW j \in Keys, WaitPass(u, j)
      PROVE  loop' = Cancelling
    <2>1. loop' = loop /\ cancelled' = cancelled
        BY <1>4 DEF WaitPass, jobVars, Turn, TurnMissing, TurnCancelled, TurnGranted, TurnSleeps
    <2>2. CASE TurnMissing(j, u) \/ TurnGranted(j, u)
        BY <1>0, <1>a, <2>1, <2>2 DEF TurnMissing, TurnGranted
    <2>3. CASE TurnSleeps(j, u)
        BY <1>0, <1>a, <2>1, <2>3 DEF TurnSleeps
    <2>4. CASE TurnCancelled(j, u)
        <3>1. Notified(waiter) \in [Keys -> [Tasks -> WaiterStates]]
            BY <1>0, NotifiedType
        <3>2. Notified(waiter)[k][t] # "asleep"
            BY <1>0, NotifiedWakes
        <3> QED
            BY <2>4, <3>1, <3>2 DEF TurnCancelled
    <2> QED
        BY <1>4, <2>2, <2>3, <2>4 DEF WaitPass, Turn
<1>5. ASSUME NEW u \in Tasks, NEW j \in Keys,
             WaitTimesOut(u, j) \/ GivesUp(u, j) \/ MarkRunning(u, j)
      PROVE  loop' = Cancelling
    BY <1>0, <1>5, <1>a DEF WaitTimesOut, PollTimeout, GivesUp, MarkRunning, EndWait, Ends, jobVars
<1>6. ASSUME NEW u \in Tasks, NEW j \in Keys, WorkerStep(u, j)
      PROVE  loop' = Cancelling
    BY <1>6, <1>a DEF WorkerStep, TakeRow, ReportRow, WorkerReturns, WorkerRaises, Ends, queueVars
<1>7. ASSUME NEW u \in Tasks, NEW j \in Keys, ReleaseLine(u, j)
      PROVE  loop' = Cancelling
    <2>1. waiter' \in {waiter, Notified(waiter)} /\ cancelled' = cancelled /\ loop' = loop
        BY <1>7 DEF ReleaseLine, Release
    <2> QED
        BY <1>0, <1>a, <2>1, NotifiedWakes
<1>8. ASSUME NEW u \in Tasks, NEW j \in Keys, Record(u, j)
      PROVE  loop' = Cancelling
    <2>1. waiter' = waiter /\ cancelled' = cancelled
        BY <1>8 DEF Record, queueVars
    <2>2. ~EndedByHandler(u, j)
        BY <1>a, <1>b, <2>1 DEF EndedByHandler
    <2> QED
        BY <1>8, <1>a, <2>1, <2>2 DEF Record
<1>9. ASSUME NEW u \in Tasks, CompleteStep(u)
      PROVE  loop' = Cancelling
    BY <1>9, <1>a DEF CompleteStep, BuildAndPush, SetDone, queueVars
<1>10. CASE UNCHANGED vars
    BY <1>10, <1>a DEF vars, jobVars, queueVars
<1> QED
    BY <1>1, <1>2, <1>3, <1>4, <1>5, <1>6, <1>7, <1>8, <1>9, <1>10
       DEF Next, HandlerStep, ThreadStep

(* A cancellation leaves nobody of its task asleep: until the request has  *)
(* woken them it is still on the event loop.                               *)
THEOREM CancelWakesEveryPart == Spec => []CancelLosesNoWakeup
<1>1. Init => CancelLosesNoWakeup
    BY DEF Init, QueueInit, CancelLosesNoWakeup
<1> QED
    BY <1>1, CancelStep, TypeCorrect, PTL DEF Spec

-----------------------------------------------------------------------------
(* What becomes of the rows of a part *)

Handled(r) == r.success + r.fail + r.skip

(* A part's final result accounts for each of its rows; a part that ends   *)
(* as cancelled belongs to a cancelled task and has handled none.          *)
Settled(r, t, k) ==
    /\ r.state \in {"done", "failed", "cancelled"}
    /\ r.total = RowsOf(t, k)
    /\ r.total = Handled(r) + r.rest
    /\ r.state = "cancelled" => cancelled[t] /\ Handled(r) = 0

(* What a part's entry and result say at each stage of its thread. *)
PartInv(t, k) ==
    /\ phase[t] # "accepted" => stage[t][k] = "none"
    /\ entry[t][k].current = Handled(entry[t][k])
    /\ stage[t][k] \in {"none", "unstarted", "waiting"} =>
          entry[t][k].state = "queued" /\ entry[t][k].current = 0
    /\ stage[t][k] = "waiting" /\ waiter[k][t] = "refused" => cancelled[t]
    /\ stage[t][k] \in {"running", "calling"} =>
          entry[t][k].state = "running" /\ entry[t][k].current <= RowsOf(t, k)
    /\ stage[t][k] = "calling" => entry[t][k].current < RowsOf(t, k)
    /\ stage[t][k] \in {"ending", "released"} =>
          /\ entry[t][k].state \in {"queued", "running"}
          /\ Settled(outcome[t][k], t, k)
          /\ entry[t][k].current <= Handled(outcome[t][k])
    /\ stage[t][k] = "over" =>
          /\ Settled(result[t][k], t, k)
          /\ entry[t][k] = Recorded(result[t][k])

PartsInv == \A t \in Tasks, k \in Keys : PartInv(t, k)

LEMMA PartsInit == Init => PartsInv
BY DEF Init, PartsInv, PartInv, Entry, Handled

LEMMA PartsStep ==
    TypeOK /\ LinesMatchParts /\ PartsInv /\ [Next]_vars => PartsInv'
<1> SUFFICES ASSUME TypeOK, LinesMatchParts, PartsInv, [Next]_vars,
                    NEW t \in Tasks, NEW k \in Keys
             PROVE  PartInv(t, k)'
    BY DEF PartsInv
<1>0. /\ waiter \in [Keys -> [Tasks -> WaiterStates]]
      /\ cancelled \in [Tasks -> BOOLEAN]
      /\ phase \in [Tasks -> {"new", "refused", "accepted"}]
      /\ request \in [Tasks -> RequestType]
      /\ stage \in [Tasks -> [Keys -> StageNames]]
      /\ entry \in [Tasks -> [Keys -> EntryType]]
      /\ outcome \in [Tasks -> [Keys -> ResultType]]
      /\ result \in [Tasks -> [Keys -> ResultType]]
    BY DEF TypeOK, JobTypeOK, QueueTypeOK
<1>t. RowsOf(t, k) \in Nat
    BY RowsTyped
<1>a. PartInv(t, k)
    BY DEF PartsInv
(* A step of another part, or of none. *)
<1>b. ASSUME stage'[t][k] = stage[t][k], entry'[t][k] = entry[t][k],
             outcome'[t][k] = outcome[t][k], result'[t][k] = result[t][k],
             request'[t] = request[t], cancelled[t] => cancelled'[t],
             phase'[t] # "accepted" => phase[t] # "accepted",
             stage[t][k] = "waiting" /\ waiter'[k][t] = "refused"
                => waiter[k][t] = "refused" \/ cancelled'[t]
      PROVE  PartInv(t, k)'
    <2>1. RowsOf(t, k)' = RowsOf(t, k)
        BY <1>b DEF RowsOf
    <2>2. ASSUME NEW r, Settled(r, t, k)
          PROVE  Settled(r, t, k)'
        BY <1>b, <2>1, <2>2 DEF Settled
    <2> QED
        BY <1>a, <1>b, <2>1, <2>2 DEF PartInv
<1>1. ASSUME NEW u \in Tasks, NEW r \in Requests, Submit(u, r)
      PROVE  PartInv(t, k)'
    <2>1. /\ phase[u] = "new"
          /\ phase' = [phase EXCEPT ![u] = "accepted"]
          /\ request' = [request EXCEPT ![u] = r]
          /\ \E s \in [Keys -> {"unstarted", "none"}] : stage' = [stage EXCEPT ![u] = s]
          /\ UNCHANGED <<cancelled, waiter, entry, outcome, result>>
        BY <1>1 DEF Submit, EnqueueMany
    <2>2. CASE u = t
        <3>1. stage[t][k] = "none" /\ stage'[t][k] \in {"unstarted", "none"}
            BY <1>0, <1>a, <2>1, <2>2 DEF PartInv
        <3>2. phase'[t] = "accepted"
            BY <1>0, <2>1, <2>2
        <3> QED
            BY <1>a, <2>1, <3>1, <3>2 DEF PartInv
    <2>3. CASE u # t
        BY <1>0, <1>b, <2>1, <2>3
    <2> QED
        BY <2>2, <2>3
<1>2. ASSUME NEW u \in Tasks, NEW r \in Requests, SubmitRefused(u, r)
      PROVE  PartInv(t, k)'
    BY <1>0, <1>2, <1>b DEF SubmitRefused, EnqueueRefused, queueVars
<1>3. ASSUME NEW u \in Tasks, NEW j \in Keys, StartThread(u, j)
      PROVE  PartInv(t, k)'
    <2>1. /\ stage[u][j] = "unstarted"
          /\ stage' = [stage EXCEPT ![u][j] = "waiting"]
          /\ waiter' = [waiter EXCEPT ![j][u] = "awake"]
          /\ UNCHANGED <<phase, cancelled, request, entry, outcome, result>>
        BY <1>3 DEF StartThread, BeginWait
    <2>2. CASE u = t /\ j = k
        <3>1. stage'[t][k] = "waiting" /\ waiter'[k][t] = "awake" /\ phase[t] = "accepted"
            BY <1>0, <1>a, <2>1, <2>2 DEF PartInv
        <3> QED
            BY <1>a, <2>1, <2>2, <3>1 DEF PartInv
    <2>3. CASE ~(u = t /\ j = k)
        BY <1>0, <1>b, <2>1, <2>3
    <2> QED
        BY <2>2, <2>3
(* The part leaves for end_part with a result that accounts for its rows. *)
<1>c. ASSUME NEW u \in Tasks, NEW j \in Keys, NEW r \in ResultType,
             stage[u][j] \in {"unstarted", "waiting", "running", "calling"},
             stage' = [stage EXCEPT ![u][j] = "ending"],
             outcome' = [outcome EXCEPT ![u][j] = r],
             UNCHANGED <<phase, cancelled, request, entry, result>>,
             \A x \in Keys, y \in Tasks : ~(x = j /\ y = u) => waiter'[x][y] = waiter[x][y],
             u = t /\ j = k => Settled(r, t, k) /\ entry[t][k].current <= Handled(r)
      PROVE  PartInv(t, k)'
    <2>1. CASE u = t /\ j = k
        <3>1. stage'[t][k] = "ending" /\ outcome'[t][k] = r
            BY <1>0, <1>c, <2>1
        <3>2. Settled(r, t, k)' /\ entry[t][k].current <= Handled(r)
            BY <1>c, <2>1 DEF Settled, RowsOf
        <3>3. entry[t][k].state \in {"queued", "running"} /\ phase[t] = "accepted"
            BY <1>a, <1>c, <2>1 DEF PartInv
        <3> QED
            BY <1>a, <1>c, <3>1, <3>2, <3>3 DEF PartInv
    <2>2. CASE ~(u = t /\ j = k)
        BY <1>0, <1>b, <1>c, <2>2
    <2> QED
        BY <2>1, <2>2
<1>d. /\ entry[t][k].current \in Nat
      /\ entry[t][k].success \in Nat /\ entry[t][k].fail \in Nat /\ entry[t][k].skip \in Nat
    BY <1>0 DEF EntryType
<1>e. ASSUME entry[t][k].current <= RowsOf(t, k)
      PROVE  LET r == FailedResult(RowsOf(t, k)) IN
             Settled(r, t, k) /\ entry[t][k].current <= Handled(r)
    BY <1>d, <1>e, <1>t DEF FailedResult, Result, Settled, Handled
<1>f. \A u \in Tasks, j \in Keys : FailedResult(RowsOf(u, j)) \in ResultType
                                    /\ NeverRan(RowsOf(u, j)) \in ResultType
    BY RowsTyped, ResultTyped DEF FailedResult, NeverRan, States
<1>4. ASSUME NEW u \in Tasks, NEW j \in Keys, StartFails(u, j)
      PROVE  PartInv(t, k)'
    <2>1. /\ stage[u][j] = "unstarted"
          /\ stage' = [stage EXCEPT ![u][j] = "ending"]
          /\ outcome' = [outcome EXCEPT ![u][j] = FailedResult(RowsOf(u, j))]
          /\ UNCHANGED <<queueVars, phase, request, entry, result>>
        BY <1>4 DEF StartFails
    <2>2. UNCHANGED <<waiter, cancelled>>
        BY <2>1 DEF queueVars
    <2>3. u = t /\ j = k => entry[t][k].current <= RowsOf(t, k)
        BY <1>a, <1>t, <2>1 DEF PartInv
    <2> QED
        BY <1>c, <1>e, <1>f, <2>1, <2>2, <2>3
<1>5. ASSUME \/ \E u \in Tasks : Respond(u) \/ Cancel(u) \/ CancelSets(u) \/ CompleteStep(u)
             \/ CancelWakes
      PROVE  PartInv(t, k)'
    <2>1. /\ UNCHANGED <<phase, request, stage, entry, outcome, result>>
          /\ waiter' \in {waiter, Notified(waiter)}
          /\ \/ cancelled' = cancelled
             \/ \E u \in Tasks : cancelled' = [cancelled EXCEPT ![u] = TRUE]
        BY <1>5 DEF Respond, Cancel, CancelSets, SetCancelled, CompleteStep, BuildAndPush,
           SetDone, CancelWakes, Wake, queueVars
    <2>2. cancelled[t] => cancelled'[t]
        BY <1>0, <2>1
    <2>3. waiter'[k][t] = "refused" => waiter[k][t] = "refused"
        BY <2>1, NotifiedRefuses
    <2> QED
        BY <1>b, <2>1, <2>2, <2>3
<1>6. ASSUME NEW u \in Tasks, NEW j \in Keys, WaitPass(u, j)
      PROVE  PartInv(t, k)'
    <2>1. UNCHANGED <<cancelled, phase, request, stage, entry, outcome, result>>
        BY <1>6 DEF WaitPass, jobVars, Turn, TurnMissing, TurnCancelled, TurnGranted, TurnSleeps
    <2>2. CASE TurnMissing(j, u)
        <3>1. ~(j = k /\ u = t)
            BY <1>6, <2>2 DEF WaitPass, TurnMissing, LinesMatchParts, NeedsLine
        <3> QED
            BY <1>0, <1>b, <2>1, <2>2, <3>1 DEF TurnMissing
    <2>3. CASE TurnCancelled(j, u)
        <3>1. Notified(waiter) \in [Keys -> [Tasks -> WaiterStates]]
            BY <1>0, NotifiedType
        <3>2. (j = k /\ u = t) \/ (waiter'[k][t] = "refused" => waiter[k][t] = "refused")
            BY <2>3, <3>1, NotifiedRefuses DEF TurnCancelled
        <3> QED
            BY <1>b, <2>1, <2>3, <3>2 DEF TurnCancelled
    <2>4. CASE TurnGranted(j, u) \/ TurnSleeps(j, u)
        <3>1. \E s \in {"granted", "asleep"} : waiter' = [waiter EXCEPT ![j][u] = s]
            BY <2>4 DEF TurnGranted, TurnSleeps
        <3>2. waiter'[k][t] = "refused" => waiter[k][t] = "refused"
            BY <1>0, <3>1
        <3> QED
            BY <1>b, <2>1, <3>2
    <2> QED
        BY <1>6, <2>2, <2>3, <2>4 DEF WaitPass, Turn
<1>7. ASSUME NEW u \in Tasks, NEW j \in Keys, WaitTimesOut(u, j)
      PROVE  PartInv(t, k)'
    BY <1>0, <1>7, <1>b DEF WaitTimesOut, PollTimeout, jobVars
<1>8. ASSUME NEW u \in Tasks, NEW j \in Keys, GivesUp(u, j)
      PROVE  PartInv(t, k)'
    <2>1. /\ stage[u][j] = "waiting" /\ waiter[j][u] = "refused"
          /\ waiter' = [waiter EXCEPT ![j][u] = "out"]
          /\ cancelled' = cancelled
          /\ Ends(u, j, NeverRan(RowsOf(u, j)))
        BY <1>8 DEF GivesUp, EndWait
    <2>2. u = t /\ j = k => cancelled[t] /\ entry[t][k].current = 0
        BY <1>a, <2>1 DEF PartInv
    <2>3. cancelled[t] => Settled(NeverRan(RowsOf(t, k)), t, k)
        BY <1>t DEF Settled, NeverRan, Result, Handled
    <2>4. Handled(NeverRan(RowsOf(t, k))) = 0
        BY DEF Handled, NeverRan, Result
    <2>5. \A x \in Keys, y \in Tasks : ~(x = j /\ y = u) => waiter'[x][y] = waiter[x][y]
        BY <1>0, <2>1
    <2>6. u = t /\ j = k =>
             LET r == NeverRan(RowsOf(u, j)) IN
             Settled(r, t, k) /\ entry[t][k].current <= Handled(r)
        BY <2>2, <2>3, <2>4
    <2>7. /\ stage' = [stage EXCEPT ![u][j] = "ending"]
          /\ outcome' = [outcome EXCEPT ![u][j] = NeverRan(RowsOf(u, j))]
          /\ UNCHANGED <<phase, cancelled, request, entry, result>>
        BY <2>1 DEF Ends
    <2> QED
        BY <1>c, <1>f, <2>1, <2>5, <2>6, <2>7
<1>9. ASSUME NEW u \in Tasks, NEW j \in Keys, MarkRunning(u, j)
      PROVE  PartInv(t, k)'
    <2>1. /\ stage[u][j] = "waiting"
          /\ waiter' = [waiter EXCEPT ![j][u] = "out"]
          /\ stage' = [stage EXCEPT ![u][j] = "running"]
          /\ entry' = [entry EXCEPT ![u][j].state = "running"]
          /\ UNCHANGED <<cancelled, phase, request, outcome, result>>
        BY <1>9 DEF MarkRunning, EndWait
    <2>2. CASE u = t /\ j = k
        <3> DEFINE e == entry[t][k]
        <3>1. e.state = "queued" /\ e.current = 0 /\ e.current = Handled(e) /\ phase[t] = "accepted"
            BY <1>a, <2>1, <2>2 DEF PartInv
        <3>2. entry'[t][k] = [e EXCEPT !.state = "running"]
            BY <1>0, <2>1, <2>2
        <3>3. e \in EntryType /\ stage'[t][k] = "running"
            BY <1>0, <2>1, <2>2
        <3> HIDE DEF e
        <3>4. /\ entry'[t][k].state = "running"
              /\ entry'[t][k].current = 0
              /\ Handled(entry'[t][k]) = 0
            BY <3>1, <3>2, <3>3 DEF EntryType, Handled
        <3>5. RowsOf(t, k)' = RowsOf(t, k)
            BY <2>1 DEF RowsOf
        <3> QED
            BY <1>t, <2>1, <3>1, <3>3, <3>4, <3>5 DEF PartInv
    <2>3. CASE ~(u = t /\ j = k)
        BY <1>0, <1>b, <2>1, <2>3
    <2> QED
        BY <2>2, <2>3
<1>10. ASSUME NEW u \in Tasks, NEW j \in Keys, TakeRow(u, j)
       PROVE  PartInv(t, k)'
    <2>1. /\ stage[u][j] = "running"
          /\ entry[u][j].current < RowsOf(u, j)
          /\ stage' = [stage EXCEPT ![u][j] = "calling"]
          /\ UNCHANGED <<waiter, cancelled, phase, request, entry, outcome, result>>
        BY <1>10 DEF TakeRow, queueVars
    <2>2. CASE u = t /\ j = k
        <3>1. stage'[t][k] = "calling" /\ RowsOf(t, k)' = RowsOf(t, k)
            BY <1>0, <2>1, <2>2 DEF RowsOf
        <3> QED
            BY <1>a, <2>1, <2>2, <3>1 DEF PartInv
    <2>3. CASE ~(u = t /\ j = k)
        BY <1>0, <1>b, <2>1, <2>3
    <2> QED
        BY <2>2, <2>3
<1>11. ASSUME NEW u \in Tasks, NEW j \in Keys, ReportRow(u, j)
       PROVE  PartInv(t, k)'
    <2>1. PICK o \in RowOutcomes : entry' = [entry EXCEPT ![u][j] = Counted(@, o)]
        BY <1>11 DEF ReportRow
    <2>2. /\ stage[u][j] = "calling"
          /\ stage' = [stage EXCEPT ![u][j] = "running"]
          /\ UNCHANGED <<waiter, cancelled, phase, request, outcome, result>>
        BY <1>11 DEF ReportRow, queueVars
    <2>3. CASE u = t /\ j = k
        <3> DEFINE e == entry[t][k]
        <3>1. /\ e.state = "running" /\ e.current < RowsOf(t, k)
              /\ e.current = Handled(e) /\ phase[t] = "accepted"
            BY <1>a, <2>2, <2>3 DEF PartInv
        <3>2. entry'[t][k] = Counted(e, o) /\ stage'[t][k] = "running"
            BY <1>0, <2>1, <2>2, <2>3
        <3>3. o[1] \in Nat /\ o[2] \in Nat /\ o[3] \in Nat /\ o[1] + o[2] + o[3] = 1
            BY OutcomesAssumption
        <3>4. Counted(e, o).state = e.state
            BY DEF Counted, Entry
        <3>5. Counted(e, o).current = e.current + 1
            <4>1. Counted(e, o).current
                    = (e.success + o[1]) + (e.fail + o[2]) + (e.skip + o[3])
                BY DEF Counted, Entry
            <4>2. e.current = e.success + e.fail + e.skip
                BY <3>1 DEF Handled
            <4> QED
                BY <1>d, <3>3, <4>1, <4>2
        <3>6. Counted(e, o).current = Handled(Counted(e, o))
            BY DEF Counted, Entry, Handled
        <3>7. RowsOf(t, k)' = RowsOf(t, k)
            BY <2>2 DEF RowsOf
        <3> HIDE DEF e
        <3>8. e.current + 1 <= RowsOf(t, k)
            BY <1>d, <1>t, <3>1 DEF e
        <3> QED
            BY <2>2, <3>1, <3>2, <3>4, <3>5, <3>6, <3>7, <3>8 DEF PartInv
    <2>4. CASE ~(u = t /\ j = k)
        BY <1>0, <1>b, <2>1, <2>2, <2>4
    <2> QED
        BY <2>3, <2>4
<1>12. ASSUME NEW u \in Tasks, NEW j \in Keys, WorkerReturns(u, j)
       PROVE  PartInv(t, k)'
    <2> DEFINE e == entry[u][j]
               left == RowsOf(u, j) - e.current
    <2>1. PICK late \in 0..left :
              Ends(u, j, Result("done", RowsOf(u, j), e.success, e.fail, e.skip + late, left - late))
        BY <1>12 DEF WorkerReturns
    <2> DEFINE r == Result("done", RowsOf(u, j), e.success, e.fail, e.skip + late, left - late)
    <2>2. stage[u][j] = "running" /\ UNCHANGED <<waiter, cancelled>>
        BY <1>12 DEF WorkerReturns, queueVars
    <2>3. /\ RowsOf(u, j) \in Nat /\ e.current \in Nat
          /\ e.success \in Nat /\ e.fail \in Nat /\ e.skip \in Nat
        BY <1>0, RowsTyped DEF EntryType
    <2>4. r \in ResultType
        <3>1. e.skip + late \in Nat /\ left - late \in Nat
            BY <2>3
        <3> QED
            BY <2>3, <3>1, ResultTyped DEF States
    <2>5. u = t /\ j = k => Settled(r, t, k) /\ e.current <= Handled(r)
        <3>1. u = t /\ j = k => e.current = Handled(e)
            BY <1>a DEF PartInv
        <3> QED
            BY <2>3, <3>1 DEF Settled, Result, Handled
    <2> HIDE DEF r
    <2>6. Ends(u, j, r)
        BY <2>1 DEF r
    <2> QED
        BY <1>c, <2>2, <2>4, <2>5, <2>6 DEF Ends
<1>13. ASSUME NEW u \in Tasks, NEW j \in Keys, WorkerRaises(u, j)
       PROVE  PartInv(t, k)'
    <2>1. /\ stage[u][j] \in {"running", "calling"}
          /\ Ends(u, j, FailedResult(RowsOf(u, j)))
          /\ UNCHANGED <<waiter, cancelled>>
        BY <1>13 DEF WorkerRaises, queueVars
    <2>2. u = t /\ j = k => entry[t][k].current <= RowsOf(t, k)
        BY <1>a, <2>1 DEF PartInv
    <2> QED
        BY <1>c, <1>e, <1>f, <2>1, <2>2 DEF Ends
<1>14. ASSUME NEW u \in Tasks, NEW j \in Keys, ReleaseLine(u, j)
       PROVE  PartInv(t, k)'
    <2>1. /\ stage[u][j] = "ending"
          /\ stage' = [stage EXCEPT ![u][j] = "released"]
          /\ waiter' \in {waiter, Notified(waiter)}
          /\ UNCHANGED <<cancelled, phase, request, entry, outcome, result>>
        BY <1>14 DEF ReleaseLine, Release
    <2>2. CASE u = t /\ j = k
        <3>1. stage'[t][k] = "released"
            BY <1>0, <2>1, <2>2
        <3>2. ASSUME NEW r, Settled(r, t, k)
              PROVE  Settled(r, t, k)'
            BY <2>1, <3>2 DEF Settled, RowsOf
        <3> QED
            BY <1>a, <2>1, <2>2, <3>1, <3>2 DEF PartInv
    <2>3. CASE ~(u = t /\ j = k)
        <3>1. waiter'[k][t] = "refused" => waiter[k][t] = "refused"
            BY <2>1, NotifiedRefuses
        <3>2. stage'[t][k] = stage[t][k]
            BY <1>0, <2>1, <2>3
        <3> QED
            BY <1>b, <2>1, <3>1, <3>2
    <2> QED
        BY <2>2, <2>3
<1>15. ASSUME NEW u \in Tasks, NEW j \in Keys, Record(u, j)
       PROVE  PartInv(t, k)'
    <2>1. /\ stage[u][j] = "released"
          /\ stage' = [stage EXCEPT ![u][j] = "over"]
          /\ entry' = [entry EXCEPT ![u][j] = Recorded(outcome[u][j])]
          /\ result' = [result EXCEPT ![u][j] = outcome[u][j]]
          /\ UNCHANGED <<waiter, cancelled, phase, request, outcome>>
        BY <1>15 DEF Record, queueVars
    <2>2. CASE u = t /\ j = k
        <3>1. /\ stage'[t][k] = "over"
              /\ entry'[t][k] = Recorded(outcome[t][k])
              /\ result'[t][k] = outcome[t][k]
            BY <1>0, <2>1, <2>2
        <3>2. Settled(outcome[t][k], t, k) /\ phase[t] = "accepted"
            BY <1>a, <2>1, <2>2 DEF PartInv
        <3>3. Settled(result[t][k], t, k)'
            BY <2>1, <3>1, <3>2 DEF Settled, RowsOf
        <3>4. entry'[t][k].current = Handled(entry'[t][k])
            BY <3>1 DEF Recorded, Entry, Handled
        <3>5. entry'[t][k] = Recorded(result'[t][k])
            BY <3>1
        <3> QED
            BY <2>1, <3>1, <3>2, <3>3, <3>4, <3>5 DEF PartInv
    <2>3. CASE ~(u = t /\ j = k)
        BY <1>0, <1>b, <2>1, <2>3
    <2> QED
        BY <2>2, <2>3
<1>16. CASE UNCHANGED vars
    BY <1>16, <1>b DEF vars, jobVars, queueVars
<1> QED
    BY <1>1, <1>2, <1>3, <1>4, <1>5, <1>6, <1>7, <1>8, <1>9, <1>10, <1>11, <1>12,
       <1>13, <1>14, <1>15, <1>16 DEF Next, HandlerStep, ThreadStep, WorkerStep

THEOREM PartsAreAccounted == Spec => []PartsInv
    BY PartsInit, PartsStep, TypeCorrect, LinesHoldTheParts, PTL DEF Spec

(* A part that ends as cancelled never ran, and its task was cancelled.    *)
THEOREM CancelledPartsDidNotRun == Spec => []CancelledPartsNeverRan
<1>1. TypeOK /\ PartsInv => CancelledPartsNeverRan
    <2> SUFFICES ASSUME TypeOK, PartsInv, NEW t \in Tasks, NEW k \in Keys,
                        entry[t][k].state = "cancelled"
                 PROVE  /\ cancelled[t]
                        /\ entry[t][k].current = 0
                        /\ result[t][k].rest = RowsOf(t, k)
        BY DEF CancelledPartsNeverRan
    <2>1. /\ PartInv(t, k)
          /\ stage[t][k] \in StageNames
          /\ result[t][k] \in ResultType
        BY DEF PartsInv, TypeOK, JobTypeOK
    <2>2. stage[t][k] = "over"
        BY <2>1 DEF PartInv, StageNames
    <2>3. Settled(result[t][k], t, k) /\ entry[t][k] = Recorded(result[t][k])
        BY <2>1, <2>2 DEF PartInv
    <2> QED
        BY <2>1, <2>3 DEF Settled, Recorded, Entry, Handled, ResultType
<1> QED
    BY <1>1, PartsAreAccounted, TypeCorrect, PTL

-----------------------------------------------------------------------------
(* What a sum is *)

(* A sum is taken a member at a time. *)
Pick(s) == CHOOSE x \in s : TRUE
Sums(h, f, D) == h = [s \in D |-> IF s = {} THEN 0 ELSE f[Pick(s)] + h[s \ {Pick(s)}]]

LEMMA SumsExist ==
    ASSUME NEW S, IsFiniteSet(S), NEW f
    PROVE  \E h : Sums(h, f, SUBSET S)
<1> DEFINE D(n) == {s \in SUBSET S : Cardinality(s) <= n}
           Bad == {n \in Nat : ~\E h : Sums(h, f, D(n))}
<1>1. \A s \in SUBSET S : IsFiniteSet(s) /\ Cardinality(s) \in Nat
    BY FS_Subset, FS_CardinalityType
<1>2. \E h : Sums(h, f, D(0))
    <2>1. \A s \in D(0) : s = {}
        BY <1>1, FS_EmptySet
    <2>2. Sums([s \in D(0) |-> 0], f, D(0))
        BY <2>1 DEF Sums
    <2> QED
        BY <2>2
<1>3. ASSUME NEW n \in Nat, \E h : Sums(h, f, D(n))
      PROVE  \E h : Sums(h, f, D(n + 1))
    <2>1. PICK g : Sums(g, f, D(n))
        BY <1>3
    <2> DEFINE h == [s \in D(n + 1) |-> IF s = {} THEN 0 ELSE f[Pick(s)] + g[s \ {Pick(s)}]]
    <2>2. D(n) \subseteq D(n + 1)
        BY <1>1
    <2>3. ASSUME NEW s \in D(n) PROVE h[s] = g[s]
        BY <2>1, <2>2 DEF Sums
    <2>4. ASSUME NEW s \in D(n + 1), s # {} PROVE s \ {Pick(s)} \in D(n)
        <3>1. Pick(s) \in s
            BY <2>4 DEF Pick
        <3>2. IsFiniteSet(s) /\ Cardinality(s) \in Nat /\ Cardinality(s) <= n + 1
            BY <1>1
        <3> HIDE DEF h
        <3>3. Cardinality(s \ {Pick(s)}) = Cardinality(s) - 1
            BY <3>1, <3>2, FS_RemoveElement
        <3> QED
            BY <3>2, <3>3
    <2>5. \A s \in D(n + 1) : h[s] = IF s = {} THEN 0 ELSE f[Pick(s)] + h[s \ {Pick(s)}]
        BY <2>3, <2>4
    <2>6. Sums(h, f, D(n + 1))
        BY <2>5 DEF Sums
    <2> QED
        BY <2>6
<1> HIDE DEF D
<1>4. Bad = {}
    <2> SUFFICES ASSUME Bad # {} PROVE FALSE
        OBVIOUS
    <2>1. PICK m \in Bad : \A j \in Bad : m <= j
        BY LeastPosition
    <2>2. m # 0
        BY <1>2
    <2>3. m - 1 \in Nat /\ m - 1 \notin Bad /\ (m - 1) + 1 = m
        BY <2>1, <2>2
    <2>4. \E h : Sums(h, f, D(m))
        BY <1>3, <2>3
    <2> QED
        BY <2>1, <2>4
<1>5. D(Cardinality(S)) = SUBSET S
    <2>1. \A s \in SUBSET S : Cardinality(s) <= Cardinality(S)
        BY FS_Subset
    <2> QED
        BY <2>1 DEF D
<1>6. Cardinality(S) \in Nat
    BY FS_CardinalityType
<1> QED
    BY <1>4, <1>5, <1>6

LEMMA SumIs ==
    ASSUME NEW f, IsFiniteSet(Keys)
    PROVE  \E h : Sums(h, f, SUBSET Keys) /\ SumOf(f) = h[Keys]
<1> DEFINE h == CHOOSE h : Sums(h, f, SUBSET Keys)
<1>1. Sums(h, f, SUBSET Keys)
    BY SumsExist
<1>2. SumOf(f) = h[Keys]
    BY DEF SumOf, MapThenSumSet, MapThenFoldSet, Sums, Pick
<1> QED
    BY <1>1, <1>2

(* What holds of no members, and of a set when it does without the member  *)
(* picked, holds of every subset.                                          *)
LEMMA MemberByMember ==
    ASSUME NEW S, IsFiniteSet(S), NEW Good, {} \in Good,
           \A s \in SUBSET S : s # {} /\ s \ {Pick(s)} \in Good => s \in Good
    PROVE  SUBSET S \subseteq Good
<1> DEFINE Bad == {n \in Nat : \E s \in SUBSET S : Cardinality(s) = n /\ s \notin Good}
<1>1. \A s \in SUBSET S : IsFiniteSet(s) /\ Cardinality(s) \in Nat
    BY FS_Subset, FS_CardinalityType
<1>2. Bad = {}
    <2> SUFFICES ASSUME Bad # {} PROVE FALSE
        OBVIOUS
    <2>1. PICK m \in Bad : \A j \in Bad : m <= j
        BY LeastPosition
    <2>2. PICK s \in SUBSET S : Cardinality(s) = m /\ s \notin Good
        BY <2>1
    <2>3. s # {} /\ Pick(s) \in s /\ s \ {Pick(s)} \in SUBSET S
        <3>1. s # {}
            BY <2>2
        <3>2. Pick(s) \in s
            BY <3>1 DEF Pick
        <3> QED
            BY <3>1, <3>2
    <2>4. s \ {Pick(s)} \notin Good
        BY <2>2, <2>3
    <2>5. Cardinality(s \ {Pick(s)}) = m - 1
        BY <1>1, <2>2, <2>3, FS_RemoveElement
    <2>6. Cardinality(s \ {Pick(s)}) \in Nat
        BY <1>1, <2>3
    <2>7. m - 1 \in Bad
        BY <2>3, <2>4, <2>5, <2>6
    <2> QED
        BY <2>1, <2>5, <2>6, <2>7
<1> QED
    BY <1>1, <1>2


(* Sums add up when their terms do. *)
LEMMA SumsAddUp ==
    ASSUME IsFiniteSet(Keys), NEW a, NEW b, NEW c, NEW d, NEW all,
           \A k \in Keys : /\ a[k] \in Nat /\ b[k] \in Nat /\ c[k] \in Nat /\ d[k] \in Nat
                           /\ all[k] = a[k] + b[k] + c[k] + d[k]
    PROVE  /\ SumOf(a) \in Nat /\ SumOf(b) \in Nat /\ SumOf(c) \in Nat /\ SumOf(d) \in Nat
           /\ SumOf(all) = SumOf(a) + SumOf(b) + SumOf(c) + SumOf(d)
<1>1. PICK ha : Sums(ha, a, SUBSET Keys) /\ SumOf(a) = ha[Keys]
    BY SumIs
<1>2. PICK hb : Sums(hb, b, SUBSET Keys) /\ SumOf(b) = hb[Keys]
    BY SumIs
<1>3. PICK hc : Sums(hc, c, SUBSET Keys) /\ SumOf(c) = hc[Keys]
    BY SumIs
<1>4. PICK hd : Sums(hd, d, SUBSET Keys) /\ SumOf(d) = hd[Keys]
    BY SumIs
<1>5. PICK h : Sums(h, all, SUBSET Keys) /\ SumOf(all) = h[Keys]
    BY SumIs
<1> DEFINE Good == {s \in SUBSET Keys : /\ ha[s] \in Nat /\ hb[s] \in Nat /\ hc[s] \in Nat /\ hd[s] \in Nat
                                        /\ h[s] = ha[s] + hb[s] + hc[s] + hd[s]}
<1>6. {} \in Good
    <2>1. ha[{}] = 0 /\ hb[{}] = 0 /\ hc[{}] = 0 /\ hd[{}] = 0 /\ h[{}] = 0
        BY <1>1, <1>2, <1>3, <1>4, <1>5 DEF Sums
    <2> QED
        BY <2>1
<1>7. ASSUME NEW s \in SUBSET Keys, s # {}, s \ {Pick(s)} \in Good
      PROVE  s \in Good
    <2>1. /\ ha[s] = a[Pick(s)] + ha[s \ {Pick(s)}] /\ hb[s] = b[Pick(s)] + hb[s \ {Pick(s)}]
          /\ hc[s] = c[Pick(s)] + hc[s \ {Pick(s)}] /\ hd[s] = d[Pick(s)] + hd[s \ {Pick(s)}]
          /\ h[s] = all[Pick(s)] + h[s \ {Pick(s)}]
        BY <1>1, <1>2, <1>3, <1>4, <1>5, <1>7 DEF Sums
    <2>2. Pick(s) \in Keys
        BY <1>7 DEF Pick
    <2> QED
        BY <1>7, <2>1, <2>2
<1> HIDE DEF Good
<1>8. SUBSET Keys \subseteq Good
    BY <1>6, <1>7, MemberByMember
<1>9. Keys \in Good
    BY <1>8
<1> QED
    BY <1>1, <1>2, <1>3, <1>4, <1>5, <1>9 DEF Good

-----------------------------------------------------------------------------
(* The summary counts every row *)

(* A part has no result before it has ended, and the summary is made of     *)
(* the results, which no part changes any more.                             *)
Summed(t) ==
    /\ \A k \in Keys : stage[t][k] # "over" => result[t][k] = NoResult
    /\ closing[t] \in {"pushed", "closed"} =>
          summary[t].parts = result[t] /\ summary[t].blocked = request[t].blocked

SummaryInv == \A t \in Tasks : Summed(t)

LEMMA SummaryInit == Init => SummaryInv
    BY DEF Init, SummaryInv, Summed

LEMMA SummaryStep ==
    TypeOK /\ CompletionInv /\ SummaryInv /\ [Next]_vars => SummaryInv'
<1> SUFFICES ASSUME TypeOK, CompletionInv, SummaryInv, [Next]_vars, NEW t \in Tasks
             PROVE  Summed(t)'
    BY DEF SummaryInv
<1>0. /\ request \in [Tasks -> RequestType]
      /\ phase \in [Tasks -> {"new", "refused", "accepted"}]
      /\ stage \in [Tasks -> [Keys -> StageNames]]
      /\ result \in [Tasks -> [Keys -> ResultType]]
      /\ closing \in [Tasks -> ClosingNames]
      /\ summary \in [Tasks -> SummaryType]
    BY DEF TypeOK, JobTypeOK
<1>a. /\ Completing(t)
      /\ \A k \in Keys : stage[t][k] # "over" => result[t][k] = NoResult
      /\ closing[t] \in {"pushed", "closed"} =>
            summary[t].parts = result[t] /\ summary[t].blocked = request[t].blocked
    BY DEF CompletionInv, SummaryInv, Summed
<1>b. ASSUME result'[t] = result[t], request'[t] = request[t], closing'[t] = closing[t], summary'[t] = summary[t],
             \A k \in Keys : stage'[t][k] # "over" => stage[t][k] # "over"
      PROVE  Summed(t)'
    BY <1>a, <1>b DEF Summed
<1>1. ASSUME NEW u \in Tasks, NEW r \in Requests, Submit(u, r)
      PROVE  Summed(t)'
    <2>1. /\ phase[u] = "new"
          /\ request' = [request EXCEPT ![u] = r]
          /\ \E s \in [Keys -> {"unstarted", "none"}] : stage' = [stage EXCEPT ![u] = s]
          /\ \E c \in {"open", "claimed"} : closing' = [closing EXCEPT ![u] = c]
          /\ UNCHANGED <<result, summary>>
        BY <1>1 DEF Submit
    <2>2. CASE u = t
        <3>1. \A k \in Keys : stage[t][k] = "none"
            BY <1>a, <2>1, <2>2 DEF Completing
        <3>2. \A k \in Keys : result'[t][k] = NoResult
            BY <1>a, <2>1, <3>1
        <3>3. closing'[t] \notin {"pushed", "closed"}
            BY <1>0, <2>1, <2>2
        <3> QED
            BY <3>2, <3>3 DEF Summed
    <2>3. CASE u # t
        BY <1>0, <1>b, <2>1, <2>3
    <2> QED
        BY <2>2, <2>3
<1>2. ASSUME NEW u \in Tasks, NEW r \in Requests, SubmitRefused(u, r)
      PROVE  Summed(t)'
    BY <1>2, <1>b DEF SubmitRefused
<1>3. ASSUME NEW u \in Tasks, NEW j \in Keys, Record(u, j)
      PROVE  Summed(t)'
    <2>1. /\ stage[u][j] = "released"
          /\ stage' = [stage EXCEPT ![u][j] = "over"]
          /\ result' = [result EXCEPT ![u][j] = outcome[u][j]]
          /\ closing' = [closing EXCEPT ![u] = IF IsLast(u) THEN "claimed" ELSE @]
          /\ UNCHANGED <<request, summary>>
        BY <1>3 DEF Record
    <2>2. CASE u = t
        <3>1. j \in Unfinished(t)
            BY <2>1, <2>2 DEF Unfinished, Live, StageNames
        <3>2. closing[t] = "open"
            BY <1>a, <3>1 DEF Completing
        <3>3. closing'[t] \notin {"pushed", "closed"}
            BY <1>0, <2>1, <2>2, <3>2
        <3>4. \A k \in Keys \ {j} : stage'[t][k] = stage[t][k] /\ result'[t][k] = result[t][k]
            BY <1>0, <2>1, <2>2
        <3>5. stage'[t][j] = "over"
            BY <1>0, <2>1, <2>2
        <3> QED
            BY <1>a, <3>3, <3>4, <3>5 DEF Summed
    <2>3. CASE u # t
        BY <1>0, <1>b, <2>1, <2>3
    <2> QED
        BY <2>2, <2>3
<1>4. ASSUME NEW u \in Tasks, CompleteStep(u)
      PROVE  Summed(t)'
    <2>1. stage' = stage /\ result' = result /\ request' = request
        BY <1>4 DEF CompleteStep, BuildAndPush, SetDone
    <2>2. CASE u # t
        <3>1. closing'[t] = closing[t] /\ summary'[t] = summary[t]
            BY <1>0, <1>4, <2>2 DEF CompleteStep, BuildAndPush, SetDone
        <3> QED
            BY <1>b, <2>1, <3>1
    <2>3. CASE u = t /\ BuildAndPush(u)
        <3>1. summary'[t] = Summary(result[t], cancelled[t], request[t].blocked)
            BY <1>0, <2>3 DEF BuildAndPush
        <3>2. summary'[t].parts = result[t] /\ summary'[t].blocked = request[t].blocked
            BY <3>1 DEF Summary
        <3> QED
            BY <1>a, <2>1, <3>2 DEF Summed
    <2>4. CASE u = t /\ SetDone(u)
        <3>1. closing[t] = "pushed" /\ summary' = summary
            BY <2>4 DEF SetDone
        <3> QED
            BY <1>a, <2>1, <3>1 DEF Summed
    <2> QED
        BY <1>4, <2>2, <2>3, <2>4 DEF CompleteStep
<1>5. CASE MovesAPart
    <2>1. UNCHANGED <<request, result, closing, summary>>
        BY <1>5 DEF MovesAPart
    <2>2. CASE stage' = stage
        BY <1>b, <2>1, <2>2
    <2>3. ASSUME NEW u \in Tasks, NEW j \in Keys, NEW s \in Live,
                 stage[u][j] \in Live, stage' = [stage EXCEPT ![u][j] = s]
          PROVE  Summed(t)'
        <3>1. \A k \in Keys : stage'[t][k] = stage[t][k] \/ stage[t][k] \in Live
            BY <1>0, <2>3
        <3>2. \A k \in Keys : stage'[t][k] # "over" => stage[t][k] # "over"
            BY <3>1 DEF Live
        <3> QED
            BY <1>b, <2>1, <3>2
    <2> QED
        BY <1>5, <2>2, <2>3 DEF MovesAPart
<1> QED
    BY <1>1, <1>2, <1>3, <1>4, <1>5, JobStepShape

(* Every row submitted is counted once, for any number of gateways and of   *)
(* rows: however its part ended, in one of success, fail, skip and          *)
(* cancelled_remaining (gateway_jobs.py:266-305, build_summary).            *)
THEOREM RowsAreCountedOnce == Spec => []EveryRowCounted
<1>1. TypeOK /\ CompletionInv /\ PartsInv /\ SummaryInv => EveryRowCounted
    <2> SUFFICES ASSUME TypeOK, CompletionInv, PartsInv, SummaryInv, NEW t \in Tasks, done[t]
                 PROVE  LET s == summary[t] IN
                        /\ Total(s) = Submitted(t)
                        /\ Total(s) = Success(s) + Fail(s) + Skip(s) + CancelledRemaining(s)
        BY DEF EveryRowCounted
    <2>1. /\ request[t] \in RequestType
          /\ stage[t] \in [Keys -> StageNames]
          /\ result[t] \in [Keys -> ResultType]
          /\ \A k \in Keys : RowsOf(t, k) \in Nat
        BY RowsTyped DEF TypeOK, JobTypeOK
    <2>2. /\ closing[t] = "closed" /\ Unfinished(t) = {}
          /\ \A k \in Keys : stage[t][k] # "none" <=> k \in Parts(t)
        BY DEF CompletionInv, Completing
    <2>3. /\ \A k \in Keys : stage[t][k] # "over" => result[t][k] = NoResult
          /\ summary[t].parts = result[t] /\ summary[t].blocked = request[t].blocked
        BY <2>2 DEF SummaryInv, Summed
    <2> DEFINE b == request[t].blocked
               total == [k \in Keys |-> result[t][k].total]
               ok == [k \in Keys |-> result[t][k].success]
               ko == [k \in Keys |-> result[t][k].fail]
               sk == [k \in Keys |-> result[t][k].skip]
               rest == [k \in Keys |-> result[t][k].rest]
    <2>4. ASSUME NEW k \in Keys
          PROVE  /\ ok[k] \in Nat /\ ko[k] \in Nat /\ sk[k] \in Nat /\ rest[k] \in Nat
                 /\ total[k] = ok[k] + ko[k] + sk[k] + rest[k]
                 /\ total[k] = request[t].items[k]
        <3>1. result[t][k] \in ResultType
            BY <2>1
        <3>2. ok[k] \in Nat /\ ko[k] \in Nat /\ sk[k] \in Nat /\ rest[k] \in Nat
            BY <3>1 DEF ResultType
        <3>3. CASE stage[t][k] = "over"
            <4>1. Settled(result[t][k], t, k)
                BY <3>3 DEF PartsInv, PartInv
            <4> QED
                BY <3>2, <4>1 DEF Settled, Handled, RowsOf
        <3>4. CASE stage[t][k] # "over"
            <4>1. stage[t][k] = "none"
                BY <2>1, <2>2, <3>4 DEF Unfinished, Live
            <4>2. request[t].items[k] = 0
                BY <2>1, <2>2, <4>1 DEF Parts, RowsOf
            <4>3. result[t][k] = NoResult
                BY <2>3, <3>4
            <4> QED
                BY <3>2, <4>2, <4>3 DEF NoResult, Result
        <3> QED
            BY <3>3, <3>4, <3>2
    <2>5. /\ Total(summary[t]) = b + SumOf(total) /\ Success(summary[t]) = SumOf(ok)
          /\ Fail(summary[t]) = b + SumOf(ko) /\ Skip(summary[t]) = SumOf(sk)
          /\ CancelledRemaining(summary[t]) = SumOf(rest)
        BY <2>3 DEF Total, Success, Fail, Skip, CancelledRemaining
    <2>6. request[t].items = total
        <3>1. request[t].items \in [Keys -> Nat]
            BY <2>1 DEF RequestType
        <3> QED
            BY <2>4, <3>1
    <2>7. Submitted(t) = b + SumOf(total)
        BY <2>6 DEF Submitted
    <2>8. b \in Nat
        BY <2>1 DEF RequestType
    <2> HIDE DEF b, total, ok, ko, sk, rest
    <2>9. /\ SumOf(ok) \in Nat /\ SumOf(ko) \in Nat /\ SumOf(sk) \in Nat /\ SumOf(rest) \in Nat
          /\ SumOf(total) = SumOf(ok) + SumOf(ko) + SumOf(sk) + SumOf(rest)
        <3>1. \A k \in Keys : /\ ok[k] \in Nat /\ ko[k] \in Nat /\ sk[k] \in Nat /\ rest[k] \in Nat
                               /\ total[k] = ok[k] + ko[k] + sk[k] + rest[k]
            BY <2>4
        <3> QED
            BY <3>1, SumsAddUp, KeysAssumption
    <2> QED
        BY <2>5, <2>7, <2>8, <2>9
<1>2. Spec => []SummaryInv
    BY SummaryInit, SummaryStep, TypeCorrect, CompletionIsKept, PTL DEF Spec
<1> QED
    BY <1>1, <1>2, TypeCorrect, CompletionIsKept, PartsAreAccounted, PTL

-----------------------------------------------------------------------------
(* Only forward *)

(* A part's entry moves on: it is never queued again, and its count grows. *)
EntryMovesOn(t, k) ==
    /\ entry[t][k].state # "queued" => entry'[t][k].state # "queued"
    /\ entry[t][k].current <= entry'[t][k].current

LEMMA EntryStep ==
    ASSUME TypeOK, PartsInv, [Next]_vars, NEW t \in Tasks, NEW k \in Keys
    PROVE  EntryMovesOn(t, k)
<1>0. entry \in [Tasks -> [Keys -> EntryType]]
    BY DEF TypeOK, JobTypeOK
<1>a. /\ entry[t][k].current \in Nat
      /\ entry[t][k].success \in Nat /\ entry[t][k].fail \in Nat /\ entry[t][k].skip \in Nat
    BY <1>0 DEF EntryType
<1>b. entry'[t][k] = entry[t][k] => EntryMovesOn(t, k)
    BY <1>a DEF EntryMovesOn
<1>1. ASSUME NEW u \in Tasks, NEW j \in Keys, MarkRunning(u, j)
      PROVE  EntryMovesOn(t, k)
    <2>1. entry' = [entry EXCEPT ![u][j].state = "running"]
        BY <1>1 DEF MarkRunning
    <2>2. CASE u = t /\ j = k
        <3> DEFINE e == entry[t][k]
        <3>1. entry'[t][k] = [e EXCEPT !.state = "running"] /\ e \in EntryType
            BY <1>0, <2>1, <2>2
        <3> HIDE DEF e
        <3>2. entry'[t][k].state = "running" /\ entry'[t][k].current = e.current
            BY <3>1 DEF EntryType
        <3> QED
            BY <1>a, <3>2 DEF EntryMovesOn, e
    <2>3. CASE ~(u = t /\ j = k)
        BY <1>0, <1>b, <2>1, <2>3
    <2> QED
        BY <2>2, <2>3
<1>2. ASSUME NEW u \in Tasks, NEW j \in Keys, ReportRow(u, j)
      PROVE  EntryMovesOn(t, k)
    <2>1. PICK o \in RowOutcomes : entry' = [entry EXCEPT ![u][j] = Counted(@, o)]
        BY <1>2 DEF ReportRow
    <2>2. o[1] \in Nat /\ o[2] \in Nat /\ o[3] \in Nat
        BY OutcomesAssumption
    <2>3. CASE u = t /\ j = k
        <3> DEFINE e == entry[t][k]
        <3>1. entry'[t][k] = Counted(e, o)
            BY <1>0, <2>1, <2>3
        <3>2. e.current = e.success + e.fail + e.skip
            BY DEF PartsInv, PartInv, Handled
        <3>3. /\ Counted(e, o).state = e.state
              /\ Counted(e, o).current = (e.success + o[1]) + (e.fail + o[2]) + (e.skip + o[3])
            BY DEF Counted, Entry
        <3> HIDE DEF e
        <3>4. e.current <= Counted(e, o).current
            BY <1>a, <2>2, <3>2, <3>3 DEF e
        <3> QED
            BY <3>1, <3>3, <3>4 DEF EntryMovesOn, e
    <2>4. CASE ~(u = t /\ j = k)
        BY <1>0, <1>b, <2>1, <2>4
    <2> QED
        BY <2>3, <2>4
<1>3. ASSUME NEW u \in Tasks, NEW j \in Keys, Record(u, j)
      PROVE  EntryMovesOn(t, k)
    <2>1. /\ stage[u][j] = "released"
          /\ entry' = [entry EXCEPT ![u][j] = Recorded(outcome[u][j])]
        BY <1>3 DEF Record
    <2>2. CASE u = t /\ j = k
        <3>1. /\ Settled(outcome[t][k], t, k)
              /\ entry[t][k].current <= Handled(outcome[t][k])
            BY <2>1, <2>2 DEF PartsInv, PartInv
        <3>2. entry'[t][k] = Recorded(outcome[t][k])
            BY <1>0, <2>1, <2>2
        <3> QED
            BY <3>1, <3>2 DEF Settled, Recorded, Entry, Handled, EntryMovesOn
    <2>3. CASE ~(u = t /\ j = k)
        BY <1>0, <1>b, <2>1, <2>3
    <2> QED
        BY <2>2, <2>3
<1>4. CASE entry' = entry
    BY <1>4, <1>b
<1>5. \/ entry' = entry
      \/ \E u \in Tasks, j \in Keys : MarkRunning(u, j) \/ ReportRow(u, j) \/ Record(u, j)
    <2>1. ASSUME NEW u \in Tasks, NEW j \in Keys, ThreadStep(u, j) \/ WaitTimesOut(u, j)
          PROVE  entry' = entry \/ MarkRunning(u, j) \/ ReportRow(u, j) \/ Record(u, j)
        BY <2>1 DEF ThreadStep, WorkerStep, WaitTimesOut, WaitPass, GivesUp, TakeRow,
           WorkerReturns, WorkerRaises, Ends, ReleaseLine, jobVars
    <2>2. HandlerStep \/ (\E u \in Tasks : CompleteStep(u)) \/ UNCHANGED vars => entry' = entry
        BY DEF HandlerStep, Submit, SubmitRefused, StartThread, StartFails, Respond, Cancel,
           CancelSets, CancelWakes, CompleteStep, BuildAndPush, SetDone, vars, jobVars
    <2> QED
        BY <2>1, <2>2 DEF Next
<1> QED
    BY <1>1, <1>2, <1>3, <1>4, <1>5

(* An entry never counts more rows than its part has. *)
LEMMA EntryFits ==
    ASSUME TypeOK, PartsInv, NEW t \in Tasks, NEW k \in Keys
    PROVE  entry[t][k].current <= RowsOf(t, k)
<1>1. /\ PartInv(t, k)
      /\ stage[t][k] \in StageNames /\ RowsOf(t, k) \in Nat
      /\ entry[t][k].current \in Nat
      /\ outcome[t][k] \in ResultType /\ result[t][k] \in ResultType
    BY RowsTyped DEF PartsInv, TypeOK, JobTypeOK, EntryType
<1>2. ASSUME NEW r \in ResultType, Settled(r, t, k)
      PROVE  Handled(r) <= RowsOf(t, k) /\ Handled(r) \in Nat
    BY <1>1, <1>2 DEF Settled, Handled, ResultType
<1>3. CASE stage[t][k] \in {"none", "unstarted", "waiting", "running", "calling"}
    BY <1>1, <1>3 DEF PartInv
<1>4. CASE stage[t][k] \in {"ending", "released"}
    <2>1. Settled(outcome[t][k], t, k) /\ entry[t][k].current <= Handled(outcome[t][k])
        BY <1>1, <1>4 DEF PartInv
    <2>2. Handled(outcome[t][k]) <= RowsOf(t, k) /\ Handled(outcome[t][k]) \in Nat
        BY <1>1, <1>2, <2>1
    <2> QED
        BY <1>1, <2>1, <2>2
<1>5. CASE stage[t][k] = "over"
    <2>1. Settled(result[t][k], t, k) /\ entry[t][k] = Recorded(result[t][k])
        BY <1>1, <1>5 DEF PartInv
    <2>2. entry[t][k].current = Handled(result[t][k])
        BY <2>1 DEF Recorded, Entry, Handled
    <2> QED
        BY <1>1, <1>2, <2>1, <2>2
<1> QED
    BY <1>1, <1>3, <1>4, <1>5 DEF StageNames

(* What was accepted stays accepted, with its request; what is done stays. *)
LEMMA AcceptedStays ==
    ASSUME TypeOK, CompletionInv, [Next]_vars, NEW t \in Tasks
    PROVE  /\ phase[t] = "accepted" => request'[t] = request[t]
           /\ done[t] => done'[t] /\ summary'[t] = summary[t] /\ pushes'[t] = pushes[t]
<1>0. /\ phase \in [Tasks -> {"new", "refused", "accepted"}]
      /\ request \in [Tasks -> RequestType]
      /\ closing \in [Tasks -> ClosingNames]
      /\ done \in [Tasks -> BOOLEAN]
      /\ pushes \in [Tasks -> Nat]
      /\ summary \in [Tasks -> SummaryType]
    BY DEF TypeOK, JobTypeOK
<1>1. done[t] => closing[t] = "closed"
    BY DEF CompletionInv, Completing
<1>2. ASSUME NEW u \in Tasks, NEW r \in Requests, Submit(u, r) \/ SubmitRefused(u, r)
      PROVE  /\ phase[t] = "accepted" => request'[t] = request[t]
             /\ UNCHANGED <<done, summary, pushes>>
    BY <1>0, <1>2 DEF Submit, SubmitRefused
<1>3. ASSUME NEW u \in Tasks, CompleteStep(u)
      PROVE  /\ UNCHANGED request
             /\ done[t] => done'[t] /\ summary'[t] = summary[t] /\ pushes'[t] = pushes[t]
    BY <1>0, <1>1, <1>3 DEF CompleteStep, BuildAndPush, SetDone
<1>4. ASSUME MovesAPart \/ \E u \in Tasks, j \in Keys : Record(u, j)
      PROVE  UNCHANGED <<request, done, summary, pushes>>
    BY <1>4 DEF MovesAPart, Record
<1> QED
    BY <1>2, <1>3, <1>4, JobStepShape

(* Once a task is done no part of it has a step left. *)
LEMMA DoneStays ==
    ASSUME TypeOK, CompletionInv, [Next]_vars, NEW t \in Tasks, done[t]
    PROVE  entry'[t] = entry[t] /\ result'[t] = result[t]
<1>0. /\ entry \in [Tasks -> [Keys -> EntryType]]
      /\ result \in [Tasks -> [Keys -> ResultType]]
    BY DEF TypeOK, JobTypeOK
<1>1. \A k \in Keys : stage[t][k] \notin Live
    BY DEF CompletionInv, Completing, Unfinished
<1>2. ASSUME NEW u \in Tasks, NEW j \in Keys,
             MarkRunning(u, j) \/ ReportRow(u, j) \/ Record(u, j)
      PROVE  entry'[t] = entry[t] /\ result'[t] = result[t]
    <2>1. stage[u][j] \in Live
        BY <1>2 DEF MarkRunning, ReportRow, Record, Live, StageNames
    <2>2. u # t
        BY <1>1, <2>1
    <2> QED
        BY <1>0, <1>2, <2>2 DEF MarkRunning, ReportRow, Record
<1>3. \/ UNCHANGED <<entry, result>>
      \/ \E u \in Tasks, j \in Keys : MarkRunning(u, j) \/ ReportRow(u, j) \/ Record(u, j)
    <2>1. ASSUME NEW u \in Tasks, NEW j \in Keys, ThreadStep(u, j) \/ WaitTimesOut(u, j)
          PROVE  \/ UNCHANGED <<entry, result>>
                 \/ MarkRunning(u, j) \/ ReportRow(u, j) \/ Record(u, j)
        BY <2>1 DEF ThreadStep, WorkerStep, WaitTimesOut, WaitPass, GivesUp, TakeRow,
           WorkerReturns, WorkerRaises, Ends, ReleaseLine, jobVars
    <2>2. HandlerStep \/ (\E u \in Tasks : CompleteStep(u)) \/ UNCHANGED vars
              => UNCHANGED <<entry, result>>
        BY DEF HandlerStep, Submit, SubmitRefused, StartThread, StartFails, Respond, Cancel,
           CancelSets, CancelWakes, CompleteStep, BuildAndPush, SetDone, vars, jobVars
    <2> QED
        BY <2>1, <2>2 DEF Next
<1> QED
    BY <1>2, <1>3

LEMMA StatusStep ==
    ASSUME TypeOK, CompletionInv, PartsInv, [Next]_vars,
           NEW t \in Tasks, phase[t] = "accepted"
    PROVE  Rank(Status(t)') > Rank(Status(t)) \/ Status(t)' = Status(t)
<1>1. /\ \A k \in Keys : EntryMovesOn(t, k)
      /\ Parts(t)' = Parts(t) /\ Parts(t) \subseteq Keys
    BY EntryStep, AcceptedStays DEF Parts, RowsOf
<1>2. CASE done[t]
    BY <1>2, AcceptedStays DEF Status
<1>3. CASE ~done[t] /\ done'[t]
    <2>1. Status(t) \in {"queued", "running"} /\ Status(t)' \in {"done", "cancelled"}
        BY <1>3 DEF Status
    <2> QED
        BY <2>1 DEF Rank
<1>4. CASE ~done[t] /\ ~done'[t]
    <2>1. Status(t) \in {"queued", "running"} /\ Status(t)' \in {"queued", "running"}
        BY <1>4 DEF Status
    <2>2. Status(t) = "running" => Status(t)' = "running"
        BY <1>1, <1>4 DEF Status, EntryMovesOn
    <2> QED
        BY <2>1, <2>2 DEF Rank
<1> QED
    BY <1>2, <1>3, <1>4

(* Status, progress and the last word only move forward. *)
THEOREM TasksMoveForward == Spec => OnlyForward
<1>1. TypeOK /\ CompletionInv /\ PartsInv /\ TypeOK' /\ PartsInv' /\ [Next]_vars
        => [StatusMovesOn /\ ProgressMovesOn /\ LastWordStays]_vars
    <2> SUFFICES ASSUME TypeOK, CompletionInv, PartsInv, TypeOK', PartsInv', [Next]_vars
                 PROVE  StatusMovesOn /\ ProgressMovesOn /\ LastWordStays
        OBVIOUS
    <2>1. StatusMovesOn
        BY StatusStep DEF StatusMovesOn
    <2>2. ProgressMovesOn
        <3> SUFFICES ASSUME NEW t \in Tasks, NEW k \in Keys, phase[t] = "accepted"
                     PROVE  /\ entry[t][k].current <= entry'[t][k].current
                            /\ entry'[t][k].current <= RowsOf(t, k)
            BY DEF ProgressMovesOn
        <3>1. (entry[t][k].current <= RowsOf(t, k))'
            BY EntryFits, PTL
        <3>2. RowsOf(t, k)' = RowsOf(t, k)
            BY AcceptedStays DEF RowsOf
        <3> QED
            BY <3>1, <3>2, EntryStep DEF EntryMovesOn
    <2>3. LastWordStays
        <3> SUFFICES ASSUME NEW t \in Tasks, done[t]
                     PROVE  UNCHANGED <<done[t], summary[t], entry[t], result[t], pushes[t]>>
            BY DEF LastWordStays
        <3>1. done \in [Tasks -> BOOLEAN] /\ done' \in [Tasks -> BOOLEAN]
            BY DEF TypeOK, JobTypeOK
        <3> QED
            BY <3>1, AcceptedStays, DoneStays
    <2> QED
        BY <2>1, <2>2, <2>3
<1> QED
    BY <1>1, TypeCorrect, CompletionIsKept, PartsAreAccounted, PTL DEF Spec, OnlyForward

-----------------------------------------------------------------------------
(* The abstract service *)

(* The service's variables, as ImplementsService maps them. *)
Arrived == {t \in Tasks : phase[t] = "accepted"}
Present == [k \in Keys |-> {t \in Tasks : InLine(k, t)}]
Ahead == [k \in Keys |-> [t \in Tasks |-> {u \in Tasks : Before(k, u, t)}]]
Serving == [k \in Keys |-> {t \in Tasks : HasGateway(t, k)}]
Answered == {t \in Tasks : done[t]}

LEMMA ServiceInitial == Init => Service!ServiceInit
<1> SUFFICES ASSUME Init
             PROVE  Service!ServiceInit
    OBVIOUS
<1>1. \A k \in Keys : Len(queues[k]) = 0
    BY EmptySeq DEF Init, QueueInit
<1>2. \A k \in Keys, t \in Tasks : ~InLine(k, t) /\ ~HasGateway(t, k)
    BY <1>1 DEF Init, InLine, HasGateway
<1>3. \A k \in Keys, t \in Tasks, u \in Tasks : ~Before(k, u, t)
    BY <1>1 DEF Before
<1> QED
    BY <1>2, <1>3 DEF Init, Service!ServiceInit

LEMMA SameLines == queues' = queues => Present' = Present /\ Ahead' = Ahead
BY DEF Present, Ahead, InLine, Before

LEMMA SameServing ==
    ASSUME \A t \in Tasks, k \in Keys : HasGateway(t, k)' <=> HasGateway(t, k)
    PROVE  Serving' = Serving
BY DEF Serving

(* A step of a part that is served after it if and only if it was before.  *)
LEMMA SamePart ==
    ASSUME TypeOK, NEW t \in Tasks, NEW k \in Keys, NEW s \in StageNames, NEW w \in WaiterStates,
           stage' = [stage EXCEPT ![t][k] = s],
           waiter' \in {waiter, Notified(waiter), [waiter EXCEPT ![k][t] = w]},
           HasGateway(t, k)' <=> HasGateway(t, k)
    PROVE  Serving' = Serving
<1>1. /\ stage \in [Tasks -> [Keys -> StageNames]]
      /\ waiter \in [Keys -> [Tasks -> WaiterStates]]
    BY DEF TypeOK, JobTypeOK, QueueTypeOK
<1>2. ASSUME NEW u \in Tasks, NEW j \in Keys, ~(u = t /\ j = k)
      PROVE  HasGateway(u, j)' <=> HasGateway(u, j)
    <2>1. stage'[u][j] = stage[u][j]
        BY <1>1, <1>2
    <2>2. waiter'[j][u] = "granted" <=> waiter[j][u] = "granted"
        BY <1>1, <1>2 DEF Notified
    <2> QED
        BY <2>1, <2>2 DEF HasGateway
<1> QED
    BY <1>2, SameServing

(* One part's service starts or ends. *)
LEMMA OneServed ==
    ASSUME TypeOK, NEW t \in Tasks, NEW k \in Keys,
           \A u \in Tasks, j \in Keys :
              ~(u = t /\ j = k) => (HasGateway(u, j)' <=> HasGateway(u, j))
    PROVE  /\ HasGateway(t, k)' => Serving' = [Serving EXCEPT ![k] = @ \cup {t}]
           /\ ~HasGateway(t, k)' => Serving' = [Serving EXCEPT ![k] = @ \ {t}]
BY DEF Serving

(* A task leaves one line. *)
LEMMA OneLeaves ==
    ASSUME TypeOK, NoDuplicates, NEW t \in Tasks, NEW k \in Keys, queues' = Removed(k, t)
    PROVE  /\ Present' = [Present EXCEPT ![k] = @ \ {t}]
           /\ Ahead' = [Ahead EXCEPT ![k] =
                           [u \in Tasks |-> IF u = t THEN {} ELSE @[u] \ {t}]]
<1>1. \A j \in Keys, u \in Tasks : InLine(j, u)' <=> InLine(j, u) /\ ~(k = j /\ t = u)
    BY InLineRemoved DEF TypeOK
<1>2. \A j \in Keys, u \in Tasks, v \in Tasks :
         Before(j, u, v)' <=> Before(j, u, v) /\ ~(k = j /\ (u = t \/ v = t))
    BY BeforeRemoved DEF TypeOK
<1>3. Present' = [Present EXCEPT ![k] = @ \ {t}]
    BY <1>1 DEF Present
<1>4. Ahead' = [Ahead EXCEPT ![k] = [u \in Tasks |-> IF u = t THEN {} ELSE @[u] \ {t}]]
    BY <1>2 DEF Ahead
<1> QED
    BY <1>3, <1>4

(* A task joins the lines of its parts. *)
LEMMA OneArrives ==
    ASSUME TypeOK, NEW t \in Tasks, NEW K \in SUBSET Keys, queues' = Appended(t, K),
           \A k \in K : ~InLine(k, t)
    PROVE  /\ Present' = [k \in Keys |-> IF k \in K THEN Present[k] \cup {t} ELSE Present[k]]
           /\ Ahead' = [k \in Keys |-> [u \in Tasks |->
                           IF k \in K /\ u = t THEN Present[k] ELSE Ahead[k][u]]]
<1>1. \A k \in Keys, u \in Tasks : InLine(k, u)' <=> InLine(k, u) \/ (k \in K /\ u = t)
    BY InLineAppended DEF TypeOK
<1>2. \A k \in Keys, u \in Tasks, v \in Tasks :
         Before(k, u, v)' <=> Before(k, u, v) \/ (k \in K /\ InLine(k, u) /\ v = t)
    BY BeforeAppended DEF TypeOK
<1>3. \A k \in K, u \in Tasks : ~Before(k, u, t)
    BY DEF Before, InLine
<1>4. Present' = [k \in Keys |-> IF k \in K THEN Present[k] \cup {t} ELSE Present[k]]
    BY <1>1 DEF Present
<1>5. ASSUME NEW k \in Keys, NEW u \in Tasks
      PROVE  {v \in Tasks : Before(k, v, u)'}
                = IF k \in K /\ u = t THEN {v \in Tasks : InLine(k, v)}
                  ELSE {v \in Tasks : Before(k, v, u)}
    BY <1>2, <1>3
<1>6. Ahead' = [k \in Keys |-> [u \in Tasks |->
                   IF k \in K /\ u = t THEN Present[k] ELSE Ahead[k][u]]]
    BY <1>5 DEF Ahead, Present
<1> QED
    BY <1>4, <1>6

(* Each step of the job runner is a step of the service, or none.          *)
LEMMA ServiceStep ==
    ASSUME TypeOK, NoDuplicates, LinesMatchParts, CompletionInv, PartsInv, [Next]_vars
    PROVE  [Service!ServiceNext]_(Service!serviceVars)
<1> DEFINE Step == [Service!ServiceNext]_(Service!serviceVars)
<1>0. /\ QueueTypeOK
      /\ stage \in [Tasks -> [Keys -> StageNames]]
      /\ phase \in [Tasks -> {"new", "refused", "accepted"}]
      /\ done \in [Tasks -> BOOLEAN]
      /\ waiter \in [Keys -> [Tasks -> WaiterStates]]
    BY DEF TypeOK, JobTypeOK, QueueTypeOK
<1>a. ASSUME Arrived' = Arrived, Present' = Present, Ahead' = Ahead, Serving' = Serving,
             Answered' = Answered
      PROVE  Step
    BY <1>a DEF Service!serviceVars, Arrived, Present, Ahead, Serving, Answered
<1>b. UNCHANGED <<phase, done>> => Arrived' = Arrived /\ Answered' = Answered
    BY DEF Arrived, Answered
<1>c. UNCHANGED <<stage, waiter>> => Serving' = Serving
    BY DEF Serving, HasGateway
<1>1. ASSUME NEW t \in Tasks, NEW r \in Requests, Submit(t, r)
      PROVE  Step
    <2> DEFINE K == {k \in Keys : r.items[k] > 0}
    <2>1. /\ phase[t] = "new"
          /\ phase' = [phase EXCEPT ![t] = "accepted"]
          /\ ~AlreadyQueued(t, K)
          /\ queues' = Appended(t, K)
          /\ UNCHANGED <<waiter, done>>
          /\ \E s \in [Keys -> {"unstarted", "none"}] : stage' = [stage EXCEPT ![t] = s]
        BY <1>1 DEF Submit, EnqueueMany
    <2>2. K \in SUBSET Keys
        OBVIOUS
    <2> HIDE DEF K
    <2>3. Arrived' = Arrived \cup {t} /\ t \notin Arrived /\ Answered' = Answered
        BY <1>0, <2>1 DEF Arrived, Answered
    <2>4. Serving' = Serving
        <3>1. \A k \in Keys : ~HasGateway(t, k) /\ ~HasGateway(t, k)'
            BY <1>0, <2>1 DEF HasGateway, PartsInv, PartInv
        <3>2. \A u \in Tasks, k \in Keys : u # t => (HasGateway(u, k)' <=> HasGateway(u, k))
            BY <1>0, <2>1 DEF HasGateway
        <3> QED
            BY <3>1, <3>2, SameServing
    <2>5. Service!Arrive(t, K)
        BY <2>1, <2>2, <2>3, <2>4, OneArrives
           DEF AlreadyQueued, Service!Arrive, Arrived, Present, Ahead, Serving, Answered
    <2> QED
        BY <2>2, <2>5 DEF Service!ServiceNext
<1>2. ASSUME NEW t \in Tasks, NEW r \in Requests, SubmitRefused(t, r)
      PROVE  Step
    <2>1. Arrived' = Arrived
        BY <1>0, <1>2 DEF SubmitRefused, Arrived
    <2>2. UNCHANGED <<queues, stage, waiter, done>>
        BY <1>2 DEF SubmitRefused, EnqueueRefused, queueVars
    <2> QED
        BY <1>a, <1>c, <2>1, <2>2, SameLines DEF Answered
<1>3. ASSUME NEW t \in Tasks, NEW k \in Keys,
             StartThread(t, k) \/ StartFails(t, k) \/ MarkRunning(t, k) \/ GivesUp(t, k)
                \/ TakeRow(t, k) \/ ReportRow(t, k) \/ Record(t, k)
      PROVE  Step
    <2>1. /\ UNCHANGED <<queues, phase, done>>
          /\ \E s \in StageNames : stage' = [stage EXCEPT ![t][k] = s]
          /\ \E w \in WaiterStates : waiter' \in {waiter, [waiter EXCEPT ![k][t] = w]}
        BY <1>3 DEF StartThread, BeginWait, StartFails, MarkRunning, GivesUp, EndWait, Ends,
           TakeRow, ReportRow, Record, queueVars, StageNames, WaiterStates
    <2>2. HasGateway(t, k)' <=> HasGateway(t, k)
        BY <1>0, <1>3 DEF StartThread, BeginWait, StartFails, MarkRunning, GivesUp, EndWait, Ends,
           TakeRow, ReportRow, Record, queueVars, HasGateway
    <2>3. Serving' = Serving
        BY <2>1, <2>2, SamePart
    <2> QED
        BY <1>a, <1>b, <2>1, <2>3, SameLines
<1>4. ASSUME \/ \E t \in Tasks : Respond(t) \/ Cancel(t) \/ CancelSets(t) \/ BuildAndPush(t)
             \/ UNCHANGED vars
      PROVE  Step
    <2>1. UNCHANGED <<queues, waiter, phase, stage, done>>
        BY <1>4 DEF Respond, Cancel, CancelSets, SetCancelled, BuildAndPush, vars, jobVars, queueVars
    <2> QED
        BY <1>a, <1>b, <1>c, <2>1, SameLines
<1>5. ASSUME CancelWakes
      PROVE  Step
    <2>1. UNCHANGED <<queues, phase, stage, done>> /\ waiter' = Notified(waiter)
        BY <1>5 DEF CancelWakes, Wake
    <2>2. Serving' = Serving
        BY <1>0, <2>1, SameServing DEF HasGateway, Notified
    <2> QED
        BY <1>a, <1>b, <2>1, <2>2, SameLines
<1>6. ASSUME NEW t \in Tasks, NEW k \in Keys, WaitPass(t, k)
      PROVE  Step
    <2>1. stage[t][k] = "waiting" /\ UNCHANGED <<phase, stage, done>>
        BY <1>6 DEF WaitPass, jobVars
    <2>2. CASE TurnMissing(k, t) \/ TurnSleeps(k, t)
        <3>1. queues' = queues /\ \E w \in {"refused", "asleep"} : waiter' = [waiter EXCEPT ![k][t] = w]
            BY <2>2 DEF TurnMissing, TurnSleeps
        <3>2. waiter[k][t] = "awake"
            BY <2>2 DEF TurnMissing, TurnSleeps
        <3>3. Serving' = Serving
            BY <1>0, <2>1, <3>1, <3>2, SameServing DEF HasGateway
        <3> QED
            BY <1>a, <1>b, <2>1, <3>1, <3>3, SameLines
    <2>3. CASE TurnGranted(k, t)
        <3>1. /\ IsHead(k, t)
              /\ queues' = queues
              /\ waiter' = [waiter EXCEPT ![k][t] = "granted"]
            BY <2>3 DEF TurnGranted
        <3>2. InLine(k, t) /\ \A u \in Tasks : ~Before(k, u, t)
            <4>1. Len(queues[k]) \in Nat
                BY <1>0, LenProperties DEF QueueTypeOK
            <4> QED
                BY <3>1, <4>1 DEF IsHead, InLine, Before, NoDuplicates
        <3>3. HasGateway(t, k)'
            BY <1>0, <2>1, <3>1 DEF HasGateway
        <3>4. \A u \in Tasks, j \in Keys :
                 ~(u = t /\ j = k) => (HasGateway(u, j)' <=> HasGateway(u, j))
            BY <1>0, <2>1, <3>1 DEF HasGateway
        <3>5. Serving' = [Serving EXCEPT ![k] = @ \cup {t}]
            BY <3>3, <3>4, OneServed
        <3>6. t \in Present[k] /\ Ahead[k][t] = {}
            BY <3>2 DEF Present, Ahead
        <3>7. Service!Serve(k, t)
            BY <1>b, <2>1, <3>1, <3>5, <3>6, SameLines
               DEF Service!Serve, Arrived, Present, Ahead, Serving, Answered
        <3> QED
            BY <3>7 DEF Service!ServiceNext
    <2>4. CASE TurnCancelled(k, t)
        <3>1. /\ waiter[k][t] = "awake" /\ InLine(k, t)
              /\ queues' = Removed(k, t)
              /\ waiter' = [Notified(waiter) EXCEPT ![k][t] = "refused"]
            BY <2>4 DEF TurnCancelled
        <3>2. Notified(waiter) \in [Keys -> [Tasks -> WaiterStates]]
            BY <1>0, NotifiedType
        <3>3. \A u \in Tasks, j \in Keys :
                 waiter'[j][u] = "granted" <=> waiter[j][u] = "granted"
            BY <1>0, <3>1, <3>2 DEF Notified
        <3>4. Serving' = Serving
            BY <2>1, <3>3, SameServing DEF HasGateway
        <3>5. t \in Present[k] \ Serving[k]
            BY <2>1, <3>1 DEF Present, Serving, HasGateway
        <3>6. Service!Leave(k, t)
            BY <1>b, <2>1, <3>1, <3>4, <3>5, OneLeaves
               DEF Service!Leave, Arrived, Present, Ahead, Serving, Answered
        <3> QED
            BY <3>6 DEF Service!ServiceNext
    <2> QED
        BY <1>6, <2>2, <2>3, <2>4 DEF WaitPass, Turn
<1>7. ASSUME NEW t \in Tasks, NEW k \in Keys, WaitTimesOut(t, k)
      PROVE  Step
    <2>1. /\ UNCHANGED <<queues, phase, stage, done>>
          /\ waiter[k][t] = "asleep" /\ waiter' = [waiter EXCEPT ![k][t] = "awake"]
        BY <1>7 DEF WaitTimesOut, PollTimeout, jobVars
    <2>2. Serving' = Serving
        BY <1>0, <2>1, SameServing DEF HasGateway
    <2> QED
        BY <1>a, <1>b, <2>1, <2>2, SameLines
<1>8. ASSUME NEW t \in Tasks, NEW k \in Keys, WorkerReturns(t, k) \/ WorkerRaises(t, k)
      PROVE  Step
    <2>1. /\ stage[t][k] \in {"running", "calling"}
          /\ stage' = [stage EXCEPT ![t][k] = "ending"]
          /\ UNCHANGED <<queues, waiter, phase, done>>
        BY <1>8 DEF WorkerReturns, WorkerRaises, Ends, queueVars
    <2>2. HasGateway(t, k) /\ ~HasGateway(t, k)'
        BY <1>0, <2>1 DEF HasGateway
    <2>3. \A u \in Tasks, j \in Keys :
             ~(u = t /\ j = k) => (HasGateway(u, j)' <=> HasGateway(u, j))
        BY <1>0, <2>1 DEF HasGateway
    <2>4. Serving' = [Serving EXCEPT ![k] = @ \ {t}] /\ t \in Serving[k]
        BY <2>2, <2>3, OneServed DEF Serving
    <2>5. Service!EndService(k, t)
        BY <1>b, <2>1, <2>4, SameLines
           DEF Service!EndService, Arrived, Present, Ahead, Serving, Answered
    <2> QED
        BY <2>5 DEF Service!ServiceNext
<1>9. ASSUME NEW t \in Tasks, NEW k \in Keys, ReleaseLine(t, k)
      PROVE  Step
    <2>1. /\ stage[t][k] = "ending"
          /\ stage' = [stage EXCEPT ![t][k] = "released"]
          /\ queues' = Removed(k, t)
          /\ waiter' \in {waiter, Notified(waiter)}
          /\ UNCHANGED <<phase, done>>
        BY <1>9 DEF ReleaseLine, Release
    <2>2. ~HasGateway(t, k) /\ ~HasGateway(t, k)'
        BY <1>0, <2>1 DEF HasGateway
    <2>3. Serving' = Serving
        BY <2>1, <2>2, SamePart DEF StageNames, WaiterStates
    <2>4. CASE InLine(k, t)
        <3>1. t \in Present[k] \ Serving[k]
            BY <2>2, <2>4 DEF Present, Serving
        <3>2. Service!Leave(k, t)
            BY <1>b, <2>1, <2>3, <3>1, OneLeaves
               DEF Service!Leave, Arrived, Present, Ahead, Serving, Answered
        <3> QED
            BY <3>2 DEF Service!ServiceNext
    <2>5. CASE ~InLine(k, t)
        BY <1>0, <1>a, <1>b, <2>1, <2>3, <2>5, RemovedAbsent, SameLines
    <2> QED
        BY <2>4, <2>5
<1>10. ASSUME NEW t \in Tasks, SetDone(t)
       PROVE  Step
    <2>1. /\ closing[t] = "pushed"
          /\ done' = [done EXCEPT ![t] = TRUE]
          /\ UNCHANGED <<queues, waiter, phase, stage>>
        BY <1>10 DEF SetDone, queueVars
    <2>2. /\ phase[t] = "accepted" /\ ~done[t]
          /\ \A k \in Keys : stage[t][k] \notin Live
        BY <2>1 DEF CompletionInv, Completing, Unfinished
    <2>3. \A k \in Keys : ~InLine(k, t)
        BY <1>0, <2>2 DEF LinesMatchParts, NeedsLine, Live, StageNames
    <2>4. t \in Arrived \ Answered /\ Answered' = Answered \cup {t} /\ Arrived' = Arrived
        BY <1>0, <2>1, <2>2 DEF Arrived, Answered
    <2>5. Service!Answer(t)
        BY <1>c, <2>1, <2>3, <2>4, SameLines
           DEF Service!Answer, Arrived, Present, Ahead, Serving, Answered
    <2> QED
        BY <2>5 DEF Service!ServiceNext
<1> QED
    BY <1>1, <1>2, <1>3, <1>4, <1>5, <1>6, <1>7, <1>8, <1>9, <1>10
       DEF Next, HandlerStep, ThreadStep, WorkerStep, CompleteStep

(* The job runner implements the service: first come, first served on each *)
(* gateway, one at a time to its end, an answer once all gateways are left.*)
THEOREM JobsImplementService == Spec => ImplementsService
<1>1. Spec => []NoDuplicates
    BY JobsImplementQueue, LinesHaveNoDuplicates, PTL
<1>2. Init => Service!ServiceInit
    BY ServiceInitial
<1>3. TypeOK /\ NoDuplicates /\ LinesMatchParts /\ CompletionInv /\ PartsInv /\ [Next]_vars
        => [Service!ServiceNext]_(Service!serviceVars)
    BY ServiceStep
<1> QED
    BY <1>1, <1>2, <1>3, TypeCorrect, LinesHoldTheParts, CompletionIsKept, PartsAreAccounted, PTL
       DEF Spec, ImplementsService, Service!ServiceSpec
=============================================================================
