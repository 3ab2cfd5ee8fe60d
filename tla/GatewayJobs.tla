---------------------------- MODULE GatewayJobs ----------------------------
(***************************************************************************)
(* app/gateway_jobs.py together with its callers in app/main.py: one       *)
(* request becomes one task with one part per gateway, each part runs in a *)
(* thread of its own that waits for its gateway's line (GatewayQueue), and *)
(* the last part to end completes the task.                                *)
(*                                                                         *)
(* Who moves.  Request handlers are coroutines without an await in their   *)
(* middle, so the event loop runs one handler at a time; loop says which.  *)
(* Part threads interleave with the handlers and with each other.  The     *)
(* job's lock (_Job.lock) makes end_part's bookkeeping one action.         *)
(*                                                                         *)
(* The worker is any function that keeps the contract of run_job: it       *)
(* handles the rows of one gateway one by one, looks at view.cancelled     *)
(* before each, and returns a summary of that gateway or raises.           *)
(***************************************************************************)
EXTENDS Integers, GatewayQueue

CONSTANTS Requests,  \* what callers submit: rows per gateway (0: no part
                     \* there) and rows that could not be routed
          RowOutcomes, \* how a row may end: one of the counters of
                       \* push_progress <<success, fail, skip>> goes up
          NoKey      \* the event loop is not ending a part itself

RequestType == [items : [Keys -> Nat], blocked : Nat]

ASSUME KeysAssumption == IsFiniteSet(Keys)
ASSUME RequestsAssumption == Requests \subseteq RequestType
ASSUME OutcomesAssumption == RowOutcomes \subseteq {<<1, 0, 0>>, <<0, 1, 0>>, <<0, 0, 1>>}
ASSUME NoKeyAssumption == NoKey \notin Keys

VARIABLES loop,      \* the handler on the event loop
          phase,     \* whether the task was never sent, refused, or accepted
          request,   \* PartSpec items and blocked rows, set when accepted
          stage,     \* program counter of each part's thread
          entry,     \* task.gateways: what the API shows of each part
          outcome,   \* what a part's thread will record: _execute's value
          result,    \* _Job.results
          remaining, \* _Job.remaining
          closing,   \* progress of complete() and push_complete
          summary,   \* task.summary
          done,      \* task.done
          pushes     \* number of "complete" events in task.events

jobVars == <<loop, phase, request, stage, entry, outcome, result, remaining,
             closing, summary, done, pushes>>

vars == <<queueVars, jobVars>>

RowsOf(t, k) == request[t].items[k]
Parts(t) == {k \in Keys : RowsOf(t, k) > 0}

-----------------------------------------------------------------------------
(* The shapes of the data *)

NoRequest == [items |-> [k \in Keys |-> 0], blocked |-> 0]

States == {"queued", "running", "done", "cancelled", "failed"}

Entry(s, ok, ko, sk) ==
    [state |-> s, current |-> ok + ko + sk, success |-> ok, fail |-> ko, skip |-> sk]

EntryType == [state : States, current : Nat, success : Nat, fail : Nat, skip : Nat]

Result(s, n, ok, ko, sk, rest) ==
    [state |-> s, total |-> n, success |-> ok, fail |-> ko, skip |-> sk, rest |-> rest]

ResultType == [state : States, total : Nat, success : Nat, fail : Nat, skip : Nat, rest : Nat]

NoResult == Result("queued", 0, 0, 0, 0, 0)

(* Slips: a misspelt state; the rows of a cancelled part forgotten. *)
NeverRanMisspelt(n) == Result("canceled", n, 0, 0, 0, n)
NeverRanForgets(n) == Result("cancelled", n, 0, 0, 0, 0)

FailedResult(n) == Result("failed", n, 0, n, 0, 0)       \* _failed_result
NeverRan(n) == Result("cancelled", n, 0, 0, 0, n)        \* _execute, not got

(* What build_summary copies: the parts' results and the cancel flag. *)
Summary(parts, c, b) == [parts |-> parts, cancelled |-> c, blocked |-> b]
SummaryType == [parts : [Keys -> ResultType], cancelled : BOOLEAN, blocked : Nat]

NoSummary == Summary([k \in Keys |-> NoResult], FALSE, 0)

(* A handler: at is the part it ends itself because its thread would not   *)
(* start, closes whether completing the task has fallen to it.             *)
Idle == [op |-> "idle"]
Checked(t) == [op |-> "checked", task |-> t]
Cancelling == [op |-> "cancel"]
Submitting(t, k, c) == [op |-> "submit", task |-> t, at |-> k, closes |-> c]

LoopType ==
    {Idle, Cancelling}
    \cup {Checked(t) : t \in Tasks}
    \cup {Submitting(t, k, c) : t \in Tasks, k \in Keys \cup {NoKey}, c \in BOOLEAN}

StageNames ==
    {"none",       \* the task has no part on this gateway
     "unstarted",  \* run_job has not started the thread yet
     "waiting",    \* in wait_turn
     "running",    \* in the worker, at the top of its loop
     "calling",    \* in the worker, busy with one row
     "ending",     \* _execute has returned; end_part comes next
     "released",   \* end_part has released the line
     "over"}       \* end_part has recorded the result

ClosingNames ==
    {"open",       \* some part has not ended
     "claimed",    \* the last part has set _Job.completed
     "pushed",     \* push_complete has set task.summary and put the event
     "closed"}     \* task.done is True

JobTypeOK ==
    /\ loop \in LoopType
    /\ phase \in [Tasks -> {"new", "refused", "accepted"}]
    /\ request \in [Tasks -> RequestType]
    /\ stage \in [Tasks -> [Keys -> StageNames]]
    /\ entry \in [Tasks -> [Keys -> EntryType]]
    /\ outcome \in [Tasks -> [Keys -> ResultType]]
    /\ result \in [Tasks -> [Keys -> ResultType]]
    /\ remaining \in [Tasks -> Int]
    /\ closing \in [Tasks -> ClosingNames]
    /\ summary \in [Tasks -> SummaryType]
    /\ done \in [Tasks -> BOOLEAN]
    /\ pushes \in [Tasks -> Nat]

(* The queue, the jobs and their handlers keep their types.                *)
TypeOK == QueueTypeOK /\ JobTypeOK

Init ==
    /\ QueueInit
    /\ loop = Idle
    /\ phase = [t \in Tasks |-> "new"]
    /\ request = [t \in Tasks |-> NoRequest]
    /\ stage = [t \in Tasks |-> [k \in Keys |-> "none"]]
    /\ entry = [t \in Tasks |-> [k \in Keys |-> Entry("queued", 0, 0, 0)]]
    /\ outcome = [t \in Tasks |-> [k \in Keys |-> NoResult]]
    /\ result = [t \in Tasks |-> [k \in Keys |-> NoResult]]
    /\ remaining = [t \in Tasks |-> 0]
    /\ closing = [t \in Tasks |-> "open"]
    /\ summary = [t \in Tasks |-> NoSummary]
    /\ done = [t \in Tasks |-> FALSE]
    /\ pushes = [t \in Tasks |-> 0]

-----------------------------------------------------------------------------
(* _dispatch_gateway_job and run_job, on the event loop.  The line takes   *)
(* the task before the response; the threads are then started one by one,  *)
(* in an order that is the request's.  A request without parts is          *)
(* completed by the handler.                                               *)

Submit(t, r) ==
    LET K == {k \in Keys : r.items[k] > 0} IN
    /\ loop = Idle
    /\ phase[t] = "new"
    /\ EnqueueMany(t, K)
    /\ loop' = Submitting(t, NoKey, K = {})
    /\ phase' = [phase EXCEPT ![t] = "accepted"]
    /\ request' = [request EXCEPT ![t] = r]
    /\ stage' = [stage EXCEPT ![t] = [k \in Keys |-> IF k \in K THEN "unstarted" ELSE "none"]]
    /\ remaining' = [remaining EXCEPT ![t] = Cardinality(K)]
    /\ closing' = [closing EXCEPT ![t] = IF K = {} THEN "claimed" ELSE "open"]
    /\ UNCHANGED <<entry, outcome, result, summary, done, pushes>>

(* 429: the task just made is taken out of the registry again. *)
SubmitRefused(t, r) ==
    /\ loop = Idle
    /\ phase[t] = "new"
    /\ EnqueueRefused(t, {k \in Keys : r.items[k] > 0})
    /\ phase' = [phase EXCEPT ![t] = "refused"]
    /\ UNCHANGED <<loop, request, stage, entry, outcome, result, remaining,
                   closing, summary, done, pushes>>

(* The handler has nothing left to end itself. *)
HandlerFree(t) ==
    /\ loop.op = "submit"
    /\ loop.task = t
    /\ loop.at # NoKey => stage[t][loop.at] = "over"
    /\ loop.closes => closing[t] = "closed"

StartThread(t, k) ==
    /\ HandlerFree(t)
    /\ stage[t][k] = "unstarted"
    /\ BeginWait(k, t)
    /\ stage' = [stage EXCEPT ![t][k] = "waiting"]
    /\ UNCHANGED <<loop, phase, request, entry, outcome, result, remaining,
                   closing, summary, done, pushes>>

(* Slips: the line is not released; the failure is only logged. *)
StartFailsKeepsLine(t, k) ==
    /\ HandlerFree(t)
    /\ stage[t][k] = "unstarted"
    /\ loop' = [loop EXCEPT !.at = k]
    /\ stage' = [stage EXCEPT ![t][k] = "released"]
    /\ outcome' = [outcome EXCEPT ![t][k] = FailedResult(RowsOf(t, k))]
    /\ UNCHANGED <<queueVars, phase, request, entry, result, remaining,
                   closing, summary, done, pushes>>

StartFailsLogged(t, k) ==
    /\ HandlerFree(t)
    /\ stage[t][k] = "unstarted"
    /\ stage' = [stage EXCEPT ![t][k] = "over"]
    /\ UNCHANGED <<queueVars, loop, phase, request, entry, outcome, result,
                   remaining, closing, summary, done, pushes>>

(* Thread.start raised: the handler itself runs end_part. *)
StartFails(t, k) ==
    /\ HandlerFree(t)
    /\ stage[t][k] = "unstarted"
    /\ loop' = [loop EXCEPT !.at = k]
    /\ stage' = [stage EXCEPT ![t][k] = "ending"]
    /\ outcome' = [outcome EXCEPT ![t][k] = FailedResult(RowsOf(t, k))]
    /\ UNCHANGED <<queueVars, phase, request, entry, result, remaining,
                   closing, summary, done, pushes>>

Respond(t) ==
    /\ HandlerFree(t)
    /\ \A k \in Keys : stage[t][k] # "unstarted"
    /\ loop' = Idle
    /\ UNCHANGED <<queueVars, phase, request, stage, entry, outcome, result,
                   remaining, closing, summary, done, pushes>>

-----------------------------------------------------------------------------
(* The cancel endpoint: the check that the task is not done, the flag, the *)
(* log and the audit record, then the wake-up, also when the task was      *)
(* cancelled before.  The part threads go on between these steps.          *)

Cancel(t) ==
    /\ loop = Idle
    /\ phase[t] = "accepted"
    /\ ~done[t]
    /\ Parts(t) # {}
    /\ loop' = Checked(t)
    /\ UNCHANGED <<queueVars, phase, request, stage, entry, outcome, result,
                   remaining, closing, summary, done, pushes>>

CancelSets(t) ==
    /\ loop = Checked(t)
    /\ SetCancelled(t)
    /\ loop' = Cancelling
    /\ UNCHANGED <<phase, request, stage, entry, outcome, result, remaining,
                   closing, summary, done, pushes>>

(* Slip: the flag is set and nobody is told. *)
CancelTellsNobody ==
    /\ loop = Cancelling
    /\ loop' = Idle
    /\ UNCHANGED <<queueVars, phase, request, stage, entry, outcome, result,
                   remaining, closing, summary, done, pushes>>

CancelWakes ==
    /\ loop = Cancelling
    /\ Wake
    /\ loop' = Idle
    /\ UNCHANGED <<phase, request, stage, entry, outcome, result, remaining,
                   closing, summary, done, pushes>>

-----------------------------------------------------------------------------
(* A part's thread: thread_main, _execute and the worker *)

WaitPass(t, k) ==
    /\ stage[t][k] = "waiting"
    /\ Turn(k, t)
    /\ UNCHANGED jobVars

WaitTimesOut(t, k) ==
    /\ stage[t][k] = "waiting"
    /\ PollTimeout(k, t)
    /\ UNCHANGED jobVars

(* The part leaves for end_part with result r. *)
Ends(t, k, r) ==
    /\ stage' = [stage EXCEPT ![t][k] = "ending"]
    /\ outcome' = [outcome EXCEPT ![t][k] = r]
    /\ UNCHANGED <<loop, phase, request, entry, result, remaining,
                   closing, summary, done, pushes>>

(* wait_turn returned False: the whole part counts as cancelled. *)
GivesUp(t, k) ==
    /\ stage[t][k] = "waiting"
    /\ waiter[k][t] = "refused"
    /\ EndWait(k, t)
    /\ Ends(t, k, NeverRan(RowsOf(t, k)))

MarkRunning(t, k) ==
    /\ stage[t][k] = "waiting"
    /\ waiter[k][t] = "granted"
    /\ EndWait(k, t)
    /\ stage' = [stage EXCEPT ![t][k] = "running"]
    /\ entry' = [entry EXCEPT ![t][k].state = "running"]
    /\ UNCHANGED <<loop, phase, request, outcome, result, remaining,
                   closing, summary, done, pushes>>

TakeRow(t, k) ==
    /\ stage[t][k] = "running"
    /\ ~cancelled[t]
    /\ entry[t][k].current < RowsOf(t, k)
    /\ stage' = [stage EXCEPT ![t][k] = "calling"]
    /\ UNCHANGED <<queueVars, loop, phase, request, entry, outcome, result,
                   remaining, closing, summary, done, pushes>>

(* push_progress, with the worker's counters. *)
Counted(e, o) == Entry(e.state, e.success + o[1], e.fail + o[2], e.skip + o[3])

ReportRow(t, k) ==
    /\ stage[t][k] = "calling"
    /\ \E o \in RowOutcomes : entry' = [entry EXCEPT ![t][k] = Counted(@, o)]
    /\ stage' = [stage EXCEPT ![t][k] = "running"]
    /\ UNCHANGED <<queueVars, loop, phase, request, outcome, result,
                   remaining, closing, summary, done, pushes>>

(* Slip: a part that a cancellation stops half-way calls itself cancelled. *)
WorkerReturnsCancelled(t, k) ==
    LET e == entry[t][k]
        left == RowsOf(t, k) - e.current IN
    /\ stage[t][k] = "running"
    /\ left = 0 \/ cancelled[t] \/ e.fail > 0
    /\ Ends(t, k, Result(IF cancelled[t] THEN "cancelled" ELSE "done",
                         RowsOf(t, k), e.success, e.fail, e.skip, left))
    /\ UNCHANGED queueVars

(* The worker returns at the end of its rows, at a cancellation it has     *)
(* seen, or when its circuit breaker aborts after a failed row             *)
(* (_datatype_worker).*)
(* Cancelled before its first row it also reports as skipped the late rows *)
(* that earlier tasks had handled, of which it has pushed no progress yet. *)
WorkerReturns(t, k) ==
    LET e == entry[t][k]
        left == RowsOf(t, k) - e.current IN
    /\ stage[t][k] = "running"
    /\ left = 0 \/ cancelled[t] \/ e.fail > 0
    /\ \E late \in 0..left :
          /\ late > 0 => e.current = 0 /\ cancelled[t]
          /\ Ends(t, k, Result("done", RowsOf(t, k), e.success, e.fail, e.skip + late, left - late))
    /\ UNCHANGED queueVars

WorkerRaises(t, k) ==
    /\ stage[t][k] \in {"running", "calling"}
    /\ Ends(t, k, FailedResult(RowsOf(t, k)))
    /\ UNCHANGED queueVars

-----------------------------------------------------------------------------
(* end_part: the line is released first, then the result is recorded under *)
(* the job's lock; the part that brings remaining to 0 completes the task. *)

ReleaseLine(t, k) ==
    /\ stage[t][k] = "ending"
    /\ Release(k, t)
    /\ stage' = [stage EXCEPT ![t][k] = "released"]
    /\ UNCHANGED <<loop, phase, request, entry, outcome, result, remaining,
                   closing, summary, done, pushes>>

(* Slip: one part too early. *)
IsNextToLast(t) == remaining[t] - 1 <= 1 /\ closing[t] = "open"

IsLast(t) == remaining[t] - 1 = 0 /\ closing[t] = "open"

Recorded(r) == Entry(r.state, r.success, r.fail, r.skip)

EndedByHandler(t, k) == loop.op = "submit" /\ loop.task = t /\ loop.at = k

Record(t, k) ==
    /\ stage[t][k] = "released"
    /\ stage' = [stage EXCEPT ![t][k] = "over"]
    /\ entry' = [entry EXCEPT ![t][k] = Recorded(outcome[t][k])]
    /\ result' = [result EXCEPT ![t][k] = outcome[t][k]]
    /\ remaining' = [remaining EXCEPT ![t] = @ - 1]
    /\ closing' = [closing EXCEPT ![t] = IF IsLast(t) THEN "claimed" ELSE @]
    /\ loop' = IF EndedByHandler(t, k) THEN [loop EXCEPT !.closes = IsLast(t)] ELSE loop
    /\ UNCHANGED <<queueVars, phase, request, outcome, summary, done, pushes>>

(* build_summary and the first half of push_complete: a cancellation that  *)
(* comes later is not in the summary.                                      *)
BuildAndPush(t) ==
    /\ closing[t] = "claimed"
    /\ closing' = [closing EXCEPT ![t] = "pushed"]
    /\ summary' = [summary EXCEPT ![t] = Summary(result[t], cancelled[t], request[t].blocked)]
    /\ pushes' = [pushes EXCEPT ![t] = @ + 1]
    /\ UNCHANGED <<queueVars, loop, phase, request, stage, entry, outcome,
                   result, remaining, done>>

(* Slip: done before the summary it announces. *)
SetDoneFirst(t) ==
    /\ closing[t] = "claimed"
    /\ done' = [done EXCEPT ![t] = TRUE]
    /\ UNCHANGED <<queueVars, loop, phase, request, stage, entry, outcome,
                   result, remaining, closing, summary, pushes>>

SetDone(t) ==
    /\ closing[t] = "pushed"
    /\ closing' = [closing EXCEPT ![t] = "closed"]
    /\ done' = [done EXCEPT ![t] = TRUE]
    /\ UNCHANGED <<queueVars, loop, phase, request, stage, entry, outcome,
                   result, remaining, summary, pushes>>

-----------------------------------------------------------------------------
(* The specification *)

HandlerStep ==
    \/ \E t \in Tasks :
          \/ \E r \in Requests : Submit(t, r) \/ SubmitRefused(t, r)
          \/ \E k \in Keys : StartThread(t, k) \/ StartFails(t, k)
          \/ Respond(t)
          \/ Cancel(t)
          \/ CancelSets(t)
    \/ CancelWakes

WorkerStep(t, k) ==
    \/ TakeRow(t, k)
    \/ ReportRow(t, k)
    \/ WorkerReturns(t, k)
    \/ WorkerRaises(t, k)

ThreadStep(t, k) ==
    \/ WaitPass(t, k)
    \/ GivesUp(t, k)
    \/ MarkRunning(t, k)
    \/ WorkerStep(t, k)
    \/ ReleaseLine(t, k)
    \/ Record(t, k)

CompleteStep(t) == BuildAndPush(t) \/ SetDone(t)

Next ==
    \/ HandlerStep
    \/ \E t \in Tasks, k \in Keys : ThreadStep(t, k) \/ WaitTimesOut(t, k)
    \/ \E t \in Tasks : CompleteStep(t)

Spec == Init /\ [][Next]_vars

(* Threads get processor time and a worker's calls end (every HTTP request *)
(* and every sleep is bounded); handlers run to their end.  Nothing obliges*)
(* callers to submit or cancel, threads to fail, or the poll to time out.  *)
Fairness ==
    /\ \A t \in Tasks, k \in Keys :
          WF_vars(ThreadStep(t, k)) /\ WF_vars(StartThread(t, k))
    /\ \A t \in Tasks :
          WF_vars(CompleteStep(t)) /\ WF_vars(Respond(t)) /\ WF_vars(CancelSets(t))
    /\ WF_vars(CancelWakes)

FairSpec == Spec /\ Fairness

-----------------------------------------------------------------------------
(* Safety *)

(* One gateway serves one job at a time, the one its line has at the head  *)
(* (gateway_queue.py:5, gateway_jobs.py:9).                                *)
HasGateway(t, k) ==
    \/ stage[t][k] \in {"running", "calling"}
    \/ stage[t][k] = "waiting" /\ waiter[k][t] = "granted"

Exclusive ==
    \A k \in Keys : \A t, u \in Tasks :
        HasGateway(t, k) /\ HasGateway(u, k) => t = u

HolderIsHead ==
    \A t \in Tasks, k \in Keys : HasGateway(t, k) => IsHead(k, t)

(* A line holds exactly the parts that still need their gateway: nothing   *)
(* is left behind that would block it (main.py:1491), a 429 has put the    *)
(* task in no line at all (gateway_queue.py:122), and nothing has lost its *)
(* place before its turn (gateway_jobs.py:217).                            *)
NeedsLine(t, k) ==
    \/ stage[t][k] \in {"unstarted", "running", "calling"}
    \/ stage[t][k] = "waiting" /\ waiter[k][t] # "refused"
    \/ stage[t][k] = "ending" /\ outcome[t][k].state # "cancelled"

LinesMatchParts ==
    \A t \in Tasks, k \in Keys : InLine(k, t) <=> NeedsLine(t, k)

(* The last of the parts, and only it, completes the task: one complete    *)
(* event, none before every part is over (gateway_jobs.py:12, 133).        *)
CompletedOnce ==
    \A t \in Tasks :
        /\ pushes[t] <= 1
        /\ closing[t] # "open" => \A k \in Parts(t) : stage[t][k] = "over"
        /\ done[t] => pushes[t] = 1

(* The totals of task.summary (build_summary). *)
SumOf(f) == MapThenSumSet(LAMBDA k : f[k], Keys)

Total(s) == s.blocked + SumOf([k \in Keys |-> s.parts[k].total])
Success(s) == SumOf([k \in Keys |-> s.parts[k].success])
Fail(s) == s.blocked + SumOf([k \in Keys |-> s.parts[k].fail])
Skip(s) == SumOf([k \in Keys |-> s.parts[k].skip])
CancelledRemaining(s) == SumOf([k \in Keys |-> s.parts[k].rest])

Submitted(t) == request[t].blocked + SumOf(request[t].items)

(* Every row submitted is in exactly one of success, fail, skip and        *)
(* cancelled_remaining of the summary, however its part ended.             *)
EveryRowCounted ==
    \A t \in Tasks : done[t] =>
        LET s == summary[t] IN
        /\ Total(s) = Submitted(t)
        /\ Total(s) = Success(s) + Fail(s) + Skip(s) + CancelledRemaining(s)

(* A part that ends as cancelled never entered its worker, and its task    *)
(* was cancelled (API_SCHEMA.md:240): no part is dropped for another cause.*)
CancelledPartsNeverRan ==
    \A t \in Tasks, k \in Keys : entry[t][k].state = "cancelled" =>
        /\ cancelled[t]
        /\ entry[t][k].current = 0
        /\ result[t][k].rest = RowsOf(t, k)

(* A cancelled task has nobody asleep once its cancel request has woken    *)
(* the waiters: leaving the line never needs the poll (gateway_queue.py:   *)
(* 171-173).                                                               *)
CancelLosesNoWakeup ==
    \A t \in Tasks, k \in Keys :
        waiter[k][t] = "asleep" /\ cancelled[t] => loop = Cancelling

-----------------------------------------------------------------------------
(* What a step may never do: a status never goes back, nor does a part's  *)
(* progress, and nothing changes after done.                               *)

(* Task.status *)
Status(t) ==
    IF done[t] THEN IF summary[t].cancelled THEN "cancelled" ELSE "done"
    ELSE IF Parts(t) # {} /\ \A k \in Parts(t) : entry[t][k].state = "queued"
         THEN "queued" ELSE "running"

Rank(s) == CASE s = "queued" -> 0 [] s = "running" -> 1 [] OTHER -> 2

StatusMovesOn ==
    \A t \in Tasks : phase[t] = "accepted" =>
        Rank(Status(t)') > Rank(Status(t)) \/ Status(t)' = Status(t)

ProgressMovesOn ==
    \A t \in Tasks, k \in Keys : phase[t] = "accepted" =>
        /\ entry[t][k].current <= entry'[t][k].current
        /\ entry'[t][k].current <= RowsOf(t, k)

LastWordStays ==
    \A t \in Tasks : done[t] =>
        UNCHANGED <<done[t], summary[t], entry[t], result[t], pushes[t]>>

(* What a client sees of a task only moves forward: its status, and the    *)
(* progress of each part, from which _push_aggregate_locked sums up, never *)
(* fall back, also when a worker that reported rows raises in the end; the *)
(* progress never passes the part's rows; and whoever reads done has read  *)
(* the last word on entries, results and summary.                          *)
OnlyForward == [][StatusMovesOn /\ ProgressMovesOn /\ LastWordStays]_vars

-----------------------------------------------------------------------------
(* The abstract service.  The line is the order of arrival; a task is      *)
(* answered when its done flag shows it.                                   *)

Service == INSTANCE GatewayService WITH
    arrived <- {t \in Tasks : phase[t] = "accepted"},
    present <- [k \in Keys |-> {t \in Tasks : InLine(k, t)}],
    ahead <- [k \in Keys |-> [t \in Tasks |-> {u \in Tasks : Before(k, u, t)}]],
    serving <- [k \in Keys |-> {t \in Tasks : HasGateway(t, k)}],
    answered <- {t \in Tasks : done[t]}

(* Every behaviour of the job runner is one of the service. *)
ImplementsService == Service!ServiceSpec

-----------------------------------------------------------------------------
(* Liveness *)

(* Every accepted task completes, whatever is cancelled or fails, and      *)
(* without the help of the poll.                                           *)
AcceptedTasksComplete == \A t \in Tasks : phase[t] = "accepted" ~> done[t]

-----------------------------------------------------------------------------
(* What the documentation says of summary.cancelled, "whether the task was *)
(* cancelled" (API_SCHEMA.md:270): a cancel answered with 200 shows in it. *)
CancelShowsInSummary == \A t \in Tasks : done[t] /\ cancelled[t] => summary[t].cancelled
=============================================================================
