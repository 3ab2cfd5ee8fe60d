------------------------------ MODULE TaskPoll ------------------------------
(***************************************************************************)
(* The answer to a poll of a task, while the task's threads write.         *)
(*                                                                         *)
(* get_task_status (main.py) reads a task field by field and takes no      *)
(* lock.  Meanwhile the thread of each part reports its rows, ends, and    *)
(* the last one completes the task (gateway_jobs.py, task_manager.py).     *)
(* The page puts each answer on its panel (static/js/app.js).              *)
(*                                                                         *)
(* Polls and cancel requests are handlers on one event loop: no cancel     *)
(* comes inside a poll.  The line of a gateway is in GatewayJobs; here a   *)
(* part waits for an unknown time.  An entry's numbers, current and        *)
(* success + fail + skip, go together: counted stands for them.            *)
(***************************************************************************)
EXTENDS Integers, Sequences, FiniteSetsExt

CONSTANTS PartCount, \* the parts of the task, 1..PartCount
          RowCount   \* the rows of each part

(* What is assumed of the constants.                                        *)
ConstantsFit ==
    /\ {PartCount, RowCount} \subseteq Nat \ {0}

Parts == 1..PartCount

VARIABLES stage,     \* program counter of each part's thread
          rows,      \* rows its worker has dealt with
          outcome,   \* the state its thread will record; running until then
          entry,     \* task.gateways
          lock,      \* _Job.lock: the part that holds it, 0 when free
          sum,       \* the sum each thread has computed and not pushed yet
          progress,  \* task.progress: current
          summary,   \* task.summary: the rows counted in it, or NoSummary
          noted,     \* task.summary: its field cancelled
          done,      \* task.done
          cancelled, \* task.cancelled
          poll,      \* get_task_status: how much it has read, its answer
          shown      \* what the panel shows

jobVars == <<stage, rows, outcome, entry, lock, sum, progress, summary, noted, done>>
vars == <<jobVars, cancelled, poll, shown>>

-----------------------------------------------------------------------------
(* The shapes of the data *)

Counts == 0..RowCount
Total == PartCount * RowCount
Ended == {"done", "cancelled", "failed"}

NoSummary == -1

(* A number of each part, summed up. *)
SumOf(f) == MapThenSumSet(LAMBDA p : f[p], Parts)

(* total is the same from enqueuing to the end. *)
NewEntry == [state |-> "queued", counted |-> 0]
EntryType == [state : {"queued", "running"} \cup Ended, counted : Counts]

NoAnswer == [gateways |-> [p \in Parts |-> NewEntry], done |-> FALSE, progress |-> 0,
             summary |-> NoSummary, status |-> "queued", cancelled |-> FALSE]
AnswerType == [gateways : [Parts -> EntryType], done : BOOLEAN, progress : 0..Total,
               summary : {NoSummary} \cup 0..Total,
               status : {"queued", "running", "done", "cancelled"}, cancelled : BOOLEAN]

(* What get_task_status reads, in its order: gateway by gateway, then the   *)
(* fields of the task.                                                      *)
Read(p, f) == [of |-> p, field |-> f]
TaskReads == << Read(0, "done"), Read(0, "progress"), Read(0, "summary"),
                Read(0, "status"), Read(0, "cancelled") >>

PartReads(first, second) ==
    [i \in 1..(2 * PartCount) |-> Read((i + 1) \div 2, IF i % 2 = 1 THEN first ELSE second)]

(* A slip: the numbers before the state.                                    *)
ReadsNumbersFirst == PartReads("counted", "state") \o TaskReads
Reads == PartReads("state", "counted") \o TaskReads

NoPoll == [open |-> FALSE, read |-> 0, answer |-> NoAnswer]

Init ==
    /\ stage = [p \in Parts |-> "waiting"]
    /\ rows = [p \in Parts |-> 0]
    /\ outcome = [p \in Parts |-> "running"]
    /\ entry = [p \in Parts |-> NewEntry]
    /\ lock = 0 /\ sum = [p \in Parts |-> 0]
    /\ progress = 0 /\ summary = NoSummary /\ noted = FALSE /\ done = FALSE /\ cancelled = FALSE
    /\ poll = NoPoll /\ shown = NoAnswer

-----------------------------------------------------------------------------
(* The threads of the parts *)

Ends(p, state) ==
    /\ stage' = [stage EXCEPT ![p] = "report"]
    /\ outcome' = [outcome EXCEPT ![p] = state]

(* Its turn has come: _mark_running. *)
MarkRunning(p) ==
    /\ stage[p] = "waiting" /\ lock = 0
    /\ stage' = [stage EXCEPT ![p] = "working"]
    /\ entry' = [entry EXCEPT ![p].state = "running"]
    /\ UNCHANGED <<rows, outcome, lock, sum, progress, summary, noted, done, cancelled, poll, shown>>

(* wait_turn returns False. *)
CancelledInLine(p) ==
    /\ stage[p] = "waiting" /\ cancelled
    /\ Ends(p, "cancelled")
    /\ UNCHANGED <<rows, entry, lock, sum, progress, summary, noted, done, cancelled, poll, shown>>

(* The worker deals with a row, whatever becomes of it, and reports it. *)
WorkRow(p) ==
    /\ stage[p] = "working" /\ rows[p] < RowCount
    /\ rows' = [rows EXCEPT ![p] = @ + 1]
    /\ stage' = [stage EXCEPT ![p] = "report"]
    /\ UNCHANGED <<outcome, entry, lock, sum, progress, summary, noted, done, cancelled, poll, shown>>

(* The worker returns: no row left, or cancelled at the top of its loop.    *)
WorkerReturns(p) ==
    /\ stage[p] = "working"
    /\ rows[p] = RowCount \/ cancelled
    /\ Ends(p, "done")
    /\ UNCHANGED <<rows, entry, lock, sum, progress, summary, noted, done, cancelled, poll, shown>>

(* The worker raises: all rows of the part count as failed. *)
WorkerRaises(p) ==
    /\ stage[p] = "working"
    /\ Ends(p, "failed")
    /\ rows' = [rows EXCEPT ![p] = RowCount]
    /\ UNCHANGED <<entry, lock, sum, progress, summary, noted, done, cancelled, poll, shown>>

(* A slip: an entry is updated without the lock.                            *)
WriteUnlocked(p) ==
    /\ stage[p] = "report"
    /\ entry' = [entry EXCEPT ![p] = [state |-> outcome[p], counted |-> rows[p]]]
    /\ stage' = [stage EXCEPT ![p] = "sum"]
    /\ UNCHANGED <<rows, outcome, lock, sum, progress, summary, noted, done, cancelled, poll, shown>>

(* update_progress and the recording in end_part: with the lock, the entry  *)
(* in one update, then the sum over all parts, then the progress.           *)
WriteEntry(p) ==
    /\ stage[p] = "report" /\ lock = 0
    /\ lock' = p
    /\ entry' = [entry EXCEPT ![p] = [state |-> outcome[p], counted |-> rows[p]]]
    /\ stage' = [stage EXCEPT ![p] = "sum"]
    /\ UNCHANGED <<rows, outcome, sum, progress, summary, noted, done, cancelled, poll, shown>>

SumParts(p) ==
    /\ stage[p] = "sum"
    /\ sum' = [sum EXCEPT ![p] = SumOf([q \in Parts |-> entry[q].counted])]
    /\ stage' = [stage EXCEPT ![p] = "push"]
    /\ UNCHANGED <<rows, outcome, entry, lock, progress, summary, noted, done, cancelled, poll, shown>>

Over(p) == stage[p] \in {"over", "complete", "finish"}
IsLast(p) == \A q \in Parts \ {p} : Over(q)

PushProgress(p) ==
    /\ stage[p] = "push"
    /\ progress' = sum[p]
    /\ sum' = [sum EXCEPT ![p] = 0]
    /\ lock' = 0
    /\ stage' = [stage EXCEPT ![p] = CASE outcome[p] = "running" -> "working"
                                       [] outcome[p] # "running" /\ IsLast(p) -> "complete"
                                       [] OTHER -> "over"]
    /\ UNCHANGED <<rows, outcome, entry, summary, noted, done, cancelled, poll, shown>>

(* build_summary and push_complete, by the thread that ended last: the      *)
(* summary, then done.                                                      *)
PushSummary(p) ==
    /\ stage[p] = "complete"
    /\ summary' = SumOf(rows) /\ noted' = cancelled
    /\ stage' = [stage EXCEPT ![p] = "finish"]
    /\ UNCHANGED <<rows, outcome, entry, lock, sum, progress, done, cancelled, poll, shown>>

SetDone(p) ==
    /\ stage[p] = "finish"
    /\ done' = TRUE
    /\ stage' = [stage EXCEPT ![p] = "over"]
    /\ UNCHANGED <<rows, outcome, entry, lock, sum, progress, summary, noted, cancelled, poll, shown>>

Thread(p) ==
    \/ MarkRunning(p) \/ CancelledInLine(p)
    \/ WorkRow(p) \/ WorkerReturns(p) \/ WorkerRaises(p)
    \/ WriteEntry(p) \/ SumParts(p) \/ PushProgress(p) \/ PushSummary(p) \/ SetDone(p)

-----------------------------------------------------------------------------
(* The event loop *)

Reading == poll.open /\ poll.read < Len(Reads)

(* cancel_task; once done it answers 409. *)
CancelTask ==
    /\ ~Reading /\ ~done /\ ~cancelled
    /\ cancelled' = TRUE
    /\ UNCHANGED <<jobVars, poll, shown>>

(* The page asks again until an answer says done. *)
BeginPoll ==
    /\ ~poll.open /\ ~shown.done
    /\ poll' = [open |-> TRUE, read |-> 0, answer |-> NoAnswer]
    /\ UNCHANGED <<jobVars, cancelled, shown>>

(* Task.status; it reads done once more.  A task that is done was cancelled *)
(* if its summary says so: a request that came later does not count.        *)
Status ==
    CASE done /\ noted  -> "cancelled"
      [] done /\ ~noted -> "done"
      [] ~done /\ (\A p \in Parts : entry[p].state = "queued")  -> "queued"
      [] ~done /\ ~(\A p \in Parts : entry[p].state = "queued") -> "running"

(* One read. *)
ReadNext ==
    LET r == Reads[poll.read + 1]
        a == poll.answer
    IN  /\ Reading
        /\ poll' = [poll EXCEPT !.read = @ + 1, !.answer =
             CASE r.of # 0 /\ r.field = "state"   -> [a EXCEPT !.gateways[r.of].state = entry[r.of].state]
               [] r.of # 0 /\ r.field = "counted" -> [a EXCEPT !.gateways[r.of].counted = entry[r.of].counted]
               [] r.field = "done"      -> [a EXCEPT !.done = done]
               [] r.field = "progress"  -> [a EXCEPT !.progress = progress]
               [] r.field = "summary"   -> [a EXCEPT !.summary = summary]
               [] r.field = "status"    -> [a EXCEPT !.status = Status]
               [] r.field = "cancelled" -> [a EXCEPT !.cancelled = cancelled]]
        /\ UNCHANGED <<jobVars, cancelled, shown>>

-----------------------------------------------------------------------------
(* The page *)

(* _applyTaskStatus: the summary only with done. *)
ApplyTaskStatus ==
    /\ poll.open /\ ~Reading
    /\ shown' = [poll.answer EXCEPT !.summary = IF poll.answer.done THEN @ ELSE NoSummary]
    /\ poll' = NoPoll
    /\ UNCHANGED <<jobVars, cancelled>>

(* TaskPanel.stateText: a part that ended, of a cancelled task, with rows   *)
(* left counts as cancelled.                                                *)
stateText(g) ==
    CASE g.state # "done" -> g.state
      [] g.state = "done" /\ shown.cancelled /\ g.counted < RowCount -> "cancelled"
      [] OTHER -> "finished"

(* TaskPanel.stateClass: the colour of the pill. *)
stateClass(g) ==
    CASE g.state = "queued"  -> "warn"
      [] g.state = "running" -> "info"
      [] g.state = "failed"  -> "err"
      [] stateText(g) = "cancelled" -> "muted"
      [] OTHER -> "ok"

(* TaskPanel.queuedNow, once an answer came. *)
queuedNow == ~shown.done /\ \E p \in Parts : shown.gateways[p].state = "queued"

-----------------------------------------------------------------------------

Next ==
    \/ \E p \in Parts : Thread(p)
    \/ CancelTask \/ BeginPoll \/ ReadNext \/ ApplyTaskStatus

Spec == Init /\ [][Next]_vars

(* Threads run, and the page goes on polling; nobody has to cancel. *)
FairSpec ==
    /\ Spec
    /\ \A p \in Parts : WF_vars(Thread(p))
    /\ WF_vars(BeginPoll \/ ReadNext \/ ApplyTaskStatus)

-----------------------------------------------------------------------------
(* Properties *)

(* The job, the answers and the panel keep their types.                    *)
TypeOK ==
    /\ stage \in [Parts -> {"waiting", "working", "report", "sum", "push", "complete", "finish", "over"}]
    /\ rows \in [Parts -> Counts]
    /\ outcome \in [Parts -> {"running"} \cup Ended]
    /\ entry \in [Parts -> EntryType]
    /\ lock \in Parts \cup {0}
    /\ sum \in [Parts -> 0..Total] /\ progress \in 0..Total
    /\ summary \in {NoSummary} \cup 0..Total
    /\ done \in BOOLEAN /\ noted \in BOOLEAN /\ cancelled \in BOOLEAN
    /\ poll.answer \in AnswerType /\ shown \in AnswerType
    /\ \A p \in Parts : lock = p <=> stage[p] \in {"sum", "push"}

(* The answer that says done, after which the page asks no more, has the    *)
(* summary, its progress is that of the whole task, and its status is what  *)
(* the summary says, though a cancel may come after the summary was built.  *)
FinalAnswerIsFinal ==
    shown.done => /\ shown.summary = SumOf(rows)
                  /\ shown.progress = shown.summary
                  /\ shown.status = IF noted THEN "cancelled" ELSE "done"

(* A gateway that the panel shows as ended is shown with its last numbers,  *)
(* though they were read one by one.                                        *)
EndedRowsAreFinal ==
    \A p \in Parts : shown.gateways[p].state \in Ended => shown.gateways[p] = entry[p]

(* The pill of a gateway is true: green and finished only when every row    *)
(* was dealt with, cancelled only when the user asked for it.               *)
PillIsTrue ==
    \A p \in Parts :
        LET g == shown.gateways[p]
        IN  /\ stateText(g) = "finished" => rows[p] = RowCount /\ outcome[p] = "done"
            /\ stateText(g) = "cancelled" => cancelled
            /\ (stateClass(g) = "ok") = (stateText(g) = "finished")

(* The panel never says that something waits when the task is over, nor     *)
(* that nothing waits before every gateway has begun or was cancelled.      *)
QueuedBannerIsTrue ==
    /\ queuedNow => shown.summary = NoSummary
    /\ ~queuedNow => \A p \in Parts : stage[p] # "waiting"

(* The progress bar never goes back. *)
ProgressMovesOn == shown'.progress >= shown.progress
ProgressNeverFalls == [][ProgressMovesOn]_vars

(* The panel comes to an end. *)
PanelEnds == <>(shown.done)

(* What an answer says of the task is true, though it was put together while *)
(* the threads were writing.                                                *)
AnswersAreTrue ==
    /\ FinalAnswerIsFinal
    /\ EndedRowsAreFinal
    /\ PillIsTrue
    /\ QueuedBannerIsTrue
=============================================================================
