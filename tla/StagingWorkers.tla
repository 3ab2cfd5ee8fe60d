--------------------------- MODULE StagingWorkers ---------------------------
(***************************************************************************)
(* The rows of the staging table and the two workers that carry them to a  *)
(* Kepware gateway: _kw_execute_worker (Step 3, tb_status, creates a tag)  *)
(* and _scale_worker (Step 5, scale_status, sets the scaling of one).      *)
(* They differ in what the kinds of rows need, so one module models both;  *)
(* a configuration gives the kinds one of them meets.                      *)
(*                                                                         *)
(* The waiting lines are taken as GatewayService promises them.  The       *)
(* status a worker looks at when its turn comes, the calls, and the        *)
(* write-back in its finally block are separate steps; operators edit the  *)
(* table and the process may stop at any moment.  The table and the        *)
(* gateways survive a stop, tasks and lines do not.                        *)
(***************************************************************************)
EXTENDS Integers, FiniteSets, GatewayService

CONSTANTS Rows,      \* ids of the staging table
          RowKind,   \* what a row needs: "call", "unscaled" or "incomplete"
          Machines,  \* the gateways themselves
          MachineOf, \* the gateway behind a queue key
          Plans,     \* the routing decisions a request can meet: a queue
                     \* key, or Blocked, for each row
          Blocked,
          Marks      \* statuses that operators set by hand

ASSUME RowsAssumption == IsFiniteSet(Rows)
ASSUME KindAssumption == RowKind \in [Rows -> {"call", "unscaled", "incomplete"}]
ASSUME MachineAssumption == MachineOf \in [Keys -> Machines]
ASSUME PlansAssumption == Plans \subseteq [Rows -> Keys \cup {Blocked}]
ASSUME BlockedAssumption == Blocked \notin Keys
ASSUME MarksAssumption == Marks \subseteq {"pending", "done", "skip"}

VARIABLES status,     \* tb_status or scale_status of each row
          built,      \* per gateway, the rows whose call has taken effect
          part,       \* per task and key, the worker's local variables
          cancelled,  \* tasks whose cancel flag is set
          touched,    \* history: rows that operators have edited
          unrecorded  \* history: rows whose success was lost for a reason
                      \* the code does not claim to survive

stagingVars == <<status, built, part, cancelled, touched, unrecorded>>
vars == <<serviceVars, stagingVars>>

-----------------------------------------------------------------------------
(* A part: items is the snapshot made when the request arrived, todo what  *)
(* the check at the turn leaves of it; good, bad and off are success_ids,  *)
(* failed and skip_ids.                                                    *)

Report(n, ok, ko, sk, rest) ==
    [total |-> n, success |-> ok, fail |-> ko, skip |-> sk, rest |-> rest]

NoReport == Report(0, 0, 0, 0, 0)

Part(at, items) ==
    [at |-> at, items |-> items, todo |-> {}, good |-> {}, bad |-> {},
     off |-> {}, raised |-> FALSE, report |-> NoReport]

Stages == {"none", "waiting", "turn", "ready", "rows", "done", "skips",
           "leaving", "over", "lost"}

PartType ==
    [at : Stages, items : SUBSET Rows, todo : SUBSET Rows, good : SUBSET Rows,
     bad : SUBSET Rows, off : SUBSET Rows, raised : BOOLEAN,
     report : [total : Nat, success : Nat, fail : Nat, skip : Nat, rest : Nat]]

(* The table, the workers and the lines keep their types.                  *)
TypeOK ==
    /\ arrived \subseteq Tasks
    /\ answered \subseteq Tasks
    /\ present \in [Keys -> SUBSET Tasks]
    /\ serving \in [Keys -> SUBSET Tasks]
    /\ ahead \in [Keys -> [Tasks -> SUBSET Tasks]]
    /\ status \in [Rows -> {"absent", "pending", "done", "skip", "deleted"}]
    /\ built \in [Machines -> SUBSET Rows]
    /\ part \in [Tasks -> [Keys -> PartType]]
    /\ cancelled \subseteq Tasks
    /\ touched \subseteq Rows
    /\ unrecorded \subseteq Rows

Left(p) == p.todo \ (p.good \cup p.bad \cup p.off)

At(t, k, s) == part[t][k].at = s

(* Accepted, not answered, and not gone with a restart. *)
Alive == {t \in arrived \ answered : \A k \in Keys : ~At(t, k, "lost")}

InTable(r) == status[r] \notin {"absent", "deleted"}

Init ==
    /\ ServiceInit
    /\ status = [r \in Rows |-> "absent"]
    /\ built = [m \in Machines |-> {}]
    /\ part = [t \in Tasks |-> [k \in Keys |-> Part("none", {})]]
    /\ cancelled = {}
    /\ touched = {}
    /\ unrecorded = {}

-----------------------------------------------------------------------------
(* Operators and the staging table.  An id is never given twice; of a CSV  *)
(* with several rows each is a step.                                       *)

Import(r) ==
    /\ status[r] = "absent"
    /\ status' = [status EXCEPT ![r] = "pending"]
    /\ UNCHANGED <<serviceVars, built, part, cancelled, touched, unrecorded>>

(* pg_staging_update_status: any of the three statuses, whatever the row   *)
(* has been through.                                                       *)
Mark(r, s) ==
    /\ InTable(r)
    /\ status' = [status EXCEPT ![r] = s]
    /\ touched' = touched \cup {r}
    /\ UNCHANGED <<serviceVars, built, part, cancelled, unrecorded>>

Delete(r) ==
    /\ InTable(r)
    /\ status' = [status EXCEPT ![r] = "deleted"]
    /\ touched' = touched \cup {r}
    /\ UNCHANGED <<serviceVars, built, part, cancelled, unrecorded>>

-----------------------------------------------------------------------------
(* kw_execute and pg_execute_scale: the pending rows among those asked     *)
(* for, routed and grouped by queue key.  With nothing to send the request *)
(* is refused and changes nothing.                                         *)

Submit(t, ids, plan) ==
    LET picked == {r \in ids : status[r] = "pending"}
        Group(k) == {r \in picked : plan[r] = k}
        K == {k \in Keys : Group(k) # {}}
    IN
    /\ K # {}
    /\ Arrive(t, K)
    /\ part' = [part EXCEPT ![t] = [k \in Keys |->
                    Part(IF k \in K THEN "waiting" ELSE "none", Group(k))]]
    /\ UNCHANGED <<status, built, cancelled, touched, unrecorded>>

Cancel(t) ==
    /\ t \in Alive
    /\ cancelled' = cancelled \cup {t}
    /\ UNCHANGED <<serviceVars, status, built, part, touched, unrecorded>>

-----------------------------------------------------------------------------
(* The worker *)

(* Its local variables are gone; whom it sent with success is history.     *)
Gone(p, at) == [Part(at, {}) EXCEPT !.good = p.good]

Becomes(t, k, p) == part' = [part EXCEPT ![t][k] = p]

TakeTurn(t, k) ==
    /\ At(t, k, "waiting")
    /\ t \notin cancelled
    /\ Serve(k, t)
    /\ Becomes(t, k, [part[t][k] EXCEPT !.at = "turn"])
    /\ UNCHANGED <<status, built, cancelled, touched, unrecorded>>

(* wait_turn gives up. *)
GiveUp(t, k) ==
    /\ At(t, k, "waiting")
    /\ t \in cancelled
    /\ Leave(k, t)
    /\ Becomes(t, k, Gone(part[t][k], "over"))
    /\ UNCHANGED <<status, built, cancelled, touched, unrecorded>>

(* The worker is left, normally or by an exception. *)
Returns(t, k, report) ==
    /\ EndService(k, t)
    /\ Becomes(t, k, [Gone(part[t][k], "leaving") EXCEPT !.items = part[t][k].items, !.report = report])

(* _failed_result: whatever was done, all rows count as failed. *)
Failed(p) == Report(Cardinality(p.items), 0, Cardinality(p.items), 0, 0)

(* Slip: the rows handled by earlier tasks are not counted. *)
SummaryOfTodo(p) ==
    Report(Cardinality(p.items), Cardinality(p.good), Cardinality(p.bad),
           Cardinality(p.off), Cardinality(Left(p)))

Summary(p) ==
    Report(Cardinality(p.items), Cardinality(p.good), Cardinality(p.bad),
           Cardinality(p.items \ p.todo) + Cardinality(p.off), Cardinality(Left(p)))

(* Slip: the snapshot is trusted. *)
SnapshotTrusted(t, k) ==
    /\ At(t, k, "turn")
    /\ Becomes(t, k, [part[t][k] EXCEPT !.at = "ready", !.todo = part[t][k].items])
    /\ UNCHANGED <<serviceVars, status, built, cancelled, touched, unrecorded>>

(* get_staging_statuses: one SELECT when the turn has come. *)
Recheck(t, k) ==
    /\ At(t, k, "turn")
    /\ Becomes(t, k, [part[t][k] EXCEPT !.at = "ready",
                      !.todo = {r \in part[t][k].items : status[r] = "pending"}])
    /\ UNCHANGED <<serviceVars, status, built, cancelled, touched, unrecorded>>

RecheckFails(t, k) ==
    /\ At(t, k, "turn")
    /\ Returns(t, k, Failed(part[t][k]))
    /\ UNCHANGED <<status, built, cancelled, touched, unrecorded>>

(* Nothing to do, or cancelled: no login, no write-back. *)
ReturnEarly(t, k) ==
    /\ At(t, k, "ready")
    /\ part[t][k].todo = {} \/ t \in cancelled
    /\ Returns(t, k, Summary(part[t][k]))
    /\ UNCHANGED <<status, built, cancelled, touched, unrecorded>>

LogsIn(t, k) ==
    /\ At(t, k, "ready")
    /\ part[t][k].todo # {}
    /\ t \notin cancelled

Login(t, k) ==
    /\ LogsIn(t, k)
    /\ Becomes(t, k, [part[t][k] EXCEPT !.at = "rows"])
    /\ UNCHANGED <<serviceVars, status, built, cancelled, touched, unrecorded>>

LoginFails(t, k) ==
    /\ LogsIn(t, k)
    /\ Returns(t, k, Summary([part[t][k] EXCEPT !.bad = @ \cup part[t][k].todo]))
    /\ UNCHANGED <<status, built, cancelled, touched, unrecorded>>

-----------------------------------------------------------------------------
(* The loop over the rows *)

NextRow(t, k, r) ==
    /\ At(t, k, "rows")
    /\ t \notin cancelled
    /\ r \in Left(part[t][k])

(* Step 5 alone: rows that need no call. *)
RowWithoutCall(t, k, r) ==
    /\ NextRow(t, k, r)
    /\ \/ RowKind[r] = "unscaled" /\ Becomes(t, k, [part[t][k] EXCEPT !.off = @ \cup {r}])
       \/ RowKind[r] = "incomplete" /\ Becomes(t, k, [part[t][k] EXCEPT !.bad = @ \cup {r}])
    /\ UNCHANGED <<serviceVars, status, built, cancelled, touched, unrecorded>>

Reaches(k, r) == built' = [built EXCEPT ![MachineOf[k]] = @ \cup {r}]

(* Created, already there (409 counts as success), or set (PUT). *)
CallSucceeds(t, k, r) ==
    /\ NextRow(t, k, r)
    /\ RowKind[r] = "call"
    /\ Reaches(k, r)
    /\ Becomes(t, k, [part[t][k] EXCEPT !.good = @ \cup {r}])
    /\ UNCHANGED <<serviceVars, status, cancelled, touched, unrecorded>>

(* Refused, 429 to the end, or given up by a cancel during the back-off.   *)
CallFails(t, k, r) ==
    /\ NextRow(t, k, r)
    /\ RowKind[r] = "call"
    /\ Becomes(t, k, [part[t][k] EXCEPT !.bad = @ \cup {r}])
    /\ UNCHANGED <<serviceVars, status, built, cancelled, touched, unrecorded>>

(* The call takes effect and its answer is lost. *)
CallTimesOut(t, k, r) ==
    /\ NextRow(t, k, r)
    /\ RowKind[r] = "call"
    /\ Reaches(k, r)
    /\ Becomes(t, k, [part[t][k] EXCEPT !.bad = @ \cup {r}])
    /\ unrecorded' = unrecorded \cup {r}
    /\ UNCHANGED <<serviceVars, status, cancelled, touched>>

(* Slip: a cancel returns from inside the loop, past the write-back. *)
StopWithoutRecord(t, k) ==
    /\ At(t, k, "rows")
    /\ IF t \in cancelled
       THEN Returns(t, k, Summary(part[t][k]))
       ELSE /\ Left(part[t][k]) = {}
            /\ Becomes(t, k, [part[t][k] EXCEPT !.at = "done"])
            /\ UNCHANGED serviceVars
    /\ UNCHANGED <<status, built, cancelled, touched, unrecorded>>

LoopEnds(t, k) ==
    /\ At(t, k, "rows")
    /\ Left(part[t][k]) = {} \/ t \in cancelled
    /\ Becomes(t, k, [part[t][k] EXCEPT !.at = "done"])
    /\ UNCHANGED <<serviceVars, status, built, cancelled, touched, unrecorded>>

LoopRaises(t, k) ==
    /\ At(t, k, "rows")
    /\ Becomes(t, k, [part[t][k] EXCEPT !.at = "done", !.raised = TRUE])
    /\ UNCHANGED <<serviceVars, status, built, cancelled, touched, unrecorded>>

-----------------------------------------------------------------------------
(* finally: update_staging_status for the successes, then for the rows     *)
(* that need nothing.  Rows deleted meanwhile are not there to update.     *)

(* Slip: a status the table does not know. *)
UpdatedMisspelt(R, s) == [r \in Rows |-> IF r \in R /\ InTable(r) THEN "success" ELSE status[r]]

Updated(R, s) == [r \in Rows |-> IF r \in R /\ InTable(r) THEN s ELSE status[r]]

WriteDone(t, k) ==
    /\ At(t, k, "done")
    /\ status' = Updated(part[t][k].good, "done")
    /\ Becomes(t, k, [part[t][k] EXCEPT !.at = "skips"])
    /\ UNCHANGED <<serviceVars, built, cancelled, touched, unrecorded>>

WriteSkips(t, k) ==
    LET p == part[t][k] IN
    /\ At(t, k, "skips")
    /\ status' = Updated(p.off, "skip")
    /\ Returns(t, k, IF p.raised THEN Failed(p) ELSE Summary(p))
    /\ UNCHANGED <<built, cancelled, touched, unrecorded>>

(* The update raises: the exception takes the place of the summary. *)
WriteFails(t, k) ==
    LET p == part[t][k] IN
    /\ \/ At(t, k, "done") /\ p.good # {} /\ unrecorded' = unrecorded \cup p.good
       \/ At(t, k, "skips") /\ p.off # {} /\ UNCHANGED unrecorded
    /\ Returns(t, k, Failed(p))
    /\ UNCHANGED <<status, built, cancelled, touched>>

(* end_part *)
LeaveLine(t, k) ==
    /\ At(t, k, "leaving")
    /\ Leave(k, t)
    /\ Becomes(t, k, Gone(part[t][k], "over"))
    /\ UNCHANGED <<status, built, cancelled, touched, unrecorded>>

Complete(t) ==
    /\ t \in Alive
    /\ Answer(t)
    /\ UNCHANGED stagingVars

-----------------------------------------------------------------------------
(* The process stops and starts again: the lines are empty, every task     *)
(* that was not answered is gone, and what its parts had not written back  *)
(* is lost.                                                                *)

Unwritten(p) == IF p.at \in {"rows", "done"} THEN p.good ELSE {}

Restart ==
    /\ Alive # {}
    /\ present' = [k \in Keys |-> {}]
    /\ ahead' = [k \in Keys |-> [t \in Tasks |-> {}]]
    /\ serving' = [k \in Keys |-> {}]
    /\ part' = [t \in Tasks |-> [k \in Keys |->
                   IF t \in Alive /\ ~At(t, k, "none") THEN Gone(part[t][k], "lost")
                   ELSE part[t][k]]]
    /\ unrecorded' = unrecorded \cup UNION {Unwritten(part[t][k]) : t \in Tasks, k \in Keys}
    /\ UNCHANGED <<arrived, answered, status, built, cancelled, touched>>

-----------------------------------------------------------------------------
Worker(t, k) ==
    \/ TakeTurn(t, k) \/ GiveUp(t, k)
    \/ Recheck(t, k) \/ RecheckFails(t, k)
    \/ ReturnEarly(t, k) \/ Login(t, k) \/ LoginFails(t, k)
    \/ \E r \in Rows : \/ RowWithoutCall(t, k, r)
                       \/ CallSucceeds(t, k, r)
                       \/ CallFails(t, k, r)
                       \/ CallTimesOut(t, k, r)
    \/ LoopEnds(t, k) \/ LoopRaises(t, k)
    \/ WriteDone(t, k) \/ WriteSkips(t, k) \/ WriteFails(t, k)
    \/ LeaveLine(t, k)

Next ==
    \/ \E r \in Rows : Import(r) \/ Delete(r) \/ \E s \in Marks : Mark(r, s)
    \/ \E t \in Tasks : \/ \E ids \in SUBSET Rows, plan \in Plans : Submit(t, ids, plan)
                        \/ Cancel(t)
                        \/ Complete(t)
                        \/ \E k \in Keys : Worker(t, k)
    \/ Restart

Spec == Init /\ [][Next]_vars

-----------------------------------------------------------------------------
(* Properties *)

(* "Two tasks working on the same rows do not send them twice"             *)
(* (API_SCHEMA.md:291-292): no row is sent with success by two tasks,      *)
(* unless an operator reset it or the record of the first was lost.        *)
NoRowSentTwice ==
    \A t, u \in Tasks, j, k \in Keys :
        t # u => part[t][j].good \cap part[u][k].good \subseteq touched \cup unrecorded

(* What a worker has done is written back however it ends: a row that a    *)
(* gateway has and that is still pending is about to be written, or one of *)
(* the losses the code does not claim to survive has struck (main.py:1660).*)
BuiltRowsRecorded ==
    \A r \in Rows, m \in Machines :
        r \in built[m] /\ status[r] = "pending" =>
            \/ r \in touched \cup unrecorded
            \/ \E t \in Tasks, k \in Keys : r \in Unwritten(part[t][k])

(* The table does not claim what no gateway has: a row is done only if it  *)
(* has been sent, and skipped only if it needs nothing, or an operator has *)
(* said so of that very row.                                               *)
StatusIsTrue ==
    \A r \in Rows :
        /\ status[r] = "done" => r \in touched \/ \E m \in Machines : r \in built[m]
        /\ status[r] = "skip" => r \in touched \/ RowKind[r] = "unscaled"

(* Every way out of a worker accounts for each of its rows exactly once.   *)
ReportsAddUp ==
    \A t \in Tasks, k \in Keys :
        LET p == part[t][k] IN
        p.at = "leaving" =>
            /\ p.report.total = Cardinality(p.items)
            /\ p.report.total = p.report.success + p.report.fail + p.report.skip + p.report.rest

(* The staging table and the summaries tell what was built: nothing built   *)
(* is forgotten, nothing is claimed that was not, and no row is uncounted.  *)
RecordsAreTrue ==
    /\ BuiltRowsRecorded
    /\ StatusIsTrue
    /\ ReportsAddUp
=============================================================================
