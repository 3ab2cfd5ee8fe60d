------------------------------- MODULE MCEnds -------------------------------
(***************************************************************************)
(* What must end, for TLC: the calls of GatewayCalls, and parts that share *)
(* nothing with it.  A behaviour is about one of them, the view.           *)
(***************************************************************************)
EXTENDS GatewayCalls

CONSTANTS Owners, Runs, Threads, NoRun,     \* BrowserTasks
          g1, g2, Auto, Coroutines,         \* BrowserPreview
          Tags, Contents, None,             \* PgImport
          Tasks, Unlocked, Clear, Torn      \* TaskRecords

VARIABLES
    view,  \* the part the behaviour is about, besides those of GatewayCalls
    tasksToken, logins, valid, tasksEpoch, executing, task, ts, co,
    cancelReq, server,
    world, previewToken, previewEpoch, gwList, selected, routeDataVersion,
    preview, structureSync, job, unheard,
    staging, formal, collector, work, pgDerive, exec, derive, edits,
    pollStage, rows, pollOutcome, entry, pollLock, sum, progress, summary,
    noted, done, pollCancelled, poll, shown,
    state, registry, recordsLock, emptied, loaded, file, written, clears,
    crashes

Panels == INSTANCE BrowserTasks WITH
    token <- tasksToken, epoch <- tasksEpoch, CanCancel <- FALSE, MaxFail <- 1, MaxToken <- 2, MaxEpoch <- 1
Syncs == INSTANCE BrowserPreview WITH
    token <- previewToken, epoch <- previewEpoch, Gateways <- {g1, g2},
    Jobs <- Coroutines, Ops <- {"sync"}, MaxVersion <- 2, MaxEpoch <- 1
Writes == INSTANCE PgImport WITH
    HasCollector <- TRUE, FormalMayFail <- TRUE, MaxEdits <- 2
Poll == INSTANCE TaskPoll WITH
    stage <- pollStage, outcome <- pollOutcome, lock <- pollLock,
    cancelled <- pollCancelled, PartCount <- 1, RowCount <- 1
Records == INSTANCE TaskRecords WITH
    lock <- recordsLock, Free <- Unlocked, MaxTasks <- 2, MaxRecords <- 2,
    MaxClears <- 1, MaxCrashes <- 1

ASSUME EveryConstantFits ==
    /\ Panels!ConstantsFit
    /\ Syncs!ConstantsFit
    /\ Poll!ConstantsFit
    /\ Records!ConstantsFit

Views == {"calls", "panels", "syncs", "writes", "poll", "records"}

tasksVars ==
    <<tasksToken, logins, valid, tasksEpoch, executing, task, ts, co, cancelReq,
      server>>
previewVars ==
    <<world, previewToken, previewEpoch, gwList, selected, routeDataVersion,
      preview, structureSync, job, unheard>>
pgVars ==
    <<staging, formal, collector, work, pgDerive, exec, derive, edits>>
pollVars ==
    <<pollStage, rows, pollOutcome, entry, pollLock, sum, progress, summary,
      noted, done, pollCancelled, poll, shown>>
recordsVars ==
    <<state, registry, recordsLock, emptied, loaded, file, written, clears,
      crashes>>
allVars == <<view, vars, tasksVars, previewVars, pgVars, pollVars, recordsVars>>

(* A part that the behaviour is not about has no state, or stays as it is   *)
(* at first.                                                                *)
Unused == "unused"
PartsInit ==
    /\ view \in Views
    /\ Init
    /\ view # "calls" => /\ kind = "check" /\ put = "partial" /\ ~zero
                         /\ tags = [i \in Rows |-> "right"]
    /\ IF view = "panels" THEN Panels!Init ELSE
              /\ tasksToken = Unused /\ logins = Unused /\ valid = Unused
              /\ tasksEpoch = Unused /\ executing = Unused /\ task = Unused
              /\ ts = Unused /\ co = Unused /\ cancelReq = Unused
              /\ server = Unused
    /\ IF view = "syncs" THEN Syncs!Init ELSE
              /\ world = Unused /\ previewToken = Unused
              /\ previewEpoch = Unused /\ gwList = Unused
              /\ selected = Unused /\ routeDataVersion = Unused
              /\ preview = Unused /\ structureSync = Unused /\ job = Unused
              /\ unheard = Unused
    /\ IF view = "writes" THEN Writes!Init ELSE
              /\ staging = Unused /\ formal = Unused /\ collector = Unused
              /\ work = Unused /\ pgDerive = Unused /\ exec = Unused
              /\ derive = Unused /\ edits = Unused
    /\ IF view = "poll" THEN Poll!Init ELSE
              /\ pollStage = Unused /\ rows = Unused /\ pollOutcome = Unused
              /\ entry = Unused /\ pollLock = Unused /\ sum = Unused
              /\ progress = Unused /\ summary = Unused /\ noted = Unused
              /\ done = Unused /\ pollCancelled = Unused /\ poll = Unused
              /\ shown = Unused
    /\ IF view = "records" THEN Records!Init ELSE
              /\ state = Unused /\ registry = Unused /\ recordsLock = Unused
              /\ emptied = Unused /\ loaded = Unused /\ file = Unused
              /\ written = Unused /\ clears = Unused /\ crashes = Unused

(* A step of a part: the others stay. *)
StepIn(component) ==
    /\ UNCHANGED view
    /\ IF component = "calls" THEN TRUE ELSE UNCHANGED vars
    /\ IF component = "tasks" THEN TRUE ELSE UNCHANGED tasksVars
    /\ IF component = "preview" THEN TRUE ELSE UNCHANGED previewVars
    /\ IF component = "pg" THEN TRUE ELSE UNCHANGED pgVars
    /\ IF component = "poll" THEN TRUE ELSE UNCHANGED pollVars
    /\ IF component = "records" THEN TRUE ELSE UNCHANGED recordsVars

PartsNext ==
    \/ view = "calls" /\ StepIn("calls") /\ Next
    \/ view = "panels" /\ StepIn("tasks") /\ Panels!Next
    \/ view = "syncs" /\ StepIn("preview") /\ Syncs!Next
    \/ view = "writes" /\ StepIn("pg") /\ Writes!Next
    \/ view = "poll" /\ StepIn("poll") /\ Poll!Next
    \/ view = "records" /\ StepIn("records") /\ Records!Next

PartsSpec == PartsInit /\ [][PartsNext]_allVars

(* The fairness that each of the modules states for itself.  TLC's work     *)
(* grows with the number of conditions: as a behaviour is about one part,   *)
(* the n-th conditions of all the parts are made one.                       *)
FairOfCalls(n) == n = 1 /\ Worker
FairOfPanels(n) ==
    \/ n \in Threads /\ Panels!Browser(n)
    \/ n - 2 \in Threads /\ Panels!ServePost(n - 2)
    \/ n - 4 \in Runs /\ Panels!Progress(n - 4)
    \/ n - 5 \in Runs /\ Panels!CancelAnswered(n - 5)
FairOfSyncs(n) == n \in Coroutines /\ Syncs!Arrives(n)
FairOfWrites(n) ==
    \/ n = 1 /\ Writes!Continue
    \/ n = 2 /\ (Writes!Executed \/ Writes!ExecuteFails)
    \/ \E d \in Writes!Derivers : /\ n = IF d = "user" THEN 3 ELSE 4
                                  /\ (Writes!DeriveArrives(d) \/ Writes!DeriveFails(d))
FairOfPoll(n) ==
    \/ n = 1 /\ (Poll!BeginPoll \/ Poll!ReadNext \/ Poll!ApplyTaskStatus)
    \/ n - 1 \in Poll!Parts /\ Poll!Thread(n - 1)
FairOfRecords(n) ==
    \/ n \in Tasks /\ Records!SetDone(n)
    \/ n - 3 \in Tasks /\ Records!Load(n - 3)
    \/ n - 6 \in Tasks /\ Records!Dump(n - 6)
    \/ n = 10 /\ Records!Open
    \/ n = 11 /\ Records!DumpCleared

FairStep(n) ==
    CASE view = "calls" -> FairOfCalls(n) /\ StepIn("calls")
      [] view = "panels" -> FairOfPanels(n) /\ StepIn("tasks")
      [] view = "syncs" -> FairOfSyncs(n) /\ StepIn("preview")
      [] view = "writes" -> FairOfWrites(n) /\ StepIn("pg")
      [] view = "poll" -> FairOfPoll(n) /\ StepIn("poll")
      [] view = "records" -> FairOfRecords(n) /\ StepIn("records")

FairParts ==
    /\ PartsSpec
    /\ \A n \in 1 .. 11 : WF_allVars(FairStep(n))
    /\ SF_allVars(view = "writes" /\ StepIn("pg") /\ Writes!ServeExec)

-----------------------------------------------------------------------------
(* The properties of the parts.                                            *)


(* Every execution ends for the page: done, lost, given up or logged out.   *)
ExecutionEnds ==
    \A o \in Owners : view = "panels" /\ executing[o] ~> view = "panels" /\ ~executing[o]

(* A sync ends, whatever its requests do, and opens its button again.       *)
SyncEnds ==
    view = "syncs" /\ structureSync.loading ~> view = "syncs" /\ ~structureSync.loading

(* A write that was started ends, and the button comes back. *)
WriteEnds ==
    view = "writes" /\ pgDerive.executing ~> view = "writes" /\ ~pgDerive.executing

(* The panel comes to an end. *)
PanelEnds == <>(view = "poll" => shown.done)

(* A task that is done gets its record, unless the write fails or the      *)
(* process dies.                                                           *)
RecordsArrive ==
    \A t \in Tasks : view = "records" /\ state[t] = "done"
                     ~> view = "records" /\ state[t] \in {"kept", "unkept", "lost"}

(* The part ends, also at a gateway that answers 429 for ever.             *)
CallsEnd == <>(view = "calls" => pc = "done")

(* Whatever is begun comes to an end: an execution, a sync and a write of   *)
(* the page, the panel of a task, a history record and the calls of a part. *)
WorkEnds ==
    /\ ExecutionEnds
    /\ SyncEnds
    /\ WriteEnds
    /\ PanelEnds
    /\ RecordsArrive
    /\ CallsEnd
=============================================================================
