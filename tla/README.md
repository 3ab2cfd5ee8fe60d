# TLA+ verification of Kep It Simple

This directory specifies the service under `src/app/` (FastAPI) and its web page
`src/static/js/app.js`, model-checks both with TLC and proves the main safety properties of
the concurrent core with TLAPS. The service turns a request ("create these tags on
Kepware", "fix these data types", "delete these tags", ...) into a *task* with one *part* per
Kepware gateway. Each gateway serves one task at a time, in order of arrival; parts of one task
on different gateways run in parallel; any task may be cancelled; every part may fail; and the
last part to end completes the task for the page that polls it. The page follows its tasks,
previews and edits rows, and must stay right when answers come late, twice, out of order, in a later
session, or not at all.

Reproduce, from this directory:

    tlc -workers 2 -config JobsTwoGateways.cfg MCGatewayJobs
    tlapm GatewayJobsProofs.tla

`PROJECT.json` lists every run, the lines of code each definition models, a mutant of the
code for each property, the hazards, and the theorems. A definition that is used by no action,
such as `WriteUnlocked` or `UploadKeepsResult`, is the form a plausible slip would have: it
stands next to the one it would replace and serves as a mutant.

## 1. Inventory

### The parts and how they interact

    page (app.js): coroutines between awaits, one session at a time
      |  HTTP: sent, served, answered or lost; logout, 401 and reload in between
      v
    handlers on the event loop (main.py, one at a time)
      |  create task            +------------------ TaskManager, history.json
      |  _plan_gateway_parts -- gateway_router --- PG: gateways, map, structures
      |  run_job -- enqueue_many --> GatewayQueue (one Condition)
      |     +- one daemon thread per part
      |            wait_turn --> worker --> Kepware HTTP
      |            push_progress          +-> staging table (PG)
      |            end_part: release, record, complete the task
      |- GET  /api/task/{id}/status   reads the task without a lock
      |- POST /api/task/{id}/cancel   sets the flag, then wake()
      +- pg_execute_pg: staging -> formal table -> Collector, three transactions

Handlers are `async def` functions without an `await` in their middle, so they exclude each
other; part threads and the weekly clean-up thread run concurrently with them and with
each other. Communication on the server is by shared memory (the task object, the lines, the
staging table); the only blocking point is `GatewayQueue.wait_turn`. In the page nothing runs between
two awaits, and everything may run at one.

| Component | State | Operations | What makes it correct |
|---|---|---|---|
| Gateway queue, `gateway_queue.py` | `_queues`: per key a line of task ids; one `Condition` | `enqueue_many`, `release`, `wake`, `wait_turn` | all-or-nothing enqueue, depth limit, FIFO, one head, no lost wake-up, a part that leaves unblocks the next |
| Gateway jobs, `gateway_jobs.py` | `_Job`: results, remaining, completed; the task's `gateways`, `progress` | `run_job`, part threads, `push_progress`, `end_part`, `build_summary` | exclusive use of a gateway; each part recorded once; exactly one completion after the last part; counts add up; progress never falls back |
| Dispatch and cancel, `main.py` | the running handler | `_dispatch_gateway_job`, `cancel_task` | 429 leaves nothing behind; a cancel reaches every waiter |
| Task object and registry, `task_manager.py` | `status`, `progress`, `summary`, `cancelled`, `done`; the table of tasks | `create`, eviction, `push_*` | `done` is the last thing set; eviction takes finished tasks first |
| History file, `main.py` | 200 records | `_append_history`, `clear_history` | under a lock, rewritten in place; a reader or a crash in between |
| Task status endpoint | none (reads) | `get_task_status` | reads at different moments make an answer that says nothing wrong |
| Step 3 / Step 5 workers | staging rows' `tb_status`, `scale_status` | `_kw_execute_worker`, `_scale_worker` | a row is not sent twice; what was sent is written back even after a raise or a cancel |
| Delete and data type workers, 429 back-off | consecutive errors, the remaining wait | `_kw_delete_worker`, `_datatype_worker`, `_kw_call_with_429_retry` | a write is verified; the breaker stops the part; a cancel interrupts the wait |
| Routing and structure sync | `kepware_gateway`, `kepware_structure`, `gateway_route_map` | `resolve_gateway`, `group_by_gateway`, `_plan_gateway_parts`, `sync_structure` | every row in exactly one part or blocked; nothing is built where its channel is not; preview and plan agree |
| PG / Collector import | staging `pg_status`, formal tables | `pg_execute_pg`, `import_formal`, `import_collector_tags`, the compensating delete | a row marked done is in the formal tables |
| Login, `auth.py` | failure counters, lock-out times | `check_login_allowed`, `record_login_failure` | locked after N failures for the stated time |
| Page: session and tasks | `auth`, `_taskEpoch`, executing flags, task objects | `_runGatewayTask`, `_trackTask`, `resumeTask`, `cancelTask`, `doLogout` | a panel shows its own task; a button is disabled exactly while there is something to wait for |
| Page: previews and overrides | `kwDerive`, `scaleDerive`, `routeDataVersion` | `deriveKw`, `saveAllKwOverrides`, `_syncGatewayStructures` | what is not flagged as stale is not stale; what counts as saved is stored |
| Page: tables, lists, files, query, mapping, forms, tools | one object for each tab | load, choose, delete, submit, download | the rows on the screen are those asked for; late answers and logouts leave nothing wrong |
| Everything else | see `PROJECT.json` | configuration, DDL, log clean-up, field derivation | formatting and plain I/O |

### What is hard

* **Lost wake-ups.** `task.cancelled` is written without the queue's lock and read inside
  it; `wake()` must reach every waiter that read the flag as false
  (`gateway_queue.py:171-190`).
* **A line that nobody leaves.** A thread that dies, fails to start, or whose worker raises
  must still release the line, or the gateway stops for good.
* **The last part.** Parts end concurrently, some in the handler (thread start failure), some in
  threads; exactly one of them must complete the task, after all are recorded.
* **Order of publication.** `status`, `summary`, the event, `done`: a poller reads them without a
  lock, so the order they are written in, and read in, is the protocol.
* **A cancel racing the end of the task**, also between the handler's check of `done` and its setting
  of the flag.
* **Stale rows.** A task that waits for its turn works on rows another task may have handled
  meanwhile (`main.py:1569-1576`, `1685`); a crash between sending and writing back
  repeats a row.
* **Partial failure** of the import: three transactions in two databases, one status column; and of
  a PUT that may damage the tag it should correct.
* **Answers out of turn.** Two loads of one table, a derivation and the change that makes
  it stale, a poll of a task that was given up, an upload of the last session: each handler runs after an
  await, in a state it did not start in.

`PROJECT.json` lists forty such hazards at their lines with the properties that cover them.
Two have none, because the code lets them happen: the logout that clears object by object while most
handlers do not look at the epoch (`app.js:118`), and the import that reports the inserts of its last
statement only (`pg_client.py:273`). What they lead to is in section 6; what the code does guarantee across
a logout is part of the page's properties. Of others the code lets one case happen, and the
property covers the rest: the hazard's note says which case that is, and section 6 lists it.


## 2. Plan

The order was: the queue and the jobs, since everything else runs inside them; the rows; the import; then
what a client sees and does. All modules of the plan exist.

| Module | Composes | Answers |
|---|---|---|
| `GatewayQueue` | - | the line and the condition variable, under the most general caller |
| `GatewayMonitor` | extends `GatewayQueue`, refines it | may a critical section be one step, with the cancel flag outside the lock? |
| `GatewayService` | - | abstract specification of queue and jobs together |
| `GatewayJobs` | extends `GatewayQueue`, refines `GatewayService` | handlers, part threads, cancel, failures, completion |
| `StagingWorkers` | extends `GatewayService` | the rows: re-check at the turn, login, calls, write-back, restart |
| `GatewayCalls` | - | delete, check and fix of a part, 429 back-off, circuit breaker |
| `TaskPoll` | - | what a poll can read while the threads write, up to the panel |
| `TaskRecords`, `LoginLockout` | - | registry and history file; failure count and window |
| `PgImport` | - | two databases, partial failure, and Step 4 of the page |
| `GatewayRouter` | - | where a row goes, and what preview and lists say about it |
| `BrowserTasks`, `BrowserPreview`, `BrowserOverrides`, `BrowserStaging`, `BrowserLists`, `BrowserFiles`, `BrowserForms`, `BrowserMapping`, `BrowserQuery`, `BrowserTools` | - | one for each part of the page with state of its own |
| `MCGatewayMonitor`, `MCGatewayJobs`, `MCStagingWorkers` | the module in their name | sets and symmetry for TLC |
| `MCWorkers`, `MCPage`, `MCTables`, `MCServer`, `MCEnds` | several modules that share nothing | one run for several parts (section 4) |
| `ServerProofs`, `PageProofs`, `TablesProofs` | `MCServer`, `MCPage`, `MCTables` with all their parts | theorems (section 5) |
| other `...Proofs` | the module in their name | theorems (section 5) |

Every module has its theorems now, but for what section 5 lists as only model-checked. Field derivation,
the safety limits and the schema stay unmodelled.

## 3. What is modelled

In all modules of the server a handler is one step unless it waits or shares state with a thread; in
all modules of the page a step is what runs from one `await` to the next.

### GatewayQueue

`queues[k]` is `_queues[k]`; `cancelled[t]` is `task.cancelled`; `waiter[k][t]` is where the
thread of `t`'s part on `k` is in `wait_turn`: not in it, *asleep* in
`Condition.wait`, *awake* and about to look, or leaving with *granted* (True) or *refused*
(False). One action per critical section: `EnqueueMany` (with the checks before any append),
`EnqueueRefused`, `Release` (idempotent; notifies when it removed something), `Wake`, one pass
of the loop of `wait_turn` (gone from the line, cancelled, head, or sleep), and `PollTimeout`
(the timeout, `poll`, of `Condition.wait`). `SetCancelled` is outside the lock. `notify_all`
is `Notified`: every sleeper becomes awake.

`QueueSpec` lets anyone call anything at any time, in any order: more than the code
does, so what holds of it holds whoever the caller is.

### GatewayMonitor

Takes those sections apart: who holds the lock and what it has still to do is `section`.
`cancelled` is set at any moment by `RaiseFlag`; the later `wake()` is `EnterWake`. It implements
`GatewayQueue` by a mapping that counts a section's effect from the step that settles it,
and shows the one claim the coarse module takes for granted: between
reading the flag and going to sleep no wake-up is lost.

### GatewayJobs

The request handler is `loop`: idle, submitting task `t` (`at`: the part it is ending itself because
`Thread.start` raised; `closes`: it completes the task itself), *checked* (cancel has
seen the task not done) and *cancel* (the flag is set, `wake` not yet called).

| Actions | Code |
|---|---|
| `Submit`, `SubmitRefused`, `Respond` | `_dispatch_gateway_job`, `run_job` |
| `StartThread`, `StartFails` | the loop over parts in `run_job` |
| `Cancel`, `CancelSets`, `CancelWakes` | `cancel_task` |
| `WaitPass`, `WaitTimesOut`, `GivesUp`, `MarkRunning` | `_execute` around `wait_turn` |
| `TakeRow`, `ReportRow`, `WorkerReturns`, `WorkerRaises` | any worker that keeps `run_job`'s contract, with `push_progress` |
| `ReleaseLine`, `Record` | `end_part` before, and under, the job's lock |
| `CompleteStep` | `complete`, `push_complete`, then `done = True` |

`stage[t][k]` is the program counter of a part. The worker is abstract: rows are handled one by one, the
cancel flag is looked at before each, a row ends as success, failure or skip, and the worker may
stop early after a failure, return, or raise at any point. The rows themselves are the subject
of `StagingWorkers` and `GatewayCalls`. A restart is not in this module: queue and registry are in
memory, and nothing of them is left to go on.

### GatewayService

The promise, without lines, locks or threads: a task is served on a gateway when all that arrived
there before it have left; who is being served cannot leave; a task is answered after leaving every
gateway. `GatewayJobs` implements it under the mapping at its end.

### StagingWorkers

Two workers share one shape, `_kw_execute_worker` (`tb_status`, every row needs a call) and `_scale_worker`
(`scale_status`, a row may be *unscaled* and be skipped, or *incomplete* and fail without
a call); `RowKind` tells which rows a configuration has. The lines are those of `GatewayService`, so
this module needs no queue of its own.

| Variable | Code |
|---|---|
| `status` | the status column of a row; "absent" before the import, "deleted" after a delete |
| `built` | what each gateway has: not a variable of the program, but what its calls have done |
| `part[t][k]` | the worker's locals: `items` (the snapshot of the request), `todo` (what the second look leaves), `good`, `bad`, `off` (`success_ids`, failures, `skip_ids`), and the report it returns |
| `cancelled` | the tasks' cancel flags |
| `touched`, `unrecorded` | history: rows whose status an operator set, or that one deleted; rows whose success the code does not claim to keep (answer lost, write-back failed, process stopped) |

| Actions | Code |
|---|---|
| `Import`, `Mark`, `Delete` | `import_staging`, the status endpoints, `delete_staging`, `clear_staging` |
| `Submit` | the pending rows of the request, grouped by key; `Plans` are the routes it can meet |
| `TakeTurn`, `GiveUp`, `LeaveLine`, `Complete` | `wait_turn`, `end_part`, the completion, at the grain of `GatewayService` |
| `Recheck`, `RecheckFails`, `ReturnEarly` | `get_staging_statuses` at the turn and the early returns |
| `Login`, `LoginFails` | `client.login`, after the early returns and before the loop |
| `RowWithoutCall`, `CallSucceeds`, `CallFails`, `CallTimesOut` | one row: 201, 409 or PUT 200; refused or 429 to the end; effect without an answer |
| `LoopEnds`, `LoopRaises` | all rows, a cancel, or an exception |
| `WriteDone`, `WriteSkips`, `WriteFails` | the `finally` block |
| `Restart` | the process stops: lines and tasks are gone, table and gateways stay |

`Mark` sets any of the three statuses of any row, as the endpoint does; so a row can be done that no gateway has,
because an operator said so. `StatusIsTrue` says that there is no other way: a row is done only if it was
built or is `touched`.

### GatewayCalls

One part of a data type check, a fix, a batch delete or its rehearsal (`kind`), call by call: `pc` is
where the worker is (the turn, the start, between rows, in a call, in a back-off), `stage` which
call of the row it is in (read, write, verify, delete), `tries` the attempt. Every call is answered,
refused with 429 (`RateLimited`, then `BackOffEnds` or `BackOffCancelled`), fails without effect, or takes effect
without an answer (`CallLost`). `Abort` is the circuit breaker. `report` is the summary.

Nobody knows yet what the gateway does with a PUT that names one field (the comment above the
worker says so), so `put` is any of: changes that field, replaces the tag, ignores it; the same each
time. Nobody else changes the tags of the part. `zero` is a `batch_size` of 0, which makes the delete worker raise after its
first success. A PUT whose answer is lost is not read back, and the part goes
on: `DamageIsContained` leaves such rows out, and says so.

### TaskPoll

`get_task_status` reads the task field after field without a lock (`poll.read` counts the reads, `Reads`
is their order); between two reads the part threads write (`WriteEntry`, `SumParts`, `PushProgress`,
`PushSummary`, `SetDone`), and `ApplyTaskStatus` puts the answer on the panel, whose pill and banner are
`stateText`, `stateClass` and `queuedNow`. An entry's numbers are written together and are
one here, `counted`. The answer's `running` and the text for excluded rows are not modelled.

### TaskRecords

The registry of `MAX_TASKS` tasks with its eviction (`Accept`, and `Refuse`, whose 429 comes after the
eviction), and the history file: `Load`, `Open` (which empties the file), `Dump`, the same for `clear_history`,
each under the lock; a write may fail and the process die at any point, and a file that does not parse loads as empty.
`get_history` takes no lock and changes nothing, so it is not an action.

### LoginLockout

One account's failure count and window. The handler has no `await`, so logins come one at a time; the clock (`Tick`)
goes on while the password is compared. `wrong` is history: when wrong passwords were noted.

### PgImport

`pg_execute_pg` as `work.pc`: *formal*, *collector*, *undo*, *status*, each of which can fail, and
`Crash` between any two. `staging`, `formal` and `collector` map a tag to its content; `pgDerive`, `exec` and `derive` are Step
4 of the page. The handler has no `await`: no other request runs meanwhile. A commit whose
answer is lost counts as failed without effect. `Mark` sets `pg_status` by hand: what was set to done is `claimed`,
which the code does not tell from done, and `DoneMeansWritten` is about the rows the handler marked. A logout resets the page's part
and leaves its requests out; bound: one write and one preview of the page under way at a time, so that a second write in the
next session counts as another client's. `FormalMayFail`
lets the formal transaction fail as a whole: false in the run `server`, true in the run that shows what
comes of it (section 6).

### GatewayRouter

The state is what a route depends on: `gateways`, their structures as they are (`reality`) and as the database has
them (`cache`), the two maps, the locations. `resolveGateway`, `PlanGatewayParts`, `Derive`, `routeSummary`, `routeBadge`, `rowStatus`
and `UnmappedSites` are the code's functions, the last ones the page's; the actions change the tables,
Kepware itself (`KepwareChanges`), and sync a structure that can be listed in part only. A
structure is how deep the rows' path is there: no channel, channel, device, group.

### BrowserTasks

The page's coroutines `_runGatewayTask` and `resumeTask` (`co`), the task objects they fill (`ts`), the panels
(`executing`, `task`), the cancel requests, and the server's tasks as far as an answer tells. `epoch` is
`_taskEpoch`; a coroutine keeps the one its outer function read and the one `_trackTask` read.
Requests are served at a step of their own (`ServePost`, `ServePoll`, `ServeCancel`), and can fail before or after. Logout, 401, reload,
expiry and a server restart can fall anywhere. An answer's head and body arrive in one step; a
request that was given up on has reached the server or never does; a reload adds one to
`epoch` where the code starts again at 0, so that an epoch names one life of the page: no coroutine is left to
compare the two.

### The other modules of the page

Each has its requests as coroutines (`req`, `job`, `saver`, `derive`): sent, served, answered or lost, in any order,
with a logout anywhere: `doLogout` is the module's part of `_resetState` with the login that follows, and the
requests that are out stay out. Each handler looks at the epoch after its `await` where the code does, and nowhere else.

| Module | State | Operations | Abstracted |
|---|---|---|---|
| `BrowserPreview` | `gwList`, `selected`, `routeDataVersion`, `preview`, `structureSync` | `deriveKw`, `deriveScale`, `Select`, changes of gateways and map, `syncStructure`, loads | routing data is a version number |
| `BrowserOverrides` | `table` (shown, and as stamped), `stored`, `saver` and `saving`, `derive` | `Edit`, `SaveAll` row by row, overlapping derivations, saves of two sessions | four fields are one value |
| `BrowserStaging` | `table`, `page`, `filter`, `selected`, `deleting` | loads, filters, pages, ticks, deletes, late ones of the last session; imports and tasks change the rows | three filters are one; a row is pending or done |
| `BrowserLists` | `list`, `active`, `panel` with its timer | loads of users, logs, history, reference tables, routes and queue; changes that load again | a list is its version |
| `BrowserFiles` | `imp`, `del`, the upload store, the staging names | uploads, `importToStaging`, `executeDelete`, clean-up | a file is its tag names |
| `BrowserForms` | `gwForm`, the other forms, `gateways`, `defaults` | the dialogue's buttons, `saveGw`, `Create`, `Update`, `deleteGateway` | names and defaults only |
| `BrowserMapping` | `tab`, the cache of results | mapping, download, other pages, restart | a result is its number |
| `BrowserQuery` | `dbQuery`, `tags` | conditions, search, pages, export, writes | a condition is the tags it matches |
| `BrowserTools` | `busy`, `status`, `chat` | tests, reload, chat and its delayed reply | - |

The button for a new gateway opens the form without resetting it (`index.html`), which
`openNewGateway` keeps; an update that marks a gateway deleted meanwhile as the default clears the other
defaults and commits, which `Update` keeps. The result of a mapping without rows, which gets an id but whose
download answers 404, is not modelled.

## 4. What the runs show

| Run | Bounds | Shows |
|---|---|---|
| `monitor` | 2 keys, 2 tasks, depth 2 | `CancelWakesSleepers`; `ImplementsQueue`; no deadlock |
| `jobs_two_gateways` | 2 keys, 2 tasks, a row on each | `TypeOK`, `LinesMatchParts`, `CompletedOnce`, `SleepersHaveReason`, `CancelLosesNoWakeup` |
| `jobs_one_gateway` | 1 key, 3 tasks, depth 2 | `DepthBounded`, `Exclusive`, `NoOvertaking`, `ImplementsService` |
| `jobs_to_the_end` | 1 key, 2 tasks, two rows of any outcome, or blocked rows only | `CancelledPartsNeverRan`, `EveryRowCounted`, `OnlyForward`; under fairness `AcceptedTasksComplete` |
| `workers` | `step3`: 1 key, 2 tasks, 2 rows, any status set by hand; `step5`: 2 keys on 2 machines, 1 task, 3 rows, one of each kind, one possibly blocked | `NoRowSentTwice`, `RecordsAreTrue`, `ScaleRecordsAreTrue` |
| `page` | the constants in `Page.cfg` | `PartsTypeOK`, `PanelsTellTheTruth`, `StatusNeverRegresses`, `PreviewsAreFresh`, `SavedMeansStored`, `TableIsSettled`, `RepliesAreInTurn` |
| `tables` | the constants in `Tables.cfg` | `AnswersAreTrue`, `ProgressNeverFalls`, `ListsAreCurrent`, `FilesKeepTheirResults`, `ResultsFitTheSearch` |
| `server` | the constants in `Server.cfg` | `PartsTypeOK`, `ImportIsTrue`, `RoutesAreSafe`, `PlansAgree`, `LockoutIsFair`, `GatewaysAreSound`, `MappingsAreTrue`, `TasksAreKept` |
| `ends` | the constants in `MCEnds` | `CallsAreTrue`; under fairness `WorkEnds` |
| `jobs_cancel_report`, `staging_two_keys`, `pg_done_is_written` | the smallest that show it | the divergences of section 6 |

**Runs about several parts.** Parts that share nothing are checked in one run: the module extends one of them
and has instances of the others, each with variables of its own. A behaviour is about one part, named by
`view`, which never changes; the variables of the others hold "unused", or stay as they are at first. The
states are the union, not the product, of those of the parts. Where all of a part would be too
large, it has several views: the instance is one and the same, with the same constants, and the view leaves out some of
its steps, by a named condition on the next state. In `MCPage`, `tasks` has no cancel button (`NoCancels`) and
`cancels` one submission (`OneSubmission`); `preview` is Step 3 and the gateways, without a logout, and `scales` Step 5
and logouts (`OnlyStarts`, `NoLogout`); `staging` has rows that come and are worked on, and `sessions` logouts with rows that only
go (`NoStagingLogout`, `RowsOnlyGo`). In `MCTables`, `lists` has one table and a
logout, `tabs` two tables, `changes` the page's own changes (`OneTab`, `OneList`, `NoChange`, `NoListsLogout`); `files` has two uploads and
`logouts` one and a logout; `query` has two searches, `conditions` two conditions, `writes` a table that changes and
a logout (`OneSearch`, `OneCondition`, `NoWrites`, `NoQueryLogout`). In `MCServer`, `gateways` has two of them, `races` two requests
and `forms` a logout (`OneRequest`, `OneGateway`, `GatewayForm`). Only TLC needs the views: the theorems hold for each part with all of its
steps (section 5).

**Properties that are conjunctions.** Each of them names its parts where it is defined; a state that breaks one
part breaks the whole. `PanelsTellTheTruth`, for example, is: the execute button is blocked
exactly while a loop of this session works for the flow; one loop follows what the panel shows; no
second task is submitted unless the page had told the user it lost sight of the first; no panel
outlives its session; *cancelling* is shown only of a cancel the server took.

**Why these bounds.** Contention for one line needs a holder, a waiter behind it, and one behind
that (the poll, the cancel and the release then concern different places in
the line): three tasks, one more than the line holds, so refusal happens.
Different lines share nothing but the task and the lock, so two keys show every interaction
between parts. With two rows a part can be stopped before, between and after
its rows. A row sent twice takes two tasks that picked it while it was pending; the second row
lets one be written back while the other is not, and lets a task be empty after its second look. In the page an
answer out of turn takes two requests under way; a session that meets the remains of another takes two
logins (one logout); two saves of overrides at once, which only a logout makes possible, take two `Savers`. A breaker that stops too late takes two rows. The history and the registry need one task
more than they hold; the lockout twice its window and a little. Nothing else is bounded but how often the
outside acts (edits, uploads, imports, changes, logouts, crashes), at one to three, which the modules' comments call bounds.

**Symmetry** permutes tasks (and keys, in `monitor`), requests, coroutines, saves and derivations under way, and in `server` the tags
of `PgImport` and their contents, only in runs without liveness. Where a view names one request, task or table of several (`theSlot`, `theRun`, `theTable`), the permutation relates no two states that it reaches
with the others.

**Deadlock** is checked in `monitor`. The others switch it off because the system really stops there: every
task is over, or the bound on what the outside does is reached.

**Fairness.** `FairSpec` of `GatewayJobs`, only for `AcceptedTasksComplete`: weak fairness of each step of a part's
thread (the operating system runs every thread; the workers' HTTP calls have timeouts, so a
row ends) and of the event loop's remaining steps of a handler it has begun (a coroutine without `await` runs on). No fairness for
`PollTimeout`: completion does not depend on the poll, which the code
describes as a safety net. None for requests, cancels or failures.

`FairParts` of `ends`: the page's coroutines go on (a request is answered, fails or times out), the server
serves a submission that reached it and moves its tasks on, a worker's thread runs on, the thread of a
finished task writes its record, the page's poll comes again. `ServeExec`, the handler of a write, has strong fairness,
because other requests may keep the event loop from it again and again but not for ever. As a behaviour is about one part,
the n-th conditions of all parts are one condition: `FairStep(n)` is that of the part in view.

## 5. What is proved

For every value of the constants: any set of tasks, any finite set of keys, any limit, any number of rows, retries,
parts, flows, submissions and coroutines.

| Module | Theorem | Statement |
|---|---|---|
| `GatewayQueueProofs` | `QueueTypeCorrect` | `QueueSpec => []QueueTypeOK` |
| | `DepthIsBounded` | `QueueSpec => []DepthBounded` |
| | `LinesHaveNoDuplicates` | `QueueSpec => []NoDuplicates` |
| | `LinesAreFifo` | `QueueSpec => NoOvertaking` |
| | `SleepersWaitForOthers` | `QueueSpec => []SleepersHaveReason` |
| `GatewayMonitorProofs` | `MonitorIsKept` | `MonitorSpec => []MonitorInv` |
| | `CancelWakesEverySleeper` | `MonitorSpec => []CancelWakesSleepers` |
| | `MonitorImplementsQueue` | `MonitorSpec => ImplementsQueue` |
| `GatewayJobsProofs` | `JobsImplementQueue` | `Spec => QueueSpec`: every property of the queue holds in the job runner |
| | `TypeCorrect` | `Spec => []TypeOK` |
| | `HoldersAreHeads`, `GatewaysAreExclusive` | `Spec => []HolderIsHead`, `Spec => []Exclusive` |
| | `LinesHoldTheParts` | `Spec => []LinesMatchParts` |
| | `CompletionIsKept`, `TasksCompleteOnce` | `Spec => []CompletionInv`, `Spec => []CompletedOnce` |
| | `CancelWakesEveryPart` | `Spec => []CancelLosesNoWakeup` |
| | `PartsAreAccounted`, `CancelledPartsDidNotRun` | `Spec => []PartsInv`, `Spec => []CancelledPartsNeverRan` |
| | `RowsAreCountedOnce` | `Spec => []EveryRowCounted` |
| | `TasksMoveForward` | `Spec => OnlyForward` |
| | `JobsImplementService` | `Spec => ImplementsService` |
| `StagingWorkersProofs` | `ServiceIsExclusive` | `ServiceSpec => []OneServed` |
| | `StagingTypeCorrect` | `Spec => []TypeOK` |
| | `NoRowIsSentTwice` | `RoutesAgree => (Spec => []NoRowSentTwice)` |
| | `RecordsStayTrue` | `Spec => []RecordsAreTrue` |
| `ServerProofs` | `ImportIsHonest` | `Spec => [](TypeOK /\ ImportIsTrue)` if the formal table does not fail as a whole |
| | `PartsAreTyped` | `PartsSpec => []PartsTypeOK` under the same hypothesis |
| | `RecordsAndRegistryAreKept` | `PartsSpec => TasksAreKept`; the same of `Records!Spec` |
| | `RefusedForCauseOnly` | `PartsSpec => []LockoutIsFair`; the same of `Lockout!Spec` |
| | `RowsGoWhereTheirChannelIs` | `PartsSpec => []RoutesAreSafe`; the same of `Router!Spec` |
| | `PageCountsWhatIsPlanned` | `PartsSpec => []PlansAgree`; the same of `Router!Spec` |
| | `GatewayTableIsSound` | `PartsSpec => []GatewaysAreSound`; the same of `Forms!Spec` |
| | `MappingsAreWhatTheySay` | `PartsSpec => []MappingsAreTrue`; the same of `Mapping!Spec` |
| `GatewayCallsProofs` | `CallsAreHonest` | `Spec => [](TypeOK /\ CallsAreTrue)` |
| `PageProofs` | `PanelsAreTrue` | `PartsSpec => []PanelsTellTheTruth`; the same of `Spec` (`BrowserTasks`) |
| | `StatusMovesForward` | `PartsSpec => StatusNeverRegresses`; the same of `Spec` |
| | `PreviewsStayCurrent` | `PartsSpec => []PreviewsAreFresh`; the same of `Preview!Spec` |
| | `OverridesAreStored` | `PartsSpec => []SavedMeansStored`; the same of `Overrides!Spec` |
| | `StagingSettles` | `PartsSpec => []TableIsSettled`; the same of `Staging!Spec` |
| | `RepliesTakeTheirTurn` | `PartsSpec => []RepliesAreInTurn`; the same of `Tools!Spec` |
| | `PartsAreTyped` | `PartsSpec => []PartsTypeOK` |
| `TablesProofs` | `PollsAreTrue` | `PartsSpec => []AnswersAreTrue`; the same of `Spec` (`TaskPoll`) |
| | `ProgressMovesForward` | `PartsSpec => ProgressNeverFalls`; the same of `Spec` |
| | `ListsStayTrue` | `PartsSpec => []ListsAreCurrent`; the same of `Lists!Spec` |
| | `ResultsStayWithTheirFiles` | `PartsSpec => []FilesKeepTheirResults`; the same of `Imports!Spec` |
| | `RowsBelongToTheSearch` | `PartsSpec => []ResultsFitTheSearch`; the same of `Query!Spec` |

`PartsSpec` is what the run checks; a part's own `Spec` has all of its steps, without the views and for
every value of the constants. Each proof has an inductive invariant of the part alone; `PartInits` and `PartSteps`
then say that a behaviour of the whole is, in the variables of the part in view, one of the part.

**Assumptions** are those the modules name (`KeysAssumption`, `RequestsAssumption`, ...) or collect in `ConstantsFit`: sets
are finite where they are counted, limits are positive, marks such as "no key" are no members. TLC evaluates all of
them in every run, the `ConstantsFit` of an instance through `EveryConstantFits`. Two hypotheses are not among them,
and a run shows what happens without each: `RoutesAgree` of `NoRowIsSentTwice` (`staging_two_keys`), and
`~FormalMayFail` of `ImportIsHonest` and `PartsAreTyped` in `ServerProofs` (`pg_done_is_written`).

**The line.** `GatewayQueueProofs` first says what appending to and removing from a sequence without
duplicates does to membership, the head and the order of two members; the queue's
theorems follow action by action.

**The monitor.** `MonitorInv` adds to the types that whoever is inside `wait_turn` past its first look is in its line, since
nobody can take it out while it has the lock, and that a flag raised after it was read has a
`wake()` still to come. The refinement has one case for each step: those before a section's effect is settled stutter.

**Exclusion.** `Exclusive` is not inductive: nothing in it stops two parts from being
granted. The invariant is `LinesInv`: lines have no duplicates; only accepted tasks have parts; and
`LinesMatchParts`: a task is in the line of `k` from `Submit` until `ReleaseLine`, or until a
cancelled `wait_turn` leaves it. With the types this gives "who
holds the gateway is the head" (`HolderIsHead`): the head can change only when its own part
releases, because a removal by another part takes a different member out and an append goes to the
end. Two holders are then both the head of one line, hence equal. `JobsImplementService` maps "is ahead" to
the order of the line and rests on the same facts.

**Completion.** `CompletionInv` counts: `remaining` is the cardinality of the parts without a result; it reaches 0
once, and whoever takes it there is the one that completes. `PartsInv` follows one part: what it has handled and what it
has left is what was asked of it, at each stage of its thread; `OnlyForward` needs it because a
worker that raises replaces its numbers by the result's. The summary is made of the results, which nobody
changes once all parts are over (`SummaryInv`): `EveryRowCounted` then adds up what `PartsInv` says of each.

**Sums.** `MapThenSumSet` is a fold, which adds a member at a time. `SumsExist` shows that the function it is computed
by exists for every finite set, and `MemberByMember` that what holds of no members, and of a set when it does
without the member picked, holds of every subset: the induction, stated with a set instead of an operator. So
sums add up when their terms do (`SumsAddUp`, for the gateways of a job) and rise when they do (`SumRises`, for
the parts of a polled task).

**The rows.** `NoRowIsSentTwice` is about the state two tasks leave behind, so its invariant says
what each part may believe (`PartOK`): its rows are routed to its key; it works only while it is
served; what it has sent is no longer pending, except between the call and the write-back, when it is
still served; what it has yet to send still is pending. The last clause is the one others could
break: only a worker's write-back changes a row that no operator touches, and a worker that could
write this row is on the same key (`RoutesAgree`) and served at the same time, which `OneServed` excludes.
`OneServed` in turn comes from `ServiceInv`: of two tasks present on a key one has the other
ahead, and whoever is served has nobody ahead. A restart empties the lines; what parts had sent
and not written back is then `unrecorded`. `RecordsInv` needs no such agreement: a row built is recorded, unrecorded, or
in the hands of a part that will write it; and each part's sets are disjoint and add up.

**The import.** `Inv` says at each stage of the handler (`Stages`) what the two tables have of its rows; a page step keeps it since
the page writes no table.

**The calls.** `Inv` says where the worker is and what it knows of its row (`Places`), how its counters
add up there (`Account`), and why one tag at most is damaged (`Breaker`): at a gateway that does not update
in part, the first write that returns is read back at once and found wrong. `Swift` counts the calls that
can still be heard after a cancel, by the call of the row the worker is at.

**The poll.** `AnswerOK(a, n)` is what is known of an answer of which `n` fields have been read, although the task has gone on:
each clause is stable under the threads' steps (`JobInv`), and each read adds its own. That `done` is
read before progress, summary and status, and a state before its numbers, is what makes the next clause follow.
That the progress never falls (`RisingOK`) is a chain: what is shown, what the answer has (once it has read it), what was
pushed, what the entries add up to. Each is at most the next; and no entry is ahead of the rows dealt with, so
none is ever written down.

**The page's tasks.** `PanelsTellTheTruth` is not inductive. That no second task is submitted needs that whatever the
server may run for a panel of this session, or may yet get, is followed by a loop of this session unless the page gave
it up (`OpenIsFollowed`): then the button is blocked. That in turn needs to know what a loop remembers of its
session (`LoopsKnowTheirTask`), that until the POST is answered its object reports nothing and until it is served
there is no task (`PostsAreNew`), and that a run without a task object has no task (`UnsentIsUnknown`). That
status never goes back needs an order of three: what the page shows is behind what an answer under
way says, and that behind what the server has (`ReportsAreOld`), also when the server has forgotten the task.
The proof goes by kinds of steps: those that end the session, move one loop, submit, follow again, drop a panel, or leave
all that standing; each part of the invariant is shown for the kinds.

**The other parts of the page** (`PageProofs`).

* Overrides: what a row is stamped with is stored, but for a row whose save has been served and not yet answered
  (`StampsAreStored`); a request of a save that still has its table carries what its row shows, unless the row was edited
  meanwhile (`RequestIsCurrent`); only edited rows are changed, sent and stored (`OnlyEdited`). A logout, or a derivation, takes the
  table from every save (`NoneIsAttached`), after which what it stores is `raced`.
* The staging table: the newest load of the session asks for what the controls show (`NewestFits`); it is out, has failed or was
  overtaken, or the table shows its answer (`NewestDecides`); what is shown or selected was on the screen since the last
  load or login (`TableIsRecent`). After a logout all loads that are out are late, and nothing is shown or selected.
* Tools: a button is disabled while its request is out (`DisabledMeansUnderWay`); replies are to questions of this chat or of
  an older one (`RepliesAreKnown`); and while nothing came in between, one reply at most is under way to the
  last question (`TurnsAreTaken`).
* Previews: what is shown was derived for the gateway it was asked for (`AskedIsDerived`); what has been served, or
  is shown with the number of now, rests on a version that is the server's still, unless a change was made that the page
  has not heard of (`ServedIsCurrent`, `ShownIsCurrent`). To hear of it raises `routeDataVersion`, which flags
  whatever is shown.

**Lists, files and the query** (`TablesProofs`).

* Lists: `ListsAreCurrent` says nothing of what is under way. `AnswersAreCurrent` does: what a load that nothing has
  overtaken will bring is current, unless a change has been served and not yet answered, and each such answer starts a new
  load. `NewsIsOut` turns that into the property: what is shown is current, or such a load or answer is still out.
* Files: a request is about an upload the server gave out (`UploadsAreKnown`), an import that is out is for the file
  shown, unless that was replaced, and its result adds up (`ImportsFit`), because the rows of a file split into those of the
  last page, whose new names are counted, and the others (`ImportCounts`, by cardinalities).
* Query: the newest search is the one asked (`NewestIsAsked`, `ShownIsAsked`), and rows, count and number of pages
  are what a search now finds as long as the table has not been written (`AnswersAreTrue`, `RowsAreTheirs`). That the pages
  cover what matches is arithmetic of the division (`PagesFit`, `PagesCover`).

**Records, lockout, routing, forms and mappings** (`ServerProofs`).

* Records: whoever has the lock has read what the file holds, and while he has it open nobody else can load it
  (`HistoryInv`); whatever is in the registry has started (`RegistryInv`). To add a record to the newest and cut off is the same
  as to add it to all of them and cut off (`NewestOfNewest`), so the history is that of all records ever written.
* Lockout: the record counts the last wrong passwords, the first of them at its start (`Counting`); those before it that
  would have made the limit together with its first one are a window older (`Older`); so of twice as many as the limit in a
  row, the first and the last are a window apart (`Spread`), and only a locked record refuses (`Answering`).
* Routing: the cache of a gateway that has not changed since its sync agrees with the gateway about which channels there
  are (`Faithful`); the rest is about operators: what `resolveGateway` may return (`RoutesAreKnown`, `RouteShape`),
  and what plan, badges and lists make of that.
* Forms: what is in the form belongs to the gateway it was opened for, and a request takes that along (`FormIsOfOne`,
  `RequestIsOfOne`).
* Mappings: the cache holds the last results without a gap (`CacheInOrder`); a download that no logout, restart or other tab has
  crossed is of the result shown (`DownloadsFit`).

**Only model-checked.** Liveness (`AcceptedTasksComplete`, `WorkEnds`) is out of the prover's reach.
`ScaleRecordsAreTrue` is `RecordsAreTrue` of a second instance in `MCWorkers`, proved once for
all values of the constants by `RecordsStayTrue`.

## 6. Divergences found

**The cancel flag of the summary.**
`API_SCHEMA.md:270` describes `summary.cancelled` as whether the task was cancelled. The summary reads the flag
when the last part completes (`gateway_jobs.py:300`), before `done` is set; a cancel that arrives between
the two is accepted with 200 and sets the flag, but the summary says `false`. Run
`jobs_cancel_report` gives the interleaving. Nothing is lost except the flag in the report: all rows had been
handled by then.

**One gateway, two lines.** `API_SCHEMA.md:291-292` says that two tasks working on the same rows do not send
them twice. That rests on their being in one line. A gateway's key is `gw:<id>` when the row is
routed by the gateway table and `url:<address>` when the request falls back to an address; two
requests that route the same row differently wait in different lines, both find it
pending at their turn, and both send it. Run `staging_two_keys` gives the interleaving;
`NoRowIsSentTwice` shows that only such a disagreement between routes can cause it.

**Rows marked done that are nowhere.** When `import_formal` fails as a whole, at the connection or the commit, it reports the
one error `_connection` (`pg_client.py:1037`). No row has that name, so `pg_execute_pg` takes all rows for
good (`main.py:2693-2696`), sends them to the Collector and marks them done (`main.py:2728-2735`), against its own
comment at `main.py:2727`. Run `pg_done_is_written` gives the steps; `ImportIsHonest` shows that nothing else
does it.

Seen while modelling; the modules contain these steps, but no run is about them:

* A breaker that trips at the last row leaves `cancelled_remaining` 0 and cannot be told from a plain failure
  (`main.py:2123`; `API_SCHEMA.md:2013`).
* A task that runs when the process stops is in no history (`main.py:307`), though the client for a lost task is told to look
  there (`API_SCHEMA.md:407`). `get_history` reads the file without the lock and may find it half written.
* An answer can carry the summary with `done` false: `done` is read first (`main.py:980-982`; `API_SCHEMA.md:235`).
* A refused request (429) has already evicted a finished task from the registry (`task_manager.py:115`).
* Rows imported after the preview of Step 4 are written with the others (`app.js:735`). "Rolled
  back" is answered also when the compensation failed (`main.py:2722`). The result of a write is wiped by
  the derivation that follows it (`app.js:739`, `716`).
* "Not sent" is shown for a task that runs, when the answer to its submission is lost (`app.js:467`). A loop whose submission
  is answered in the next session polls on there (`app.js:475`). A late 401 of an old session logs the new one out
  (`app.js:111`); so does a Collector that answers 401 to a reload (`main.py:2882`).
* A preview overtaken by a change is stamped with the new version and not flagged (`app.js:646`). A
  derivation, an upload and a sync of the last session go on in the next (`app.js:643`, `319`, `287`). What was typed into the
  forms stays there after a logout (`app.js:118-141`, `165`).
* An edit made while its row is being saved counts as saved (`app.js:676`). A save of overrides goes on behind a logout, and
  its end opens the next session's save button while that has a save of its own out (`app.js:679`): two may then overlap.
* Of two loads of the staging table the last answer wins, whatever the controls say, and ticks made meanwhile stay
  (`app.js:413`). A load that is out at a logout fills the next session's table with the rows of its own page and filter, under
  controls that say page 1 and no filter (`app.js:127`), and a deletion of the last session ends by opening the button of the next
  (`app.js:370`, `396`).
* An operator can set a status to done by hand (`main.py:2397-2405`, `pg_client.py:358-373`; `API_SCHEMA.md:632` allows it): the row is
  then called done though no gateway, and no formal table, has it, and no task will send it.
* An update with the default ticked, of a gateway deleted meanwhile, leaves no default at all
  (`pg_client.py:670-683`).
* A filter chosen on a later page can show an empty table without a pager (`app.js:405`).
* An import of more than 100 rows reports the inserts of its last statement only (`pg_client.py:276`).
* An export takes the conditions being edited, not those searched (`app.js:952`), and ends at 10000 rows
  (`main.py:2372`).

## 7. What is not modelled, and why

* Formatting and derivation of names, addresses, data types and CSV files, and the matching of
  `IOList_Mapping.py`: data that no property tells apart.
* HTTP, SQL and file access themselves: seen through their outcomes.
* Configuration, DDL, connection settings, the clean-up of logs, tokens and password hashes, roles: no
  interaction with what is modelled, or a guard of each endpoint.
* Dry runs use private keys `dry:<task>:<i>`: one task per line, so they never wait. Their worker is
  the rehearsal of `GatewayCalls`.
* Names, messages, row results, events other than "complete", and log lines.
* The design mock-up under `dashboarddesign/`, scripts and tests: not part of the service.
