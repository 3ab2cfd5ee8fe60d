---------------------------- MODULE GatewayCalls ----------------------------
(***************************************************************************)
(* One part of a job that leaves the staging table alone: the data_type    *)
(* check, the data_type fix with its circuit breaker, the batch delete and *)
(* its rehearsal (_datatype_worker, _kw_delete_worker), with the retries   *)
(* of a call the gateway answers with 429.  The line in front of it and    *)
(* the end of the part are the business of GatewayJobs.                    *)
(*                                                                         *)
(* Nobody knows yet what the gateway does with a PUT that names one field  *)
(* (the comment above the worker says so): it may change the one field,    *)
(* replace the whole tag, or answer 200 and change nothing, and it does    *)
(* the same each time.  Nobody else changes the tags of the part.          *)
(***************************************************************************)
EXTENDS Integers, Sequences, FiniteSets

CONSTANTS N,            \* rows of the part
          MaxRetries,   \* max_retries of a call, 3 in the code
          VerifyFirst   \* _DATATYPE_VERIFY_FIRST, 3 in the code

ASSUME CallsAssumption == /\ N \in Nat \ {0}
                          /\ MaxRetries \in Nat
                          /\ VerifyFirst \in Nat \ {0}

Rows == 1 .. N
Kinds == {"check", "fix", "delete", "rehearse"}
Stages == {"read", "write", "verify", "delete"}

(* A tag at the gateway against what Step 3 derives for it; the derived    *)
(* type of an "unfixable" row is not one that may be written.              *)
TagStates == {"right", "wrong", "unreadable", "absent", "unfixable"}

(* What may be left of the rows, in their order. *)
Selections == {s \in UNION {[1 .. n -> Rows] : n \in 0 .. N} :
                 \A i, j \in DOMAIN s : i < j => s[i] < s[j]}

VARIABLES
  kind,       \* which worker, and apply or dry_run
  put,        \* what a PUT of data_type does at this gateway
  zero,       \* batch_size is 0
  tags,       \* the tags at the gateway
  spoiled,    \* tags of which a PUT changed other fields
  todo, idx,  \* the rows to do, and how many were begun
  pc, stage,  \* where the worker is, and which call it is at
  tries,      \* attempt of the call
  puts,       \* put_count
  cancelled,  \* view.cancelled
  report,     \* the counters of the summary
  succeeded,  \* rows reported as success
  lost,       \* rows with a call that took effect and whose answer was lost
  late        \* calls that ended after the cancel

vars == <<kind, put, zero, tags, spoiled, todo, idx, pc, stage, tries, puts,
          cancelled, report, succeeded, lost, late>>

Row == todo[idx]

Init ==
  /\ kind \in Kinds
  /\ put \in {"partial", "replaces", "ignores"} /\ zero \in BOOLEAN
  /\ zero => kind \in {"delete", "rehearse"}   \* it does nothing to the others
  /\ tags \in [Rows -> TagStates]
  /\ todo = [i \in Rows |-> i]
  /\ idx = 0 /\ tries = 0 /\ puts = 0 /\ late = 0
  /\ pc = IF kind = "fix" THEN "turn" ELSE "start"
  /\ stage = "read"
  /\ cancelled = FALSE
  /\ report = [success |-> 0, fail |-> 0, skip |-> 0, remaining |-> 0]
  /\ spoiled = {} /\ succeeded = {} /\ lost = {}

fixed == <<kind, put, zero>>
gateway == <<tags, spoiled, lost, late>>
call == <<stage, tries, puts>>
outcome == <<report, succeeded>>

-----------------------------------------------------------------------------
(* Before the rows: the re-check at the turn, the login, the ways out.     *)

(* A fix asks again which rows are still built. *)
Recheck ==
  /\ pc = "turn"
  /\ todo' \in Selections
  /\ report' = [report EXCEPT !.skip = N - Len(todo')]
  /\ pc' = "start"
  /\ UNCHANGED <<fixed, gateway, call, idx, cancelled, succeeded>>

(* The query raises: _failed_result counts every row as failed. *)
RecheckFails ==
  /\ pc = "turn"
  /\ pc' = "done"
  /\ report' = [report EXCEPT !.fail = N]
  /\ UNCHANGED <<fixed, gateway, call, todo, idx, cancelled, succeeded>>

Start == pc = "start" /\ todo # <<>>
LooksBeforeLogin == kind \in {"check", "fix"}

NothingToDo ==
  /\ pc = "start" /\ todo = <<>>
  /\ pc' = "done"
  /\ UNCHANGED <<fixed, gateway, call, outcome, todo, idx, cancelled>>

CancelledBefore ==
  /\ Start /\ LooksBeforeLogin /\ cancelled
  /\ pc' = "done"
  /\ report' = [report EXCEPT !.remaining = Len(todo)]
  /\ UNCHANGED <<fixed, gateway, call, todo, idx, cancelled, succeeded>>

LogIn ==
  /\ Start /\ ~ (LooksBeforeLogin /\ cancelled)
  /\ pc' = "row"
  /\ UNCHANGED <<fixed, gateway, call, outcome, todo, idx, cancelled>>

LoginFails ==
  /\ Start /\ ~ (LooksBeforeLogin /\ cancelled) /\ kind # "rehearse"
  /\ pc' = "done"
  /\ report' = [report EXCEPT !.fail = Len(todo)]
  /\ UNCHANGED <<fixed, gateway, call, todo, idx, cancelled, succeeded>>

-----------------------------------------------------------------------------
(* What a row comes to.  Each ends the row, and Abort the part.            *)

RowSucceeds(r) ==
  /\ pc' = "row"
  /\ report' = [report EXCEPT !.success = @ + 1]
  /\ succeeded' = succeeded \cup {r}

RowSkipped ==
  /\ pc' = "row"
  /\ report' = [report EXCEPT !.skip = @ + 1]
  /\ UNCHANGED succeeded

RowFails ==
  /\ pc' = "row"
  /\ report' = [report EXCEPT !.fail = @ + 1]
  /\ UNCHANGED succeeded

(* The circuit breaker: a write that cannot be confirmed stops the part. *)
Abort ==
  /\ pc' = "done"
  /\ report' = [report EXCEPT !.fail = @ + 1, !.remaining = Len(todo) - idx]
  /\ UNCHANGED succeeded

CallFailed == IF stage = "verify" THEN Abort ELSE RowFails

-----------------------------------------------------------------------------
(* The loop over the rows.                                                 *)

(* _kw_delete_worker divides by batch_size after its first success. *)
Raises == zero /\ report.success > 0

(* _failed_result: all rows count as failed, whatever was deleted. *)
LoopRaises ==
  /\ pc = "row" /\ Raises
  /\ pc' = "done"
  /\ report' = [success |-> 0, fail |-> N, skip |-> 0, remaining |-> 0]
  /\ UNCHANGED <<fixed, gateway, call, todo, idx, cancelled, succeeded>>

LoopEnds ==
  /\ pc = "row" /\ idx = Len(todo) /\ ~Raises
  /\ pc' = "done"
  /\ UNCHANGED <<fixed, gateway, call, outcome, todo, idx, cancelled>>

LoopCancelled ==
  /\ pc = "row" /\ idx < Len(todo) /\ cancelled /\ ~Raises
  /\ pc' = "done"
  /\ report' = [report EXCEPT !.remaining = Len(todo) - idx]
  /\ UNCHANGED <<fixed, gateway, call, todo, idx, cancelled, succeeded>>

Calls(s) == pc' = "call" /\ stage' = s /\ tries' = 0

NextRow ==
  /\ pc = "row" /\ idx < Len(todo) /\ ~cancelled /\ ~Raises
  /\ idx' = idx + 1
  /\ LET r == todo[idx + 1]
     IN CASE kind = "rehearse" -> RowSucceeds(r) /\ UNCHANGED <<stage, tries>>
          [] kind = "delete" -> Calls("delete") /\ UNCHANGED outcome
          [] tags[r] = "unfixable" /\ LooksBeforeLogin -> RowFails /\ UNCHANGED <<stage, tries>>
          [] OTHER -> Calls("read") /\ UNCHANGED outcome
  /\ UNCHANGED <<fixed, gateway, puts, todo, cancelled>>

-----------------------------------------------------------------------------
(* One call: answered, refused for now (429), failed, or without answer.   *)

Returns(s) == /\ pc = "call" /\ stage = s
              /\ late' = IF cancelled THEN late + 1 ELSE late

ReadAnswered ==
  /\ Returns("read")
  /\ CASE tags[Row] \in {"absent", "unreadable"} -> RowFails /\ UNCHANGED <<stage, tries>>
       [] tags[Row] = "right" /\ kind = "fix" -> RowSkipped /\ UNCHANGED <<stage, tries>>
       [] tags[Row] = "wrong" /\ kind = "fix" -> Calls("write") /\ UNCHANGED outcome
       [] OTHER -> RowSucceeds(Row) /\ UNCHANGED <<stage, tries>>
  /\ UNCHANGED <<fixed, tags, spoiled, lost, puts, todo, idx, cancelled>>

(* What the PUT of the row's type does to the tag. *)
PutDone ==
  /\ tags' = IF put = "ignores" THEN tags ELSE [tags EXCEPT ![Row] = "right"]
  /\ spoiled' = IF put = "replaces" THEN spoiled \cup {Row} ELSE spoiled
TagGone == tags' = [tags EXCEPT ![Row] = "absent"] /\ UNCHANGED spoiled

WriteAnswered ==
  /\ Returns("write")
  /\ PutDone
  /\ puts' = puts + 1
  /\ IF puts' <= VerifyFirst
       THEN Calls("verify") /\ UNCHANGED outcome
       ELSE RowSucceeds(Row) /\ UNCHANGED <<stage, tries>>
  /\ UNCHANGED <<fixed, lost, todo, idx, cancelled>>

(* Slip: the other fields are not compared. *)
ConfirmedByType == tags[Row] = "right"

(* _datatype_verify_written: the type is the one written, and no other     *)
(* field differs from what was read before.                                *)
Confirmed == tags[Row] = "right" /\ Row \notin spoiled

VerifyAnswered ==
  /\ Returns("verify")
  /\ IF Confirmed THEN RowSucceeds(Row) ELSE Abort
  /\ UNCHANGED <<fixed, tags, spoiled, lost, call, todo, idx, cancelled>>

(* 404 counts as deleted. *)
DeleteAnswered ==
  /\ Returns("delete")
  /\ TagGone
  /\ RowSucceeds(Row)
  /\ UNCHANGED <<fixed, lost, call, todo, idx, cancelled>>

RateLimited ==
  /\ \E s \in Stages : Returns(s)
  /\ tries < MaxRetries
  /\ tries' = tries + 1
  /\ pc' = "backoff"
  /\ UNCHANGED <<fixed, tags, spoiled, lost, stage, puts, outcome, todo, idx, cancelled>>

(* An error status (the last 429 too), or no connection: without effect. *)
CallFails ==
  /\ \E s \in Stages : Returns(s)
  /\ CallFailed
  /\ UNCHANGED <<fixed, tags, spoiled, lost, call, todo, idx, cancelled>>

(* The call took effect, but its answer does not arrive in time. *)
CallLost ==
  /\ Returns("write") \/ Returns("delete")
  /\ IF stage = "write" THEN PutDone ELSE TagGone
  /\ lost' = lost \cup {Row}
  /\ CallFailed
  /\ UNCHANGED <<fixed, call, todo, idx, cancelled>>

BackOffEnds ==
  /\ pc = "backoff" /\ ~cancelled
  /\ pc' = "call"
  /\ UNCHANGED <<fixed, gateway, call, outcome, todo, idx, cancelled>>

(* The sleep notices the cancel: the 429 is raised as the call's error. *)
BackOffCancelled ==
  /\ pc = "backoff" /\ cancelled
  /\ CallFailed
  /\ UNCHANGED <<fixed, gateway, call, todo, idx, cancelled>>

-----------------------------------------------------------------------------
Cancel ==
  /\ pc # "done" /\ ~cancelled
  /\ cancelled' = TRUE
  /\ UNCHANGED <<fixed, gateway, call, outcome, todo, idx, pc>>

Before == Recheck \/ RecheckFails \/ NothingToDo \/ CancelledBefore \/ LogIn \/ LoginFails
Loop == LoopRaises \/ LoopEnds \/ LoopCancelled \/ NextRow
Call == \/ ReadAnswered \/ WriteAnswered \/ VerifyAnswered \/ DeleteAnswered
        \/ RateLimited \/ CallFails \/ CallLost \/ BackOffEnds \/ BackOffCancelled

Worker == Before \/ Loop \/ Call
Next == Worker \/ Cancel
Spec == Init /\ [][Next]_vars

(* The worker's thread runs, and every call of it returns or times out.    *)
FairSpec == Spec /\ WF_vars(Worker)

-----------------------------------------------------------------------------
(* The state keeps its type; in particular no counter leaves 0 .. N.       *)
TypeOK ==
  /\ kind \in Kinds /\ put \in {"partial", "replaces", "ignores"} /\ zero \in BOOLEAN
  /\ tags \in [Rows -> TagStates]
  /\ todo \in Selections
  /\ idx \in 0 .. Len(todo)
  /\ pc \in {"turn", "start", "row", "call", "backoff", "done"} /\ stage \in Stages
  /\ tries \in 0 .. MaxRetries /\ puts \in 0 .. N
  /\ cancelled \in BOOLEAN
  /\ report \in [success : 0 .. N, fail : 0 .. N, skip : 0 .. N, remaining : 0 .. N]
  /\ spoiled \subseteq Rows /\ succeeded \subseteq Rows /\ lost \subseteq Rows

(* However the part ends - done, cancelled at any point, broken off, login *)
(* refused, re-check failed, raised - its summary accounts for every row.  *)
ReportAddsUp ==
  pc = "done" => report.success + report.fail + report.skip + report.remaining = N

(* What the summary calls corrected is corrected, in all its fields, and   *)
(* what it calls deleted is gone.  Rows after the first VerifyFirst are    *)
(* never read back: they are vouched for by the ones that were.            *)
ReportIsTrue ==
  \A r \in succeeded :
    /\ kind = "fix" => tags[r] = "right" /\ r \notin spoiled
    /\ kind = "delete" => tags[r] = "absent"

(* At a gateway whose PUT replaces the tag, the breaker limits the damage  *)
(* to one tag.  (Not counting writes whose answer was lost: the code       *)
(* verifies only writes that returned, and goes on after the others.)      *)
DamageIsContained == Cardinality(spoiled \ lost) <= 1

(* After a cancel the gateway hears of the row under way only: at most its *)
(* read, its write and its read-back still return, and a back-off is not   *)
(* slept through.                                                          *)
CancelIsSwift == late <= IF kind = "fix" THEN 3 ELSE 1

(* A part reports what its calls did, stops when its gateway does harm, and *)
(* stops soon when it is cancelled.                                         *)
CallsAreTrue ==
    /\ ReportAddsUp
    /\ ReportIsTrue
    /\ DamageIsContained
    /\ CancelIsSwift
=============================================================================
