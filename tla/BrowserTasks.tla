---------------------------- MODULE BrowserTasks ----------------------------
(***************************************************************************)
(* static/js/app.js: the login session of one browser page and the         *)
(* background tasks it sends, follows and cancels.                         *)
(*                                                                         *)
(* Every flow that executes on a gateway (Step 3, Step 5, batch delete) is *)
(* an owner with an executing flag and a task object.  _runGatewayTask     *)
(* puts a new task object there, posts the request and polls the task to   *)
(* its end; resumeTask polls again after the polling was given up.  Both   *)
(* are coroutines (Threads here): JavaScript runs them one at a time, and  *)
(* between two awaits nothing else runs, so a step of this module is all   *)
(* that happens from one await to the next.                                *)
(*                                                                         *)
(* A logout, a 401 and a reload of the page can fall between any two       *)
(* steps; an answer can be late or lost on the way there or back; the      *)
(* server can be restarted.  A Run is one task object together with the    *)
(* server task its POST creates.                                           *)
(***************************************************************************)
EXTENDS Integers, FiniteSets

CONSTANTS Owners,   \* kwDerive, scaleDerive, delState
          Runs,     \* the submissions of a behaviour
          Threads,  \* coroutines of _runGatewayTask and resumeTask
          NoRun,    \* _newTask(): the owner shows no task
          CanCancel,\* the user's role lets the panel offer the button
          MaxFail,  \* TASK_POLL_MAX_FAIL
          MaxToken, \* bound: logins in a behaviour
          MaxEpoch  \* bound: ends of a session in a behaviour

(* What is assumed of the constants.                                        *)
ConstantsFit ==
    /\ Owners # {}
    /\ NoRun \notin Runs \cup Owners
    /\ CanCancel \in BOOLEAN
    /\ MaxFail \in Nat \ {0}
    /\ MaxToken \in Nat \ {0}
    /\ MaxEpoch \in Nat

VARIABLES token,     \* auth.token, 0 when logged out
          logins,    \* tokens given out so far
          valid,     \* tokens the server accepts
          epoch,     \* _taskEpoch
          executing, \* owner.executing
          task,      \* owner.task
          ts,        \* the task objects
          co,        \* the coroutines
          cancelReq, \* the request of cancelTask of each task object
          server     \* the tasks in the server's registry

sessionVars == <<token, logins, valid, epoch>>
ownerVars == <<executing, task>>
vars == <<sessionVars, ownerVars, ts, co, cancelReq, server>>

-----------------------------------------------------------------------------
(* The shapes of the data *)

Statuses == {"", "queued", "running", "done", "cancelled"}
Finished == {"done", "cancelled"}

(* _newTask.  owner and born are the model's: the flow that made the object *)
(* (NoRun: it does not exist yet) and the session it was made in.           *)
NewTask == [owner |-> NoRun, born |-> 0, id |-> FALSE, submitting |-> FALSE,
            done |-> FALSE, status |-> "", cancelled |-> FALSE,
            cancelling |-> FALSE, error |-> FALSE, lost |-> FALSE, stalled |-> FALSE]

TaskType == [owner : Owners \cup {NoRun}, born : Nat, id : BOOLEAN, submitting : BOOLEAN,
             done : BOOLEAN, status : Statuses, cancelled : BOOLEAN,
             cancelling : BOOLEAN, error : BOOLEAN, lost : BOOLEAN, stalled : BOOLEAN]

(* What the server answers to a request. *)
Answer(code, st, c) == [code |-> code, status |-> st, cancelled |-> c]
NoAnswer == Answer("", "", FALSE)
Codes == {"", "ok", "refused", "401", "404", "409"}
AnswerType == [code : Codes, status : Statuses, cancelled : BOOLEAN]

Idle(r, o) == [pc |-> "idle", run |-> r, owner |-> o, outer |-> 0, inner |-> 0,
               fails |-> 0, token |-> 0, answer |-> NoAnswer]
NoThread == Idle(NoRun, CHOOSE o \in Owners : TRUE)

ThreadType == [pc : {"idle", "post", "ask", "sleep"}, run : Runs \cup {NoRun},
               owner : Owners, outer : Nat, inner : Nat, fails : 0..MaxFail,
               token : 0..MaxToken, answer : AnswerType]

NoRequest == [sent |-> FALSE, token |-> 0, code |-> ""]
RequestType == [sent : BOOLEAN, token : 0..MaxToken, code : Codes]

(* The registry: what get_task finds, and the flag of the cancel endpoint.  *)
NoServerTask == [state |-> "none", cancelled |-> FALSE]
ServerType == [state : {"none", "gone", "queued", "running"} \cup Finished, cancelled : BOOLEAN]

Init ==
    /\ token = 1 /\ logins = 1 /\ valid = {1} /\ epoch = 0
    /\ executing = [o \in Owners |-> FALSE]
    /\ task = [o \in Owners |-> NoRun]
    /\ ts = [r \in Runs |-> NewTask]
    /\ co = [c \in Threads |-> NoThread]
    /\ cancelReq = [r \in Runs |-> NoRequest]
    /\ server = [r \in Runs |-> NoServerTask]

-----------------------------------------------------------------------------
(* The session *)

(* _resetState, the part of it that concerns tasks. *)
ResetState ==
    /\ epoch' = epoch + 1
    /\ executing' = [o \in Owners |-> FALSE]
    /\ task' = [o \in Owners |-> NoRun]

(* doLogout. *)
ClearSession ==
    /\ token' = 0
    /\ ResetState

doLogin ==
    /\ token = 0
    /\ logins < MaxToken
    /\ logins' = logins + 1
    /\ token' = logins + 1
    /\ valid' = valid \cup {logins + 1}
    /\ UNCHANGED <<epoch, ownerVars, ts, co, cancelReq, server>>

doLogout ==
    /\ token # 0
    /\ epoch < MaxEpoch
    /\ ClearSession
    /\ UNCHANGED <<logins, valid, ts, co, cancelReq, server>>

(* The page is loaded again: the token comes from localStorage, everything  *)
(* else is new.  The page's counter would start at 0 again; it goes on here *)
(* so that an epoch names one life of the page (no coroutine is left that   *)
(* could compare the two).                                                  *)
Reload ==
    /\ epoch < MaxEpoch
    /\ ResetState
    /\ co' = [c \in Threads |-> NoThread]
    /\ cancelReq' = [r \in Runs |-> NoRequest]
    /\ UNCHANGED <<token, logins, valid, ts, server>>

(* The fetch wrapper sees a 401 while the page holds a token. *)
Expired(code) == code = "401" /\ token # 0

(* _taskEpoch when the caller of fetch resumes. *)
EpochAfter(code) == IF Expired(code) THEN epoch + 1 ELSE epoch

-----------------------------------------------------------------------------
(* Submitting and following a task *)

Ask(c, r, o, outer, inner, fails) ==
    [pc |-> "ask", run |-> r, owner |-> o, outer |-> outer, inner |-> inner,
     fails |-> fails, token |-> token, answer |-> NoAnswer]

(* executeKw, executeScale and executeDelete into _runGatewayTask and       *)
(* _startTask, up to the POST.  The button is disabled while executing.     *)
RunGatewayTask(o, r, c) ==
    /\ token # 0 /\ ~executing[o]
    /\ ts[r].owner = NoRun /\ co[c].pc = "idle"
    /\ executing' = [executing EXCEPT ![o] = TRUE]
    /\ task' = [task EXCEPT ![o] = r]
    /\ ts' = [ts EXCEPT ![r] = [NewTask EXCEPT !.owner = o, !.born = epoch, !.submitting = TRUE]]
    /\ co' = [co EXCEPT ![c] = [pc |-> "post", run |-> r, owner |-> o, outer |-> epoch, inner |-> 0,
                                fails |-> 0, token |-> token, answer |-> NoAnswer]]
    /\ UNCHANGED <<sessionVars, cancelReq, server>>

(* A slip: the stalled mark stays, so the link stays.                       *)
ResumeLeavesLink(o, c) ==
    LET r == task[o]
    IN  /\ token # 0 /\ r # NoRun /\ co[c].pc = "idle"
        /\ ts[r].stalled /\ ts[r].id /\ ~ts[r].done
        /\ executing' = [executing EXCEPT ![o] = TRUE]
        /\ co' = [co EXCEPT ![c] = Ask(c, r, o, epoch, epoch, 0)]
        /\ UNCHANGED <<sessionVars, task, ts, cancelReq, server>>

(* resumeTask: the link is there only while the task is stalled. *)
resumeTask(o, c) ==
    LET r == task[o]
    IN  /\ token # 0 /\ r # NoRun /\ co[c].pc = "idle"
        /\ ts[r].stalled /\ ts[r].id /\ ~ts[r].done
        /\ executing' = [executing EXCEPT ![o] = TRUE]
        /\ ts' = [ts EXCEPT ![r].stalled = FALSE]
        /\ co' = [co EXCEPT ![c] = Ask(c, r, o, epoch, epoch, 0)]
        /\ UNCHANGED <<sessionVars, task, cancelReq, server>>

(* A slip: deriving again drops the task that is being followed.            *)
DropTaskAlways(o) ==
    /\ task[o] # NoRun
    /\ task' = [task EXCEPT ![o] = NoRun]
    /\ UNCHANGED <<sessionVars, executing, ts, co, cancelReq, server>>

(* deriveKw, deriveScale and _uploadDeleteCSV clear the old result unless   *)
(* a task is being followed.                                                *)
DropTask(o) ==
    /\ task[o] # NoRun /\ ~executing[o]
    /\ task' = [task EXCEPT ![o] = NoRun]
    /\ UNCHANGED <<sessionVars, executing, ts, co, cancelReq, server>>

(* A coroutine resumes from fetch with this code: the wrapper's logout has  *)
(* happened, and if the run is over, finally clears its owner's flag.       *)
Resumes(c, code, over) ==
    IF Expired(code)
    THEN ClearSession
    ELSE /\ UNCHANGED <<token, epoch, task>>
         /\ executing' = IF over /\ co[c].outer = epoch
                         THEN [executing EXCEPT ![co[c].owner] = FALSE]
                         ELSE executing

(* _startTask after the POST.  With a task id it goes on into _trackTask,   *)
(* which reads the epoch of this moment; its loop does not start when the   *)
(* page has no token.                                                       *)
Posted(c) ==
    LET r == co[c].run
        code == co[c].answer.code
        on == code = "ok" /\ token # 0
    IN  /\ co[c].pc = "post" /\ code # ""
        /\ Expired(code) => epoch < MaxEpoch
        /\ Resumes(c, code, ~on)
        /\ ts' = [ts EXCEPT ![r].submitting = FALSE, ![r].id = code = "ok", ![r].error = code # "ok"]
        /\ co' = [co EXCEPT ![c] = IF on THEN Ask(c, r, co[c].owner, co[c].outer, epoch, 0) ELSE NoThread]
        /\ UNCHANGED <<logins, valid, cancelReq, server>>

(* The POST or its answer is lost: the catch of _startTask. *)
PostFails(c) ==
    /\ co[c].pc = "post"
    /\ Resumes(c, "", TRUE)
    /\ ts' = [ts EXCEPT ![co[c].run].submitting = FALSE, ![co[c].run].error = TRUE]
    /\ co' = [co EXCEPT ![c] = NoThread]
    /\ UNCHANGED <<logins, valid, cancelReq, server>>

(* _applyTaskStatus. *)
ApplyTaskStatus(t, a) ==
    [t EXCEPT !.status = a.status, !.cancelled = a.cancelled, !.done = @ \/ a.status \in Finished]

CountFail(c) == co[c].fails + 1

Sleep(c, fails) == [co[c] EXCEPT !.pc = "sleep", !.fails = fails, !.answer = NoAnswer, !.token = 0]

(* _trackTask after an answer that is not an error of its own: the task is  *)
(* lost, done, or asked for again after a pause.  After a change of epoch   *)
(* the loop just ends.                                                      *)
Polled(c) ==
    LET r == co[c].run
        a == co[c].answer
        current == co[c].inner = epoch
        over == ~current \/ a.code = "404" \/ a.status \in Finished
    IN  /\ co[c].pc = "ask" /\ a.code \in {"ok", "404"}
        /\ Resumes(c, a.code, over)
        /\ ts' = IF ~current THEN ts
                 ELSE [ts EXCEPT ![r] = IF a.code = "404" THEN [@ EXCEPT !.lost = TRUE]
                                        ELSE ApplyTaskStatus(@, a)]
        /\ co' = [co EXCEPT ![c] = IF over THEN NoThread ELSE Sleep(c, 0)]
        /\ UNCHANGED <<logins, valid, cancelReq, server>>

(* _trackTask: the request failed, or was answered with another error.      *)
PollFails(c) ==
    /\ co[c].pc = "ask"
    /\ \E code \in {"", co[c].answer.code} \cap {"", "401"} :
          LET r == co[c].run
              current == co[c].inner = EpochAfter(code)
              fails == CountFail(c)
              stall == current /\ fails >= MaxFail
              over == ~current \/ stall
          IN  /\ Expired(code) => epoch < MaxEpoch
              /\ Resumes(c, code, over)
              /\ ts' = IF stall THEN [ts EXCEPT ![r].stalled = TRUE] ELSE ts
              /\ co' = [co EXCEPT ![c] = IF over THEN NoThread ELSE Sleep(c, fails)]
    /\ UNCHANGED <<logins, valid, cancelReq, server>>

(* The pause is over and the loop looks at the epoch and the token. *)
Wakes(c) ==
    LET on == co[c].inner = epoch /\ token # 0
    IN  /\ co[c].pc = "sleep"
        /\ Resumes(c, "", ~on)
        /\ co' = [co EXCEPT ![c] = IF on THEN Ask(c, @.run, @.owner, @.outer, @.inner, @.fails) ELSE NoThread]
        /\ UNCHANGED <<logins, valid, ts, cancelReq, server>>

-----------------------------------------------------------------------------
(* Cancelling *)

(* The panel offers the button while the task is followed. *)
Running(t) == t.id /\ ~t.done /\ ~t.lost /\ ~t.stalled

cancelTask(o) ==
    LET r == task[o]
    IN  /\ token # 0 /\ r # NoRun
        /\ CanCancel /\ Running(ts[r]) /\ ~ts[r].cancelling /\ ~ts[r].cancelled
        /\ ts' = [ts EXCEPT ![r].cancelling = TRUE]
        /\ cancelReq' = [cancelReq EXCEPT ![r] = [sent |-> TRUE, token |-> token, code |-> ""]]
        /\ UNCHANGED <<sessionVars, ownerVars, co, server>>

(* _cancelById and the rest of cancelTask: only an accepted request leaves  *)
(* the task cancelling.  The request or its answer may have been lost.      *)
CancelAnswered(r) ==
    /\ cancelReq[r].sent
    /\ \E code \in {"", cancelReq[r].code} :
          /\ Expired(code) => epoch < MaxEpoch
          /\ IF Expired(code) THEN ClearSession ELSE UNCHANGED <<token, epoch, ownerVars>>
          /\ ts' = IF code = "ok" THEN ts ELSE [ts EXCEPT ![r].cancelling = FALSE]
    /\ cancelReq' = [cancelReq EXCEPT ![r] = NoRequest]
    /\ UNCHANGED <<logins, valid, co, server>>

-----------------------------------------------------------------------------
(* The server *)

(* A slip: the registry answers for any task it ever had.                   *)
Known(r) == server[r].state \notin {"none", "gone"}

Answers(c, a) == co' = [co EXCEPT ![c].answer = a]

(* The handler behind the POST: get_current_user, the checks of             *)
(* _dispatch_gateway_job, and the task.                                     *)
ServePost(c) ==
    LET r == co[c].run
    IN  /\ co[c].pc = "post" /\ co[c].answer = NoAnswer
        /\ IF co[c].token \notin valid
           THEN Answers(c, Answer("401", "", FALSE)) /\ UNCHANGED server
           ELSE \/ Answers(c, Answer("refused", "", FALSE)) /\ UNCHANGED server
                \/ /\ Answers(c, Answer("ok", "", FALSE))
                   /\ server' = [server EXCEPT ![r].state = "queued"]
        /\ UNCHANGED <<sessionVars, ownerVars, ts, cancelReq>>

(* get_task_status. *)
ServePoll(c) ==
    LET s == server[co[c].run]
    IN  /\ co[c].pc = "ask" /\ co[c].answer = NoAnswer
        /\ Answers(c, IF co[c].token \notin valid THEN Answer("401", "", FALSE)
                      ELSE IF ~Known(co[c].run) THEN Answer("404", "", FALSE)
                      ELSE Answer("ok", s.state, s.cancelled))
        /\ UNCHANGED <<sessionVars, ownerVars, ts, cancelReq, server>>

(* cancel_task. *)
ServeCancel(r) ==
    LET code == IF cancelReq[r].token \notin valid THEN "401"
                ELSE IF ~Known(r) THEN "404"
                ELSE IF server[r].state \in Finished THEN "409"
                ELSE "ok"
    IN  /\ cancelReq[r].sent /\ cancelReq[r].code = ""
        /\ cancelReq' = [cancelReq EXCEPT ![r].code = code]
        /\ server' = IF code = "ok" THEN [server EXCEPT ![r].cancelled = TRUE] ELSE server
        /\ UNCHANGED <<sessionVars, ownerVars, ts, co>>

(* The job behind the task (GatewayJobs): its first part runs, its last     *)
(* part ends.  A cancel after the summary was built leaves it "done".       *)
Progress(r) ==
    /\ \/ /\ server[r].state = "queued"
          /\ server' = [server EXCEPT ![r].state = "running"]
       \/ /\ server[r].state \in {"queued", "running"}
          /\ \E s \in (IF server[r].cancelled THEN Finished ELSE {"done"}) :
                server' = [server EXCEPT ![r].state = s]
    /\ UNCHANGED <<sessionVars, ownerVars, ts, co, cancelReq>>

(* The process is started again: no task is restored, and unless the        *)
(* configuration names a secret no token is accepted any more.              *)
ServerRestart ==
    /\ \E r \in Runs : Known(r)
    /\ server' = [r \in Runs |-> IF Known(r) THEN [state |-> "gone", cancelled |-> FALSE] ELSE server[r]]
    /\ valid' \in {valid, {}}
    /\ UNCHANGED <<token, logins, epoch, ownerVars, ts, co, cancelReq>>

(* A token reaches its expiry. *)
TokenExpires ==
    /\ \E k \in valid : valid' = valid \ {k}
    /\ UNCHANGED <<token, logins, epoch, ownerVars, ts, co, cancelReq, server>>

-----------------------------------------------------------------------------

Browser(c) == Posted(c) \/ PostFails(c) \/ Polled(c) \/ PollFails(c) \/ Wakes(c)
Serve(c) == ServePost(c) \/ ServePoll(c)

Next ==
    \/ doLogin \/ doLogout \/ Reload \/ ServerRestart \/ TokenExpires
    \/ \E o \in Owners : DropTask(o) \/ cancelTask(o)
    \/ \E o \in Owners, r \in Runs, c \in Threads : RunGatewayTask(o, r, c)
    \/ \E o \in Owners, c \in Threads : resumeTask(o, c)
    \/ \E c \in Threads : Browser(c) \/ Serve(c)
    \/ \E r \in Runs : CancelAnswered(r) \/ ServeCancel(r) \/ Progress(r)

Spec == Init /\ [][Next]_vars

(* A request is answered or fails, a pause ends, and the server works its   *)
(* tasks off (GatewayJobs, AcceptedTasksComplete).  Nothing is assumed of   *)
(* the user or of the network's success.                                    *)
Fairness ==
    /\ \A c \in Threads : WF_vars(Browser(c)) /\ WF_vars(ServePost(c))
    /\ \A r \in Runs : WF_vars(Progress(r)) /\ WF_vars(CancelAnswered(r))

FairSpec == Spec /\ Fairness

-----------------------------------------------------------------------------
(* Properties *)

(* The page, its loops and the server's tasks keep their types.            *)
TypeOK ==
    /\ token \in 0..MaxToken /\ logins \in 1..MaxToken /\ valid \subseteq 1..MaxToken
    /\ epoch \in 0..MaxEpoch
    /\ executing \in [Owners -> BOOLEAN]
    /\ task \in [Owners -> Runs \cup {NoRun}]
    /\ ts \in [Runs -> TaskType]
    /\ co \in [Threads -> ThreadType]
    /\ cancelReq \in [Runs -> RequestType]
    /\ server \in [Runs -> ServerType]

Active(c) == co[c].pc # "idle"
Mine(c) == Active(c) /\ co[c].outer = epoch    \* its finally will clear the flag

(* The execute button is blocked exactly while a coroutine of this session  *)
(* works for the flow: a logout in between neither leaves it blocked for    *)
(* ever nor lets an old run open it.                                        *)
ExecutingIsWork ==
    \A o \in Owners : executing[o] <=> \E c \in Threads : Mine(c) /\ co[c].owner = o

(* What is followed is what the panel shows, and only one loop follows it.  *)
PanelFollowsItsTask ==
    /\ \A c \in Threads : Mine(c) => task[co[c].owner] = co[c].run
    /\ \A c, d \in Threads : c # d /\ Active(c) /\ Active(d) => co[c].run # co[d].run

(* The page gave the task up in front of the user's eyes. *)
GivenUp(r) == ts[r].error \/ ts[r].stalled \/ ts[r].lost

Unfinished(r) == server[r].state \in {"queued", "running"}

(* executing avoids a second submission while the first is under way: two   *)
(* unfinished tasks of one flow and one session mean that the page had told *)
(* the user it lost sight of one of them.                                   *)
NoDoubleSubmit ==
    \A r, s \in Runs :
        r # s /\ Unfinished(r) /\ Unfinished(s)
              /\ ts[r].owner = ts[s].owner /\ ts[r].born = ts[s].born
        => GivenUp(r) \/ GivenUp(s)

(* No panel shows the task of an earlier session.                           *)
PanelsBelongToSession ==
    \A o \in Owners : task[o] # NoRun => ts[task[o]].born = epoch

(* "Cancelling" is shown only while the request is out, or when the server  *)
(* has taken it (or has forgotten the task since).                          *)
CancellingIsTrue ==
    \A o \in Owners : LET r == task[o] IN
        r # NoRun /\ ts[r].cancelling /\ ~cancelReq[r].sent
        => server[r].cancelled \/ server[r].state = "gone"

StatusRank(s) == CASE s = "" -> 0 [] s = "queued" -> 1 [] s = "running" -> 2 [] OTHER -> 3

Later ==
    \A r \in Runs : /\ StatusRank(ts'[r].status) >= StatusRank(ts[r].status)
                   /\ ts[r].cancelled => ts'[r].cancelled

(* What a task object reports never goes back: no late answer of one loop   *)
(* overwrites what another has shown.                                       *)
StatusNeverRegresses == [][Later]_ts

(* Every execution ends for the page: done, lost, given up or logged out.   *)
ExecutionEnds == \A o \in Owners : executing[o] ~> ~executing[o]

(* What the panels of tasks show and offer is so, whatever overlapped, was  *)
(* lost, was given up or was left behind by a logout.                       *)
PanelsTellTheTruth ==
    /\ ExecutingIsWork
    /\ PanelFollowsItsTask
    /\ NoDoubleSubmit
    /\ PanelsBelongToSession
    /\ CancellingIsTrue
=============================================================================
