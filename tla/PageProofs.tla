----------------------------- MODULE PageProofs -----------------------------
(***************************************************************************)
(* What the parts of MCPage keep, for any values of their constants: what  *)
(* the panels of tasks show is so, for any number of flows, tasks and      *)
(* coroutines, and whatever is lost, late, given up or left behind by a    *)
(* logout; and the parts beside them, each under its own prefix.           *)
(***************************************************************************)
EXTENDS MCPage, SequenceTheorems, FiniteSetTheorems, TLAPS

-----------------------------------------------------------------------------
(* The inductive invariant *)

(* A request is out that may still create the task.                         *)
Posting(r) == \E c \in Threads : co[c].pc = "post" /\ co[c].run = r

(* The server has the task and has not ended it, or may get it yet.         *)
Open(r) == Unfinished(r) \/ Posting(r)

(* A coroutine works on the task object its flow made in its session; in    *)
(* the present session it has a token, and polls with the present epoch.    *)
LoopsKnowTheirTask ==
    \A c \in Threads : Active(c) =>
        /\ co[c].run \in Runs
        /\ ts[co[c].run].owner = co[c].owner
        /\ ts[co[c].run].born = co[c].outer
        /\ ~ts[co[c].run].stalled
        /\ co[c].outer <= epoch
        /\ co[c].inner <= epoch
        /\ Mine(c) => token # 0 /\ (co[c].pc # "post" => co[c].inner = epoch)

(* Until the POST is answered its task object reports no error, and until   *)
(* it is served there is no task.                                           *)
PostsAreNew ==
    \A c \in Threads : co[c].pc = "post" =>
        /\ ~ts[co[c].run].error
        /\ co[c].answer = NoAnswer => server[co[c].run].state = "none"

TasksKnowTheirOwner ==
    /\ \A o \in Owners : task[o] # NoRun => ts[task[o]].owner = o
    /\ \A r \in Runs : ts[r].born <= epoch

(* A run that has no task object has no task.                               *)
UnsentIsUnknown == \A r \in Runs : ts[r].owner = NoRun => server[r].state = "none"

CancelsReached ==
    \A r \in Runs : cancelReq[r].code = "ok" => server[r].cancelled \/ server[r].state = "gone"

(* What the page has not given up it follows, within the session.           *)
OpenIsFollowed ==
    \A r \in Runs : Open(r) /\ ~GivenUp(r) /\ ts[r].born = epoch
                    => \E c \in Threads : Mine(c) /\ co[c].run = r

(* NoDoubleSubmit, from the moment the POST is sent.                        *)
OneIsOpen ==
    \A r, s \in Runs :
        r # s /\ Open(r) /\ Open(s) /\ ts[r].owner = ts[s].owner /\ ts[r].born = ts[s].born
        => GivenUp(r) \/ GivenUp(s)

(* A report st, c of a task is no further than the server's s.              *)
Behind(st, c, s) ==
    /\ s.state = "none" => st = "" /\ ~c
    /\ s.state \notin {"none", "gone"} =>
           StatusRank(st) <= StatusRank(s.state) /\ (c => s.cancelled)

(* What the page shows is behind what an answer under way says, and that is *)
(* behind the server.                                                       *)
ReportsAreOld ==
    /\ \A r \in Runs : Behind(ts[r].status, ts[r].cancelled, server[r])
    /\ \A c \in Threads : co[c].pc = "ask" /\ co[c].answer.code = "ok" =>
           /\ Behind(co[c].answer.status, co[c].answer.cancelled, server[co[c].run])
           /\ StatusRank(ts[co[c].run].status) <= StatusRank(co[c].answer.status)
           /\ ts[co[c].run].cancelled => co[c].answer.cancelled

SessionInv ==
    /\ LoopsKnowTheirTask
    /\ TasksKnowTheirOwner
    /\ ExecutingIsWork
    /\ PanelFollowsItsTask
    /\ PanelsBelongToSession

ServerInv ==
    /\ PostsAreNew
    /\ UnsentIsUnknown
    /\ CancelsReached
    /\ CancellingIsTrue
    /\ ReportsAreOld

SubmitInv ==
    /\ OpenIsFollowed
    /\ OneIsOpen

TasksInv == TypeOK /\ SessionInv /\ ServerInv /\ SubmitInv

-----------------------------------------------------------------------------
(* Types *)

LEMMA NoThreadType == ASSUME ConstantsFit PROVE NoThread \in ThreadType /\ NoThread.pc = "idle"
<1>1. (CHOOSE o \in Owners : TRUE) \in Owners
    BY DEF ConstantsFit
<1>2. 0 \in 0..MaxFail /\ 0 \in 0..MaxToken
    BY DEF ConstantsFit
<1> QED
    BY <1>1, <1>2 DEF NoThread, Idle, ThreadType, NoAnswer, Answer, AnswerType, Codes, Statuses

LEMMA TypesInit == ASSUME ConstantsFit, Init PROVE TypeOK
<1>1. NewTask \in TaskType
    BY DEF NewTask, TaskType, Statuses
<1>2. NoRequest \in RequestType
    BY DEF NoRequest, RequestType, Codes, ConstantsFit
<1>3. NoServerTask \in ServerType
    BY DEF NoServerTask, ServerType
<1>4. co \in [Threads -> ThreadType]
    BY NoThreadType DEF Init
<1> QED
    BY <1>1, <1>2, <1>3, <1>4 DEF Init, TypeOK, ConstantsFit

(* What a coroutine is after a step is a thread again.                      *)
LEMMA AskType ==
    ASSUME ConstantsFit, TypeOK, NEW c \in Threads, NEW r \in Runs, NEW o \in Owners,
           NEW m \in Nat, NEW n \in Nat, NEW f \in 0..MaxFail
    PROVE  Ask(c, r, o, m, n, f) \in ThreadType
BY DEF Ask, ThreadType, NoAnswer, Answer, AnswerType, Codes, Statuses, TypeOK

LEMMA SleepType ==
    ASSUME ConstantsFit, TypeOK, NEW c \in Threads, NEW f \in 0..MaxFail
    PROVE  Sleep(c, f) \in ThreadType
<1>1. co[c] \in ThreadType
    BY DEF TypeOK
<1>2. NoAnswer \in AnswerType /\ 0 \in 0..MaxToken
    BY DEF NoAnswer, Answer, AnswerType, Codes, Statuses, ConstantsFit
<1> QED
    BY <1>1, <1>2 DEF Sleep, ThreadType

LEMMA Elements ==
    ASSUME TypeOK
    PROVE  /\ \A r \in Runs : ts[r] \in TaskType /\ cancelReq[r] \in RequestType /\ server[r] \in ServerType
           /\ \A c \in Threads : co[c] \in ThreadType /\ co[c].answer \in AnswerType
<1>1. \A c \in Threads : co[c] \in ThreadType
    BY DEF TypeOK
<1>2. \A c \in Threads : co[c].answer \in AnswerType
    BY <1>1 DEF ThreadType
<1> QED
    BY <1>1, <1>2 DEF TypeOK

LEMMA FlaggedTask ==
    ASSUME NEW t \in TaskType, NEW b \in BOOLEAN
    PROVE  [t EXCEPT !.stalled = b] \in TaskType /\ [t EXCEPT !.cancelling = b] \in TaskType
    BY DEF TaskType

LEMMA Initials ==
    ASSUME ConstantsFit
    PROVE  /\ NewTask \in TaskType /\ NoRequest \in RequestType /\ NoAnswer \in AnswerType
           /\ MaxToken \in Nat \ {0} /\ MaxEpoch \in Nat /\ MaxFail \in Nat \ {0}
<1>1. NoRequest \in RequestType
    BY DEF NoRequest, RequestType, Codes, ConstantsFit
<1>2. NewTask \in TaskType
    BY DEF NewTask, TaskType, Statuses
<1>3. NoAnswer \in AnswerType
    BY DEF NoAnswer, Answer, AnswerType, Codes, Statuses
<1> QED
    BY <1>1, <1>2, <1>3 DEF ConstantsFit

(* A step at one place of the page's or the server's tables.                *)
LEMMA SubmittedType ==
    ASSUME ConstantsFit, TypeOK, NEW o \in Owners, NEW r \in Runs
    PROVE  /\ [NewTask EXCEPT !.owner = o, !.born = epoch, !.submitting = TRUE] \in TaskType
           /\ [pc |-> "post", run |-> r, owner |-> o, outer |-> epoch, inner |-> 0,
               fails |-> 0, token |-> token, answer |-> NoAnswer] \in ThreadType
<1>1. epoch \in Nat /\ token \in 0..MaxToken /\ 0 \in 0..MaxFail
    BY DEF TypeOK, ConstantsFit
<1>2. [NewTask EXCEPT !.owner = o, !.born = epoch, !.submitting = TRUE] \in TaskType
    BY <1>1 DEF NewTask, TaskType, Statuses
<1> QED
    BY <1>1, <1>2, Initials DEF ThreadType

(* Where a coroutine works.                                                 *)
LEMMA Worker ==
    ASSUME ConstantsFit, TypeOK, LoopsKnowTheirTask, NEW c \in Threads, Active(c)
    PROVE  /\ co[c].run \in Runs /\ co[c].owner \in Owners
           /\ co[c].outer \in Nat /\ co[c].inner \in Nat /\ co[c].fails \in 0..MaxFail
           /\ co[c].answer.code \in Codes /\ co[c].answer.status \in Statuses
           /\ co[c].answer.cancelled \in BOOLEAN
BY Elements DEF LoopsKnowTheirTask, ThreadType, AnswerType

LEMMA ResumesTypes ==
    ASSUME ConstantsFit, TypeOK, NEW c, NEW code, NEW over, Resumes(c, code, over),
           Expired(code) => epoch < MaxEpoch
    PROVE  /\ token' \in 0..MaxToken /\ epoch' \in 0..MaxEpoch
           /\ executing' \in [Owners -> BOOLEAN] /\ task' \in [Owners -> Runs \cup {NoRun}]
<1>1. CASE Expired(code)
    <2>1. /\ token' = 0 /\ epoch' = epoch + 1 /\ epoch < MaxEpoch
          /\ executing' = [o \in Owners |-> FALSE] /\ task' = [o \in Owners |-> NoRun]
        BY <1>1 DEF Resumes, ClearSession, ResetState
    <2>2. epoch \in 0..MaxEpoch /\ MaxEpoch \in Nat /\ MaxToken \in Nat
        BY DEF TypeOK, ConstantsFit
    <2> QED
        BY <2>1, <2>2
<1>2. CASE ~Expired(code)
    BY <1>2 DEF TypeOK, Resumes
<1> QED
    BY <1>1, <1>2

LEMMA AnswersType ==
    ASSUME TypeOK, NEW c \in Threads, NEW code \in Codes, NEW st \in Statuses, NEW b \in BOOLEAN,
           Answers(c, Answer(code, st, b))
    PROVE  co' \in [Threads -> ThreadType]
<1>1. Answer(code, st, b) \in AnswerType
    BY DEF Answer, AnswerType
<1>2. [co[c] EXCEPT !.answer = Answer(code, st, b)] \in ThreadType
    BY <1>1, Elements DEF ThreadType
<1> HIDE DEF Answer
<1>3. co' = [co EXCEPT ![c] = [co[c] EXCEPT !.answer = Answer(code, st, b)]]
    BY DEF Answers, TypeOK
<1> QED
    BY <1>2, <1>3 DEF TypeOK

LEMMA TaskStepType ==
    ASSUME NEW t \in TaskType, NEW b \in BOOLEAN, NEW a \in AnswerType
    PROVE  /\ [t EXCEPT !.submitting = FALSE, !.id = b, !.error = ~b] \in TaskType
           /\ [t EXCEPT !.submitting = FALSE, !.error = TRUE] \in TaskType
           /\ [t EXCEPT !.lost = TRUE] \in TaskType
           /\ ApplyTaskStatus(t, a) \in TaskType
<1>1. a.status \in Statuses /\ a.cancelled \in BOOLEAN
    BY DEF AnswerType
<1>2. [t EXCEPT !.submitting = FALSE, !.id = b, !.error = ~b] \in TaskType
    BY DEF TaskType
<1>3. [t EXCEPT !.submitting = FALSE, !.error = TRUE] \in TaskType
    BY DEF TaskType
<1>4. [t EXCEPT !.lost = TRUE] \in TaskType
    BY DEF TaskType
<1>5. [t EXCEPT !.status = a.status, !.cancelled = a.cancelled,
                !.done = t.done \/ a.status \in Finished] \in TaskType
    BY <1>1 DEF TaskType
<1> QED
    BY <1>2, <1>3, <1>4, <1>5 DEF ApplyTaskStatus

LEMMA TypesStep == ASSUME ConstantsFit, TypeOK, LoopsKnowTheirTask, [Next]_vars PROVE TypeOK'
<1>0. /\ NoThread \in ThreadType /\ NewTask \in TaskType /\ NoRequest \in RequestType
      /\ MaxToken \in Nat \ {0} /\ MaxEpoch \in Nat /\ MaxFail \in Nat \ {0}
    BY NoThreadType, Initials
<1>1. CASE doLogin
    BY <1>0, <1>1 DEF doLogin, ownerVars, TypeOK
<1>2. CASE doLogout
    BY <1>0, <1>2 DEF doLogout, ClearSession, ResetState, TypeOK
<1>3. CASE Reload
    BY <1>0, <1>3 DEF Reload, ResetState, TypeOK
<1>4. ASSUME NEW o \in Owners, NEW r \in Runs, NEW c \in Threads, RunGatewayTask(o, r, c)
      PROVE  TypeOK'
    BY <1>4, SubmittedType DEF RunGatewayTask, sessionVars, TypeOK
<1>5. ASSUME NEW o \in Owners, NEW c \in Threads, resumeTask(o, c)
      PROVE  TypeOK'
    <2>1. task[o] \in Runs
        BY <1>5 DEF resumeTask, TypeOK
    <2>2. [ts[task[o]] EXCEPT !.stalled = FALSE] \in TaskType
        BY Elements, <2>1, FlaggedTask
    <2>3. Ask(c, task[o], o, epoch, epoch, 0) \in ThreadType
        BY <1>0, <2>1, AskType DEF TypeOK
    <2>4. /\ executing' = [executing EXCEPT ![o] = TRUE]
          /\ ts' = [ts EXCEPT ![task[o]] = [ts[task[o]] EXCEPT !.stalled = FALSE]]
          /\ co' = [co EXCEPT ![c] = Ask(c, task[o], o, epoch, epoch, 0)]
          /\ UNCHANGED <<sessionVars, task, cancelReq, server>>
        BY <1>5, <2>1 DEF resumeTask, TypeOK
    <2> QED
        BY <2>1, <2>2, <2>3, <2>4 DEF sessionVars, TypeOK
<1>6. ASSUME NEW o \in Owners, DropTask(o)
      PROVE  TypeOK'
    BY <1>6 DEF DropTask, sessionVars, TypeOK
<1>7. ASSUME NEW o \in Owners, cancelTask(o)
      PROVE  TypeOK'
    <2>1. task[o] \in Runs
        BY <1>7 DEF cancelTask, TypeOK
    <2>2. [ts[task[o]] EXCEPT !.cancelling = TRUE] \in TaskType
        BY Elements, <2>1, FlaggedTask
    <2>3. [sent |-> TRUE, token |-> token, code |-> ""] \in RequestType
        <3>1. token \in 0..MaxToken /\ "" \in Codes
            BY DEF Codes, TypeOK
        <3> QED
            BY <3>1 DEF RequestType
    <2>4. /\ ts' = [ts EXCEPT ![task[o]] = [ts[task[o]] EXCEPT !.cancelling = TRUE]]
          /\ cancelReq' = [cancelReq EXCEPT ![task[o]] = [sent |-> TRUE, token |-> token, code |-> ""]]
          /\ UNCHANGED <<sessionVars, ownerVars, co, server>>
        BY <1>7, <2>1 DEF cancelTask, TypeOK
    <2> QED
        BY <2>2, <2>3, <2>4 DEF sessionVars, ownerVars, TypeOK
<1>8. ASSUME NEW c \in Threads, Posted(c)
      PROVE  TypeOK'
    <2> DEFINE r == co[c].run
               b == co[c].answer.code = "ok"
               t == [ts[r] EXCEPT !.submitting = FALSE, !.id = b, !.error = ~b]
    <2>1. Active(c)
        BY <1>8 DEF Posted, Active
    <2>2. r \in Runs /\ t \in TaskType
        BY <2>1, Worker, Elements, TaskStepType
    <2>3. ts' = [ts EXCEPT ![r] = t]
        BY <1>8, <2>2 DEF Posted, TypeOK
    <2>4. Ask(c, r, co[c].owner, co[c].outer, epoch, 0) \in ThreadType
        BY <2>1, Worker, AskType DEF TypeOK, ConstantsFit
    <2>5. co' \in [Threads -> ThreadType]
        BY <1>0, <1>8, <2>4 DEF Posted, TypeOK
    <2>6. ts' \in [Runs -> TaskType]
        BY <2>2, <2>3 DEF TypeOK
    <2>7. UNCHANGED <<logins, valid, cancelReq, server>>
        BY <1>8 DEF Posted
    <2> QED
        BY <1>8, <2>5, <2>6, <2>7, ResumesTypes DEF Posted, TypeOK
<1>9. ASSUME NEW c \in Threads, PostFails(c)
      PROVE  TypeOK'
    <2> DEFINE r == co[c].run
               t == [ts[r] EXCEPT !.submitting = FALSE, !.error = TRUE]
    <2>1. Active(c)
        BY <1>9 DEF PostFails, Active
    <2>2. r \in Runs /\ t \in TaskType
        BY <2>1, Worker, Elements, TaskStepType
    <2>3. ts' = [ts EXCEPT ![r] = t]
        BY <1>9, <2>2 DEF PostFails, TypeOK
    <2>4. co' \in [Threads -> ThreadType]
        BY <1>0, <1>9 DEF PostFails, TypeOK
    <2>5. ts' \in [Runs -> TaskType]
        BY <2>2, <2>3 DEF TypeOK
    <2>6. UNCHANGED <<logins, valid, cancelReq, server>>
        BY <1>9 DEF PostFails
    <2>7. Resumes(c, "", TRUE) /\ ~Expired("")
        BY <1>9 DEF PostFails, Expired
    <2> QED
        BY <2>4, <2>5, <2>6, <2>7, ResumesTypes DEF TypeOK
<1>10. ASSUME NEW c \in Threads, Polled(c)
       PROVE  TypeOK'
    <2> DEFINE r == co[c].run
               a == co[c].answer
               over == co[c].inner # epoch \/ a.code = "404" \/ a.status \in Finished
    <2>1. Active(c)
        BY <1>10 DEF Polled, Active
    <2>2. r \in Runs
        BY <2>1, Worker
    <2>3. [ts[r] EXCEPT !.lost = TRUE] \in TaskType
        BY <2>2, Elements, TaskStepType
    <2>4. ApplyTaskStatus(ts[r], a) \in TaskType
        BY <2>2, Elements, TaskStepType
    <2>5. ts' \in [Runs -> TaskType]
        BY <1>10, <2>3, <2>4 DEF Polled, TypeOK
    <2>6. Sleep(c, 0) \in ThreadType
        BY SleepType DEF ConstantsFit
    <2>7. co' \in [Threads -> ThreadType]
        BY <1>0, <1>10, <2>6 DEF Polled, TypeOK
    <2>8. UNCHANGED <<logins, valid, cancelReq, server>>
        BY <1>10 DEF Polled
    <2>9. Resumes(c, a.code, over) /\ ~Expired(a.code)
        BY <1>10 DEF Polled, Expired
    <2> QED
        BY <2>5, <2>7, <2>8, <2>9, ResumesTypes DEF TypeOK
<1>11. ASSUME NEW c \in Threads, PollFails(c)
       PROVE  TypeOK'
    <2> DEFINE r == co[c].run
    <2>1. Active(c)
        BY <1>11 DEF PollFails, Active
    <2>2. r \in Runs /\ co[c].fails \in 0..MaxFail
        BY <2>1, Worker
    <2>3. PICK code : LET current == co[c].inner = EpochAfter(code)
                          stall == current /\ CountFail(c) >= MaxFail
                          over == ~current \/ stall
                      IN  /\ Expired(code) => epoch < MaxEpoch
                          /\ Resumes(c, code, over)
                          /\ ts' = IF stall THEN [ts EXCEPT ![r].stalled = TRUE] ELSE ts
                          /\ co' = [co EXCEPT ![c] = IF over THEN NoThread ELSE Sleep(c, CountFail(c))]
        BY <1>11 DEF PollFails
    <2>4. [ts[r] EXCEPT !.stalled = TRUE] \in TaskType
        BY <2>2, Elements, FlaggedTask
    <2>5. ts' \in [Runs -> TaskType]
        BY <2>2, <2>3, <2>4 DEF TypeOK
    <2>6. CountFail(c) < MaxFail => Sleep(c, CountFail(c)) \in ThreadType
        BY <1>0, <2>2, SleepType DEF CountFail
    <2>9. CountFail(c) < MaxFail \/ CountFail(c) >= MaxFail
        BY <1>0, <2>2 DEF CountFail
    <2>7. co' \in [Threads -> ThreadType]
        BY <1>0, <2>3, <2>6, <2>9 DEF TypeOK
    <2>8. UNCHANGED <<logins, valid, cancelReq, server>>
        BY <1>11 DEF PollFails
    <2> QED
        BY <2>3, <2>5, <2>7, <2>8, ResumesTypes DEF TypeOK
<1>12. ASSUME NEW c \in Threads, Wakes(c)
       PROVE  TypeOK'
    <2>1. Active(c)
        BY <1>12 DEF Wakes, Active
    <2>2. Ask(c, co[c].run, co[c].owner, co[c].outer, co[c].inner, co[c].fails) \in ThreadType
        BY <2>1, Worker, AskType
    <2>3. co' \in [Threads -> ThreadType]
        BY <1>0, <1>12, <2>2 DEF Wakes, TypeOK
    <2>4. UNCHANGED <<logins, valid, ts, cancelReq, server>>
        BY <1>12 DEF Wakes
    <2>5. PICK over : Resumes(c, "", over) /\ ~Expired("")
        BY <1>12 DEF Wakes, Expired
    <2> QED
        BY <2>3, <2>4, <2>5, ResumesTypes DEF TypeOK
<1>13. ASSUME NEW r \in Runs, CancelAnswered(r)
       PROVE  TypeOK'
    <2>1. PICK code :
              /\ Expired(code) => epoch < MaxEpoch
              /\ IF Expired(code) THEN ClearSession ELSE UNCHANGED <<token, epoch, ownerVars>>
              /\ ts' = IF code = "ok" THEN ts ELSE [ts EXCEPT ![r].cancelling = FALSE]
        BY <1>13 DEF CancelAnswered
    <2>2. [ts[r] EXCEPT !.cancelling = FALSE] \in TaskType
        BY Elements DEF TaskType
    <2>3. ts' \in [Runs -> TaskType]
        BY <2>1, <2>2 DEF TypeOK
    <2>4. cancelReq' \in [Runs -> RequestType]
        BY <1>0, <1>13 DEF CancelAnswered, TypeOK
    <2>5. UNCHANGED <<logins, valid, co, server>>
        BY <1>13 DEF CancelAnswered
    <2>6. /\ token' \in 0..MaxToken /\ epoch' \in 0..MaxEpoch
          /\ executing' \in [Owners -> BOOLEAN] /\ task' \in [Owners -> Runs \cup {NoRun}]
        <3>1. CASE ~Expired(code)
            BY <2>1, <3>1 DEF ownerVars, TypeOK
        <3>2. CASE Expired(code)
            <4>1. /\ token' = 0 /\ epoch' = epoch + 1 /\ epoch < MaxEpoch
                  /\ executing' = [o \in Owners |-> FALSE] /\ task' = [o \in Owners |-> NoRun]
                BY <2>1, <3>2 DEF ClearSession, ResetState
            <4> QED
                BY <1>0, <4>1 DEF TypeOK
        <3> QED
            BY <3>1, <3>2
    <2> QED
        BY <2>3, <2>4, <2>5, <2>6 DEF TypeOK
<1>14. ASSUME NEW c \in Threads, ServePost(c)
       PROVE  TypeOK'
    <2>1. Active(c)
        BY <1>14 DEF ServePost, Active
    <2>2. co[c].run \in Runs
        BY <2>1, Worker
    <2>3. \E code \in Codes, st \in Statuses : Answers(c, Answer(code, st, FALSE))
        BY <1>14 DEF ServePost, Codes, Statuses
    <2>4. co' \in [Threads -> ThreadType]
        BY <2>3, AnswersType
    <2>5. [server[co[c].run] EXCEPT !.state = "queued"] \in ServerType
        BY <2>2, Elements DEF ServerType
    <2>6. server' \in [Runs -> ServerType]
        BY <1>14, <2>2, <2>5 DEF ServePost, TypeOK
    <2>7. UNCHANGED <<sessionVars, ownerVars, ts, cancelReq>>
        BY <1>14 DEF ServePost
    <2> QED
        BY <2>4, <2>6, <2>7 DEF sessionVars, ownerVars, TypeOK
<1>15. ASSUME NEW c \in Threads, ServePoll(c)
       PROVE  TypeOK'
    <2>1. Active(c)
        BY <1>15 DEF ServePoll, Active
    <2>2. server[co[c].run] \in ServerType
        BY <2>1, Worker, Elements
    <2>3. \/ Answers(c, Answer("401", "", FALSE))
          \/ Answers(c, Answer("404", "", FALSE))
          \/ /\ Known(co[c].run)
             /\ Answers(c, Answer("ok", server[co[c].run].state, server[co[c].run].cancelled))
        BY <1>15 DEF ServePoll
    <2>4. Known(co[c].run) => server[co[c].run].state \in Statuses /\ server[co[c].run].cancelled \in BOOLEAN
        BY <2>2 DEF Known, ServerType, Statuses, Finished
    <2>5. co' \in [Threads -> ThreadType]
        BY <2>3, <2>4, AnswersType DEF Codes, Statuses
    <2>6. UNCHANGED <<sessionVars, ownerVars, ts, cancelReq, server>>
        BY <1>15 DEF ServePoll
    <2> QED
        BY <2>5, <2>6 DEF sessionVars, ownerVars, TypeOK
<1>16. ASSUME NEW r \in Runs, ServeCancel(r)
       PROVE  TypeOK'
    <2>1. PICK code \in Codes :
              /\ cancelReq' = [cancelReq EXCEPT ![r].code = code]
              /\ server' = server \/ server' = [server EXCEPT ![r].cancelled = TRUE]
        BY <1>16 DEF ServeCancel, Codes
    <2>2. [cancelReq[r] EXCEPT !.code = code] \in RequestType
        BY <2>1, Elements DEF RequestType
    <2>3. [server[r] EXCEPT !.cancelled = TRUE] \in ServerType
        BY Elements DEF ServerType
    <2>4. UNCHANGED <<sessionVars, ownerVars, ts, co>>
        BY <1>16 DEF ServeCancel
    <2> QED
        BY <2>1, <2>2, <2>3, <2>4 DEF sessionVars, ownerVars, TypeOK
<1>17. ASSUME NEW r \in Runs, Progress(r)
       PROVE  TypeOK'
    <2>1. PICK s \in {"running", "done", "cancelled"} : server' = [server EXCEPT ![r].state = s]
        BY <1>17 DEF Progress, Finished
    <2>2. [server[r] EXCEPT !.state = s] \in ServerType
        BY <2>1, Elements DEF ServerType, Finished
    <2>3. UNCHANGED <<sessionVars, ownerVars, ts, co, cancelReq>>
        BY <1>17 DEF Progress
    <2> QED
        BY <2>1, <2>2, <2>3 DEF sessionVars, ownerVars, TypeOK
<1>18. CASE ServerRestart
    <2>1. [state |-> "gone", cancelled |-> FALSE] \in ServerType
        BY DEF ServerType
    <2>2. server' \in [Runs -> ServerType]
        BY <1>18, <2>1, Elements DEF ServerRestart
    <2>3. valid' \subseteq 1..MaxToken /\ UNCHANGED <<token, logins, epoch, ownerVars, ts, co, cancelReq>>
        BY <1>18 DEF ServerRestart, TypeOK
    <2> QED
        BY <2>2, <2>3 DEF ownerVars, TypeOK
<1>19. CASE TokenExpires
    BY <1>19 DEF TokenExpires, ownerVars, TypeOK
<1>20. CASE UNCHANGED vars
    BY <1>20 DEF vars, sessionVars, ownerVars, TypeOK
<1> QED
    BY <1>1, <1>2, <1>3, <1>4, <1>5, <1>6, <1>7, <1>8, <1>9, <1>10, <1>11, <1>12, <1>13, <1>14, <1>15,
       <1>16, <1>17, <1>18, <1>19, <1>20 DEF Next, Browser, Serve

-----------------------------------------------------------------------------
(* What a step does to the session: it ends it, moves one coroutine, begins *)
(* or resumes a run, drops a task, or leaves all of that alone.             *)

(* The coroutine goes on with what it had, or is over.                      *)
Kept(d) ==
    \/ co'[d].pc = "idle"
    \/ /\ Active(d)
       /\ co'[d].run = co[d].run /\ co'[d].owner = co[d].owner /\ co'[d].outer = co[d].outer
       /\ co'[d].inner \in {co[d].inner, epoch}
       /\ co'[d].pc = "post" => co[d].pc = "post"

SameTask(r) == ts'[r].owner = ts[r].owner /\ ts'[r].born = ts[r].born

SessionEnds ==
    /\ epoch' = epoch + 1
    /\ executing' = [o \in Owners |-> FALSE]
    /\ task' = [o \in Owners |-> NoRun]
    /\ \A d \in Threads : Kept(d)
    /\ \A r \in Runs : SameTask(r) /\ ts'[r].stalled = ts[r].stalled

LoopMoves(c) ==
    /\ UNCHANGED <<token, epoch, task>>
    /\ Active(c) /\ Kept(c)
    /\ \A d \in Threads \ {c} : co'[d] = co[d]
    /\ co'[c].pc \notin {"idle", "post"} =>
           co'[c].inner = epoch \/ (co[c].pc # "post" /\ co'[c].inner = co[c].inner)
    /\ executing' = IF co'[c].pc = "idle" /\ co[c].outer = epoch
                    THEN [executing EXCEPT ![co[c].owner] = FALSE]
                    ELSE executing
    /\ \A r \in Runs : /\ SameTask(r)
                       /\ ts'[r].stalled => ts[r].stalled \/ (r = co[c].run /\ co'[c].pc = "idle")

StandsStill ==
    /\ UNCHANGED <<epoch, ownerVars, co>>
    /\ token' = token \/ token' # 0
    /\ \A r \in Runs : SameTask(r) /\ ts'[r].stalled = ts[r].stalled

(* A step that submits run r for o.                                         *)
Submits(o, r, c) ==
    /\ co'[c].pc = "post" /\ co'[c].run = r /\ co'[c].owner = o
    /\ co'[c].outer = epoch /\ co'[c].inner = 0 /\ co'[c].answer = NoAnswer
    /\ co[c].pc = "idle" /\ \A d \in Threads \ {c} : co'[d] = co[d]
    /\ ts[r].owner = NoRun
    /\ ts'[r].owner = o /\ ts'[r].born = epoch
    /\ ~ts'[r].stalled /\ ~ts'[r].error /\ ~ts'[r].lost /\ ~ts'[r].cancelling
    /\ ts'[r].status = "" /\ ~ts'[r].cancelled
    /\ \A s \in Runs \ {r} : ts'[s] = ts[s]
    /\ task'[o] = r /\ \A p \in Owners \ {o} : task'[p] = task[p]
    /\ executing'[o] = TRUE /\ \A p \in Owners \ {o} : executing'[p] = executing[p]
    /\ token # 0 /\ ~executing[o]
    /\ UNCHANGED <<token, epoch, cancelReq, server>>

(* A step that follows o's task again.                                      *)
FollowsAgain(o, c) ==
    /\ task[o] \in Runs /\ ts[task[o]].stalled /\ token # 0 /\ co[c].pc = "idle"
    /\ co'[c] = Ask(c, task[o], o, epoch, epoch, 0)
    /\ \A d \in Threads \ {c} : co'[d] = co[d]
    /\ ~ts'[task[o]].stalled
    /\ \A s \in Runs \ {task[o]} : ts'[s] = ts[s]
    /\ \A s \in Runs : /\ SameTask(s)
                       /\ ts'[s].error = ts[s].error /\ ts'[s].lost = ts[s].lost
                       /\ ts'[s].cancelling = ts[s].cancelling
                       /\ ts'[s].status = ts[s].status /\ ts'[s].cancelled = ts[s].cancelled
    /\ executing'[o] = TRUE /\ \A p \in Owners \ {o} : executing'[p] = executing[p]
    /\ UNCHANGED <<token, epoch, task, cancelReq, server>>

(* An update of a task object elsewhere than in its owner, session and mark *)
(* of being stalled.                                                        *)
LEMMA AlsoSame ==
    ASSUME TypeOK, NEW r,
           NEW t, t.owner = ts[r].owner, t.born = ts[r].born, t.stalled = ts[r].stalled,
           ts' = [ts EXCEPT ![r] = t]
    PROVE  \A s \in Runs : SameTask(s) /\ ts'[s].stalled = ts[s].stalled
BY DEF TypeOK, SameTask

(* Where a coroutine resumes, without or with the end of the session.       *)
LEMMA ResumesEither ==
    ASSUME NEW c, NEW code, NEW over, Resumes(c, code, over)
    PROVE  \/ /\ Expired(code)
              /\ epoch' = epoch + 1
              /\ executing' = [o \in Owners |-> FALSE]
              /\ task' = [o \in Owners |-> NoRun]
           \/ /\ ~Expired(code)
              /\ UNCHANGED <<token, epoch, task>>
              /\ executing' = IF over /\ co[c].outer = epoch
                              THEN [executing EXCEPT ![co[c].owner] = FALSE]
                              ELSE executing
BY DEF Resumes, ClearSession, ResetState

LEMMA MoveKind ==
    ASSUME TypeOK, NEW c \in Threads, Active(c), NEW code, NEW over \in BOOLEAN,
           Resumes(c, code, over),
           NEW x, co' = [co EXCEPT ![c] = x],
           (x.pc = "idle") = over,
           ~over => /\ x.run = co[c].run /\ x.owner = co[c].owner /\ x.outer = co[c].outer
                    /\ x.pc \in {"ask", "sleep"}
                    /\ x.inner = epoch \/ (co[c].pc # "post" /\ x.inner = co[c].inner),
           \A r \in Runs : SameTask(r),
           \A r \in Runs : ts'[r].stalled = ts[r].stalled
                           \/ (~Expired(code) /\ r = co[c].run /\ over)
    PROVE  SessionEnds \/ LoopMoves(c)
<1>1. co'[c] = x /\ \A d \in Threads \ {c} : co'[d] = co[d]
    BY DEF TypeOK
<1>2. \A d \in Threads : Kept(d)
    BY <1>1, Elements DEF Kept, Active, ThreadType
<1>3. CASE Expired(code)
    BY <1>2, <1>3, ResumesEither DEF SessionEnds
<1>4. CASE ~Expired(code)
    BY <1>1, <1>2, <1>4, ResumesEither DEF LoopMoves
<1> QED
    BY <1>3, <1>4

LEMMA IdleAndAsk ==
    ASSUME NEW c, NEW r, NEW o, NEW m, NEW n, NEW f
    PROVE  /\ Ask(c, r, o, m, n, f).pc = "ask" /\ Ask(c, r, o, m, n, f).run = r
           /\ Ask(c, r, o, m, n, f).owner = o /\ Ask(c, r, o, m, n, f).outer = m
           /\ Ask(c, r, o, m, n, f).inner = n /\ Ask(c, r, o, m, n, f).answer = NoAnswer
           /\ NoThread.pc = "idle" /\ NoThread.answer = NoAnswer
BY DEF Ask, NoThread, Idle

LEMMA Sleeps ==
    ASSUME TypeOK, NEW c \in Threads, NEW f
    PROVE  /\ Sleep(c, f).pc = "sleep" /\ Sleep(c, f).run = co[c].run
           /\ Sleep(c, f).owner = co[c].owner /\ Sleep(c, f).outer = co[c].outer
           /\ Sleep(c, f).inner = co[c].inner /\ Sleep(c, f).answer = NoAnswer
BY Elements DEF Sleep, ThreadType

LEMMA PostedKind ==
    ASSUME ConstantsFit, TypeOK, LoopsKnowTheirTask, NEW c \in Threads, Posted(c)
    PROVE  SessionEnds \/ LoopMoves(c)
<1> DEFINE r == co[c].run
           on == co[c].answer.code = "ok" /\ token # 0
           x == IF on THEN Ask(c, r, co[c].owner, co[c].outer, epoch, 0) ELSE NoThread
           t == [ts[r] EXCEPT !.submitting = FALSE, !.id = co[c].answer.code = "ok",
                              !.error = co[c].answer.code # "ok"]
<1>1. Active(c) /\ co[c].pc = "post"
    BY DEF Posted, Active
<1>2. r \in Runs
    BY <1>1, Worker
<1>3. ts' = [ts EXCEPT ![r] = t]
    BY <1>2 DEF Posted, TypeOK
<1>4. t.owner = ts[r].owner /\ t.born = ts[r].born /\ t.stalled = ts[r].stalled
    BY <1>2, Elements DEF TaskType
<1>5. \A s \in Runs : SameTask(s) /\ ts'[s].stalled = ts[s].stalled
    <2> HIDE DEF t
    <2> QED
        BY <1>3, <1>4, AlsoSame
<1>6. Resumes(c, co[c].answer.code, ~on) /\ co' = [co EXCEPT ![c] = x]
    BY DEF Posted
<1>7. (x.pc = "idle") = ~on
    BY IdleAndAsk
<1>8. on => /\ x.run = co[c].run /\ x.owner = co[c].owner /\ x.outer = co[c].outer
            /\ x.pc \in {"ask", "sleep"} /\ x.inner = epoch
    BY IdleAndAsk
<1> HIDE DEF on, x
<1>9. (~on) \in BOOLEAN
    BY DEF on
<1> QED
    BY <1>1, <1>5, <1>6, <1>7, <1>8, <1>9, MoveKind

LEMMA PostFailsKind ==
    ASSUME ConstantsFit, TypeOK, LoopsKnowTheirTask, NEW c \in Threads, PostFails(c)
    PROVE  LoopMoves(c)
<1> DEFINE r == co[c].run
           t == [ts[r] EXCEPT !.submitting = FALSE, !.error = TRUE]
<1>1. Active(c) /\ co[c].pc = "post"
    BY DEF PostFails, Active
<1>2. r \in Runs
    BY <1>1, Worker
<1>3. ts' = [ts EXCEPT ![r] = t]
    BY <1>2 DEF PostFails, TypeOK
<1>4. t.owner = ts[r].owner /\ t.born = ts[r].born /\ t.stalled = ts[r].stalled
    BY <1>2, Elements DEF TaskType
<1>5. \A s \in Runs : SameTask(s) /\ ts'[s].stalled = ts[s].stalled
    <2> HIDE DEF t
    <2> QED
        BY <1>3, <1>4, AlsoSame
<1>6. Resumes(c, "", TRUE) /\ co' = [co EXCEPT ![c] = NoThread] /\ ~Expired("")
    BY DEF PostFails, Expired
<1>7. co'[c] = NoThread /\ \A d \in Threads \ {c} : co'[d] = co[d]
    BY <1>6 DEF TypeOK
<1> QED
    BY <1>1, <1>5, <1>6, <1>7, ResumesEither, IdleAndAsk DEF LoopMoves, Kept

LEMMA PolledKind ==
    ASSUME ConstantsFit, TypeOK, LoopsKnowTheirTask, NEW c \in Threads, Polled(c)
    PROVE  LoopMoves(c)
<1> DEFINE r == co[c].run
           a == co[c].answer
           current == co[c].inner = epoch
           over == ~current \/ a.code = "404" \/ a.status \in Finished
           t == IF a.code = "404" THEN [ts[r] EXCEPT !.lost = TRUE] ELSE ApplyTaskStatus(ts[r], a)
           x == IF over THEN NoThread ELSE Sleep(c, 0)
<1>1. Active(c) /\ co[c].pc = "ask"
    BY DEF Polled, Active
<1>2. r \in Runs
    BY <1>1, Worker
<1>3. ts' = ts \/ ts' = [ts EXCEPT ![r] = t]
    BY <1>2 DEF Polled, TypeOK
<1>4. t.owner = ts[r].owner /\ t.born = ts[r].born /\ t.stalled = ts[r].stalled
    BY <1>2, Elements DEF TaskType, ApplyTaskStatus
<1>5. \A s \in Runs : SameTask(s) /\ ts'[s].stalled = ts[s].stalled
    <2> HIDE DEF t
    <2>1. CASE ts' = ts
        BY <2>1 DEF SameTask
    <2> QED
        BY <1>3, <1>4, <2>1, AlsoSame
<1>6. Resumes(c, a.code, over) /\ co' = [co EXCEPT ![c] = x] /\ ~Expired(a.code)
    BY DEF Polled, Expired
<1>7. x.pc = IF over THEN "idle" ELSE "sleep"
    BY Sleeps, IdleAndAsk
<1>8. ~over => /\ x.run = co[c].run /\ x.owner = co[c].owner /\ x.outer = co[c].outer
               /\ x.inner = co[c].inner
    BY Sleeps
<1> HIDE DEF over, x
<1>9. co'[c] = x /\ \A d \in Threads \ {c} : co'[d] = co[d]
    BY <1>6 DEF TypeOK
<1> QED
    BY <1>1, <1>5, <1>6, <1>7, <1>8, <1>9, ResumesEither DEF LoopMoves, Kept

LEMMA PollFailsKind ==
    ASSUME ConstantsFit, TypeOK, LoopsKnowTheirTask, NEW c \in Threads, PollFails(c)
    PROVE  SessionEnds \/ LoopMoves(c)
<1>1. Active(c) /\ co[c].pc = "ask"
    BY DEF PollFails, Active
<1>2. co[c].run \in Runs /\ co[c].inner <= epoch /\ epoch \in Nat /\ co[c].inner \in Nat
    BY <1>1, Worker DEF LoopsKnowTheirTask, TypeOK
<1>3. PICK code : LET current == co[c].inner = EpochAfter(code)
                      stall == current /\ CountFail(c) >= MaxFail
                      over == ~current \/ stall
                  IN  /\ Resumes(c, code, over)
                      /\ ts' = IF stall THEN [ts EXCEPT ![co[c].run].stalled = TRUE] ELSE ts
                      /\ co' = [co EXCEPT ![c] = IF over THEN NoThread ELSE Sleep(c, CountFail(c))]
    BY DEF PollFails
<1> DEFINE current == co[c].inner = EpochAfter(code)
           stall == current /\ CountFail(c) >= MaxFail
           over == ~current \/ stall
           x == IF over THEN NoThread ELSE Sleep(c, CountFail(c))
<1>4. Expired(code) => ~current
    BY <1>2 DEF EpochAfter
<1>5. \A s \in Runs : SameTask(s)
    BY <1>2, <1>3, Elements DEF SameTask, TaskType, TypeOK
<1>6. \A s \in Runs : ts'[s].stalled = ts[s].stalled
                      \/ (~Expired(code) /\ s = co[c].run /\ over)
    BY <1>2, <1>3, <1>4 DEF TypeOK
<1>7. Resumes(c, code, over) /\ co' = [co EXCEPT ![c] = x]
    BY <1>3
<1>8. (x.pc = "idle") = over
    BY Sleeps, IdleAndAsk
<1>9. ~over => /\ x.run = co[c].run /\ x.owner = co[c].owner /\ x.outer = co[c].outer
               /\ x.pc \in {"ask", "sleep"} /\ x.inner = co[c].inner
    BY Sleeps
<1>10. over \in BOOLEAN
    OBVIOUS
<1> HIDE DEF over, x
<1> QED
    BY <1>1, <1>5, <1>6, <1>7, <1>8, <1>9, <1>10, MoveKind

LEMMA WakesKind ==
    ASSUME ConstantsFit, TypeOK, LoopsKnowTheirTask, NEW c \in Threads, Wakes(c)
    PROVE  LoopMoves(c)
<1> DEFINE on == co[c].inner = epoch /\ token # 0
           x == IF on THEN Ask(c, co[c].run, co[c].owner, co[c].outer, co[c].inner, co[c].fails)
                ELSE NoThread
<1>1. Active(c) /\ co[c].pc = "sleep"
    BY DEF Wakes, Active
<1>2. Resumes(c, "", ~on) /\ co' = [co EXCEPT ![c] = x] /\ ~Expired("") /\ ts' = ts
    BY DEF Wakes, Expired
<1>3. x.pc = IF on THEN "ask" ELSE "idle"
    BY IdleAndAsk
<1>4. on => /\ x.run = co[c].run /\ x.owner = co[c].owner /\ x.outer = co[c].outer
            /\ x.inner = co[c].inner
    BY IdleAndAsk
<1> HIDE DEF on, x
<1>5. co'[c] = x /\ \A d \in Threads \ {c} : co'[d] = co[d]
    BY <1>2 DEF TypeOK
<1> QED
    BY <1>1, <1>2, <1>3, <1>4, <1>5, ResumesEither DEF LoopMoves, Kept, SameTask

LEMMA AnswersKeep ==
    ASSUME TypeOK, NEW c \in Threads, NEW a, Answers(c, a)
    PROVE  /\ \A d \in Threads \ {c} : co'[d] = co[d]
           /\ co'[c].pc = co[c].pc /\ co'[c].run = co[c].run /\ co'[c].owner = co[c].owner
           /\ co'[c].outer = co[c].outer /\ co'[c].inner = co[c].inner /\ co'[c].answer = a
<1>1. co' = [co EXCEPT ![c] = [co[c] EXCEPT !.answer = a]]
    BY DEF Answers, TypeOK
<1>2. co'[c] = [co[c] EXCEPT !.answer = a] /\ \A d \in Threads \ {c} : co'[d] = co[d]
    BY <1>1 DEF TypeOK
<1> QED
    BY <1>2, Elements DEF ThreadType

LEMMA ServesKind ==
    ASSUME ConstantsFit, TypeOK, LoopsKnowTheirTask, NEW c \in Threads, Serve(c)
    PROVE  LoopMoves(c)
<1>1. PICK a : Answers(c, a)
    BY DEF Serve, ServePost, ServePoll
<1>2. Active(c) /\ UNCHANGED <<sessionVars, ownerVars, ts>>
    BY DEF Serve, ServePost, ServePoll, Active
<1>3. Kept(c)
    BY <1>1, <1>2, AnswersKeep DEF Kept
<1>4. \A d \in Threads \ {c} : co'[d] = co[d]
    BY <1>1, AnswersKeep
<1>5. co'[c].pc = co[c].pc /\ co'[c].pc # "idle" /\ co'[c].inner = co[c].inner
    BY <1>1, <1>2, AnswersKeep DEF Active
<1> QED
    BY <1>2, <1>3, <1>4, <1>5 DEF LoopMoves, sessionVars, ownerVars, SameTask

LEMMA CancelKind ==
    ASSUME ConstantsFit, TypeOK, NEW r \in Runs, CancelAnswered(r)
    PROVE  SessionEnds \/ StandsStill
<1>1. PICK code :
          /\ IF Expired(code) THEN ClearSession ELSE UNCHANGED <<token, epoch, ownerVars>>
          /\ ts' = IF code = "ok" THEN ts ELSE [ts EXCEPT ![r].cancelling = FALSE]
    BY DEF CancelAnswered
<1>2. \A s \in Runs : SameTask(s) /\ ts'[s].stalled = ts[s].stalled
    BY <1>1, Elements DEF SameTask, TaskType, TypeOK
<1>3. co' = co
    BY DEF CancelAnswered
<1>4. \A d \in Threads : Kept(d)
    BY <1>3, Elements DEF Kept, Active, ThreadType
<1> QED
    BY <1>1, <1>2, <1>3, <1>4 DEF SessionEnds, StandsStill, ClearSession, ResetState

LEMMA StepOfRun ==
    ASSUME TypeOK, NEW o \in Owners, NEW r \in Runs, NEW c \in Threads, RunGatewayTask(o, r, c)
    PROVE  Submits(o, r, c)
<1> DEFINE x == [pc |-> "post", run |-> r, owner |-> o, outer |-> epoch, inner |-> 0,
                 fails |-> 0, token |-> token, answer |-> NoAnswer]
           t == [NewTask EXCEPT !.owner = o, !.born = epoch, !.submitting = TRUE]
<1>1. /\ x.pc = "post" /\ x.run = r /\ x.owner = o
      /\ x.outer = epoch /\ x.inner = 0 /\ x.answer = NoAnswer
    OBVIOUS
<1>2. /\ t.owner = o /\ t.born = epoch
      /\ ~t.stalled /\ ~t.error /\ ~t.lost /\ ~t.cancelling /\ t.status = "" /\ ~t.cancelled
    BY DEF NewTask
<1>3. /\ co' = [co EXCEPT ![c] = x] /\ ts' = [ts EXCEPT ![r] = t]
      /\ task' = [task EXCEPT ![o] = r] /\ executing' = [executing EXCEPT ![o] = TRUE]
      /\ co[c].pc = "idle" /\ ts[r].owner = NoRun /\ token # 0 /\ ~executing[o]
      /\ UNCHANGED <<token, epoch, cancelReq, server>>
    BY DEF RunGatewayTask, sessionVars
<1> HIDE DEF x, t
<1> QED
    BY <1>1, <1>2, <1>3 DEF TypeOK, Submits

LEMMA StepOfResume ==
    ASSUME TypeOK, NEW o \in Owners, NEW c \in Threads, resumeTask(o, c)
    PROVE  FollowsAgain(o, c)
<1>1. task[o] \in Runs
    BY DEF resumeTask, TypeOK
<1>2. ts' = [ts EXCEPT ![task[o]].stalled = FALSE]
    BY DEF resumeTask
<1>3. \A s \in Runs : /\ SameTask(s)
                      /\ ts'[s].error = ts[s].error /\ ts'[s].lost = ts[s].lost
                      /\ ts'[s].cancelling = ts[s].cancelling
                      /\ ts'[s].status = ts[s].status /\ ts'[s].cancelled = ts[s].cancelled
    BY <1>1, <1>2, Elements DEF SameTask, TaskType, TypeOK
<1>4. ~ts'[task[o]].stalled /\ \A s \in Runs \ {task[o]} : ts'[s] = ts[s]
    BY <1>1, <1>2, Elements DEF TaskType, TypeOK
<1>5. /\ co' = [co EXCEPT ![c] = Ask(c, task[o], o, epoch, epoch, 0)]
      /\ executing' = [executing EXCEPT ![o] = TRUE]
      /\ UNCHANGED <<token, epoch, task, cancelReq, server>>
      /\ ts[task[o]].stalled /\ token # 0 /\ co[c].pc = "idle"
    BY DEF resumeTask, sessionVars
<1> QED
    BY <1>1, <1>3, <1>4, <1>5 DEF TypeOK, FollowsAgain

LEMMA StepKinds ==
    ASSUME ConstantsFit, TypeOK, LoopsKnowTheirTask, [Next]_vars
    PROVE  \/ SessionEnds
           \/ \E c \in Threads : LoopMoves(c)
           \/ \E o \in Owners, r \in Runs, c \in Threads : Submits(o, r, c)
           \/ \E o \in Owners, c \in Threads : FollowsAgain(o, c)
           \/ \E o \in Owners : DropTask(o)
           \/ StandsStill
<1>1. CASE doLogin
    BY <1>1 DEF doLogin, StandsStill, SameTask, TypeOK
<1>2. CASE doLogout
    <2>1. \A d \in Threads : Kept(d)
        BY <1>2, Elements DEF doLogout, Kept, Active, ThreadType
    <2> QED
        BY <1>2, <2>1 DEF doLogout, ClearSession, ResetState, SessionEnds, SameTask
<1>3. CASE Reload
    <2>1. \A d \in Threads : Kept(d)
        BY <1>3, IdleAndAsk DEF Reload, Kept
    <2> QED
        BY <1>3, <2>1 DEF Reload, ResetState, SessionEnds, SameTask
<1>4. ASSUME NEW o \in Owners, cancelTask(o)
      PROVE  StandsStill
    <2>1. task[o] \in Runs /\ ts' = [ts EXCEPT ![task[o]].cancelling = TRUE]
        BY <1>4 DEF cancelTask, TypeOK
    <2>2. \A s \in Runs : SameTask(s) /\ ts'[s].stalled = ts[s].stalled
        BY <2>1, Elements DEF SameTask, TaskType, TypeOK
    <2> QED
        BY <1>4, <2>2 DEF cancelTask, StandsStill, sessionVars
<1>5. ASSUME NEW c \in Threads, Browser(c) \/ Serve(c)
      PROVE  SessionEnds \/ LoopMoves(c)
    BY <1>5, PostedKind, PostFailsKind, PolledKind, PollFailsKind, WakesKind, ServesKind DEF Browser
<1>6. ASSUME NEW r \in Runs, ServeCancel(r) \/ Progress(r)
      PROVE  StandsStill
    BY <1>6 DEF ServeCancel, Progress, StandsStill, sessionVars, SameTask
<1>7. CASE ServerRestart \/ TokenExpires
    BY <1>7 DEF ServerRestart, TokenExpires, StandsStill, SameTask
<1>8. CASE UNCHANGED vars
    BY <1>8 DEF vars, sessionVars, StandsStill, SameTask
<1> QED
    BY <1>1, <1>2, <1>3, <1>4, <1>5, <1>6, <1>7, <1>8, CancelKind, StepOfRun, StepOfResume DEF Next

-----------------------------------------------------------------------------
(* The session's part of the invariant *)

LEMMA Bounds ==
    ASSUME ConstantsFit, TypeOK, LoopsKnowTheirTask, TasksKnowTheirOwner
    PROVE  /\ epoch \in Nat
           /\ \A r \in Runs : ts[r].born \in Nat /\ ts[r].born <= epoch
           /\ \A c \in Threads : /\ co[c].outer \in Nat /\ co[c].inner \in Nat /\ co[c].owner \in Owners
                                 /\ Active(c) => /\ co[c].run \in Runs
                                                 /\ co[c].outer <= epoch /\ co[c].inner <= epoch
<1>1. epoch \in Nat
    BY DEF TypeOK
<1>2. \A r \in Runs : ts[r].born \in Nat
    BY Elements DEF TaskType
<1>3. \A c \in Threads : co[c].outer \in Nat /\ co[c].inner \in Nat /\ co[c].owner \in Owners
    BY Elements DEF ThreadType
<1> QED
    BY <1>1, <1>2, <1>3 DEF LoopsKnowTheirTask, TasksKnowTheirOwner

LEMMA EndKeepsSession ==
    ASSUME ConstantsFit, TypeOK, SessionInv, SessionEnds
    PROVE  SessionInv'
<1>1. \A d \in Threads : Active(d)' =>
          /\ Active(d)
          /\ co'[d].run = co[d].run /\ co'[d].owner = co[d].owner /\ co'[d].outer = co[d].outer
          /\ co'[d].inner \in {co[d].inner, epoch}
    BY DEF SessionEnds, Kept, Active
<1>2. \A r \in Runs : SameTask(r) /\ ts'[r].stalled = ts[r].stalled
    BY DEF SessionEnds
<1>3. epoch' = epoch + 1 /\ epoch \in Nat
    BY Bounds DEF SessionEnds, SessionInv
<1>4. \A d \in Threads : ~Mine(d)'
    BY <1>1, <1>3, Bounds DEF Mine, SessionInv
<1>5. LoopsKnowTheirTask'
    BY <1>1, <1>2, <1>3, <1>4, Bounds DEF SessionInv, LoopsKnowTheirTask, SameTask
<1>6. TasksKnowTheirOwner'
    BY <1>2, <1>3, Bounds DEF SessionInv, SessionEnds, TasksKnowTheirOwner, SameTask
<1>7. ExecutingIsWork'
    BY <1>4 DEF SessionEnds, ExecutingIsWork
<1>8. PanelFollowsItsTask'
    BY <1>1, <1>4 DEF SessionInv, PanelFollowsItsTask
<1>9. PanelsBelongToSession'
    BY DEF SessionEnds, PanelsBelongToSession
<1> QED
    BY <1>5, <1>6, <1>7, <1>8, <1>9 DEF SessionInv

LEMMA MoveKeepsSession ==
    ASSUME ConstantsFit, TypeOK, SessionInv, NEW c \in Threads, LoopMoves(c)
    PROVE  SessionInv'
<1>1. \A d \in Threads : Active(d)' =>
          /\ Active(d)
          /\ co'[d].run = co[d].run /\ co'[d].owner = co[d].owner /\ co'[d].outer = co[d].outer
          /\ co'[d].inner \in {co[d].inner, epoch}
    BY DEF LoopMoves, Kept, Active
<1>2. \A r \in Runs : SameTask(r)
    BY DEF LoopMoves
<1>3. token' = token /\ epoch' = epoch /\ task' = task /\ epoch \in Nat /\ Active(c)
    BY Bounds DEF LoopMoves, SessionInv
<1>4. \A d \in Threads \ {c} : co'[d] = co[d]
    BY DEF LoopMoves
<1>5. \A d \in Threads : Active(d)' => ~ts'[co[d].run].stalled
    <2> SUFFICES ASSUME NEW d \in Threads, Active(d)'
                 PROVE  ~ts'[co[d].run].stalled
        OBVIOUS
    <2>1. Active(d) /\ co[d].run \in Runs /\ ~ts[co[d].run].stalled
        BY <1>1 DEF SessionInv, LoopsKnowTheirTask
    <2>2. d # c => co[d].run # co[c].run
        BY <1>3, <2>1 DEF SessionInv, PanelFollowsItsTask
    <2> QED
        BY <2>1, <2>2 DEF LoopMoves, Active
<1>6. \A d \in Threads : Mine(d)' => Mine(d) /\ (co'[d].pc # "post" => co'[d].inner = epoch)
    BY <1>1, <1>3, <1>4 DEF LoopMoves, Mine, Active, SessionInv, LoopsKnowTheirTask
<1>7. LoopsKnowTheirTask'
    BY <1>1, <1>2, <1>3, <1>5, <1>6, Bounds DEF SessionInv, LoopsKnowTheirTask, SameTask
<1>8. TasksKnowTheirOwner'
    <2>1. \A o \in Owners : task[o] # NoRun => task[o] \in Runs
        BY DEF TypeOK
    <2>2. \A r \in Runs : ts'[r].owner = ts[r].owner /\ ts'[r].born = ts[r].born
        BY <1>2 DEF SameTask
    <2>3. \A o \in Owners : task'[o] # NoRun => ts'[task'[o]].owner = o
        BY <1>3, <2>1, <2>2 DEF SessionInv, TasksKnowTheirOwner
    <2>4. \A r \in Runs : ts'[r].born <= epoch'
        BY <1>3, <2>2 DEF SessionInv, TasksKnowTheirOwner
    <2> QED
        BY <2>3, <2>4 DEF TasksKnowTheirOwner
<1>9. PanelFollowsItsTask'
    <2>1. \A d \in Threads : Mine(d)' => task'[co'[d].owner] = co'[d].run
        <3>1. \A d \in Threads : Mine(d) => task[co[d].owner] = co[d].run
            BY DEF SessionInv, PanelFollowsItsTask
        <3>2. \A d \in Threads : Mine(d)' => Active(d)'
            BY DEF Mine
        <3> QED
            BY <1>1, <1>3, <1>6, <3>1, <3>2
    <2>2. \A d, e \in Threads : d # e /\ Active(d)' /\ Active(e)' => co'[d].run # co'[e].run
        BY <1>1 DEF SessionInv, PanelFollowsItsTask
    <2> QED
        BY <2>1, <2>2 DEF PanelFollowsItsTask
<1>10. PanelsBelongToSession'
    BY <1>2, <1>3 DEF SessionInv, PanelsBelongToSession, SameTask, TypeOK
<1>11. ExecutingIsWork'
    <2>1. \A d \in Threads \ {c} : Mine(d)' = Mine(d)
        BY <1>3, <1>4 DEF Mine, Active
    <2>2. CASE co'[c].pc = "idle" /\ co[c].outer = epoch
        <3>1. Mine(c) /\ ~Mine(c)'
            BY <1>3, <2>2 DEF Mine, Active
        <3>2. \A d \in Threads \ {c} : Mine(d) => co[d].owner # co[c].owner
            BY <3>1 DEF Mine, SessionInv, PanelFollowsItsTask
        <3>3. executing' = [executing EXCEPT ![co[c].owner] = FALSE]
            BY <2>2 DEF LoopMoves
        <3> QED
            BY <1>4, <2>1, <3>1, <3>2, <3>3 DEF SessionInv, ExecutingIsWork, TypeOK
    <2>3. CASE ~(co'[c].pc = "idle" /\ co[c].outer = epoch)
        <3>1. Mine(c)' = Mine(c) /\ (Mine(c) => co'[c].owner = co[c].owner)
            BY <1>1, <1>3, <2>3 DEF Mine, Active
        <3>2. executing' = executing
            BY <2>3 DEF LoopMoves
        <3> QED
            BY <1>4, <2>1, <3>1, <3>2 DEF SessionInv, ExecutingIsWork
    <2> QED
        BY <2>2, <2>3
<1> QED
    BY <1>7, <1>8, <1>9, <1>10, <1>11 DEF SessionInv

LEMMA SubmitKeepsSession ==
    ASSUME ConstantsFit, TypeOK, SessionInv,
           NEW o \in Owners, NEW r \in Runs, NEW c \in Threads, Submits(o, r, c)
    PROVE  SessionInv'
<1>1. /\ co'[c].pc = "post" /\ co'[c].run = r /\ co'[c].owner = o
      /\ co'[c].outer = epoch /\ co'[c].inner = 0
      /\ co[c].pc = "idle" /\ \A d \in Threads \ {c} : co'[d] = co[d]
    BY DEF Submits
<1>2. /\ ts'[r].owner = o /\ ts'[r].born = epoch /\ ~ts'[r].stalled
      /\ \A s \in Runs \ {r} : ts'[s] = ts[s]
      /\ task'[o] = r /\ \A p \in Owners \ {o} : task'[p] = task[p]
      /\ executing'[o] = TRUE /\ \A p \in Owners \ {o} : executing'[p] = executing[p]
      /\ token # 0 /\ ~executing[o] /\ token' = token /\ epoch' = epoch
    BY DEF Submits
<1>3. \A d \in Threads : Active(d) => co[d].run # r
    <2>1. ts[r].owner = NoRun
        BY DEF Submits
    <2> QED
        BY <2>1, Bounds DEF SessionInv, LoopsKnowTheirTask, ConstantsFit
<1>4. /\ Active(c)' /\ Mine(c)' /\ ~Active(c)
      /\ \A d \in Threads \ {c} : Active(d)' = Active(d) /\ Mine(d)' = Mine(d)
    BY <1>1, <1>2 DEF Mine, Active
<1>5. \A d \in Threads \ {c} : Mine(d) => co[d].owner # o
    BY <1>2 DEF SessionInv, ExecutingIsWork
<1>6. LoopsKnowTheirTask'
    <2>1. \A d \in Threads \ {c} : Active(d) => ts'[co[d].run] = ts[co[d].run]
        BY <1>2, <1>3, Bounds DEF SessionInv
    <2>2. epoch \in Nat
        BY Bounds DEF SessionInv
    <2> QED
        BY <1>1, <1>2, <1>4, <2>1, <2>2 DEF SessionInv, LoopsKnowTheirTask
<1>7. TasksKnowTheirOwner'
    <2>1. \A p \in Owners \ {o} : task[p] # NoRun => task[p] \in Runs /\ task[p] # r
        <3>1. ts[r].owner = NoRun
            BY DEF Submits
        <3> QED
            BY <3>1 DEF SessionInv, TasksKnowTheirOwner, TypeOK, ConstantsFit
    <2>2. epoch \in Nat
        BY Bounds DEF SessionInv
    <2>3. \A p \in Owners : task'[p] # NoRun => ts'[task'[p]].owner = p
        BY <1>2, <2>1 DEF SessionInv, TasksKnowTheirOwner
    <2>4. \A s \in Runs : ts'[s].born <= epoch'
        BY <1>2, <2>2 DEF SessionInv, TasksKnowTheirOwner
    <2> QED
        BY <2>3, <2>4 DEF TasksKnowTheirOwner
<1>8. ExecutingIsWork'
    <2>1. ASSUME NEW p \in Owners \ {o}
          PROVE  executing'[p] <=> \E d \in Threads : Mine(d)' /\ co'[d].owner = p
        BY <1>1, <1>2, <1>4 DEF SessionInv, ExecutingIsWork, Mine
    <2>2. executing'[o] /\ Mine(c)' /\ co'[c].owner = o
        BY <1>1, <1>2, <1>4
    <2> QED
        BY <2>1, <2>2 DEF ExecutingIsWork
<1>9. PanelFollowsItsTask'
    <2>1. \A d \in Threads : Mine(d)' => task'[co'[d].owner] = co'[d].run
        BY <1>1, <1>2, <1>4, <1>5, Bounds DEF SessionInv, PanelFollowsItsTask
    <2>2. \A d, e \in Threads : d # e /\ Active(d)' /\ Active(e)' => co'[d].run # co'[e].run
        BY <1>1, <1>3, <1>4 DEF SessionInv, PanelFollowsItsTask
    <2> QED
        BY <2>1, <2>2 DEF PanelFollowsItsTask
<1>10. PanelsBelongToSession'
    <2>1. \A p \in Owners \ {o} : task[p] # NoRun => task[p] \in Runs /\ task[p] # r
        <3>1. ts[r].owner = NoRun
            BY DEF Submits
        <3> QED
            BY <3>1 DEF SessionInv, TasksKnowTheirOwner, TypeOK, ConstantsFit
    <2> QED
        BY <1>2, <2>1 DEF SessionInv, PanelsBelongToSession
<1> QED
    BY <1>6, <1>7, <1>8, <1>9, <1>10 DEF SessionInv

LEMMA ResumeKeepsSession ==
    ASSUME ConstantsFit, TypeOK, SessionInv, NEW o \in Owners, NEW c \in Threads, FollowsAgain(o, c)
    PROVE  SessionInv'
<1> DEFINE r == task[o]
<1>1. /\ co'[c].pc = "ask" /\ co'[c].run = r /\ co'[c].owner = o
      /\ co'[c].outer = epoch /\ co'[c].inner = epoch
      /\ co[c].pc = "idle" /\ \A d \in Threads \ {c} : co'[d] = co[d]
    BY IdleAndAsk DEF FollowsAgain
<1>2. /\ r \in Runs /\ ts[r].stalled /\ ~ts'[r].stalled
      /\ \A s \in Runs \ {r} : ts'[s] = ts[s]
      /\ \A s \in Runs : ts'[s].owner = ts[s].owner /\ ts'[s].born = ts[s].born
      /\ executing'[o] = TRUE /\ \A p \in Owners \ {o} : executing'[p] = executing[p]
      /\ token # 0 /\ token' = token /\ epoch' = epoch /\ task' = task
    BY DEF FollowsAgain, SameTask
<1>3. \A d \in Threads : Active(d) => co[d].run # r
    BY <1>2 DEF SessionInv, LoopsKnowTheirTask
<1>4. /\ Active(c)' /\ Mine(c)' /\ ~Active(c)
      /\ \A d \in Threads \ {c} : Active(d)' = Active(d) /\ Mine(d)' = Mine(d)
    BY <1>1, <1>2 DEF Mine, Active
<1>5. ts[r].owner = o /\ ts[r].born = epoch
    BY <1>2 DEF SessionInv, TasksKnowTheirOwner, PanelsBelongToSession, ConstantsFit
<1>6. \A d \in Threads \ {c} : Mine(d) => co[d].owner # o
    BY <1>3, Bounds DEF SessionInv, PanelFollowsItsTask, Mine
<1> HIDE DEF r
<1>7. LoopsKnowTheirTask'
    <2>1. \A d \in Threads \ {c} : Active(d) => ts'[co[d].run] = ts[co[d].run]
        BY <1>2, <1>3, Bounds DEF SessionInv
    <2>2. epoch \in Nat
        BY Bounds DEF SessionInv
    <2> QED
        BY <1>1, <1>2, <1>4, <1>5, <2>1, <2>2 DEF SessionInv, LoopsKnowTheirTask
<1>8. TasksKnowTheirOwner'
    <2>1. \A p \in Owners : task[p] # NoRun => task[p] \in Runs
        BY DEF TypeOK
    <2> QED
        BY <1>2, <2>1 DEF SessionInv, TasksKnowTheirOwner
<1>9. ExecutingIsWork'
    <2>1. ASSUME NEW p \in Owners \ {o}
          PROVE  executing'[p] <=> \E d \in Threads : Mine(d)' /\ co'[d].owner = p
        BY <1>1, <1>2, <1>4 DEF SessionInv, ExecutingIsWork, Mine
    <2>2. executing'[o] /\ Mine(c)' /\ co'[c].owner = o
        BY <1>1, <1>2, <1>4
    <2> QED
        BY <2>1, <2>2 DEF ExecutingIsWork
<1>10. PanelFollowsItsTask'
    <2>1. \A d \in Threads : Mine(d)' => task'[co'[d].owner] = co'[d].run
        BY <1>1, <1>2, <1>4 DEF SessionInv, PanelFollowsItsTask, r
    <2>2. \A d, e \in Threads : d # e /\ Active(d)' /\ Active(e)' => co'[d].run # co'[e].run
        BY <1>1, <1>3, <1>4 DEF SessionInv, PanelFollowsItsTask
    <2> QED
        BY <2>1, <2>2 DEF PanelFollowsItsTask
<1>11. PanelsBelongToSession'
    <2>1. \A p \in Owners : task[p] # NoRun => task[p] \in Runs
        BY DEF TypeOK
    <2> QED
        BY <1>2, <2>1 DEF SessionInv, PanelsBelongToSession
<1> QED
    BY <1>7, <1>8, <1>9, <1>10, <1>11 DEF SessionInv

LEMMA DropKeepsSession ==
    ASSUME ConstantsFit, TypeOK, SessionInv, NEW o \in Owners, DropTask(o)
    PROVE  SessionInv'
<1>1. /\ task'[o] = NoRun /\ \A p \in Owners \ {o} : task'[p] = task[p]
      /\ ~executing[o] /\ UNCHANGED <<token, epoch, executing, ts, co>>
    BY DEF DropTask, sessionVars, TypeOK
<1>2. \A d \in Threads : Mine(d) => co[d].owner # o
    BY <1>1 DEF SessionInv, ExecutingIsWork
<1>3. \A d \in Threads : Active(d)' = Active(d) /\ Mine(d)' = Mine(d)
    BY <1>1 DEF Mine, Active
<1>4. LoopsKnowTheirTask'
    BY <1>1, <1>3 DEF SessionInv, LoopsKnowTheirTask
<1>5. TasksKnowTheirOwner'
    BY <1>1 DEF SessionInv, TasksKnowTheirOwner
<1>6. ExecutingIsWork'
    BY <1>1, <1>3 DEF SessionInv, ExecutingIsWork
<1>7. PanelFollowsItsTask'
    BY <1>1, <1>2, <1>3, Bounds DEF SessionInv, PanelFollowsItsTask
<1>8. PanelsBelongToSession'
    BY <1>1 DEF SessionInv, PanelsBelongToSession
<1> QED
    BY <1>4, <1>5, <1>6, <1>7, <1>8 DEF SessionInv

LEMMA StillKeepsSession ==
    ASSUME ConstantsFit, TypeOK, SessionInv, StandsStill
    PROVE  SessionInv'
<1>1. /\ UNCHANGED <<epoch, executing, task, co>> /\ (token # 0 => token' # 0)
      /\ \A r \in Runs : /\ ts'[r].owner = ts[r].owner /\ ts'[r].born = ts[r].born
                         /\ ts'[r].stalled = ts[r].stalled
    BY DEF StandsStill, ownerVars, SameTask
<1>2. \A d \in Threads : Active(d)' = Active(d) /\ Mine(d)' = Mine(d)
    BY <1>1 DEF Mine, Active
<1>3. \A p \in Owners : task[p] # NoRun => task[p] \in Runs
    BY DEF TypeOK
<1>4. LoopsKnowTheirTask'
    BY <1>1, <1>2 DEF SessionInv, LoopsKnowTheirTask
<1>5. TasksKnowTheirOwner'
    BY <1>1, <1>3 DEF SessionInv, TasksKnowTheirOwner
<1>6. ExecutingIsWork'
    BY <1>1, <1>2 DEF SessionInv, ExecutingIsWork
<1>7. PanelFollowsItsTask'
    BY <1>1, <1>2 DEF SessionInv, PanelFollowsItsTask
<1>8. PanelsBelongToSession'
    BY <1>1, <1>3 DEF SessionInv, PanelsBelongToSession
<1> QED
    BY <1>4, <1>5, <1>6, <1>7, <1>8 DEF SessionInv

LEMMA SessionInvStep == ASSUME ConstantsFit, TypeOK, SessionInv, [Next]_vars PROVE SessionInv'
<1>1. LoopsKnowTheirTask
    BY DEF SessionInv
<1> QED
    BY <1>1, StepKinds, EndKeepsSession, MoveKeepsSession, SubmitKeepsSession, ResumeKeepsSession,
       DropKeepsSession, StillKeepsSession

-----------------------------------------------------------------------------
(* What a step does to reports, answers, cancels and the server's tasks     *)

SameReport(r) == ts'[r].status = ts[r].status /\ ts'[r].cancelled = ts[r].cancelled

(* No new answer for a coroutine, and no new POST.                          *)
Quiet(c) == co'[c] = co[c] \/ (co'[c].pc # "post" /\ co'[c].answer = NoAnswer)

(* A task of the server goes on, or is forgotten.                           *)
Onward(r) ==
    \/ server'[r] = server[r]
    \/ Known(r) /\ server'[r].state = "gone"
    \/ /\ Known(r) /\ server'[r].state \notin {"none", "gone"}
       /\ StatusRank(server'[r].state) >= StatusRank(server[r].state)
       /\ server[r].cancelled => server'[r].cancelled

(* Only an accepted cancel leaves the task of a panel cancelling.           *)
CancelsKept ==
    /\ \A r \in Runs : cancelReq'[r].code = "ok" => cancelReq[r].code = "ok" \/ server'[r].cancelled
    /\ \A o \in Owners : task'[o] # NoRun =>
          /\ task'[o] = task[o]
          /\ ts'[task[o]].cancelling /\ ~cancelReq'[task[o]].sent
             => (ts[task[o]].cancelling /\ ~cancelReq[task[o]].sent) \/ cancelReq[task[o]].code = "ok"

SameErrors == \A c \in Threads : co'[c].pc = "post" => ts'[co[c].run].error = ts[co[c].run].error

Calm ==
    /\ \A r \in Runs : Onward(r) /\ SameReport(r) /\ ts'[r].owner = ts[r].owner
    /\ \A c \in Threads : Quiet(c)
    /\ SameErrors
    /\ CancelsKept

(* The loop c shows what the server answered.                               *)
Reports(c) ==
    /\ co[c].pc = "ask" /\ co[c].answer.code = "ok" /\ co'[c].pc \in {"idle", "sleep"}
    /\ \A d \in Threads : Quiet(d)
    /\ ts'[co[c].run].status = co[c].answer.status /\ ts'[co[c].run].cancelled = co[c].answer.cancelled
    /\ \A r \in Runs \ {co[c].run} : ts'[r] = ts[r]
    /\ \A r \in Runs : /\ ts'[r].owner = ts[r].owner /\ ts'[r].error = ts[r].error
                       /\ ts'[r].cancelling = ts[r].cancelling
    /\ UNCHANGED <<task, cancelReq, server>>

(* The server answers c.                                                    *)
Says(c) ==
    /\ Active(c) /\ co[c].answer = NoAnswer
    /\ \A d \in Threads \ {c} : co'[d] = co[d]
    /\ co'[c].pc = co[c].pc /\ co'[c].run = co[c].run /\ co'[c].answer # NoAnswer
    /\ UNCHANGED <<ts, task, cancelReq>>

SaysStatus(c) ==
    /\ Says(c) /\ server' = server
    /\ co[c].pc = "ask" /\ co'[c].answer.code = "ok" =>
          /\ Known(co[c].run)
          /\ co'[c].answer.status = server[co[c].run].state
          /\ co'[c].answer.cancelled = server[co[c].run].cancelled

Accepts(c) ==
    /\ Says(c) /\ co[c].pc = "post"
    /\ server'[co[c].run].state = "queued"
    /\ server'[co[c].run].cancelled = server[co[c].run].cancelled
    /\ \A r \in Runs \ {co[c].run} : server'[r] = server[r]

(* A step of a loop that leaves the reports alone.                          *)
LEMMA CalmMove ==
    ASSUME TypeOK, SessionInv, NEW c \in Threads, Active(c), NEW code, NEW over, Resumes(c, code, over),
           NEW x, co' = [co EXCEPT ![c] = x], x.pc # "post", x.answer = NoAnswer,
           UNCHANGED <<cancelReq, server>>,
           \A r \in Runs : /\ SameReport(r) /\ ts'[r].owner = ts[r].owner
                           /\ ts'[r].cancelling = ts[r].cancelling
                           /\ r # co[c].run => ts'[r] = ts[r]
    PROVE  Calm
<1>1. co'[c] = x /\ \A d \in Threads \ {c} : co'[d] = co[d]
    BY DEF TypeOK
<1>2. \A d \in Threads : Quiet(d)
    BY <1>1 DEF Quiet
<1>3. SameErrors
    <2> SUFFICES ASSUME NEW d \in Threads, co'[d].pc = "post"
                 PROVE  ts'[co[d].run].error = ts[co[d].run].error
        BY DEF SameErrors
    <2>1. d # c /\ co[d].pc = "post"
        BY <1>1
    <2>2. Active(d) /\ Active(c)
        BY <2>1 DEF Active
    <2>3. co[d].run # co[c].run
        BY <2>1, <2>2 DEF SessionInv, PanelFollowsItsTask
    <2>4. co[d].run \in Runs
        BY <2>2 DEF SessionInv, LoopsKnowTheirTask
    <2> QED
        BY <2>3, <2>4
<1>4. \A o \in Owners : task'[o] # NoRun => task'[o] = task[o] /\ task[o] \in Runs
    BY ResumesEither DEF TypeOK
<1>5. CancelsKept
    BY <1>4 DEF CancelsKept
<1> QED
    BY <1>2, <1>3, <1>5 DEF Calm, Onward

LEMMA CalmPosted ==
    ASSUME ConstantsFit, TypeOK, SessionInv, NEW c \in Threads, Posted(c)
    PROVE  Calm
<1> DEFINE r == co[c].run
           on == co[c].answer.code = "ok" /\ token # 0
           x == IF on THEN Ask(c, r, co[c].owner, co[c].outer, epoch, 0) ELSE NoThread
           t == [ts[r] EXCEPT !.submitting = FALSE, !.id = co[c].answer.code = "ok",
                              !.error = co[c].answer.code # "ok"]
<1>1. Active(c)
    BY DEF Posted, Active
<1>2. r \in Runs
    BY <1>1 DEF SessionInv, LoopsKnowTheirTask
<1>3. ts' = [ts EXCEPT ![r] = t]
    BY <1>2 DEF Posted, TypeOK
<1>4. /\ t.status = ts[r].status /\ t.cancelled = ts[r].cancelled /\ t.owner = ts[r].owner
      /\ t.cancelling = ts[r].cancelling
    BY <1>2, Elements DEF TaskType
<1>5. \A s \in Runs : /\ SameReport(s) /\ ts'[s].owner = ts[s].owner
                      /\ ts'[s].cancelling = ts[s].cancelling
                      /\ s # r => ts'[s] = ts[s]
    <2> HIDE DEF t
    <2> QED
        BY <1>2, <1>3, <1>4 DEF TypeOK, SameReport
<1>6. Resumes(c, co[c].answer.code, ~on) /\ co' = [co EXCEPT ![c] = x] /\ UNCHANGED <<cancelReq, server>>
    BY DEF Posted
<1>7. x.pc # "post" /\ x.answer = NoAnswer
    BY IdleAndAsk
<1> HIDE DEF on, x
<1> QED
    BY <1>1, <1>5, <1>6, <1>7, CalmMove

LEMMA CalmPostFails ==
    ASSUME ConstantsFit, TypeOK, SessionInv, NEW c \in Threads, PostFails(c)
    PROVE  Calm
<1> DEFINE r == co[c].run
           t == [ts[r] EXCEPT !.submitting = FALSE, !.error = TRUE]
<1>1. Active(c)
    BY DEF PostFails, Active
<1>2. r \in Runs
    BY <1>1 DEF SessionInv, LoopsKnowTheirTask
<1>3. ts' = [ts EXCEPT ![r] = t]
    BY <1>2 DEF PostFails, TypeOK
<1>4. /\ t.status = ts[r].status /\ t.cancelled = ts[r].cancelled /\ t.owner = ts[r].owner
      /\ t.cancelling = ts[r].cancelling
    BY <1>2, Elements DEF TaskType
<1>5. \A s \in Runs : /\ SameReport(s) /\ ts'[s].owner = ts[s].owner
                      /\ ts'[s].cancelling = ts[s].cancelling
                      /\ s # r => ts'[s] = ts[s]
    <2> HIDE DEF t
    <2> QED
        BY <1>2, <1>3, <1>4 DEF TypeOK, SameReport
<1>6. Resumes(c, "", TRUE) /\ co' = [co EXCEPT ![c] = NoThread] /\ UNCHANGED <<cancelReq, server>>
    BY DEF PostFails
<1>7. NoThread.pc # "post" /\ NoThread.answer = NoAnswer
    BY IdleAndAsk
<1> QED
    BY <1>1, <1>5, <1>6, <1>7, CalmMove

LEMMA CalmPollFails ==
    ASSUME ConstantsFit, TypeOK, SessionInv, NEW c \in Threads, PollFails(c)
    PROVE  Calm
<1>1. Active(c)
    BY DEF PollFails, Active
<1>2. co[c].run \in Runs
    BY <1>1 DEF SessionInv, LoopsKnowTheirTask
<1>3. PICK code : LET current == co[c].inner = EpochAfter(code)
                      stall == current /\ CountFail(c) >= MaxFail
                      over == ~current \/ stall
                  IN  /\ Resumes(c, code, over)
                      /\ ts' = IF stall THEN [ts EXCEPT ![co[c].run].stalled = TRUE] ELSE ts
                      /\ co' = [co EXCEPT ![c] = IF over THEN NoThread ELSE Sleep(c, CountFail(c))]
    BY DEF PollFails
<1> DEFINE current == co[c].inner = EpochAfter(code)
           stall == current /\ CountFail(c) >= MaxFail
           over == ~current \/ stall
           x == IF over THEN NoThread ELSE Sleep(c, CountFail(c))
<1>4. \A s \in Runs : /\ SameReport(s) /\ ts'[s].owner = ts[s].owner
                      /\ ts'[s].cancelling = ts[s].cancelling
                      /\ s # co[c].run => ts'[s] = ts[s]
    BY <1>2, <1>3, Elements DEF SameReport, TaskType, TypeOK
<1>5. Resumes(c, code, over) /\ co' = [co EXCEPT ![c] = x]
    BY <1>3
<1>6. x.pc # "post" /\ x.answer = NoAnswer
    BY Sleeps, IdleAndAsk
<1>7. UNCHANGED <<cancelReq, server>>
    BY DEF PollFails
<1> HIDE DEF over, x
<1> QED
    BY <1>1, <1>4, <1>5, <1>6, <1>7, CalmMove

LEMMA CalmWakes ==
    ASSUME ConstantsFit, TypeOK, SessionInv, NEW c \in Threads, Wakes(c)
    PROVE  Calm
<1> DEFINE on == co[c].inner = epoch /\ token # 0
           x == IF on THEN Ask(c, co[c].run, co[c].owner, co[c].outer, co[c].inner, co[c].fails)
                ELSE NoThread
<1>1. Active(c)
    BY DEF Wakes, Active
<1>2. /\ Resumes(c, "", ~on) /\ co' = [co EXCEPT ![c] = x] /\ ts' = ts
      /\ UNCHANGED <<cancelReq, server>>
    BY DEF Wakes
<1>3. x.pc # "post" /\ x.answer = NoAnswer
    BY IdleAndAsk
<1>4. \A s \in Runs : /\ SameReport(s) /\ ts'[s].owner = ts[s].owner
                      /\ ts'[s].cancelling = ts[s].cancelling
                      /\ s # co[c].run => ts'[s] = ts[s]
    BY <1>2 DEF SameReport
<1> HIDE DEF on, x
<1> QED
    BY <1>1, <1>2, <1>3, <1>4, CalmMove

LEMMA PolledReports ==
    ASSUME ConstantsFit, TypeOK, SessionInv, NEW c \in Threads, Polled(c)
    PROVE  Calm \/ Reports(c)
<1> DEFINE r == co[c].run
           a == co[c].answer
           current == co[c].inner = epoch
           over == ~current \/ a.code = "404" \/ a.status \in Finished
           x == IF over THEN NoThread ELSE Sleep(c, 0)
<1>1. Active(c) /\ co[c].pc = "ask" /\ a.code \in {"ok", "404"}
    BY DEF Polled, Active
<1>2. r \in Runs
    BY <1>1 DEF SessionInv, LoopsKnowTheirTask
<1>3. Resumes(c, a.code, over) /\ co' = [co EXCEPT ![c] = x] /\ UNCHANGED <<cancelReq, server>>
    BY DEF Polled
<1>4. x.pc \in {"idle", "sleep"} /\ x.answer = NoAnswer
    BY Sleeps, IdleAndAsk
<1>5. CASE ~current \/ a.code = "404"
    <2>1. ts' = ts \/ ts' = [ts EXCEPT ![r].lost = TRUE]
        BY <1>2, <1>5 DEF Polled, TypeOK
    <2>2. \A s \in Runs : /\ SameReport(s) /\ ts'[s].owner = ts[s].owner
                          /\ ts'[s].cancelling = ts[s].cancelling
                          /\ s # r => ts'[s] = ts[s]
        BY <1>2, <2>1, Elements DEF SameReport, TaskType, TypeOK
    <2> HIDE DEF over, x
    <2> QED
        BY <1>1, <1>3, <1>4, <2>2, CalmMove
<1>6. CASE current /\ a.code = "ok"
    <2> DEFINE t == ApplyTaskStatus(ts[r], a)
    <2>1. ts' = [ts EXCEPT ![r] = t]
        BY <1>2, <1>6 DEF Polled, TypeOK
    <2>2. /\ t.status = a.status /\ t.cancelled = a.cancelled /\ t.owner = ts[r].owner
          /\ t.error = ts[r].error /\ t.cancelling = ts[r].cancelling
        BY <1>2, Elements DEF TaskType, ApplyTaskStatus
    <2>3. /\ ts'[r].status = a.status /\ ts'[r].cancelled = a.cancelled
          /\ \A s \in Runs \ {r} : ts'[s] = ts[s]
          /\ \A s \in Runs : /\ ts'[s].owner = ts[s].owner /\ ts'[s].error = ts[s].error
                             /\ ts'[s].cancelling = ts[s].cancelling
        <3> HIDE DEF t
        <3> QED
            BY <1>2, <2>1, <2>2 DEF TypeOK
    <2> HIDE DEF over, x
    <2>4. co'[c] = x /\ \A d \in Threads \ {c} : co'[d] = co[d]
        BY <1>3 DEF TypeOK
    <2>5. \A d \in Threads : Quiet(d)
        BY <1>4, <2>4 DEF Quiet
    <2>6. task' = task
        BY <1>3, <1>6 DEF Resumes, Expired
    <2> QED
        BY <1>1, <1>3, <1>4, <1>6, <2>3, <2>4, <2>5, <2>6 DEF Reports
<1> QED
    BY <1>1, <1>5, <1>6

LEMMA ServePostSays ==
    ASSUME ConstantsFit, TypeOK, SessionInv, NEW c \in Threads, ServePost(c)
    PROVE  SaysStatus(c) \/ Accepts(c)
<1>1. /\ co[c].pc = "post" /\ Active(c) /\ co[c].answer = NoAnswer
      /\ UNCHANGED <<ts, task, cancelReq>>
    BY DEF ServePost, Active, ownerVars
<1>2. co[c].run \in Runs
    BY <1>1 DEF SessionInv, LoopsKnowTheirTask
<1>3. ASSUME NEW a, Answers(c, a), a # NoAnswer, server' = server
      PROVE  SaysStatus(c)
    BY <1>1, <1>3, AnswersKeep DEF Says, SaysStatus
<1>4. ASSUME Answers(c, Answer("ok", "", FALSE)), server' = [server EXCEPT ![co[c].run].state = "queued"]
      PROVE  Accepts(c)
    <2>1. /\ server'[co[c].run].state = "queued"
          /\ server'[co[c].run].cancelled = server[co[c].run].cancelled
          /\ \A r \in Runs \ {co[c].run} : server'[r] = server[r]
        BY <1>2, <1>4, Elements DEF TypeOK, ServerType
    <2>2. Answer("ok", "", FALSE) # NoAnswer
        BY DEF Answer, NoAnswer
    <2>3. Says(c)
        BY <1>1, <1>4, <2>2, AnswersKeep DEF Says
    <2> QED
        BY <1>1, <2>1, <2>3 DEF Accepts
<1>5. Answer("401", "", FALSE) # NoAnswer /\ Answer("refused", "", FALSE) # NoAnswer
    BY DEF Answer, NoAnswer
<1> QED
    BY <1>3, <1>4, <1>5 DEF ServePost

LEMMA ServePollSays ==
    ASSUME ConstantsFit, TypeOK, SessionInv, NEW c \in Threads, ServePoll(c)
    PROVE  SaysStatus(c)
<1> DEFINE s == server[co[c].run]
           a == IF co[c].token \notin valid THEN Answer("401", "", FALSE)
                ELSE IF ~Known(co[c].run) THEN Answer("404", "", FALSE)
                ELSE Answer("ok", s.state, s.cancelled)
<1>1. /\ co[c].pc = "ask" /\ Active(c) /\ co[c].answer = NoAnswer
      /\ UNCHANGED <<ts, task, cancelReq, server>> /\ Answers(c, a)
    BY DEF ServePoll, Active, ownerVars
<1>2. a # NoAnswer /\ (a.code = "ok" => Known(co[c].run) /\ a.status = s.state /\ a.cancelled = s.cancelled)
    BY DEF Answer, NoAnswer
<1> HIDE DEF a
<1> QED
    BY <1>1, <1>2, AnswersKeep DEF Says, SaysStatus

LEMMA CalmUser ==
    ASSUME ConstantsFit, TypeOK,
           doLogin \/ doLogout \/ Reload \/ TokenExpires \/ (\E o \in Owners : DropTask(o)) \/ UNCHANGED vars
    PROVE  Calm
<1>1. ts' = ts /\ server' = server /\ (co' = co \/ co' = [c \in Threads |-> NoThread])
    BY DEF doLogin, doLogout, Reload, TokenExpires, DropTask, vars
<1>2. cancelReq' = cancelReq \/ (cancelReq' = [r \in Runs |-> NoRequest] /\ task' = [o \in Owners |-> NoRun])
    BY DEF doLogin, doLogout, Reload, TokenExpires, DropTask, vars, ResetState
<1>3. \A o \in Owners : task'[o] # NoRun => task'[o] = task[o] /\ cancelReq' = cancelReq
    <2>1. CASE doLogin \/ TokenExpires \/ UNCHANGED vars
        BY <2>1 DEF doLogin, TokenExpires, vars, ownerVars
    <2>2. CASE doLogout \/ Reload
        BY <2>2 DEF doLogout, Reload, ClearSession, ResetState
    <2>3. ASSUME NEW p \in Owners, DropTask(p)
          PROVE  \A o \in Owners : task'[o] # NoRun => task'[o] = task[o] /\ cancelReq' = cancelReq
        BY <2>3 DEF DropTask, TypeOK
    <2> QED
        BY <2>1, <2>2, <2>3
<1>4. \A r \in Runs : cancelReq'[r].code = "ok" => cancelReq[r].code = "ok"
    <2>1. NoRequest.code = ""
        BY DEF NoRequest
    <2> QED
        BY <1>2, <2>1
<1>5. CancelsKept
    BY <1>1, <1>3, <1>4 DEF CancelsKept
<1>6. \A c \in Threads : Quiet(c)
    BY <1>1, IdleAndAsk DEF Quiet
<1> QED
    BY <1>1, <1>5, <1>6 DEF Calm, Onward, SameReport, SameErrors

LEMMA CalmServer ==
    ASSUME TypeOK, UNCHANGED <<task, ts, co, cancelReq>>, \A r \in Runs : Onward(r)
    PROVE  Calm
<1>1. \A c \in Threads : Quiet(c)
    BY DEF Quiet
<1>2. CancelsKept
    BY DEF CancelsKept
<1> QED
    BY <1>1, <1>2 DEF Calm, SameReport, SameErrors

LEMMA CalmRestart ==
    ASSUME ConstantsFit, TypeOK, ServerRestart
    PROVE  Calm
<1>1. \A r \in Runs : Onward(r)
    BY DEF ServerRestart, Onward
<1> QED
    BY <1>1, CalmServer DEF ServerRestart, ownerVars

LEMMA Ranks ==
    /\ StatusRank("") = 0 /\ StatusRank("queued") = 1 /\ StatusRank("running") = 2
    /\ StatusRank("done") = 3 /\ StatusRank("cancelled") = 3
    /\ \A s : StatusRank(s) \in 0..3
BY DEF StatusRank

LEMMA CalmProgress ==
    ASSUME ConstantsFit, TypeOK, NEW r \in Runs, Progress(r)
    PROVE  Calm
<1>1. PICK s \in {"running"} \cup Finished :
          /\ server' = [server EXCEPT ![r].state = s]
          /\ server[r].state \in {"queued", "running"}
          /\ s = "running" => server[r].state = "queued"
    BY DEF Progress, Finished
<1>2. server'[r].state = s /\ server'[r].cancelled = server[r].cancelled
    BY <1>1, Elements DEF TypeOK, ServerType
<1>3. \A q \in Runs \ {r} : server'[q] = server[q]
    BY <1>1 DEF TypeOK
<1>4. Onward(r)
    <2>1. Known(r) /\ server'[r].state \notin {"none", "gone"}
        BY <1>1, <1>2 DEF Known, Finished
    <2>2. server[r].state = "queued" \/ (server[r].state = "running" /\ s \in Finished)
        BY <1>1
    <2>3. StatusRank(s) >= StatusRank(server[r].state)
        <3>1. s \in Finished => StatusRank(s) = 3
            BY Ranks DEF Finished
        <3>2. s \notin Finished => s = "running" /\ server[r].state = "queued"
            BY <2>2
        <3>3. StatusRank(server[r].state) \in {1, 2}
            BY <2>2, Ranks
        <3>4. s \notin Finished => StatusRank(s) = 2 /\ StatusRank(server[r].state) = 1
            BY <3>2, Ranks
        <3> QED
            BY <3>1, <3>3, <3>4
    <2>4. server[r].cancelled => server'[r].cancelled
        BY <1>2
    <2> QED
        BY <1>2, <2>1, <2>3, <2>4 DEF Onward
<1>5. \A q \in Runs : Onward(q)
    BY <1>3, <1>4 DEF Onward
<1> QED
    BY <1>5, CalmServer DEF Progress, ownerVars

LEMMA CalmServeCancel ==
    ASSUME ConstantsFit, TypeOK, NEW r \in Runs, ServeCancel(r)
    PROVE  Calm
<1> DEFINE code == IF cancelReq[r].token \notin valid THEN "401"
                   ELSE IF ~Known(r) THEN "404"
                   ELSE IF server[r].state \in Finished THEN "409"
                   ELSE "ok"
<1>1. /\ cancelReq' = [cancelReq EXCEPT ![r].code = code]
      /\ server' = IF code = "ok" THEN [server EXCEPT ![r].cancelled = TRUE] ELSE server
      /\ UNCHANGED <<task, ts, co>> /\ cancelReq[r].sent
    BY DEF ServeCancel, ownerVars
<1>2. code = "ok" => Known(r)
    OBVIOUS
<1> HIDE DEF code
<1>3. \A q \in Runs \ {r} : server'[q] = server[q] /\ cancelReq'[q] = cancelReq[q]
    BY <1>1 DEF TypeOK
<1>4. cancelReq'[r].code = code /\ cancelReq'[r].sent
    BY <1>1, Elements DEF TypeOK, RequestType
<1>5. code = "ok" => server'[r].cancelled /\ server'[r].state = server[r].state
    BY <1>1, Elements DEF TypeOK, ServerType
<1>6. Onward(r)
    <2>1. CASE code = "ok"
        <3>1. StatusRank(server[r].state) \in Nat
            BY DEF StatusRank
        <3> QED
            BY <1>2, <1>5, <2>1, <3>1 DEF Onward, Known
    <2>2. CASE code # "ok"
        BY <1>1, <2>2 DEF Onward
    <2> QED
        BY <2>1, <2>2
<1>7. \A q \in Runs : Onward(q)
    BY <1>3, <1>6 DEF Onward
<1>8. \A q \in Runs : cancelReq'[q].sent = cancelReq[q].sent
    BY <1>1, <1>3, <1>4
<1>9. CancelsKept
    <2>1. \A o \in Owners : task[o] # NoRun => task[o] \in Runs
        BY DEF TypeOK
    <2> QED
        BY <1>1, <1>3, <1>4, <1>5, <1>8, <2>1 DEF CancelsKept
<1>10. \A c \in Threads : Quiet(c)
    BY <1>1 DEF Quiet
<1> QED
    BY <1>1, <1>7, <1>9, <1>10 DEF Calm, SameReport, SameErrors

LEMMA CalmCancelTask ==
    ASSUME ConstantsFit, TypeOK, SessionInv, NEW o \in Owners, cancelTask(o)
    PROVE  Calm
<1>1. /\ task[o] \in Runs /\ ts' = [ts EXCEPT ![task[o]].cancelling = TRUE]
      /\ cancelReq' = [cancelReq EXCEPT ![task[o]] = [sent |-> TRUE, token |-> token, code |-> ""]]
      /\ UNCHANGED <<task, co, server>>
    BY DEF cancelTask, TypeOK, ownerVars
<1>2. \A s \in Runs : SameReport(s) /\ ts'[s].owner = ts[s].owner /\ ts'[s].error = ts[s].error
    BY <1>1, Elements DEF SameReport, TaskType, TypeOK
<1>3. cancelReq'[task[o]].sent /\ cancelReq'[task[o]].code = ""
    BY <1>1 DEF TypeOK
<1>4. \A s \in Runs \ {task[o]} : ts'[s] = ts[s] /\ cancelReq'[s] = cancelReq[s]
    BY <1>1 DEF TypeOK
<1>5. \A p \in Owners : task[p] # NoRun => task[p] \in Runs
    BY DEF TypeOK
<1>6. CancelsKept
    BY <1>1, <1>3, <1>4, <1>5 DEF CancelsKept
<1>7. \A c \in Threads : Quiet(c)
    BY <1>1 DEF Quiet
<1>8. SameErrors
    BY <1>1, <1>2 DEF SameErrors, Active, SessionInv, LoopsKnowTheirTask
<1> QED
    BY <1>1, <1>2, <1>6, <1>7, <1>8 DEF Calm, Onward

LEMMA CalmAnswered ==
    ASSUME ConstantsFit, TypeOK, SessionInv, NEW r \in Runs, CancelAnswered(r)
    PROVE  Calm
<1>1. PICK code \in {"", cancelReq[r].code} :
          /\ IF Expired(code) THEN ClearSession ELSE UNCHANGED <<token, epoch, ownerVars>>
          /\ ts' = IF code = "ok" THEN ts ELSE [ts EXCEPT ![r].cancelling = FALSE]
    BY DEF CancelAnswered
<1>2. cancelReq' = [cancelReq EXCEPT ![r] = NoRequest] /\ UNCHANGED <<co, server>>
    BY DEF CancelAnswered
<1>3. \A s \in Runs : SameReport(s) /\ ts'[s].owner = ts[s].owner /\ ts'[s].error = ts[s].error
    BY <1>1, Elements DEF SameReport, TaskType, TypeOK
<1>4. \A s \in Runs \ {r} : ts'[s] = ts[s] /\ cancelReq'[s] = cancelReq[s]
    BY <1>1, <1>2 DEF TypeOK
<1>5. ts'[r].cancelling => cancelReq[r].code = "ok"
    BY <1>1, Elements DEF TaskType, TypeOK
<1>6. cancelReq'[r].code = ""
    BY <1>2 DEF NoRequest, TypeOK
<1>7. \A p \in Owners : task'[p] # NoRun => task'[p] = task[p] /\ task[p] \in Runs
    BY <1>1 DEF TypeOK, ClearSession, ResetState, ownerVars
<1>8. CancelsKept
    BY <1>4, <1>5, <1>6, <1>7 DEF CancelsKept
<1>9. \A c \in Threads : Quiet(c)
    BY <1>2 DEF Quiet
<1>10. SameErrors
    BY <1>2, <1>3 DEF SameErrors, Active, SessionInv, LoopsKnowTheirTask
<1> QED
    BY <1>2, <1>3, <1>8, <1>9, <1>10 DEF Calm, Onward

LEMMA CalmFollows ==
    ASSUME ConstantsFit, TypeOK, SessionInv, NEW o \in Owners, NEW c \in Threads, FollowsAgain(o, c)
    PROVE  Calm
<1>1. /\ \A s \in Runs : /\ SameTask(s) /\ ts'[s].error = ts[s].error
                         /\ ts'[s].cancelling = ts[s].cancelling
                         /\ ts'[s].status = ts[s].status /\ ts'[s].cancelled = ts[s].cancelled
      /\ UNCHANGED <<task, cancelReq, server>>
    BY DEF FollowsAgain
<1>2. co'[c].pc = "ask" /\ co'[c].answer = NoAnswer /\ \A d \in Threads \ {c} : co'[d] = co[d]
    BY IdleAndAsk DEF FollowsAgain
<1>3. \A d \in Threads : Quiet(d)
    BY <1>2 DEF Quiet
<1>4. SameErrors
    <2>1. \A d \in Threads : co'[d].pc = "post" => co[d].run \in Runs
        BY <1>2 DEF Active, SessionInv, LoopsKnowTheirTask
    <2> QED
        BY <1>1, <2>1 DEF SameErrors
<1>5. \A p \in Owners : task[p] # NoRun => task[p] \in Runs
    BY DEF TypeOK
<1>6. CancelsKept
    BY <1>1, <1>5 DEF CancelsKept
<1>7. \A s \in Runs : SameReport(s) /\ ts'[s].owner = ts[s].owner
    BY <1>1 DEF SameReport, SameTask
<1> QED
    BY <1>1, <1>3, <1>4, <1>6, <1>7 DEF Calm, Onward

LEMMA ServerKinds ==
    ASSUME ConstantsFit, TypeOK, SessionInv, [Next]_vars
    PROVE  \/ Calm
           \/ \E c \in Threads : Reports(c) \/ SaysStatus(c) \/ Accepts(c)
           \/ \E o \in Owners, r \in Runs, c \in Threads : Submits(o, r, c)
<1>1. ASSUME NEW c \in Threads, Browser(c) \/ Serve(c)
      PROVE  Calm \/ Reports(c) \/ SaysStatus(c) \/ Accepts(c)
    BY <1>1, CalmPosted, CalmPostFails, PolledReports, CalmPollFails, CalmWakes,
       ServePostSays, ServePollSays DEF Browser, Serve
<1>2. ASSUME NEW o \in Owners, cancelTask(o)
      PROVE  Calm
    BY <1>2, CalmCancelTask
<1>3. ASSUME NEW o \in Owners, NEW c \in Threads, resumeTask(o, c)
      PROVE  Calm
    BY <1>3, StepOfResume, CalmFollows
<1>4. ASSUME NEW r \in Runs, CancelAnswered(r) \/ ServeCancel(r) \/ Progress(r)
      PROVE  Calm
    BY <1>4, CalmAnswered, CalmServeCancel, CalmProgress
<1>5. ASSUME NEW o \in Owners, NEW r \in Runs, NEW c \in Threads, RunGatewayTask(o, r, c)
      PROVE  Submits(o, r, c)
    BY <1>5, StepOfRun
<1> QED
    BY <1>1, <1>2, <1>3, <1>4, <1>5, CalmUser, CalmRestart DEF Next

-----------------------------------------------------------------------------
(* The server's part of the invariant *)

(* A report stays behind a task that goes on.                               *)
LEMMA BehindStays ==
    ASSUME NEW r \in Runs, Onward(r), NEW st, NEW b, StatusRank(st) \in Nat,
           Behind(st, b, server[r])
    PROVE  Behind(st, b, server'[r])
<1>1. StatusRank(server[r].state) \in Nat /\ StatusRank(server'[r].state) \in Nat
    BY DEF StatusRank
<1>2. CASE server'[r] = server[r]
    BY <1>2
<1>3. CASE server'[r].state = "gone"
    BY <1>3 DEF Behind
<1>4. CASE /\ Known(r) /\ server'[r].state \notin {"none", "gone"}
           /\ StatusRank(server'[r].state) >= StatusRank(server[r].state)
           /\ server[r].cancelled => server'[r].cancelled
    <2>1. StatusRank(st) <= StatusRank(server[r].state) /\ (b => server[r].cancelled)
        BY <1>4 DEF Behind, Known
    <2>2. StatusRank(st) <= StatusRank(server'[r].state)
        BY <1>1, <1>4, <2>1
    <2>3. b => server'[r].cancelled
        BY <1>4, <2>1
    <2> QED
        BY <1>4, <2>2, <2>3 DEF Behind
<1> QED
    BY <1>2, <1>3, <1>4 DEF Onward

(* What a server's task that goes on keeps.                                 *)
LEMMA OnwardKeeps ==
    ASSUME NEW r \in Runs, Onward(r)
    PROVE  /\ server[r].state = "none" => server'[r].state = "none"
           /\ server[r].cancelled \/ server[r].state = "gone"
              => server'[r].cancelled \/ server'[r].state = "gone"
BY DEF Onward, Known

LEMMA CalmKeepsServer ==
    ASSUME ConstantsFit, TypeOK, SessionInv, ServerInv, Calm
    PROVE  ServerInv'
<1>1. \A r \in Runs : Onward(r) /\ SameReport(r) /\ ts'[r].owner = ts[r].owner
    BY DEF Calm
<1>2. \A c \in Threads : co'[c].pc = "post" => co'[c] = co[c] /\ Active(c)
    <2>1. \A c \in Threads : Quiet(c)
        BY DEF Calm
    <2> QED
        BY <2>1 DEF Quiet, Active
<1>3. \A c \in Threads : co'[c].pc = "ask" /\ co'[c].answer.code = "ok" => co'[c] = co[c] /\ Active(c)
    <2>1. NoAnswer.code = ""
        BY DEF NoAnswer, Answer
    <2>2. \A c \in Threads : Quiet(c)
        BY DEF Calm
    <2> QED
        BY <2>1, <2>2 DEF Quiet, Active
<1>4. \A c \in Threads : Active(c) => co[c].run \in Runs
    BY DEF SessionInv, LoopsKnowTheirTask
<1>5. PostsAreNew'
    BY <1>1, <1>2, <1>4, OnwardKeeps DEF ServerInv, PostsAreNew, Calm, SameErrors
<1>6. UnsentIsUnknown'
    BY <1>1, OnwardKeeps DEF ServerInv, UnsentIsUnknown
<1>7. CancelsReached'
    BY <1>1, OnwardKeeps DEF ServerInv, CancelsReached, Calm, CancelsKept
<1>8. CancellingIsTrue'
    <2> SUFFICES ASSUME NEW o \in Owners, task'[o] # NoRun,
                        ts'[task'[o]].cancelling, ~cancelReq'[task'[o]].sent
                 PROVE  server'[task'[o]].cancelled \/ server'[task'[o]].state = "gone"
        BY DEF CancellingIsTrue
    <2>1. /\ task'[o] = task[o] /\ task[o] \in Runs
          /\ (ts[task[o]].cancelling /\ ~cancelReq[task[o]].sent) \/ cancelReq[task[o]].code = "ok"
        BY DEF Calm, CancelsKept, TypeOK
    <2>2. server[task[o]].cancelled \/ server[task[o]].state = "gone"
        BY <2>1 DEF ServerInv, CancellingIsTrue, CancelsReached
    <2> QED
        BY <1>1, <2>1, <2>2, OnwardKeeps
<1>9. \A r \in Runs : Behind(ts'[r].status, ts'[r].cancelled, server'[r])
    <2> SUFFICES ASSUME NEW r \in Runs
                 PROVE  Behind(ts'[r].status, ts'[r].cancelled, server'[r])
        OBVIOUS
    <2>1. Behind(ts[r].status, ts[r].cancelled, server[r])
        BY DEF ServerInv, ReportsAreOld
    <2>2. StatusRank(ts[r].status) \in Nat
        BY DEF StatusRank
    <2>3. Behind(ts[r].status, ts[r].cancelled, server'[r])
        BY <1>1, <2>1, <2>2, BehindStays
    <2> QED
        BY <1>1, <2>3 DEF SameReport
<1>10. ASSUME NEW c \in Threads, co'[c].pc = "ask", co'[c].answer.code = "ok"
       PROVE  /\ Behind(co'[c].answer.status, co'[c].answer.cancelled, server'[co'[c].run])
              /\ StatusRank(ts'[co'[c].run].status) <= StatusRank(co'[c].answer.status)
              /\ ts'[co'[c].run].cancelled => co'[c].answer.cancelled
    <2>1. co'[c] = co[c] /\ co[c].run \in Runs /\ co[c].pc = "ask" /\ co[c].answer.code = "ok"
        BY <1>3, <1>4, <1>10
    <2>2. /\ Behind(co[c].answer.status, co[c].answer.cancelled, server[co[c].run])
          /\ StatusRank(ts[co[c].run].status) <= StatusRank(co[c].answer.status)
          /\ ts[co[c].run].cancelled => co[c].answer.cancelled
        BY <2>1 DEF ServerInv, ReportsAreOld
    <2>3. StatusRank(co[c].answer.status) \in Nat
        BY DEF StatusRank
    <2>4. Behind(co[c].answer.status, co[c].answer.cancelled, server'[co[c].run])
        BY <1>1, <2>1, <2>2, <2>3, BehindStays
    <2> QED
        BY <1>1, <2>1, <2>2, <2>4 DEF SameReport
<1>11. ReportsAreOld'
    BY <1>9, <1>10 DEF ReportsAreOld
<1> QED
    BY <1>5, <1>6, <1>7, <1>8, <1>11 DEF ServerInv

LEMMA ReportKeepsServer ==
    ASSUME ConstantsFit, TypeOK, SessionInv, ServerInv, NEW c \in Threads, Reports(c)
    PROVE  ServerInv'
<1>1. UNCHANGED <<task, cancelReq, server>>
    BY DEF Reports
<1>2. /\ ts'[co[c].run].status = co[c].answer.status /\ ts'[co[c].run].cancelled = co[c].answer.cancelled
      /\ \A r \in Runs \ {co[c].run} : ts'[r] = ts[r]
      /\ \A r \in Runs : /\ ts'[r].owner = ts[r].owner /\ ts'[r].error = ts[r].error
                         /\ ts'[r].cancelling = ts[r].cancelling
    BY DEF Reports
<1>3. \A d \in Threads : co'[d].pc = "post" => co'[d] = co[d] /\ Active(d)
    BY DEF Reports, Quiet, Active
<1>4. \A d \in Threads : co'[d].pc = "ask" /\ co'[d].answer.code = "ok"
                         => co'[d] = co[d] /\ Active(d) /\ d # c
    <2>1. NoAnswer.code = ""
        BY DEF NoAnswer, Answer
    <2>2. \A d \in Threads : Quiet(d)
        BY DEF Reports
    <2>3. co'[c].pc \in {"idle", "sleep"}
        BY DEF Reports
    <2> QED
        BY <2>1, <2>2, <2>3 DEF Quiet, Active
<1>5. Active(c) /\ \A d \in Threads : Active(d) => co[d].run \in Runs
    BY DEF SessionInv, LoopsKnowTheirTask, Reports, Active
<1>6. \A d \in Threads : Active(d) /\ d # c => co[d].run # co[c].run
    BY <1>5 DEF SessionInv, PanelFollowsItsTask
<1>7. PostsAreNew'
    BY <1>1, <1>2, <1>3, <1>5 DEF ServerInv, PostsAreNew
<1>8. UnsentIsUnknown' /\ CancelsReached'
    BY <1>1, <1>2 DEF ServerInv, UnsentIsUnknown, CancelsReached
<1>9. CancellingIsTrue'
    <2>1. \A o \in Owners : task[o] # NoRun => task[o] \in Runs
        BY DEF TypeOK
    <2> QED
        BY <1>1, <1>2, <2>1 DEF ServerInv, CancellingIsTrue
<1>10. \A r \in Runs : Behind(ts'[r].status, ts'[r].cancelled, server'[r])
    <2>1. Behind(co[c].answer.status, co[c].answer.cancelled, server[co[c].run])
        BY DEF ServerInv, ReportsAreOld, Reports
    <2>2. \A r \in Runs : Behind(ts[r].status, ts[r].cancelled, server[r])
        BY DEF ServerInv, ReportsAreOld
    <2>3. \A r \in Runs \ {co[c].run} : Behind(ts'[r].status, ts'[r].cancelled, server'[r])
        BY <1>1, <1>2, <2>2
    <2>4. Behind(ts'[co[c].run].status, ts'[co[c].run].cancelled, server'[co[c].run])
        BY <1>1, <1>2, <2>1
    <2> QED
        BY <2>3, <2>4
<1>11. ASSUME NEW d \in Threads, co'[d].pc = "ask", co'[d].answer.code = "ok"
       PROVE  /\ Behind(co'[d].answer.status, co'[d].answer.cancelled, server'[co'[d].run])
              /\ StatusRank(ts'[co'[d].run].status) <= StatusRank(co'[d].answer.status)
              /\ ts'[co'[d].run].cancelled => co'[d].answer.cancelled
    <2>1. /\ co'[d] = co[d] /\ co[d].run \in Runs /\ co[d].pc = "ask" /\ co[d].answer.code = "ok"
          /\ ts'[co[d].run] = ts[co[d].run]
        BY <1>2, <1>4, <1>5, <1>6, <1>11
    <2>2. /\ Behind(co[d].answer.status, co[d].answer.cancelled, server[co[d].run])
          /\ StatusRank(ts[co[d].run].status) <= StatusRank(co[d].answer.status)
          /\ ts[co[d].run].cancelled => co[d].answer.cancelled
        BY <2>1 DEF ServerInv, ReportsAreOld
    <2> QED
        BY <1>1, <2>1, <2>2
<1>12. ReportsAreOld'
    BY <1>10, <1>11 DEF ReportsAreOld
<1> QED
    BY <1>7, <1>8, <1>9, <1>12 DEF ServerInv

LEMMA StatusKeepsServer ==
    ASSUME ConstantsFit, TypeOK, SessionInv, ServerInv, NEW c \in Threads, SaysStatus(c)
    PROVE  ServerInv'
<1>1. /\ UNCHANGED <<ts, task, cancelReq, server>>
      /\ \A d \in Threads \ {c} : co'[d] = co[d]
      /\ co'[c].pc = co[c].pc /\ co'[c].run = co[c].run /\ co'[c].answer # NoAnswer
    BY DEF SaysStatus, Says
<1>2. PostsAreNew'
    BY <1>1 DEF ServerInv, PostsAreNew
<1>3. UnsentIsUnknown' /\ CancelsReached' /\ CancellingIsTrue'
    BY <1>1 DEF ServerInv, UnsentIsUnknown, CancelsReached, CancellingIsTrue
<1>4. ASSUME co'[c].pc = "ask", co'[c].answer.code = "ok"
      PROVE  /\ Behind(co'[c].answer.status, co'[c].answer.cancelled, server[co[c].run])
             /\ StatusRank(ts[co[c].run].status) <= StatusRank(co'[c].answer.status)
             /\ ts[co[c].run].cancelled => co'[c].answer.cancelled
    <2>1. /\ Known(co[c].run)
          /\ co'[c].answer.status = server[co[c].run].state
          /\ co'[c].answer.cancelled = server[co[c].run].cancelled
        BY <1>1, <1>4 DEF SaysStatus
    <2>2. co[c].run \in Runs
        BY DEF SaysStatus, Says, SessionInv, LoopsKnowTheirTask
    <2>3. Behind(ts[co[c].run].status, ts[co[c].run].cancelled, server[co[c].run])
        BY <2>2 DEF ServerInv, ReportsAreOld
    <2>4. StatusRank(server[co[c].run].state) \in Nat
        BY DEF StatusRank
    <2>5. /\ StatusRank(ts[co[c].run].status) <= StatusRank(server[co[c].run].state)
          /\ ts[co[c].run].cancelled => server[co[c].run].cancelled
        BY <2>1, <2>3 DEF Behind, Known
    <2>6. Behind(server[co[c].run].state, server[co[c].run].cancelled, server[co[c].run])
        <3>1. StatusRank(server[co[c].run].state) <= StatusRank(server[co[c].run].state)
            BY <2>4
        <3> QED
            BY <2>1, <3>1 DEF Behind, Known
    <2> QED
        BY <2>1, <2>5, <2>6
<1>5. ReportsAreOld'
    BY <1>1, <1>4 DEF ServerInv, ReportsAreOld
<1> QED
    BY <1>2, <1>3, <1>5 DEF ServerInv

LEMMA AcceptKeepsServer ==
    ASSUME ConstantsFit, TypeOK, SessionInv, ServerInv, NEW c \in Threads, Accepts(c)
    PROVE  ServerInv'
<1> DEFINE r == co[c].run
<1>1. /\ UNCHANGED <<ts, task, cancelReq>>
      /\ \A d \in Threads \ {c} : co'[d] = co[d]
      /\ co[c].pc = "post" /\ co'[c].pc = "post" /\ co'[c].run = r /\ co'[c].answer # NoAnswer
      /\ co[c].answer = NoAnswer /\ Active(c)
    BY DEF Accepts, Says
<1>2. /\ server'[r].state = "queued" /\ server'[r].cancelled = server[r].cancelled
      /\ \A q \in Runs \ {r} : server'[q] = server[q]
    BY DEF Accepts
<1>3. r \in Runs /\ ts[r].owner # NoRun /\ server[r].state = "none"
    <2>1. r \in Runs /\ ts[r].owner = co[c].owner /\ co[c].owner \in Owners
        BY <1>1, Bounds DEF SessionInv, LoopsKnowTheirTask
    <2>2. server[r].state = "none"
        BY <1>1 DEF ServerInv, PostsAreNew
    <2> QED
        BY <2>1, <2>2 DEF ConstantsFit
<1>4. \A d \in Threads : Active(d) /\ d # c => co[d].run \in Runs /\ co[d].run # r
    BY <1>1 DEF SessionInv, PanelFollowsItsTask, LoopsKnowTheirTask
<1> HIDE DEF r
<1>5. PostsAreNew'
    BY <1>1, <1>2, <1>4 DEF ServerInv, PostsAreNew, Active, r
<1>6. UnsentIsUnknown' /\ CancelsReached'
    BY <1>1, <1>2, <1>3 DEF ServerInv, UnsentIsUnknown, CancelsReached
<1>7. CancellingIsTrue'
    <2>1. \A o \in Owners : task[o] # NoRun => task[o] \in Runs
        BY DEF TypeOK
    <2> QED
        BY <1>1, <1>2, <1>3, <2>1 DEF ServerInv, CancellingIsTrue
<1>8. \A q \in Runs : Behind(ts'[q].status, ts'[q].cancelled, server'[q])
    <2>1. \A q \in Runs : Behind(ts[q].status, ts[q].cancelled, server[q])
        BY DEF ServerInv, ReportsAreOld
    <2>2. ts[r].status = "" /\ ~ts[r].cancelled
        BY <1>3, <2>1 DEF Behind
    <2>3. Behind(ts'[r].status, ts'[r].cancelled, server'[r])
        <3>1. ts'[r].status = "" /\ ~ts'[r].cancelled
            BY <1>1, <2>2
        <3>2. StatusRank(ts'[r].status) = 0 /\ StatusRank(server'[r].state) = 1
            BY <1>2, <3>1, Ranks
        <3>3. StatusRank(ts'[r].status) <= StatusRank(server'[r].state)
            BY <3>2
        <3> QED
            BY <1>2, <3>1, <3>3 DEF Behind
    <2> QED
        BY <1>1, <1>2, <2>1, <2>3
<1>9. ASSUME NEW d \in Threads, co'[d].pc = "ask", co'[d].answer.code = "ok"
      PROVE  /\ Behind(co'[d].answer.status, co'[d].answer.cancelled, server'[co'[d].run])
             /\ StatusRank(ts'[co'[d].run].status) <= StatusRank(co'[d].answer.status)
             /\ ts'[co'[d].run].cancelled => co'[d].answer.cancelled
    <2>1. d # c /\ co'[d] = co[d] /\ co[d].pc = "ask" /\ co[d].answer.code = "ok"
        BY <1>1, <1>9
    <2>2. server'[co[d].run] = server[co[d].run]
        BY <1>2, <1>4, <2>1 DEF Active
    <2> QED
        BY <1>1, <2>1, <2>2 DEF ServerInv, ReportsAreOld
<1>10. ReportsAreOld'
    BY <1>8, <1>9 DEF ReportsAreOld
<1> QED
    BY <1>5, <1>6, <1>7, <1>10 DEF ServerInv

LEMMA SubmitKeepsServer ==
    ASSUME ConstantsFit, TypeOK, SessionInv, ServerInv,
           NEW o \in Owners, NEW r \in Runs, NEW c \in Threads, Submits(o, r, c)
    PROVE  ServerInv'
<1>1. /\ co'[c].pc = "post" /\ co'[c].run = r /\ \A d \in Threads \ {c} : co'[d] = co[d]
      /\ ts[r].owner = NoRun /\ ts'[r].owner = o /\ ~ts'[r].error /\ ~ts'[r].cancelling
      /\ ts'[r].status = "" /\ ~ts'[r].cancelled
      /\ \A s \in Runs \ {r} : ts'[s] = ts[s]
      /\ task'[o] = r /\ \A p \in Owners \ {o} : task'[p] = task[p]
      /\ UNCHANGED <<cancelReq, server>>
    BY DEF Submits
<1>2. ASSUME NEW d \in Threads, Active(d)
      PROVE  co[d].run \in Runs /\ co[d].run # r
    <2>1. co[d].run \in Runs /\ ts[co[d].run].owner = co[d].owner
        BY <1>2 DEF SessionInv, LoopsKnowTheirTask
    <2>2. co[d] \in ThreadType
        BY Elements
    <2>3. co[d].owner \in Owners /\ NoRun \notin Owners
        BY <2>2 DEF ThreadType, ConstantsFit
    <2> QED
        BY <1>1, <2>1, <2>3
<1>3. server[r].state = "none"
    BY <1>1 DEF ServerInv, UnsentIsUnknown
<1>4. PostsAreNew'
    <2>1. \A d \in Threads \ {c} : co[d].pc = "post" => ts'[co[d].run] = ts[co[d].run]
        BY <1>1, <1>2 DEF Active
    <2>2. ~ts'[co'[c].run].error /\ server'[co'[c].run].state = "none"
        BY <1>1, <1>3
    <2>3. ASSUME NEW d \in Threads \ {c}, co'[d].pc = "post"
          PROVE  /\ ~ts'[co'[d].run].error
                 /\ co'[d].answer = NoAnswer => server'[co'[d].run].state = "none"
        BY <1>1, <2>1, <2>3 DEF ServerInv, PostsAreNew
    <2> QED
        BY <2>2, <2>3 DEF PostsAreNew
<1>5. UnsentIsUnknown' /\ CancelsReached'
    BY <1>1, <1>3 DEF ServerInv, UnsentIsUnknown, CancelsReached
<1>6. CancellingIsTrue'
    <2>1. \A p \in Owners : task[p] # NoRun => task[p] \in Runs
        BY DEF TypeOK
    <2>2. ASSUME NEW p \in Owners \ {o}, task'[p] # NoRun, task'[p] # r
          PROVE  task'[p] = task[p] /\ ts'[task'[p]] = ts[task[p]]
        <3>1. task'[p] = task[p] /\ task[p] \in Runs \ {r}
            BY <1>1, <2>1, <2>2
        <3> QED
            BY <1>1, <3>1
    <2>3. \A p \in Owners \ {o} : /\ task[p] # NoRun /\ ts[task[p]].cancelling /\ ~cancelReq[task[p]].sent
                                => server[task[p]].cancelled \/ server[task[p]].state = "gone"
        BY DEF ServerInv, CancellingIsTrue
    <2>4. ASSUME NEW p \in Owners, task'[p] # NoRun, ts'[task'[p]].cancelling
          PROVE  p # o /\ task'[p] # r
        BY <1>1, <2>4
    <2>5. ASSUME NEW p \in Owners, task'[p] # NoRun, ts'[task'[p]].cancelling, ~cancelReq'[task'[p]].sent
          PROVE  server'[task'[p]].cancelled \/ server'[task'[p]].state = "gone"
        <3>1. p \in Owners \ {o} /\ task'[p] # r
            BY <2>4, <2>5
        <3>2. task'[p] = task[p] /\ ts'[task'[p]] = ts[task[p]]
            BY <2>2, <2>5, <3>1
        <3> QED
            BY <1>1, <2>3, <2>5, <3>1, <3>2
    <2> QED
        BY <2>5 DEF CancellingIsTrue
<1>7. \A q \in Runs : Behind(ts'[q].status, ts'[q].cancelled, server'[q])
    <2>1. \A q \in Runs : Behind(ts[q].status, ts[q].cancelled, server[q])
        BY DEF ServerInv, ReportsAreOld
    <2>2. Behind(ts'[r].status, ts'[r].cancelled, server'[r])
        BY <1>1, <1>3 DEF Behind
    <2> QED
        BY <1>1, <2>1, <2>2
<1>8. ASSUME NEW d \in Threads, co'[d].pc = "ask", co'[d].answer.code = "ok"
      PROVE  /\ Behind(co'[d].answer.status, co'[d].answer.cancelled, server'[co'[d].run])
             /\ StatusRank(ts'[co'[d].run].status) <= StatusRank(co'[d].answer.status)
             /\ ts'[co'[d].run].cancelled => co'[d].answer.cancelled
    <2>1. co'[d] = co[d] /\ co[d].pc = "ask" /\ co[d].answer.code = "ok"
        BY <1>1, <1>8
    <2>2. ts'[co[d].run] = ts[co[d].run]
        BY <1>1, <1>2, <2>1 DEF Active
    <2> QED
        BY <1>1, <2>1, <2>2 DEF ServerInv, ReportsAreOld
<1>9. ReportsAreOld'
    BY <1>7, <1>8 DEF ReportsAreOld
<1> QED
    BY <1>4, <1>5, <1>6, <1>9 DEF ServerInv

LEMMA ServerInvStep ==
    ASSUME ConstantsFit, TypeOK, SessionInv, ServerInv, [Next]_vars
    PROVE  ServerInv'
BY ServerKinds, CalmKeepsServer, ReportKeepsServer, StatusKeepsServer, AcceptKeepsServer,
   SubmitKeepsServer

-----------------------------------------------------------------------------
(* The submissions' part of the invariant *)

OpenFalls == \A r \in Runs : Open(r)' => Open(r)
GivesUp == \A r \in Runs : GivenUp(r) => GivenUp(r)'

(* A loop of this session that ends has given its task up, or the task is   *)
(* over for the server.                                                     *)
LeavesKnown(c) ==
    Mine(c) /\ co'[c].pc = "idle" => \A r \in Runs : r = co[c].run => GivenUp(r)' \/ ~Open(r)'

LEMMA UnfinishedStays ==
    ASSUME TypeOK, NEW r \in Runs, Onward(r), Unfinished(r)'
    PROVE  Unfinished(r)
<1>1. server'[r].state \in {"queued", "running"}
    BY DEF Unfinished
<1>2. StatusRank(server'[r].state) \in {1, 2}
    BY <1>1, Ranks
<1>3. CASE server'[r] = server[r]
    BY <1>1, <1>3 DEF Unfinished
<1>4. CASE Known(r) /\ StatusRank(server'[r].state) >= StatusRank(server[r].state)
    <2>1. server[r].state \in {"queued", "running", "done", "cancelled"}
        BY <1>4, Elements DEF Known, ServerType, Finished
    <2>2. StatusRank(server[r].state) \in Nat
        BY DEF StatusRank
    <2>3. server[r].state \in {"done", "cancelled"} => StatusRank(server[r].state) = 3
        BY Ranks
    <2>4. StatusRank(server[r].state) # 3
        BY <1>2, <1>4, <2>2
    <2> QED
        BY <2>1, <2>3, <2>4 DEF Unfinished
<1> QED
    BY <1>1, <1>3, <1>4 DEF Onward

LEMMA OpensFall ==
    ASSUME ConstantsFit, TypeOK, SessionInv, ServerInv, [Next]_vars
    PROVE  OpenFalls \/ \E o \in Owners, r \in Runs, c \in Threads : Submits(o, r, c)
<1>1. ASSUME \A r \in Runs : Onward(r),
             \A c \in Threads : co'[c].pc = "post" => co[c].pc = "post" /\ co'[c].run = co[c].run
      PROVE  OpenFalls
    <2>1. \A r \in Runs : Posting(r)' => Posting(r)
        BY <1>1 DEF Posting
    <2>2. \A r \in Runs : Unfinished(r)' => Unfinished(r)
        BY <1>1, UnfinishedStays
    <2> QED
        BY <2>1, <2>2 DEF OpenFalls, Open
<1>2. CASE Calm
    BY <1>1, <1>2 DEF Calm, Quiet
<1>3. ASSUME NEW c \in Threads, Reports(c)
      PROVE  OpenFalls
    BY <1>1, <1>3 DEF Reports, Quiet, Onward
<1>4. ASSUME NEW c \in Threads, SaysStatus(c)
      PROVE  OpenFalls
    BY <1>1, <1>4 DEF SaysStatus, Says, Onward
<1>5. ASSUME NEW c \in Threads, Accepts(c)
      PROVE  OpenFalls
    <2>1. \A d \in Threads : co'[d].pc = co[d].pc /\ co'[d].run = co[d].run
        BY <1>5 DEF Accepts, Says
    <2>2. \A r \in Runs : Posting(r)' => Posting(r)
        BY <2>1 DEF Posting
    <2>3. Posting(co[c].run)
        BY <1>5 DEF Posting, Accepts
    <2>4. \A r \in Runs \ {co[c].run} : Unfinished(r)' => Unfinished(r)
        BY <1>5 DEF Accepts, Unfinished
    <2> QED
        BY <2>2, <2>3, <2>4 DEF OpenFalls, Open
<1> QED
    BY <1>2, <1>3, <1>4, <1>5, ServerKinds

(* What is marked as given up stays so where nothing else happens to the    *)
(* marks.                                                                   *)
LEMMA MarksStay ==
    ASSUME TypeOK, NEW r, NEW t, ts' = [ts EXCEPT ![r] = t],
           ts[r].error => t.error, ts[r].stalled => t.stalled, ts[r].lost => t.lost
    PROVE  GivesUp
BY DEF TypeOK, GivesUp, GivenUp

LEMMA SameMarks == ASSUME ts' = ts PROVE GivesUp
BY DEF GivesUp, GivenUp

LEMMA PostedGivesUp ==
    ASSUME ConstantsFit, TypeOK, SessionInv, ServerInv, NEW c \in Threads, Posted(c)
    PROVE  GivesUp /\ LeavesKnown(c)
<1>0. PICK r \in Runs : r = co[c].run
    BY DEF Posted, Active, SessionInv, LoopsKnowTheirTask
<1> DEFINE t == [ts[r] EXCEPT !.submitting = FALSE, !.id = co[c].answer.code = "ok",
                              !.error = co[c].answer.code # "ok"]
<1>1. Active(c) /\ co[c].pc = "post"
    BY DEF Posted, Active
<1>2. r \in Runs /\ ~ts[r].error
    BY <1>0, <1>1 DEF SessionInv, LoopsKnowTheirTask, ServerInv, PostsAreNew
<1>3. ts' = [ts EXCEPT ![r] = t]
    BY <1>0 DEF Posted, TypeOK
<1>4. t.stalled = ts[r].stalled /\ t.lost = ts[r].lost
    BY <1>2, Elements DEF TaskType
<1>5. t.error <=> co[c].answer.code # "ok"
    BY <1>2, Elements DEF TaskType
<1> HIDE DEF t
<1>6. GivesUp
    BY <1>2, <1>3, <1>4, MarksStay
<1>7. LeavesKnown(c)
    <2> SUFFICES ASSUME Mine(c), co'[c].pc = "idle"
                 PROVE  GivenUp(r)'
        BY <1>0 DEF LeavesKnown
    <2>1. token # 0
        BY DEF Mine, SessionInv, LoopsKnowTheirTask
    <2>2. co[c].answer.code = "ok" => co'[c] = Ask(c, r, co[c].owner, co[c].outer, epoch, 0)
        BY <1>0, <2>1 DEF Posted, TypeOK
    <2>3. co[c].answer.code # "ok"
        BY <2>2, IdleAndAsk
    <2>4. ts'[r] = t
        BY <1>2, <1>3 DEF TypeOK
    <2> QED
        BY <1>5, <2>3, <2>4 DEF GivenUp
<1> QED
    BY <1>6, <1>7

LEMMA PostFailsGivesUp ==
    ASSUME ConstantsFit, TypeOK, SessionInv, ServerInv, NEW c \in Threads, PostFails(c)
    PROVE  GivesUp /\ LeavesKnown(c)
<1>0. PICK r \in Runs : r = co[c].run
    BY DEF PostFails, Active, SessionInv, LoopsKnowTheirTask
<1> DEFINE t == [ts[r] EXCEPT !.submitting = FALSE, !.error = TRUE]
<1>2. r \in Runs
    OBVIOUS
<1>3. ts' = [ts EXCEPT ![r] = t]
    BY <1>0 DEF PostFails, TypeOK
<1>4. t.stalled = ts[r].stalled /\ t.lost = ts[r].lost /\ t.error
    BY <1>2, Elements DEF TaskType
<1> HIDE DEF t
<1>5. ts'[r] = t
    BY <1>2, <1>3 DEF TypeOK
<1>6. GivenUp(r)'
    BY <1>4, <1>5 DEF GivenUp
<1> QED
    BY <1>0, <1>3, <1>4, <1>6, MarksStay DEF LeavesKnown

LEMMA PollFailsGivesUp ==
    ASSUME ConstantsFit, TypeOK, SessionInv, ServerInv, NEW c \in Threads, PollFails(c)
    PROVE  GivesUp /\ (SessionEnds \/ LeavesKnown(c))
<1>1. Active(c) /\ co[c].pc = "ask"
    BY DEF PollFails, Active
<1>2. PICK r \in Runs : r = co[c].run /\ epoch \in Nat
    BY <1>1, Bounds DEF SessionInv
<1>3. PICK code : LET current == co[c].inner = EpochAfter(code)
                      stall == current /\ CountFail(c) >= MaxFail
                      over == ~current \/ stall
                  IN  /\ Resumes(c, code, over)
                      /\ ts' = IF stall THEN [ts EXCEPT ![co[c].run].stalled = TRUE] ELSE ts
                      /\ co' = [co EXCEPT ![c] = IF over THEN NoThread ELSE Sleep(c, CountFail(c))]
    BY DEF PollFails
<1> DEFINE current == co[c].inner = EpochAfter(code)
           stall == current /\ CountFail(c) >= MaxFail
<1>4. GivesUp
    BY <1>2, <1>3, Elements DEF GivesUp, GivenUp, TaskType, TypeOK
<1>5. SessionEnds \/ LoopMoves(c)
    BY PollFailsKind DEF SessionInv
<1>6. ASSUME LoopMoves(c), Mine(c), co'[c].pc = "idle"
      PROVE  GivenUp(r)'
    <2>1. epoch' = epoch /\ co[c].inner = epoch
        BY <1>1, <1>6 DEF LoopMoves, SessionInv, LoopsKnowTheirTask, Mine
    <2>2. ~Expired(code)
        BY <1>2, <1>3, <2>1, ResumesEither
    <2>3. current
        BY <2>1, <2>2 DEF EpochAfter
    <2>4. stall
        <3>1. ~stall => co'[c] = Sleep(c, CountFail(c))
            BY <1>3, <2>3 DEF TypeOK
        <3> QED
            BY <1>6, <3>1, Sleeps
    <2> HIDE DEF stall
    <2>5. ts' = [ts EXCEPT ![r].stalled = TRUE]
        BY <1>2, <1>3, <2>4 DEF stall
    <2> QED
        BY <2>5, Elements DEF TypeOK, TaskType, GivenUp
<1> QED
    BY <1>2, <1>4, <1>5, <1>6 DEF LeavesKnown

LEMMA WakesGivesUp ==
    ASSUME ConstantsFit, TypeOK, SessionInv, NEW c \in Threads, Wakes(c)
    PROVE  GivesUp /\ LeavesKnown(c)
<1>1. ts' = ts /\ co[c].pc = "sleep"
    BY DEF Wakes
<1>2. ASSUME Mine(c)
      PROVE  co'[c].pc = "ask"
    <2>1. co[c].inner = epoch /\ token # 0
        BY <1>1, <1>2 DEF Mine, SessionInv, LoopsKnowTheirTask
    <2>2. co'[c] = Ask(c, co[c].run, co[c].owner, co[c].outer, co[c].inner, co[c].fails)
        BY <2>1 DEF Wakes, TypeOK
    <2> QED
        BY <2>2, IdleAndAsk
<1> QED
    BY <1>1, <1>2, SameMarks DEF LeavesKnown

LEMMA PolledGivesUp ==
    ASSUME ConstantsFit, TypeOK, SessionInv, ServerInv, NEW c \in Threads, Polled(c)
    PROVE  GivesUp /\ LeavesKnown(c)
<1>0. PICK r \in Runs : r = co[c].run
    BY DEF Polled, Active, SessionInv, LoopsKnowTheirTask
<1> DEFINE a == co[c].answer
           current == co[c].inner = epoch
           over == ~current \/ a.code = "404" \/ a.status \in Finished
<1>1. Active(c) /\ co[c].pc = "ask" /\ a.code \in {"ok", "404"}
    BY DEF Polled, Active
<1>2. r \in Runs
    OBVIOUS
<1>3. /\ ts' = IF ~current THEN ts
               ELSE [ts EXCEPT ![r] = IF a.code = "404" THEN [@ EXCEPT !.lost = TRUE]
                                      ELSE ApplyTaskStatus(@, a)]
      /\ co' = [co EXCEPT ![c] = IF over THEN NoThread ELSE Sleep(c, 0)]
      /\ server' = server
    BY <1>0 DEF Polled
<1>4. GivesUp
    BY <1>2, <1>3, Elements DEF GivesUp, GivenUp, TaskType, TypeOK, ApplyTaskStatus
<1>5. ASSUME Mine(c), co'[c].pc = "idle", a.code = "404"
      PROVE  GivenUp(r)'
    <2>1. current
        BY <1>1, <1>5 DEF Mine, SessionInv, LoopsKnowTheirTask
    <2>2. ts' = [ts EXCEPT ![r].lost = TRUE]
        BY <1>3, <1>5, <2>1
    <2> QED
        BY <1>2, <2>2, Elements DEF TypeOK, TaskType, GivenUp
<1>6. ASSUME Mine(c), co'[c].pc = "idle", a.code = "ok"
      PROVE  ~Open(r)'
    <2>1. current
        BY <1>1, <1>6 DEF Mine, SessionInv, LoopsKnowTheirTask
    <2>2. a.status \in Finished
        <3>1. ~over => co'[c] = Sleep(c, 0)
            BY <1>3 DEF TypeOK
        <3>2. over
            BY <1>6, <3>1, Sleeps
        <3> QED
            BY <1>6, <2>1, <3>2
    <2> HIDE DEF a, current, over
    <2>3. Behind(a.status, a.cancelled, server[r])
        BY <1>0, <1>1, <1>6 DEF a, ServerInv, ReportsAreOld
    <2>4. StatusRank(a.status) = 3 /\ a.status # ""
        BY <2>2, Ranks DEF Finished
    <2>5. ~Unfinished(r)
        <3>1. StatusRank("queued") = 1 /\ StatusRank("running") = 2
            BY Ranks
        <3>2. Unfinished(r) => StatusRank(server[r].state) \in {1, 2}
            BY <3>1 DEF Unfinished
        <3>3. Unfinished(r) => StatusRank(a.status) <= StatusRank(server[r].state)
            BY <2>3 DEF Behind, Unfinished
        <3>4. Unfinished(r) => 3 <= StatusRank(server[r].state) /\ StatusRank(server[r].state) \in {1, 2}
            BY <2>4, <3>2, <3>3
        <3> QED
            BY <3>4
    <2>6. ~Posting(r)'
        <3>1. \A d \in Threads \ {c} : co'[d] = co[d]
            BY <1>3 DEF TypeOK
        <3>2. \A d \in Threads \ {c} : Active(d) => co[d].run # r
            BY <1>0, <1>1 DEF SessionInv, PanelFollowsItsTask
        <3> QED
            BY <1>6, <3>1, <3>2 DEF Posting, Active
    <2> QED
        BY <1>3, <2>5, <2>6 DEF Open, Unfinished
<1> QED
    BY <1>0, <1>1, <1>4, <1>5, <1>6 DEF LeavesKnown

LEMMA CancelGivesUp ==
    ASSUME ConstantsFit, TypeOK,
           (\E o \in Owners : cancelTask(o)) \/ (\E r \in Runs : CancelAnswered(r))
    PROVE  GivesUp
<1>1. PICK r \in Runs : \/ ts' = ts
                        \/ ts' = [ts EXCEPT ![r].cancelling = TRUE]
                        \/ ts' = [ts EXCEPT ![r].cancelling = FALSE]
    BY DEF cancelTask, CancelAnswered, TypeOK
<1>2. \A q \in Runs : /\ ts'[q].error = ts[q].error
                       /\ ts'[q].stalled = ts[q].stalled
                       /\ ts'[q].lost = ts[q].lost
    BY <1>1, Elements DEF TaskType, TypeOK
<1> QED
    BY <1>2 DEF GivesUp, GivenUp

LEMMA GivesUpStep ==
    ASSUME ConstantsFit, TypeOK, SessionInv, ServerInv, [Next]_vars
    PROVE  \/ GivesUp
           \/ \E o \in Owners, r \in Runs, c \in Threads : Submits(o, r, c)
           \/ \E o \in Owners, c \in Threads : FollowsAgain(o, c)
<1>1. ASSUME NEW c \in Threads, Browser(c)
      PROVE  GivesUp
    BY <1>1, PostedGivesUp, PostFailsGivesUp, PolledGivesUp, PollFailsGivesUp, WakesGivesUp DEF Browser
<1>2. ASSUME NEW c \in Threads, Serve(c)
      PROVE  ts' = ts
    BY <1>2 DEF Serve, ServePost, ServePoll
<1>3. ASSUME NEW r \in Runs, ServeCancel(r) \/ Progress(r)
      PROVE  ts' = ts
    BY <1>3 DEF ServeCancel, Progress
<1>4. ASSUME NEW o \in Owners, DropTask(o)
      PROVE  ts' = ts
    BY <1>4 DEF DropTask
<1>5. ASSUME doLogin \/ doLogout \/ Reload \/ ServerRestart \/ TokenExpires \/ UNCHANGED vars
      PROVE  ts' = ts
    BY <1>5 DEF doLogin, doLogout, Reload, ServerRestart, TokenExpires, vars
<1>6. ASSUME NEW o \in Owners, NEW r \in Runs, NEW c \in Threads, RunGatewayTask(o, r, c)
      PROVE  Submits(o, r, c)
    BY <1>6, StepOfRun
<1>7. ASSUME NEW o \in Owners, NEW c \in Threads, resumeTask(o, c)
      PROVE  FollowsAgain(o, c)
    BY <1>7, StepOfResume
<1> QED
    BY <1>1, <1>2, <1>3, <1>4, <1>5, <1>6, <1>7, SameMarks, CancelGivesUp DEF Next

LEMMA LeavesKnownStep ==
    ASSUME ConstantsFit, TypeOK, SessionInv, ServerInv, [Next]_vars
    PROVE  SessionEnds \/ \A c \in Threads : LeavesKnown(c)
<1>0. LoopsKnowTheirTask
    BY DEF SessionInv
<1>1. ASSUME NEW d \in Threads, Active(d) => co'[d].pc # "idle"
      PROVE  LeavesKnown(d)
    BY <1>1 DEF LeavesKnown, Mine
<1>2. ASSUME NEW c \in Threads, LoopMoves(c), LeavesKnown(c)
      PROVE  \A d \in Threads : LeavesKnown(d)
    <2>1. \A d \in Threads \ {c} : Active(d) => co'[d].pc # "idle"
        BY <1>2 DEF LoopMoves, Active
    <2> QED
        BY <1>1, <1>2, <2>1
<1>3. ASSUME NEW c \in Threads, Browser(c)
      PROVE  SessionEnds \/ \A d \in Threads : LeavesKnown(d)
    <2>1. SessionEnds \/ LoopMoves(c)
        BY <1>0, <1>3, PostedKind, PostFailsKind, PolledKind, PollFailsKind, WakesKind DEF Browser
    <2>2. SessionEnds \/ LeavesKnown(c)
        BY <1>3, PostedGivesUp, PostFailsGivesUp, PolledGivesUp, PollFailsGivesUp, WakesGivesUp DEF Browser
    <2> QED
        BY <1>2, <2>1, <2>2
<1>4. ASSUME NEW c \in Threads, Serve(c)
      PROVE  \A d \in Threads : LeavesKnown(d)
    <2>1. LoopMoves(c)
        BY <1>0, <1>4, ServesKind
    <2>2. PICK a : Answers(c, a)
        BY <1>4 DEF Serve, ServePost, ServePoll
    <2>3. co'[c].pc = co[c].pc
        BY <2>2, AnswersKeep
    <2>4. LeavesKnown(c)
        BY <1>1, <2>3 DEF Active
    <2> QED
        BY <1>2, <2>1, <2>4
<1>5. ASSUME co' = co
      PROVE  \A d \in Threads : LeavesKnown(d)
    BY <1>1, <1>5 DEF Active
<1>6. ASSUME NEW o \in Owners, NEW r \in Runs, NEW c \in Threads, RunGatewayTask(o, r, c)
      PROVE  \A d \in Threads : LeavesKnown(d)
    <2>1. Submits(o, r, c)
        BY <1>6, StepOfRun
    <2>2. co'[c].pc = "post" /\ \A d \in Threads \ {c} : co'[d] = co[d]
        BY <2>1 DEF Submits
    <2> QED
        BY <1>1, <2>2 DEF Active
<1>7. ASSUME NEW o \in Owners, NEW c \in Threads, resumeTask(o, c)
      PROVE  \A d \in Threads : LeavesKnown(d)
    <2>1. FollowsAgain(o, c)
        BY <1>7, StepOfResume
    <2>2. co'[c].pc = "ask" /\ \A d \in Threads \ {c} : co'[d] = co[d]
        BY <2>1, IdleAndAsk DEF FollowsAgain
    <2> QED
        BY <1>1, <2>2 DEF Active
<1>8. CASE doLogout \/ Reload
    <2>1. \A d \in Threads : Kept(d)
        BY <1>8, Elements, IdleAndAsk DEF doLogout, Reload, Kept, Active, ThreadType
    <2> QED
        BY <1>8, <2>1 DEF doLogout, Reload, ClearSession, ResetState, SessionEnds, SameTask
<1>9. CASE doLogin \/ ServerRestart \/ TokenExpires \/ UNCHANGED vars
    BY <1>5, <1>9 DEF doLogin, ServerRestart, TokenExpires, vars
<1>10. ASSUME NEW r \in Runs, CancelAnswered(r) \/ ServeCancel(r) \/ Progress(r)
       PROVE  co' = co
    BY <1>10 DEF CancelAnswered, ServeCancel, Progress
<1>11. ASSUME NEW o \in Owners, DropTask(o) \/ cancelTask(o)
       PROVE  co' = co
    BY <1>11 DEF DropTask, cancelTask
<1> QED
    BY <1>3, <1>4, <1>5, <1>6, <1>7, <1>8, <1>9, <1>10, <1>11 DEF Next

(* The owner and the session of a task object.                              *)
LEMMA SameOwners ==
    ASSUME ConstantsFit, TypeOK, SessionInv, [Next]_vars
    PROVE  \/ \A r \in Runs : SameTask(r)
           \/ \E o \in Owners, r \in Runs, c \in Threads : Submits(o, r, c)
<1>1. LoopsKnowTheirTask
    BY DEF SessionInv
<1> QED
    BY <1>1, StepKinds DEF SessionEnds, LoopMoves, FollowsAgain, DropTask, StandsStill, SameTask

LEMMA FollowedBelongs ==
    ASSUME SessionInv, NEW c \in Threads, Mine(c)
    PROVE  /\ ts[co[c].run].owner = co[c].owner /\ task[co[c].owner] = co[c].run
           /\ co[c].run \in Runs /\ Active(c)
BY DEF Mine, SessionInv, LoopsKnowTheirTask, PanelFollowsItsTask

LEMMA SubmitKeepsOpen ==
    ASSUME ConstantsFit, TypeOK, SessionInv, ServerInv, SubmitInv,
           NEW o \in Owners, NEW r \in Runs, NEW c \in Threads, Submits(o, r, c)
    PROVE  SubmitInv'
<1>1. /\ co'[c].pc = "post" /\ co'[c].run = r /\ co'[c].outer = epoch
      /\ co[c].pc = "idle" /\ \A d \in Threads \ {c} : co'[d] = co[d]
      /\ ts'[r].owner = o /\ ts'[r].born = epoch /\ \A s \in Runs \ {r} : ts'[s] = ts[s]
      /\ ~executing[o] /\ UNCHANGED <<epoch, server>>
    BY DEF Submits
<1>2. ASSUME NEW s \in Runs \ {r}
      PROVE  /\ Open(s)' => Open(s)
             /\ ts'[s] = ts[s] /\ (GivenUp(s)' <=> GivenUp(s))
    <2>1. Posting(s)' => Posting(s)
        BY <1>1 DEF Posting
    <2> QED
        BY <1>1, <2>1 DEF Open, Unfinished, GivenUp
<1>3. Mine(c)' /\ \A d \in Threads \ {c} : Mine(d)' = Mine(d)
    BY <1>1 DEF Mine, Active
<1>4. OpenIsFollowed'
    <2> SUFFICES ASSUME NEW s \in Runs, Open(s)', ~GivenUp(s)', ts'[s].born = epoch'
                 PROVE  \E d \in Threads : Mine(d)' /\ co'[d].run = s
        BY DEF OpenIsFollowed
    <2>1. CASE s = r
        BY <1>1, <1>3, <2>1
    <2>2. CASE s # r
        <3>1. Open(s) /\ ~GivenUp(s) /\ ts[s].born = epoch
            BY <1>1, <1>2, <2>2
        <3>2. PICK d \in Threads : Mine(d) /\ co[d].run = s
            BY <3>1 DEF SubmitInv, OpenIsFollowed
        <3>3. d # c
            BY <1>1, <3>2 DEF Mine, Active
        <3> QED
            BY <1>1, <1>3, <3>2, <3>3
    <2> QED
        BY <2>1, <2>2
<1>5. ASSUME NEW s \in Runs \ {r}, Open(s)', ts'[s].owner = o, ts'[s].born = epoch
      PROVE  GivenUp(s)'
    <2> SUFFICES ASSUME ~GivenUp(s)
                 PROVE  FALSE
        BY <1>2
    <2>1. Open(s) /\ ts[s].born = epoch /\ ts[s].owner = o
        BY <1>2, <1>5
    <2>2. PICK d \in Threads : Mine(d) /\ co[d].run = s
        BY <2>1 DEF SubmitInv, OpenIsFollowed
    <2>3. co[d].owner = o
        BY <2>1, <2>2, FollowedBelongs
    <2> QED
        BY <1>1, <2>2, <2>3 DEF SessionInv, ExecutingIsWork
<1>6. OneIsOpen'
    <2> SUFFICES ASSUME NEW s \in Runs, NEW q \in Runs, s # q, Open(s)', Open(q)',
                        ts'[s].owner = ts'[q].owner, ts'[s].born = ts'[q].born
                 PROVE  GivenUp(s)' \/ GivenUp(q)'
        BY DEF OneIsOpen
    <2>1. CASE s = r
        BY <1>1, <1>5, <2>1
    <2>2. CASE q = r
        BY <1>1, <1>5, <2>2
    <2>3. CASE s # r /\ q # r
        BY <1>2, <2>3 DEF SubmitInv, OneIsOpen
    <2> QED
        BY <2>1, <2>2, <2>3
<1> QED
    BY <1>4, <1>6 DEF SubmitInv

LEMMA FollowKeepsOpen ==
    ASSUME ConstantsFit, TypeOK, SessionInv, ServerInv, SubmitInv, OpenFalls,
           NEW o \in Owners, NEW c \in Threads, FollowsAgain(o, c)
    PROVE  SubmitInv'
<1>1. PICK r \in Runs : r = task[o]
    BY DEF FollowsAgain
<1>2. /\ co'[c].pc = "ask" /\ co'[c].run = r /\ co'[c].outer = epoch
      /\ co[c].pc = "idle" /\ \A d \in Threads \ {c} : co'[d] = co[d]
    BY <1>1, IdleAndAsk DEF FollowsAgain
<1>3. /\ \A s \in Runs \ {r} : ts'[s] = ts[s]
      /\ \A s \in Runs : ts'[s].owner = ts[s].owner /\ ts'[s].born = ts[s].born
      /\ epoch' = epoch
    BY <1>1 DEF FollowsAgain, SameTask
<1>4. Mine(c)' /\ \A d \in Threads \ {c} : Mine(d)' = Mine(d)
    BY <1>2, <1>3 DEF Mine, Active
<1>5. ASSUME NEW s \in Runs \ {r}
      PROVE  GivenUp(s)' <=> GivenUp(s)
    BY <1>3 DEF GivenUp
<1>6. OpenIsFollowed'
    <2> SUFFICES ASSUME NEW s \in Runs, Open(s)', ~GivenUp(s)', ts'[s].born = epoch'
                 PROVE  \E d \in Threads : Mine(d)' /\ co'[d].run = s
        BY DEF OpenIsFollowed
    <2>1. CASE s = r
        BY <1>2, <1>4, <2>1
    <2>2. CASE s # r
        <3>1. Open(s) /\ ~GivenUp(s) /\ ts[s].born = epoch
            BY <1>3, <1>5, <2>2 DEF OpenFalls
        <3>2. PICK d \in Threads : Mine(d) /\ co[d].run = s
            BY <3>1 DEF SubmitInv, OpenIsFollowed
        <3>3. d # c
            BY <1>2, <3>2 DEF Mine, Active
        <3> QED
            BY <1>2, <1>4, <3>2, <3>3
    <2> QED
        BY <2>1, <2>2
<1>7. ASSUME NEW s \in Runs \ {r}, Open(s)', ts'[s].owner = ts'[r].owner, ts'[s].born = ts'[r].born
      PROVE  GivenUp(s)'
    <2> SUFFICES ASSUME ~GivenUp(s)
                 PROVE  FALSE
        BY <1>5
    <2>1. ts[r].owner = o /\ ts[r].born = epoch
        <3>1. task[o] # NoRun
            BY <1>1 DEF ConstantsFit
        <3> QED
            BY <1>1, <3>1 DEF SessionInv, TasksKnowTheirOwner, PanelsBelongToSession
    <2>2. Open(s) /\ ts[s].born = epoch /\ ts[s].owner = o
        BY <1>3, <1>7, <2>1 DEF OpenFalls
    <2>3. PICK d \in Threads : Mine(d) /\ co[d].run = s
        BY <2>2 DEF SubmitInv, OpenIsFollowed
    <2>4. task[o] = s
        BY <2>2, <2>3, FollowedBelongs
    <2> QED
        BY <1>1, <2>4
<1>8. OneIsOpen'
    <2> SUFFICES ASSUME NEW s \in Runs, NEW q \in Runs, s # q, Open(s)', Open(q)',
                        ts'[s].owner = ts'[q].owner, ts'[s].born = ts'[q].born
                 PROVE  GivenUp(s)' \/ GivenUp(q)'
        BY DEF OneIsOpen
    <2>1. CASE s = r
        BY <1>7, <2>1
    <2>2. CASE q = r
        BY <1>7, <2>2
    <2>3. CASE s # r /\ q # r
        <3>1. Open(s) /\ Open(q) /\ ts[s].owner = ts[q].owner /\ ts[s].born = ts[q].born
            BY <1>3 DEF OpenFalls
        <3> QED
            BY <1>5, <2>3, <3>1 DEF SubmitInv, OneIsOpen
    <2> QED
        BY <2>1, <2>2, <2>3
<1> QED
    BY <1>6, <1>8 DEF SubmitInv

LEMMA OtherKeepsOpen ==
    ASSUME ConstantsFit, TypeOK, SessionInv, ServerInv, SubmitInv, OpenFalls, GivesUp,
           \A r \in Runs : SameTask(r),
           \/ SessionEnds
           \/ \E c \in Threads : LoopMoves(c) /\ LeavesKnown(c)
           \/ UNCHANGED <<epoch, co>>
    PROVE  SubmitInv'
<1>1. OneIsOpen'
    BY DEF SubmitInv, OneIsOpen, OpenFalls, GivesUp, SameTask
<1>2. ASSUME NEW r \in Runs, Open(r)', ~GivenUp(r)', ts'[r].born = epoch'
      PROVE  \E d \in Threads : Mine(d)' /\ co'[d].run = r
    <2>1. Open(r) /\ ~GivenUp(r) /\ ts[r].born = epoch'
        BY <1>2 DEF OpenFalls, GivesUp, SameTask
    <2>2. epoch \in Nat /\ ts[r].born \in Nat /\ ts[r].born <= epoch
        BY Bounds DEF SessionInv
    <2>3. CASE SessionEnds
        BY <2>1, <2>2, <2>3 DEF SessionEnds
    <2>4. CASE UNCHANGED <<epoch, co>>
        BY <2>1, <2>4 DEF SubmitInv, OpenIsFollowed, Mine, Active
    <2>5. ASSUME NEW c \in Threads, LoopMoves(c), LeavesKnown(c)
          PROVE  \E d \in Threads : Mine(d)' /\ co'[d].run = r
        <3>1. epoch' = epoch /\ Kept(c) /\ \A d \in Threads \ {c} : co'[d] = co[d]
            BY <2>5 DEF LoopMoves
        <3>2. PICK d \in Threads : Mine(d) /\ co[d].run = r
            BY <2>1, <3>1 DEF SubmitInv, OpenIsFollowed
        <3>3. d = c => co'[c].pc # "idle"
            BY <1>2, <2>5, <3>2 DEF LeavesKnown
        <3>4. Mine(d)' /\ co'[d].run = r
            BY <3>1, <3>2, <3>3 DEF Kept, Mine, Active
        <3> QED
            BY <3>4
    <2> QED
        BY <2>3, <2>4, <2>5
<1>3. OpenIsFollowed'
    BY <1>2 DEF OpenIsFollowed
<1> QED
    BY <1>1, <1>3 DEF SubmitInv

LEMMA SubmitInvStep ==
    ASSUME ConstantsFit, TypeOK, SessionInv, ServerInv, SubmitInv, [Next]_vars
    PROVE  SubmitInv'
<1>1. CASE \E o \in Owners, r \in Runs, c \in Threads : Submits(o, r, c)
    BY <1>1, SubmitKeepsOpen
<1>2. CASE /\ OpenFalls
           /\ \E o \in Owners, c \in Threads : FollowsAgain(o, c)
    BY <1>2, FollowKeepsOpen
<1>3. CASE /\ OpenFalls /\ GivesUp
           /\ ~\E o \in Owners, r \in Runs, c \in Threads : Submits(o, r, c)
           /\ ~\E o \in Owners, c \in Threads : FollowsAgain(o, c)
    <2>1. \A r \in Runs : SameTask(r)
        BY <1>3, SameOwners
    <2>2. LoopsKnowTheirTask
        BY DEF SessionInv
    <2>3. \/ SessionEnds
          \/ \E c \in Threads : LoopMoves(c)
          \/ \E o \in Owners : DropTask(o)
          \/ StandsStill
        BY <1>3, <2>2, StepKinds
    <2>4. \/ SessionEnds
          \/ \E c \in Threads : LoopMoves(c) /\ LeavesKnown(c)
          \/ UNCHANGED <<epoch, co>>
        BY <2>3, LeavesKnownStep DEF DropTask, StandsStill, sessionVars
    <2> QED
        BY <1>3, <2>1, <2>4, OtherKeepsOpen
<1> QED
    BY <1>1, <1>2, <1>3, OpensFall, GivesUpStep

-----------------------------------------------------------------------------
(* The theorems *)

LEMMA TasksInit == ASSUME ConstantsFit, Init PROVE TasksInv
<1>1. TypeOK
    BY TypesInit
<1>2. \A c \in Threads : co[c].pc = "idle"
    BY NoThreadType DEF Init
<1>3. \A c \in Threads : ~Active(c) /\ ~Mine(c)
    BY <1>2 DEF Mine, Active
<1>4. \A r \in Runs : ts[r].owner = NoRun /\ ts[r].born = 0 /\ ts[r].status = "" /\ ~ts[r].cancelled
    BY DEF Init, NewTask
<1>5. \A r \in Runs : server[r].state = "none" /\ cancelReq[r].code = ""
    BY DEF Init, NoServerTask, NoRequest
<1>6. SessionInv
    <2>1. /\ epoch = 0 /\ \A o \in Owners : task[o] = NoRun /\ ~executing[o]
        BY DEF Init
    <2>2. LoopsKnowTheirTask /\ PanelFollowsItsTask
        BY <1>3 DEF LoopsKnowTheirTask, PanelFollowsItsTask
    <2>3. TasksKnowTheirOwner /\ PanelsBelongToSession
        <3>1. \A r \in Runs : ts[r].born <= epoch
            <4>1. \A r \in Runs : ts[r].born = 0
                BY <1>4
            <4>2. epoch = 0
                BY <2>1
            <4> QED
                BY <4>1, <4>2
        <3> QED
            BY <2>1, <3>1 DEF TasksKnowTheirOwner, PanelsBelongToSession
    <2>4. ExecutingIsWork
        BY <1>3, <2>1 DEF ExecutingIsWork
    <2> QED
        BY <2>2, <2>3, <2>4 DEF SessionInv
<1>7. ReportsAreOld
    BY <1>2, <1>4, <1>5 DEF ReportsAreOld, Behind
<1>8. ServerInv
    BY <1>2, <1>4, <1>5, <1>7 DEF Init, ServerInv, PostsAreNew, UnsentIsUnknown, CancelsReached,
                                  CancellingIsTrue
<1>9. \A r \in Runs : ~Open(r)
    BY <1>2, <1>5 DEF Open, Unfinished, Posting
<1>10. SubmitInv
    BY <1>9 DEF SubmitInv, OpenIsFollowed, OneIsOpen
<1> QED
    BY <1>1, <1>6, <1>8, <1>10 DEF TasksInv

LEMMA TasksStep == ASSUME ConstantsFit, TasksInv, [Next]_vars PROVE TasksInv'
<1>1. TypeOK /\ SessionInv /\ ServerInv /\ SubmitInv /\ LoopsKnowTheirTask
    BY DEF TasksInv, SessionInv
<1> QED
    BY <1>1, TypesStep, SessionInvStep, ServerInvStep, SubmitInvStep DEF TasksInv

LEMMA TasksTrue == ASSUME TasksInv PROVE PanelsTellTheTruth
<1>1. NoDoubleSubmit
    BY DEF TasksInv, SubmitInv, OneIsOpen, NoDoubleSubmit, Open
<1> QED
    BY <1>1 DEF TasksInv, SessionInv, ServerInv, PanelsTellTheTruth

(* A step shows of a task what it showed or what the server answered since. *)
LEMMA StepsGoForward == ASSUME ConstantsFit, TasksInv, [Next]_vars PROVE Later \/ ts' = ts
<1>1. TypeOK /\ SessionInv /\ ServerInv
    BY DEF TasksInv
<1>2. \A r \in Runs : StatusRank(ts[r].status) \in Nat
    BY DEF StatusRank
<1>3. ASSUME \A r \in Runs : SameReport(r)
      PROVE  Later
    <2>1. \A r \in Runs : StatusRank(ts'[r].status) = StatusRank(ts[r].status)
        BY <1>3 DEF SameReport
    <2> QED
        BY <1>2, <1>3, <2>1 DEF Later, SameReport
<1>4. ASSUME NEW c \in Threads, Reports(c)
      PROVE  Later
    <2>1. PICK r \in Runs : r = co[c].run
        BY <1>1, <1>4 DEF Reports, Active, SessionInv, LoopsKnowTheirTask
    <2>2. /\ StatusRank(ts[r].status) <= StatusRank(co[c].answer.status)
          /\ ts[r].cancelled => co[c].answer.cancelled
        BY <1>1, <1>4, <2>1 DEF Reports, ServerInv, ReportsAreOld
    <2>3. ts'[r].status = co[c].answer.status /\ ts'[r].cancelled = co[c].answer.cancelled
        BY <1>4, <2>1 DEF Reports
    <2>4. \A s \in Runs \ {r} : ts'[s] = ts[s]
        BY <1>4, <2>1 DEF Reports
    <2>5. StatusRank(co[c].answer.status) \in Nat
        BY DEF StatusRank
    <2>6. StatusRank(ts'[r].status) >= StatusRank(ts[r].status) /\ (ts[r].cancelled => ts'[r].cancelled)
        BY <1>2, <2>2, <2>3, <2>5
    <2>7. \A s \in Runs \ {r} : /\ StatusRank(ts'[s].status) >= StatusRank(ts[s].status)
                                /\ ts[s].cancelled => ts'[s].cancelled
        BY <1>2, <2>4
    <2> QED
        BY <2>6, <2>7 DEF Later
<1>5. ASSUME NEW o \in Owners, NEW r \in Runs, NEW c \in Threads, Submits(o, r, c)
      PROVE  Later
    <2>1. server[r].state = "none"
        BY <1>1, <1>5 DEF Submits, ServerInv, UnsentIsUnknown
    <2>2. ts[r].status = "" /\ ~ts[r].cancelled
        BY <1>1, <2>1 DEF ServerInv, ReportsAreOld, Behind
    <2>3. ts'[r].status = ts[r].status
        BY <1>5, <2>2 DEF Submits
    <2>4. \A s \in Runs \ {r} : ts'[s] = ts[s]
        BY <1>5 DEF Submits
    <2>5. \A s \in Runs \ {r} : /\ StatusRank(ts'[s].status) >= StatusRank(ts[s].status)
                                /\ ts[s].cancelled => ts'[s].cancelled
        BY <1>2, <2>4
    <2>6. StatusRank(ts'[r].status) >= StatusRank(ts[r].status)
        BY <1>2, <2>3
    <2> QED
        BY <2>2, <2>5, <2>6 DEF Later
<1>6. CASE Calm
    BY <1>3, <1>6 DEF Calm
<1>7. ASSUME NEW c \in Threads, SaysStatus(c) \/ Accepts(c)
      PROVE  ts' = ts
    BY <1>7 DEF SaysStatus, Accepts, Says
<1> QED
    BY <1>1, <1>4, <1>5, <1>6, <1>7, ServerKinds

-----------------------------------------------------------------------------
(* BrowserOverrides *)

LEMMA OverridesSize ==
    \A S : Overrides!Cardinality(S) = Cardinality(S) /\ (Overrides!IsFiniteSet(S) <=> IsFiniteSet(S))
  BY DEF Overrides!Cardinality, Cardinality, Overrides!IsFiniteSet, IsFiniteSet

RowType == [shown : Values, orig : Values]
SaverType ==
    [pc : {"idle", "sent", "served"}, rest : Seq(Rows), sent : Values, held : {<<>>} \cup Overrides!RowValues]

(* A save works on the rows shown, and has had an answer stored.            *)
Answering(v, r) == Overrides!Attached(v) /\ saver[v].pc = "served" /\ Overrides!Current(v) = r

(* What a row was stamped with is stored, but for a row whose save has been *)
(* served and not yet answered.                                             *)
StampsAreStored ==
    \A r \in DOMAIN overridesTable \ (lost \cup raced) :
        Overrides!InStore(overridesTable[r].orig, r) \/ (\E v \in Savers : Answering(v, r))

(* The request that is out carries what its row shows, and is stored once   *)
(* it is served.                                                            *)
RequestIsCurrent ==
    \A v \in Savers : Overrides!Attached(v) /\ Overrides!Current(v) \notin raced =>
        /\ saver[v].sent = overridesTable[Overrides!Current(v)].shown
        /\ saver[v].pc = "served" => overridesStored[Overrides!Current(v)] = saver[v].sent

(* Only rows that were edited are changed, sent and stored.                 *)
OnlyEdited ==
    /\ Overrides!Unsaved \subseteq touched
    /\ \A v \in Savers : saver[v].pc # "idle" => \A i \in 1..Len(saver[v].rest) : saver[v].rest[i] \in touched

TableTyped == overridesTable \in [DOMAIN overridesTable -> RowType] /\ DOMAIN overridesTable \in {{}, Rows}

SaversTyped ==
    /\ saver \in [Savers -> SaverType]
    /\ \A v \in Savers : saver[v].pc # "idle" => saver[v].rest # <<>>
    /\ \A v \in Savers : Overrides!Attached(v) => DOMAIN overridesTable = Rows

OverridesTyped ==
    /\ overridesStored \in Overrides!RowValues
    /\ derive \in [Derivers -> [pc : {"idle", "sent", "served"}, rows : Overrides!RowValues]]
    /\ saving \in BOOLEAN /\ loading \in BOOLEAN
    /\ overridesEpoch \in 0..MaxEpoch /\ edits \in 0..MaxEdits
    /\ touched \subseteq Rows /\ lost \subseteq Rows /\ raced \subseteq Rows

OverridesInv ==
    /\ TableTyped /\ SaversTyped /\ OverridesTyped
    /\ StampsAreStored /\ RequestIsCurrent /\ OnlyEdited /\ Overrides!OnlyEditedRowsAreOverridden

LEMMA NothingUnchanged ==
    ASSUME OverridesInv, UNCHANGED Overrides!vars
    PROVE  OverridesInv'
<1>1. UNCHANGED <<overridesStored, overridesTable, saver, saving, derive, loading, overridesEpoch, edits, touched, lost, raced>>
  BY DEF Overrides!vars, Overrides!ghosts
<1>2. TableTyped' /\ SaversTyped' /\ OverridesTyped'
  BY <1>1 DEF OverridesInv, TableTyped, SaversTyped, OverridesTyped, Overrides!Attached, Overrides!RowValues, SaverType
<1>3. StampsAreStored'
  BY <1>1 DEF OverridesInv, StampsAreStored, Answering, Overrides!Attached, Overrides!Current, Overrides!InStore
<1>4. RequestIsCurrent'
  BY <1>1 DEF OverridesInv, RequestIsCurrent, Overrides!Attached, Overrides!Current
<1>5. OnlyEdited' /\ Overrides!OnlyEditedRowsAreOverridden'
  BY <1>1 DEF OverridesInv, OnlyEdited, Overrides!OnlyEditedRowsAreOverridden, Overrides!Unsaved, Overrides!Changed
<1> QED
  BY <1>2, <1>3, <1>4, <1>5 DEF OverridesInv

(* A value that is stored has its effect among the values.                  *)
LEMMA EffectiveRows ==
    ASSUME Overrides!ConstantsFit, overridesStored \in Overrides!RowValues
    PROVE  [r \in Rows |-> Overrides!Effective(overridesStored[r])] \in Overrides!RowValues
  BY DEF Overrides!ConstantsFit, Overrides!RowValues, Overrides!Effective

LEMMA NoSaveTyped ==
    ASSUME Overrides!ConstantsFit
    PROVE  Overrides!NoSave \in SaverType /\ Overrides!NoSave.pc = "idle" /\ Overrides!NoSave.pc # "served"
<1>1. Overrides!NoSave = [pc |-> "idle", rest |-> <<>>, sent |-> Base, held |-> <<>>] /\ Base \in Values
  BY DEF Overrides!NoSave, Overrides!ConstantsFit
<1>2. <<>> \in Seq(Rows)
  OBVIOUS
<1> QED
  BY <1>1, <1>2 DEF SaverType

LEMMA NoDeriveTyped ==
    ASSUME Overrides!ConstantsFit
    PROVE  Overrides!NoDerive \in [pc : {"idle", "sent", "served"}, rows : Overrides!RowValues]
<1>1. [r \in Rows |-> Base] \in Overrides!RowValues
  BY DEF Overrides!RowValues, Overrides!ConstantsFit
<1> QED
  BY <1>1 DEF Overrides!NoDerive

(* The current row of a save is a row that was edited.                      *)
LEMMA CurrentTyped ==
    ASSUME SaversTyped, OnlyEdited, NEW v \in Savers, saver[v].pc # "idle"
    PROVE  /\ saver[v].rest \in Seq(Rows) /\ saver[v].rest # <<>>
           /\ Overrides!Current(v) \in Rows /\ Overrides!Current(v) \in touched
<1>1. saver[v].rest \in Seq(Rows) /\ saver[v].rest # <<>>
  BY DEF SaversTyped, SaverType
<1>2. \A i \in 1..Len(saver[v].rest) : saver[v].rest[i] \in touched
  BY DEF OnlyEdited
<1>3. Head(saver[v].rest) = saver[v].rest[1] /\ 1 \in 1..Len(saver[v].rest) /\ Head(saver[v].rest) \in Rows
  BY <1>1
<1> QED
  BY <1>1, <1>2, <1>3 DEF Overrides!Current

LEMMA AttachedIsBusy ==
    ASSUME NEW v \in Savers, Overrides!Attached(v)
    PROVE  saver[v].pc # "idle"
  BY DEF Overrides!Attached

(* One save takes a step: the others stay as they are.                      *)
LEMMA OneSaves ==
    ASSUME SaversTyped, NEW v \in Savers, NEW x \in SaverType, x.pc # "idle" => x.rest # <<>>,
           saver' = [saver EXCEPT ![v] = x], DOMAIN overridesTable' = DOMAIN overridesTable,
           x.pc # "idle" /\ x.held = <<>> => DOMAIN overridesTable = Rows
    PROVE  /\ SaversTyped' /\ saver'[v] = x
           /\ \A w \in Savers : w # v => /\ saver'[w] = saver[w]
                                         /\ Overrides!Attached(w)' <=> Overrides!Attached(w)
                                         /\ Overrides!Current(w)' = Overrides!Current(w)
<1>1. /\ saver' \in [Savers -> SaverType] /\ saver'[v] = x
      /\ \A w \in Savers : w # v => saver'[w] = saver[w]
  BY DEF SaversTyped
<1>2. \A w \in Savers : w # v => /\ Overrides!Attached(w)' <=> Overrides!Attached(w)
                                 /\ Overrides!Current(w)' = Overrides!Current(w)
  BY <1>1 DEF Overrides!Attached, Overrides!Current
<1>3. \A w \in Savers : saver'[w].pc # "idle" => saver'[w].rest # <<>>
  BY <1>1 DEF SaversTyped
<1>4. \A w \in Savers : Overrides!Attached(w)' => DOMAIN overridesTable' = Rows
  <2>1. Overrides!Attached(v)' => DOMAIN overridesTable' = Rows
    BY <1>1 DEF Overrides!Attached
  <2>2. \A w \in Savers : w # v /\ Overrides!Attached(w)' => DOMAIN overridesTable' = Rows
    BY <1>2 DEF SaversTyped
  <2> QED
    BY <2>1, <2>2
<1> QED
  BY <1>1, <1>2, <1>3, <1>4 DEF SaversTyped

(* Once a table is replaced, no save works on the rows that are shown.      *)
LEMMA NoneIsAttached ==
    ASSUME TableTyped, SaversTyped, OnlyEdited, saver' = Overrides!Detached
    PROVE  /\ SaversTyped'
           /\ \A v \in Savers : /\ ~Overrides!Attached(v)'
                                /\ saver'[v].pc = saver[v].pc /\ saver'[v].rest = saver[v].rest
<1> DEFINE objects == [r \in DOMAIN overridesTable |-> overridesTable[r].shown]
<1>1. saver' = [v \in Savers |-> IF Overrides!Attached(v) THEN [saver[v] EXCEPT !.held = objects] ELSE saver[v]]
  BY DEF Overrides!Detached
<1>2. ASSUME NEW v \in Savers
      PROVE  /\ saver'[v] \in SaverType /\ saver'[v].pc = saver[v].pc /\ saver'[v].rest = saver[v].rest
             /\ ~Overrides!Attached(v)'
  <2>0. saver[v] \in SaverType
    BY DEF SaversTyped
  <2>1. CASE Overrides!Attached(v)
    <3>1. DOMAIN overridesTable = Rows /\ Rows # {}
      BY <2>1, CurrentTyped, AttachedIsBusy DEF SaversTyped
    <3>2. objects \in Overrides!RowValues
      BY <3>1 DEF TableTyped, RowType, Overrides!RowValues
    <3>3. objects # <<>>
      <4>1. DOMAIN objects # {}
        BY <3>1
      <4>2. DOMAIN <<>> = {}
        OBVIOUS
      <4> HIDE DEF objects
      <4> QED
        BY <4>1, <4>2
    <3> HIDE DEF objects
    <3>4. saver'[v] = [saver[v] EXCEPT !.held = objects]
      BY <1>1, <2>1
    <3>5. /\ saver'[v].pc = saver[v].pc /\ saver'[v].rest = saver[v].rest /\ saver'[v].held = objects
      BY <2>0, <3>4 DEF SaverType
    <3>6. saver'[v] \in SaverType
      BY <2>0, <3>2, <3>4 DEF SaverType
    <3>7. ~Overrides!Attached(v)'
      BY <3>3, <3>5 DEF Overrides!Attached
    <3> QED
      BY <3>5, <3>6, <3>7
  <2>2. CASE ~Overrides!Attached(v)
    <3>1. saver'[v] = saver[v]
      BY <1>1, <2>2
    <3>2. ~Overrides!Attached(v)'
      BY <2>2, <3>1 DEF Overrides!Attached
    <3> QED
      BY <2>0, <3>1, <3>2
  <2> QED
    BY <2>1, <2>2
<1>3. saver' = [v \in Savers |-> saver'[v]]
  BY <1>1
<1>4. saver' \in [Savers -> SaverType]
  BY <1>2, <1>3
<1>5. \A v \in Savers : saver'[v].pc # "idle" => saver'[v].rest # <<>>
  BY <1>2 DEF SaversTyped
<1> QED
  BY <1>2, <1>4, <1>5 DEF SaversTyped

LEMMA OverridesInit == Overrides!ConstantsFit /\ Overrides!Init => OverridesInv
<1> SUFFICES ASSUME Overrides!ConstantsFit, Overrides!Init PROVE OverridesInv
  OBVIOUS
<1>1. /\ saver = [v \in Savers |-> Overrides!NoSave] /\ overridesTable = <<>>
      /\ derive = [d \in Derivers |-> Overrides!NoDerive]
      /\ touched = {} /\ lost = {} /\ raced = {}
  BY DEF Overrides!Init
<1>2. overridesStored \in Overrides!RowValues /\ (\A r \in Rows : overridesStored[r] = Emptied)
  <2>1. Emptied \in Values
    BY DEF Overrides!ConstantsFit
  <2> QED
    BY <2>1 DEF Overrides!Init, Overrides!RowValues
<1>3. DOMAIN overridesTable = {} /\ TableTyped
  <2>1. DOMAIN overridesTable = {}
    BY <1>1
  <2>2. overridesTable \in [{} -> RowType]
    BY <1>1
  <2> QED
    BY <2>1, <2>2 DEF TableTyped
<1>4. \A v \in Savers : saver[v] \in SaverType /\ saver[v].pc = "idle" /\ ~Overrides!Attached(v)
  BY <1>1, NoSaveTyped DEF Overrides!Attached
<1>5. SaversTyped
  <2>1. saver \in [Savers -> SaverType]
    BY <1>1, NoSaveTyped
  <2> QED
    BY <1>4, <2>1 DEF SaversTyped
<1>6. overridesEpoch \in 0..MaxEpoch /\ edits \in 0..MaxEdits
  <2>1. overridesEpoch = 0 /\ edits = 0
    BY DEF Overrides!Init
  <2>2. MaxEpoch \in Nat /\ MaxEdits \in Nat
    BY DEF Overrides!ConstantsFit
  <2> QED
    BY <2>1, <2>2
<1>7. OverridesTyped
  <2>1. saving \in BOOLEAN /\ loading \in BOOLEAN
    BY DEF Overrides!Init
  <2>2. derive \in [Derivers -> [pc : {"idle", "sent", "served"}, rows : Overrides!RowValues]]
    BY <1>1, NoDeriveTyped
  <2> QED
    BY <1>1, <1>2, <1>6, <2>1, <2>2 DEF OverridesTyped
<1>8. StampsAreStored /\ RequestIsCurrent /\ OnlyEdited
  BY <1>3, <1>4 DEF StampsAreStored, RequestIsCurrent, OnlyEdited, Overrides!Unsaved
<1>9. Overrides!OnlyEditedRowsAreOverridden
  BY <1>2 DEF Overrides!OnlyEditedRowsAreOverridden
<1> QED
  BY <1>3, <1>5, <1>7, <1>8, <1>9 DEF OverridesInv

LEMMA EditStep ==
    ASSUME Overrides!ConstantsFit, OverridesInv, NEW r \in Rows, NEW value \in Values, Overrides!Edit(r, value)
    PROVE  OverridesInv'
<1>0. /\ TableTyped /\ SaversTyped /\ OverridesTyped
      /\ StampsAreStored /\ RequestIsCurrent /\ OnlyEdited /\ Overrides!OnlyEditedRowsAreOverridden
  BY DEF OverridesInv
<1> DEFINE meets == \E v \in Savers : Overrides!Attached(v) /\ Overrides!Current(v) = r
<1>1. /\ UNCHANGED <<overridesStored, saver, saving, derive, loading, overridesEpoch, lost>>
      /\ edits < MaxEdits /\ edits' = edits + 1 /\ r \in DOMAIN overridesTable
      /\ touched' = touched \cup {r}
      /\ overridesTable' = [overridesTable EXCEPT ![r].shown = value]
      /\ raced' = IF meets THEN raced \cup {r} ELSE raced
  BY DEF Overrides!Edit
<1>2. /\ DOMAIN overridesTable' = DOMAIN overridesTable
      /\ overridesTable' \in [DOMAIN overridesTable -> RowType]
      /\ \A q \in DOMAIN overridesTable : /\ overridesTable'[q].orig = overridesTable[q].orig
                                          /\ q # r => overridesTable'[q].shown = overridesTable[q].shown
  BY <1>0, <1>1 DEF TableTyped, RowType
<1>3. edits' \in 0..MaxEdits
  BY <1>0, <1>1 DEF OverridesTyped, Overrides!ConstantsFit
<1>4. raced' \subseteq Rows /\ raced \subseteq raced' /\ (meets => r \in raced')
  BY <1>0, <1>1 DEF OverridesTyped
<1>5. \A v \in Savers : (Overrides!Attached(v)' <=> Overrides!Attached(v)) /\ Overrides!Current(v)' = Overrides!Current(v)
  BY <1>1 DEF Overrides!Attached, Overrides!Current
<1>6. TableTyped' /\ SaversTyped' /\ OverridesTyped'
  <2>1. TableTyped'
    BY <1>0, <1>2 DEF TableTyped, RowType
  <2>2. SaversTyped'
    BY <1>0, <1>1, <1>2, <1>5 DEF SaversTyped, SaverType, Overrides!RowValues
  <2>3. OverridesTyped'
    BY <1>0, <1>1, <1>3, <1>4 DEF OverridesTyped, Overrides!RowValues
  <2> QED
    BY <2>1, <2>2, <2>3
<1> HIDE DEF meets
<1>7. StampsAreStored'
  <2> SUFFICES ASSUME NEW q \in DOMAIN overridesTable, q \notin lost, q \notin raced'
               PROVE  Overrides!InStore(overridesTable[q].orig, q)' \/ \E v \in Savers : Answering(v, q)'
    BY <1>1, <1>2 DEF StampsAreStored
  <2>1. Overrides!InStore(overridesTable[q].orig, q) \/ \E v \in Savers : Answering(v, q)
    BY <1>0, <1>4 DEF StampsAreStored
  <2>2. \A v \in Savers : Answering(v, q) => Answering(v, q)'
    BY <1>1, <1>5 DEF Answering
  <2> QED
    BY <1>1, <1>2, <2>1, <2>2 DEF Overrides!InStore
<1>8. RequestIsCurrent'
  <2> SUFFICES ASSUME NEW v \in Savers, Overrides!Attached(v), Overrides!Current(v) \notin raced'
               PROVE  /\ saver[v].sent = overridesTable'[Overrides!Current(v)].shown
                      /\ saver[v].pc = "served" => overridesStored[Overrides!Current(v)] = saver[v].sent
    BY <1>1, <1>5 DEF RequestIsCurrent
  <2>1. Overrides!Current(v) # r /\ Overrides!Current(v) \notin raced
    BY <1>4 DEF meets
  <2>2. Overrides!Current(v) \in DOMAIN overridesTable
    BY <1>0, CurrentTyped, AttachedIsBusy DEF SaversTyped
  <2> QED
    BY <1>0, <1>2, <2>1, <2>2 DEF RequestIsCurrent
<1>9. OnlyEdited'
  BY <1>0, <1>1, <1>2 DEF OnlyEdited, Overrides!Unsaved, Overrides!Changed
<1>10. Overrides!OnlyEditedRowsAreOverridden'
  BY <1>0, <1>1 DEF Overrides!OnlyEditedRowsAreOverridden
<1> QED
  BY <1>6, <1>7, <1>8, <1>9, <1>10 DEF OverridesInv

(* A step of a derivation that leaves the rows alone.                       *)
LEMMA DerivationStep ==
    ASSUME OverridesInv, UNCHANGED <<overridesStored, overridesTable, saver, saving, overridesEpoch, Overrides!ghosts>>,
           loading' \in BOOLEAN,
           derive' \in [Derivers -> [pc : {"idle", "sent", "served"}, rows : Overrides!RowValues]]
    PROVE  OverridesInv'
<1>1. UNCHANGED <<overridesStored, overridesTable, saver, saving, overridesEpoch, edits, touched, lost, raced>>
  BY DEF Overrides!ghosts
<1>2. TableTyped' /\ SaversTyped' /\ OverridesTyped'
  BY <1>1 DEF OverridesInv, TableTyped, SaversTyped, OverridesTyped, Overrides!Attached, Overrides!RowValues, SaverType
<1>3. StampsAreStored'
  BY <1>1 DEF OverridesInv, StampsAreStored, Answering, Overrides!Attached, Overrides!Current, Overrides!InStore
<1>4. RequestIsCurrent'
  BY <1>1 DEF OverridesInv, RequestIsCurrent, Overrides!Attached, Overrides!Current
<1>5. OnlyEdited' /\ Overrides!OnlyEditedRowsAreOverridden'
  BY <1>1 DEF OverridesInv, OnlyEdited, Overrides!OnlyEditedRowsAreOverridden, Overrides!Unsaved, Overrides!Changed
<1> QED
  BY <1>2, <1>3, <1>4, <1>5 DEF OverridesInv

LEMMA DerivesTyped ==
    ASSUME Overrides!ConstantsFit, OverridesTyped, Overrides!StartDerive
    PROVE  /\ derive' \in [Derivers -> [pc : {"idle", "sent", "served"}, rows : Overrides!RowValues]]
           /\ loading' = TRUE
  BY DEF OverridesTyped, Overrides!StartDerive

LEMMA DeriveStep ==
    ASSUME Overrides!ConstantsFit, OverridesInv,
           Overrides!Derive \/ \E d \in Derivers : Overrides!ServeDerive(d) \/ Overrides!DeriveFails(d)
    PROVE  OverridesInv'
<1>0. OverridesTyped
  BY DEF OverridesInv
<1>1. CASE Overrides!Derive
  <2>1. Overrides!StartDerive /\ UNCHANGED <<overridesStored, overridesTable, saver, saving, overridesEpoch, Overrides!ghosts>>
    BY <1>1 DEF Overrides!Derive
  <2> QED
    BY <1>0, <2>1, DerivesTyped, DerivationStep
<1>2. ASSUME NEW d \in Derivers, Overrides!ServeDerive(d) PROVE OverridesInv'
  <2> DEFINE new == [r \in Rows |-> Overrides!Effective(overridesStored[r])]
  <2>1. new \in Overrides!RowValues
    BY <1>0, EffectiveRows DEF OverridesTyped
  <2>2. /\ derive' = [derive EXCEPT ![d].pc = "served", ![d].rows = new]
        /\ UNCHANGED <<overridesStored, overridesTable, saver, saving, overridesEpoch, Overrides!ghosts>> /\ loading' = loading
    BY <1>2 DEF Overrides!ServeDerive
  <2> HIDE DEF new
  <2>3. derive' \in [Derivers -> [pc : {"idle", "sent", "served"}, rows : Overrides!RowValues]]
    BY <1>0, <2>1, <2>2 DEF OverridesTyped
  <2> QED
    BY <1>0, <2>2, <2>3, DerivationStep DEF OverridesTyped
<1>3. ASSUME NEW d \in Derivers, Overrides!DeriveFails(d) PROVE OverridesInv'
  <2>1. derive' = [derive EXCEPT ![d] = Overrides!NoDerive]
        /\ UNCHANGED <<overridesStored, overridesTable, saver, saving, overridesEpoch, Overrides!ghosts>> /\ loading' = FALSE
    BY <1>3 DEF Overrides!DeriveFails
  <2>2. derive' \in [Derivers -> [pc : {"idle", "sent", "served"}, rows : Overrides!RowValues]]
    BY <1>0, <2>1, NoDeriveTyped DEF OverridesTyped
  <2> QED
    BY <2>1, <2>2, DerivationStep
<1> QED
  BY <1>1, <1>2, <1>3

LEMMA SaveAllStep ==
    ASSUME Overrides!ConstantsFit, OverridesInv, Overrides!SaveAll
    PROVE  OverridesInv'
<1>0. /\ TableTyped /\ SaversTyped /\ OverridesTyped
      /\ StampsAreStored /\ RequestIsCurrent /\ OnlyEdited /\ Overrides!OnlyEditedRowsAreOverridden
  BY DEF OverridesInv
<1>1. PICK v \in Savers, order \in Overrides!Injection(1..Overrides!Cardinality(Overrides!Unsaved), Overrides!Unsaved) :
          /\ saver[v].pc = "idle"
          /\ saver' = [saver EXCEPT ![v] = [pc |-> "sent", rest |-> order, sent |-> overridesTable[Head(order)].shown,
                                            held |-> <<>>]]
  BY DEF Overrides!SaveAll
<1>2. /\ UNCHANGED <<overridesStored, overridesTable, derive, loading, overridesEpoch, edits, touched, lost, raced>>
      /\ Overrides!Unsaved # {} /\ saving' \in BOOLEAN
  BY DEF Overrides!SaveAll, Overrides!ghosts
<1>3. DOMAIN overridesTable = Rows
  BY <1>0, <1>2 DEF TableTyped, Overrides!Unsaved
<1>4. order \in Seq(Overrides!Unsaved) /\ Len(order) # 0
  <2>1. IsFiniteSet(Overrides!Unsaved)
    BY <1>3, OverridesSize, FS_Subset DEF Overrides!ConstantsFit, Overrides!Unsaved
  <2>2. Overrides!Cardinality(Overrides!Unsaved) \in Nat /\ Overrides!Cardinality(Overrides!Unsaved) # 0
    BY <1>2, <2>1, OverridesSize, FS_CardinalityType, FS_EmptySet
  <2>3. order \in [1..Overrides!Cardinality(Overrides!Unsaved) -> Overrides!Unsaved]
    BY <1>1 DEF Overrides!Injection
  <2> QED
    BY <2>2, <2>3
<1>5. /\ order \in Seq(Rows) /\ order # <<>> /\ Head(order) \in Rows
      /\ \A i \in 1..Len(order) : order[i] \in Overrides!Unsaved
  BY <1>3, <1>4 DEF Overrides!Unsaved
<1> DEFINE x == [pc |-> "sent", rest |-> order, sent |-> overridesTable[Head(order)].shown, held |-> <<>>]
<1>6. /\ x \in SaverType /\ x.pc = "sent" /\ x.rest = order /\ x.sent = overridesTable[Head(order)].shown /\ x.held = <<>>
  <2>1. overridesTable[Head(order)].shown \in Values
    BY <1>0, <1>3, <1>5 DEF TableTyped, RowType
  <2> HIDE DEF Overrides!RowValues
  <2> QED
    BY <1>5, <2>1 DEF SaverType
<1>7. saver' = [saver EXCEPT ![v] = x]
  BY <1>1
<1> HIDE DEF x
<1>8. /\ SaversTyped' /\ saver'[v] = x
      /\ \A w \in Savers : w # v => /\ saver'[w] = saver[w]
                                    /\ Overrides!Attached(w)' <=> Overrides!Attached(w)
                                    /\ Overrides!Current(w)' = Overrides!Current(w)
  <2>1. DOMAIN overridesTable' = DOMAIN overridesTable
    BY <1>2
  <2>2. x.pc # "idle" => x.rest # <<>>
    BY <1>5, <1>6
  <2> QED
    BY <1>0, <1>3, <1>6, <1>7, <2>1, <2>2, OneSaves
<1>9. TableTyped' /\ OverridesTyped'
  BY <1>0, <1>2 DEF TableTyped, OverridesTyped, Overrides!RowValues
<1>10. StampsAreStored'
  <2>1. ~Overrides!Attached(v)
    BY <1>1 DEF Overrides!Attached
  <2>2. \A w \in Savers, q \in Rows : Answering(w, q) => Answering(w, q)'
    BY <1>8, <2>1 DEF Answering
  <2> QED
    BY <1>0, <1>2, <1>3, <2>2 DEF StampsAreStored, Overrides!InStore
<1>11. RequestIsCurrent'
  <2>1. Overrides!Current(v)' = Head(order)
    BY <1>6, <1>8 DEF Overrides!Current
  <2> QED
    BY <1>0, <1>2, <1>6, <1>8, <2>1 DEF RequestIsCurrent
<1>12. OnlyEdited'
  <2>1. \A i \in 1..Len(order) : order[i] \in touched
    BY <1>0, <1>5 DEF OnlyEdited
  <2>2. \A w \in Savers : saver'[w].pc # "idle" => \A i \in 1..Len(saver'[w].rest) : saver'[w].rest[i] \in touched
    BY <1>0, <1>6, <1>8, <2>1 DEF OnlyEdited
  <2>3. Overrides!Unsaved' = Overrides!Unsaved
    BY <1>2 DEF Overrides!Unsaved, Overrides!Changed
  <2> QED
    BY <1>0, <1>2, <2>2, <2>3 DEF OnlyEdited
<1>13. Overrides!OnlyEditedRowsAreOverridden'
  BY <1>0, <1>2 DEF Overrides!OnlyEditedRowsAreOverridden
<1> QED
  BY <1>8, <1>9, <1>10, <1>11, <1>12, <1>13 DEF OverridesInv

LEMMA ServeSaveStep ==
    ASSUME OverridesInv, NEW v \in Savers, Overrides!ServeSave(v)
    PROVE  OverridesInv'
<1>0. /\ TableTyped /\ SaversTyped /\ OverridesTyped
      /\ StampsAreStored /\ RequestIsCurrent /\ OnlyEdited /\ Overrides!OnlyEditedRowsAreOverridden
  BY DEF OverridesInv
<1> DEFINE x == [saver[v] EXCEPT !.pc = "served"]
           row == Overrides!Current(v)
<1>1. /\ UNCHANGED <<overridesTable, saving, derive, loading, overridesEpoch, edits, touched, lost>>
      /\ saver[v].pc = "sent"
      /\ overridesStored' = [overridesStored EXCEPT ![row] = saver[v].sent]
      /\ raced' = IF Overrides!Attached(v) THEN raced ELSE raced \cup {row}
  BY DEF Overrides!ServeSave
<1>2. saver[v] \in SaverType
  BY <1>0 DEF SaversTyped
<1>3. saver' = [saver EXCEPT ![v] = x]
  BY <1>0 DEF Overrides!ServeSave, SaversTyped
<1>4. x \in SaverType /\ x.pc = "served" /\ x.rest = saver[v].rest /\ x.sent = saver[v].sent /\ x.held = saver[v].held
  BY <1>2 DEF SaverType
<1> HIDE DEF x
<1>5. row \in Rows /\ row \in touched
  BY <1>0, <1>1, CurrentTyped
<1>6. /\ SaversTyped' /\ saver'[v] = x
      /\ \A w \in Savers : w # v => /\ saver'[w] = saver[w]
                                    /\ Overrides!Attached(w)' <=> Overrides!Attached(w)
                                    /\ Overrides!Current(w)' = Overrides!Current(w)
  <2>1. x.pc # "idle" => x.rest # <<>>
    BY <1>0, <1>1, <1>4 DEF SaversTyped
  <2>2. x.pc # "idle" /\ x.held = <<>> => DOMAIN overridesTable = Rows
    BY <1>0, <1>1, <1>4 DEF SaversTyped, Overrides!Attached
  <2>3. DOMAIN overridesTable' = DOMAIN overridesTable
    BY <1>1
  <2> QED
    BY <1>0, <1>3, <1>4, <2>1, <2>2, <2>3, OneSaves
<1>7. /\ \A w \in Savers : (Overrides!Attached(w)' <=> Overrides!Attached(w)) /\ Overrides!Current(w)' = Overrides!Current(w)
      /\ \A w \in Savers : saver'[w].sent = saver[w].sent
  <2>1. (Overrides!Attached(v)' <=> Overrides!Attached(v)) /\ Overrides!Current(v)' = Overrides!Current(v)
    BY <1>1, <1>4, <1>6 DEF Overrides!Attached, Overrides!Current
  <2>2. \A w \in Savers : saver'[w].sent = saver[w].sent
    BY <1>4, <1>6
  <2> QED
    BY <1>6, <2>1, <2>2
<1>8. /\ overridesStored' \in Overrides!RowValues /\ overridesStored'[row] = saver[v].sent
      /\ \A q \in Rows : q # row => overridesStored'[q] = overridesStored[q]
  <2>1. saver[v].sent \in Values
    BY <1>2 DEF SaverType
  <2> QED
    BY <1>0, <1>1, <1>5, <2>1 DEF OverridesTyped, Overrides!RowValues
<1>9. raced' \subseteq Rows /\ raced \subseteq raced' /\ (~Overrides!Attached(v) => row \in raced')
  BY <1>0, <1>1, <1>5 DEF OverridesTyped
<1> HIDE DEF row
<1>10. TableTyped' /\ OverridesTyped'
  BY <1>0, <1>1, <1>8, <1>9 DEF TableTyped, OverridesTyped, Overrides!RowValues
<1>11. StampsAreStored'
  <2> SUFFICES ASSUME NEW q \in DOMAIN overridesTable, q \notin lost, q \notin raced'
               PROVE  Overrides!InStore(overridesTable[q].orig, q)' \/ \E w \in Savers : Answering(w, q)'
    BY <1>1 DEF StampsAreStored
  <2>1. CASE q = row
    <3>1. Overrides!Attached(v)
      BY <1>9, <2>1
    <3>2. Answering(v, q)'
      BY <1>4, <1>6, <1>7, <2>1, <3>1 DEF Answering, row
    <3> QED
      BY <3>2
  <2>2. CASE q # row
    <3>1. q \in Rows
      BY <1>0 DEF TableTyped
    <3>2. Overrides!InStore(overridesTable[q].orig, q) => Overrides!InStore(overridesTable[q].orig, q)'
      BY <1>1, <1>8, <2>2, <3>1 DEF Overrides!InStore
    <3>3. \A w \in Savers : Answering(w, q) => Answering(w, q)'
      BY <1>6, <1>7, <2>2 DEF Answering, row
    <3> QED
      BY <1>0, <1>9, <3>2, <3>3 DEF StampsAreStored
  <2> QED
    BY <2>1, <2>2
<1>12. RequestIsCurrent'
  <2> SUFFICES ASSUME NEW w \in Savers, Overrides!Attached(w), Overrides!Current(w) \notin raced'
               PROVE  /\ saver[w].sent = overridesTable[Overrides!Current(w)].shown
                      /\ saver'[w].pc = "served" => overridesStored'[Overrides!Current(w)] = saver[w].sent
    BY <1>1, <1>7 DEF RequestIsCurrent
  <2>1. /\ saver[w].sent = overridesTable[Overrides!Current(w)].shown
        /\ saver[w].pc = "served" => overridesStored[Overrides!Current(w)] = saver[w].sent
    BY <1>0, <1>9 DEF RequestIsCurrent
  <2>2. CASE Overrides!Current(w) = row
    <3>1. Overrides!Attached(v) /\ row \notin raced
      BY <1>9, <2>2
    <3>2. saver[v].sent = overridesTable[row].shown
      BY <1>0, <3>1 DEF RequestIsCurrent, row
    <3> QED
      BY <1>8, <2>1, <2>2, <3>2
  <2>3. CASE Overrides!Current(w) # row
    <3>1. w # v /\ saver'[w] = saver[w]
      BY <1>6, <2>3 DEF row
    <3>2. Overrides!Current(w) \in Rows
      BY <1>0, CurrentTyped, AttachedIsBusy
    <3> QED
      BY <1>8, <2>1, <2>3, <3>1, <3>2
  <2> QED
    BY <2>2, <2>3
<1>13. OnlyEdited'
  <2>1. \A w \in Savers : saver'[w].pc # "idle" => \A i \in 1..Len(saver'[w].rest) : saver'[w].rest[i] \in touched
    BY <1>0, <1>1, <1>4, <1>6 DEF OnlyEdited
  <2>2. Overrides!Unsaved' = Overrides!Unsaved
    BY <1>1 DEF Overrides!Unsaved, Overrides!Changed
  <2> QED
    BY <1>0, <1>1, <2>1, <2>2 DEF OnlyEdited
<1>14. Overrides!OnlyEditedRowsAreOverridden'
  BY <1>0, <1>1, <1>5, <1>8 DEF Overrides!OnlyEditedRowsAreOverridden
<1> QED
  BY <1>6, <1>10, <1>11, <1>12, <1>13, <1>14 DEF OverridesInv

LEMMA RowSavedStep ==
    ASSUME Overrides!ConstantsFit, OverridesInv, NEW v \in Savers, Overrides!RowSaved(v)
    PROVE  OverridesInv'
<1>0. /\ TableTyped /\ SaversTyped /\ OverridesTyped
      /\ StampsAreStored /\ RequestIsCurrent /\ OnlyEdited /\ Overrides!OnlyEditedRowsAreOverridden
  BY DEF OverridesInv
<1> DEFINE rest == Tail(saver[v].rest)
           on == rest # <<>>
           row == Overrides!Current(v)
           sent == Overrides!Shown(v, Head(rest))
           next == [saver[v] EXCEPT !.pc = "sent", !.rest = rest, !.sent = sent]
           x == IF on THEN next ELSE Overrides!NoSave
<1>1. /\ saver[v].pc = "served"
      /\ overridesTable' = IF Overrides!Attached(v) THEN Overrides!Stamp(overridesTable, row) ELSE overridesTable
      /\ UNCHANGED <<overridesStored, overridesEpoch, edits, touched, lost, raced>>
  BY DEF Overrides!RowSaved, Overrides!ghosts
<1>2. saver' = [saver EXCEPT ![v] = x]
  BY DEF Overrides!RowSaved
<1>3. /\ on => UNCHANGED <<saving, derive, loading>>
      /\ ~on => saving' = FALSE /\ Overrides!StartDerive
  BY DEF Overrides!RowSaved
<1>4. saver[v].rest \in Seq(Rows) /\ saver[v].rest # <<>> /\ row \in Rows
  BY <1>0, <1>1, CurrentTyped
<1>5. /\ rest \in Seq(Rows) /\ (on => Head(rest) \in Rows)
      /\ \A i \in 1..Len(rest) : rest[i] \in touched
  <2>1. \A i \in 1..Len(saver[v].rest) : saver[v].rest[i] \in touched
    BY <1>0, <1>1 DEF OnlyEdited
  <2>2. Len(rest) = Len(saver[v].rest) - 1 /\ \A i \in 1..Len(rest) : rest[i] = saver[v].rest[i + 1]
    BY <1>4
  <2>3. \A i \in 1..Len(rest) : rest[i] \in touched
    BY <1>4, <2>1, <2>2
  <2>4. rest \in Seq(Rows) /\ (on => Head(rest) \in Rows)
    BY <1>4
  <2> QED
    BY <2>3, <2>4
<1>6. /\ DOMAIN overridesTable' = DOMAIN overridesTable
      /\ overridesTable' \in [DOMAIN overridesTable -> RowType]
      /\ \A q \in DOMAIN overridesTable :
            /\ overridesTable'[q].shown = overridesTable[q].shown
            /\ overridesTable'[q].orig = IF Overrides!Attached(v) /\ q = row THEN overridesTable[q].shown ELSE overridesTable[q].orig
  <2>1. CASE Overrides!Attached(v)
    <3>1. overridesTable' = [overridesTable EXCEPT ![row].orig = overridesTable[row].shown]
      BY <1>1, <2>1 DEF Overrides!Stamp
    <3>2. row \in DOMAIN overridesTable
      BY <1>0, <1>4, <2>1 DEF SaversTyped
    <3> HIDE DEF row
    <3> QED
      BY <1>0, <2>1, <3>1, <3>2 DEF TableTyped, RowType
  <2>2. CASE ~Overrides!Attached(v)
    BY <1>0, <1>1, <2>2 DEF TableTyped
  <2> QED
    BY <2>1, <2>2
<1>7. /\ x \in SaverType /\ x.pc # "served" /\ (x.pc # "idle" => x.rest # <<>>)
      /\ x.pc # "idle" => on /\ x.rest = rest /\ x.held = saver[v].held /\ x.sent = sent
  <2>0. saver[v] \in SaverType
    BY <1>0 DEF SaversTyped
  <2>1. CASE on
    <3>1. sent \in Values
      <4>1. Head(rest) \in Rows
        BY <1>5, <2>1
      <4>2. CASE Overrides!Attached(v)
        <5>1. DOMAIN overridesTable = Rows
          BY <1>0, <4>2 DEF SaversTyped
        <5> QED
          BY <1>0, <4>1, <4>2, <5>1 DEF Overrides!Shown, TableTyped, RowType
      <4>3. CASE ~Overrides!Attached(v)
        <5>1. saver[v].held \in Overrides!RowValues
          BY <1>1, <2>0, <4>3 DEF SaverType, Overrides!Attached
        <5> QED
          BY <4>1, <4>3, <5>1 DEF Overrides!Shown, Overrides!RowValues
      <4> QED
        BY <4>2, <4>3
    <3> HIDE DEF sent
    <3>2. rest \in Seq(Rows) /\ rest # <<>>
      BY <1>5, <2>1
    <3> HIDE DEF rest
    <3>3. next.pc = "sent" /\ next.rest = rest /\ next.held = saver[v].held /\ next.sent = sent
      BY <2>0 DEF SaverType
    <3>4. next \in SaverType
      BY <2>0, <3>1, <3>2 DEF SaverType
    <3> HIDE DEF next
    <3>5. x = next
      BY <2>1
    <3> HIDE DEF x
    <3> QED
      BY <2>1, <3>2, <3>3, <3>4, <3>5
  <2>2. CASE ~on
    <3>1. x = Overrides!NoSave
      BY <2>2
    <3> HIDE DEF x
    <3> QED
      BY <3>1, NoSaveTyped
  <2> QED
    BY <2>1, <2>2
<1> HIDE DEF x, next
<1>8. /\ SaversTyped' /\ saver'[v] = x
      /\ \A w \in Savers : w # v => /\ saver'[w] = saver[w]
                                    /\ Overrides!Attached(w)' <=> Overrides!Attached(w)
                                    /\ Overrides!Current(w)' = Overrides!Current(w)
  <2>1. x.pc # "idle" /\ x.held = <<>> => DOMAIN overridesTable = Rows
    BY <1>0, <1>1, <1>7 DEF SaversTyped, Overrides!Attached
  <2> QED
    BY <1>0, <1>2, <1>6, <1>7, <2>1, OneSaves
<1>9. /\ derive' \in [Derivers -> [pc : {"idle", "sent", "served"}, rows : Overrides!RowValues]]
      /\ saving' \in BOOLEAN /\ loading' \in BOOLEAN
  <2>1. CASE on
    BY <1>0, <1>3, <2>1 DEF OverridesTyped
  <2>2. CASE ~on
    BY <1>0, <1>3, <2>2, DerivesTyped
  <2> QED
    BY <2>1, <2>2
<1> HIDE DEF on
<1>10. TableTyped' /\ OverridesTyped'
  <2>1. TableTyped'
    BY <1>0, <1>6 DEF TableTyped
  <2>2. OverridesTyped'
    BY <1>0, <1>1, <1>9 DEF OverridesTyped, Overrides!RowValues
  <2> QED
    BY <2>1, <2>2
<1> HIDE DEF row
<1>11. StampsAreStored'
  <2> SUFFICES ASSUME NEW q \in DOMAIN overridesTable, q \notin lost, q \notin raced
               PROVE  Overrides!InStore(overridesTable[q].orig, q)' \/ \E w \in Savers : Answering(w, q)'
    BY <1>1, <1>6 DEF StampsAreStored
  <2>1. CASE Overrides!Attached(v) /\ q = row
    <3>1. overridesTable'[q].orig = overridesStored[q]
      BY <1>0, <1>1, <1>6, <2>1 DEF RequestIsCurrent, row
    <3> QED
      BY <1>1, <3>1 DEF Overrides!InStore
  <2>2. CASE ~(Overrides!Attached(v) /\ q = row)
    <3>1. overridesTable'[q].orig = overridesTable[q].orig
      BY <1>6, <2>2
    <3>2. Overrides!InStore(overridesTable[q].orig, q) => Overrides!InStore(overridesTable[q].orig, q)'
      BY <1>1, <3>1 DEF Overrides!InStore
    <3>3. \A w \in Savers : Answering(w, q) => Answering(w, q)'
      <4>1. ~Answering(v, q)
        BY <2>2 DEF Answering, row
      <4>2. ASSUME NEW w \in Savers, w # v, Answering(w, q) PROVE Answering(w, q)'
        BY <1>8, <4>2 DEF Answering
      <4> QED
        BY <4>1, <4>2
    <3> QED
      BY <1>0, <3>2, <3>3 DEF StampsAreStored
  <2> QED
    BY <2>1, <2>2
<1>12. RequestIsCurrent'
  <2>1. ASSUME NEW w \in Savers, w # v, Overrides!Attached(w), Overrides!Current(w) \notin raced
        PROVE  /\ saver[w].sent = overridesTable'[Overrides!Current(w)].shown
               /\ saver[w].pc = "served" => overridesStored[Overrides!Current(w)] = saver[w].sent
    <3>1. Overrides!Current(w) \in DOMAIN overridesTable
      BY <1>0, <2>1, CurrentTyped, AttachedIsBusy DEF SaversTyped
    <3> QED
      BY <1>0, <1>6, <2>1, <3>1 DEF RequestIsCurrent
  <2>2. ASSUME Overrides!Attached(v)'
        PROVE  x.sent = overridesTable'[Overrides!Current(v)'].shown /\ x.pc # "served"
    <3>1. /\ x.pc # "idle" /\ x.held = <<>>
          /\ x.rest = rest /\ x.held = saver[v].held /\ x.sent = sent /\ Overrides!Current(v)' = Head(rest)
      BY <1>7, <1>8, <2>2 DEF Overrides!Attached, Overrides!Current
    <3>2. Overrides!Attached(v) /\ DOMAIN overridesTable = Rows
      BY <1>0, <1>1, <3>1 DEF Overrides!Attached, SaversTyped
    <3>3. Head(rest) \in Rows
      BY <1>5, <1>7, <3>1
    <3> QED
      BY <1>6, <1>7, <3>1, <3>2, <3>3 DEF Overrides!Shown
  <2> QED
    BY <1>1, <1>8, <2>1, <2>2 DEF RequestIsCurrent
<1>13. OnlyEdited'
  <2>1. \A q \in DOMAIN overridesTable : overridesTable'[q].shown # overridesTable'[q].orig => overridesTable[q].shown # overridesTable[q].orig
    BY <1>6
  <2>2. Overrides!Unsaved' \subseteq Overrides!Unsaved
    BY <1>6, <2>1 DEF Overrides!Unsaved, Overrides!Changed
  <2>3. \A w \in Savers : saver'[w].pc # "idle" => \A i \in 1..Len(saver'[w].rest) : saver'[w].rest[i] \in touched
    BY <1>0, <1>5, <1>7, <1>8 DEF OnlyEdited
  <2> QED
    BY <1>0, <1>1, <2>2, <2>3 DEF OnlyEdited
<1>14. Overrides!OnlyEditedRowsAreOverridden'
  BY <1>0, <1>1 DEF Overrides!OnlyEditedRowsAreOverridden
<1> QED
  BY <1>8, <1>10, <1>11, <1>12, <1>13, <1>14 DEF OverridesInv

LEMMA SaveFailsStep ==
    ASSUME Overrides!ConstantsFit, OverridesInv, NEW v \in Savers, Overrides!SaveFails(v)
    PROVE  OverridesInv'
<1>0. /\ TableTyped /\ SaversTyped /\ OverridesTyped
      /\ StampsAreStored /\ RequestIsCurrent /\ OnlyEdited /\ Overrides!OnlyEditedRowsAreOverridden
  BY DEF OverridesInv
<1>1. /\ saver[v].pc # "idle" /\ saving' \in BOOLEAN
      /\ saver' = [saver EXCEPT ![v] = Overrides!NoSave]
      /\ UNCHANGED <<overridesStored, overridesTable, derive, loading, overridesEpoch, edits, touched, raced>>
  BY DEF Overrides!SaveFails
<1>2. lost' = IF Overrides!Attached(v) /\ saver[v].pc = "served" THEN lost \cup {Overrides!Current(v)} ELSE lost
  BY DEF Overrides!SaveFails
<1>3. /\ SaversTyped' /\ saver'[v] = Overrides!NoSave
      /\ \A w \in Savers : w # v => /\ saver'[w] = saver[w]
                                    /\ Overrides!Attached(w)' <=> Overrides!Attached(w)
                                    /\ Overrides!Current(w)' = Overrides!Current(w)
  <2>1. DOMAIN overridesTable' = DOMAIN overridesTable
    BY <1>1
  <2> QED
    BY <1>0, <1>1, <2>1, NoSaveTyped, OneSaves
<1>4. lost' \subseteq Rows /\ lost \subseteq lost'
  <2>1. Overrides!Current(v) \in Rows
    BY <1>0, <1>1, CurrentTyped
  <2> QED
    BY <1>0, <1>2, <2>1 DEF OverridesTyped
<1>5. TableTyped' /\ OverridesTyped'
  BY <1>0, <1>1, <1>4 DEF TableTyped, OverridesTyped, Overrides!RowValues
<1>6. StampsAreStored'
  <2> SUFFICES ASSUME NEW q \in DOMAIN overridesTable, q \notin lost', q \notin raced
               PROVE  Overrides!InStore(overridesTable[q].orig, q)' \/ \E w \in Savers : Answering(w, q)'
    BY <1>1 DEF StampsAreStored
  <2>1. ~Answering(v, q)
    BY <1>2 DEF Answering
  <2>2. \A w \in Savers : Answering(w, q) => Answering(w, q)'
    BY <1>3, <2>1 DEF Answering
  <2>3. Overrides!InStore(overridesTable[q].orig, q) => Overrides!InStore(overridesTable[q].orig, q)'
    BY <1>1 DEF Overrides!InStore
  <2> QED
    BY <1>0, <1>4, <2>2, <2>3 DEF StampsAreStored
<1>7. RequestIsCurrent'
  <2>1. ~Overrides!Attached(v)'
    BY <1>3, NoSaveTyped DEF Overrides!Attached
  <2> QED
    BY <1>0, <1>1, <1>3, <2>1 DEF RequestIsCurrent
<1>8. OnlyEdited'
  <2>1. \A w \in Savers : saver'[w].pc # "idle" => \A i \in 1..Len(saver'[w].rest) : saver'[w].rest[i] \in touched
    BY <1>0, <1>3, NoSaveTyped DEF OnlyEdited
  <2>2. Overrides!Unsaved' = Overrides!Unsaved
    BY <1>1 DEF Overrides!Unsaved, Overrides!Changed
  <2> QED
    BY <1>0, <1>1, <2>1, <2>2 DEF OnlyEdited
<1>9. Overrides!OnlyEditedRowsAreOverridden'
  BY <1>0, <1>1 DEF Overrides!OnlyEditedRowsAreOverridden
<1> QED
  BY <1>3, <1>5, <1>6, <1>7, <1>8, <1>9 DEF OverridesInv

(* A table that says what is stored comes, or none: every save goes on      *)
(* without it.                                                              *)
LEMMA TableReplaced ==
    ASSUME OverridesInv, OverridesTyped', TableTyped', saver' = Overrides!Detached,
           UNCHANGED <<overridesStored, touched>>,
           \A r \in DOMAIN overridesTable' : overridesTable'[r].shown = overridesTable'[r].orig,
           \A r \in DOMAIN overridesTable' \ raced' : overridesTable'[r].orig = Overrides!Effective(overridesStored[r])
    PROVE  OverridesInv'
<1>0. TableTyped /\ SaversTyped /\ OnlyEdited /\ Overrides!OnlyEditedRowsAreOverridden
  BY DEF OverridesInv
<1>1. /\ SaversTyped'
      /\ \A v \in Savers : /\ ~Overrides!Attached(v)'
                           /\ saver'[v].pc = saver[v].pc /\ saver'[v].rest = saver[v].rest
  BY <1>0, NoneIsAttached
<1>2. StampsAreStored'
  BY DEF StampsAreStored, Overrides!InStore
<1>3. RequestIsCurrent'
  BY <1>1 DEF RequestIsCurrent
<1>4. OnlyEdited'
  <2>1. Overrides!Unsaved' = {}
    BY DEF Overrides!Unsaved, Overrides!Changed
  <2> QED
    BY <1>0, <1>1, <2>1 DEF OnlyEdited
<1>5. Overrides!OnlyEditedRowsAreOverridden'
  BY <1>0 DEF Overrides!OnlyEditedRowsAreOverridden
<1> QED
  BY <1>1, <1>2, <1>3, <1>4, <1>5 DEF OverridesInv

LEMMA DerivedStep ==
    ASSUME Overrides!ConstantsFit, OverridesInv, NEW d \in Derivers, Overrides!Derived(d)
    PROVE  OverridesInv'
<1>0. OverridesTyped
  BY DEF OverridesInv
<1> DEFINE fresh == derive[d].rows
<1>1. /\ overridesTable' = [r \in Rows |-> [shown |-> fresh[r], orig |-> fresh[r]]]
      /\ saver' = Overrides!Detached
      /\ derive' = [derive EXCEPT ![d] = Overrides!NoDerive]
      /\ raced' = {r \in Rows : fresh[r] # Overrides!Effective(overridesStored[r])} /\ lost' = {}
      /\ UNCHANGED <<overridesStored, saving, overridesEpoch, edits, touched>>
  BY DEF Overrides!Derived
<1>2. fresh \in Overrides!RowValues
  BY <1>0 DEF OverridesTyped
<1>3. derive' \in [Derivers -> [pc : {"idle", "sent", "served"}, rows : Overrides!RowValues]]
  BY <1>0, <1>1, NoDeriveTyped DEF OverridesTyped
<1> HIDE DEF fresh
<1>4. /\ DOMAIN overridesTable' = Rows /\ overridesTable' \in [Rows -> RowType]
      /\ \A q \in Rows : overridesTable'[q].shown = fresh[q] /\ overridesTable'[q].orig = fresh[q]
  BY <1>1, <1>2 DEF Overrides!RowValues, RowType
<1>5. TableTyped'
  BY <1>4 DEF TableTyped
<1>6. OverridesTyped'
  <2>1. loading' \in BOOLEAN /\ saving' \in BOOLEAN
    BY <1>0 DEF Overrides!Derived, OverridesTyped
  <2>2. raced' \subseteq Rows
    BY <1>1
  <2> QED
    BY <1>0, <1>1, <1>3, <2>1, <2>2 DEF OverridesTyped, Overrides!RowValues
<1>7. \A r \in DOMAIN overridesTable' : overridesTable'[r].shown = overridesTable'[r].orig
  BY <1>4
<1>8. \A r \in DOMAIN overridesTable' \ raced' : overridesTable'[r].orig = Overrides!Effective(overridesStored[r])
  BY <1>1, <1>4
<1> QED
  BY <1>1, <1>5, <1>6, <1>7, <1>8, TableReplaced

LEMMA OverridesLogout ==
    ASSUME Overrides!ConstantsFit, OverridesInv, Overrides!doLogout
    PROVE  OverridesInv'
<1>0. OverridesTyped
  BY DEF OverridesInv
<1>1. /\ overridesTable' = <<>> /\ saver' = Overrides!Detached
      /\ UNCHANGED <<overridesStored, derive, edits, touched, lost, raced>>
  BY DEF Overrides!doLogout, Overrides!ghosts
<1>2. DOMAIN overridesTable' = {} /\ TableTyped'
  <2>1. DOMAIN overridesTable' = {}
    BY <1>1
  <2>2. overridesTable' \in [{} -> RowType]
    BY <1>1
  <2> QED
    BY <2>1, <2>2 DEF TableTyped
<1>3. overridesEpoch' \in 0..MaxEpoch
  <2>1. MaxEpoch \in Nat /\ overridesEpoch \in 0..MaxEpoch
    BY <1>0 DEF Overrides!ConstantsFit, OverridesTyped
  <2>2. overridesEpoch < MaxEpoch /\ overridesEpoch' = overridesEpoch + 1
    BY DEF Overrides!doLogout
  <2> QED
    BY <2>1, <2>2
<1>4. OverridesTyped'
  <2>1. saving' \in BOOLEAN /\ loading' \in BOOLEAN
    BY DEF Overrides!doLogout
  <2> QED
    BY <1>0, <1>1, <1>3, <2>1 DEF OverridesTyped, Overrides!RowValues
<1> QED
  BY <1>1, <1>2, <1>4, TableReplaced

LEMMA OverridesStep ==
    ASSUME Overrides!ConstantsFit, OverridesInv, [Overrides!Next]_(Overrides!vars)
    PROVE  OverridesInv'
<1>1. CASE UNCHANGED Overrides!vars
  BY <1>1, NothingUnchanged
<1>2. ASSUME NEW r \in Rows, NEW value \in Values, Overrides!Edit(r, value) PROVE OverridesInv'
  BY <1>2, EditStep
<1>3. CASE Overrides!SaveAll \/ Overrides!Derive \/ Overrides!doLogout
  BY <1>3, SaveAllStep, DeriveStep, OverridesLogout
<1>4. ASSUME NEW v \in Savers, Overrides!ServeSave(v) \/ Overrides!RowSaved(v) \/ Overrides!SaveFails(v) PROVE OverridesInv'
  BY <1>4, ServeSaveStep, RowSavedStep, SaveFailsStep
<1>5. ASSUME NEW d \in Derivers, Overrides!ServeDerive(d) \/ Overrides!Derived(d) \/ Overrides!DeriveFails(d) PROVE OverridesInv'
  BY <1>5, DeriveStep, DerivedStep
<1> QED
  BY <1>1, <1>2, <1>3, <1>4, <1>5 DEF Overrides!Next

LEMMA OverridesAreSafe == OverridesInv => Overrides!TypeOK /\ Overrides!SavedMeansStored
<1> SUFFICES ASSUME OverridesInv PROVE Overrides!TypeOK /\ Overrides!SavedMeansStored
  OBVIOUS
<1>0. /\ TableTyped /\ SaversTyped /\ OverridesTyped
      /\ StampsAreStored /\ RequestIsCurrent /\ OnlyEdited /\ Overrides!OnlyEditedRowsAreOverridden
  BY DEF OverridesInv
<1>1. Overrides!TypeOK
  BY <1>0 DEF Overrides!TypeOK, TableTyped, SaversTyped, OverridesTyped, RowType, SaverType
<1>2. Overrides!UnchangedRowsAreStored
  <2> SUFFICES ASSUME NEW r \in DOMAIN overridesTable, r \notin lost, r \notin raced,
                      overridesTable[r].shown = overridesTable[r].orig
               PROVE  Overrides!InStore(overridesTable[r].shown, r)
    BY DEF Overrides!UnchangedRowsAreStored, Overrides!Changed
  <2>1. ASSUME NEW v \in Savers, Answering(v, r)
        PROVE  Overrides!InStore(overridesTable[r].shown, r)
    BY <1>0, <2>1 DEF Answering, RequestIsCurrent, Overrides!InStore
  <2>2. CASE ~\E v \in Savers : Answering(v, r)
    BY <1>0, <2>2 DEF StampsAreStored
  <2> QED
    BY <2>1, <2>2
<1> QED
  BY <1>0, <1>1, <1>2 DEF Overrides!SavedMeansStored

-----------------------------------------------------------------------------
(* BrowserStaging *)

LEMMA StagingSize ==
    \A S : Staging!Cardinality(S) = Cardinality(S) /\ (Staging!IsFiniteSet(S) <=> IsFiniteSet(S))
  BY DEF Staging!Cardinality, Cardinality, Staging!IsFiniteSet, IsFiniteSet

(* The newest load asks for the page and the filter that the controls show. *)
NewestFits ==
    \A s \in Slots : stagingReq[s].kind = "load" /\ ~stagingReq[s].late =>
        stagingReq[s].page = page /\ stagingReq[s].filter = filter

(* The newest load is out or has failed, or an older one came after it, or  *)
(* the table shows its answer.                                              *)
NewestDecides ==
    \/ \E s \in Slots : stagingReq[s].kind = "load" /\ ~stagingReq[s].late
    \/ failed
    \/ overtaken
    \/ stagingShown = <<page, filter>>

(* The rows shown, and what is asked for of the ids there are.              *)
TableIsRecent == stagingTable.data \subseteq recent /\ stagingSelected \subseteq recent

StagingTyped ==
    /\ rows \subseteq Ids /\ done \subseteq rows
    /\ stagingTable \in Staging!ListingType
    /\ page \in Nat /\ filter \in Staging!Filters
    /\ stagingSelected \subseteq Ids /\ deleting \subseteq Staging!Flags
    /\ stagingEpoch \in 0..MaxEpoch /\ made \in 0..NewRequests
    /\ stagingShown \in Nat \X Staging!Filters /\ recent \subseteq Ids
    /\ overtaken \in BOOLEAN /\ failed \in BOOLEAN

RequestsTyped ==
    /\ stagingReq \in [Slots -> Staging!ReqType]
    /\ \A s \in Slots : stagingReq[s].page \in Nat

StagingInv ==
    StagingTyped /\ RequestsTyped /\ TableIsRecent /\ NewestFits /\ NewestDecides

(* A page of a listing has as many rows and pages as numbers can say.       *)
LEMMA PagesAreCounted ==
    ASSUME NEW n \in Nat, NEW d \in Nat \ {0}
    PROVE  (n + d - 1) \div d \in Nat
  OBVIOUS

LEMMA ListingTyped ==
    ASSUME Staging!ConstantsFit, NEW S \in SUBSET Ids, NEW p
    PROVE  [data |-> Staging!OnPage(S, p), total |-> Staging!Cardinality(S), totalPages |-> Staging!Pages(S)] \in Staging!ListingType
<1>1. Staging!Cardinality(S) \in Nat
  BY StagingSize, FS_Subset, FS_CardinalityType DEF Staging!ConstantsFit
<1>2. Staging!Pages(S) \in Nat
  BY <1>1, PagesAreCounted DEF Staging!Pages, Staging!ConstantsFit
<1>3. Staging!OnPage(S, p) \subseteq Ids
  BY DEF Staging!OnPage
<1> QED
  BY <1>1, <1>2, <1>3 DEF Staging!ListingType

LEMMA BlankTyped == Staging!Blank \in Staging!ListingType /\ Staging!Blank.data = {}
  BY DEF Staging!Blank, Staging!ListingType

LEMMA NoReqTyped ==
    Staging!NoReq \in Staging!ReqType /\ Staging!NoReq.kind = "none" /\ Staging!NoReq.kind # "load" /\ Staging!NoReq.page \in Nat
<1>1. Staging!Blank \in Staging!ListingType
  BY BlankTyped
<1>2. Staging!NoReq.kind = "none" /\ Staging!NoReq.page = 0
  BY DEF Staging!NoReq
<1> HIDE DEF Staging!Blank, Staging!ListingType
<1>3. Staging!NoReq \in Staging!ReqType
  BY <1>1 DEF Staging!NoReq, Staging!ReqType, Staging!Filters, Staging!Flags
<1> QED
  BY <1>2, <1>3

LEMMA StagingInit == Staging!ConstantsFit /\ Staging!Init => StagingInv
<1> SUFFICES ASSUME Staging!ConstantsFit, Staging!Init PROVE StagingInv
  OBVIOUS
<1>1. stagingReq \in [Slots -> Staging!ReqType] /\ \A s \in Slots : stagingReq[s] = Staging!NoReq
  BY NoReqTyped DEF Staging!Init
<1>2. made \in 0..NewRequests /\ stagingEpoch \in 0..MaxEpoch
  <2>1. made = 0 /\ stagingEpoch = 0
    BY DEF Staging!Init
  <2>2. NewRequests \in Nat /\ MaxEpoch \in Nat
    BY DEF Staging!ConstantsFit
  <2> QED
    BY <2>1, <2>2
<1>3. page \in Nat /\ filter \in Staging!Filters /\ stagingShown = <<page, filter>>
  BY DEF Staging!Init, Staging!Filters
<1>4. stagingTable \in Staging!ListingType /\ stagingTable.data = {}
  BY BlankTyped DEF Staging!Init
<1>5. overtaken \in BOOLEAN /\ failed \in BOOLEAN
  BY DEF Staging!Init
<1>6. /\ rows \subseteq Ids /\ done \subseteq rows
      /\ stagingSelected = {} /\ deleting = {} /\ recent = {}
  BY DEF Staging!Init
<1>7. StagingTyped
  BY <1>2, <1>3, <1>4, <1>5, <1>6 DEF StagingTyped
<1>8. RequestsTyped /\ NewestFits
  BY <1>1, NoReqTyped DEF RequestsTyped, NewestFits
<1>9. TableIsRecent /\ NewestDecides
  BY <1>3, <1>4, <1>6 DEF TableIsRecent, NewestDecides
<1> QED
  BY <1>7, <1>8, <1>9 DEF StagingInv

(* A load begins: it is the newest one, and the rest of the requests stay,  *)
(* but for being late.                                                      *)
LEMMA BeginTyped ==
    ASSUME RequestsTyped, NEW s \in Slots, NEW p \in Nat, NEW f \in Staging!Filters,
           NEW ends \in SUBSET Staging!Flags, stagingReq' = Staging!Begin(s, p, f, ends)
    PROVE  /\ RequestsTyped'
           /\ stagingReq'[s].kind = "load" /\ ~stagingReq'[s].late /\ stagingReq'[s].page = p /\ stagingReq'[s].filter = f
           /\ \A q \in Slots : q # s /\ stagingReq'[q].kind = "load" => stagingReq'[q].late
<1> DEFINE r == [Staging!NoReq EXCEPT !.kind = "load", !.page = p, !.filter = f, !.ends = ends]
<1>1. r \in Staging!ReqType /\ r.kind = "load" /\ ~r.late /\ r.page = p /\ r.filter = f
  <2>1. r.kind = "load" /\ r.page = p /\ r.filter = f
    BY DEF Staging!NoReq
  <2>1a. r \in Staging!ReqType
    <3>1. Staging!NoReq \in Staging!ReqType /\ p \in Int /\ "load" \in {"none", "load"} \cup Staging!Flags
      BY NoReqTyped
    <3> HIDE DEF Staging!Filters, Staging!Flags, Staging!ListingType, Staging!NoReq
    <3> QED
      BY <3>1 DEF Staging!ReqType
  <2>2. ~r.late
    BY DEF Staging!NoReq
  <2> HIDE DEF r
  <2> QED
    BY <2>1, <2>1a, <2>2
<1> HIDE DEF r
<1>2. stagingReq' = [q \in Slots |-> IF q = s THEN r ELSE [stagingReq[q] EXCEPT !.late = stagingReq[q].kind = "load"]]
  BY DEF Staging!Begin, r
<1>3. ASSUME NEW q \in Slots, q # s
      PROVE  stagingReq'[q] \in Staging!ReqType /\ stagingReq'[q].page \in Nat /\ (stagingReq'[q].kind = "load" => stagingReq'[q].late)
  <2> DEFINE late == stagingReq[q].kind = "load"
  <2>1. stagingReq'[q] = [stagingReq[q] EXCEPT !.late = late] /\ stagingReq[q] \in Staging!ReqType /\ stagingReq[q].page \in Nat
    BY <1>2, <1>3 DEF RequestsTyped
  <2>2. late \in BOOLEAN
    OBVIOUS
  <2>3. stagingReq[q].kind = "load" => late
    OBVIOUS
  <2> HIDE DEF late
  <2> QED
    BY <2>1, <2>2, <2>3 DEF Staging!ReqType
<1>4. stagingReq'[s] = r /\ DOMAIN stagingReq' = Slots
  BY <1>2
<1>5. stagingReq' = [q \in Slots |-> stagingReq'[q]]
  BY <1>2
<1>6. \A q \in Slots : stagingReq'[q] \in Staging!ReqType /\ stagingReq'[q].page \in Nat
  BY <1>1, <1>3, <1>4
<1>7. RequestsTyped'
  BY <1>5, <1>6 DEF RequestsTyped
<1> QED
  BY <1>1, <1>3, <1>4, <1>7

LEMMA LoadStep ==
    ASSUME Staging!ConstantsFit, StagingInv, NEW p \in Nat, NEW f \in Staging!Filters, NEW s \in Slots,
           NEW ends \in SUBSET Staging!Flags, Staging!Load(s, p, f, ends),
           page' = p, filter' = f, made' \in 0..NewRequests,
           UNCHANGED <<rows, done, stagingTable, deleting, stagingEpoch, stagingShown, overtaken, failed>>
    PROVE  StagingInv'
<1>0. StagingTyped /\ RequestsTyped /\ TableIsRecent
  BY DEF StagingInv
<1>1. stagingReq' = Staging!Begin(s, p, f, ends) /\ stagingSelected' = {} /\ recent' = stagingTable.data
  BY DEF Staging!Load
<1>2. /\ RequestsTyped'
      /\ stagingReq'[s].kind = "load" /\ ~stagingReq'[s].late /\ stagingReq'[s].page = p /\ stagingReq'[s].filter = f
      /\ \A q \in Slots : q # s /\ stagingReq'[q].kind = "load" => stagingReq'[q].late
  BY <1>0, <1>1, BeginTyped
<1>3. stagingTable.data \subseteq Ids
  BY <1>0 DEF StagingTyped, Staging!ListingType
<1>4. StagingTyped'
  BY <1>0, <1>1, <1>3 DEF StagingTyped
<1>5. TableIsRecent'
  BY <1>1 DEF TableIsRecent
<1>6. NewestFits' /\ NewestDecides'
  BY <1>2 DEF NewestFits, NewestDecides
<1> QED
  BY <1>2, <1>4, <1>5, <1>6 DEF StagingInv

LEMMA NewLoadStep ==
    ASSUME Staging!ConstantsFit, StagingInv, NEW p \in Nat, NEW f \in Staging!Filters, Staging!NewLoad(p, f)
    PROVE  StagingInv'
<1>1. PICK s \in Slots : Staging!Load(s, p, f, {})
  BY DEF Staging!NewLoad
<1>2. /\ made < NewRequests /\ made' = made + 1 /\ page' = p /\ filter' = f
      /\ UNCHANGED <<rows, done, stagingTable, deleting, stagingEpoch, stagingShown, overtaken, failed>>
  BY DEF Staging!NewLoad
<1>3. made' \in 0..NewRequests
  BY <1>2 DEF StagingInv, StagingTyped, Staging!ConstantsFit
<1> QED
  BY <1>1, <1>2, <1>3, LoadStep

(* The requests change and the newest load stays what it is.                *)
LEMMA RequestStep ==
    ASSUME StagingInv, StagingTyped', RequestsTyped',
           UNCHANGED <<stagingTable, page, filter, stagingSelected, Staging!ghosts>>,
           \A s \in Slots : /\ stagingReq'[s].kind = "load" /\ ~stagingReq'[s].late =>
                                /\ stagingReq[s].kind = "load" /\ ~stagingReq[s].late
                                /\ stagingReq'[s].page = stagingReq[s].page /\ stagingReq'[s].filter = stagingReq[s].filter
                            /\ stagingReq[s].kind = "load" => stagingReq'[s].kind = "load" /\ stagingReq'[s].late = stagingReq[s].late
    PROVE  StagingInv'
<1>0. TableIsRecent /\ NewestFits /\ NewestDecides
  BY DEF StagingInv
<1>1. TableIsRecent'
  BY <1>0 DEF TableIsRecent, Staging!ghosts
<1>2. NewestFits'
  BY <1>0 DEF NewestFits
<1>3. NewestDecides'
  BY <1>0 DEF NewestDecides, Staging!ghosts
<1> QED
  BY <1>1, <1>2, <1>3 DEF StagingInv

(* One request is another.                                                  *)
LEMMA RequestChanges ==
    ASSUME RequestsTyped, NEW s \in Slots, NEW r \in Staging!ReqType, r.page \in Nat, stagingReq' = [stagingReq EXCEPT ![s] = r]
    PROVE  RequestsTyped' /\ stagingReq'[s] = r /\ \A q \in Slots : q # s => stagingReq'[q] = stagingReq[q]
  BY DEF RequestsTyped

LEMMA PagerStep ==
    ASSUME Staging!ConstantsFit, StagingInv,
           \/ Staging!Refresh \/ Staging!PreviousPage \/ Staging!NextPage
           \/ \E f \in Staging!Filters : Staging!ChooseFilter(f)
    PROVE  StagingInv'
<1>0. StagingTyped
  BY DEF StagingInv
<1>1. page \in Nat /\ filter \in Staging!Filters
  BY <1>0 DEF StagingTyped
<1>2. CASE Staging!Refresh
  BY <1>1, <1>2, NewLoadStep DEF Staging!Refresh
<1>3. CASE Staging!PreviousPage
  <2>1. page - 1 \in Nat /\ Staging!NewLoad(page - 1, filter)
    BY <1>1, <1>3 DEF Staging!PreviousPage
  <2> QED
    BY <1>1, <2>1, NewLoadStep
<1>4. CASE Staging!NextPage
  <2>1. page + 1 \in Nat /\ Staging!NewLoad(page + 1, filter)
    BY <1>1, <1>4 DEF Staging!NextPage
  <2> QED
    BY <1>1, <2>1, NewLoadStep
<1>5. ASSUME NEW f \in Staging!Filters, Staging!ChooseFilter(f) PROVE StagingInv'
  <2>1. Staging!NewLoad(page, f)
    BY <1>5 DEF Staging!ChooseFilter
  <2> QED
    BY <1>1, <2>1, NewLoadStep
<1> QED
  BY <1>2, <1>3, <1>4, <1>5

LEMMA SelectStep ==
    ASSUME StagingInv, Staging!ToggleAll \/ \E i \in Ids : Staging!ToggleRow(i)
    PROVE  StagingInv'
<1>0. StagingTyped /\ RequestsTyped /\ TableIsRecent /\ NewestFits /\ NewestDecides
  BY DEF StagingInv
<1>1. /\ UNCHANGED <<rows, done, stagingTable, page, filter, deleting, stagingEpoch, stagingReq, made, Staging!ghosts>>
      /\ stagingSelected' \subseteq stagingSelected \cup stagingTable.data
  <2>1. CASE Staging!ToggleAll
    BY <2>1 DEF Staging!ToggleAll
  <2>2. ASSUME NEW i \in Ids, Staging!ToggleRow(i) PROVE <1>1!2 /\ <1>1!1
    BY <2>2 DEF Staging!ToggleRow
  <2> QED
    BY <2>1, <2>2
<1>2. stagingTable.data \subseteq Ids
  BY <1>0 DEF StagingTyped, Staging!ListingType
<1>3. StagingTyped'
  BY <1>0, <1>1, <1>2 DEF StagingTyped, Staging!ghosts
<1>4. RequestsTyped' /\ NewestFits' /\ NewestDecides'
  BY <1>0, <1>1 DEF RequestsTyped, NewestFits, NewestDecides, Staging!ghosts
<1>5. TableIsRecent'
  BY <1>0, <1>1 DEF TableIsRecent, Staging!ghosts
<1> QED
  BY <1>3, <1>4, <1>5 DEF StagingInv

LEMMA SubmitStep ==
    ASSUME Staging!ConstantsFit, StagingInv, NEW kind \in Staging!Flags, NEW ids \in SUBSET Ids, Staging!Submit(kind, ids)
    PROVE  StagingInv'
<1>0. StagingTyped /\ RequestsTyped
  BY DEF StagingInv
<1> DEFINE r == [Staging!NoReq EXCEPT !.kind = kind, !.ids = ids]
<1>1. PICK s \in Slots : stagingReq[s].kind = "none" /\ stagingReq' = [stagingReq EXCEPT ![s] = r]
  BY DEF Staging!Submit
<1>2. /\ made < NewRequests /\ made' = made + 1 /\ deleting' = deleting \cup {kind}
      /\ UNCHANGED <<rows, done, stagingTable, page, filter, stagingSelected, stagingEpoch, Staging!ghosts>>
  BY DEF Staging!Submit
<1>3. r \in Staging!ReqType /\ r.kind # "load" /\ r.page \in Nat
  BY NoReqTyped DEF Staging!ReqType, Staging!Flags
<1> HIDE DEF r
<1>4. RequestsTyped' /\ stagingReq'[s] = r /\ \A q \in Slots : q # s => stagingReq'[q] = stagingReq[q]
  BY <1>0, <1>1, <1>3, RequestChanges
<1>5. made' \in 0..NewRequests
  BY <1>0, <1>2 DEF StagingTyped, Staging!ConstantsFit
<1>6. StagingTyped'
  BY <1>0, <1>2, <1>5 DEF StagingTyped, Staging!ghosts
<1> QED
  BY <1>1, <1>2, <1>3, <1>4, <1>6, RequestStep

LEMMA ServeStep ==
    ASSUME Staging!ConstantsFit, StagingInv, NEW s \in Slots, Staging!Serve(s)
    PROVE  StagingInv'
<1>0. StagingTyped /\ RequestsTyped
  BY DEF StagingInv
<1> DEFINE answer == IF stagingReq[s].kind = "load" THEN Staging!Listing(stagingReq[s].filter, stagingReq[s].page) ELSE Staging!Blank
           r == [stagingReq[s] EXCEPT !.served = TRUE, !.answer = answer]
<1>1. /\ rows' \subseteq rows /\ done' = done \cap rows'
      /\ UNCHANGED <<Staging!pageVars, stagingEpoch, made, Staging!ghosts>>
  BY DEF Staging!Serve
<1>2. answer \in Staging!ListingType
  <2>1. Staging!Match(stagingReq[s].filter) \in SUBSET Ids
    BY <1>0 DEF Staging!Match, StagingTyped
  <2> QED
    BY <2>1, ListingTyped, BlankTyped DEF Staging!Listing
<1> HIDE DEF answer
<1>3. stagingReq' = [stagingReq EXCEPT ![s] = r]
  <2>1. stagingReq' = [stagingReq EXCEPT ![s].served = TRUE, ![s].answer = answer]
    BY DEF Staging!Serve, answer
  <2> QED
    BY <1>0, <2>1 DEF RequestsTyped
<1>4. r \in Staging!ReqType /\ r.kind = stagingReq[s].kind /\ r.page = stagingReq[s].page /\ r.filter = stagingReq[s].filter /\ r.late = stagingReq[s].late
  <2>1. stagingReq[s] \in Staging!ReqType
    BY <1>0 DEF RequestsTyped
  <2> HIDE DEF Staging!ListingType
  <2> QED
    BY <1>2, <2>1 DEF Staging!ReqType
<1>5. stagingReq[s].page \in Nat
  BY <1>0 DEF RequestsTyped
<1> HIDE DEF r
<1>6. RequestsTyped' /\ stagingReq'[s] = r /\ \A q \in Slots : q # s => stagingReq'[q] = stagingReq[q]
  BY <1>0, <1>3, <1>4, <1>5, RequestChanges
<1>7. StagingTyped'
  BY <1>0, <1>1 DEF StagingTyped, Staging!pageVars, Staging!ghosts
<1> QED
  BY <1>1, <1>4, <1>6, <1>7, RequestStep DEF Staging!pageVars

LEMMA RowsStep ==
    ASSUME StagingInv, NEW i \in Ids, Staging!RowDone(i) \/ Staging!Imported(i)
    PROVE  StagingInv'
<1>0. StagingTyped /\ RequestsTyped
  BY DEF StagingInv
<1>1. /\ rows' \subseteq Ids /\ done' \subseteq rows'
      /\ UNCHANGED <<Staging!pageVars, stagingEpoch, stagingReq, made, Staging!ghosts>>
  BY <1>0 DEF Staging!RowDone, Staging!Imported, StagingTyped
<1>2. StagingTyped' /\ RequestsTyped'
  BY <1>0, <1>1 DEF StagingTyped, RequestsTyped, Staging!pageVars, Staging!ghosts
<1> QED
  BY <1>1, <1>2, RequestStep DEF Staging!pageVars

LEMMA LoadArrivesStep ==
    ASSUME Staging!ConstantsFit, StagingInv, NEW s \in Slots, Staging!LoadArrives(s)
    PROVE  StagingInv'
<1>0. StagingTyped /\ RequestsTyped /\ TableIsRecent /\ NewestFits /\ NewestDecides
  BY DEF StagingInv
<1>1. /\ stagingReq[s].kind = "load" /\ stagingTable' = stagingReq[s].answer
      /\ stagingShown' = <<stagingReq[s].page, stagingReq[s].filter>>
      /\ recent' = recent \cup stagingReq[s].answer.data
      /\ overtaken' = stagingReq[s].late
      /\ failed' = (failed /\ stagingReq[s].late)
      /\ stagingReq' = [stagingReq EXCEPT ![s] = Staging!NoReq]
      /\ deleting' \subseteq deleting
      /\ UNCHANGED <<rows, done, page, filter, stagingSelected, stagingEpoch, made>>
  BY DEF Staging!LoadArrives
<1>2. /\ stagingReq[s].answer \in Staging!ListingType /\ stagingReq[s].answer.data \subseteq Ids
      /\ stagingReq[s].filter \in Staging!Filters /\ stagingReq[s].page \in Nat
  BY <1>0 DEF RequestsTyped, Staging!ReqType, Staging!ListingType
<1>3. stagingReq[s].late \in BOOLEAN
  BY <1>0 DEF RequestsTyped, Staging!ReqType
<1>4. RequestsTyped' /\ stagingReq'[s] = Staging!NoReq /\ \A q \in Slots : q # s => stagingReq'[q] = stagingReq[q]
  BY <1>0, <1>1, NoReqTyped, RequestChanges
<1>5. StagingTyped'
  <2>1. overtaken' \in BOOLEAN /\ failed' \in BOOLEAN
    BY <1>0, <1>1, <1>3 DEF StagingTyped
  <2>2. stagingTable' \in Staging!ListingType /\ stagingShown' \in Nat \X Staging!Filters
    BY <1>1, <1>2
  <2> HIDE DEF Staging!ListingType
  <2> QED
    BY <1>0, <1>1, <1>2, <2>1, <2>2 DEF StagingTyped
<1>6. TableIsRecent'
  BY <1>0, <1>1 DEF TableIsRecent
<1>7. NewestFits'
  BY <1>0, <1>1, <1>4, NoReqTyped DEF NewestFits
<1>8. NewestDecides'
  <2>1. CASE stagingReq[s].late
    BY <1>1, <2>1 DEF NewestDecides
  <2>2. CASE ~stagingReq[s].late
    BY <1>0, <1>1, <2>2 DEF NewestDecides, NewestFits
  <2> QED
    BY <2>1, <2>2
<1> QED
  BY <1>4, <1>5, <1>6, <1>7, <1>8 DEF StagingInv

LEMMA LoadFailsStep ==
    ASSUME Staging!ConstantsFit, StagingInv, NEW s \in Slots, Staging!LoadFails(s)
    PROVE  StagingInv'
<1>0. StagingTyped /\ RequestsTyped /\ TableIsRecent /\ NewestFits /\ NewestDecides
  BY DEF StagingInv
<1>1. /\ stagingReq[s].kind = "load"
      /\ failed' = (failed \/ ~stagingReq[s].late)
      /\ stagingReq' = [stagingReq EXCEPT ![s] = Staging!NoReq]
      /\ deleting' \subseteq deleting
      /\ UNCHANGED <<rows, done, stagingTable, page, filter, stagingSelected, stagingEpoch, made,
                     stagingShown, recent, overtaken>>
  BY DEF Staging!LoadFails
<1>2. stagingReq[s].late \in BOOLEAN
  BY <1>0 DEF RequestsTyped, Staging!ReqType
<1>3. RequestsTyped' /\ stagingReq'[s] = Staging!NoReq /\ \A q \in Slots : q # s => stagingReq'[q] = stagingReq[q]
  BY <1>0, <1>1, NoReqTyped, RequestChanges
<1>4. StagingTyped'
  <2>1. failed' \in BOOLEAN
    BY <1>0, <1>1, <1>2 DEF StagingTyped
  <2> QED
    BY <1>0, <1>1, <2>1 DEF StagingTyped
<1>5. TableIsRecent'
  BY <1>0, <1>1 DEF TableIsRecent
<1>6. NewestFits'
  BY <1>0, <1>1, <1>3, NoReqTyped DEF NewestFits
<1>7. NewestDecides'
  <2>1. CASE stagingReq[s].late
    <3>1. CASE \E q \in Slots : stagingReq[q].kind = "load" /\ ~stagingReq[q].late
      <4>1. PICK q \in Slots : stagingReq[q].kind = "load" /\ ~stagingReq[q].late
        BY <3>1
      <4>2. stagingReq'[q] = stagingReq[q]
        BY <1>3, <2>1, <4>1
      <4> QED
        BY <4>1, <4>2 DEF NewestDecides
    <3>2. CASE ~\E q \in Slots : stagingReq[q].kind = "load" /\ ~stagingReq[q].late
      <4>1. failed \/ overtaken \/ stagingShown = <<page, filter>>
        BY <1>0, <3>2 DEF NewestDecides
      <4> QED
        BY <1>1, <4>1 DEF NewestDecides
    <3> QED
      BY <3>1, <3>2
  <2>2. CASE ~stagingReq[s].late
    BY <1>1, <2>2 DEF NewestDecides
  <2> QED
    BY <2>1, <2>2
<1> QED
  BY <1>3, <1>4, <1>5, <1>6, <1>7 DEF StagingInv

LEMMA DeleteStep ==
    ASSUME Staging!ConstantsFit, StagingInv, NEW s \in Slots, Staging!DeleteAnswered(s) \/ Staging!DeleteFails(s)
    PROVE  StagingInv'
<1>0. StagingTyped /\ RequestsTyped
  BY DEF StagingInv
<1>1. CASE Staging!DeleteAnswered(s)
  <2>1. /\ stagingReq[s].kind \in Staging!Flags /\ Staging!Load(s, page, filter, {stagingReq[s].kind})
        /\ UNCHANGED <<rows, done, stagingTable, page, filter, deleting, stagingEpoch, made, stagingShown, overtaken, failed>>
    BY <1>1 DEF Staging!DeleteAnswered
  <2>2. page \in Nat /\ filter \in Staging!Filters /\ made' \in 0..NewRequests
    BY <1>0, <2>1 DEF StagingTyped
  <2> QED
    BY <2>1, <2>2, LoadStep
<1>2. CASE Staging!DeleteFails(s)
  <2>1. /\ stagingReq[s].kind # "load" /\ deleting' \subseteq deleting
        /\ stagingReq' = [stagingReq EXCEPT ![s] = Staging!NoReq]
        /\ UNCHANGED <<rows, done, stagingTable, page, filter, stagingSelected, stagingEpoch, made, Staging!ghosts>>
    BY <1>2 DEF Staging!DeleteFails, Staging!Flags
  <2>2. RequestsTyped' /\ stagingReq'[s] = Staging!NoReq /\ \A q \in Slots : q # s => stagingReq'[q] = stagingReq[q]
    BY <1>0, <2>1, NoReqTyped, RequestChanges
  <2>3. StagingTyped'
    BY <1>0, <2>1 DEF StagingTyped, Staging!ghosts
  <2> QED
    BY <2>1, <2>2, <2>3, NoReqTyped, RequestStep
<1> QED
  BY <1>1, <1>2

(* A logout: no load is of the new session, whose table is empty.           *)
LEMMA StagingLogout ==
    ASSUME Staging!ConstantsFit, StagingInv, Staging!doLogout
    PROVE  StagingInv'
<1>0. StagingTyped /\ RequestsTyped
  BY DEF StagingInv
<1>1. /\ stagingTable' = Staging!Blank
      /\ page' = 0 /\ filter' = "" /\ stagingSelected' = {} /\ deleting' = {}
      /\ stagingShown' = <<0, "">> /\ recent' = {}
      /\ UNCHANGED <<rows, done, made>>
  BY DEF Staging!doLogout
<1>1a. stagingReq' = [s \in Slots |-> [stagingReq[s] EXCEPT !.late = stagingReq[s].kind = "load"]]
  BY DEF Staging!doLogout
<1>2. ASSUME NEW s \in Slots
      PROVE  /\ stagingReq'[s] \in Staging!ReqType /\ stagingReq'[s].page \in Nat
             /\ stagingReq'[s].kind = "load" => stagingReq'[s].late
  <2> DEFINE late == stagingReq[s].kind = "load"
  <2>1. stagingReq'[s] = [stagingReq[s] EXCEPT !.late = late] /\ stagingReq[s] \in Staging!ReqType /\ stagingReq[s].page \in Nat
    BY <1>0, <1>1a DEF RequestsTyped
  <2>2. late \in BOOLEAN
    OBVIOUS
  <2>3. stagingReq[s].kind = "load" => late
    OBVIOUS
  <2> HIDE DEF late
  <2> QED
    BY <2>1, <2>2, <2>3 DEF Staging!ReqType
<1>3. stagingReq' = [s \in Slots |-> stagingReq'[s]]
  BY <1>1a
<1>4. RequestsTyped'
  BY <1>2, <1>3 DEF RequestsTyped
<1>5. stagingEpoch' \in 0..MaxEpoch
  <2>1. MaxEpoch \in Nat /\ stagingEpoch \in 0..MaxEpoch
    BY <1>0 DEF Staging!ConstantsFit, StagingTyped
  <2>2. stagingEpoch < MaxEpoch /\ stagingEpoch' = stagingEpoch + 1
    BY DEF Staging!doLogout
  <2> QED
    BY <2>1, <2>2
<1>6. page' \in Nat /\ filter' \in Staging!Filters /\ stagingShown' = <<page', filter'>>
  BY <1>1 DEF Staging!Filters
<1>7. stagingTable' \in Staging!ListingType /\ stagingTable'.data = {}
  BY <1>1, BlankTyped
<1>8. StagingTyped'
  <2>1. overtaken' \in BOOLEAN /\ failed' \in BOOLEAN
    BY DEF Staging!doLogout
  <2>2. rows' \subseteq Ids /\ done' \subseteq rows' /\ made' \in 0..NewRequests
    BY <1>0, <1>1 DEF StagingTyped
  <2>3. stagingSelected' \subseteq Ids /\ deleting' \subseteq Staging!Flags /\ recent' \subseteq Ids
    BY <1>1
  <2>4. stagingShown' \in Nat \X Staging!Filters
    BY <1>6
  <2> QED
    BY <1>5, <1>6, <1>7, <2>1, <2>2, <2>3, <2>4 DEF StagingTyped
<1>9. TableIsRecent' /\ NewestFits' /\ NewestDecides'
  BY <1>1, <1>2, <1>6, <1>7 DEF TableIsRecent, NewestFits, NewestDecides
<1> QED
  BY <1>4, <1>8, <1>9 DEF StagingInv

LEMMA StagingStep ==
    ASSUME Staging!ConstantsFit, StagingInv, [Staging!Next]_(Staging!vars)
    PROVE  StagingInv'
<1>1. CASE UNCHANGED Staging!vars
  BY <1>1 DEF StagingInv, StagingTyped, RequestsTyped, TableIsRecent, NewestFits, NewestDecides, Staging!vars, Staging!pageVars, Staging!ghosts
<1>2. CASE Staging!Refresh \/ Staging!PreviousPage \/ Staging!NextPage \/ \E f \in Staging!Filters : Staging!ChooseFilter(f)
  BY <1>2, PagerStep
<1>3. CASE Staging!ToggleAll \/ \E i \in Ids : Staging!ToggleRow(i)
  BY <1>3, SelectStep
<1>4. CASE Staging!DeleteSelected \/ Staging!ClearStaging
  <2>1. stagingSelected \in SUBSET Ids
    BY DEF StagingInv, StagingTyped
  <2> QED
    BY <1>4, <2>1, SubmitStep DEF Staging!DeleteSelected, Staging!ClearStaging, Staging!Flags
<1>5. ASSUME NEW i \in Ids, Staging!RowDone(i) \/ Staging!Imported(i) PROVE StagingInv'
  BY <1>5, RowsStep
<1>6. ASSUME NEW s \in Slots, Staging!Serve(s) \/ Staging!Arrives(s) PROVE StagingInv'
  BY <1>6, ServeStep, LoadArrivesStep, LoadFailsStep, DeleteStep DEF Staging!Arrives
<1> QED
  BY <1>1, <1>2, <1>3, <1>4, <1>5, <1>6, StagingLogout DEF Staging!Next

LEMMA StagingIsSettled == StagingInv => Staging!TypeOK /\ Staging!TableIsSettled
<1> SUFFICES ASSUME StagingInv PROVE Staging!TypeOK /\ Staging!TableIsSettled
  OBVIOUS
<1>0. StagingTyped /\ RequestsTyped /\ TableIsRecent /\ NewestDecides
  BY DEF StagingInv
<1>1. Staging!TypeOK
  BY <1>0 DEF Staging!TypeOK, StagingTyped, RequestsTyped
<1>2. Staging!SelectionIsRecent
  BY <1>0 DEF Staging!SelectionIsRecent, TableIsRecent
<1>3. Staging!SettledTableFits
  BY <1>0 DEF Staging!SettledTableFits, NewestDecides, Staging!Loads
<1> QED
  BY <1>1, <1>2, <1>3 DEF Staging!TableIsSettled

-----------------------------------------------------------------------------
(* BrowserTools *)

(* The messages all belong to the chat there is.                            *)
Pure == \A i \in 1..Len(chat.messages) : chat.messages[i].chat = chat.number

(* A reply is on its way to a question of this chat.                        *)
ToolsMine(s) == toolsJob[s].kind = "reply" /\ toolsJob[s].chat = chat.number

RepliesAreKnown == \A s \in Slots : toolsJob[s].kind = "reply" => toolsJob[s].chat <= chat.number

(* While nothing came in between, questions and replies take turns, and one *)
(* reply at the most is on its way, to the last question.                   *)
TurnsAreTaken ==
    Pure => /\ \A i \in 1..Len(chat.messages) :
                  chat.messages[i].role = IF i % 2 = 1 THEN "user" ELSE "assistant"
            /\ Len(chat.messages) % 2 = 1 => chat.typing
            /\ \A s \in Slots : ToolsMine(s) => Len(chat.messages) % 2 = 1
            /\ \A s, q \in Slots : ToolsMine(s) /\ ToolsMine(q) => s = q

SessionTyped ==
    /\ toolsToken \in BOOLEAN /\ toolsValid \in BOOLEAN /\ toolsEpoch \in 0..MaxEpoch

ToolsTyped ==
    /\ busy \in [Tools!Tools -> BOOLEAN]
    /\ status \in [{"collector", "pg"} -> {"", "ok", "error"}]
    /\ chat \in Tools!ChatType
    /\ toolsJob \in [Slots -> Tools!JobType]

NobodyWaits == ~toolsToken => \A t \in Tools!Tools : ~busy[t]

ToolsInv ==
    /\ SessionTyped /\ ToolsTyped /\ NobodyWaits
    /\ Tools!DisabledMeansUnderWay /\ RepliesAreKnown /\ TurnsAreTaken

LEMMA KindsDiffer ==
    /\ "reply" \notin Tools!Tools /\ "none" \notin Tools!Tools /\ Tools!Tools = {"test", "reload", "pgtest"}
  BY DEF Tools!Tools

LEMMA NoJobTyped ==
    ASSUME Tools!ConstantsFit
    PROVE  Tools!NoJob \in Tools!JobType /\ Tools!NoJob.kind = "none"
  BY DEF Tools!NoJob, Tools!JobType, Tools!ConstantsFit

LEMMA ToolsInit == Tools!ConstantsFit /\ Tools!Init => ToolsInv
<1> SUFFICES ASSUME Tools!ConstantsFit, Tools!Init PROVE ToolsInv
  OBVIOUS
<1>1. /\ toolsToken = TRUE /\ toolsValid = TRUE
  BY DEF Tools!Init
<1>2. toolsEpoch \in 0..MaxEpoch
  <2>1. toolsEpoch = 0
    BY DEF Tools!Init
  <2>2. MaxEpoch \in Nat
    BY DEF Tools!ConstantsFit
  <2> QED
    BY <2>1, <2>2
<1>3. busy \in [Tools!Tools -> BOOLEAN] /\ \A t \in Tools!Tools : ~busy[t]
  BY DEF Tools!Init
<1>4. status \in [{"collector", "pg"} -> {"", "ok", "error"}]
  BY DEF Tools!Init
<1>5. /\ chat \in Tools!ChatType /\ chat.messages = <<>> /\ ~chat.typing
  <2>1. chat = [open |-> FALSE, typing |-> FALSE, messages |-> <<>>, number |-> 0]
    BY DEF Tools!Init, Tools!NoChat
  <2>2. <<>> \in Seq(Tools!MessageType) /\ 0 \in 0..MaxChats
    BY DEF Tools!ConstantsFit
  <2>3. chat \in Tools!ChatType
    BY <2>1, <2>2 DEF Tools!ChatType
  <2> QED
    BY <2>1, <2>3
<1>6. toolsJob \in [Slots -> Tools!JobType] /\ \A s \in Slots : toolsJob[s].kind = "none"
  BY NoJobTyped DEF Tools!Init
<1>7. SessionTyped
  BY <1>1, <1>2 DEF SessionTyped
<1>8. ToolsTyped
  BY <1>3, <1>4, <1>5, <1>6 DEF ToolsTyped
<1>9. NobodyWaits /\ Tools!DisabledMeansUnderWay
  BY <1>3, <1>5 DEF NobodyWaits, Tools!DisabledMeansUnderWay
<1>10. RepliesAreKnown
  BY <1>6 DEF RepliesAreKnown
<1>11. TurnsAreTaken
  <2>1. Len(chat.messages) = 0 /\ \A s \in Slots : ~ToolsMine(s)
    BY <1>5, <1>6 DEF ToolsMine
  <2>2. ~(Len(chat.messages) % 2 = 1)
    BY <2>1
  <2> QED
    BY <2>1, <2>2 DEF TurnsAreTaken
<1> QED
  BY <1>7, <1>8, <1>9, <1>10, <1>11 DEF ToolsInv

(* The chat as it stands, while replies come neither nor are asked for.     *)
LEMMA ChatStays ==
    ASSUME RepliesAreKnown, TurnsAreTaken, chat'.messages = chat.messages, chat'.number = chat.number,
           chat'.typing = chat.typing,
           \A s \in Slots : toolsJob'[s].kind = "reply" => toolsJob'[s] = toolsJob[s]
    PROVE  RepliesAreKnown' /\ TurnsAreTaken'
<1>1. RepliesAreKnown'
  BY DEF RepliesAreKnown
<1>2. (Pure' <=> Pure) /\ \A s \in Slots : ToolsMine(s)' => ToolsMine(s)
  BY DEF Pure, ToolsMine
<1>3. TurnsAreTaken'
  BY <1>2 DEF TurnsAreTaken
<1> QED
  BY <1>1, <1>3

(* A chat is cleared: no reply is to a question of the next one.            *)
LEMMA ChatCleared ==
    ASSUME Tools!ConstantsFit, RepliesAreKnown, ToolsTyped, chat'.messages = <<>>, chat'.number = chat.number + 1,
           \A s \in Slots : toolsJob'[s].kind = "reply" => toolsJob'[s] = toolsJob[s]
    PROVE  RepliesAreKnown' /\ TurnsAreTaken'
<1>1. chat.number \in Nat /\ \A s \in Slots : toolsJob[s].chat \in Nat
  <2>1. MaxChats \in Nat
    BY DEF Tools!ConstantsFit
  <2>2. chat.number \in 0..MaxChats /\ \A s \in Slots : toolsJob[s].chat \in 0..MaxChats
    BY DEF ToolsTyped, Tools!ChatType, Tools!JobType
  <2> QED
    BY <2>1, <2>2
<1>2. \A s \in Slots : toolsJob'[s].kind = "reply" => toolsJob'[s].chat <= chat.number
  BY DEF RepliesAreKnown
<1>3. \A s \in Slots : toolsJob'[s].kind = "reply" => toolsJob'[s].chat \in Nat
  BY <1>1
<1>4. RepliesAreKnown'
  <2> SUFFICES ASSUME NEW s \in Slots, toolsJob'[s].kind = "reply" PROVE toolsJob'[s].chat <= chat'.number
    BY DEF RepliesAreKnown
  <2> QED
    BY <1>1, <1>2, <1>3
<1>5. \A s \in Slots : ~ToolsMine(s)'
  <2> SUFFICES ASSUME NEW s \in Slots, toolsJob'[s].kind = "reply" PROVE toolsJob'[s].chat # chat'.number
    BY DEF ToolsMine
  <2> QED
    BY <1>1, <1>2, <1>3
<1>6. Len(chat'.messages) = 0
  OBVIOUS
<1>7. ~(Len(chat'.messages) % 2 = 1)
  BY <1>6
<1>8. TurnsAreTaken'
  BY <1>5, <1>6, <1>7 DEF TurnsAreTaken
<1> QED
  BY <1>4, <1>8

LEMMA ClearedTyped ==
    ASSUME Tools!ConstantsFit, ToolsTyped, chat.number < MaxChats, NEW open \in BOOLEAN
    PROVE  /\ [Tools!Cleared EXCEPT !.open = open] \in Tools!ChatType
           /\ [Tools!Cleared EXCEPT !.open = open].messages = <<>>
           /\ [Tools!Cleared EXCEPT !.open = open].number = chat.number + 1
           /\ [Tools!Cleared EXCEPT !.open = open].typing = chat.typing
<1>1. chat \in Tools!ChatType /\ chat.number \in 0..MaxChats /\ MaxChats \in Nat
  BY DEF ToolsTyped, Tools!ConstantsFit, Tools!ChatType
<1>2. chat.number + 1 \in 0..MaxChats /\ <<>> \in Seq(Tools!MessageType)
  BY <1>1
<1> DEFINE n == chat.number + 1
<1>3. Tools!Cleared = [chat EXCEPT !.messages = <<>>, !.open = FALSE, !.number = n]
  BY DEF Tools!Cleared
<1>4. n \in 0..MaxChats /\ n = chat.number + 1
  BY <1>2
<1> HIDE DEF n
<1> DEFINE c == [Tools!Cleared EXCEPT !.open = open]
<1>5. c.messages = <<>> /\ c.number = n
  BY <1>1, <1>3 DEF Tools!ChatType
<1>6. c.typing = chat.typing
  BY <1>1, <1>3 DEF Tools!ChatType
<1>7. c \in Tools!ChatType
  BY <1>1, <1>2, <1>3, <1>4 DEF Tools!ChatType
<1> QED
  BY <1>4, <1>5, <1>6, <1>7

LEMMA ClearedIsClosed ==
    ASSUME ToolsTyped
    PROVE  Tools!Cleared = [Tools!Cleared EXCEPT !.open = FALSE]
  BY DEF Tools!Cleared, ToolsTyped, Tools!ChatType

(* One coroutine is another.                                                *)
LEMMA JobChanges ==
    ASSUME ToolsTyped, NEW s \in Slots, NEW j \in Tools!JobType, toolsJob' = [toolsJob EXCEPT ![s] = j]
    PROVE  toolsJob' \in [Slots -> Tools!JobType] /\ toolsJob'[s] = j /\ \A q \in Slots : q # s => toolsJob'[q] = toolsJob[q]
  BY DEF ToolsTyped

LEMMA SessionStep ==
    ASSUME Tools!ConstantsFit, ToolsInv, Tools!doLogout \/ Tools!doLogin \/ Tools!Expire
    PROVE  ToolsInv'
<1>0. /\ SessionTyped /\ ToolsTyped /\ NobodyWaits
      /\ Tools!DisabledMeansUnderWay /\ RepliesAreKnown /\ TurnsAreTaken
  BY DEF ToolsInv
<1>1. CASE Tools!doLogout
  <2>1. /\ chat.number < MaxChats /\ toolsToken' = FALSE
        /\ busy' = [t \in Tools!Tools |-> FALSE]
        /\ status' = [p \in {"collector", "pg"} |-> ""]
        /\ chat' = Tools!Cleared /\ UNCHANGED <<toolsValid, toolsEpoch, toolsJob>>
    BY <1>1 DEF Tools!doLogout, Tools!LogOut
  <2>2. /\ chat' \in Tools!ChatType /\ chat'.messages = <<>> /\ chat'.number = chat.number + 1
        /\ chat'.typing = chat.typing
    BY <1>0, <2>1, ClearedTyped, ClearedIsClosed
  <2>3. busy' \in [Tools!Tools -> BOOLEAN] /\ \A t \in Tools!Tools : ~busy'[t]
    BY <2>1
  <2>4. status' \in [{"collector", "pg"} -> {"", "ok", "error"}]
    BY <2>1
  <2>5. SessionTyped'
    BY <1>0, <2>1 DEF SessionTyped
  <2>6. ToolsTyped'
    BY <1>0, <2>1, <2>2, <2>3, <2>4 DEF ToolsTyped
  <2>7. NobodyWaits' /\ Tools!DisabledMeansUnderWay'
    BY <1>0, <2>1, <2>2, <2>3 DEF NobodyWaits, Tools!DisabledMeansUnderWay
  <2>8. RepliesAreKnown' /\ TurnsAreTaken'
    BY <1>0, <2>1, <2>2, ChatCleared
  <2> QED
    BY <2>5, <2>6, <2>7, <2>8 DEF ToolsInv
<1>2. CASE Tools!doLogin \/ Tools!Expire
  <2>1. /\ UNCHANGED <<busy, status, chat, toolsJob>>
        /\ ~toolsToken' => ~toolsToken
    BY <1>2 DEF Tools!doLogin, Tools!Expire
  <2>2. SessionTyped'
    <3>1. toolsToken' \in BOOLEAN /\ toolsValid' \in BOOLEAN
      BY <1>0, <1>2 DEF Tools!doLogin, Tools!Expire, SessionTyped
    <3>2. toolsEpoch' \in 0..MaxEpoch
      BY <1>0, <1>2 DEF Tools!doLogin, Tools!Expire, SessionTyped, Tools!ConstantsFit
    <3> QED
      BY <3>1, <3>2 DEF SessionTyped
  <2>3. ToolsTyped' /\ NobodyWaits' /\ Tools!DisabledMeansUnderWay'
    BY <1>0, <2>1 DEF ToolsTyped, NobodyWaits, Tools!DisabledMeansUnderWay
  <2>4. RepliesAreKnown' /\ TurnsAreTaken'
    BY <1>0, <2>1, ChatStays
  <2> QED
    BY <2>2, <2>3, <2>4 DEF ToolsInv
<1> QED
  BY <1>1, <1>2

LEMMA PressStep ==
    ASSUME Tools!ConstantsFit, ToolsInv, NEW t \in Tools!Tools, Tools!Press(t)
    PROVE  ToolsInv'
<1>0. /\ SessionTyped /\ ToolsTyped /\ NobodyWaits
      /\ Tools!DisabledMeansUnderWay /\ RepliesAreKnown /\ TurnsAreTaken
  BY DEF ToolsInv
<1> DEFINE j == [Tools!NoJob EXCEPT !.kind = t, !.as = toolsEpoch]
           kept == IF t = "pgtest" THEN status["collector"] ELSE ""
<1>1. PICK s \in Slots : toolsJob[s].kind = "none" /\ toolsJob' = [toolsJob EXCEPT ![s] = j]
  BY DEF Tools!Press, Tools!Start
<1>2. /\ toolsToken /\ busy' = [busy EXCEPT ![t] = TRUE]
      /\ status' = [status EXCEPT !["collector"] = kept]
      /\ UNCHANGED <<toolsToken, toolsValid, toolsEpoch, chat>>
  BY DEF Tools!Press
<1>3. j \in Tools!JobType /\ j.kind = t
  BY <1>0, NoJobTyped DEF Tools!JobType, SessionTyped
<1> HIDE DEF j
<1>4. toolsJob' \in [Slots -> Tools!JobType] /\ toolsJob'[s] = j /\ \A q \in Slots : q # s => toolsJob'[q] = toolsJob[q]
  BY <1>0, <1>1, <1>3, JobChanges
<1>5. busy' \in [Tools!Tools -> BOOLEAN] /\ \A u \in Tools!Tools : u # t => busy'[u] = busy[u]
  BY <1>0, <1>2 DEF ToolsTyped
<1>6. status' \in [{"collector", "pg"} -> {"", "ok", "error"}]
  <2>1. status \in [{"collector", "pg"} -> {"", "ok", "error"}] /\ kept \in {"", "ok", "error"}
    BY <1>0 DEF ToolsTyped
  <2> HIDE DEF kept
  <2> QED
    BY <1>2, <2>1
<1>7. SessionTyped' /\ ToolsTyped'
  BY <1>0, <1>2, <1>4, <1>5, <1>6 DEF SessionTyped, ToolsTyped
<1>8. NobodyWaits'
  BY <1>2 DEF NobodyWaits
<1>9. Tools!DisabledMeansUnderWay'
  <2>1. ASSUME NEW u \in Tools!Tools, busy'[u] PROVE \E q \in Slots : toolsJob'[q].kind = u
    <3>1. CASE u = t
      BY <1>3, <1>4, <3>1
    <3>2. CASE u # t
      <4>1. PICK q \in Slots : toolsJob[q].kind = u
        BY <1>0, <1>5, <2>1, <3>2 DEF Tools!DisabledMeansUnderWay
      <4>2. q # s
        BY <1>1, <4>1, KindsDiffer
      <4> QED
        BY <1>4, <4>1, <4>2
    <3> QED
      BY <3>1, <3>2
  <2>2. ASSUME chat'.typing PROVE \E q \in Slots : toolsJob'[q].kind = "reply"
    <3>1. PICK q \in Slots : toolsJob[q].kind = "reply"
      BY <1>0, <1>2, <2>2 DEF Tools!DisabledMeansUnderWay
    <3>2. q # s
      BY <1>1, <3>1
    <3> QED
      BY <1>4, <3>1, <3>2
  <2> QED
    BY <2>1, <2>2 DEF Tools!DisabledMeansUnderWay
<1>10. \A q \in Slots : toolsJob'[q].kind = "reply" => toolsJob'[q] = toolsJob[q]
  BY <1>3, <1>4, KindsDiffer
<1>11. RepliesAreKnown' /\ TurnsAreTaken'
  BY <1>0, <1>2, <1>10, ChatStays
<1> QED
  BY <1>7, <1>8, <1>9, <1>11 DEF ToolsInv

LEMMA ToolsServeStep ==
    ASSUME Tools!ConstantsFit, ToolsInv, NEW s \in Slots, Tools!Serve(s)
    PROVE  ToolsInv'
<1>0. /\ SessionTyped /\ ToolsTyped /\ NobodyWaits
      /\ Tools!DisabledMeansUnderWay /\ RepliesAreKnown /\ TurnsAreTaken
  BY DEF ToolsInv
<1>1. PICK c \in Tools!Codes : toolsJob' = [toolsJob EXCEPT ![s].code = c]
  BY DEF Tools!Serve
<1>2. /\ toolsJob[s].kind \in Tools!Tools /\ UNCHANGED <<toolsToken, toolsValid, toolsEpoch, busy, status, chat>>
  BY DEF Tools!Serve
<1>3. /\ toolsJob' \in [Slots -> Tools!JobType] /\ toolsJob'[s].kind = toolsJob[s].kind
      /\ \A q \in Slots : q # s => toolsJob'[q] = toolsJob[q]
  BY <1>0, <1>1 DEF ToolsTyped, Tools!JobType
<1>4. SessionTyped' /\ ToolsTyped' /\ NobodyWaits'
  BY <1>0, <1>2, <1>3 DEF SessionTyped, ToolsTyped, NobodyWaits
<1>5. \A q \in Slots : toolsJob'[q].kind = toolsJob[q].kind
  BY <1>3
<1>6. Tools!DisabledMeansUnderWay'
  BY <1>0, <1>2, <1>5 DEF Tools!DisabledMeansUnderWay
<1>7. \A q \in Slots : toolsJob'[q].kind = "reply" => toolsJob'[q] = toolsJob[q]
  BY <1>2, <1>3, KindsDiffer
<1>8. RepliesAreKnown' /\ TurnsAreTaken'
  BY <1>0, <1>2, <1>7, ChatStays
<1> QED
  BY <1>4, <1>6, <1>8 DEF ToolsInv

(* A test or reload is over: its own flag opens, and others may.            *)
LEMMA FlagsStep ==
    ASSUME Tools!ConstantsFit, ToolsInv, NEW s \in Slots, toolsJob[s].kind \in Tools!Tools, toolsJob' = [toolsJob EXCEPT ![s] = Tools!NoJob],
           busy' \in [Tools!Tools -> BOOLEAN],
           \A u \in Tools!Tools : busy'[u] => busy[u] /\ u # toolsJob[s].kind
    PROVE  /\ toolsJob' \in [Slots -> Tools!JobType]
           /\ \A u \in Tools!Tools : busy'[u] => \E q \in Slots : toolsJob'[q].kind = u
           /\ chat.typing => \E q \in Slots : toolsJob'[q].kind = "reply"
           /\ \A q \in Slots : toolsJob'[q].kind = "reply" => toolsJob'[q] = toolsJob[q]
<1>0. ToolsTyped /\ Tools!DisabledMeansUnderWay
  BY DEF ToolsInv
<1>1. toolsJob' \in [Slots -> Tools!JobType] /\ toolsJob'[s] = Tools!NoJob /\ \A q \in Slots : q # s => toolsJob'[q] = toolsJob[q]
  BY <1>0, JobChanges, NoJobTyped
<1>2. ASSUME NEW u \in Tools!Tools, busy'[u] PROVE \E q \in Slots : toolsJob'[q].kind = u
  <2>1. PICK q \in Slots : toolsJob[q].kind = u
    BY <1>0, <1>2 DEF Tools!DisabledMeansUnderWay
  <2>2. q # s
    BY <1>2, <2>1
  <2> QED
    BY <1>1, <2>1, <2>2
<1>3. ASSUME chat.typing PROVE \E q \in Slots : toolsJob'[q].kind = "reply"
  <2>1. PICK q \in Slots : toolsJob[q].kind = "reply"
    BY <1>0, <1>3 DEF Tools!DisabledMeansUnderWay
  <2>2. q # s
    BY <2>1, KindsDiffer
  <2> QED
    BY <1>1, <2>1, <2>2
<1>4. \A q \in Slots : toolsJob'[q].kind = "reply" => toolsJob'[q] = toolsJob[q]
  BY <1>1, NoJobTyped
<1> QED
  BY <1>1, <1>2, <1>3, <1>4

LEMMA AnsweredStep ==
    ASSUME Tools!ConstantsFit, ToolsInv, NEW s \in Slots, Tools!Answered(s)
    PROVE  ToolsInv'
<1>0. /\ SessionTyped /\ ToolsTyped /\ NobodyWaits
      /\ Tools!DisabledMeansUnderWay /\ RepliesAreKnown /\ TurnsAreTaken
  BY DEF ToolsInv
<1> DEFINE t == toolsJob[s].kind
           out == toolsJob[s].code = "unauthorized" /\ toolsToken
           mark == IF toolsJob[s].code = "ok" THEN "ok" ELSE "error"
<1>1. /\ t \in Tools!Tools
      /\ IF out THEN chat.number < MaxChats /\ chat' = Tools!Cleared ELSE UNCHANGED chat
      /\ toolsToken' = (toolsToken /\ ~out)
      /\ busy' = [u \in Tools!Tools |-> IF out THEN FALSE ELSE busy[u] /\ u # t]
      /\ status' = [p \in {"collector", "pg"} |->
                      IF p = Tools!Buttons[t] THEN mark ELSE IF out THEN "" ELSE status[p]]
      /\ toolsJob' = [toolsJob EXCEPT ![s] = Tools!NoJob]
      /\ UNCHANGED <<toolsValid, toolsEpoch>>
  BY DEF Tools!Answered
<1>2. out \in BOOLEAN /\ mark \in {"", "ok", "error"}
  OBVIOUS
<1> HIDE DEF out, mark
<1>3. busy' \in [Tools!Tools -> BOOLEAN] /\ \A u \in Tools!Tools : busy'[u] => busy[u] /\ u # t /\ ~out
  <2>1. busy \in [Tools!Tools -> BOOLEAN]
    BY <1>0 DEF ToolsTyped
  <2>2. CASE out
    <3>1. busy' = [u \in Tools!Tools |-> FALSE]
      BY <1>1, <2>2
    <3> QED
      BY <3>1
  <2>3. CASE ~out
    <3>1. busy' = [u \in Tools!Tools |-> busy[u] /\ u # t]
      BY <1>1, <2>3
    <3> QED
      BY <2>1, <2>3, <3>1
  <2> QED
    BY <2>2, <2>3
<1>4. status' \in [{"collector", "pg"} -> {"", "ok", "error"}]
  BY <1>0, <1>1, <1>2 DEF ToolsTyped
<1>5. /\ toolsJob' \in [Slots -> Tools!JobType]
      /\ \A u \in Tools!Tools : busy'[u] => \E q \in Slots : toolsJob'[q].kind = u
      /\ chat.typing => \E q \in Slots : toolsJob'[q].kind = "reply"
      /\ \A q \in Slots : toolsJob'[q].kind = "reply" => toolsJob'[q] = toolsJob[q]
  BY <1>1, <1>3, FlagsStep
<1>6. /\ chat' \in Tools!ChatType /\ chat'.typing = chat.typing
      /\ RepliesAreKnown' /\ TurnsAreTaken'
  <2>1. CASE out
    <3>1. chat.number < MaxChats /\ chat' = Tools!Cleared
      BY <1>1, <2>1
    <3>2. /\ chat' \in Tools!ChatType /\ chat'.messages = <<>> /\ chat'.number = chat.number + 1
          /\ chat'.typing = chat.typing
      BY <1>0, <3>1, ClearedTyped, ClearedIsClosed
    <3> QED
      BY <1>0, <1>5, <3>2, ChatCleared
  <2>2. CASE ~out
    <3>1. chat' = chat
      BY <1>1, <2>2
    <3> QED
      BY <1>0, <1>5, <3>1, ChatStays DEF ToolsTyped
  <2> QED
    BY <2>1, <2>2
<1>7. SessionTyped'
  <2>1. toolsToken' \in BOOLEAN
    BY <1>1
  <2> QED
    BY <1>0, <1>1, <2>1 DEF SessionTyped
<1>8. ToolsTyped'
  BY <1>3, <1>4, <1>5, <1>6 DEF ToolsTyped
<1>9. NobodyWaits'
  <2> SUFFICES ASSUME ~toolsToken' PROVE \A u \in Tools!Tools : ~busy'[u]
    BY DEF NobodyWaits
  <2>1. CASE out
    BY <1>3, <2>1
  <2>2. CASE ~out
    <3>1. ~toolsToken
      BY <1>1, <2>2
    <3> QED
      BY <1>0, <1>3, <3>1 DEF NobodyWaits
  <2> QED
    BY <2>1, <2>2
<1>10. Tools!DisabledMeansUnderWay'
  BY <1>5, <1>6 DEF Tools!DisabledMeansUnderWay
<1> QED
  BY <1>6, <1>7, <1>8, <1>9, <1>10 DEF ToolsInv

LEMMA LostStep ==
    ASSUME Tools!ConstantsFit, ToolsInv, NEW s \in Slots, Tools!Lost(s)
    PROVE  ToolsInv'
<1>0. /\ SessionTyped /\ ToolsTyped /\ NobodyWaits
      /\ Tools!DisabledMeansUnderWay /\ RepliesAreKnown /\ TurnsAreTaken
  BY DEF ToolsInv
<1>1. /\ toolsJob[s].kind \in Tools!Tools
      /\ busy' = [busy EXCEPT ![toolsJob[s].kind] = FALSE]
      /\ status' = [status EXCEPT ![Tools!Buttons[toolsJob[s].kind]] = "error"]
      /\ toolsJob' = [toolsJob EXCEPT ![s] = Tools!NoJob]
      /\ UNCHANGED <<toolsToken, toolsValid, toolsEpoch, chat>>
  BY DEF Tools!Lost
<1>2. busy' \in [Tools!Tools -> BOOLEAN] /\ \A u \in Tools!Tools : busy'[u] => busy[u] /\ u # toolsJob[s].kind
  BY <1>0, <1>1 DEF ToolsTyped
<1>3. status' \in [{"collector", "pg"} -> {"", "ok", "error"}]
  BY <1>0, <1>1 DEF ToolsTyped
<1>4. /\ toolsJob' \in [Slots -> Tools!JobType]
      /\ \A u \in Tools!Tools : busy'[u] => \E q \in Slots : toolsJob'[q].kind = u
      /\ chat.typing => \E q \in Slots : toolsJob'[q].kind = "reply"
      /\ \A q \in Slots : toolsJob'[q].kind = "reply" => toolsJob'[q] = toolsJob[q]
  BY <1>1, <1>2, FlagsStep
<1>5. SessionTyped' /\ ToolsTyped'
  BY <1>0, <1>1, <1>2, <1>3, <1>4 DEF SessionTyped, ToolsTyped
<1>6. NobodyWaits' /\ Tools!DisabledMeansUnderWay'
  BY <1>0, <1>1, <1>2, <1>4 DEF NobodyWaits, Tools!DisabledMeansUnderWay
<1>7. RepliesAreKnown' /\ TurnsAreTaken'
  BY <1>0, <1>1, <1>4, ChatStays
<1> QED
  BY <1>5, <1>6, <1>7 DEF ToolsInv

LEMMA ChatStep ==
    ASSUME Tools!ConstantsFit, ToolsInv, Tools!ClearChat \/ \E b \in BOOLEAN : Tools!openChat(b)
    PROVE  ToolsInv'
<1>0. /\ SessionTyped /\ ToolsTyped /\ NobodyWaits
      /\ Tools!DisabledMeansUnderWay /\ RepliesAreKnown /\ TurnsAreTaken
  BY DEF ToolsInv
<1>1. UNCHANGED <<toolsToken, toolsValid, toolsEpoch, busy, status, toolsJob>>
  BY DEF Tools!ClearChat, Tools!openChat
<1>2. /\ chat' \in Tools!ChatType /\ chat'.typing = chat.typing
      /\ RepliesAreKnown' /\ TurnsAreTaken'
  <2>1. CASE Tools!ClearChat
    <3>1. chat.number < MaxChats /\ chat' = [Tools!Cleared EXCEPT !.open = TRUE]
      BY <2>1 DEF Tools!ClearChat
    <3>2. /\ chat' \in Tools!ChatType /\ chat'.messages = <<>> /\ chat'.number = chat.number + 1
          /\ chat'.typing = chat.typing
      BY <1>0, <3>1, ClearedTyped
    <3> QED
      BY <1>0, <1>1, <3>2, ChatCleared
  <2>2. ASSUME NEW b \in BOOLEAN, Tools!openChat(b)
        PROVE  /\ chat' \in Tools!ChatType /\ chat'.typing = chat.typing
               /\ RepliesAreKnown' /\ TurnsAreTaken'
    <3>1. chat' = [chat EXCEPT !.open = b]
      BY <2>2 DEF Tools!openChat
    <3>2. /\ chat' \in Tools!ChatType /\ chat'.messages = chat.messages /\ chat'.number = chat.number
          /\ chat'.typing = chat.typing
      BY <1>0, <3>1 DEF ToolsTyped, Tools!ChatType
    <3> QED
      BY <1>0, <1>1, <3>2, ChatStays
  <2> QED
    BY <2>1, <2>2
<1>3. SessionTyped' /\ ToolsTyped' /\ NobodyWaits' /\ Tools!DisabledMeansUnderWay'
  BY <1>0, <1>1, <1>2 DEF SessionTyped, ToolsTyped, NobodyWaits, Tools!DisabledMeansUnderWay
<1> QED
  BY <1>2, <1>3 DEF ToolsInv

(* A message is added to the chat.                                          *)
LEMMA SaidMessages ==
    ASSUME ToolsTyped, NEW role \in {"user", "assistant"}, NEW n \in 0..MaxChats, NEW typing \in BOOLEAN,
           chat' = [chat EXCEPT !.messages = Tools!Say(role, n), !.typing = typing]
    PROVE  /\ chat' \in Tools!ChatType /\ chat'.number = chat.number /\ chat'.typing = typing
           /\ Len(chat'.messages) = Len(chat.messages) + 1 /\ Len(chat.messages) \in Nat
           /\ \A i \in 1..Len(chat.messages) : chat'.messages[i] = chat.messages[i]
           /\ chat'.messages[Len(chat.messages) + 1].role = role
           /\ chat'.messages[Len(chat.messages) + 1].chat = n
<1> DEFINE m == [role |-> role, chat |-> n]
           new == Append(chat.messages, m)
<1>1. m \in Tools!MessageType /\ m.role = role /\ m.chat = n
  BY DEF Tools!MessageType
<1>2. chat.messages \in Seq(Tools!MessageType) /\ chat \in Tools!ChatType
  BY DEF ToolsTyped, Tools!ChatType
<1> HIDE DEF m
<1>3. /\ new \in Seq(Tools!MessageType) /\ Len(new) = Len(chat.messages) + 1 /\ Len(chat.messages) \in Nat
      /\ \A i \in 1..Len(chat.messages) : new[i] = chat.messages[i]
      /\ new[Len(chat.messages) + 1] = m
  BY <1>1, <1>2
<1>4. chat' = [chat EXCEPT !.messages = new, !.typing = typing]
  BY DEF Tools!Say, m
<1> HIDE DEF new
<1>5. chat'.messages = new /\ chat'.number = chat.number
  BY <1>2, <1>4 DEF Tools!ChatType
<1>6. chat'.typing = typing
  BY <1>2, <1>4 DEF Tools!ChatType
<1>7. chat' \in Tools!ChatType
  BY <1>2, <1>3, <1>4 DEF Tools!ChatType
<1> QED
  BY <1>1, <1>3, <1>5, <1>6, <1>7

LEMMA OddAndEven ==
    ASSUME NEW n \in Nat
    PROVE  /\ n % 2 = 1 \/ n % 2 = 0
           /\ n % 2 = 1 => (n + 1) % 2 # 1
           /\ n % 2 # 1 => (n + 1) % 2 = 1
  OBVIOUS

(* The roles with one more message in turn.                                 *)
LEMMA TurnsGoOn ==
    ASSUME ToolsTyped, NEW role \in {"user", "assistant"}, NEW n \in Nat, n = Len(chat.messages),
           Len(chat'.messages) = n + 1,
           \A i \in 1..n : chat'.messages[i] = chat.messages[i],
           chat'.messages[n + 1].role = role,
           role = IF (n + 1) % 2 = 1 THEN "user" ELSE "assistant",
           \A i \in 1..n : chat.messages[i].role = IF i % 2 = 1 THEN "user" ELSE "assistant"
    PROVE  \A i \in 1..Len(chat'.messages) :
               chat'.messages[i].role = IF i % 2 = 1 THEN "user" ELSE "assistant"
<1> SUFFICES ASSUME NEW i \in 1..(n + 1)
             PROVE  chat'.messages[i].role = IF i % 2 = 1 THEN "user" ELSE "assistant"
  OBVIOUS
<1>1. CASE i = n + 1
  BY <1>1
<1>2. CASE i # n + 1
  <2>1. i \in 1..n
    BY <1>2
  <2> QED
    BY <2>1
<1> QED
  BY <1>1, <1>2

LEMMA SendStep ==
    ASSUME Tools!ConstantsFit, ToolsInv, Tools!chatSend
    PROVE  ToolsInv'
<1>0. /\ SessionTyped /\ ToolsTyped /\ NobodyWaits
      /\ Tools!DisabledMeansUnderWay /\ RepliesAreKnown /\ TurnsAreTaken
  BY DEF ToolsInv
<1> DEFINE j == [Tools!NoJob EXCEPT !.kind = "reply", !.chat = chat.number]
           n == Len(chat.messages)
<1>1. PICK s \in Slots : toolsJob[s].kind = "none" /\ toolsJob' = [toolsJob EXCEPT ![s] = j]
  BY DEF Tools!chatSend, Tools!Start
<1>2. /\ ~chat.typing \/ chat.messages = <<>>
      /\ chat' = [chat EXCEPT !.messages = Tools!Say("user", chat.number), !.typing = TRUE]
      /\ UNCHANGED <<toolsToken, toolsValid, toolsEpoch, busy, status>>
  BY DEF Tools!chatSend, Tools!CanAsk
<1>3. chat.number \in 0..MaxChats
  BY <1>0 DEF ToolsTyped, Tools!ChatType
<1>4. j \in Tools!JobType /\ j.kind = "reply" /\ j.chat = chat.number
  BY <1>3, NoJobTyped DEF Tools!JobType
<1> HIDE DEF j
<1>5. toolsJob' \in [Slots -> Tools!JobType] /\ toolsJob'[s] = j /\ \A q \in Slots : q # s => toolsJob'[q] = toolsJob[q]
  BY <1>0, <1>1, <1>4, JobChanges
<1>6. /\ chat' \in Tools!ChatType /\ chat'.number = chat.number /\ chat'.typing = TRUE
      /\ Len(chat'.messages) = n + 1 /\ n \in Nat
      /\ \A i \in 1..n : chat'.messages[i] = chat.messages[i]
      /\ chat'.messages[n + 1].role = "user"
  BY <1>0, <1>2, <1>3, SaidMessages
<1>7. SessionTyped' /\ NobodyWaits'
  BY <1>0, <1>2 DEF SessionTyped, NobodyWaits
<1>8. ToolsTyped'
  BY <1>0, <1>2, <1>5, <1>6 DEF ToolsTyped
<1>9. Tools!DisabledMeansUnderWay'
  <2>1. ASSUME NEW t \in Tools!Tools, busy'[t] PROVE \E q \in Slots : toolsJob'[q].kind = t
    <3>1. PICK q \in Slots : toolsJob[q].kind = t
      BY <1>0, <1>2, <2>1 DEF Tools!DisabledMeansUnderWay
    <3>2. q # s
      BY <1>1, <3>1, KindsDiffer
    <3> QED
      BY <1>5, <3>1, <3>2
  <2>2. toolsJob'[s].kind = "reply"
    BY <1>4, <1>5
  <2> QED
    BY <2>1, <2>2 DEF Tools!DisabledMeansUnderWay
<1>10. RepliesAreKnown'
  <2>1. chat.number <= chat.number
    BY <1>3
  <2> QED
    BY <1>0, <1>4, <1>5, <1>6, <2>1 DEF RepliesAreKnown
<1>11. TurnsAreTaken'
  <2> SUFFICES ASSUME Pure'
               PROVE  /\ \A i \in 1..Len(chat'.messages) :
                            chat'.messages[i].role = IF i % 2 = 1 THEN "user" ELSE "assistant"
                      /\ Len(chat'.messages) % 2 = 1
                      /\ \A q \in Slots : ToolsMine(q)' => q = s
    BY <1>6 DEF TurnsAreTaken
  <2> HIDE DEF n
  <2>1. Pure
    <3>1. \A i \in 1..n : i \in 1..Len(chat'.messages)
      BY <1>6
    <3> QED
      BY <1>6, <3>1 DEF Pure, n
  <2>2. n % 2 # 1
    <3>1. CASE ~chat.typing
      BY <1>0, <2>1, <3>1 DEF TurnsAreTaken, n
    <3>2. CASE chat.messages = <<>>
      <4>1. n = 0
        BY <3>2 DEF n
      <4> QED
        BY <4>1
    <3> QED
      BY <1>2, <3>1, <3>2
  <2>3. (n + 1) % 2 = 1
    BY <1>6, <2>2, OddAndEven
  <2>4. \A q \in Slots : ~ToolsMine(q)
    BY <1>0, <2>1, <2>2 DEF TurnsAreTaken, n
  <2>5. \A q \in Slots : ToolsMine(q)' => q = s
    BY <1>5, <1>6, <2>4 DEF ToolsMine
  <2>6. \A i \in 1..n : chat.messages[i].role = IF i % 2 = 1 THEN "user" ELSE "assistant"
    BY <1>0, <2>1 DEF TurnsAreTaken, n
  <2>7. \A i \in 1..Len(chat'.messages) :
            chat'.messages[i].role = IF i % 2 = 1 THEN "user" ELSE "assistant"
    <3>1. n = Len(chat.messages)
      BY DEF n
    <3>2. "user" = IF (n + 1) % 2 = 1 THEN "user" ELSE "assistant"
      BY <2>3
    <3> QED
      BY <1>0, <1>6, <2>6, <3>1, <3>2, TurnsGoOn
  <2> QED
    BY <1>6, <2>3, <2>5, <2>7
<1> QED
  BY <1>7, <1>8, <1>9, <1>10, <1>11 DEF ToolsInv

LEMMA ReplyStep ==
    ASSUME Tools!ConstantsFit, ToolsInv, NEW s \in Slots, Tools!Reply(s)
    PROVE  ToolsInv'
<1>0. /\ SessionTyped /\ ToolsTyped /\ NobodyWaits
      /\ Tools!DisabledMeansUnderWay /\ RepliesAreKnown /\ TurnsAreTaken
  BY DEF ToolsInv
<1> DEFINE n == Len(chat.messages)
<1>1. /\ toolsJob[s].kind = "reply" /\ toolsJob' = [toolsJob EXCEPT ![s] = Tools!NoJob]
      /\ chat' = [chat EXCEPT !.messages = Tools!Say("assistant", toolsJob[s].chat), !.typing = FALSE]
      /\ UNCHANGED <<toolsToken, toolsValid, toolsEpoch, busy, status>>
  <2>1. chat' = [chat EXCEPT !.typing = FALSE, !.messages = Tools!Say("assistant", toolsJob[s].chat)]
    BY DEF Tools!Reply
  <2> DEFINE new == Tools!Say("assistant", toolsJob[s].chat)
  <2>2. [chat EXCEPT !.typing = FALSE, !.messages = new] = [chat EXCEPT !.messages = new, !.typing = FALSE]
    BY <1>0 DEF ToolsTyped, Tools!ChatType
  <2> QED
    BY <2>1, <2>2 DEF Tools!Reply
<1>2. toolsJob[s].chat \in 0..MaxChats
  BY <1>0 DEF ToolsTyped, Tools!JobType
<1>3. toolsJob' \in [Slots -> Tools!JobType] /\ toolsJob'[s] = Tools!NoJob /\ \A q \in Slots : q # s => toolsJob'[q] = toolsJob[q]
  BY <1>0, <1>1, JobChanges, NoJobTyped
<1>4. /\ chat' \in Tools!ChatType /\ chat'.number = chat.number /\ chat'.typing = FALSE
      /\ Len(chat'.messages) = n + 1 /\ n \in Nat
      /\ \A i \in 1..n : chat'.messages[i] = chat.messages[i]
      /\ chat'.messages[n + 1].role = "assistant" /\ chat'.messages[n + 1].chat = toolsJob[s].chat
  BY <1>0, <1>1, <1>2, SaidMessages
<1>5. SessionTyped' /\ NobodyWaits'
  BY <1>0, <1>1 DEF SessionTyped, NobodyWaits
<1>6. ToolsTyped'
  BY <1>0, <1>1, <1>3, <1>4 DEF ToolsTyped
<1>7. Tools!DisabledMeansUnderWay'
  <2>1. ASSUME NEW t \in Tools!Tools, busy'[t] PROVE \E q \in Slots : toolsJob'[q].kind = t
    <3>1. PICK q \in Slots : toolsJob[q].kind = t
      BY <1>0, <1>1, <2>1 DEF Tools!DisabledMeansUnderWay
    <3>2. q # s
      BY <1>1, <3>1, KindsDiffer
    <3> QED
      BY <1>3, <3>1, <3>2
  <2>2. ~chat'.typing
    BY <1>4
  <2> QED
    BY <2>1, <2>2 DEF Tools!DisabledMeansUnderWay
<1>8. \A q \in Slots : toolsJob'[q].kind = "reply" => q # s /\ toolsJob'[q] = toolsJob[q]
  BY <1>3, NoJobTyped
<1>9. RepliesAreKnown'
  BY <1>0, <1>4, <1>8 DEF RepliesAreKnown
<1>10. TurnsAreTaken'
  <2> SUFFICES ASSUME Pure'
               PROVE  /\ \A i \in 1..Len(chat'.messages) :
                            chat'.messages[i].role = IF i % 2 = 1 THEN "user" ELSE "assistant"
                      /\ Len(chat'.messages) % 2 # 1
                      /\ \A q \in Slots : ~ToolsMine(q)'
    BY DEF TurnsAreTaken
  <2> HIDE DEF n
  <2>1. Pure /\ toolsJob[s].chat = chat.number
    <3>1. (\A i \in 1..n : i \in 1..Len(chat'.messages)) /\ n + 1 \in 1..Len(chat'.messages)
      BY <1>4
    <3> QED
      BY <1>4, <3>1 DEF Pure, n
  <2>2. ToolsMine(s)
    BY <1>1, <2>1 DEF ToolsMine
  <2>3. n % 2 = 1
    BY <1>0, <2>1, <2>2 DEF TurnsAreTaken, n
  <2>4. (n + 1) % 2 # 1
    BY <1>4, <2>3, OddAndEven
  <2>5. \A q \in Slots : ~ToolsMine(q)'
    <3> SUFFICES ASSUME NEW q \in Slots, ToolsMine(q)' PROVE FALSE
      OBVIOUS
    <3>1. q # s /\ ToolsMine(q)
      BY <1>4, <1>8 DEF ToolsMine
    <3> QED
      BY <1>0, <2>1, <2>2, <3>1 DEF TurnsAreTaken
  <2>6. \A i \in 1..n : chat.messages[i].role = IF i % 2 = 1 THEN "user" ELSE "assistant"
    BY <1>0, <2>1 DEF TurnsAreTaken, n
  <2>7. \A i \in 1..Len(chat'.messages) :
            chat'.messages[i].role = IF i % 2 = 1 THEN "user" ELSE "assistant"
    <3>1. n = Len(chat.messages)
      BY DEF n
    <3>2. "assistant" = IF (n + 1) % 2 = 1 THEN "user" ELSE "assistant"
      BY <2>4
    <3> QED
      BY <1>0, <1>4, <2>6, <3>1, <3>2, TurnsGoOn
  <2> QED
    BY <1>4, <2>4, <2>5, <2>7
<1> QED
  BY <1>5, <1>6, <1>7, <1>9, <1>10 DEF ToolsInv

LEMMA ToolsStep ==
    ASSUME Tools!ConstantsFit, ToolsInv, [Tools!Next]_(Tools!vars)
    PROVE  ToolsInv'
<1>1. CASE UNCHANGED Tools!vars
  <2>1. UNCHANGED <<toolsToken, toolsValid, toolsEpoch, busy, status, chat, toolsJob>>
    BY <1>1 DEF Tools!vars
  <2>2. RepliesAreKnown' /\ TurnsAreTaken'
    BY <2>1, ChatStays DEF ToolsInv
  <2> QED
    BY <2>1, <2>2 DEF ToolsInv, SessionTyped, ToolsTyped, NobodyWaits, Tools!DisabledMeansUnderWay
<1>2. CASE Tools!doLogout \/ Tools!doLogin \/ Tools!Expire
  BY <1>2, SessionStep
<1>3. CASE Tools!ClearChat \/ \E b \in BOOLEAN : Tools!openChat(b)
  BY <1>3, ChatStep
<1>4. CASE Tools!chatSend
  BY <1>4, SendStep
<1>5. ASSUME NEW t \in Tools!Tools, Tools!Press(t) PROVE ToolsInv'
  BY <1>5, PressStep
<1>6. ASSUME NEW s \in Slots, Tools!Serve(s) \/ Tools!Answered(s) \/ Tools!Lost(s) \/ Tools!Reply(s) PROVE ToolsInv'
  BY <1>6, ToolsServeStep, AnsweredStep, LostStep, ReplyStep
<1> QED
  BY <1>1, <1>2, <1>3, <1>4, <1>5, <1>6 DEF Tools!Next

LEMMA ToolsAreInTurn == ToolsInv => Tools!TypeOK /\ Tools!RepliesAreInTurn
<1> SUFFICES ASSUME ToolsInv PROVE Tools!TypeOK /\ Tools!RepliesAreInTurn
  OBVIOUS
<1>1. Tools!TypeOK
  BY DEF ToolsInv, Tools!TypeOK, SessionTyped, ToolsTyped, NobodyWaits
<1>2. Tools!RepliesTakeTurns
  BY DEF ToolsInv, TurnsAreTaken, Pure, Tools!RepliesTakeTurns
<1> QED
  BY <1>1, <1>2 DEF ToolsInv, Tools!RepliesAreInTurn

-----------------------------------------------------------------------------
(* BrowserPreview *)

LEMMA PreviewSize ==
    \A S : Preview!Cardinality(S) = Cardinality(S) /\ (Preview!IsFiniteSet(S) <=> IsFiniteSet(S))
  BY DEF Preview!Cardinality, Cardinality, Preview!IsFiniteSet, IsFiniteSet

(* A change the server has made, or may have, that the page does not know   *)
(* of yet.                                                                  *)
Made(j) ==
    \/ previewJob[j].kind \in Preview!Changes /\ previewJob[j].pc # "sent"
    \/ previewJob[j].kind = "sync"
Unknown == unheard \/ \E j \in Jobs : Made(j)

(* Routing data of this version is that of the server, unless the page has  *)
(* yet to hear of a change.                                                 *)
IsCurrent(version) == version = world.version \/ Unknown

(* A preview that was not crossed by a change rests on current data, or     *)
(* carries an older number than the page's: as it is shown, and as it is on *)
(* its way.                                                                 *)
ShownIsCurrent ==
    \A p \in Preview!Previews : preview[p].full =>
        /\ preview[p].derivedVer <= routeDataVersion
        /\ ~preview[p].crossed /\ preview[p].derivedVer = routeDataVersion => IsCurrent(preview[p].version)

ServedIsCurrent ==
    \A j \in Jobs : previewJob[j].kind \in Preview!Previews /\ previewJob[j].pc = "served" /\ ~previewJob[j].crossed
                    => IsCurrent(previewJob[j].version)

AskedIsDerived == preview["kw"].full => preview["kw"].derivedGw = preview["kw"].asked

PageTyped ==
    /\ previewToken \in BOOLEAN /\ previewEpoch \in 0..MaxEpoch
    /\ gwList \subseteq Gateways /\ previewSelected \in Gateways \cup {AnyGateway}
    /\ routeDataVersion \in Nat
    /\ preview \in [Preview!Previews -> Preview!PreviewType]
    /\ structureSync \in [loading : BOOLEAN, results : Nat, done : Nat, total : Nat]
    /\ unheard \in BOOLEAN

WorldTyped == world \in [gateways : SUBSET Gateways, version : 1..MaxVersion]

(* A sync has a gateway to do, and a gateway to save is one.                *)
JobFits(j) ==
    /\ j.kind = "sync" => j.rest # <<>>
    /\ j.kind = "saveGw" => j.gw \in Gateways

JobsTyped == previewJob \in [Jobs -> Preview!JobType] /\ \A j \in Jobs : JobFits(previewJob[j])

PreviewInv ==
    /\ PageTyped /\ WorldTyped /\ JobsTyped
    /\ Preview!SelectionExists /\ AskedIsDerived /\ ShownIsCurrent /\ ServedIsCurrent

LEMMA PreviewKinds ==
    /\ Preview!Previews = {"kw", "scale"} /\ "kw" \in Preview!Previews
    /\ Preview!Changes = {"saveRoute", "deleteRoute", "saveGw", "deleteGw"}
    /\ Preview!Kinds = {"none", "load", "sync", "kw", "scale", "saveRoute", "deleteRoute", "saveGw", "deleteGw"}
  BY DEF Preview!Previews, Preview!Changes, Preview!Kinds

LEMMA FreeTyped ==
    ASSUME Preview!ConstantsFit
    PROVE  Preview!Free \in Preview!JobType /\ Preview!Free.kind = "none" /\ ~(Preview!Free.kind \in Preview!Previews) /\ JobFits(Preview!Free)
<1>1. Preview!Free.kind = "none"
  BY DEF Preview!Free
<1>2. 0 \in 0..MaxVersion /\ 0 \in 0..MaxEpoch /\ <<>> \in Seq(Gateways)
  BY DEF Preview!ConstantsFit
<1>3. "none" \in Preview!Kinds
  BY PreviewKinds
<1>4. Preview!Free \in Preview!JobType
  BY <1>2, <1>3 DEF Preview!Free, Preview!JobType
<1> QED
  BY <1>1, <1>4, PreviewKinds DEF JobFits

LEMMA EmptyTyped ==
    ASSUME Preview!ConstantsFit
    PROVE  Preview!Empty \in Preview!PreviewType /\ ~Preview!Empty.full
<1>1. 0 \in 0..MaxVersion
  BY DEF Preview!ConstantsFit
<1>2. ~Preview!Empty.full
  BY DEF Preview!Empty
<1>3. Preview!Empty \in Preview!PreviewType
  BY <1>1 DEF Preview!Empty, Preview!PreviewType
<1> QED
  BY <1>2, <1>3

LEMMA EmptyPreviews ==
    ASSUME Preview!ConstantsFit
    PROVE  /\ [p \in Preview!Previews |-> Preview!Empty] \in [Preview!Previews -> Preview!PreviewType]
           /\ \A p \in Preview!Previews : ~([q \in Preview!Previews |-> Preview!Empty])[p].full
  BY EmptyTyped

LEMMA NoSyncTyped ==
    Preview!NoSync \in [loading : BOOLEAN, results : Nat, done : Nat, total : Nat]
  BY DEF Preview!NoSync

LEMMA PreviewInit == Preview!ConstantsFit /\ Preview!Init => PreviewInv
<1> SUFFICES ASSUME Preview!ConstantsFit, Preview!Init PROVE PreviewInv
  OBVIOUS
<1>1. previewToken \in BOOLEAN /\ unheard \in BOOLEAN
  BY DEF Preview!Init
<1>2. previewEpoch \in 0..MaxEpoch
  <2>1. previewEpoch = 0
    BY DEF Preview!Init
  <2>2. MaxEpoch \in Nat
    BY DEF Preview!ConstantsFit
  <2> QED
    BY <2>1, <2>2
<1>3. gwList \subseteq Gateways /\ previewSelected = AnyGateway
  BY DEF Preview!Init
<1>4. routeDataVersion \in Nat
  BY DEF Preview!Init
<1>5. preview \in [Preview!Previews -> Preview!PreviewType] /\ \A p \in Preview!Previews : ~preview[p].full
  BY EmptyPreviews DEF Preview!Init
<1>6. structureSync \in [loading : BOOLEAN, results : Nat, done : Nat, total : Nat]
  BY NoSyncTyped DEF Preview!Init
<1>7. WorldTyped
  <2>1. 1 \in 1..MaxVersion
    BY DEF Preview!ConstantsFit
  <2> QED
    BY <2>1 DEF Preview!Init, WorldTyped
<1>8. previewJob \in [Jobs -> Preview!JobType] /\ \A j \in Jobs : previewJob[j] = Preview!Free
  BY FreeTyped DEF Preview!Init
<1>9. JobsTyped /\ ServedIsCurrent
  BY <1>8, FreeTyped DEF JobsTyped, ServedIsCurrent
<1>10. PageTyped
  BY <1>1, <1>2, <1>3, <1>4, <1>5, <1>6 DEF PageTyped
<1>11. Preview!SelectionExists /\ AskedIsDerived /\ ShownIsCurrent
  BY <1>3, <1>5, PreviewKinds DEF Preview!SelectionExists, AskedIsDerived, ShownIsCurrent
<1> QED
  BY <1>7, <1>9, <1>10, <1>11 DEF PreviewInv

-----------------------------------------------------------------------------

(* What is current stays so while the server stays and no change is heard.  *)
LEMMA CurrentStays ==
    ASSUME world' = world, unheard => unheard', \A j \in Jobs : Made(j) => Made(j)' \/ unheard',
           NEW v, IsCurrent(v)
    PROVE  IsCurrent(v)'
<1>1. Unknown => Unknown'
  BY DEF Unknown
<1> QED
  BY <1>1 DEF IsCurrent

(* The coroutines change, and what is shown does not.                       *)
LEMMA JobsStep ==
    ASSUME PreviewInv, JobsTyped', PageTyped', UNCHANGED <<world, gwList, previewSelected, routeDataVersion, preview>>,
           unheard => unheard', \A j \in Jobs : Made(j) => Made(j)' \/ unheard',
           \A j \in Jobs : previewJob'[j].kind \in Preview!Previews /\ previewJob'[j].pc = "served" /\ ~previewJob'[j].crossed
                           => IsCurrent(previewJob'[j].version)
    PROVE  PreviewInv'
<1>0. WorldTyped /\ Preview!SelectionExists /\ AskedIsDerived /\ ShownIsCurrent
  BY DEF PreviewInv
<1>1. ServedIsCurrent'
  <2> SUFFICES ASSUME NEW j \in Jobs, previewJob'[j].kind \in Preview!Previews, previewJob'[j].pc = "served", ~previewJob'[j].crossed
               PROVE  IsCurrent(previewJob[j].version)'
    BY DEF ServedIsCurrent
  <2> DEFINE v == previewJob'[j].version
  <2>1. IsCurrent(v)
    OBVIOUS
  <2>2. (v = world.version \/ Unknown) => (v = world'.version \/ Unknown')
    BY DEF Unknown
  <2> QED
    BY <2>1, <2>2 DEF IsCurrent
<1>2. ShownIsCurrent'
  <2>1. \A p \in Preview!Previews : IsCurrent(preview[p].version) => IsCurrent(preview[p].version)'
    BY DEF IsCurrent, Unknown
  <2> QED
    BY <1>0, <2>1 DEF ShownIsCurrent
<1>3. WorldTyped' /\ Preview!SelectionExists' /\ AskedIsDerived'
  BY <1>0 DEF WorldTyped, Preview!SelectionExists, AskedIsDerived
<1> QED
  BY <1>1, <1>2, <1>3 DEF PreviewInv

(* One coroutine is another.                                                *)
LEMMA PreviewJobChanges ==
    ASSUME JobsTyped, NEW j \in Jobs, NEW r \in Preview!JobType, JobFits(r), previewJob' = [previewJob EXCEPT ![j] = r]
    PROVE  JobsTyped' /\ previewJob'[j] = r /\ \A k \in Jobs : k # j => previewJob'[k] = previewJob[k]
  BY DEF JobsTyped

(* A coroutine starts: one that was free.                                   *)
LEMMA StartStep ==
    ASSUME Preview!ConstantsFit, PreviewInv, NEW j \in Jobs, previewJob[j].kind = "none",
           NEW r \in Preview!JobType, JobFits(r), r.pc = "sent", previewJob' = [previewJob EXCEPT ![j] = r],
           UNCHANGED <<world, gwList, previewSelected, routeDataVersion, preview, unheard>>, PageTyped'
    PROVE  PreviewInv'
<1>0. PageTyped /\ JobsTyped /\ ServedIsCurrent
  BY DEF PreviewInv
<1>1. JobsTyped' /\ previewJob'[j] = r /\ \A k \in Jobs : k # j => previewJob'[k] = previewJob[k]
  BY <1>0, PreviewJobChanges
<1>2. ~Made(j)
  BY PreviewKinds DEF Made
<1>3. \A k \in Jobs : Made(k) => Made(k)'
  BY <1>1, <1>2 DEF Made
<1>4. \A k \in Jobs : previewJob'[k].kind \in Preview!Previews /\ previewJob'[k].pc = "served" /\ ~previewJob'[k].crossed
                      => IsCurrent(previewJob'[k].version)
  BY <1>0, <1>1 DEF ServedIsCurrent
<1> QED
  BY <1>1, <1>3, <1>4, JobsStep

LEMMA StartedTyped ==
    ASSUME Preview!ConstantsFit, previewEpoch \in 0..MaxEpoch, NEW j \in Jobs, NEW kind, NEW g \in Gateways \cup {AnyGateway}, Preview!Start(j, kind, g),
           kind # "sync", kind = "saveGw" => g \in Gateways
    PROVE  \E r \in Preview!JobType : JobFits(r) /\ r.pc = "sent" /\ previewJob[j].kind = "none" /\ previewJob' = [previewJob EXCEPT ![j] = r]
<1> DEFINE r == [Preview!Free EXCEPT !.kind = kind, !.pc = "sent", !.gw = g, !.born = previewEpoch]
<1>1. previewJob[j].kind = "none" /\ previewJob' = [previewJob EXCEPT ![j] = r]
  BY DEF Preview!Start
<1>2. kind \in Preview!Kinds
  BY PreviewKinds DEF Preview!Start, Preview!ConstantsFit
<1>3. r.kind = kind /\ r.pc = "sent" /\ r.gw = g
  BY DEF Preview!Free
<1>4. r \in Preview!JobType
  BY <1>2, FreeTyped DEF Preview!JobType
<1>5. JobFits(r)
  BY <1>3 DEF JobFits
<1> QED
  BY <1>1, <1>3, <1>4, <1>5

LEMMA PageStarts ==
    ASSUME Preview!ConstantsFit, PreviewInv, NEW j \in Jobs,
           \/ Preview!doLogin(j) \/ Preview!OpenPage(j) \/ Preview!deriveKw(j) \/ Preview!deriveScale(j)
           \/ \E kind \in {"saveRoute", "deleteRoute"} : Preview!ChangeRoute(j, kind)
           \/ \E kind \in {"saveGw", "deleteGw"}, g \in Gateways : Preview!ChangeGateway(j, kind, g)
    PROVE  PreviewInv'
<1>0. PageTyped
  BY DEF PreviewInv
<1>1. /\ UNCHANGED <<world, gwList, previewSelected, routeDataVersion, preview, unheard, previewEpoch, structureSync>>
      /\ previewToken' \in BOOLEAN
  BY <1>0 DEF Preview!doLogin, Preview!OpenPage, Preview!deriveKw, Preview!deriveScale, Preview!ChangeRoute, Preview!ChangeGateway, Preview!Unchanged, Preview!pageVars, PageTyped
<1>2. PageTyped'
  BY <1>0, <1>1 DEF PageTyped
<1>3. \E kind \in {"load", "kw", "scale", "saveRoute", "deleteRoute", "saveGw", "deleteGw"}, g \in Gateways \cup {AnyGateway} :
          Preview!Start(j, kind, g) /\ (kind = "saveGw" => g \in Gateways)
  <2>1. CASE Preview!doLogin(j) \/ Preview!OpenPage(j)
    BY <2>1 DEF Preview!doLogin, Preview!OpenPage
  <2>2. CASE Preview!deriveKw(j)
    BY <1>0, <2>2 DEF Preview!deriveKw, PageTyped
  <2>3. CASE Preview!deriveScale(j)
    BY <2>3 DEF Preview!deriveScale
  <2>4. ASSUME NEW kind \in {"saveRoute", "deleteRoute"}, Preview!ChangeRoute(j, kind) PROVE <1>3
    BY <2>4 DEF Preview!ChangeRoute
  <2>5. ASSUME NEW kind \in {"saveGw", "deleteGw"}, NEW g \in Gateways, Preview!ChangeGateway(j, kind, g) PROVE <1>3
    BY <2>5 DEF Preview!ChangeGateway
  <2> QED
    BY <2>1, <2>2, <2>3, <2>4, <2>5
<1>4. PICK kind \in {"load", "kw", "scale", "saveRoute", "deleteRoute", "saveGw", "deleteGw"}, g \in Gateways \cup {AnyGateway} :
          Preview!Start(j, kind, g) /\ (kind = "saveGw" => g \in Gateways)
  BY <1>3
<1>5. \E r \in Preview!JobType : JobFits(r) /\ r.pc = "sent" /\ previewJob[j].kind = "none" /\ previewJob' = [previewJob EXCEPT ![j] = r]
  BY <1>0, <1>4, StartedTyped DEF PageTyped
<1> QED
  BY <1>1, <1>2, <1>5, StartStep

LEMMA SyncStarts ==
    ASSUME Preview!ConstantsFit, PreviewInv, NEW j \in Jobs, Preview!syncStructure(j)
    PROVE  PreviewInv'
<1>0. PageTyped
  BY DEF PreviewInv
<1> DEFINE targets == IF previewSelected # AnyGateway THEN {previewSelected} ELSE gwList
           total == Preview!Cardinality(targets)
<1>1. /\ targets # {} /\ previewJob[j].kind = "none"
      /\ structureSync' = [loading |-> TRUE, results |-> 0, done |-> 0, total |-> total]
      /\ UNCHANGED <<world, previewToken, previewEpoch, gwList, previewSelected, routeDataVersion, preview, unheard>>
  BY DEF Preview!syncStructure, Preview!Unchanged
<1>2. PICK order \in Preview!Injection(1..Preview!Cardinality(targets), targets) :
          previewJob' = [previewJob EXCEPT ![j] = [Preview!Free EXCEPT !.kind = "sync", !.pc = "sent", !.rest = order, !.born = previewEpoch]]
  BY DEF Preview!syncStructure
<1>3. targets \subseteq Gateways /\ IsFiniteSet(targets)
  <2>1. targets \subseteq Gateways
    BY <1>0 DEF PageTyped
  <2> QED
    BY <2>1, PreviewSize, FS_Subset DEF Preview!ConstantsFit
<1> HIDE DEF targets
<1>4. total \in Nat /\ total # 0
  BY <1>1, <1>3, PreviewSize, FS_CardinalityType, FS_EmptySet
<1>5. order \in Seq(Gateways) /\ order # <<>>
  <2>1. order \in [1..total -> targets]
    BY <1>2 DEF Preview!Injection
  <2>2. order \in Seq(targets) /\ Len(order) = total
    BY <1>4, <2>1
  <2> QED
    BY <1>3, <1>4, <2>2
<1> HIDE DEF total
<1>6. PageTyped'
  <2>1. structureSync' \in [loading : BOOLEAN, results : Nat, done : Nat, total : Nat]
    BY <1>1, <1>4
  <2> QED
    BY <1>0, <1>1, <2>1 DEF PageTyped
<1> DEFINE r == [Preview!Free EXCEPT !.kind = "sync", !.pc = "sent", !.rest = order, !.born = previewEpoch]
<1>7. r.kind = "sync" /\ r.pc = "sent" /\ r.rest = order
  BY DEF Preview!Free
<1>8. r \in Preview!JobType
  <2>1. previewEpoch \in 0..MaxEpoch /\ "sync" \in Preview!Kinds
    BY <1>0, PreviewKinds DEF PageTyped
  <2> QED
    BY <1>5, <2>1, FreeTyped DEF Preview!JobType
<1>9. JobFits(r)
  BY <1>5, <1>7 DEF JobFits
<1> QED
  BY <1>1, <1>2, <1>6, <1>7, <1>8, <1>9, StartStep

LEMMA PreviewSelectStep ==
    ASSUME PreviewInv, NEW g \in Gateways \cup {AnyGateway}, Preview!Select(g)
    PROVE  PreviewInv'
<1>0. /\ PageTyped /\ WorldTyped /\ JobsTyped
      /\ Preview!SelectionExists /\ AskedIsDerived /\ ShownIsCurrent /\ ServedIsCurrent
  BY DEF PreviewInv
<1>1. /\ previewSelected' = g /\ g \in gwList \cup {AnyGateway}
      /\ UNCHANGED <<world, previewToken, previewEpoch, gwList, routeDataVersion, preview, structureSync, previewJob, unheard>>
  BY DEF Preview!Select
<1>2. PageTyped' /\ WorldTyped' /\ JobsTyped' /\ Preview!SelectionExists' /\ AskedIsDerived'
  BY <1>0, <1>1 DEF PageTyped, WorldTyped, JobsTyped, Preview!SelectionExists, AskedIsDerived
<1>3. ShownIsCurrent' /\ ServedIsCurrent'
  BY <1>0, <1>1 DEF ShownIsCurrent, ServedIsCurrent, IsCurrent, Unknown, Made
<1> QED
  BY <1>2, <1>3 DEF PreviewInv

LEMMA CrossTyped ==
    ASSUME NEW r \in Preview!JobType
    PROVE  /\ Preview!Cross(r) \in Preview!JobType /\ (JobFits(r) => JobFits(Preview!Cross(r)))
           /\ Preview!Cross(r).kind = r.kind /\ Preview!Cross(r).pc = r.pc
           /\ r.kind \in Preview!Previews => Preview!Cross(r).crossed
<1> DEFINE crossed == r.crossed \/ r.kind \in Preview!Previews
<1>1. crossed \in BOOLEAN /\ (r.kind \in Preview!Previews => crossed)
  BY DEF Preview!JobType
<1>2. Preview!Cross(r) = [r EXCEPT !.crossed = crossed]
  BY DEF Preview!Cross
<1> HIDE DEF crossed
<1>3. /\ Preview!Cross(r).kind = r.kind /\ Preview!Cross(r).pc = r.pc /\ Preview!Cross(r).rest = r.rest /\ Preview!Cross(r).gw = r.gw
  BY <1>2 DEF Preview!JobType
<1>4. Preview!Cross(r).crossed = crossed
  BY <1>2 DEF Preview!JobType
<1>5. Preview!Cross(r) \in Preview!JobType
  BY <1>1, <1>2 DEF Preview!JobType
<1> QED
  BY <1>1, <1>3, <1>4, <1>5 DEF JobFits

LEMMA LogoutStep ==
    ASSUME Preview!ConstantsFit, PreviewInv, Preview!doLogout
    PROVE  PreviewInv'
<1>0. PageTyped /\ WorldTyped /\ JobsTyped
  BY DEF PreviewInv
<1>1. /\ previewToken' = FALSE /\ previewEpoch < MaxEpoch /\ previewEpoch' = previewEpoch + 1
      /\ gwList' = {} /\ previewSelected' = AnyGateway /\ routeDataVersion' = 0
      /\ preview' = [p \in Preview!Previews |-> Preview!Empty]
      /\ structureSync' = Preview!NoSync
      /\ previewJob' = [j \in Jobs |-> Preview!Cross(previewJob[j])]
      /\ UNCHANGED <<world, unheard>>
  BY DEF Preview!doLogout
<1>2. preview' \in [Preview!Previews -> Preview!PreviewType] /\ \A p \in Preview!Previews : ~preview'[p].full
  BY <1>1, EmptyPreviews
<1>3. previewEpoch' \in 0..MaxEpoch
  BY <1>0, <1>1 DEF PageTyped, Preview!ConstantsFit
<1>4. PageTyped'
  <2>1. previewToken' \in BOOLEAN /\ unheard' \in BOOLEAN
    BY <1>0, <1>1 DEF PageTyped
  <2>2. structureSync' \in [loading : BOOLEAN, results : Nat, done : Nat, total : Nat]
    BY <1>1, NoSyncTyped
  <2> QED
    BY <1>1, <1>2, <1>3, <2>1, <2>2 DEF PageTyped
<1>5. JobsTyped' /\ \A j \in Jobs : previewJob'[j].kind \in Preview!Previews => previewJob'[j].crossed
  BY <1>0, <1>1, CrossTyped DEF JobsTyped
<1>6. WorldTyped' /\ Preview!SelectionExists' /\ AskedIsDerived' /\ ShownIsCurrent'
  BY <1>0, <1>1, <1>2, PreviewKinds DEF WorldTyped, Preview!SelectionExists, AskedIsDerived, ShownIsCurrent
<1>7. ServedIsCurrent'
  BY <1>5 DEF ServedIsCurrent
<1> QED
  BY <1>4, <1>5, <1>6, <1>7 DEF PreviewInv

LEMMA PreviewServeStep ==
    ASSUME Preview!ConstantsFit, PreviewInv, NEW j \in Jobs, Preview!Serve(j)
    PROVE  PreviewInv'
<1>0. /\ PageTyped /\ WorldTyped /\ JobsTyped
      /\ Preview!SelectionExists /\ AskedIsDerived /\ ShownIsCurrent /\ ServedIsCurrent
  BY DEF PreviewInv
<1> DEFINE kind == previewJob[j].kind
           new == IF kind = "saveGw" THEN world.gateways \cup {previewJob[j].gw}
                  ELSE IF kind = "deleteGw" THEN world.gateways \ {previewJob[j].gw} ELSE world.gateways
           change == previewJob[j].pc = "sent" /\ kind \in Preview!Changes \cup {"sync"}
           next == IF previewJob[j].pc = "sent" THEN "served" ELSE "reloaded"
           version == IF kind \in Preview!Previews THEN world.version ELSE 0
           list == IF kind = "load" \/ previewJob[j].pc = "reload" THEN new ELSE {}
           r == [previewJob[j] EXCEPT !.pc = next, !.version = version, !.gateways = list]
<1>1. /\ previewJob[j].pc \in {"sent", "reload"}
      /\ change => Preview!Changed(new)
      /\ ~change => world' = world
      /\ UNCHANGED <<previewToken, previewEpoch, Preview!pageVars, unheard>>
  BY DEF Preview!Serve
<1>2. previewJob[j] \in Preview!JobType /\ JobFits(previewJob[j])
  BY <1>0 DEF JobsTyped
<1>3. world.gateways \subseteq Gateways /\ world.version \in 1..MaxVersion /\ MaxVersion \in Nat
  BY <1>0 DEF WorldTyped, Preview!ConstantsFit
<1>4. new \subseteq Gateways
  BY <1>2, <1>3 DEF JobFits
<1>5. version \in 0..MaxVersion
  BY <1>3
<1>6. next \in {"served", "reloaded"} /\ list \in SUBSET Gateways
  BY <1>4
<1>7. previewJob' = [previewJob EXCEPT ![j] = r]
  <2>1. previewJob' = [previewJob EXCEPT ![j].pc = next, ![j].version = version, ![j].gateways = list]
    <3>1. previewJob' = [previewJob EXCEPT ![j].pc = IF @ = "sent" THEN "served" ELSE "reloaded",
                             ![j].version = version, ![j].gateways = list]
      BY DEF Preview!Serve
    <3> HIDE DEF version, list
    <3> QED
      BY <3>1
  <2> HIDE DEF next, version, list
  <2> QED
    BY <1>0, <2>1 DEF JobsTyped
<1>8. (kind \in Preview!Previews => version = world.version) /\ (change \/ next = "reloaded" \/ kind \notin Preview!Changes \cup {"sync"})
  BY <1>1
<1> HIDE DEF next, version, list, new
<1>9. /\ r.kind = kind /\ r.pc = next /\ r.version = version /\ r.crossed = previewJob[j].crossed
      /\ r.rest = previewJob[j].rest /\ r.gw = previewJob[j].gw
  BY <1>2 DEF Preview!JobType
<1>10. r \in Preview!JobType /\ JobFits(r)
  <2>1. r \in Preview!JobType
    BY <1>2, <1>5, <1>6 DEF Preview!JobType
  <2> QED
    BY <1>2, <1>9, <2>1 DEF JobFits
<1> HIDE DEF r
<1>11. JobsTyped' /\ previewJob'[j] = r /\ \A k \in Jobs : k # j => previewJob'[k] = previewJob[k]
  BY <1>0, <1>7, <1>10, PreviewJobChanges
<1>12. PageTyped'
  BY <1>0, <1>1 DEF PageTyped, Preview!pageVars
<1>13. \A k \in Jobs : Made(k) => Made(k)'
  BY <1>6, <1>9, <1>11 DEF Made
<1>14. CASE change
  <2>1. /\ world.version < MaxVersion /\ world' = [gateways |-> new, version |-> world.version + 1]
    BY <1>1, <1>14 DEF Preview!Changed
  <2>2. WorldTyped'
    BY <1>3, <1>4, <2>1 DEF WorldTyped
  <2>3. Made(j)'
    BY <1>6, <1>9, <1>11, <1>14 DEF Made
  <2>4. Unknown'
    BY <2>3 DEF Unknown
  <2>5. ShownIsCurrent' /\ ServedIsCurrent'
    BY <1>0, <1>1, <2>4 DEF ShownIsCurrent, ServedIsCurrent, IsCurrent, Preview!pageVars
  <2>6. Preview!SelectionExists' /\ AskedIsDerived'
    BY <1>0, <1>1 DEF Preview!SelectionExists, AskedIsDerived, Preview!pageVars
  <2> QED
    BY <1>11, <1>12, <2>2, <2>5, <2>6 DEF PreviewInv
<1>15. CASE ~change
  <2>1. world' = world
    BY <1>1, <1>15
  <2>2. \A k \in Jobs : previewJob'[k].kind \in Preview!Previews /\ previewJob'[k].pc = "served" /\ ~previewJob'[k].crossed
                        => IsCurrent(previewJob'[k].version)
    <3> SUFFICES ASSUME NEW k \in Jobs, previewJob'[k].kind \in Preview!Previews, previewJob'[k].pc = "served", ~previewJob'[k].crossed
                 PROVE  IsCurrent(previewJob'[k].version)
      OBVIOUS
    <3>1. CASE k = j
      BY <1>8, <1>9, <1>11, <3>1 DEF IsCurrent
    <3>2. CASE k # j
      BY <1>0, <1>11, <3>2 DEF ServedIsCurrent
    <3> QED
      BY <3>1, <3>2
  <2> QED
    BY <1>1, <1>11, <1>12, <1>13, <2>1, <2>2, JobsStep DEF Preview!pageVars
<1> QED
  BY <1>14, <1>15

(* A list of gateways is taken.                                             *)
LEMMA GatewaysTaken ==
    ASSUME Preview!ConstantsFit, PageTyped, NEW gateways \in SUBSET Gateways, Preview!TakeGateways(gateways, previewSelected)
    PROVE  gwList' \subseteq Gateways /\ previewSelected' \in Gateways \cup {AnyGateway} /\ Preview!SelectionExists'
  BY DEF Preview!TakeGateways, Preview!SelectionExists, PageTyped

LEMMA PreviewLoadArrivesStep ==
    ASSUME Preview!ConstantsFit, PreviewInv, NEW j \in Jobs, Preview!LoadArrives(j)
    PROVE  PreviewInv'
<1>0. /\ PageTyped /\ WorldTyped /\ JobsTyped
      /\ Preview!SelectionExists /\ AskedIsDerived /\ ShownIsCurrent /\ ServedIsCurrent
  BY DEF PreviewInv
<1>1. /\ previewJob[j].kind = "load" /\ Preview!TakeGateways(previewJob[j].gateways, previewSelected)
      /\ previewJob' = [previewJob EXCEPT ![j] = Preview!Free]
      /\ UNCHANGED <<world, previewToken, previewEpoch, routeDataVersion, preview, structureSync, unheard>>
  BY DEF Preview!LoadArrives
<1>2. JobsTyped' /\ previewJob'[j] = Preview!Free /\ \A k \in Jobs : k # j => previewJob'[k] = previewJob[k]
  BY <1>0, <1>1, FreeTyped, PreviewJobChanges
<1>3. previewJob[j].gateways \in SUBSET Gateways
  BY <1>0 DEF JobsTyped, Preview!JobType
<1>4. gwList' \subseteq Gateways /\ previewSelected' \in Gateways \cup {AnyGateway} /\ Preview!SelectionExists'
  BY <1>0, <1>1, <1>3, GatewaysTaken
<1>5. PageTyped' /\ WorldTyped' /\ AskedIsDerived'
  BY <1>0, <1>1, <1>4 DEF PageTyped, WorldTyped, AskedIsDerived
<1>6. ~Made(j)
  BY <1>1, PreviewKinds DEF Made
<1>7. \A k \in Jobs : Made(k) => Made(k)'
  BY <1>2, <1>6 DEF Made
<1>8. Unknown => Unknown'
  BY <1>1, <1>7 DEF Unknown
<1>9. ShownIsCurrent'
  BY <1>0, <1>1, <1>8 DEF ShownIsCurrent, IsCurrent
<1>10. ServedIsCurrent'
  BY <1>0, <1>1, <1>2, <1>8, FreeTyped DEF ServedIsCurrent, IsCurrent
<1> QED
  BY <1>2, <1>4, <1>5, <1>9, <1>10 DEF PreviewInv

LEMMA PreviewArrivesStep ==
    ASSUME Preview!ConstantsFit, PreviewInv, NEW j \in Jobs, Preview!PreviewArrives(j)
    PROVE  PreviewInv'
<1>0. /\ PageTyped /\ WorldTyped /\ JobsTyped
      /\ Preview!SelectionExists /\ AskedIsDerived /\ ShownIsCurrent /\ ServedIsCurrent
  BY DEF PreviewInv
<1> DEFINE kind == previewJob[j].kind
           new == [full |-> TRUE, derivedGw |-> Preview!Derived(j), derivedVer |-> routeDataVersion,
                   version |-> previewJob[j].version, asked |-> previewJob[j].gw, crossed |-> previewJob[j].crossed]
<1>1. /\ kind \in Preview!Previews /\ previewJob[j].pc = "served"
      /\ preview' = [preview EXCEPT ![kind] = new]
      /\ previewJob' = [previewJob EXCEPT ![j] = Preview!Free]
      /\ UNCHANGED <<world, previewToken, previewEpoch, gwList, previewSelected, routeDataVersion, structureSync, unheard>>
  BY DEF Preview!PreviewArrives
<1>2. JobsTyped' /\ previewJob'[j] = Preview!Free /\ \A k \in Jobs : k # j => previewJob'[k] = previewJob[k]
  BY <1>0, <1>1, FreeTyped, PreviewJobChanges
<1>3. /\ previewJob[j].gw \in Gateways \cup {AnyGateway} /\ previewJob[j].version \in 0..MaxVersion
      /\ previewJob[j].crossed \in BOOLEAN
  BY <1>0 DEF JobsTyped, Preview!JobType
<1>4. Preview!Derived(j) \in Gateways \cup {AnyGateway} /\ (kind = "kw" => Preview!Derived(j) = previewJob[j].gw)
  BY <1>0, <1>3 DEF Preview!Derived, PageTyped
<1>5. routeDataVersion \in Nat
  BY <1>0 DEF PageTyped
<1>6. new \in Preview!PreviewType
  BY <1>3, <1>4, <1>5 DEF Preview!PreviewType
<1>7. /\ new.derivedGw = Preview!Derived(j) /\ new.derivedVer = routeDataVersion /\ new.version = previewJob[j].version
      /\ new.asked = previewJob[j].gw
  OBVIOUS
<1>8. new.crossed = previewJob[j].crossed
  OBVIOUS
<1> HIDE DEF new
<1>9. /\ preview' \in [Preview!Previews -> Preview!PreviewType] /\ preview'[kind] = new
      /\ \A p \in Preview!Previews : p # kind => preview'[p] = preview[p]
  BY <1>0, <1>1, <1>6 DEF PageTyped
<1>10. PageTyped' /\ WorldTyped' /\ Preview!SelectionExists'
  BY <1>0, <1>1, <1>9 DEF PageTyped, WorldTyped, Preview!SelectionExists
<1>11. AskedIsDerived'
  <2>1. CASE kind = "kw"
    BY <1>4, <1>7, <1>9, <2>1 DEF AskedIsDerived
  <2>2. CASE kind # "kw"
    BY <1>0, <1>9, <2>2, PreviewKinds DEF AskedIsDerived
  <2> QED
    BY <2>1, <2>2
<1>12. ~Made(j)
  BY <1>1, PreviewKinds DEF Made
<1>13. \A k \in Jobs : Made(k) => Made(k)'
  BY <1>2, <1>12 DEF Made
<1>14. Unknown => Unknown'
  BY <1>1, <1>13 DEF Unknown
<1>15. ServedIsCurrent'
  BY <1>0, <1>1, <1>2, <1>14, FreeTyped DEF ServedIsCurrent, IsCurrent
<1>16. ShownIsCurrent'
  <2> SUFFICES ASSUME NEW p \in Preview!Previews, preview'[p].full
               PROVE  /\ preview'[p].derivedVer <= routeDataVersion
                      /\ ~preview'[p].crossed /\ preview'[p].derivedVer = routeDataVersion
                         => IsCurrent(preview[p].version)'
    BY <1>1 DEF ShownIsCurrent
  <2>1. CASE p = kind
    <3>1. preview'[p].derivedVer = routeDataVersion /\ preview'[p].version = previewJob[j].version
      BY <1>7, <1>9, <2>1
    <3>2. ~preview'[p].crossed => ~previewJob[j].crossed
      BY <1>8, <1>9, <2>1
    <3>3. ~previewJob[j].crossed => IsCurrent(previewJob[j].version)
      BY <1>0, <1>1 DEF ServedIsCurrent
    <3> QED
      BY <1>1, <1>5, <1>14, <3>1, <3>2, <3>3 DEF IsCurrent
  <2>2. CASE p # kind
    <3>1. preview'[p] = preview[p]
      BY <1>9, <2>2
    <3> QED
      BY <1>0, <1>1, <1>14, <3>1 DEF ShownIsCurrent, IsCurrent
  <2> QED
    BY <2>1, <2>2
<1> QED
  BY <1>2, <1>10, <1>11, <1>15, <1>16 DEF PreviewInv

(* The page hears of a change: what is on its way is crossed, and what is   *)
(* shown has an older number from now on.                                   *)
LEMMA HeardStep ==
    ASSUME Preview!ConstantsFit, PreviewInv, NEW j \in Jobs, Preview!Crossed(j, Preview!Free), routeDataVersion' = routeDataVersion + 1,
           UNCHANGED <<world, preview>>, PageTyped', Preview!SelectionExists'
    PROVE  PreviewInv'
<1>0. PageTyped /\ WorldTyped /\ JobsTyped /\ AskedIsDerived /\ ShownIsCurrent
  BY DEF PreviewInv
<1>1. previewJob' = [k \in Jobs |-> IF k = j THEN Preview!Free ELSE Preview!Cross(previewJob[k])]
  BY DEF Preview!Crossed
<1>2. JobsTyped'
  BY <1>0, <1>1, FreeTyped, CrossTyped DEF JobsTyped
<1>3. \A k \in Jobs : previewJob'[k].kind \in Preview!Previews => previewJob'[k].crossed
  BY <1>0, <1>1, FreeTyped, CrossTyped DEF JobsTyped
<1>4. ServedIsCurrent'
  BY <1>3 DEF ServedIsCurrent
<1>5. ShownIsCurrent'
  <2> SUFFICES ASSUME NEW p \in Preview!Previews, preview[p].full
               PROVE  preview[p].derivedVer <= routeDataVersion' /\ preview[p].derivedVer # routeDataVersion'
    BY DEF ShownIsCurrent
  <2>1. preview[p].derivedVer \in Nat /\ routeDataVersion \in Nat
    BY <1>0 DEF PageTyped, Preview!PreviewType
  <2>2. preview[p].derivedVer <= routeDataVersion
    BY <1>0 DEF ShownIsCurrent
  <2> QED
    BY <2>1, <2>2
<1>6. WorldTyped' /\ AskedIsDerived'
  BY <1>0 DEF WorldTyped, AskedIsDerived
<1> QED
  BY <1>2, <1>4, <1>5, <1>6 DEF PreviewInv

LEMMA RouteChangedStep ==
    ASSUME Preview!ConstantsFit, PreviewInv, NEW j \in Jobs, Preview!RouteChanged(j)
    PROVE  PreviewInv'
<1>0. PageTyped /\ Preview!SelectionExists
  BY DEF PreviewInv
<1>1. /\ routeDataVersion' = routeDataVersion + 1 /\ Preview!Crossed(j, Preview!Free)
      /\ UNCHANGED <<world, previewToken, previewEpoch, gwList, previewSelected, preview, structureSync, unheard>>
  BY DEF Preview!RouteChanged
<1>2. PageTyped' /\ Preview!SelectionExists'
  BY <1>0, <1>1 DEF PageTyped, Preview!SelectionExists
<1> QED
  BY <1>1, <1>2, HeardStep

LEMMA GatewaysReloadedStep ==
    ASSUME Preview!ConstantsFit, PreviewInv, NEW j \in Jobs, Preview!GatewaysReloaded(j)
    PROVE  PreviewInv'
<1>0. PageTyped /\ Preview!SelectionExists /\ JobsTyped
  BY DEF PreviewInv
<1>1. /\ Preview!TakeGateways(previewJob[j].gateways, previewSelected) \/ UNCHANGED <<gwList, previewSelected>>
      /\ routeDataVersion' = routeDataVersion + 1 /\ Preview!Crossed(j, Preview!Free)
      /\ UNCHANGED <<world, previewToken, previewEpoch, preview, structureSync, unheard>>
  BY DEF Preview!GatewaysReloaded
<1>2. previewJob[j].gateways \in SUBSET Gateways
  BY <1>0 DEF JobsTyped, Preview!JobType
<1>3. gwList' \subseteq Gateways /\ previewSelected' \in Gateways \cup {AnyGateway} /\ Preview!SelectionExists'
  <2>1. CASE Preview!TakeGateways(previewJob[j].gateways, previewSelected)
    BY <1>0, <1>2, <2>1, GatewaysTaken
  <2>2. CASE UNCHANGED <<gwList, previewSelected>>
    BY <1>0, <2>2 DEF PageTyped, Preview!SelectionExists
  <2> QED
    BY <1>1, <2>1, <2>2
<1>4. PageTyped'
  BY <1>0, <1>1, <1>3 DEF PageTyped
<1> QED
  BY <1>1, <1>3, <1>4, HeardStep

LEMMA GatewayChangedStep ==
    ASSUME Preview!ConstantsFit, PreviewInv, NEW j \in Jobs, Preview!GatewayChanged(j)
    PROVE  PreviewInv'
<1>0. /\ PageTyped /\ WorldTyped /\ JobsTyped
      /\ Preview!SelectionExists /\ AskedIsDerived /\ ShownIsCurrent /\ ServedIsCurrent
  BY DEF PreviewInv
<1> DEFINE r == [previewJob[j] EXCEPT !.pc = "reload"]
<1>1. /\ previewJob[j].kind \in {"saveGw", "deleteGw"}
      /\ previewSelected' \in {previewSelected, AnyGateway}
      /\ UNCHANGED <<world, previewToken, previewEpoch, gwList, routeDataVersion, preview, structureSync, unheard>>
  BY DEF Preview!GatewayChanged
<1>2. previewJob' = [previewJob EXCEPT ![j] = r]
  BY <1>0 DEF Preview!GatewayChanged, JobsTyped
<1>3. previewJob[j] \in Preview!JobType /\ JobFits(previewJob[j])
  BY <1>0 DEF JobsTyped
<1>4. r \in Preview!JobType /\ r.kind = previewJob[j].kind /\ r.pc = "reload" /\ r.rest = previewJob[j].rest /\ r.gw = previewJob[j].gw
  <2>1. r \in Preview!JobType
    BY <1>3 DEF Preview!JobType
  <2> QED
    BY <1>3, <2>1 DEF Preview!JobType
<1> HIDE DEF r
<1>5. JobFits(r)
  BY <1>3, <1>4 DEF JobFits
<1>6. JobsTyped' /\ previewJob'[j] = r /\ \A k \in Jobs : k # j => previewJob'[k] = previewJob[k]
  BY <1>0, <1>2, <1>4, <1>5, PreviewJobChanges
<1>7. PageTyped' /\ WorldTyped' /\ Preview!SelectionExists' /\ AskedIsDerived'
  BY <1>0, <1>1 DEF PageTyped, WorldTyped, Preview!SelectionExists, AskedIsDerived
<1>8. \A k \in Jobs : Made(k) => Made(k)'
  BY <1>4, <1>6 DEF Made
<1>9. Unknown => Unknown'
  BY <1>1, <1>8 DEF Unknown
<1>10. ShownIsCurrent'
  BY <1>0, <1>1, <1>9 DEF ShownIsCurrent, IsCurrent
<1>11. ServedIsCurrent'
  <2> SUFFICES ASSUME NEW k \in Jobs, previewJob'[k].kind \in Preview!Previews, previewJob'[k].pc = "served", ~previewJob'[k].crossed
               PROVE  IsCurrent(previewJob[k].version)'
    BY DEF ServedIsCurrent
  <2>1. k # j
    BY <1>1, <1>4, <1>6, PreviewKinds
  <2>2. IsCurrent(previewJob[k].version) /\ previewJob'[k] = previewJob[k]
    BY <1>0, <1>6, <2>1 DEF ServedIsCurrent
  <2> QED
    BY <1>1, <1>9, <2>2 DEF IsCurrent
<1> QED
  BY <1>6, <1>7, <1>10, <1>11 DEF PreviewInv

LEMMA SyncedStep ==
    ASSUME Preview!ConstantsFit, PreviewInv, NEW j \in Jobs, Preview!Synced(j)
    PROVE  PreviewInv'
<1>0. PageTyped /\ JobsTyped /\ Preview!SelectionExists /\ ServedIsCurrent
  BY DEF PreviewInv
<1> DEFINE rest == Tail(previewJob[j].rest)
           on == rest # <<>> /\ previewToken
           results == IF previewJob[j].born = previewEpoch THEN structureSync.results + 1 ELSE structureSync.results
           counted == [structureSync EXCEPT !.done = @ + 1, !.results = results]
           r == [previewJob[j] EXCEPT !.rest = rest, !.pc = "sent"]
<1>1. /\ previewJob[j].kind = "sync"
      /\ structureSync' \in {counted, [counted EXCEPT !.loading = FALSE]}
      /\ UNCHANGED <<world, previewToken, previewEpoch, gwList, previewSelected, preview, unheard>>
      /\ on => previewJob' = [previewJob EXCEPT ![j].rest = rest, ![j].pc = "sent"] /\ UNCHANGED routeDataVersion
      /\ ~on => routeDataVersion' = routeDataVersion + 1 /\ Preview!Crossed(j, Preview!Free)
  <2> DEFINE mine == previewJob[j].born = previewEpoch
             counts == [structureSync EXCEPT !.done = @ + 1, !.results = IF mine THEN @ + 1 ELSE @]
  <2>1. /\ previewJob[j].kind = "sync"
        /\ structureSync' \in {counts, [counts EXCEPT !.loading = FALSE]}
        /\ UNCHANGED <<world, previewToken, previewEpoch, gwList, previewSelected, preview, unheard>>
        /\ on => previewJob' = [previewJob EXCEPT ![j].rest = rest, ![j].pc = "sent"] /\ UNCHANGED routeDataVersion
        /\ ~on => routeDataVersion' = routeDataVersion + 1 /\ Preview!Crossed(j, Preview!Free)
    BY DEF Preview!Synced
  <2>2. counts = counted
    OBVIOUS
  <2> QED
    BY <2>1, <2>2
<1>2. previewJob[j] \in Preview!JobType /\ previewJob[j].rest \in Seq(Gateways) /\ previewJob[j].rest # <<>>
  BY <1>0, <1>1 DEF JobsTyped, JobFits, Preview!JobType
<1>3. rest \in Seq(Gateways)
  BY <1>2
<1>4. structureSync' \in [loading : BOOLEAN, results : Nat, done : Nat, total : Nat]
  <2>1. /\ structureSync \in [loading : BOOLEAN, results : Nat, done : Nat, total : Nat]
        /\ results \in Nat
    BY <1>0 DEF PageTyped
  <2> DEFINE number == structureSync.done + 1
  <2>2. number \in Nat /\ counted = [structureSync EXCEPT !.done = number, !.results = results]
    BY <2>1
  <2> HIDE DEF results, number, counted
  <2>3. counted \in [loading : BOOLEAN, results : Nat, done : Nat, total : Nat]
    BY <2>1, <2>2
  <2> QED
    BY <1>1, <2>3
<1>5. CASE on
  <2> HIDE DEF rest
  <2>1. previewJob' = [previewJob EXCEPT ![j] = r]
    BY <1>0, <1>1, <1>5 DEF JobsTyped
  <2>2. r \in Preview!JobType
    BY <1>2, <1>3 DEF Preview!JobType
  <2>3. r.kind = "sync" /\ r.rest = rest
    BY <1>1, <1>2 DEF Preview!JobType
  <2> HIDE DEF r
  <2>4. JobFits(r)
    BY <1>5, <2>3 DEF JobFits
  <2>5. JobsTyped' /\ previewJob'[j] = r /\ \A k \in Jobs : k # j => previewJob'[k] = previewJob[k]
    BY <1>0, <2>1, <2>2, <2>4, PreviewJobChanges
  <2>6. PageTyped'
    BY <1>0, <1>1, <1>4, <1>5 DEF PageTyped
  <2>7. \A k \in Jobs : Made(k) => Made(k)'
    BY <1>1, <2>3, <2>5 DEF Made
  <2>8. \A k \in Jobs : previewJob'[k].kind \in Preview!Previews /\ previewJob'[k].pc = "served" /\ ~previewJob'[k].crossed
                        => IsCurrent(previewJob'[k].version)
    BY <1>0, <2>3, <2>5, PreviewKinds DEF ServedIsCurrent
  <2> QED
    BY <1>1, <1>5, <2>5, <2>6, <2>7, <2>8, JobsStep
<1>6. CASE ~on
  <2>1. PageTyped' /\ Preview!SelectionExists'
    <3>1. routeDataVersion' \in Nat
      <4>1. routeDataVersion \in Nat
        BY <1>0 DEF PageTyped
      <4> QED
        BY <1>1, <1>6, <4>1
    <3>2. UNCHANGED <<previewToken, previewEpoch, gwList, previewSelected, preview, unheard>>
      BY <1>1
    <3> QED
      BY <1>0, <1>4, <3>1, <3>2 DEF PageTyped, Preview!SelectionExists
  <2> QED
    BY <1>1, <1>6, <2>1, HeardStep
<1> QED
  BY <1>5, <1>6

LEMMA FailsStep ==
    ASSUME Preview!ConstantsFit, PreviewInv, NEW j \in Jobs, Preview!Fails(j)
    PROVE  PreviewInv'
<1>0. PageTyped /\ JobsTyped /\ ServedIsCurrent
  BY DEF PreviewInv
<1>1. /\ previewJob[j].kind \notin {"none", "sync"} /\ previewJob[j].pc \in {"sent", "served"}
      /\ previewJob' = [previewJob EXCEPT ![j] = Preview!Free]
      /\ unheard' = (unheard \/ (previewJob[j].pc = "served" /\ previewJob[j].kind \in Preview!Changes))
      /\ UNCHANGED <<world, previewToken, previewEpoch, Preview!pageVars>>
  BY DEF Preview!Fails
<1>2. JobsTyped' /\ previewJob'[j] = Preview!Free /\ \A k \in Jobs : k # j => previewJob'[k] = previewJob[k]
  BY <1>0, <1>1, FreeTyped, PreviewJobChanges
<1>3. unheard' \in BOOLEAN /\ (unheard => unheard')
  BY <1>0, <1>1 DEF PageTyped
<1>4. PageTyped'
  BY <1>0, <1>1, <1>3 DEF PageTyped, Preview!pageVars
<1>5. Made(j) => unheard'
  BY <1>1 DEF Made
<1>6. \A k \in Jobs : Made(k) => Made(k)' \/ unheard'
  BY <1>2, <1>5 DEF Made
<1>7. \A k \in Jobs : previewJob'[k].kind \in Preview!Previews /\ previewJob'[k].pc = "served" /\ ~previewJob'[k].crossed
                      => IsCurrent(previewJob'[k].version)
  BY <1>0, <1>2, FreeTyped DEF ServedIsCurrent
<1> QED
  BY <1>1, <1>2, <1>3, <1>4, <1>6, <1>7, JobsStep DEF Preview!pageVars

LEMMA PreviewStep ==
    ASSUME Preview!ConstantsFit, PreviewInv, [Preview!Next]_(Preview!vars)
    PROVE  PreviewInv'
<1>1. CASE UNCHANGED Preview!vars
  <2>1. UNCHANGED <<world, previewToken, previewEpoch, gwList, previewSelected, routeDataVersion, preview, structureSync, previewJob, unheard>>
    BY <1>1 DEF Preview!vars, Preview!pageVars
  <2> QED
    BY <2>1 DEF PreviewInv, PageTyped, WorldTyped, JobsTyped, Preview!SelectionExists, AskedIsDerived, ShownIsCurrent,
                ServedIsCurrent, IsCurrent, Unknown, Made
<1>2. CASE Preview!doLogout
  BY <1>2, LogoutStep
<1>3. ASSUME NEW g \in Gateways \cup {AnyGateway}, Preview!Select(g) PROVE PreviewInv'
  BY <1>3, PreviewSelectStep
<1>4. ASSUME NEW j \in Jobs,
             \/ Preview!doLogin(j) \/ Preview!OpenPage(j) \/ Preview!deriveKw(j) \/ Preview!deriveScale(j)
             \/ \E kind \in {"saveRoute", "deleteRoute"} : Preview!ChangeRoute(j, kind)
             \/ \E kind \in {"saveGw", "deleteGw"}, g \in Gateways : Preview!ChangeGateway(j, kind, g)
      PROVE  PreviewInv'
  BY <1>4, PageStarts
<1>5. ASSUME NEW j \in Jobs, Preview!syncStructure(j) \/ Preview!Serve(j) PROVE PreviewInv'
  BY <1>5, SyncStarts, PreviewServeStep
<1>6. ASSUME NEW j \in Jobs, Preview!Arrives(j) PROVE PreviewInv'
  BY <1>6, PreviewLoadArrivesStep, PreviewArrivesStep, RouteChangedStep, GatewayChangedStep, GatewaysReloadedStep,
     SyncedStep, FailsStep DEF Preview!Arrives
<1> QED
  BY <1>1, <1>2, <1>3, <1>4, <1>5, <1>6 DEF Preview!Next

LEMMA PreviewsStayFresh == PreviewInv => Preview!TypeOK /\ Preview!PreviewsAreFresh
<1> SUFFICES ASSUME PreviewInv PROVE Preview!TypeOK /\ Preview!PreviewsAreFresh
  OBVIOUS
<1>1. Preview!TypeOK
  BY DEF PreviewInv, Preview!TypeOK, PageTyped, WorldTyped, JobsTyped
<1>2. Preview!PreviewFitsSelection
  BY DEF PreviewInv, AskedIsDerived, Preview!PreviewFitsSelection, Preview!Stale
<1>3. Preview!SettledPreviewsAreFlagged
  <2> SUFFICES ASSUME NEW p \in Preview!Previews, preview[p].full, ~preview[p].crossed, ~Preview!Pending, ~unheard, ~Preview!Stale(p)
               PROVE  preview[p].version = world.version
    BY DEF Preview!SettledPreviewsAreFlagged
  <2>1. preview[p].derivedVer = routeDataVersion
    BY DEF Preview!Stale
  <2>2. IsCurrent(preview[p].version)
    BY <2>1 DEF PreviewInv, ShownIsCurrent
  <2>3. ~Unknown
    BY DEF Unknown, Made, Preview!Pending
  <2> QED
    BY <2>2, <2>3 DEF IsCurrent
<1> QED
  BY <1>1, <1>2, <1>3 DEF PreviewInv, Preview!PreviewsAreFresh

-----------------------------------------------------------------------------
(* All parts together.                                                      *)

(* A step of the whole is a step of the part it is about, or none; one of   *)
(* the tasks, or none, it always is.                                        *)
LEMMA PartSteps ==
    ASSUME [PartsNext]_allVars
    PROVE  /\ view' = view
           /\ [Next]_vars
           /\ view \in PreviewViews => [Preview!Next]_(Preview!vars)
           /\ view = "overrides" => [Overrides!Next]_(Overrides!vars)
           /\ view \in StagingViews => [Staging!Next]_(Staging!vars)
           /\ view = "tools" => [Tools!Next]_(Tools!vars)
<1>1. CASE UNCHANGED allVars
  BY <1>1 DEF allVars, previewVars, overridesVars, stagingVars, toolsVars,
              Preview!vars, Preview!pageVars, Overrides!vars, Overrides!ghosts,
              Staging!vars, Staging!pageVars, Staging!ghosts, Tools!vars
<1>2. CASE PartsNext
  BY <1>2 DEF PartsNext, StepIn, PreviewViews, StagingViews
<1> QED
  BY <1>1, <1>2

LEMMA PartInits ==
    ASSUME PartsInit
    PROVE  /\ view \in Views
           /\ Init
           /\ view \in PreviewViews => Preview!Init
           /\ view = "overrides" => Overrides!Init
           /\ view \in StagingViews => Staging!Init
           /\ view = "tools" => Tools!Init
  BY DEF PartsInit

LEMMA TasksAreKept == PartsSpec => [](view \in Views /\ TasksInv)
<1> DEFINE Holds == view \in Views /\ TasksInv
<1>1. PartsInit => Holds
  BY PartInits, TasksInit, EveryConstantFits
<1>2. Holds /\ [PartsNext]_allVars => Holds'
  BY PartSteps, TasksStep, EveryConstantFits
<1> HIDE DEF Holds
<1>3. PartsSpec => []Holds
  BY <1>1, <1>2, PTL DEF PartsSpec
<1> QED
  BY <1>3, PTL DEF Holds

LEMMA TasksAlways == Spec => []TasksInv
<1>1. Init => TasksInv
  BY TasksInit, EveryConstantFits
<1>2. TasksInv /\ [Next]_vars => TasksInv'
  BY TasksStep, EveryConstantFits
<1> QED
  BY <1>1, <1>2, PTL DEF Spec

LEMMA PreviewsAreKept == PartsSpec => [](view \in PreviewViews => PreviewInv)
<1> DEFINE Holds == view \in PreviewViews => PreviewInv
<1>1. PartsInit => Holds
  BY PartInits, PreviewInit, EveryConstantFits
<1>2. ASSUME Holds, [PartsNext]_allVars PROVE Holds'
  <2>1. CASE view \in PreviewViews
    <3>1. PreviewInv /\ [Preview!Next]_(Preview!vars)
      BY <1>2, <2>1, PartSteps
    <3>2. PreviewInv'
      BY <3>1, PreviewStep, EveryConstantFits
    <3> QED
      BY <3>2
  <2>2. CASE ~(view \in PreviewViews)
    BY <1>2, <2>2, PartSteps
  <2> QED
    BY <2>1, <2>2
<1> HIDE DEF Holds
<1>3. PartsSpec => []Holds
  BY <1>1, <1>2, PTL DEF PartsSpec
<1> QED
  BY <1>3, PTL DEF Holds

LEMMA OverridesAreKept == PartsSpec => [](view = "overrides" => OverridesInv)
<1> DEFINE Holds == view = "overrides" => OverridesInv
<1>1. PartsInit => Holds
  BY PartInits, OverridesInit, EveryConstantFits
<1>2. ASSUME Holds, [PartsNext]_allVars PROVE Holds'
  <2>1. CASE view = "overrides"
    <3>1. OverridesInv /\ [Overrides!Next]_(Overrides!vars)
      BY <1>2, <2>1, PartSteps
    <3>2. OverridesInv'
      BY <3>1, OverridesStep, EveryConstantFits
    <3> QED
      BY <3>2
  <2>2. CASE ~(view = "overrides")
    BY <1>2, <2>2, PartSteps
  <2> QED
    BY <2>1, <2>2
<1> HIDE DEF Holds
<1>3. PartsSpec => []Holds
  BY <1>1, <1>2, PTL DEF PartsSpec
<1> QED
  BY <1>3, PTL DEF Holds

LEMMA StagingIsKept == PartsSpec => [](view \in StagingViews => StagingInv)
<1> DEFINE Holds == view \in StagingViews => StagingInv
<1>1. PartsInit => Holds
  BY PartInits, StagingInit, EveryConstantFits
<1>2. ASSUME Holds, [PartsNext]_allVars PROVE Holds'
  <2>1. CASE view \in StagingViews
    <3>1. StagingInv /\ [Staging!Next]_(Staging!vars)
      BY <1>2, <2>1, PartSteps
    <3>2. StagingInv'
      BY <3>1, StagingStep, EveryConstantFits
    <3> QED
      BY <3>2
  <2>2. CASE ~(view \in StagingViews)
    BY <1>2, <2>2, PartSteps
  <2> QED
    BY <2>1, <2>2
<1> HIDE DEF Holds
<1>3. PartsSpec => []Holds
  BY <1>1, <1>2, PTL DEF PartsSpec
<1> QED
  BY <1>3, PTL DEF Holds

LEMMA ToolsAreKept == PartsSpec => [](view = "tools" => ToolsInv)
<1> DEFINE Holds == view = "tools" => ToolsInv
<1>1. PartsInit => Holds
  BY PartInits, ToolsInit, EveryConstantFits
<1>2. ASSUME Holds, [PartsNext]_allVars PROVE Holds'
  <2>1. CASE view = "tools"
    <3>1. ToolsInv /\ [Tools!Next]_(Tools!vars)
      BY <1>2, <2>1, PartSteps
    <3>2. ToolsInv'
      BY <3>1, ToolsStep, EveryConstantFits
    <3> QED
      BY <3>2
  <2>2. CASE ~(view = "tools")
    BY <1>2, <2>2, PartSteps
  <2> QED
    BY <2>1, <2>2
<1> HIDE DEF Holds
<1>3. PartsSpec => []Holds
  BY <1>1, <1>2, PTL DEF PartsSpec
<1> QED
  BY <1>3, PTL DEF Holds

(* What the panels show and offer is so: the execute button is blocked      *)
(* exactly while a loop of this session works for the flow, one loop        *)
(* follows the task of the panel, no second task of a flow is submitted     *)
(* behind the user's back, no panel outlives its session, and "cancelling"  *)
(* means that the server has taken the cancel.                              *)
THEOREM PanelsAreTrue ==
    /\ PartsSpec => []PanelsTellTheTruth
    /\ Spec => []PanelsTellTheTruth
<1>1. TasksInv => PanelsTellTheTruth
  BY TasksTrue
<1>2. PartsSpec => []PanelsTellTheTruth
  BY <1>1, TasksAreKept, PTL
<1>3. Spec => []PanelsTellTheTruth
  BY <1>1, TasksAlways, PTL
<1> QED
  BY <1>2, <1>3

(* What the page shows of a task never goes back, however late an answer    *)
(* is, whichever of several loops gets it and whatever the server forgets.  *)
THEOREM StatusMovesForward ==
    /\ PartsSpec => StatusNeverRegresses
    /\ Spec => StatusNeverRegresses
<1>1. (view \in Views /\ TasksInv) /\ [PartsNext]_allVars => [Later]_ts
  BY StepsGoForward, PartSteps, EveryConstantFits
<1>2. TasksInv /\ [Next]_vars => [Later]_ts
  BY StepsGoForward, EveryConstantFits
<1>3. PartsSpec => StatusNeverRegresses
  BY <1>1, TasksAreKept, PTL DEF PartsSpec, StatusNeverRegresses
<1>4. Spec => StatusNeverRegresses
  BY <1>2, TasksAlways, PTL DEF Spec, StatusNeverRegresses
<1> QED
  BY <1>3, <1>4

(* A preview the page does not flag was asked for the gateway that is       *)
(* selected, and rests on the routing data of now once every change has     *)
(* been answered; and what is selected is in the list - for any number of   *)
(* gateways, requests and versions, whatever is lost, late or left behind   *)
(* by a logout.                                                             *)
THEOREM PreviewsStayCurrent ==
    /\ PartsSpec => []PreviewsAreFresh
    /\ Preview!Spec => []Preview!PreviewsAreFresh
<1>1. (view \in PreviewViews => PreviewInv) => PreviewsAreFresh
  BY PreviewsStayFresh DEF PreviewsAreFresh
<1>2. PartsSpec => []PreviewsAreFresh
  BY <1>1, PreviewsAreKept, PTL
<1>3. Preview!Init => PreviewInv
  BY PreviewInit, EveryConstantFits
<1>4. PreviewInv /\ [Preview!Next]_(Preview!vars) => PreviewInv'
  BY PreviewStep, EveryConstantFits
<1>5. PreviewInv => Preview!PreviewsAreFresh
  BY PreviewsStayFresh
<1>6. Preview!Spec => []Preview!PreviewsAreFresh
  BY <1>3, <1>4, <1>5, PTL DEF Preview!Spec
<1> QED
  BY <1>2, <1>6

(* A row the page counts as unchanged shows what is stored, and only rows   *)
(* the user edited are overridden - for any number of rows, edits and       *)
(* derivations that come in between, and wherever a save is refused or      *)
(* lost.                                                                    *)
THEOREM OverridesAreStored ==
    /\ PartsSpec => []SavedMeansStored
    /\ Overrides!Spec => []Overrides!SavedMeansStored
<1>1. (view = "overrides" => OverridesInv) => SavedMeansStored
  BY OverridesAreSafe DEF SavedMeansStored
<1>2. PartsSpec => []SavedMeansStored
  BY <1>1, OverridesAreKept, PTL
<1>3. Overrides!Init => OverridesInv
  BY OverridesInit, EveryConstantFits
<1>4. OverridesInv /\ [Overrides!Next]_(Overrides!vars) => OverridesInv'
  BY OverridesStep, EveryConstantFits
<1>5. OverridesInv => Overrides!SavedMeansStored
  BY OverridesAreSafe
<1>6. Overrides!Spec => []Overrides!SavedMeansStored
  BY <1>3, <1>4, <1>5, PTL DEF Overrides!Spec
<1> QED
  BY <1>2, <1>6

(* Once the newest load was answered last, the table shows the page and the *)
(* filter of the controls, and what is selected was on the screen since the *)
(* last load began and in this session - for any number of rows, pages and  *)
(* requests, in whatever order they are served and answered, with any       *)
(* number of logouts among them.                                            *)
THEOREM StagingSettles ==
    /\ PartsSpec => []TableIsSettled
    /\ Staging!Spec => []Staging!TableIsSettled
<1>1. (view \in StagingViews => StagingInv) => TableIsSettled
  BY StagingIsSettled DEF TableIsSettled
<1>2. PartsSpec => []TableIsSettled
  BY <1>1, StagingIsKept, PTL
<1>3. Staging!Init => StagingInv
  BY StagingInit, EveryConstantFits
<1>4. StagingInv /\ [Staging!Next]_(Staging!vars) => StagingInv'
  BY StagingStep, EveryConstantFits
<1>5. StagingInv => Staging!TableIsSettled
  BY StagingIsSettled
<1>6. Staging!Spec => []Staging!TableIsSettled
  BY <1>3, <1>4, <1>5, PTL DEF Staging!Spec
<1> QED
  BY <1>2, <1>6

(* A disabled button or input stands for something under way, and the       *)
(* assistant's replies take turns with the questions of one chat - for any  *)
(* number of requests, chats and messages, across logouts and cleared       *)
(* chats.                                                                   *)
THEOREM RepliesTakeTheirTurn ==
    /\ PartsSpec => []RepliesAreInTurn
    /\ Tools!Spec => []Tools!RepliesAreInTurn
<1>1. (view = "tools" => ToolsInv) => RepliesAreInTurn
  BY ToolsAreInTurn DEF RepliesAreInTurn
<1>2. PartsSpec => []RepliesAreInTurn
  BY <1>1, ToolsAreKept, PTL
<1>3. Tools!Init => ToolsInv
  BY ToolsInit, EveryConstantFits
<1>4. ToolsInv /\ [Tools!Next]_(Tools!vars) => ToolsInv'
  BY ToolsStep, EveryConstantFits
<1>5. ToolsInv => Tools!RepliesAreInTurn
  BY ToolsAreInTurn
<1>6. Tools!Spec => []Tools!RepliesAreInTurn
  BY <1>3, <1>4, <1>5, PTL DEF Tools!Spec
<1> QED
  BY <1>2, <1>6

(* Whatever the user, the network and the server do, every part of the page *)
(* keeps its types - for any values of the constants.                       *)
THEOREM PartsAreTyped == PartsSpec => []PartsTypeOK
<1> DEFINE Typing ==
      /\ view \in Views /\ TasksInv
      /\ view \in PreviewViews => PreviewInv
      /\ view = "overrides" => OverridesInv
      /\ view \in StagingViews => StagingInv
      /\ view = "tools" => ToolsInv
<1>1. Typing => PartsTypeOK
  BY PreviewsStayFresh, OverridesAreSafe, StagingIsSettled, ToolsAreInTurn DEF PartsTypeOK, TasksInv
<1>2. PartsSpec => []Typing
  BY TasksAreKept, PreviewsAreKept, OverridesAreKept, StagingIsKept, ToolsAreKept, PTL
<1> HIDE DEF Typing
<1> QED
  BY <1>1, <1>2, PTL
=============================================================================
