---------------------------- MODULE TaskRecords -----------------------------
(***************************************************************************)
(* Where a task can be found: the registry of TaskManager, which keeps     *)
(* MAX_TASKS of them, and data/history.json, to which the thread that      *)
(* completes a task adds its record (push_complete's on_complete,          *)
(* _append_history).                                                       *)
(*                                                                         *)
(* Handlers run on the event loop one at a time, threads complete tasks    *)
(* beside them.  The file is opened for writing, which empties it, and     *)
(* then written: until that is over, and for good if it fails or the       *)
(* process dies, it does not parse and loads as the empty list.  A record  *)
(* is its task.                                                            *)
(***************************************************************************)
EXTENDS Integers, Sequences, SequencesExt

CONSTANTS Tasks,
          Free, Clear,  \* who may hold _history_lock: nobody, clear_history, a task
          Torn,         \* a file that does not parse
          MaxTasks,     \* TaskManager.MAX_TASKS, 100 in the code
          MaxRecords,   \* 200 in the code
          MaxClears,    \* bound: requests to clear the history
          MaxCrashes    \* bound: times the process dies

(* What is assumed of the constants.                                        *)
ConstantsFit ==
    /\ Free \notin Tasks
    /\ Clear \notin Tasks
    /\ Free # Clear
    /\ Torn \notin Seq(Tasks)
    /\ MaxTasks \in Nat \ {0}
    /\ MaxRecords \in Nat \ {0}
    /\ MaxClears \in Nat
    /\ MaxCrashes \in Nat

VARIABLES state,     \* each task: new, running, done, then its record: kept, unkept; or lost
          registry,  \* TaskManager.tasks, in order of insertion
          lock,      \* holder of _history_lock
          emptied,   \* the holder has opened the file
          loaded,    \* what the holder read
          file,      \* history.json
          written,   \* records written since the file last became empty
          clears, crashes

vars == <<state, registry, lock, emptied, loaded, file, written, clears, crashes>>
history == <<lock, emptied, loaded, file, written>>

Running == {t \in Tasks : state[t] = "running"}
Newest(s) == SubSeq(s, 1, IF Len(s) < MaxRecords THEN Len(s) ELSE MaxRecords)
Loads == IF file = Torn THEN <<>> ELSE file

Init ==
  /\ state = [t \in Tasks |-> "new"]
  /\ registry = <<>>
  /\ lock = Free /\ emptied = FALSE /\ loaded = <<>>
  /\ file = <<>> /\ written = <<>>
  /\ clears = 0 /\ crashes = 0

-----------------------------------------------------------------------------
(* The registry.                                                           *)

Finished(s) == {i \in DOMAIN s : state[s[i]] \in {"done", "kept", "unkept"}}

(* _evict_old_tasks.  Every insertion evicts, so one at most is too many:  *)
(* the oldest finished, or if there is none the oldest.                    *)
Evict(s) ==
  IF Len(s) <= MaxTasks THEN s
  ELSE IF Finished(s) # {} THEN RemoveAt(s, Min(Finished(s)))
  ELSE Tail(s)

(* create_task and run_job. *)
Accept(t) ==
  /\ state[t] = "new"
  /\ state' = [state EXCEPT ![t] = "running"]
  /\ registry' = Evict(Append(registry, t))
  /\ UNCHANGED <<history, clears, crashes>>

(* The queue is full: the new task is taken out again, what it evicted     *)
(* stays out.                                                              *)
Refuse(t) ==
  /\ state[t] = "new"
  /\ Len(registry) = MaxTasks
  /\ registry' = IF Finished(registry) # {} THEN RemoveAt(registry, Min(Finished(registry)))
                 ELSE Tail(registry)
  /\ UNCHANGED <<state, history, clears, crashes>>

-----------------------------------------------------------------------------
(* Completion and the history.                                             *)

(* push_complete sets done, then calls on_complete. *)
SetDone(t) ==
  /\ state[t] = "running"
  /\ state' = [state EXCEPT ![t] = "done"]
  /\ UNCHANGED <<registry, history, clears, crashes>>

(* Slip: without the lock. *)
LoadUnlocked(t) ==
  /\ state[t] = "done" /\ lock # t
  /\ lock' = t
  /\ loaded' = Loads
  /\ emptied' = FALSE
  /\ UNCHANGED <<state, registry, file, written, clears, crashes>>

Load(t) ==
  /\ state[t] = "done" /\ lock = Free
  /\ lock' = t
  /\ loaded' = Loads
  /\ UNCHANGED <<state, registry, emptied, file, written, clears, crashes>>

StartClear ==
  /\ lock = Free /\ clears < MaxClears
  /\ lock' = Clear
  /\ clears' = clears + 1
  /\ UNCHANGED <<state, registry, emptied, loaded, file, written, crashes>>

Open ==
  /\ lock # Free /\ ~emptied
  /\ emptied' = TRUE
  /\ file' = Torn
  /\ UNCHANGED <<state, registry, lock, loaded, written, clears, crashes>>

Released == lock' = Free /\ emptied' = FALSE /\ loaded' = <<>>

Dump(t) ==
  /\ lock = t /\ emptied
  /\ file' = Newest(<<t>> \o loaded)
  /\ written' = <<t>> \o written
  /\ state' = [state EXCEPT ![t] = "kept"]
  /\ Released
  /\ UNCHANGED <<registry, clears, crashes>>

DumpCleared ==
  /\ lock = Clear /\ emptied
  /\ file' = <<>> /\ written' = <<>>
  /\ Released
  /\ UNCHANGED <<state, registry, clears, crashes>>

(* The write raises: logged, the file stays as it is, the lock is released. *)
WriteFails ==
  /\ lock # Free /\ emptied
  /\ state' = [t \in Tasks |-> IF t = lock THEN "unkept" ELSE state[t]]
  /\ written' = <<>>
  /\ Released
  /\ UNCHANGED <<registry, file, clears, crashes>>

(* The process dies and starts again: the registry is empty, nothing is    *)
(* resumed, the file is what it was.                                       *)
Crash ==
  /\ crashes < MaxCrashes
  /\ crashes' = crashes + 1
  /\ state' = [t \in Tasks |-> IF state[t] \in {"running", "done"} THEN "lost" ELSE state[t]]
  /\ registry' = <<>>
  /\ written' = IF file = Torn THEN <<>> ELSE written
  /\ Released
  /\ UNCHANGED <<file, clears>>

Next ==
  \/ \E t \in Tasks : Accept(t) \/ Refuse(t) \/ SetDone(t) \/ Load(t) \/ Dump(t)
  \/ StartClear \/ Open \/ DumpCleared \/ WriteFails \/ Crash

Spec == Init /\ [][Next]_vars

(* Tasks end (GatewayJobs), threads go on, and whoever waits for the lock  *)
(* gets it: the others are finitely many and leave it.                     *)
FairSpec ==
  /\ Spec
  /\ \A t \in Tasks : WF_vars(SetDone(t)) /\ WF_vars(Load(t)) /\ WF_vars(Dump(t))
  /\ WF_vars(Open) /\ WF_vars(DumpCleared)

-----------------------------------------------------------------------------
(* The state keeps its type, and the registry its limit.                   *)
TypeOK ==
  /\ state \in [Tasks -> {"new", "running", "done", "kept", "unkept", "lost"}]
  /\ registry \in Seq(Tasks) /\ Len(registry) <= MaxTasks
  /\ lock \in Tasks \cup {Free, Clear} /\ emptied \in BOOLEAN
  /\ loaded \in Seq(Tasks) /\ Len(loaded) <= MaxRecords
  /\ file = Torn \/ (file \in Seq(Tasks) /\ Len(file) <= MaxRecords)
  /\ written \in Seq(Tasks)
  /\ clears \in 0 .. MaxClears /\ crashes \in 0 .. MaxCrashes

(* However many threads finish at once, none overwrites another's record:  *)
(* whenever nobody writes, the file holds the newest records, newest       *)
(* first, of all written since it was last cleared or spoilt.              *)
RecordsAreKept == lock = Free => Loads = Newest(written)

(* A step without a crash keeps a running task registered while any        *)
(* finished one could go instead.                                          *)
RunningStays ==
  crashes' = crashes =>
    \A t \in Running : t \in ToSet(registry) /\ t \notin ToSet(registry')
                         => ToSet(registry) \subseteq Running

(* A task that is still running is dropped from the registry (its status   *)
(* and its cancel answer 404 from then on) only when the registry is full  *)
(* of running tasks, or with the process.                                  *)
FinishedGoFirst == [][RunningStays]_vars

(* The registry and the history keep what a user still needs.              *)
TasksAreKept == []RecordsAreKept /\ FinishedGoFirst

(* A task that is done gets its record, unless the write fails or the      *)
(* process dies.                                                           *)
RecordsArrive == \A t \in Tasks : state[t] = "done" ~> state[t] \in {"kept", "unkept", "lost"}
=============================================================================
