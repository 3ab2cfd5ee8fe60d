---------------------------- MODULE GatewayQueue ----------------------------
(***************************************************************************)
(* app/gateway_queue.py: one first-in first-out line of jobs per Kepware   *)
(* gateway, behind a single threading.Condition.  The head of a line is    *)
(* the job that holds the gateway, the others wait for their turn.         *)
(*                                                                         *)
(* Every public method runs with the Condition's lock held, so each is one *)
(* action.  wait_turn gives the lock up only inside Condition.wait: one    *)
(* pass of its loop, from taking the lock to returning or going to sleep,  *)
(* is one action (GatewayMonitor models the lock itself and implements     *)
(* this module).  The predicate cancelled() that wait_turn is given reads  *)
(* task.cancelled, a flag its setter changes without the lock.             *)
(*                                                                         *)
(* A key absent from self._queues is the empty line.                       *)
(***************************************************************************)
EXTENDS Naturals, Sequences, FiniteSets, SequencesExt

CONSTANTS Keys,      \* queue keys, one per gateway identity (gateway_key)
          Tasks,     \* task ids, never used twice (uuid4 in create_task)
          MaxDepth   \* queue_max_per_gateway

ASSUME MaxDepthAssumption == MaxDepth \in Nat \ {0}

VARIABLES queues,    \* self._queues: key -> task ids, the head first
          cancelled, \* task.cancelled, what cancelled() reads
          waiter     \* where the call wait_turn(key, task) is

queueVars == <<queues, cancelled, waiter>>

WaiterStates ==
    {"out",      \* wait_turn is not running
     "awake",    \* about to take the lock and look again
     "asleep",   \* in Condition.wait
     "granted",  \* wait_turn has returned True
     "refused"}  \* wait_turn has returned False

(* The lines and the waiters' states keep their types.                     *)
QueueTypeOK ==
    /\ queues \in [Keys -> Seq(Tasks)]
    /\ cancelled \in [Tasks -> BOOLEAN]
    /\ waiter \in [Keys -> [Tasks -> WaiterStates]]

QueueInit ==
    /\ queues = [k \in Keys |-> <<>>]
    /\ cancelled = [t \in Tasks |-> FALSE]
    /\ waiter = [k \in Keys |-> [t \in Tasks |-> "out"]]

-----------------------------------------------------------------------------
(* Helpers *)

InLine(k, t) == \E i \in 1..Len(queues[k]) : queues[k][i] = t

IsHead(k, t) == Len(queues[k]) > 0 /\ queues[k][1] = t

(* Slip: popleft for remove, the head leaves instead of t. *)
RemovedHead(k, t) ==
    IF InLine(k, t) THEN [queues EXCEPT ![k] = Tail(@)] ELSE queues

(* _remove_locked; RemoveFirst is deque.remove, and the identity when t is *)
(* not there.                                                              *)
Removed(k, t) == [queues EXCEPT ![k] = RemoveFirst(queues[k], t)]

(* Condition.notify_all: every sleeping waiter, whatever its key. *)
Notified(w) ==
    [k \in Keys |-> [t \in Tasks |->
        IF w[k][t] = "asleep" THEN "awake" ELSE w[k][t]]]

-----------------------------------------------------------------------------
(* enqueue_many *)

AlreadyQueued(t, K) == \E k \in K : InLine(k, t)

(* Slip: a line that is full still takes one. *)
HasRoomAtLimit(K) == \A k \in K : Len(queues[k]) <= MaxDepth

HasRoom(K) == \A k \in K : Len(queues[k]) < MaxDepth

(* Slip: appendleft for append. *)
Prepended(t, K) ==
    [k \in Keys |-> IF k \in K THEN <<t>> \o queues[k] ELSE queues[k]]

Appended(t, K) ==
    [k \in Keys |-> IF k \in K THEN Append(queues[k], t) ELSE queues[k]]

EnqueueMany(t, K) ==
    /\ ~AlreadyQueued(t, K)
    /\ HasRoom(K)
    /\ queues' = Appended(t, K)
    /\ UNCHANGED <<cancelled, waiter>>

(* ValueError or QueueFullError: no line has taken the task. *)
EnqueueRefused(t, K) ==
    /\ AlreadyQueued(t, K) \/ ~HasRoom(K)
    /\ UNCHANGED queueVars

-----------------------------------------------------------------------------
(* release, wake and the caller's flag *)

(* Slip: notify for notify_all. *)
ReleaseNotifiesOne(k, t) ==
    /\ queues' = Removed(k, t)
    /\ IF InLine(k, t) /\ \E j \in Keys, u \in Tasks : waiter[j][u] = "asleep"
       THEN \E j \in Keys, u \in Tasks :
               waiter[j][u] = "asleep" /\ waiter' = [waiter EXCEPT ![j][u] = "awake"]
       ELSE UNCHANGED waiter
    /\ UNCHANGED cancelled

Release(k, t) ==
    /\ queues' = Removed(k, t)
    /\ waiter' = IF InLine(k, t) THEN Notified(waiter) ELSE waiter
    /\ UNCHANGED cancelled

Wake ==
    /\ waiter' = Notified(waiter)
    /\ UNCHANGED <<queues, cancelled>>

SetCancelled(t) ==
    /\ cancelled' = [cancelled EXCEPT ![t] = TRUE]
    /\ UNCHANGED <<queues, waiter>>

-----------------------------------------------------------------------------
(* wait_turn: the call, one pass of the loop, and the way out of           *)
(* Condition.wait that needs no notification.                              *)

BeginWait(k, t) ==
    /\ waiter[k][t] = "out"
    /\ waiter' = [waiter EXCEPT ![k][t] = "awake"]
    /\ UNCHANGED <<queues, cancelled>>

TurnMissing(k, t) ==
    /\ waiter[k][t] = "awake"
    /\ ~InLine(k, t)
    /\ waiter' = [waiter EXCEPT ![k][t] = "refused"]
    /\ UNCHANGED <<queues, cancelled>>

TurnCancelled(k, t) ==
    /\ waiter[k][t] = "awake"
    /\ InLine(k, t)
    /\ cancelled[t]
    /\ queues' = Removed(k, t)
    /\ waiter' = [Notified(waiter) EXCEPT ![k][t] = "refused"]
    /\ UNCHANGED cancelled

(* Slip: any place in the line is good enough. *)
TurnGrantedAnywhere(k, t) ==
    /\ waiter[k][t] = "awake"
    /\ ~cancelled[t]
    /\ InLine(k, t)
    /\ waiter' = [waiter EXCEPT ![k][t] = "granted"]
    /\ UNCHANGED <<queues, cancelled>>

TurnGranted(k, t) ==
    /\ waiter[k][t] = "awake"
    /\ ~cancelled[t]
    /\ IsHead(k, t)
    /\ waiter' = [waiter EXCEPT ![k][t] = "granted"]
    /\ UNCHANGED <<queues, cancelled>>

TurnSleeps(k, t) ==
    /\ waiter[k][t] = "awake"
    /\ ~cancelled[t]
    /\ InLine(k, t)
    /\ ~IsHead(k, t)
    /\ waiter' = [waiter EXCEPT ![k][t] = "asleep"]
    /\ UNCHANGED <<queues, cancelled>>

Turn(k, t) ==
    \/ TurnMissing(k, t)
    \/ TurnCancelled(k, t)
    \/ TurnGranted(k, t)
    \/ TurnSleeps(k, t)

PollTimeout(k, t) ==
    /\ waiter[k][t] = "asleep"
    /\ waiter' = [waiter EXCEPT ![k][t] = "awake"]
    /\ UNCHANGED <<queues, cancelled>>

(* The caller goes on with the value wait_turn returned. *)
EndWait(k, t) ==
    /\ waiter[k][t] \in {"granted", "refused"}
    /\ waiter' = [waiter EXCEPT ![k][t] = "out"]
    /\ UNCHANGED <<queues, cancelled>>

-----------------------------------------------------------------------------
(* The most general caller: any operation, on any key and task, at any     *)
(* time.  GatewayJobs is the one caller the application has.               *)

QueueNext ==
    \/ \E t \in Tasks, K \in SUBSET Keys :
          EnqueueMany(t, K) \/ EnqueueRefused(t, K)
    \/ \E k \in Keys, t \in Tasks :
          \/ Release(k, t)
          \/ BeginWait(k, t)
          \/ Turn(k, t)
          \/ PollTimeout(k, t)
          \/ EndWait(k, t)
    \/ Wake
    \/ \E t \in Tasks : SetCancelled(t)

QueueSpec == QueueInit /\ [][QueueNext]_queueVars

-----------------------------------------------------------------------------
(* Properties *)

(* No line exceeds the limit: enqueue_many checks every key and appends to *)
(* all of them in one critical section (gateway_queue.py:24).              *)
DepthBounded == \A k \in Keys : Len(queues[k]) <= MaxDepth

(* A task is at most once in a line, whatever its callers do. *)
NoDuplicates ==
    \A k \in Keys : \A i, j \in 1..Len(queues[k]) :
        queues[k][i] = queues[k][j] => i = j

(* First in, first out: whoever is in a line stays ahead of those behind   *)
(* him and of those that join.  Only the back of a line takes tasks, and   *)
(* leaving moves nobody past another.                                      *)
Before(k, t, u) ==
    \E i, j \in 1..Len(queues[k]) :
        i < j /\ queues[k][i] = t /\ queues[k][j] = u

CameFirst(k, t, u) == Before(k, t, u) \/ (InLine(k, t) /\ ~InLine(k, u))

NoOvertaking ==
    [][\A k \in Keys : \A t, u \in Tasks :
          (CameFirst(k, t, u) /\ InLine(k, t)' /\ InLine(k, u)')
              => Before(k, t, u)']_queueVars

(* No lost wake-up: a waiter asleep is neither at the head of its line nor *)
(* out of it, in every state.                                              *)
SleepersHaveReason ==
    \A k \in Keys, t \in Tasks :
        waiter[k][t] = "asleep" => InLine(k, t) /\ ~IsHead(k, t)
=============================================================================
