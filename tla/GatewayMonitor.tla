--------------------------- MODULE GatewayMonitor ---------------------------
(***************************************************************************)
(* The critical sections of app/gateway_queue.py opened up: what happens   *)
(* between taking the Condition's lock and giving it back is several       *)
(* steps, and task.cancelled, which wait_turn reads inside, is set outside *)
(* the lock at any moment.  GatewayQueue treats each section as one step;  *)
(* here that is checked (ImplementsQueue), together with the claim that    *)
(* wait_turn's check of the flag and its going to sleep are atomic for     *)
(* wake (CancelWakesSleepers).                                             *)
(*                                                                         *)
(* Nothing outside a section sees the lines, so a reader's section (depth, *)
(* position, a refused enqueue_many) changes nothing and is left out.      *)
(***************************************************************************)
EXTENDS GatewayQueue

VARIABLES section,  \* the critical section in progress: who holds the lock
                    \* and what it has left to do
          unwoken   \* cancelled tasks whose cancel request has not reached
                    \* wake() yet

monitorVars == <<queueVars, section, unwoken>>

Free == [op |-> "free"]
Appending(t, K) == [op |-> "append", task |-> t, keys |-> K]
Notifying == [op |-> "notify"]
Waiting(k, t, at) == [op |-> "wait", key |-> k, task |-> t, at |-> at]

MonitorInit ==
    /\ QueueInit
    /\ section = Free
    /\ unwoken = {}

-----------------------------------------------------------------------------
(* enqueue_many: every check, then one append after the other *)

EnterEnqueue(t, K) ==
    /\ section = Free
    /\ ~AlreadyQueued(t, K)
    /\ HasRoom(K)
    /\ section' = Appending(t, K)
    /\ UNCHANGED <<queueVars, unwoken>>

AppendOne(k) ==
    /\ section.op = "append"
    /\ k \in section.keys
    /\ queues' = [queues EXCEPT ![k] = Append(@, section.task)]
    /\ section' = [section EXCEPT !.keys = @ \ {k}]
    /\ UNCHANGED <<cancelled, waiter, unwoken>>

ExitEnqueue ==
    /\ section.op = "append"
    /\ section.keys = {}
    /\ section' = Free
    /\ UNCHANGED <<queueVars, unwoken>>

-----------------------------------------------------------------------------
(* release, and the cancel request: the flag, then wake *)

EnterRelease(k, t) ==
    /\ section = Free
    /\ queues' = Removed(k, t)
    /\ section' = IF InLine(k, t) THEN Notifying ELSE Free
    /\ UNCHANGED <<cancelled, waiter, unwoken>>

RaiseFlag(t) ==
    /\ SetCancelled(t)
    /\ unwoken' = unwoken \cup {t}
    /\ UNCHANGED section

(* Slip: notifying without the lock. *)
EnterWakeUnlocked(t) ==
    /\ t \in unwoken
    /\ waiter' = Notified(waiter)
    /\ unwoken' = unwoken \ {t}
    /\ UNCHANGED <<queues, cancelled, section>>

EnterWake(t) ==
    /\ section = Free
    /\ t \in unwoken
    /\ section' = Notifying
    /\ unwoken' = unwoken \ {t}
    /\ UNCHANGED queueVars

(* Slip: notify for notify_all. *)
NotifyOne ==
    /\ section.op = "notify"
    /\ \/ \E k \in Keys, t \in Tasks :
             waiter[k][t] = "asleep" /\ waiter' = [waiter EXCEPT ![k][t] = "awake"]
       \/ waiter = Notified(waiter) /\ UNCHANGED waiter
    /\ section' = Free
    /\ UNCHANGED <<queues, cancelled, unwoken>>

Notify ==
    /\ section.op = "notify"
    /\ waiter' = Notified(waiter)
    /\ section' = Free
    /\ UNCHANGED <<queues, cancelled, unwoken>>

-----------------------------------------------------------------------------
(* wait_turn.  A waiter that is awake wants the lock or holds it. *)

EnterWait(k, t) ==
    /\ section = Free
    /\ waiter[k][t] = "awake"
    /\ section' = Waiting(k, t, "top")
    /\ UNCHANGED <<queueVars, unwoken>>

(* Leaving the section with a value for the caller, or to sleep.           *)
Exit(k, t, w) ==
    /\ waiter' = [waiter EXCEPT ![k][t] = w]
    /\ section' = Free
    /\ UNCHANGED <<queues, cancelled, unwoken>>

Goes(k, t, at) ==
    /\ section' = Waiting(k, t, at)
    /\ UNCHANGED <<queueVars, unwoken>>

FindPlace(k, t) ==
    /\ section = Waiting(k, t, "top")
    /\ IF InLine(k, t) THEN Goes(k, t, "placed") ELSE Exit(k, t, "refused")

ReadFlag(k, t) ==
    /\ section = Waiting(k, t, "placed")
    /\ Goes(k, t, IF cancelled[t] THEN "leaving" ELSE "staying")

LeaveLine(k, t) ==
    /\ section = Waiting(k, t, "leaving")
    /\ queues' = Removed(k, t)
    /\ waiter' = [Notified(waiter) EXCEPT ![k][t] = "refused"]
    /\ section' = Free
    /\ UNCHANGED <<cancelled, unwoken>>

(* Condition.wait enters its waiter before it gives the lock back. *)
TakeTurnOrSleep(k, t) ==
    /\ section = Waiting(k, t, "staying")
    /\ Exit(k, t, IF IsHead(k, t) THEN "granted" ELSE "asleep")

-----------------------------------------------------------------------------
MonitorNext ==
    \/ \E t \in Tasks :
          \/ \E K \in SUBSET Keys : EnterEnqueue(t, K)
          \/ RaiseFlag(t)
          \/ EnterWake(t)
    \/ \E k \in Keys : AppendOne(k)
    \/ ExitEnqueue
    \/ Notify
    \/ \E k \in Keys, t \in Tasks :
          \/ EnterRelease(k, t)
          \/ BeginWait(k, t) /\ UNCHANGED <<section, unwoken>>
          \/ EnterWait(k, t)
          \/ FindPlace(k, t)
          \/ ReadFlag(k, t)
          \/ LeaveLine(k, t)
          \/ TakeTurnOrSleep(k, t)
          \/ PollTimeout(k, t) /\ UNCHANGED <<section, unwoken>>
          \/ EndWait(k, t) /\ UNCHANGED <<section, unwoken>>

MonitorSpec == MonitorInit /\ [][MonitorNext]_monitorVars

-----------------------------------------------------------------------------
(* A cancelled task has no sleeper once wake() has run, although the flag  *)
(* is set without the lock: "check cancelled, then wait" is atomic for     *)
(* wake() (gateway_queue.py:171-173).                                      *)
CancelWakesSleepers ==
    \A k \in Keys, t \in Tasks :
        waiter[k][t] = "asleep" /\ cancelled[t] => t \in unwoken \/ section = Notifying

-----------------------------------------------------------------------------
(* The section's effect counts from the step that settles it: the last     *)
(* check of enqueue_many, the removal, wake's entry, the read of the flag. *)

SettledQueues ==
    CASE section.op = "append" -> Appended(section.task, section.keys)
      [] section.op = "wait" /\ section.at = "leaving" -> Removed(section.key, section.task)
      [] OTHER -> queues

Outcome(k, t) ==
    CASE section = Waiting(k, t, "leaving") -> "refused"
      [] section = Waiting(k, t, "staying") -> IF IsHead(k, t) THEN "granted" ELSE "asleep"
      [] OTHER -> waiter[k][t]

MustNotify == section.op = "notify" \/ (section.op = "wait" /\ section.at = "leaving")

SettledWaiter ==
    [k \in Keys |-> [t \in Tasks |->
        IF MustNotify /\ Outcome(k, t) = "asleep" THEN "awake" ELSE Outcome(k, t)]]

Queue == INSTANCE GatewayQueue WITH queues <- SettledQueues, waiter <- SettledWaiter

(* Every behaviour of the sections is one of GatewayQueue: whole sections  *)
(* may be taken as single steps.                                           *)
ImplementsQueue == Queue!QueueSpec
=============================================================================
