------------------------ MODULE GatewayMonitorProofs ------------------------
(***************************************************************************)
(* The critical sections of the gateway queue, opened up: no cancelled     *)
(* waiter is forgotten, and each section may be taken as one step.         *)
(* Theorems about MonitorSpec, for any keys, tasks and depth limit.        *)
(***************************************************************************)
EXTENDS GatewayMonitor, GatewayQueueProofs

-----------------------------------------------------------------------------
(* The inductive invariant *)

Places == {"top", "placed", "leaving", "staying"}

SectionType ==
    {Free, Notifying}
    \cup {Appending(t, K) : t \in Tasks, K \in SUBSET Keys}
    \cup {Waiting(k, t, at) : k \in Keys, t \in Tasks, at \in Places}

(* Whoever is inside wait_turn is awake, and past its first look in line:  *)
(* nobody else can take him out while he has the lock.                     *)
InsideIsInLine ==
    \A k \in Keys, t \in Tasks, at \in Places :
        section = Waiting(k, t, at) =>
            waiter[k][t] = "awake" /\ (at # "top" => InLine(k, t))

(* A flag raised after it was read has a wake-up still to come. *)
StayingIsCurrent ==
    \A k \in Keys, t \in Tasks :
        section = Waiting(k, t, "staying") /\ cancelled[t] => t \in unwoken

MonitorTypeOK == QueueTypeOK /\ section \in SectionType

MonitorInv == MonitorTypeOK /\ InsideIsInLine /\ StayingIsCurrent /\ CancelWakesSleepers

LEMMA Sections ==
    /\ Free.op = "free" /\ Notifying.op = "notify"
    /\ \A t, K : /\ Appending(t, K).op = "append"
                 /\ Appending(t, K).task = t /\ Appending(t, K).keys = K
    /\ \A k, t, at : /\ Waiting(k, t, at).op = "wait"
                     /\ Waiting(k, t, at).key = k /\ Waiting(k, t, at).task = t
                     /\ Waiting(k, t, at).at = at
BY DEF Free, Notifying, Appending, Waiting

LEMMA SectionTyped ==
    /\ Free \in SectionType /\ Notifying \in SectionType
    /\ \A t \in Tasks, K \in SUBSET Keys : Appending(t, K) \in SectionType
    /\ \A k \in Keys, t \in Tasks, at \in Places : Waiting(k, t, at) \in SectionType
BY DEF SectionType

(* What the section is when its operation is known. *)
LEMMA SectionShape ==
    ASSUME MonitorTypeOK
    PROVE  /\ section.op = "append" =>
                 \E t \in Tasks, K \in SUBSET Keys : section = Appending(t, K)
           /\ section.op = "notify" => section = Notifying
BY Sections DEF MonitorTypeOK, SectionType

LEMMA MonitorTypeStep ==
    MonitorTypeOK /\ [MonitorNext]_monitorVars => MonitorTypeOK'
<1> SUFFICES ASSUME MonitorTypeOK, [MonitorNext]_monitorVars
             PROVE  MonitorTypeOK'
    OBVIOUS
<1>0. /\ QueueTypeOK
      /\ queues \in [Keys -> Seq(Tasks)]
      /\ cancelled \in [Tasks -> BOOLEAN]
      /\ waiter \in [Keys -> [Tasks -> WaiterStates]]
      /\ section \in SectionType
    BY DEF MonitorTypeOK, QueueTypeOK
<1>a. ASSUME UNCHANGED queueVars, section' \in SectionType
      PROVE  MonitorTypeOK'
    BY <1>0, <1>a DEF queueVars, MonitorTypeOK, QueueTypeOK
<1>b. ASSUME NEW k \in Keys, NEW t \in Tasks, NEW w \in WaiterStates,
             UNCHANGED <<queues, cancelled>>, waiter' = [waiter EXCEPT ![k][t] = w],
             section' \in SectionType
      PROVE  MonitorTypeOK'
    BY <1>0, <1>b DEF MonitorTypeOK, QueueTypeOK
<1>1. ASSUME NEW t \in Tasks, NEW K \in SUBSET Keys, EnterEnqueue(t, K)
      PROVE  MonitorTypeOK'
    BY <1>1, <1>a, SectionTyped DEF EnterEnqueue
<1>2. ASSUME NEW t \in Tasks, RaiseFlag(t)
      PROVE  MonitorTypeOK'
    BY <1>0, <1>2 DEF RaiseFlag, SetCancelled, MonitorTypeOK, QueueTypeOK
<1>3. ASSUME NEW t \in Tasks, EnterWake(t)
      PROVE  MonitorTypeOK'
    BY <1>3, <1>a, SectionTyped DEF EnterWake
<1>4. ASSUME NEW k \in Keys, AppendOne(k)
      PROVE  MonitorTypeOK'
    <2>1. PICK t \in Tasks, K \in SUBSET Keys : section = Appending(t, K)
        BY <1>4, SectionShape DEF AppendOne
    <2>2. section' = Appending(t, K \ {k})
        BY <1>4, <2>1 DEF AppendOne, Appending
    <2>3. queues' = [queues EXCEPT ![k] = Append(@, t)] /\ UNCHANGED <<cancelled, waiter>>
        BY <1>4, <2>1, Sections DEF AppendOne
    <2>4. Append(queues[k], t) \in Seq(Tasks)
        BY <1>0, AppendShape
    <2>5. section' \in SectionType
        <3>1. K \ {k} \in SUBSET Keys
            OBVIOUS
        <3> QED
            BY <2>2, <3>1, SectionTyped
    <2> QED
        BY <1>0, <2>3, <2>4, <2>5 DEF MonitorTypeOK, QueueTypeOK
<1>5. ASSUME ExitEnqueue
      PROVE  MonitorTypeOK'
    BY <1>5, <1>a, SectionTyped DEF ExitEnqueue
<1>6. ASSUME Notify
      PROVE  MonitorTypeOK'
    BY <1>0, <1>6, SectionTyped, NotifiedType DEF Notify, MonitorTypeOK, QueueTypeOK
<1>7. ASSUME NEW k \in Keys, NEW t \in Tasks, EnterRelease(k, t)
      PROVE  MonitorTypeOK'
    <2>1. queues' = Removed(k, t) /\ UNCHANGED <<cancelled, waiter>> /\ section' \in {Notifying, Free}
        BY <1>7 DEF EnterRelease
    <2> QED
        BY <1>0, <2>1, SectionTyped, RemovedShape DEF MonitorTypeOK, QueueTypeOK
<1>8. ASSUME NEW k \in Keys, NEW t \in Tasks,
             \/ BeginWait(k, t) /\ UNCHANGED <<section, unwoken>>
             \/ PollTimeout(k, t) /\ UNCHANGED <<section, unwoken>>
             \/ EndWait(k, t) /\ UNCHANGED <<section, unwoken>>
      PROVE  MonitorTypeOK'
    BY <1>0, <1>8, <1>b DEF BeginWait, PollTimeout, EndWait, WaiterStates
<1>9. ASSUME NEW k \in Keys, NEW t \in Tasks, EnterWait(k, t)
      PROVE  MonitorTypeOK'
    BY <1>9, <1>a, SectionTyped DEF EnterWait, Places
<1>10. ASSUME NEW k \in Keys, NEW t \in Tasks, FindPlace(k, t)
       PROVE  MonitorTypeOK'
    BY <1>10, <1>a, <1>b, SectionTyped DEF FindPlace, Goes, Exit, Places, WaiterStates
<1>11. ASSUME NEW k \in Keys, NEW t \in Tasks, ReadFlag(k, t)
       PROVE  MonitorTypeOK'
    BY <1>11, <1>a, SectionTyped DEF ReadFlag, Goes, Places
<1>12. ASSUME NEW k \in Keys, NEW t \in Tasks, LeaveLine(k, t)
       PROVE  MonitorTypeOK'
    <2>1. /\ queues' = Removed(k, t) /\ cancelled' = cancelled /\ section' = Free
          /\ waiter' = [Notified(waiter) EXCEPT ![k][t] = "refused"]
        BY <1>12 DEF LeaveLine
    <2>2. Notified(waiter) \in [Keys -> [Tasks -> WaiterStates]] /\ "refused" \in WaiterStates
        BY <1>0, NotifiedType DEF WaiterStates
    <2>3. waiter' \in [Keys -> [Tasks -> WaiterStates]]
        BY <2>1, <2>2
    <2> QED
        BY <1>0, <2>1, <2>3, SectionTyped, RemovedShape DEF MonitorTypeOK, QueueTypeOK
<1>13. ASSUME NEW k \in Keys, NEW t \in Tasks, TakeTurnOrSleep(k, t)
       PROVE  MonitorTypeOK'
    <2>1. \E w \in {"granted", "asleep"} : Exit(k, t, w)
        BY <1>13 DEF TakeTurnOrSleep
    <2> QED
        BY <1>b, <2>1, SectionTyped DEF Exit, WaiterStates
<1>14. CASE UNCHANGED monitorVars
    BY <1>0, <1>14, <1>a DEF monitorVars
<1> QED
    BY <1>1, <1>2, <1>3, <1>4, <1>5, <1>6, <1>7, <1>8, <1>9, <1>10, <1>11, <1>12,
       <1>13, <1>14 DEF MonitorNext

(* What is fixed while a thread is inside wait_turn, and what its flag     *)
(* means, from one step to the next.                                       *)
LEMMA InsideStep ==
    MonitorInv /\ [MonitorNext]_monitorVars => InsideIsInLine' /\ StayingIsCurrent'
<1> SUFFICES ASSUME MonitorInv, [MonitorNext]_monitorVars,
                    NEW k \in Keys, NEW t \in Tasks, NEW at \in Places,
                    section' = Waiting(k, t, at)
             PROVE  /\ waiter'[k][t] = "awake" /\ (at # "top" => InLine(k, t)')
                    /\ at = "staying" /\ cancelled'[t] => t \in unwoken'
    BY DEF InsideIsInLine, StayingIsCurrent, Places
<1>0. /\ cancelled \in [Tasks -> BOOLEAN]
      /\ waiter \in [Keys -> [Tasks -> WaiterStates]]
    BY DEF MonitorInv, MonitorTypeOK, QueueTypeOK
<1>a. section = Waiting(k, t, at) =>
         /\ waiter[k][t] = "awake" /\ (at # "top" => InLine(k, t))
         /\ at = "staying" /\ cancelled[t] => t \in unwoken
    BY DEF MonitorInv, InsideIsInLine, StayingIsCurrent
<1>b. queues' = queues => (InLine(k, t)' <=> InLine(k, t))
    BY DEF InLine
<1>c. section' # Free /\ section'.op = "wait"
    BY Sections
<1>1. ASSUME NEW u \in Tasks, RaiseFlag(u)
      PROVE  /\ waiter'[k][t] = "awake" /\ (at # "top" => InLine(k, t)')
             /\ at = "staying" /\ cancelled'[t] => t \in unwoken'
    BY <1>0, <1>1, <1>a, <1>b DEF RaiseFlag, SetCancelled
<1>2. ASSUME NEW j \in Keys, NEW u \in Tasks,
             \/ BeginWait(j, u) /\ UNCHANGED <<section, unwoken>>
             \/ PollTimeout(j, u) /\ UNCHANGED <<section, unwoken>>
             \/ EndWait(j, u) /\ UNCHANGED <<section, unwoken>>
      PROVE  /\ waiter'[k][t] = "awake" /\ (at # "top" => InLine(k, t)')
             /\ at = "staying" /\ cancelled'[t] => t \in unwoken'
    <2>1. /\ UNCHANGED <<queues, cancelled, section, unwoken>>
          /\ waiter[j][u] # "awake"
          /\ \E w \in WaiterStates : waiter' = [waiter EXCEPT ![j][u] = w]
        BY <1>2 DEF BeginWait, PollTimeout, EndWait, WaiterStates
    <2>2. waiter'[k][t] = waiter[k][t]
        BY <1>0, <1>a, <2>1
    <2> QED
        BY <1>a, <1>b, <2>1, <2>2
<1>3. ASSUME NEW j \in Keys, NEW u \in Tasks, EnterWait(j, u)
      PROVE  /\ waiter'[k][t] = "awake" /\ (at # "top" => InLine(k, t)')
             /\ at = "staying" /\ cancelled'[t] => t \in unwoken'
    <2>1. /\ section' = Waiting(j, u, "top") /\ waiter[j][u] = "awake"
          /\ UNCHANGED <<queues, waiter>>
        BY <1>3 DEF EnterWait, queueVars
    <2>2. j = k /\ u = t /\ at = "top"
        <3>1. Waiting(k, t, at) = Waiting(j, u, "top")
            BY <2>1
        <3> QED
            BY <3>1 DEF Waiting
    <2> QED
        BY <2>1, <2>2
<1>4. ASSUME NEW j \in Keys, NEW u \in Tasks, FindPlace(j, u)
      PROVE  /\ waiter'[k][t] = "awake" /\ (at # "top" => InLine(k, t)')
             /\ at = "staying" /\ cancelled'[t] => t \in unwoken'
    <2>1. InLine(j, u) /\ Goes(j, u, "placed") /\ section = Waiting(j, u, "top")
        BY <1>4, <1>c DEF FindPlace, Exit
    <2>2. j = k /\ u = t /\ at = "placed" /\ UNCHANGED <<queues, waiter>>
        <3>1. section' = Waiting(j, u, "placed") /\ UNCHANGED <<queues, waiter>>
            BY <2>1 DEF Goes, queueVars
        <3>2. Waiting(k, t, at) = Waiting(j, u, "placed")
            BY <3>1
        <3>3. j = k /\ u = t /\ at = "placed"
            BY <3>2 DEF Waiting
        <3> QED
            BY <3>1, <3>3
    <2>3. waiter[k][t] = "awake"
        BY <2>1, <2>2 DEF MonitorInv, InsideIsInLine, Places
    <2> QED
        BY <1>b, <2>1, <2>2, <2>3
<1>5. ASSUME NEW j \in Keys, NEW u \in Tasks, ReadFlag(j, u)
      PROVE  /\ waiter'[k][t] = "awake" /\ (at # "top" => InLine(k, t)')
             /\ at = "staying" /\ cancelled'[t] => t \in unwoken'
    <2>1. /\ section = Waiting(j, u, "placed")
          /\ section' = Waiting(j, u, IF cancelled[u] THEN "leaving" ELSE "staying")
          /\ UNCHANGED <<queues, waiter, cancelled>>
        BY <1>5 DEF ReadFlag, Goes, queueVars
    <2>2. j = k /\ u = t /\ (at = "staying" => ~cancelled[t])
        <3>1. j = k /\ u = t /\ at = IF cancelled[u] THEN "leaving" ELSE "staying"
            <4>1. Waiting(k, t, at) = Waiting(j, u, IF cancelled[u] THEN "leaving" ELSE "staying")
                BY <2>1
            <4> QED
                BY <4>1 DEF Waiting
        <3> QED
            BY <3>1
    <2>3. waiter[k][t] = "awake" /\ InLine(k, t)
        BY <2>1, <2>2 DEF MonitorInv, InsideIsInLine, Places
    <2> QED
        BY <1>b, <2>1, <2>2, <2>3
<1>6. ASSUME \/ \E u \in Tasks, K \in SUBSET Keys : EnterEnqueue(u, K)
             \/ \E u \in Tasks : EnterWake(u)
             \/ \E j \in Keys : AppendOne(j)
             \/ ExitEnqueue
             \/ Notify
             \/ \E j \in Keys, u \in Tasks :
                   EnterRelease(j, u) \/ LeaveLine(j, u) \/ TakeTurnOrSleep(j, u)
      PROVE  FALSE
    <2>1. CASE \E j \in Keys : AppendOne(j)
        <3>1. PICK u \in Tasks, K \in SUBSET Keys : section = Appending(u, K)
            BY <2>1, SectionShape DEF AppendOne, MonitorInv
        <3>2. \E L : section' = Appending(u, L)
            BY <2>1, <3>1 DEF AppendOne, Appending
        <3> QED
            BY <1>c, <3>2, Sections
    <2>2. CASE ~\E j \in Keys : AppendOne(j)
        <3>1. section' \in {Free, Notifying} \/ \E u \in Tasks, K \in SUBSET Keys : section' = Appending(u, K)
            BY <1>6, <2>2 DEF EnterEnqueue, EnterWake, ExitEnqueue, Notify, EnterRelease,
               LeaveLine, TakeTurnOrSleep, Exit
        <3> QED
            BY <1>c, <3>1, Sections
    <2> QED
        BY <2>1, <2>2
<1>7. CASE UNCHANGED monitorVars
    BY <1>7, <1>a, <1>b DEF monitorVars, queueVars
<1> QED
    BY <1>1, <1>2, <1>3, <1>4, <1>5, <1>6, <1>7 DEF MonitorNext

LEMMA SleeperStep ==
    MonitorInv /\ [MonitorNext]_monitorVars => CancelWakesSleepers'
<1> SUFFICES ASSUME MonitorInv, [MonitorNext]_monitorVars,
                    NEW k \in Keys, NEW t \in Tasks,
                    waiter'[k][t] = "asleep", cancelled'[t]
             PROVE  t \in unwoken' \/ section' = Notifying
    BY DEF CancelWakesSleepers
<1>0. /\ cancelled \in [Tasks -> BOOLEAN]
      /\ waiter \in [Keys -> [Tasks -> WaiterStates]]
    BY DEF MonitorInv, MonitorTypeOK, QueueTypeOK
<1>a. waiter[k][t] = "asleep" /\ cancelled[t] => t \in unwoken \/ section = Notifying
    BY DEF MonitorInv, CancelWakesSleepers
<1>1. ASSUME NEW u \in Tasks, RaiseFlag(u)
      PROVE  t \in unwoken' \/ section' = Notifying
    BY <1>0, <1>1, <1>a DEF RaiseFlag, SetCancelled
<1>2. ASSUME NEW u \in Tasks, EnterWake(u)
      PROVE  t \in unwoken' \/ section' = Notifying
    BY <1>2 DEF EnterWake
<1>3. ASSUME Notify
      PROVE  t \in unwoken' \/ section' = Notifying
    BY <1>0, <1>3, NotifiedWakes DEF Notify
<1>4. ASSUME NEW j \in Keys, NEW u \in Tasks, LeaveLine(j, u)
      PROVE  t \in unwoken' \/ section' = Notifying
    <2>1. waiter' = [Notified(waiter) EXCEPT ![j][u] = "refused"]
        BY <1>4 DEF LeaveLine
    <2>2. Notified(waiter) \in [Keys -> [Tasks -> WaiterStates]] /\ Notified(waiter)[k][t] # "asleep"
        BY <1>0, NotifiedType, NotifiedWakes
    <2> QED
        BY <2>1, <2>2
<1>5. ASSUME NEW j \in Keys, NEW u \in Tasks, TakeTurnOrSleep(j, u)
      PROVE  t \in unwoken' \/ section' = Notifying
    <2>1. /\ section = Waiting(j, u, "staying")
          /\ \E w : waiter' = [waiter EXCEPT ![j][u] = w]
          /\ UNCHANGED <<cancelled, unwoken>>
        BY <1>5 DEF TakeTurnOrSleep, Exit
    <2>2. section # Notifying
        BY <2>1, Sections
    <2>3. CASE j = k /\ u = t
        BY <2>1, <2>3 DEF MonitorInv, StayingIsCurrent
    <2>4. CASE ~(j = k /\ u = t)
        BY <1>0, <1>a, <2>1, <2>2, <2>4
    <2> QED
        BY <2>3, <2>4
<1>6. ASSUME NEW j \in Keys, NEW u \in Tasks,
             \/ BeginWait(j, u) /\ UNCHANGED <<section, unwoken>>
             \/ PollTimeout(j, u) /\ UNCHANGED <<section, unwoken>>
             \/ EndWait(j, u) /\ UNCHANGED <<section, unwoken>>
      PROVE  t \in unwoken' \/ section' = Notifying
    <2>1. /\ UNCHANGED <<cancelled, section, unwoken>>
          /\ \E w \in {"awake", "out"} : waiter' = [waiter EXCEPT ![j][u] = w]
        BY <1>6 DEF BeginWait, PollTimeout, EndWait
    <2>2. waiter[k][t] = "asleep"
        BY <1>0, <2>1
    <2> QED
        BY <1>a, <2>1, <2>2
<1>7. ASSUME NEW j \in Keys, NEW u \in Tasks, FindPlace(j, u)
      PROVE  t \in unwoken' \/ section' = Notifying
    <2>1. /\ section = Waiting(j, u, "top")
          /\ UNCHANGED <<cancelled, unwoken>>
          /\ waiter' \in {waiter, [waiter EXCEPT ![j][u] = "refused"]}
        BY <1>7 DEF FindPlace, Goes, Exit, queueVars
    <2>2. section # Notifying /\ waiter[k][t] = "asleep"
        BY <1>0, <2>1, Sections
    <2> QED
        BY <1>a, <2>1, <2>2
<1>8. ASSUME \/ \E u \in Tasks, K \in SUBSET Keys : EnterEnqueue(u, K)
             \/ \E j \in Keys : AppendOne(j)
             \/ ExitEnqueue
             \/ \E j \in Keys, u \in Tasks :
                   EnterRelease(j, u) \/ EnterWait(j, u) \/ ReadFlag(j, u)
      PROVE  t \in unwoken' \/ section' = Notifying
    <2>1. UNCHANGED <<cancelled, waiter, unwoken>> /\ section # Notifying
        BY <1>8, Sections DEF EnterEnqueue, AppendOne, ExitEnqueue, EnterRelease, EnterWait,
           ReadFlag, Goes, queueVars
    <2> QED
        BY <1>a, <2>1
<1>9. CASE UNCHANGED monitorVars
    BY <1>9, <1>a DEF monitorVars, queueVars
<1> QED
    BY <1>1, <1>2, <1>3, <1>4, <1>5, <1>6, <1>7, <1>8, <1>9 DEF MonitorNext

THEOREM MonitorIsKept == MonitorSpec => []MonitorInv
<1>1. MonitorInit => MonitorInv
    <2> SUFFICES ASSUME MonitorInit
                 PROVE  MonitorInv
        OBVIOUS
    <2>1. QueueTypeOK
        BY EmptySeq DEF MonitorInit, QueueInit, QueueTypeOK, WaiterStates
    <2> QED
        BY <2>1, Sections, SectionTyped DEF MonitorInit, QueueInit, MonitorInv, MonitorTypeOK,
           InsideIsInLine, StayingIsCurrent, CancelWakesSleepers
<1>2. MonitorInv /\ [MonitorNext]_monitorVars => MonitorInv'
    BY MonitorTypeStep, InsideStep, SleeperStep DEF MonitorInv
<1> QED
    BY <1>1, <1>2, PTL DEF MonitorSpec

(* A cancelled waiter is not left asleep once wake() has run.              *)
THEOREM CancelWakesEverySleeper == MonitorSpec => []CancelWakesSleepers
    BY MonitorIsKept, PTL DEF MonitorInv

-----------------------------------------------------------------------------
(* Whole sections as single steps *)

(* The mapped lines and waiters, by what the section in progress has       *)
(* settled.                                                                *)
SettledShape ==
    /\ section = Free \/ (\E k \in Keys, t \in Tasks, at \in {"top", "placed"} :
                             section = Waiting(k, t, at))
          => SettledQueues = queues /\ SettledWaiter = waiter
    /\ section = Notifying
          => SettledQueues = queues /\ SettledWaiter = Notified(waiter)
    /\ \A t \in Tasks, K \in SUBSET Keys : section = Appending(t, K)
          => SettledQueues = Appended(t, K) /\ SettledWaiter = waiter
    /\ \A k \in Keys, t \in Tasks : section = Waiting(k, t, "leaving")
          => /\ SettledQueues = Removed(k, t)
             /\ SettledWaiter = [Notified(waiter) EXCEPT ![k][t] = "refused"]
    /\ \A k \in Keys, t \in Tasks : section = Waiting(k, t, "staying")
          => /\ SettledQueues = queues
             /\ SettledWaiter = [waiter EXCEPT ![k][t] =
                                    IF IsHead(k, t) THEN "granted" ELSE "asleep"]

LEMMA SettledTyped ==
    ASSUME MonitorTypeOK
    PROVE  SettledWaiter \in [Keys -> [Tasks -> WaiterStates]]
<1>1. waiter \in [Keys -> [Tasks -> WaiterStates]]
    BY DEF MonitorTypeOK, QueueTypeOK
<1>2. \A k \in Keys, t \in Tasks : Outcome(k, t) \in WaiterStates
    BY <1>1 DEF Outcome, WaiterStates
<1> QED
    BY <1>2 DEF SettledWaiter, WaiterStates

LEMMA ChangedAt ==
    ASSUME NEW f \in [Keys -> [Tasks -> WaiterStates]], NEW g \in [Keys -> [Tasks -> WaiterStates]],
           NEW k \in Keys, NEW t \in Tasks, NEW w,
           \A j \in Keys, u \in Tasks : g[j][u] = IF j = k /\ u = t THEN w ELSE f[j][u]
    PROVE  g = [f EXCEPT ![k][t] = w]
<1> DEFINE h == [f EXCEPT ![k][t] = w]
<1>1. \A j \in Keys : g[j] = h[j]
    <2> SUFFICES ASSUME NEW j \in Keys
                 PROVE  g[j] = h[j]
        OBVIOUS
    <2>1. g[j] = [u \in Tasks |-> g[j][u]]
        OBVIOUS
    <2>2. h[j] = [u \in Tasks |-> IF j = k /\ u = t THEN w ELSE f[j][u]]
        OBVIOUS
    <2> QED
        BY <2>1, <2>2
<1>2. g = [j \in Keys |-> g[j]] /\ h = [j \in Keys |-> h[j]]
    OBVIOUS
<1> QED
    BY <1>1, <1>2

LEMMA Settling == MonitorTypeOK => SettledShape
<1> SUFFICES ASSUME MonitorTypeOK
             PROVE  SettledShape
    OBVIOUS
<1>0. waiter \in [Keys -> [Tasks -> WaiterStates]]
    BY DEF MonitorTypeOK, QueueTypeOK
<1>1. ASSUME section = Free \/ \E k \in Keys, t \in Tasks, at \in {"top", "placed"} :
                                  section = Waiting(k, t, at)
      PROVE  SettledQueues = queues /\ SettledWaiter = waiter
    <2>1. /\ section.op # "append" /\ section.op # "notify"
          /\ ~(section.op = "wait" /\ section.at = "leaving")
          /\ \A j, u : section # Waiting(j, u, "leaving") /\ section # Waiting(j, u, "staying")
        BY <1>1 DEF Free, Waiting
    <2>2. \A j \in Keys, u \in Tasks : Outcome(j, u) = waiter[j][u]
        BY <2>1 DEF Outcome
    <2> QED
        BY <1>0, <2>1, <2>2 DEF SettledQueues, SettledWaiter, MustNotify
<1>2. ASSUME section = Notifying
      PROVE  SettledQueues = queues /\ SettledWaiter = Notified(waiter)
    <2>1. /\ section.op = "notify"
          /\ \A j, u, at : section # Waiting(j, u, at)
        BY <1>2, Sections
    <2>2. \A j \in Keys, u \in Tasks : Outcome(j, u) = waiter[j][u]
        BY <2>1 DEF Outcome
    <2> QED
        BY <2>1, <2>2 DEF SettledQueues, SettledWaiter, MustNotify, Notified
<1>3. ASSUME NEW t \in Tasks, NEW K \in SUBSET Keys, section = Appending(t, K)
      PROVE  SettledQueues = Appended(t, K) /\ SettledWaiter = waiter
    <2>1. /\ section.op = "append" /\ section.task = t /\ section.keys = K
          /\ \A j, u, at : section # Waiting(j, u, at)
        BY <1>3, Sections
    <2>2. \A j \in Keys, u \in Tasks : Outcome(j, u) = waiter[j][u]
        BY <2>1 DEF Outcome
    <2> QED
        BY <1>0, <2>1, <2>2 DEF SettledQueues, SettledWaiter, MustNotify
<1>4. ASSUME NEW k \in Keys, NEW t \in Tasks, section = Waiting(k, t, "leaving")
      PROVE  /\ SettledQueues = Removed(k, t)
             /\ SettledWaiter = [Notified(waiter) EXCEPT ![k][t] = "refused"]
    <2>1. section.op = "wait" /\ section.key = k /\ section.task = t /\ section.at = "leaving"
        BY <1>4, Sections
    <2>2. \A j \in Keys, u \in Tasks :
             Outcome(j, u) = IF j = k /\ u = t THEN "refused" ELSE waiter[j][u]
        BY <1>4 DEF Outcome, Waiting
    <2>3. SettledQueues = Removed(k, t) /\ MustNotify
        BY <2>1 DEF SettledQueues, MustNotify
    <2>4. SettledWaiter = [Notified(waiter) EXCEPT ![k][t] = "refused"]
        <3>1. Notified(waiter) \in [Keys -> [Tasks -> WaiterStates]]
            BY <1>0, NotifiedType
        <3>2. \A j \in Keys, u \in Tasks :
                 SettledWaiter[j][u] = IF j = k /\ u = t THEN "refused" ELSE Notified(waiter)[j][u]
            BY <2>2, <2>3 DEF SettledWaiter, Notified
        <3>3. SettledWaiter \in [Keys -> [Tasks -> WaiterStates]]
            BY SettledTyped
        <3> DEFINE n == Notified(waiter)
                   s == SettledWaiter
        <3>4. n \in [Keys -> [Tasks -> WaiterStates]] /\ s \in [Keys -> [Tasks -> WaiterStates]]
            BY <3>1, <3>3
        <3>5. \A j \in Keys, u \in Tasks : s[j][u] = IF j = k /\ u = t THEN "refused" ELSE n[j][u]
            BY <3>2
        <3> HIDE DEF n, s
        <3>6. s = [n EXCEPT ![k][t] = "refused"]
            BY <3>4, <3>5, ChangedAt
        <3> QED
            BY <3>6 DEF n, s
    <2> QED
        BY <2>3, <2>4
<1>5. ASSUME NEW k \in Keys, NEW t \in Tasks, section = Waiting(k, t, "staying")
      PROVE  /\ SettledQueues = queues
             /\ SettledWaiter = [waiter EXCEPT ![k][t] =
                                    IF IsHead(k, t) THEN "granted" ELSE "asleep"]
    <2>1. section.op = "wait" /\ section.at = "staying"
        BY <1>5, Sections
    <2>2. \A j \in Keys, u \in Tasks :
             Outcome(j, u) = IF j = k /\ u = t THEN IF IsHead(k, t) THEN "granted" ELSE "asleep"
                             ELSE waiter[j][u]
        BY <1>5 DEF Outcome, Waiting
    <2>3. SettledQueues = queues /\ ~MustNotify
        BY <2>1 DEF SettledQueues, MustNotify
    <2>4. SettledWaiter = [waiter EXCEPT ![k][t] =
                              IF IsHead(k, t) THEN "granted" ELSE "asleep"]
        <3>1. \A j \in Keys, u \in Tasks :
                 SettledWaiter[j][u] = IF j = k /\ u = t THEN IF IsHead(k, t) THEN "granted" ELSE "asleep"
                                       ELSE waiter[j][u]
            BY <2>2, <2>3 DEF SettledWaiter
        <3>2. SettledWaiter \in [Keys -> [Tasks -> WaiterStates]]
            BY SettledTyped
        <3> DEFINE s == SettledWaiter
                   w == IF IsHead(k, t) THEN "granted" ELSE "asleep"
        <3>3. /\ s \in [Keys -> [Tasks -> WaiterStates]]
              /\ \A j \in Keys, u \in Tasks : s[j][u] = IF j = k /\ u = t THEN w ELSE waiter[j][u]
            BY <3>1, <3>2
        <3> HIDE DEF s, w
        <3>4. s = [waiter EXCEPT ![k][t] = w]
            BY <1>0, <3>3, ChangedAt
        <3> QED
            BY <3>4 DEF s, w
    <2> QED
        BY <2>3, <2>4
<1> QED
    BY <1>1, <1>2, <1>3, <1>4, <1>5 DEF SettledShape

(* The queue's operators over the mapped lines and waiters, where these    *)
(* are the lines and waiters themselves.                                   *)
LEMMA QueueOperators ==
    ASSUME SettledQueues = queues
    PROVE  /\ \A k, t : Queue!InLine(k, t) <=> InLine(k, t)
           /\ \A k, t : Queue!IsHead(k, t) <=> IsHead(k, t)
           /\ \A k, t : Queue!Removed(k, t) = Removed(k, t)
           /\ \A t, K : Queue!Appended(t, K) = Appended(t, K)
           /\ \A t, K : Queue!AlreadyQueued(t, K) <=> AlreadyQueued(t, K)
           /\ \A K : Queue!HasRoom(K) <=> HasRoom(K)
           /\ \A w : Queue!Notified(w) = Notified(w)
<1>1. \A k, t : Queue!InLine(k, t) <=> InLine(k, t)
    BY DEF Queue!InLine, InLine
<1>2. \A k, t : Queue!IsHead(k, t) <=> IsHead(k, t)
    BY DEF Queue!IsHead, IsHead
<1>3. \A k, t : Queue!Removed(k, t) = Removed(k, t)
    <2> SUFFICES ASSUME NEW k, NEW t
                 PROVE  Queue!Removed(k, t) = Removed(k, t)
        OBVIOUS
    <2> DEFINE s == queues[k]
    <2>1. Queue!RemoveFirst(s, t) = RemoveFirst(s, t)
        <3>1. CASE ~\E i \in 1..Len(s) : s[i] = t
            BY <3>1 DEF Queue!RemoveFirst, RemoveFirst
        <3>2. CASE \E i \in 1..Len(s) : s[i] = t
            <4> DEFINE I == {i \in 1..Len(s) : s[i] = t}
                       m == CHOOSE i \in I : \A j \in I : i =< j
            <4>1. RemoveFirst(s, t) = RemoveAt(s, m)
                BY <3>2 DEF RemoveFirst, SelectInSeq, Min
            <4>2. Queue!RemoveFirst(s, t) = Queue!RemoveAt(s, m)
                BY <3>2 DEF Queue!RemoveFirst, Queue!SelectInSeq, Queue!Min
            <4> QED
                BY <4>1, <4>2 DEF RemoveAt, Queue!RemoveAt
        <3> QED
            BY <3>1, <3>2
    <2> QED
        BY <2>1 DEF Queue!Removed, Removed
<1>4. \A t, K : Queue!Appended(t, K) = Appended(t, K)
    BY DEF Queue!Appended, Appended
<1>5. \A t, K : Queue!AlreadyQueued(t, K) <=> AlreadyQueued(t, K)
    BY <1>1 DEF Queue!AlreadyQueued, AlreadyQueued
<1>6. \A K : Queue!HasRoom(K) <=> HasRoom(K)
    BY DEF Queue!HasRoom, HasRoom
<1>7. \A w : Queue!Notified(w) = Notified(w)
    BY DEF Queue!Notified, Notified
<1> QED
    BY <1>1, <1>2, <1>3, <1>4, <1>5, <1>6, <1>7

LEMMA SettledStep ==
    ASSUME MonitorInv, MonitorInv', SettledShape, SettledShape', [MonitorNext]_monitorVars
    PROVE  [Queue!QueueNext]_(Queue!queueVars)
<1> DEFINE Step == [Queue!QueueNext]_(Queue!queueVars)
<1>0. /\ MonitorTypeOK /\ QueueTypeOK
      /\ queues \in [Keys -> Seq(Tasks)]
      /\ waiter \in [Keys -> [Tasks -> WaiterStates]]
    BY DEF MonitorInv, MonitorTypeOK, QueueTypeOK
<1>a. ASSUME SettledQueues' = SettledQueues, SettledWaiter' = SettledWaiter, cancelled' = cancelled
      PROVE  Step
    BY <1>a DEF Queue!queueVars
<1>b. section = Free => SettledQueues = queues /\ SettledWaiter = waiter
    BY DEF SettledShape
<1>c. section' = Free => SettledQueues' = queues' /\ SettledWaiter' = waiter'
    BY DEF SettledShape
<1>1. ASSUME NEW t \in Tasks, NEW K \in SUBSET Keys, EnterEnqueue(t, K)
      PROVE  Step
    <2>1. /\ section = Free /\ section' = Appending(t, K)
          /\ ~AlreadyQueued(t, K) /\ HasRoom(K)
          /\ UNCHANGED <<queues, cancelled, waiter>>
        BY <1>1 DEF EnterEnqueue, queueVars
    <2>2. SettledQueues' = Appended(t, K)' /\ SettledWaiter' = waiter'
        BY <2>1 DEF SettledShape
    <2>3. Appended(t, K)' = Appended(t, K)
        BY <2>1 DEF Appended
    <2>4. Queue!EnqueueMany(t, K)
        BY <1>b, <2>1, <2>2, <2>3, QueueOperators DEF Queue!EnqueueMany
    <2> QED
        BY <2>4 DEF Queue!QueueNext
<1>2. ASSUME NEW t \in Tasks, RaiseFlag(t)
      PROVE  Step
    <2>1. /\ UNCHANGED <<queues, waiter, section>>
          /\ cancelled' = [cancelled EXCEPT ![t] = TRUE]
        BY <1>2 DEF RaiseFlag, SetCancelled
    <2>2. SettledQueues' = SettledQueues /\ SettledWaiter' = SettledWaiter
        BY <2>1 DEF SettledQueues, SettledWaiter, Appended, Removed, MustNotify, Outcome, IsHead
    <2>3. Queue!SetCancelled(t)
        BY <2>1, <2>2 DEF Queue!SetCancelled
    <2> QED
        BY <2>3 DEF Queue!QueueNext
<1>3. ASSUME NEW t \in Tasks, EnterWake(t)
      PROVE  Step
    <2>1. /\ section = Free /\ section' = Notifying
          /\ UNCHANGED <<queues, cancelled, waiter>>
        BY <1>3 DEF EnterWake, queueVars
    <2>2. SettledQueues' = queues' /\ SettledWaiter' = Notified(waiter)'
        BY <2>1 DEF SettledShape
    <2>3. Notified(waiter)' = Notified(waiter)
        BY <2>1 DEF Notified
    <2>4. Queue!Wake
        BY <1>b, <2>1, <2>2, <2>3, QueueOperators DEF Queue!Wake
    <2> QED
        BY <2>4 DEF Queue!QueueNext
<1>4. ASSUME NEW k \in Keys, AppendOne(k)
      PROVE  Step
    <2>1. PICK t \in Tasks, K \in SUBSET Keys : section = Appending(t, K)
        BY <1>0, <1>4, SectionShape DEF AppendOne
    <2>2. k \in K /\ section' = Appending(t, K \ {k})
        BY <1>4, <2>1 DEF AppendOne, Appending
    <2>3. /\ queues' = [queues EXCEPT ![k] = Append(@, t)]
          /\ UNCHANGED <<cancelled, waiter>>
        BY <1>4, <2>1, Sections DEF AppendOne
    <2>4. SettledQueues = Appended(t, K) /\ SettledWaiter = waiter
        BY <2>1 DEF SettledShape
    <2>5. SettledQueues' = Appended(t, K \ {k})' /\ SettledWaiter' = waiter'
        BY <2>2 DEF SettledShape
    <2>6. Appended(t, K \ {k})' = Appended(t, K)
        BY <1>0, <2>2, <2>3 DEF Appended
    <2> QED
        BY <1>a, <2>3, <2>4, <2>5, <2>6
<1>5. ASSUME ExitEnqueue
      PROVE  Step
    <2>1. PICK t \in Tasks, K \in SUBSET Keys : section = Appending(t, K)
        BY <1>0, <1>5, SectionShape DEF ExitEnqueue
    <2>2. K = {} /\ section' = Free /\ UNCHANGED <<queues, cancelled, waiter>>
        BY <1>5, <2>1, Sections DEF ExitEnqueue, queueVars
    <2>3. SettledQueues = Appended(t, {}) /\ SettledWaiter = waiter
        BY <2>1, <2>2 DEF SettledShape
    <2>4. Appended(t, {}) = queues
        BY <1>0 DEF Appended
    <2> QED
        BY <1>a, <1>c, <2>2, <2>3, <2>4
<1>6. ASSUME Notify
      PROVE  Step
    <2>1. /\ section = Notifying /\ section' = Free
          /\ waiter' = Notified(waiter) /\ UNCHANGED <<queues, cancelled>>
        BY <1>0, <1>6, SectionShape DEF Notify
    <2>2. SettledQueues = queues /\ SettledWaiter = Notified(waiter)
        BY <2>1 DEF SettledShape
    <2> QED
        BY <1>a, <1>c, <2>1, <2>2
<1>7. ASSUME NEW k \in Keys, NEW t \in Tasks, EnterRelease(k, t)
      PROVE  Step
    <2>1. /\ section = Free /\ queues' = Removed(k, t)
          /\ section' = IF InLine(k, t) THEN Notifying ELSE Free
          /\ UNCHANGED <<cancelled, waiter>>
        BY <1>7 DEF EnterRelease
    <2>2. Notified(waiter)' = Notified(waiter)
        BY <2>1 DEF Notified
    <2>3. /\ SettledQueues' = queues'
          /\ SettledWaiter' = IF InLine(k, t) THEN Notified(waiter) ELSE waiter
        BY <1>c, <2>1, <2>2 DEF SettledShape
    <2>4. Queue!Release(k, t)
        BY <1>b, <2>1, <2>3, QueueOperators DEF Queue!Release
    <2> QED
        BY <2>4 DEF Queue!QueueNext
<1>8. ASSUME NEW k \in Keys, NEW t \in Tasks, EnterWait(k, t)
      PROVE  Step
    <2>1. /\ section = Free /\ section' = Waiting(k, t, "top")
          /\ UNCHANGED <<queues, cancelled, waiter>>
        BY <1>8 DEF EnterWait, queueVars
    <2>2. SettledQueues' = queues' /\ SettledWaiter' = waiter'
        BY <2>1 DEF SettledShape
    <2> QED
        BY <1>a, <1>b, <2>1, <2>2
<1>9. ASSUME NEW k \in Keys, NEW t \in Tasks, FindPlace(k, t)
      PROVE  Step
    <2>1. section = Waiting(k, t, "top")
        BY <1>9 DEF FindPlace
    <2>2. SettledQueues = queues /\ SettledWaiter = waiter
        BY <2>1 DEF SettledShape
    <2>3. waiter[k][t] = "awake"
        BY <2>1 DEF MonitorInv, InsideIsInLine, Places
    <2>4. CASE InLine(k, t)
        <3>1. section' = Waiting(k, t, "placed") /\ UNCHANGED <<queues, cancelled, waiter>>
            BY <1>9, <2>4 DEF FindPlace, Goes, queueVars
        <3>2. SettledQueues' = queues' /\ SettledWaiter' = waiter'
            BY <3>1 DEF SettledShape
        <3> QED
            BY <1>a, <2>2, <3>1, <3>2
    <2>5. CASE ~InLine(k, t)
        <3>1. /\ section' = Free /\ UNCHANGED <<queues, cancelled>>
              /\ waiter' = [waiter EXCEPT ![k][t] = "refused"]
            BY <1>9, <2>5 DEF FindPlace, Exit
        <3>2. Queue!TurnMissing(k, t)
            BY <1>c, <2>2, <2>3, <2>5, <3>1, QueueOperators DEF Queue!TurnMissing
        <3> QED
            BY <3>2 DEF Queue!QueueNext, Queue!Turn
    <2> QED
        BY <2>4, <2>5
<1>10. ASSUME NEW k \in Keys, NEW t \in Tasks, ReadFlag(k, t)
       PROVE  Step
    <2>1. /\ section = Waiting(k, t, "placed")
          /\ section' = Waiting(k, t, IF cancelled[t] THEN "leaving" ELSE "staying")
          /\ UNCHANGED <<queues, cancelled, waiter>>
        BY <1>10 DEF ReadFlag, Goes, queueVars
    <2>2. SettledQueues = queues /\ SettledWaiter = waiter
        BY <2>1 DEF SettledShape
    <2>3. waiter[k][t] = "awake" /\ InLine(k, t)
        BY <2>1 DEF MonitorInv, InsideIsInLine, Places
    <2>4. CASE cancelled[t]
        <3>1. section' = Waiting(k, t, "leaving")
            BY <2>1, <2>4
        <3>2. /\ SettledQueues' = Removed(k, t)'
              /\ SettledWaiter' = [Notified(waiter) EXCEPT ![k][t] = "refused"]'
            BY <3>1 DEF SettledShape
        <3>3. Removed(k, t)' = Removed(k, t) /\ Notified(waiter)' = Notified(waiter)
            BY <2>1 DEF Removed, Notified
        <3>4. Queue!TurnCancelled(k, t)
            BY <2>1, <2>2, <2>3, <2>4, <3>2, <3>3, QueueOperators DEF Queue!TurnCancelled
        <3> QED
            BY <3>4 DEF Queue!QueueNext, Queue!Turn
    <2>5. CASE ~cancelled[t]
        <3>1. section' = Waiting(k, t, "staying")
            BY <2>1, <2>5
        <3>2. /\ SettledQueues' = queues'
              /\ SettledWaiter' = [waiter EXCEPT ![k][t] =
                                      IF IsHead(k, t) THEN "granted" ELSE "asleep"]'
            BY <3>1 DEF SettledShape
        <3>3. IsHead(k, t)' <=> IsHead(k, t)
            BY <2>1 DEF IsHead
        <3>4. CASE IsHead(k, t)
            <4>1. Queue!TurnGranted(k, t)
                BY <2>1, <2>2, <2>3, <2>5, <3>2, <3>3, <3>4, QueueOperators
                   DEF Queue!TurnGranted
            <4> QED
                BY <4>1 DEF Queue!QueueNext, Queue!Turn
        <3>5. CASE ~IsHead(k, t)
            <4>1. Queue!TurnSleeps(k, t)
                BY <2>1, <2>2, <2>3, <2>5, <3>2, <3>3, <3>5, QueueOperators
                   DEF Queue!TurnSleeps
            <4> QED
                BY <4>1 DEF Queue!QueueNext, Queue!Turn
        <3> QED
            BY <3>4, <3>5
    <2> QED
        BY <2>4, <2>5
<1>11. ASSUME NEW k \in Keys, NEW t \in Tasks, LeaveLine(k, t)
       PROVE  Step
    <2>1. /\ section = Waiting(k, t, "leaving") /\ section' = Free
          /\ queues' = Removed(k, t) /\ cancelled' = cancelled
          /\ waiter' = [Notified(waiter) EXCEPT ![k][t] = "refused"]
        BY <1>11 DEF LeaveLine
    <2>2. /\ SettledQueues = Removed(k, t)
          /\ SettledWaiter = [Notified(waiter) EXCEPT ![k][t] = "refused"]
        BY <2>1 DEF SettledShape
    <2> QED
        BY <1>a, <1>c, <2>1, <2>2
<1>12. ASSUME NEW k \in Keys, NEW t \in Tasks, TakeTurnOrSleep(k, t)
       PROVE  Step
    <2>1. /\ section = Waiting(k, t, "staying") /\ section' = Free
          /\ UNCHANGED <<queues, cancelled>>
          /\ waiter' = [waiter EXCEPT ![k][t] = IF IsHead(k, t) THEN "granted" ELSE "asleep"]
        BY <1>12 DEF TakeTurnOrSleep, Exit
    <2>2. /\ SettledQueues = queues
          /\ SettledWaiter = [waiter EXCEPT ![k][t] =
                                 IF IsHead(k, t) THEN "granted" ELSE "asleep"]
        BY <2>1 DEF SettledShape
    <2> QED
        BY <1>a, <1>c, <2>1, <2>2
(* Calls and returns, and the poll, need no lock: they meet any section. *)
<1>d. ASSUME NEW k \in Keys, NEW t \in Tasks, NEW w \in {"awake", "out"},
             UNCHANGED <<queues, cancelled, section>>,
             waiter[k][t] # "awake", waiter' = [waiter EXCEPT ![k][t] = w]
      PROVE  /\ SettledQueues' = SettledQueues
             /\ SettledWaiter' = [SettledWaiter EXCEPT ![k][t] = w]
             /\ waiter[k][t] # "asleep" => SettledWaiter[k][t] = waiter[k][t]
             /\ waiter[k][t] = "asleep" => SettledWaiter[k][t] \in {"awake", "asleep"}
    <2>1. SettledQueues' = SettledQueues
        BY <1>d DEF SettledQueues, Appended, Removed
    <2>2. \A at \in {"leaving", "staying"} : section # Waiting(k, t, at)
        BY <1>d DEF MonitorInv, InsideIsInLine, Places
    <2>3. Outcome(k, t) = waiter[k][t] /\ Outcome(k, t)' = w
        BY <1>0, <1>d, <2>2 DEF Outcome
    <2>4. \A j \in Keys, u \in Tasks : ~(j = k /\ u = t) => Outcome(j, u)' = Outcome(j, u)
        BY <1>0, <1>d DEF Outcome, IsHead
    <2>5. MustNotify' <=> MustNotify
        BY <1>d DEF MustNotify
    <2>6. SettledWaiter' = [SettledWaiter EXCEPT ![k][t] = w]
        BY <2>3, <2>4, <2>5 DEF SettledWaiter
    <2>7. SettledWaiter[k][t] = IF MustNotify /\ waiter[k][t] = "asleep" THEN "awake" ELSE waiter[k][t]
        BY <2>3 DEF SettledWaiter
    <2> QED
        BY <2>1, <2>6, <2>7
<1>13. ASSUME NEW k \in Keys, NEW t \in Tasks, BeginWait(k, t), UNCHANGED <<section, unwoken>>
       PROVE  Step
    <2>1. /\ waiter[k][t] = "out" /\ waiter' = [waiter EXCEPT ![k][t] = "awake"]
          /\ UNCHANGED <<queues, cancelled, section>>
        BY <1>13 DEF BeginWait
    <2>2. Queue!BeginWait(k, t)
        BY <1>d, <2>1 DEF Queue!BeginWait
    <2> QED
        BY <2>2 DEF Queue!QueueNext
<1>14. ASSUME NEW k \in Keys, NEW t \in Tasks, EndWait(k, t), UNCHANGED <<section, unwoken>>
       PROVE  Step
    <2>1. /\ waiter[k][t] \in {"granted", "refused"} /\ waiter' = [waiter EXCEPT ![k][t] = "out"]
          /\ UNCHANGED <<queues, cancelled, section>>
        BY <1>14 DEF EndWait
    <2>2. Queue!EndWait(k, t)
        BY <1>d, <2>1 DEF Queue!EndWait
    <2> QED
        BY <2>2 DEF Queue!QueueNext
<1>15. ASSUME NEW k \in Keys, NEW t \in Tasks, PollTimeout(k, t), UNCHANGED <<section, unwoken>>
       PROVE  Step
    <2>1. /\ waiter[k][t] = "asleep" /\ waiter' = [waiter EXCEPT ![k][t] = "awake"]
          /\ UNCHANGED <<queues, cancelled, section>>
        BY <1>15 DEF PollTimeout
    <2>2. /\ SettledQueues' = SettledQueues
          /\ SettledWaiter' = [SettledWaiter EXCEPT ![k][t] = "awake"]
          /\ SettledWaiter[k][t] \in {"awake", "asleep"}
        BY <1>d, <2>1
    <2>3. CASE SettledWaiter[k][t] = "asleep"
        <3>1. Queue!PollTimeout(k, t)
            BY <2>1, <2>2, <2>3 DEF Queue!PollTimeout
        <3> QED
            BY <3>1 DEF Queue!QueueNext
    <2>4. CASE SettledWaiter[k][t] = "awake"
        <3>1. SettledWaiter \in [Keys -> [Tasks -> WaiterStates]]
            BY <1>0, SettledTyped
        <3>2. SettledWaiter' = SettledWaiter
            BY <2>2, <2>4, <3>1
        <3> QED
            BY <1>a, <2>1, <2>2, <3>2
    <2> QED
        BY <2>2, <2>3, <2>4
<1>16. CASE UNCHANGED monitorVars
    <2>1. UNCHANGED <<queues, cancelled, waiter, section>>
        BY <1>16 DEF monitorVars, queueVars
    <2>2. SettledQueues' = SettledQueues /\ SettledWaiter' = SettledWaiter
        BY <2>1 DEF SettledQueues, SettledWaiter, Appended, Removed, MustNotify, Outcome, IsHead
    <2> QED
        BY <1>a, <2>1, <2>2
<1> QED
    BY <1>1, <1>2, <1>3, <1>4, <1>5, <1>6, <1>7, <1>8, <1>9, <1>10, <1>11, <1>12,
       <1>13, <1>14, <1>15, <1>16 DEF MonitorNext

(* Each critical section may be taken as the one step GatewayQueue has for *)
(* it, although the flag is set and waits begin and end outside the lock.  *)
THEOREM MonitorImplementsQueue == MonitorSpec => ImplementsQueue
<1>1. MonitorInit => Queue!QueueInit
    <2> SUFFICES ASSUME MonitorInit
                 PROVE  Queue!QueueInit
        OBVIOUS
    <2>1. section = Free /\ waiter = [k \in Keys |-> [t \in Tasks |-> "out"]]
          /\ queues = [k \in Keys |-> <<>>] /\ cancelled = [t \in Tasks |-> FALSE]
        BY DEF MonitorInit, QueueInit
    <2>2. /\ section.op = "free" /\ \A k, t, at : section # Waiting(k, t, at)
        BY <2>1, Sections
    <2>3. SettledQueues = queues /\ SettledWaiter = waiter
        BY <2>1, <2>2 DEF SettledQueues, SettledWaiter, MustNotify, Outcome
    <2> QED
        BY <2>1, <2>3 DEF Queue!QueueInit
<1>2. MonitorInv => SettledShape
    BY Settling DEF MonitorInv
<1>3. MonitorInv /\ MonitorInv' /\ SettledShape /\ SettledShape' /\ [MonitorNext]_monitorVars
        => [Queue!QueueNext]_(Queue!queueVars)
    BY SettledStep
<1> QED
    BY <1>1, <1>2, <1>3, MonitorIsKept, PTL DEF MonitorSpec, ImplementsQueue, Queue!QueueSpec
=============================================================================
