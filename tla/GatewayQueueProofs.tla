------------------------- MODULE GatewayQueueProofs -------------------------
(***************************************************************************)
(* What holds of the gateway queue whoever calls it: theorems about        *)
(* QueueSpec, for any keys, tasks and depth limit.                         *)
(***************************************************************************)
EXTENDS GatewayQueue, SequencesExt, SequenceTheorems, WellFoundedInduction,
        TLAPS

-----------------------------------------------------------------------------
(* What deque.remove and deque.append do to a line of tasks: facts about   *)
(* sequences.                                                              *)

Occurs(s, x) == \E i \in 1..Len(s) : s[i] = x

Precedes(s, x, y) == \E i, j \in 1..Len(s) : i < j /\ s[i] = x /\ s[j] = y

Distinct(s) == \A i, j \in 1..Len(s) : s[i] = s[j] => i = j

(* A set of positions that is not empty has a least one. *)
LEMMA LeastPosition ==
    ASSUME NEW I, I \subseteq Nat, I # {}
    PROVE  \E i \in I : \A j \in I : i <= j
<1>1. PICK i \in I : \A j \in I : ~(<<j, i>> \in OpToRel(<, Nat))
    BY NatLessThanWellFounded, WFMin, Zenon
<1>2. \A j \in I : ~(j < i)
    BY <1>1 DEF OpToRel
<1>3. \A j \in I : i <= j
    BY <1>2
<1> QED
    BY <1>3

(* RemoveAt closes the gap and nothing else. *)
LEMMA RemoveAtShape ==
    ASSUME NEW S, NEW s \in Seq(S), NEW i \in 1..Len(s)
    PROVE  /\ RemoveAt(s, i) \in Seq(S)
           /\ Len(RemoveAt(s, i)) = Len(s) - 1
           /\ \A j \in 1..(Len(s) - 1) :
                 RemoveAt(s, i)[j] = IF j < i THEN s[j] ELSE s[j + 1]
<1> DEFINE a == SubSeq(s, 1, i - 1)
           b == SubSeq(s, i + 1, Len(s))
<1>1. Len(s) \in Nat /\ \A j \in 1..Len(s) : s[j] \in S
    BY LenProperties, ElementOfSeq
<1>2. /\ a \in Seq(S)
      /\ Len(a) = i - 1
      /\ \A j \in 1..(i - 1) : a[j] = s[j]
    <2>1. \A j \in 1..(i - 1) : s[j] \in S
        BY <1>1
    <2>2. /\ a \in Seq(S)
          /\ Len(a) = IF 1 <= i - 1 THEN i - 1 - 1 + 1 ELSE 0
          /\ \A j \in 1..(i - 1 - 1 + 1) : a[j] = s[1 + j - 1]
        BY <2>1, <1>1, SubSeqProperties, 1 \in Int, i - 1 \in Int
    <2> QED
        BY <2>2, <1>1
<1>3. /\ b \in Seq(S)
      /\ Len(b) = Len(s) - i
      /\ \A j \in 1..(Len(s) - i) : b[j] = s[i + j]
    <2>1. \A j \in (i + 1)..Len(s) : s[j] \in S
        BY <1>1
    <2>2. /\ b \in Seq(S)
          /\ Len(b) = IF i + 1 <= Len(s) THEN Len(s) - (i + 1) + 1 ELSE 0
          /\ \A j \in 1..(Len(s) - (i + 1) + 1) : b[j] = s[(i + 1) + j - 1]
        BY <2>1, <1>1, SubSeqProperties, i + 1 \in Int, Len(s) \in Int
    <2> QED
        BY <2>2, <1>1
<1>4. /\ a \o b \in Seq(S)
      /\ Len(a \o b) = Len(a) + Len(b)
      /\ \A j \in 1..(Len(a) + Len(b)) :
            (a \o b)[j] = IF j <= Len(a) THEN a[j] ELSE b[j - Len(a)]
    BY <1>2, <1>3, ConcatProperties
<1>5. RemoveAt(s, i) = a \o b
    BY DEF RemoveAt
<1> HIDE DEF a, b
<1>6. Len(a \o b) = Len(s) - 1
    BY <1>1, <1>2, <1>3, <1>4
<1>7. ASSUME NEW j \in 1..(Len(s) - 1)
      PROVE  (a \o b)[j] = IF j < i THEN s[j] ELSE s[j + 1]
    <2>1. (a \o b)[j] = IF j <= i - 1 THEN a[j] ELSE b[j - (i - 1)]
        BY <1>1, <1>2, <1>3, <1>4
    <2>2. CASE j < i
        BY <1>1, <1>2, <2>1, <2>2
    <2>3. CASE ~(j < i)
        <3>1. j - (i - 1) \in 1..(Len(s) - i) /\ i + (j - (i - 1)) = j + 1
            BY <1>1, <2>3
        <3>2. b[j - (i - 1)] = s[i + (j - (i - 1))]
            BY <1>3, <3>1
        <3>3. b[j - (i - 1)] = s[j + 1]
            BY <3>1, <3>2
        <3>4. ~(j <= i - 1)
            BY <2>3
        <3> QED
            BY <2>1, <2>3, <3>3, <3>4
    <2> QED
        BY <2>2, <2>3
<1> QED
    BY <1>4, <1>5, <1>6, <1>7

(* RemoveFirst, when the element is there, removes its first position. *)
LEMMA RemoveFirstShape ==
    ASSUME NEW S, NEW s \in Seq(S), NEW e, \E i \in 1..Len(s) : s[i] = e
    PROVE  \E i \in 1..Len(s) :
              /\ s[i] = e
              /\ \A j \in 1..Len(s) : s[j] = e => i <= j
              /\ RemoveFirst(s, e) \in Seq(S)
              /\ Len(RemoveFirst(s, e)) = Len(s) - 1
              /\ \A j \in 1..(Len(s) - 1) :
                    RemoveFirst(s, e)[j] = IF j < i THEN s[j] ELSE s[j + 1]
<1> DEFINE I == {i \in 1..Len(s) : s[i] = e}
           m == CHOOSE i \in I : \A j \in I : i =< j
<1>1. Len(s) \in Nat
    BY LenProperties
<1>2. I \subseteq Nat /\ I # {}
    BY <1>1
<1>3. \E i \in I : \A j \in I : i =< j
    BY <1>2, LeastPosition
<1>4. m \in I /\ \A j \in I : m =< j
    BY <1>3
<1>5. RemoveFirst(s, e) = RemoveAt(s, m)
    BY <1>2 DEF RemoveFirst, SelectInSeq, Min
<1>6. m \in 1..Len(s) /\ s[m] = e /\ \A j \in 1..Len(s) : s[j] = e => m <= j
    BY <1>4
<1> HIDE DEF m
<1>7. /\ RemoveAt(s, m) \in Seq(S)
      /\ Len(RemoveAt(s, m)) = Len(s) - 1
      /\ \A j \in 1..(Len(s) - 1) :
            RemoveAt(s, m)[j] = IF j < m THEN s[j] ELSE s[j + 1]
    BY <1>6, RemoveAtShape
<1> QED
    BY <1>5, <1>6, <1>7

(* RemoveFirst of an element that is not there changes nothing. *)
LEMMA RemoveFirstAbsent ==
    ASSUME NEW s, NEW e, ~\E i \in 1..Len(s) : s[i] = e
    PROVE  RemoveFirst(s, e) = s
BY DEF RemoveFirst

(* Whatever it removes, the result is a line no longer than before. *)
LEMMA RemoveFirstType ==
    ASSUME NEW S, NEW s \in Seq(S), NEW e
    PROVE  RemoveFirst(s, e) \in Seq(S) /\ Len(RemoveFirst(s, e)) <= Len(s)
<1>1. Len(s) \in Nat
    BY LenProperties
<1>2. CASE \E i \in 1..Len(s) : s[i] = e
    BY <1>1, <1>2, RemoveFirstShape
<1>3. CASE ~\E i \in 1..Len(s) : s[i] = e
    BY <1>1, <1>3, RemoveFirstAbsent
<1> QED
    BY <1>2, <1>3

(* Removing one task leaves any other at the head where it was. *)
LEMMA RemoveFirstHead ==
    ASSUME NEW S, NEW s \in Seq(S), NEW e, Len(s) > 0, s[1] # e
    PROVE  Len(RemoveFirst(s, e)) > 0 /\ RemoveFirst(s, e)[1] = s[1]
<1>1. Len(s) \in Nat
    BY LenProperties
<1>2. CASE Occurs(s, e)
    <2>1. PICK i \in 1..Len(s) :
             /\ s[i] = e
             /\ Len(RemoveFirst(s, e)) = Len(s) - 1
             /\ \A j \in 1..(Len(s) - 1) :
                   RemoveFirst(s, e)[j] = IF j < i THEN s[j] ELSE s[j + 1]
        BY <1>2, RemoveFirstShape DEF Occurs
    <2>2. i > 1
        BY <1>1, <2>1
    <2> QED
        BY <1>1, <2>1, <2>2
<1>3. CASE ~Occurs(s, e)
    BY <1>3, RemoveFirstAbsent DEF Occurs
<1> QED
    BY <1>2, <1>3

(* In a line without duplicates, removing a task leaves the others, each   *)
(* once, in their order.                                                   *)
LEMMA RemoveFirstDistinct ==
    ASSUME NEW S, NEW s \in Seq(S), NEW e, Distinct(s)
    PROVE  /\ Distinct(RemoveFirst(s, e))
           /\ \A x : Occurs(RemoveFirst(s, e), x) <=> Occurs(s, x) /\ x # e
           /\ \A x, y : Precedes(RemoveFirst(s, e), x, y)
                          <=> Precedes(s, x, y) /\ x # e /\ y # e
<1> DEFINE r == RemoveFirst(s, e)
<1>1. Len(s) \in Nat
    BY LenProperties
<1>2. CASE Occurs(s, e)
    <2>1. PICK i \in 1..Len(s) :
             /\ s[i] = e
             /\ Len(r) = Len(s) - 1
             /\ \A j \in 1..(Len(s) - 1) : r[j] = IF j < i THEN s[j] ELSE s[j + 1]
        BY <1>2, RemoveFirstShape DEF Occurs
    <2> DEFINE old(j) == IF j < i THEN j ELSE j + 1
               new(j) == IF j < i THEN j ELSE j - 1
    <2> HIDE DEF r
    <2>2. \A j \in 1..Len(r) : old(j) \in 1..Len(s) /\ old(j) # i /\ r[j] = s[old(j)]
        BY <1>1, <2>1
    <2>3. \A j \in 1..Len(s) : j # i => new(j) \in 1..Len(r) /\ r[new(j)] = s[j]
        <3> SUFFICES ASSUME NEW j \in 1..Len(s), j # i
                     PROVE  new(j) \in 1..Len(r) /\ r[new(j)] = s[j]
            OBVIOUS
        <3>1. CASE j < i
            BY <1>1, <2>1, <3>1
        <3>2. CASE j > i
            <4>1. j - 1 \in 1..(Len(s) - 1) /\ ~(j - 1 < i) /\ (j - 1) + 1 = j
                BY <1>1, <3>2
            <4> QED
                BY <1>1, <2>1, <3>2, <4>1
        <3> QED
            BY <1>1, <3>1, <3>2
    <2>4. \A j \in 1..Len(s) : s[j] = e => j = i
        BY <2>1 DEF Distinct
    <2>5. \A m, n \in 1..Len(r) : m < n <=> old(m) < old(n)
        BY <1>1, <2>1
    <2>6. \A m, n \in 1..Len(s) : m # i /\ n # i /\ m < n => new(m) < new(n)
        BY <1>1, <2>1
    <2>7. Distinct(r)
        <3> SUFFICES ASSUME NEW m \in 1..Len(r), NEW n \in 1..Len(r), r[m] = r[n]
                     PROVE  m = n
            BY DEF Distinct
        <3>1. old(m) = old(n)
            BY <2>2 DEF Distinct
        <3> QED
            BY <1>1, <2>1, <3>1
    <2> HIDE DEF old, new
    <2>8. ASSUME NEW x
          PROVE  Occurs(r, x) <=> Occurs(s, x) /\ x # e
        <3>1. ASSUME Occurs(r, x)
              PROVE  Occurs(s, x) /\ x # e
            <4>1. PICK m \in 1..Len(r) : r[m] = x
                BY <3>1 DEF Occurs
            <4> QED
                BY <4>1, <2>2, <2>4 DEF Occurs
        <3>2. ASSUME Occurs(s, x), x # e
              PROVE  Occurs(r, x)
            <4>1. PICK m \in 1..Len(s) : s[m] = x
                BY <3>2 DEF Occurs
            <4>2. m # i
                BY <2>1, <3>2, <4>1
            <4> QED
                BY <4>1, <4>2, <2>3 DEF Occurs
        <3> QED
            BY <3>1, <3>2
    <2>9. ASSUME NEW x, NEW y
          PROVE  Precedes(r, x, y) <=> Precedes(s, x, y) /\ x # e /\ y # e
        <3>1. ASSUME Precedes(r, x, y)
              PROVE  Precedes(s, x, y) /\ x # e /\ y # e
            <4>1. PICK m \in 1..Len(r), n \in 1..Len(r) : m < n /\ r[m] = x /\ r[n] = y
                BY <3>1 DEF Precedes
            <4> QED
                BY <4>1, <2>2, <2>4, <2>5 DEF Precedes
        <3>2. ASSUME Precedes(s, x, y), x # e, y # e
              PROVE  Precedes(r, x, y)
            <4>1. PICK m \in 1..Len(s), n \in 1..Len(s) : m < n /\ s[m] = x /\ s[n] = y
                BY <3>2 DEF Precedes
            <4>2. m # i /\ n # i
                BY <2>1, <3>2, <4>1
            <4> QED
                BY <4>1, <4>2, <2>3, <2>6 DEF Precedes
        <3> QED
            BY <3>1, <3>2
    <2> QED
        BY <2>7, <2>8, <2>9 DEF r
<1>3. CASE ~Occurs(s, e)
    <2>1. RemoveFirst(s, e) = s
        BY <1>3, RemoveFirstAbsent DEF Occurs
    <2> QED
        BY <1>3, <2>1 DEF Occurs, Precedes
<1> QED
    BY <1>2, <1>3

(* A task that is not in a line joins it at the back, behind everyone. *)
LEMMA AppendShape ==
    ASSUME NEW S, NEW s \in Seq(S), NEW e \in S
    PROVE  /\ Append(s, e) \in Seq(S)
           /\ Len(Append(s, e)) = Len(s) + 1
           /\ Len(s) > 0 => Append(s, e)[1] = s[1]
           /\ \A x : Occurs(Append(s, e), x) <=> Occurs(s, x) \/ x = e
           /\ \A x, y : Precedes(Append(s, e), x, y)
                          <=> Precedes(s, x, y) \/ (Occurs(s, x) /\ y = e)
           /\ Distinct(s) /\ ~Occurs(s, e) => Distinct(Append(s, e))
<1> DEFINE a == Append(s, e)
<1>1. Len(s) \in Nat
    BY LenProperties
<1>2. /\ a \in Seq(S)
      /\ Len(a) = Len(s) + 1
      /\ \A i \in 1..Len(s) : a[i] = s[i]
      /\ a[Len(s) + 1] = e
    BY AppendProperties
<1> HIDE DEF a
<1>3. \A i \in 1..Len(a) : i \in 1..Len(s) \/ i = Len(s) + 1
    BY <1>1, <1>2
<1>4. 1..Len(s) \subseteq 1..Len(a) /\ Len(s) + 1 \in 1..Len(a)
    BY <1>1, <1>2
<1>5. Len(s) > 0 => a[1] = s[1]
    BY <1>1, <1>2
<1>6. \A x : Occurs(a, x) <=> Occurs(s, x) \/ x = e
    BY <1>2, <1>3, <1>4 DEF Occurs
<1>7. ASSUME NEW x, NEW y
      PROVE  Precedes(a, x, y) <=> Precedes(s, x, y) \/ (Occurs(s, x) /\ y = e)
    <2>1. ASSUME Precedes(a, x, y)
          PROVE  Precedes(s, x, y) \/ (Occurs(s, x) /\ y = e)
        <3>1. PICK m \in 1..Len(a), n \in 1..Len(a) : m < n /\ a[m] = x /\ a[n] = y
            BY <2>1 DEF Precedes
        <3>2. m \in 1..Len(s)
            BY <1>1, <1>2, <3>1
        <3> QED
            BY <1>2, <1>3, <3>1, <3>2 DEF Precedes, Occurs
    <2>2. ASSUME Precedes(s, x, y)
          PROVE  Precedes(a, x, y)
        BY <1>2, <1>4, <2>2 DEF Precedes
    <2>3. ASSUME Occurs(s, x), y = e
          PROVE  Precedes(a, x, y)
        <3>1. PICK m \in 1..Len(s) : s[m] = x
            BY <2>3 DEF Occurs
        <3>2. m < Len(s) + 1
            BY <1>1
        <3> QED
            BY <1>2, <1>4, <2>3, <3>1, <3>2 DEF Precedes
    <2> QED
        BY <2>1, <2>2, <2>3
<1>8. ASSUME Distinct(s), ~Occurs(s, e)
      PROVE  Distinct(a)
    BY <1>2, <1>3, <1>8 DEF Distinct, Occurs
<1> QED
    BY <1>2, <1>5, <1>6, <1>7, <1>8 DEF a

-----------------------------------------------------------------------------
USE MaxDepthAssumption DEF MaxDepthAssumption

-----------------------------------------------------------------------------
(* What the operations do to the lines *)

LEMMA NotifiedType ==
    ASSUME waiter \in [Keys -> [Tasks -> WaiterStates]]
    PROVE  Notified(waiter) \in [Keys -> [Tasks -> WaiterStates]]
BY DEF Notified, WaiterStates

LEMMA RemovedShape ==
    ASSUME QueueTypeOK, NEW k \in Keys, NEW t \in Tasks
    PROVE  /\ Removed(k, t) \in [Keys -> Seq(Tasks)]
           /\ Removed(k, t)[k] = RemoveFirst(queues[k], t)
           /\ \A j \in Keys : j # k => Removed(k, t)[j] = queues[j]
<1>1. queues \in [Keys -> Seq(Tasks)] /\ queues[k] \in Seq(Tasks)
    BY DEF QueueTypeOK
<1>2. RemoveFirst(queues[k], t) \in Seq(Tasks)
    BY <1>1, RemoveFirstType
<1> QED
    BY <1>1, <1>2 DEF Removed

LEMMA AppendedShape ==
    ASSUME QueueTypeOK, NEW t \in Tasks, NEW K \in SUBSET Keys
    PROVE  /\ Appended(t, K) \in [Keys -> Seq(Tasks)]
           /\ \A k \in K : Appended(t, K)[k] = Append(queues[k], t)
           /\ \A k \in Keys \ K : Appended(t, K)[k] = queues[k]
<1>1. \A k \in Keys : queues[k] \in Seq(Tasks) /\ Append(queues[k], t) \in Seq(Tasks)
    BY AppendShape DEF QueueTypeOK
<1> QED
    BY <1>1 DEF Appended

(* One step appends a task that is in none of the lines it joins, removes  *)
(* a task from one line, or leaves every line as it is.                    *)
LEMMA QueueStepShape ==
    ASSUME [QueueNext]_queueVars
    PROVE  \/ \E t \in Tasks, K \in SUBSET Keys :
                ~AlreadyQueued(t, K) /\ HasRoom(K) /\ queues' = Appended(t, K)
           \/ \E k \in Keys, t \in Tasks : queues' = Removed(k, t)
           \/ queues' = queues
BY DEF QueueNext, queueVars, EnqueueMany, EnqueueRefused, Release, BeginWait,
       Turn, TurnMissing, TurnCancelled, TurnGranted, TurnSleeps, PollTimeout,
       EndWait, Wake, SetCancelled

-----------------------------------------------------------------------------
(* Types *)

LEMMA QueueTypeStep == QueueTypeOK /\ [QueueNext]_queueVars => QueueTypeOK'
<1> SUFFICES ASSUME QueueTypeOK, [QueueNext]_queueVars
             PROVE  QueueTypeOK'
    OBVIOUS
<1>1. queues' \in [Keys -> Seq(Tasks)]
    <2>1. CASE \E t \in Tasks, K \in SUBSET Keys : queues' = Appended(t, K)
        BY <2>1, AppendedShape
    <2>2. CASE \E k \in Keys, t \in Tasks : queues' = Removed(k, t)
        BY <2>2, RemovedShape
    <2>3. CASE queues' = queues
        BY <2>3 DEF QueueTypeOK
    <2> QED
        BY <2>1, <2>2, <2>3, QueueStepShape
<1>2. cancelled' \in [Tasks -> BOOLEAN]
    BY DEF QueueTypeOK, QueueNext, queueVars, EnqueueMany, EnqueueRefused, Release,
           BeginWait, Turn, TurnMissing, TurnCancelled, TurnGranted, TurnSleeps,
           PollTimeout, EndWait, Wake, SetCancelled
<1>3. waiter' \in [Keys -> [Tasks -> WaiterStates]]
    <2>1. waiter \in [Keys -> [Tasks -> WaiterStates]]
        BY DEF QueueTypeOK
    <2>2. \/ waiter' \in {waiter, Notified(waiter)}
          \/ \E k \in Keys, t \in Tasks, w \in {waiter, Notified(waiter)}, s \in WaiterStates :
                waiter' = [w EXCEPT ![k][t] = s]
        BY DEF QueueNext, queueVars, EnqueueMany, EnqueueRefused, Release, BeginWait,
               Turn, TurnMissing, TurnCancelled, TurnGranted, TurnSleeps,
               PollTimeout, EndWait, Wake, SetCancelled, WaiterStates
    <2>3. \A w \in {waiter, Notified(waiter)} : w \in [Keys -> [Tasks -> WaiterStates]]
        BY <2>1, NotifiedType
    <2>4. ASSUME NEW w \in [Keys -> [Tasks -> WaiterStates]],
                 NEW k \in Keys, NEW t \in Tasks, NEW s \in WaiterStates
          PROVE  [w EXCEPT ![k][t] = s] \in [Keys -> [Tasks -> WaiterStates]]
        OBVIOUS
    <2>5. CASE waiter' \in {waiter, Notified(waiter)}
        BY <2>3, <2>5, Zenon
    <2>6. CASE \E k \in Keys, t \in Tasks, w \in {waiter, Notified(waiter)}, s \in WaiterStates :
                  waiter' = [w EXCEPT ![k][t] = s]
        <3>1. PICK k \in Keys, t \in Tasks, w \in {waiter, Notified(waiter)}, s \in WaiterStates :
                  waiter' = [w EXCEPT ![k][t] = s]
            BY <2>6, Zenon
        <3>2. w \in [Keys -> [Tasks -> WaiterStates]]
            BY <2>3, Zenon
        <3> QED
            BY <2>4, <3>1, <3>2, Zenon
    <2> QED
        BY <2>2, <2>5, <2>6, Zenon
<1> QED
    BY <1>1, <1>2, <1>3 DEF QueueTypeOK

(* The queue's state keeps its shape. *)
THEOREM QueueTypeCorrect == QueueSpec => []QueueTypeOK
<1>1. QueueInit => QueueTypeOK
    BY EmptySeq DEF QueueInit, QueueTypeOK, WaiterStates
<1> QED
    BY <1>1, QueueTypeStep, PTL DEF QueueSpec

-----------------------------------------------------------------------------
(* Depth *)

(* No line is ever longer than the limit enqueue_many was given. *)
THEOREM DepthIsBounded == QueueSpec => []DepthBounded
<1>1. QueueInit => DepthBounded
    BY EmptySeq DEF QueueInit, DepthBounded
<1>2. QueueTypeOK /\ DepthBounded /\ [QueueNext]_queueVars => DepthBounded'
    <2> SUFFICES ASSUME QueueTypeOK, DepthBounded, [QueueNext]_queueVars,
                        NEW k \in Keys
                 PROVE  Len(queues'[k]) <= MaxDepth
        BY DEF DepthBounded
    <2>1. queues[k] \in Seq(Tasks) /\ Len(queues[k]) \in Nat /\ Len(queues[k]) <= MaxDepth
        BY LenProperties DEF QueueTypeOK, DepthBounded
    <2>2. CASE \E t \in Tasks, K \in SUBSET Keys : HasRoom(K) /\ queues' = Appended(t, K)
        <3>1. PICK t \in Tasks, K \in SUBSET Keys : HasRoom(K) /\ queues' = Appended(t, K)
            BY <2>2
        <3>2. CASE k \in K
            BY <2>1, <3>1, <3>2, AppendedShape, AppendShape DEF HasRoom
        <3>3. CASE k \notin K
            BY <2>1, <3>1, <3>3, AppendedShape
        <3> QED
            BY <3>2, <3>3
    <2>3. CASE \E j \in Keys, t \in Tasks : queues' = Removed(j, t)
        <3>1. PICK j \in Keys, t \in Tasks : queues' = Removed(j, t)
            BY <2>3
        <3>2. RemoveFirst(queues[k], t) \in Seq(Tasks)
              /\ Len(RemoveFirst(queues[k], t)) <= Len(queues[k])
            BY <2>1, RemoveFirstType
        <3>3. Len(RemoveFirst(queues[k], t)) \in Nat
            BY <3>2, LenProperties
        <3>4. queues'[k] \in {queues[k], RemoveFirst(queues[k], t)}
            BY <3>1, RemovedShape
        <3> QED
            BY <2>1, <3>2, <3>3, <3>4
    <2> QED
        BY <2>1, <2>2, <2>3, QueueStepShape
<1> QED
    BY <1>1, <1>2, QueueTypeCorrect, PTL DEF QueueSpec

-----------------------------------------------------------------------------
(* Order *)

LEMMA LineOperators ==
    /\ \A k, t : InLine(k, t) <=> Occurs(queues[k], t)
    /\ \A k, t, u : Before(k, t, u) <=> Precedes(queues[k], t, u)
    /\ NoDuplicates <=> \A k \in Keys : Distinct(queues[k])
BY DEF InLine, Before, NoDuplicates, Occurs, Precedes, Distinct

LEMMA NoDuplicatesStep ==
    QueueTypeOK /\ NoDuplicates /\ [QueueNext]_queueVars => NoDuplicates'
<1> SUFFICES ASSUME QueueTypeOK, NoDuplicates, [QueueNext]_queueVars,
                    NEW k \in Keys
             PROVE  Distinct(queues'[k])
    BY DEF NoDuplicates, Distinct
<1>1. queues[k] \in Seq(Tasks) /\ Distinct(queues[k])
    BY LineOperators DEF QueueTypeOK
<1>2. CASE \E t \in Tasks, K \in SUBSET Keys :
              ~AlreadyQueued(t, K) /\ queues' = Appended(t, K)
    <2>1. PICK t \in Tasks, K \in SUBSET Keys :
              ~AlreadyQueued(t, K) /\ queues' = Appended(t, K)
        BY <1>2
    <2>2. CASE k \in K
        <3>1. queues'[k] = Append(queues[k], t) /\ ~Occurs(queues[k], t)
            BY <2>1, <2>2, AppendedShape, LineOperators DEF AlreadyQueued
        <3> QED
            BY <1>1, <3>1, AppendShape
    <2>3. CASE k \notin K
        BY <1>1, <2>1, <2>3, AppendedShape
    <2> QED
        BY <2>2, <2>3
<1>3. CASE \E j \in Keys, t \in Tasks : queues' = Removed(j, t)
    <2>1. PICK j \in Keys, t \in Tasks : queues' = Removed(j, t)
        BY <1>3
    <2>2. queues'[k] \in {queues[k], RemoveFirst(queues[k], t)}
        BY <2>1, RemovedShape
    <2>3. Distinct(RemoveFirst(queues[k], t))
        BY <1>1, RemoveFirstDistinct
    <2> QED
        BY <1>1, <2>2, <2>3
<1> QED
    BY <1>1, <1>2, <1>3, QueueStepShape

(* Whatever its callers do, no line has a task twice. *)
THEOREM LinesHaveNoDuplicates == QueueSpec => []NoDuplicates
<1>1. QueueInit => NoDuplicates
    BY EmptySeq DEF QueueInit, NoDuplicates
<1> QED
    BY <1>1, NoDuplicatesStep, QueueTypeCorrect, PTL DEF QueueSpec

LEMMA OrderStep ==
    ASSUME QueueTypeOK, NoDuplicates, [QueueNext]_queueVars,
           NEW k \in Keys, NEW t \in Tasks, NEW u \in Tasks,
           CameFirst(k, t, u), InLine(k, t)', InLine(k, u)'
    PROVE  Before(k, t, u)'
<1> DEFINE s == queues[k]
<1>1. /\ s \in Seq(Tasks) /\ Distinct(s)
      /\ Precedes(s, t, u) \/ (Occurs(s, t) /\ ~Occurs(s, u))
    BY LineOperators DEF QueueTypeOK, CameFirst
<1>2. Occurs(queues'[k], t) /\ Occurs(queues'[k], u)
    BY DEF InLine, Occurs
<1>3. SUFFICES Precedes(queues'[k], t, u)
    BY DEF Before, Precedes
<1>4. CASE \E x \in Tasks, K \in SUBSET Keys : queues' = Appended(x, K)
    <2>1. PICK x \in Tasks, K \in SUBSET Keys : queues' = Appended(x, K)
        BY <1>4
    <2>2. queues'[k] \in {queues[k], Append(queues[k], x)}
        BY <2>1, AppendedShape
    <2>3. CASE queues'[k] = s
        BY <1>1, <1>2, <2>3 DEF Precedes
    <2>4. CASE queues'[k] = Append(s, x)
        BY <1>1, <1>2, <2>4, AppendShape
    <2> QED
        BY <2>2, <2>3, <2>4
<1>5. CASE \E j \in Keys, x \in Tasks : queues' = Removed(j, x)
    <2>1. PICK j \in Keys, x \in Tasks : queues' = Removed(j, x)
        BY <1>5
    <2>2. queues'[k] \in {queues[k], RemoveFirst(queues[k], x)}
        BY <2>1, RemovedShape
    <2> QED
        BY <1>1, <1>2, <2>2, RemoveFirstDistinct
<1> QED
    BY <1>1, <1>2, <1>4, <1>5, QueueStepShape

(* First in, first out: no step reverses two tasks of a line or lets one   *)
(* join in front of another.                                               *)
THEOREM LinesAreFifo == QueueSpec => NoOvertaking
<1>1. QueueTypeOK /\ NoDuplicates /\ [QueueNext]_queueVars
        => [\A k \in Keys : \A t, u \in Tasks :
              (CameFirst(k, t, u) /\ InLine(k, t)' /\ InLine(k, u)')
                  => Before(k, t, u)']_queueVars
    BY OrderStep
<1> QED
    BY <1>1, QueueTypeCorrect, LinesHaveNoDuplicates, PTL DEF QueueSpec, NoOvertaking

-----------------------------------------------------------------------------
(* Sleepers *)

(* The head of a line stays there unless it is removed itself. *)
LEMMA HeadAppended ==
    ASSUME QueueTypeOK, NEW k \in Keys, NEW t \in Tasks, IsHead(k, t),
           NEW u \in Tasks, NEW K \in SUBSET Keys, queues' = Appended(u, K)
    PROVE  IsHead(k, t)'
<1>1. queues[k] \in Seq(Tasks) /\ Len(queues[k]) \in Nat
    BY LenProperties DEF QueueTypeOK
<1>2. CASE k \in K
    BY <1>1, <1>2, AppendedShape, AppendShape DEF IsHead
<1>3. CASE k \notin K
    BY <1>3, AppendedShape DEF IsHead
<1> QED
    BY <1>2, <1>3

LEMMA HeadRemoved ==
    ASSUME QueueTypeOK, NEW k \in Keys, NEW t \in Tasks, IsHead(k, t),
           NEW j \in Keys, NEW u \in Tasks, queues' = Removed(j, u), j # k \/ u # t
    PROVE  IsHead(k, t)'
<1>1. queues[k] \in Seq(Tasks)
    BY DEF QueueTypeOK
<1>2. CASE j # k
    BY <1>2, RemovedShape DEF IsHead
<1>3. CASE j = k /\ u # t
    BY <1>1, <1>3, RemovedShape, RemoveFirstHead DEF IsHead
<1> QED
    BY <1>2, <1>3

(* What a step does to the membership of a line. *)
LEMMA InLineAppended ==
    ASSUME QueueTypeOK, NEW k \in Keys, NEW t \in Tasks,
           NEW u \in Tasks, NEW K \in SUBSET Keys, queues' = Appended(u, K)
    PROVE  InLine(k, t)' <=> InLine(k, t) \/ (k \in K /\ t = u)
<1>1. queues[k] \in Seq(Tasks)
    BY DEF QueueTypeOK
<1>2. InLine(k, t)' <=> Occurs(queues'[k], t)
    BY DEF InLine, Occurs
<1>3. CASE k \in K
    <2>1. queues'[k] = Append(queues[k], u)
        BY <1>3, AppendedShape
    <2>2. Occurs(Append(queues[k], u), t) <=> Occurs(queues[k], t) \/ t = u
        BY <1>1, AppendShape
    <2>3. InLine(k, t) <=> Occurs(queues[k], t)
        BY LineOperators
    <2> QED
        BY <1>2, <1>3, <2>1, <2>2, <2>3
<1>4. CASE k \notin K
    BY <1>2, <1>4, AppendedShape, LineOperators
<1> QED
    BY <1>3, <1>4

LEMMA InLineRemoved ==
    ASSUME QueueTypeOK, NoDuplicates, NEW k \in Keys, NEW t \in Tasks,
           NEW j \in Keys, NEW u \in Tasks, queues' = Removed(j, u)
    PROVE  InLine(k, t)' <=> InLine(k, t) /\ ~(j = k /\ u = t)
<1>1. queues[k] \in Seq(Tasks) /\ Distinct(queues[k])
    BY LineOperators DEF QueueTypeOK
<1>2. InLine(k, t)' <=> Occurs(queues'[k], t)
    BY DEF InLine, Occurs
<1>3. CASE j = k
    BY <1>1, <1>2, <1>3, RemovedShape, RemoveFirstDistinct, LineOperators
<1>4. CASE j # k
    BY <1>2, <1>4, RemovedShape, LineOperators
<1> QED
    BY <1>3, <1>4

(* ... and to the order of the tasks in it. *)
LEMMA BeforeAppended ==
    ASSUME QueueTypeOK, NEW k \in Keys, NEW t \in Tasks, NEW u \in Tasks,
           NEW v \in Tasks, NEW K \in SUBSET Keys, queues' = Appended(v, K)
    PROVE  Before(k, t, u)' <=> Before(k, t, u) \/ (k \in K /\ InLine(k, t) /\ u = v)
<1>1. queues[k] \in Seq(Tasks)
    BY DEF QueueTypeOK
<1>2. Before(k, t, u)' <=> Precedes(queues'[k], t, u)
    BY DEF Before, Precedes
<1>3. CASE k \in K
    <2>1. queues'[k] = Append(queues[k], v)
        BY <1>3, AppendedShape
    <2> QED
        BY <1>1, <1>2, <1>3, <2>1, AppendShape, LineOperators
<1>4. CASE k \notin K
    BY <1>2, <1>4, AppendedShape, LineOperators
<1> QED
    BY <1>3, <1>4

LEMMA BeforeRemoved ==
    ASSUME QueueTypeOK, NoDuplicates, NEW k \in Keys, NEW t \in Tasks, NEW u \in Tasks,
           NEW j \in Keys, NEW v \in Tasks, queues' = Removed(j, v)
    PROVE  Before(k, t, u)' <=> Before(k, t, u) /\ ~(j = k /\ (t = v \/ u = v))
<1>1. queues[k] \in Seq(Tasks) /\ Distinct(queues[k])
    BY LineOperators DEF QueueTypeOK
<1>2. Before(k, t, u)' <=> Precedes(queues'[k], t, u)
    BY DEF Before, Precedes
<1>3. CASE j = k
    BY <1>1, <1>2, <1>3, RemovedShape, RemoveFirstDistinct, LineOperators
<1>4. CASE j # k
    BY <1>2, <1>4, RemovedShape, LineOperators
<1> QED
    BY <1>3, <1>4

(* After notify_all nobody is asleep. *)
LEMMA NotifiedWakes ==
    ASSUME waiter \in [Keys -> [Tasks -> WaiterStates]]
    PROVE  \A k \in Keys, t \in Tasks : Notified(waiter)[k][t] # "asleep"
BY DEF Notified

(* Removing a task that is not there changes no line. *)
LEMMA RemovedAbsent ==
    ASSUME QueueTypeOK, NEW k \in Keys, NEW t \in Tasks, ~InLine(k, t)
    PROVE  Removed(k, t) = queues
<1>1. RemoveFirst(queues[k], t) = queues[k]
    BY RemoveFirstAbsent DEF InLine
<1> QED
    BY <1>1 DEF Removed, QueueTypeOK

LEMMA SleepersStep ==
    QueueTypeOK /\ SleepersHaveReason /\ [QueueNext]_queueVars => SleepersHaveReason'
<1> SUFFICES ASSUME QueueTypeOK, SleepersHaveReason, [QueueNext]_queueVars,
                    NEW k \in Keys, NEW t \in Tasks, waiter'[k][t] = "asleep"
             PROVE  InLine(k, t)' /\ ~IsHead(k, t)'
    BY DEF SleepersHaveReason
<1>0. waiter \in [Keys -> [Tasks -> WaiterStates]]
    BY DEF QueueTypeOK
<1>a. waiter[k][t] = "asleep" => InLine(k, t) /\ ~IsHead(k, t)
    BY DEF SleepersHaveReason
<1>b. queues' = queues => (InLine(k, t)' <=> InLine(k, t)) /\ (IsHead(k, t)' <=> IsHead(k, t))
    BY DEF InLine, IsHead
<1>1. ASSUME NEW u \in Tasks, NEW K \in SUBSET Keys, EnqueueMany(u, K)
      PROVE  InLine(k, t)' /\ ~IsHead(k, t)'
    <2>1. queues' = Appended(u, K) /\ waiter' = waiter
        BY <1>1 DEF EnqueueMany
    <2>2. InLine(k, t) /\ ~IsHead(k, t)
        BY <1>a, <2>1
    <2>3. InLine(k, t)'
        BY <2>1, <2>2, InLineAppended
    <2>4. PICK x \in Tasks : IsHead(k, x)
        <3>1. queues[k] \in Seq(Tasks) /\ Len(queues[k]) \in Nat
            BY LenProperties DEF QueueTypeOK
        <3>2. Len(queues[k]) > 0 /\ queues[k][1] \in Tasks
            BY <2>2, <3>1, ElementOfSeq DEF InLine
        <3> QED
            BY <3>2 DEF IsHead
    <2>5. IsHead(k, x)'
        BY <2>1, <2>4, HeadAppended
    <2> QED
        BY <2>2, <2>3, <2>4, <2>5 DEF IsHead
<1>2. ASSUME NEW u \in Tasks, NEW K \in SUBSET Keys, EnqueueRefused(u, K)
      PROVE  InLine(k, t)' /\ ~IsHead(k, t)'
    BY <1>2, <1>a, <1>b DEF EnqueueRefused, queueVars
<1>3. ASSUME NEW j \in Keys, NEW u \in Tasks, Release(j, u)
      PROVE  InLine(k, t)' /\ ~IsHead(k, t)'
    <2>1. ~InLine(j, u)
        BY <1>0, <1>3, NotifiedWakes DEF Release
    <2> QED
        BY <1>3, <1>a, <1>b, <2>1, RemovedAbsent DEF Release
<1>4. ASSUME NEW j \in Keys, NEW u \in Tasks,
             BeginWait(j, u) \/ TurnMissing(j, u) \/ TurnGranted(j, u) \/ PollTimeout(j, u)
                \/ EndWait(j, u)
      PROVE  InLine(k, t)' /\ ~IsHead(k, t)'
    <2>1. queues' = queues /\ \E s \in {"awake", "refused", "granted", "out"} :
                                  waiter' = [waiter EXCEPT ![j][u] = s]
        BY <1>4 DEF BeginWait, TurnMissing, TurnGranted, PollTimeout, EndWait
    <2>2. waiter[k][t] = "asleep"
        BY <1>0, <2>1
    <2> QED
        BY <1>a, <1>b, <2>1, <2>2
<1>5. ASSUME NEW j \in Keys, NEW u \in Tasks, TurnCancelled(j, u)
      PROVE  InLine(k, t)' /\ ~IsHead(k, t)'
    <2>1. Notified(waiter) \in [Keys -> [Tasks -> WaiterStates]]
        BY <1>0, NotifiedType
    <2>2. Notified(waiter)[k][t] # "asleep"
        BY <1>0, NotifiedWakes
    <2>3. waiter' = [Notified(waiter) EXCEPT ![j][u] = "refused"]
        BY <1>5 DEF TurnCancelled
    <2> QED
        BY <2>1, <2>2, <2>3
<1>6. ASSUME NEW j \in Keys, NEW u \in Tasks, TurnSleeps(j, u)
      PROVE  InLine(k, t)' /\ ~IsHead(k, t)'
    <2>1. CASE j = k /\ u = t
        BY <1>6, <1>b, <2>1 DEF TurnSleeps
    <2>2. CASE ~(j = k /\ u = t)
        BY <1>0, <1>6, <1>a, <1>b, <2>2 DEF TurnSleeps
    <2> QED
        BY <2>1, <2>2
<1>7. ASSUME Wake
      PROVE  InLine(k, t)' /\ ~IsHead(k, t)'
    BY <1>0, <1>7, NotifiedWakes DEF Wake
<1>8. ASSUME NEW u \in Tasks, SetCancelled(u)
      PROVE  InLine(k, t)' /\ ~IsHead(k, t)'
    BY <1>8, <1>a, <1>b DEF SetCancelled
<1>9. CASE UNCHANGED queueVars
    BY <1>9, <1>a, <1>b DEF queueVars
<1> QED
    BY <1>1, <1>2, <1>3, <1>4, <1>5, <1>6, <1>7, <1>8, <1>9 DEF QueueNext, Turn

(* No wake-up is lost: whoever sleeps is in his line, behind someone.      *)
THEOREM SleepersWaitForOthers == QueueSpec => []SleepersHaveReason
<1>1. QueueInit => SleepersHaveReason
    BY DEF QueueInit, SleepersHaveReason
<1> QED
    BY <1>1, SleepersStep, QueueTypeCorrect, PTL DEF QueueSpec
=============================================================================
