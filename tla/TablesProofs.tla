---------------------------- MODULE TablesProofs ----------------------------
(***************************************************************************)
(* What the parts of MCTables keep, for any values of their constants:     *)
(* what the answers to polls say is true, for any number of parts and of   *)
(* rows, although get_task_status takes no lock; and the lists, files and  *)
(* searches of the other tabs, each under its own prefix.                  *)
(***************************************************************************)
EXTENDS MCTables, SequenceTheorems, FiniteSetTheorems, WellFoundedInduction, TLAPS

(* The job: each thread, its entry and the lock, and the one that ends     *)
(* last.                                                                   *)
JobTypes ==
    /\ stage \in [Parts -> {"waiting", "working", "report", "sum", "push", "complete", "finish", "over"}]
    /\ rows \in [Parts -> Counts]
    /\ outcome \in [Parts -> {"running"} \cup Ended]
    /\ entry \in [Parts -> EntryType]
    /\ lock \in Parts \cup {0}
    /\ DOMAIN sum = Parts
    /\ done \in BOOLEAN /\ noted \in BOOLEAN /\ cancelled \in BOOLEAN

Numbers == [p \in Parts |-> entry[p].counted]

Recorded(p) == stage[p] \in {"sum", "push"} \/ Over(p)

ThreadOK(p) ==
    /\ lock = p <=> stage[p] \in {"sum", "push"}
    /\ stage[p] = "waiting" => entry[p].state = "queued" /\ outcome[p] = "running"
    /\ stage[p] = "working" => entry[p].state = "running" /\ outcome[p] = "running"
    /\ stage[p] = "report" => entry[p].state \notin Ended
    /\ Recorded(p) => entry[p] = [state |-> outcome[p], counted |-> rows[p]]
    /\ Over(p) => outcome[p] # "running"
    /\ stage[p] = "push" => sum[p] = SumOf(Numbers)
    /\ outcome[p] = "cancelled" => cancelled
    /\ outcome[p] = "done" => rows[p] = RowCount \/ cancelled

Closing(p) == stage[p] \in {"complete", "finish"}

LastOK ==
    /\ \A p \in Parts : Closing(p) => /\ \A q \in Parts : Over(q) /\ (Closing(q) => q = p)
                                      /\ progress = SumOf(rows)
                                      /\ ~done
    /\ \A p \in Parts : stage[p] = "finish" => summary = SumOf(rows)
    /\ done => /\ \A p \in Parts : stage[p] = "over"
               /\ progress = SumOf(rows)
               /\ summary = SumOf(rows)

JobInv ==
    /\ JobTypes
    /\ \A p \in Parts : ThreadOK(p)
    /\ LastOK

(* What is known of an answer when n reads have been made.                 *)
AnswerOK(a, n) ==
    /\ \A p \in Parts : a.gateways[p].state # "queued" => stage[p] # "waiting"
    /\ \A p \in Parts : a.gateways[p].state \in Ended =>
          /\ entry[p].state = a.gateways[p].state
          /\ n >= 2 * p => a.gateways[p] = entry[p]
    /\ a.done => done /\ n > 2 * PartCount
    /\ a.done /\ n >= 2 * PartCount + 2 => a.progress = SumOf(rows)
    /\ a.done /\ n >= 2 * PartCount + 3 => a.summary = SumOf(rows)
    /\ a.done /\ n >= 2 * PartCount + 4 => a.status = IF noted THEN "cancelled" ELSE "done"
    /\ a.cancelled => cancelled
    /\ n >= 2 * PartCount + 5 =>
          \A p \in Parts : a.gateways[p].state = "done" /\ a.gateways[p].counted < RowCount
                               => a.cancelled

(* An answer is a record of these fields. *)
Shape(a) ==
    /\ a = [gateways |-> a.gateways, done |-> a.done, progress |-> a.progress,
            summary |-> a.summary, status |-> a.status, cancelled |-> a.cancelled]
    /\ a.gateways \in [Parts -> EntryType]
    /\ a.done \in BOOLEAN /\ a.cancelled \in BOOLEAN

PollOK ==
    /\ poll = [open |-> poll.open, read |-> poll.read, answer |-> poll.answer]
    /\ poll.open \in BOOLEAN /\ poll.read \in 0..(2 * PartCount + 5)
    /\ Shape(poll.answer)
    /\ AnswerOK(poll.answer, poll.read)

ShownOK ==
    /\ Shape(shown)
    /\ AnswerOK(shown, 2 * PartCount + 5)
    /\ ~shown.done => shown.summary = NoSummary

PollInv == JobInv /\ PollOK /\ ShownOK

-----------------------------------------------------------------------------
(* The reads of get_task_status, one by one *)

LEMMA ReadsAre ==
    ASSUME ConstantsFit
    PROVE  /\ Len(Reads) = 2 * PartCount + 5
           /\ \A p \in Parts : Reads[2 * p - 1] = Read(p, "state") /\ Reads[2 * p] = Read(p, "counted")
           /\ Reads[2 * PartCount + 1] = Read(0, "done")
           /\ Reads[2 * PartCount + 2] = Read(0, "progress")
           /\ Reads[2 * PartCount + 3] = Read(0, "summary")
           /\ Reads[2 * PartCount + 4] = Read(0, "status")
           /\ Reads[2 * PartCount + 5] = Read(0, "cancelled")
<1> DEFINE first == PartReads("state", "counted")
           AnyRow == {Read(q, f) : q \in Nat, f \in {"state", "counted", "done", "progress",
                                                  "summary", "status", "cancelled"}}
<1>1. PartCount \in Nat \ {0}
    BY DEF ConstantsFit
<1>2. \A p \in Parts : /\ (2 * p - 1 + 1) \div 2 = p /\ (2 * p - 1) % 2 = 1
                       /\ (2 * p + 1) \div 2 = p /\ (2 * p) % 2 = 0
                       /\ 2 * p - 1 \in 1..(2 * PartCount) /\ 2 * p \in 1..(2 * PartCount)
    BY <1>1 DEF Parts
<1>3. /\ first \in Seq(AnyRow) /\ Len(first) = 2 * PartCount
      /\ \A p \in Parts : first[2 * p - 1] = Read(p, "state") /\ first[2 * p] = Read(p, "counted")
    <2>1. \A i \in 1..(2 * PartCount) : (i + 1) \div 2 \in Nat
        BY <1>1
    <2>2. first \in [1..(2 * PartCount) -> AnyRow]
        BY <2>1 DEF PartReads
    <2>3. Len(first) = 2 * PartCount
        BY <1>1 DEF PartReads
    <2>4. first \in Seq(AnyRow)
        BY <1>1, <2>2
    <2>5. ASSUME NEW p \in Parts
          PROVE  first[2 * p - 1] = Read(p, "state") /\ first[2 * p] = Read(p, "counted")
        <3>1. \A i \in 1..(2 * PartCount) :
                 first[i] = Read((i + 1) \div 2, IF i % 2 = 1 THEN "state" ELSE "counted")
            BY DEF PartReads
        <3>2. /\ first[2 * p - 1] = Read((2 * p - 1 + 1) \div 2, IF (2 * p - 1) % 2 = 1 THEN "state" ELSE "counted")
              /\ first[2 * p] = Read((2 * p + 1) \div 2, IF (2 * p) % 2 = 1 THEN "state" ELSE "counted")
            BY <1>2, <3>1
        <3> QED
            BY <1>2, <3>2
    <2> QED
        BY <2>3, <2>4, <2>5
<1>4. /\ TaskReads \in Seq(AnyRow) /\ Len(TaskReads) = 5
      /\ TaskReads[1] = Read(0, "done") /\ TaskReads[2] = Read(0, "progress")
      /\ TaskReads[3] = Read(0, "summary") /\ TaskReads[4] = Read(0, "status")
      /\ TaskReads[5] = Read(0, "cancelled")
    BY DEF TaskReads
<1>5. Reads = first \o TaskReads
    BY DEF Reads
<1> HIDE DEF first, AnyRow
<1>6. /\ Len(Reads) = 2 * PartCount + 5
      /\ \A i \in 1..(2 * PartCount + 5) :
            Reads[i] = IF i <= 2 * PartCount THEN first[i] ELSE TaskReads[i - 2 * PartCount]
    <2> DEFINE second == TaskReads
    <2>1. second \in Seq(AnyRow) /\ Len(second) = 5
        BY <1>4
    <2> HIDE DEF second
    <2>2. /\ Len(first \o second) = Len(first) + Len(second)
          /\ \A i \in 1..(Len(first) + Len(second)) :
                (first \o second)[i] = IF i <= Len(first) THEN first[i] ELSE second[i - Len(first)]
        BY <1>3, <2>1, ConcatProperties
    <2> QED
        BY <1>3, <1>5, <2>1, <2>2 DEF second
<1>7. \A p \in Parts : Reads[2 * p - 1] = first[2 * p - 1] /\ Reads[2 * p] = first[2 * p]
    <2>1. \A i \in 1..(2 * PartCount) : Reads[i] = first[i]
        <3> SUFFICES ASSUME NEW i \in 1..(2 * PartCount)
                     PROVE  Reads[i] = first[i]
            OBVIOUS
        <3>1. i \in 1..(2 * PartCount + 5) /\ i <= 2 * PartCount
            BY <1>1
        <3> QED
            BY <1>6, <3>1
    <2> QED
        BY <1>2, <2>1
<1>8. \A i \in 1..5 : Reads[2 * PartCount + i] = TaskReads[i]
    <2> SUFFICES ASSUME NEW i \in 1..5
                 PROVE  Reads[2 * PartCount + i] = TaskReads[i]
        OBVIOUS
    <2>1. /\ 2 * PartCount + i \in 1..(2 * PartCount + 5) /\ ~(2 * PartCount + i <= 2 * PartCount)
          /\ (2 * PartCount + i) - 2 * PartCount = i
        BY <1>1
    <2>2. Reads[2 * PartCount + i] = TaskReads[(2 * PartCount + i) - 2 * PartCount]
        BY <1>6, <2>1
    <2> QED
        BY <2>1, <2>2
<1> QED
    BY <1>3, <1>4, <1>6, <1>7, <1>8

(* What one read adds to the answer: position by position. *)
ReadsState(p) ==
    /\ poll.read + 1 = 2 * p - 1
    /\ poll'.answer = [poll.answer EXCEPT !.gateways[p].state = entry[p].state]
ReadsCounted(p) ==
    /\ poll.read + 1 = 2 * p
    /\ poll'.answer = [poll.answer EXCEPT !.gateways[p].counted = entry[p].counted]
ReadsOfTask ==
    \/ poll.read + 1 = 2 * PartCount + 1 /\ poll'.answer = [poll.answer EXCEPT !.done = done]
    \/ poll.read + 1 = 2 * PartCount + 2 /\ poll'.answer = [poll.answer EXCEPT !.progress = progress]
    \/ poll.read + 1 = 2 * PartCount + 3 /\ poll'.answer = [poll.answer EXCEPT !.summary = summary]
    \/ poll.read + 1 = 2 * PartCount + 4 /\ poll'.answer = [poll.answer EXCEPT !.status = Status]
    \/ poll.read + 1 = 2 * PartCount + 5 /\ poll'.answer = [poll.answer EXCEPT !.cancelled = cancelled]

LEMMA ReadStep ==
    ASSUME ConstantsFit, PollOK, ReadNext
    PROVE  /\ poll' = [open |-> poll.open, read |-> poll.read + 1, answer |-> poll'.answer]
           /\ poll.read < 2 * PartCount + 5
           /\ (\E p \in Parts : ReadsState(p) \/ ReadsCounted(p)) \/ ReadsOfTask
<1> DEFINE n == poll.read
           a == poll.answer
           r == Reads[n + 1]
           next == CASE r.of # 0 /\ r.field = "state"   -> [a EXCEPT !.gateways[r.of].state = entry[r.of].state]
                     [] r.of # 0 /\ r.field = "counted" -> [a EXCEPT !.gateways[r.of].counted = entry[r.of].counted]
                     [] r.field = "done"      -> [a EXCEPT !.done = done]
                     [] r.field = "progress"  -> [a EXCEPT !.progress = progress]
                     [] r.field = "summary"   -> [a EXCEPT !.summary = summary]
                     [] r.field = "status"    -> [a EXCEPT !.status = Status]
                     [] r.field = "cancelled" -> [a EXCEPT !.cancelled = cancelled]
<1>0. PartCount \in Nat \ {0} /\ n \in 0..(2 * PartCount + 4)
    BY ReadsAre DEF ConstantsFit, PollOK, ReadNext, Reading
<1>1. poll' = [open |-> poll.open, read |-> n + 1, answer |-> next]
    BY DEF ReadNext, PollOK
<1>2. poll'.answer = next
    BY <1>1
<1>3. \/ \E p \in Parts : n + 1 = 2 * p - 1 \/ n + 1 = 2 * p
      \/ \E i \in 1..5 : n + 1 = 2 * PartCount + i
    <2>1. CASE n + 1 > 2 * PartCount
        <3>1. n + 1 - 2 * PartCount \in 1..5 /\ n + 1 = 2 * PartCount + (n + 1 - 2 * PartCount)
            BY <1>0, <2>1
        <3> QED
            BY <3>1
    <2>2. CASE n + 1 <= 2 * PartCount
        <3>1. PICK p \in Nat : n + 1 = 2 * p - 1 \/ n + 1 = 2 * p
            <4>1. (n + 2) \div 2 \in Nat
                BY <1>0
            <4>2. n + 1 = 2 * ((n + 2) \div 2) - 1 \/ n + 1 = 2 * ((n + 2) \div 2)
                BY <1>0
            <4> QED
                BY <4>1, <4>2
        <3>2. p \in Parts
            BY <1>0, <2>2, <3>1 DEF Parts
        <3> QED
            BY <3>1, <3>2
    <2> QED
        BY <1>0, <2>1, <2>2
<1>4. ASSUME NEW p \in Parts, n + 1 = 2 * p - 1
      PROVE  ReadsState(p)
    <2>1. r = Reads[2 * p - 1] /\ Reads[2 * p - 1] = Read(p, "state")
        BY <1>4, ReadsAre
    <2>2. r.of = p /\ r.field = "state"
        BY <2>1 DEF Read
    <2>3. p # 0
        BY <1>0 DEF Parts
    <2> QED
        BY <1>2, <1>4, <2>2, <2>3 DEF ReadsState
<1>5. ASSUME NEW p \in Parts, n + 1 = 2 * p
      PROVE  ReadsCounted(p)
    <2>1. r = Reads[2 * p] /\ Reads[2 * p] = Read(p, "counted")
        BY <1>5, ReadsAre
    <2>2. r.of = p /\ r.field = "counted"
        BY <2>1 DEF Read
    <2>3. p # 0
        BY <1>0 DEF Parts
    <2> QED
        BY <1>2, <1>5, <2>2, <2>3 DEF ReadsCounted
<1>6. ASSUME NEW i \in 1..5, n + 1 = 2 * PartCount + i
      PROVE  ReadsOfTask
    <2>1. /\ r.of = 0
          /\ r.field = CASE i = 1 -> "done" [] i = 2 -> "progress" [] i = 3 -> "summary"
                         [] i = 4 -> "status" [] i = 5 -> "cancelled"
        BY <1>6, ReadsAre DEF Read
    <2> QED
        BY <1>2, <1>6, <2>1 DEF ReadsOfTask
<1>7. poll' = [open |-> poll.open, read |-> n + 1, answer |-> poll'.answer]
    BY <1>1, <1>2
<1>8. n < 2 * PartCount + 5
    BY <1>0
<1> HIDE DEF next, r, a
<1> QED
    BY <1>3, <1>4, <1>5, <1>6, <1>7, <1>8

-----------------------------------------------------------------------------
(* What the threads and cancels do *)

(* A step of the job or a cancel keeps what an answer may rely on.         *)
Kept ==
    /\ \A p \in Parts : entry[p].state \in Ended => entry'[p] = entry[p]
    /\ \A p \in Parts : stage[p] # "waiting" => stage'[p] # "waiting"
    /\ done => done' /\ UNCHANGED <<rows, progress, summary, noted>>
    /\ cancelled => cancelled'

LEMMA KeptAnswers ==
    ASSUME Kept, PollOK, UNCHANGED poll
    PROVE  PollOK'
<1>1. AnswerOK(poll.answer, poll.read) /\ UNCHANGED poll
    BY DEF PollOK
<1>2. AnswerOK(poll.answer, poll.read)'
    BY <1>1 DEF AnswerOK, Kept
<1> QED
    BY <1>2 DEF PollOK, Shape

LEMMA KeptShown ==
    ASSUME Kept, ShownOK, UNCHANGED shown
    PROVE  ShownOK'
<1>1. AnswerOK(shown, 2 * PartCount + 5)'
    BY DEF ShownOK, AnswerOK, Kept
<1> QED
    BY <1>1 DEF ShownOK, Shape

-----------------------------------------------------------------------------
(* What the event loop does *)

LEMMA ReadNextKeepsPoll ==
    ASSUME ConstantsFit, JobInv, PollOK, ReadNext
    PROVE  PollOK'
<1> DEFINE n == poll.read
           a == poll.answer
           b == poll'.answer
<1>0. PartCount \in Nat \ {0} /\ n \in 0..(2 * PartCount + 4) /\ Parts \subseteq 1..PartCount
    BY ReadStep DEF ConstantsFit, PollOK, Parts
<1>1. /\ poll' = [open |-> poll.open, read |-> n + 1, answer |-> b]
      /\ (\E p \in Parts : ReadsState(p) \/ ReadsCounted(p)) \/ ReadsOfTask
      /\ UNCHANGED <<jobVars, cancelled, shown>>
    BY ReadStep DEF ReadNext
<1>2. UNCHANGED <<stage, rows, outcome, entry, progress, summary, noted, done, cancelled>>
    BY <1>1 DEF jobVars
<1>3. AnswerOK(a, n) /\ Shape(a)
    BY DEF PollOK
<1>4. poll'.read = n + 1 /\ poll'.open = poll.open /\ poll'.read \in 0..(2 * PartCount + 5)
    BY <1>0, <1>1
<1>5. ASSUME NEW p \in Parts, ReadsState(p)
      PROVE  Shape(b) /\ AnswerOK(b, n + 1)
    <2>1. /\ n + 1 = 2 * p - 1
          /\ b = [a EXCEPT !.gateways[p].state = entry[p].state]
        BY <1>5 DEF ReadsState
    <2>2. entry[p] \in EntryType /\ a.gateways[p] \in EntryType
        BY <1>3 DEF JobInv, JobTypes, Shape
    <2>3. /\ b = [gateways |-> b.gateways, done |-> a.done, progress |-> a.progress,
                  summary |-> a.summary, status |-> a.status, cancelled |-> a.cancelled]
          /\ b.gateways = [a.gateways EXCEPT ![p].state = entry[p].state]
        BY <1>3, <2>1 DEF Shape
    <2>4. /\ b.gateways \in [Parts -> EntryType]
          /\ b.gateways[p].state = entry[p].state
          /\ \A q \in Parts \ {p} : b.gateways[q] = a.gateways[q]
        BY <1>3, <2>2, <2>3 DEF Shape, EntryType
    <2>5. Shape(b)
        BY <1>3, <2>3, <2>4 DEF Shape
    <2>6. entry[p].state # "queued" => stage[p] # "waiting"
        BY DEF JobInv, ThreadOK
    <2>7. \A q \in Parts : b.gateways[q].state # "queued" => stage[q] # "waiting"
        BY <1>3, <2>4, <2>6 DEF AnswerOK
    <2>8. \A q \in Parts : b.gateways[q].state \in Ended =>
             /\ entry[q].state = b.gateways[q].state
             /\ n + 1 >= 2 * q => b.gateways[q] = entry[q]
        <3> SUFFICES ASSUME NEW q \in Parts, b.gateways[q].state \in Ended
                     PROVE  /\ entry[q].state = b.gateways[q].state
                            /\ n + 1 >= 2 * q => b.gateways[q] = entry[q]
            OBVIOUS
        <3>1. CASE q = p
            BY <1>0, <2>1, <2>4, <3>1
        <3>2. CASE q # p
            <4>1. n + 1 >= 2 * q => n >= 2 * q
                BY <1>0, <2>1, <3>2
            <4> QED
                BY <1>3, <2>4, <3>2, <4>1 DEF AnswerOK
        <3> QED
            BY <3>1, <3>2
    <2>9. ~a.done /\ n + 1 <= 2 * PartCount
        BY <1>0, <1>3, <2>1 DEF AnswerOK
    <2>10. b.done = a.done /\ b.cancelled = a.cancelled
        BY <2>3
    <2> QED
        BY <1>0, <1>3, <2>5, <2>7, <2>8, <2>9, <2>10 DEF AnswerOK
<1>6. ASSUME NEW p \in Parts, ReadsCounted(p)
      PROVE  Shape(b) /\ AnswerOK(b, n + 1)
    <2>1. /\ n + 1 = 2 * p
          /\ b = [a EXCEPT !.gateways[p].counted = entry[p].counted]
        BY <1>6 DEF ReadsCounted
    <2>2. entry[p] \in EntryType /\ a.gateways[p] \in EntryType
        BY <1>3 DEF JobInv, JobTypes, Shape
    <2>3. /\ b = [gateways |-> b.gateways, done |-> a.done, progress |-> a.progress,
                  summary |-> a.summary, status |-> a.status, cancelled |-> a.cancelled]
          /\ b.gateways = [a.gateways EXCEPT ![p].counted = entry[p].counted]
        BY <1>3, <2>1 DEF Shape
    <2>4. /\ b.gateways \in [Parts -> EntryType]
          /\ b.gateways[p] = [state |-> a.gateways[p].state, counted |-> entry[p].counted]
          /\ \A q \in Parts \ {p} : b.gateways[q] = a.gateways[q]
        BY <1>3, <2>2, <2>3 DEF Shape, EntryType
    <2>5. Shape(b)
        BY <1>3, <2>3, <2>4 DEF Shape
    <2>6. b.gateways[p].state = a.gateways[p].state
        BY <2>4
    <2>7. \A q \in Parts : b.gateways[q].state # "queued" => stage[q] # "waiting"
        BY <1>3, <2>4, <2>6 DEF AnswerOK
    <2>8. \A q \in Parts : b.gateways[q].state \in Ended =>
             /\ entry[q].state = b.gateways[q].state
             /\ n + 1 >= 2 * q => b.gateways[q] = entry[q]
        <3> SUFFICES ASSUME NEW q \in Parts, b.gateways[q].state \in Ended
                     PROVE  /\ entry[q].state = b.gateways[q].state
                            /\ n + 1 >= 2 * q => b.gateways[q] = entry[q]
            OBVIOUS
        <3>1. CASE q = p
            <4>1. entry[p].state = a.gateways[p].state
                BY <1>3, <2>6, <3>1 DEF AnswerOK
            <4> QED
                BY <2>2, <2>4, <3>1, <4>1 DEF EntryType
        <3>2. CASE q # p
            <4>1. n + 1 >= 2 * q => n >= 2 * q
                BY <1>0, <2>1, <3>2
            <4> QED
                BY <1>3, <2>4, <3>2, <4>1 DEF AnswerOK
        <3> QED
            BY <3>1, <3>2
    <2>9. ~a.done /\ n + 1 <= 2 * PartCount
        BY <1>0, <1>3, <2>1 DEF AnswerOK
    <2>10. b.done = a.done /\ b.cancelled = a.cancelled
        BY <2>3
    <2> QED
        BY <1>0, <1>3, <2>5, <2>7, <2>8, <2>9, <2>10 DEF AnswerOK
<1>7. ASSUME ReadsOfTask
      PROVE  Shape(b) /\ AnswerOK(b, n + 1)
    <2>1. done \in BOOLEAN /\ cancelled \in BOOLEAN /\ (done => progress = SumOf(rows) /\ summary = SumOf(rows))
        BY DEF JobInv, JobTypes, LastOK
    <2>2. /\ Shape(b) /\ b.gateways = a.gateways
          /\ \/ /\ n + 1 = 2 * PartCount + 1 /\ b.done = done
                /\ b.cancelled = a.cancelled
             \/ /\ n + 1 = 2 * PartCount + 2 /\ b.progress = progress
                /\ b.done = a.done /\ b.cancelled = a.cancelled
             \/ /\ n + 1 = 2 * PartCount + 3 /\ b.summary = summary
                /\ b.done = a.done /\ b.progress = a.progress /\ b.cancelled = a.cancelled
             \/ /\ n + 1 = 2 * PartCount + 4 /\ b.status = Status
                /\ b.done = a.done /\ b.progress = a.progress /\ b.summary = a.summary
                /\ b.cancelled = a.cancelled
             \/ /\ n + 1 = 2 * PartCount + 5 /\ b.cancelled = cancelled
                /\ b.done = a.done /\ b.progress = a.progress /\ b.summary = a.summary
                /\ b.status = a.status
        BY <1>3, <1>7, <2>1 DEF ReadsOfTask, Shape
    <2>3. /\ n >= 2 * PartCount /\ \A p \in Parts : n >= 2 * p /\ n + 1 >= 2 * p
        BY <1>0, <2>2
    <2>4. \A p \in Parts : /\ b.gateways[p].state # "queued" => stage[p] # "waiting"
                           /\ b.gateways[p].state \in Ended => b.gateways[p] = entry[p]
        BY <1>3, <2>2, <2>3 DEF AnswerOK
    <2>5. b.done => done
        BY <1>3, <2>2 DEF AnswerOK
    <2>6. b.cancelled => cancelled
        BY <1>3, <2>2 DEF AnswerOK
    <2>7. done => Status = IF noted THEN "cancelled" ELSE "done"
        BY DEF Status, JobInv, JobTypes
    <2>8. /\ b.done /\ n + 1 >= 2 * PartCount + 2 => b.progress = SumOf(rows)
          /\ b.done /\ n + 1 >= 2 * PartCount + 3 => b.summary = SumOf(rows)
          /\ b.done /\ n + 1 >= 2 * PartCount + 4 => b.status = IF noted THEN "cancelled" ELSE "done"
        BY <1>0, <1>3, <2>1, <2>2, <2>7 DEF AnswerOK
    <2>9. ASSUME n + 1 >= 2 * PartCount + 5, NEW p \in Parts,
                 b.gateways[p].state = "done", b.gateways[p].counted < RowCount
          PROVE  b.cancelled
        <3>1. b.cancelled = cancelled
            BY <1>0, <2>2, <2>9
        <3>2. entry[p].state = "done" /\ entry[p].counted < RowCount
            BY <2>4, <2>9 DEF Ended
        <3>3. Recorded(p)
            BY <3>2 DEF JobInv, JobTypes, ThreadOK, Recorded, Over, Ended
        <3>r. entry[p] = [state |-> outcome[p], counted |-> rows[p]]
            BY <3>3 DEF JobInv, ThreadOK
        <3>4. outcome[p] = "done" /\ rows[p] < RowCount
            BY <3>2, <3>r
        <3>5. rows[p] # RowCount
            BY <3>4 DEF JobInv, JobTypes, Counts, ConstantsFit
        <3> QED
            BY <3>1, <3>4, <3>5 DEF JobInv, ThreadOK
    <2>10. b.done => n + 1 > 2 * PartCount
        BY <1>0, <2>3
    <2> QED
        BY <2>2, <2>3, <2>4, <2>5, <2>6, <2>8, <2>9, <2>10 DEF AnswerOK
<1>8. Shape(b) /\ AnswerOK(b, n + 1)
    BY <1>1, <1>5, <1>6, <1>7
<1>9. AnswerOK(poll.answer, poll.read)'
    BY <1>2, <1>4, <1>8 DEF AnswerOK, Status
<1>10. Shape(poll.answer)'
    BY <1>8 DEF Shape
<1> QED
    BY <1>1, <1>4, <1>9, <1>10 DEF PollOK

(* An answer of which nothing has been read says nothing. *)
LEMMA NothingRead ==
    ASSUME ConstantsFit
    PROVE  /\ Shape(NoAnswer)
           /\ \A n \in Nat : AnswerOK(NoAnswer, n)
<1>1. /\ \A p \in Parts : NoAnswer.gateways[p] = NewEntry
      /\ NewEntry.state = "queued" /\ NewEntry.counted = 0
      /\ ~NoAnswer.done /\ ~NoAnswer.cancelled
    BY DEF NoAnswer, NewEntry
<1>2. NewEntry \in EntryType
    BY DEF NewEntry, EntryType, Counts, ConstantsFit
<1>3. Shape(NoAnswer)
    BY <1>2 DEF Shape, NoAnswer
<1> QED
    BY <1>1, <1>3 DEF AnswerOK, Ended

LEMMA BeginPollKeepsPoll ==
    ASSUME ConstantsFit, BeginPoll
    PROVE  PollOK'
<1>1. poll' = [open |-> TRUE, read |-> 0, answer |-> NoAnswer]
    BY DEF BeginPoll
<1>2. Shape(NoAnswer)' /\ AnswerOK(NoAnswer, 0)'
    BY NothingRead DEF Shape, NoAnswer, NewEntry, AnswerOK, Ended, EntryType, Counts, ConstantsFit
<1>3. 0 \in 0..(2 * PartCount + 5)
    BY DEF ConstantsFit
<1> QED
    BY <1>1, <1>2, <1>3 DEF PollOK, Shape, AnswerOK

LEMMA ApplyKeepsPoll ==
    ASSUME ConstantsFit, PollOK, ApplyTaskStatus
    PROVE  PollOK' /\ ShownOK'
<1>1. /\ poll' = [open |-> FALSE, read |-> 0, answer |-> NoAnswer]
      /\ shown' = [poll.answer EXCEPT !.summary = IF poll.answer.done THEN @ ELSE NoSummary]
      /\ UNCHANGED <<stage, rows, outcome, entry, progress, summary, noted, done, cancelled>>
    BY DEF ApplyTaskStatus, NoPoll, jobVars
<1>2. poll.read = 2 * PartCount + 5
    BY ReadsAre DEF ApplyTaskStatus, Reading, PollOK, ConstantsFit
<1>3. Shape(poll.answer) /\ AnswerOK(poll.answer, 2 * PartCount + 5)
    BY <1>2 DEF PollOK
<1>4. Shape(NoAnswer)' /\ AnswerOK(NoAnswer, 0)'
    BY NothingRead DEF Shape, NoAnswer, NewEntry, AnswerOK, Ended, EntryType, Counts, ConstantsFit
<1>5. 0 \in 0..(2 * PartCount + 5)
    BY DEF ConstantsFit
<1>6. PollOK'
    BY <1>1, <1>4, <1>5 DEF PollOK, Shape, AnswerOK
<1>7. /\ shown' = [gateways |-> poll.answer.gateways, done |-> poll.answer.done,
                   progress |-> poll.answer.progress,
                   summary |-> IF poll.answer.done THEN poll.answer.summary ELSE NoSummary,
                   status |-> poll.answer.status, cancelled |-> poll.answer.cancelled]
    BY <1>1, <1>3 DEF Shape
<1>8. Shape(shown)' /\ (~shown'.done => shown'.summary = NoSummary)
    BY <1>3, <1>7 DEF Shape
<1>9. AnswerOK(shown, 2 * PartCount + 5)'
    BY <1>1, <1>3, <1>7 DEF AnswerOK
<1> QED
    BY <1>6, <1>8, <1>9 DEF ShownOK

-----------------------------------------------------------------------------
(* What the threads keep *)

(* A step of p's thread, or a cancel, leaves the other threads alone.      *)
Apart(p) ==
    \A q \in Parts \ {p} : /\ stage'[q] = stage[q] /\ rows'[q] = rows[q] /\ outcome'[q] = outcome[q]
                           /\ entry'[q] = entry[q] /\ sum'[q] = sum[q]

(* Entries, rows and the lock as they are outside a part's own writing. *)
LEMMA OthersKept ==
    ASSUME JobInv, NEW p \in Parts, Apart(p), cancelled => cancelled',
           \/ UNCHANGED lock
           \/ lock \in {0, p} /\ lock' \in {0, p},
           lock = 0 \/ Numbers' = Numbers
    PROVE  \A q \in Parts \ {p} : ThreadOK(q)'
<1> SUFFICES ASSUME NEW q \in Parts \ {p}
             PROVE  ThreadOK(q)'
    OBVIOUS
<1>1. ThreadOK(q)
    BY DEF JobInv
<1>2. /\ stage'[q] = stage[q] /\ rows'[q] = rows[q] /\ outcome'[q] = outcome[q]
      /\ entry'[q] = entry[q] /\ sum'[q] = sum[q]
    BY DEF Apart
<1>3. lock' = q <=> lock = q
    BY DEF Parts
<1>4. stage[q] = "push" => Numbers' = Numbers
    BY <1>1 DEF ThreadOK, Parts
<1> QED
    BY <1>1, <1>2, <1>3, <1>4 DEF ThreadOK, Recorded, Over

(* While a thread is not over, the task is not done and nobody closes it.  *)
LEMMA StillRunning ==
    ASSUME JobInv, NEW p \in Parts, ~Over(p)
    PROVE  ~done /\ \A q \in Parts : ~Closing(q)
BY DEF JobInv, LastOK, Over, Closing

LEMMA StaysRunning ==
    ASSUME JobInv, NEW p \in Parts, ~Over(p), ~Over(p)', Apart(p), UNCHANGED done
    PROVE  LastOK'
<1>1. ~done' /\ \A q \in Parts : ~Closing(q)
    BY StillRunning
<1>2. \A q \in Parts : ~Closing(q)'
    BY <1>1 DEF Apart, Closing, Over
<1> QED
    BY <1>1, <1>2 DEF LastOK, Closing

LEMMA ThreadKeepsJob ==
    ASSUME ConstantsFit, JobInv, NEW p \in Parts, Thread(p)
    PROVE  JobInv' /\ Kept
<1> DEFINE Goal == JobInv' /\ Kept
<1>1. /\ stage \in [Parts -> {"waiting", "working", "report", "sum", "push", "complete", "finish", "over"}]
      /\ rows \in [Parts -> Counts]
      /\ outcome \in [Parts -> {"running"} \cup Ended]
      /\ entry \in [Parts -> EntryType]
      /\ lock \in Parts \cup {0} /\ 0 \notin Parts
      /\ DOMAIN sum = Parts
      /\ done \in BOOLEAN /\ noted \in BOOLEAN /\ cancelled \in BOOLEAN
      /\ ThreadOK(p)
    BY DEF JobInv, JobTypes, Parts
<1>2. RowCount \in Nat \ {0}
    BY DEF ConstantsFit
<1>3. CASE MarkRunning(p)
    <2>1. /\ stage[p] = "waiting" /\ lock = 0
          /\ stage' = [stage EXCEPT ![p] = "working"]
          /\ entry' = [entry EXCEPT ![p].state = "running"]
          /\ UNCHANGED <<rows, outcome, lock, sum, progress, summary, noted, done, cancelled>>
        BY <1>3 DEF MarkRunning
    <2>2. /\ entry'[p].state = "running" /\ entry' \in [Parts -> EntryType]
          /\ entry[p].state = "queued" /\ outcome[p] = "running"
        BY <1>1, <2>1 DEF EntryType, ThreadOK
    <2>3. JobTypes'
        BY <1>1, <2>1, <2>2 DEF JobTypes
    <2>4. Apart(p)
        BY <1>1, <2>1 DEF Apart
    <2>5. ThreadOK(p)'
        BY <1>1, <2>1, <2>2 DEF ThreadOK, Recorded, Over, Ended
    <2>6. \A q \in Parts \ {p} : ThreadOK(q)'
        BY <2>1, <2>4, OthersKept
    <2>7. ~Over(p) /\ ~Over(p)'
        BY <1>1, <2>1 DEF Over
    <2>8. LastOK'
        BY <2>1, <2>4, <2>7, StaysRunning
    <2>9. Kept
        BY <1>1, <2>1, <2>2, <2>4, <2>7, StillRunning DEF Kept, Apart, Ended
    <2> QED
        BY <2>3, <2>5, <2>6, <2>8, <2>9 DEF JobInv
<1>4. CASE CancelledInLine(p) \/ WorkerReturns(p) \/ WorkerRaises(p) \/ WorkRow(p)
    <2>1. /\ stage[p] \in {"waiting", "working"} /\ outcome[p] = "running"
          /\ stage' = [stage EXCEPT ![p] = "report"]
          /\ UNCHANGED <<entry, lock, sum, progress, summary, noted, done, cancelled>>
        BY <1>1, <1>4 DEF CancelledInLine, WorkerReturns, WorkerRaises, WorkRow, Ends, ThreadOK
    <2>2. /\ rows' \in [Parts -> Counts] /\ \A q \in Parts \ {p} : rows'[q] = rows[q]
        BY <1>1, <1>2, <1>4 DEF CancelledInLine, WorkerReturns, WorkerRaises, WorkRow, Counts
    <2>3. /\ outcome' \in [Parts -> {"running"} \cup Ended]
          /\ \A q \in Parts \ {p} : outcome'[q] = outcome[q]
          /\ outcome'[p] = "cancelled" => cancelled
          /\ outcome'[p] = "done" => rows'[p] = RowCount \/ cancelled
        BY <1>1, <1>4, <2>1 DEF CancelledInLine, WorkerReturns, WorkerRaises, WorkRow, Ends, Ended
    <2>4. JobTypes'
        BY <1>1, <2>1, <2>2, <2>3 DEF JobTypes
    <2>5. Apart(p)
        BY <1>1, <2>1, <2>2, <2>3 DEF Apart
    <2>6. entry[p].state \notin Ended
        BY <1>1, <2>1 DEF ThreadOK, Ended
    <2>7. ThreadOK(p)'
        BY <1>1, <2>1, <2>3, <2>6 DEF ThreadOK, Recorded, Over
    <2>8. \A q \in Parts \ {p} : ThreadOK(q)'
        BY <2>1, <2>5, OthersKept DEF Numbers
    <2>9. ~Over(p) /\ ~Over(p)'
        BY <1>1, <2>1 DEF Over
    <2>10. LastOK'
        BY <2>1, <2>5, <2>9, StaysRunning
    <2>11. Kept
        BY <1>1, <2>1, <2>5, <2>9, StillRunning DEF Kept, Apart
    <2> QED
        BY <2>4, <2>7, <2>8, <2>10, <2>11 DEF JobInv
<1>5. CASE WriteEntry(p)
    <2>1. /\ stage[p] = "report" /\ lock = 0 /\ lock' = p
          /\ entry' = [entry EXCEPT ![p] = [state |-> outcome[p], counted |-> rows[p]]]
          /\ stage' = [stage EXCEPT ![p] = "sum"]
          /\ UNCHANGED <<rows, outcome, sum, progress, summary, noted, done, cancelled>>
        BY <1>5 DEF WriteEntry
    <2>2. /\ [state |-> outcome[p], counted |-> rows[p]] \in EntryType
          /\ entry[p].state \notin Ended
        BY <1>1, <2>1 DEF EntryType, ThreadOK
    <2>3. JobTypes'
        BY <1>1, <2>1, <2>2 DEF JobTypes
    <2>4. Apart(p)
        BY <1>1, <2>1 DEF Apart
    <2>5. ThreadOK(p)'
        BY <1>1, <2>1, <2>2 DEF ThreadOK, Recorded, Over
    <2>6. \A q \in Parts \ {p} : ThreadOK(q)'
        BY <2>1, <2>4, OthersKept
    <2>7. ~Over(p) /\ ~Over(p)'
        BY <1>1, <2>1 DEF Over
    <2>8. LastOK'
        BY <2>1, <2>4, <2>7, StaysRunning
    <2>9. Kept
        BY <1>1, <2>1, <2>2, <2>4, <2>7, StillRunning DEF Kept, Apart
    <2> QED
        BY <2>3, <2>5, <2>6, <2>8, <2>9 DEF JobInv
<1>6. CASE SumParts(p)
    <2>1. /\ stage[p] = "sum"
          /\ sum' = [sum EXCEPT ![p] = SumOf(Numbers)]
          /\ stage' = [stage EXCEPT ![p] = "push"]
          /\ UNCHANGED <<rows, outcome, entry, lock, progress, summary, noted, done, cancelled>>
        BY <1>6 DEF SumParts, Numbers
    <2>2. Numbers' = Numbers
        BY <2>1 DEF Numbers
    <2>3. JobTypes'
        BY <1>1, <2>1 DEF JobTypes
    <2>4. Apart(p)
        BY <1>1, <2>1 DEF Apart
    <2>5. ThreadOK(p)'
        BY <1>1, <2>1, <2>2 DEF ThreadOK, Recorded, Over
    <2>6. \A q \in Parts \ {p} : ThreadOK(q)'
        BY <2>1, <2>2, <2>4, OthersKept
    <2>7. ~Over(p) /\ ~Over(p)'
        BY <1>1, <2>1 DEF Over
    <2>8. LastOK'
        BY <2>1, <2>4, <2>7, StaysRunning
    <2>9. Kept
        BY <1>1, <2>1, <2>4, <2>7, StillRunning DEF Kept, Apart
    <2> QED
        BY <2>3, <2>5, <2>6, <2>8, <2>9 DEF JobInv
<1>7. CASE PushProgress(p)
    <2>1. /\ stage[p] = "push" /\ lock = p /\ lock' = 0
          /\ progress' = sum[p] /\ sum' = [sum EXCEPT ![p] = 0]
          /\ UNCHANGED <<rows, outcome, entry, summary, noted, done, cancelled>>
        BY <1>1, <1>7 DEF PushProgress, ThreadOK
    <2> DEFINE next == CASE outcome[p] = "running" -> "working"
                         [] outcome[p] # "running" /\ IsLast(p) -> "complete"
                         [] OTHER -> "over"
    <2>2. stage' = [stage EXCEPT ![p] = next]
        BY <1>7 DEF PushProgress
    <2>3. /\ next \in {"working", "complete", "over"}
          /\ outcome[p] = "running" <=> next = "working"
          /\ next = "complete" => IsLast(p)
        OBVIOUS
    <2> HIDE DEF next
    <2>4. JobTypes'
        BY <1>1, <2>1, <2>2, <2>3 DEF JobTypes
    <2>5. Apart(p) /\ stage'[p] = next
        BY <1>1, <2>1, <2>2 DEF Apart
    <2>6. entry[p] = [state |-> outcome[p], counted |-> rows[p]] /\ sum[p] = SumOf(Numbers)
        BY <1>1, <2>1 DEF ThreadOK, Recorded
    <2>7. ThreadOK(p)'
        BY <1>1, <2>1, <2>3, <2>5, <2>6 DEF ThreadOK, Recorded, Over
    <2>8. \A q \in Parts \ {p} : ThreadOK(q)'
        BY <2>1, <2>5, OthersKept DEF Numbers
    <2>9. ~Over(p) /\ ~done /\ \A q \in Parts : ~Closing(q)
        BY <1>1, <2>1, StillRunning DEF Over
    <2>10. ASSUME next = "complete"
           PROVE  progress' = SumOf(rows) /\ \A q \in Parts : Over(q)'
        <3>1. \A q \in Parts \ {p} : Over(q)
            BY <2>3, <2>10 DEF IsLast
        <3>r. \A q \in Parts : entry[q] = [state |-> outcome[q], counted |-> rows[q]]
            BY <2>6, <3>1 DEF JobInv, ThreadOK, Recorded
        <3>2. ASSUME NEW q \in Parts
              PROVE  entry[q].counted = rows[q]
            <4>1. entry[q] = [state |-> outcome[q], counted |-> rows[q]]
                BY <3>r
            <4> QED
                BY <4>1
        <3>3. Numbers = rows
            BY <1>1, <3>2 DEF Numbers
        <3>4. \A q \in Parts : Over(q)'
            BY <2>5, <2>10, <3>1 DEF Over, Apart
        <3> QED
            BY <2>1, <2>6, <3>3, <3>4
    <2>11. LastOK'
        BY <2>1, <2>3, <2>5, <2>9, <2>10 DEF LastOK, Closing, Apart
    <2>12. Kept
        BY <1>1, <2>1, <2>3, <2>5, <2>9 DEF Kept, Apart
    <2> QED
        BY <2>4, <2>7, <2>8, <2>11, <2>12 DEF JobInv
<1>8. CASE PushSummary(p)
    <2>1. /\ stage[p] = "complete"
          /\ summary' = SumOf(rows) /\ noted' = cancelled
          /\ stage' = [stage EXCEPT ![p] = "finish"]
          /\ UNCHANGED <<rows, outcome, entry, lock, sum, progress, done, cancelled>>
        BY <1>8 DEF PushSummary
    <2>2. JobTypes'
        BY <1>1, <2>1 DEF JobTypes
    <2>3. Apart(p) /\ stage'[p] = "finish"
        BY <1>1, <2>1 DEF Apart
    <2>4. ThreadOK(p)'
        BY <1>1, <2>1, <2>3 DEF ThreadOK, Recorded, Over
    <2>5. \A q \in Parts \ {p} : ThreadOK(q)'
        BY <2>1, <2>3, OthersKept DEF Numbers
    <2>6. /\ ~done /\ progress = SumOf(rows)
          /\ \A q \in Parts : Over(q) /\ (Closing(q) => q = p)
        BY <2>1 DEF JobInv, LastOK, Closing
    <2>7. LastOK'
        BY <2>1, <2>3, <2>6 DEF LastOK, Closing, Over, Apart
    <2>8. Kept
        BY <1>1, <2>1, <2>3, <2>6 DEF Kept, Apart
    <2> QED
        BY <2>2, <2>4, <2>5, <2>7, <2>8 DEF JobInv
<1>9. CASE SetDone(p)
    <2>1. /\ stage[p] = "finish" /\ done' = TRUE
          /\ stage' = [stage EXCEPT ![p] = "over"]
          /\ UNCHANGED <<rows, outcome, entry, lock, sum, progress, summary, noted, cancelled>>
        BY <1>9 DEF SetDone
    <2>2. JobTypes'
        BY <1>1, <2>1 DEF JobTypes
    <2>3. Apart(p) /\ stage'[p] = "over"
        BY <1>1, <2>1 DEF Apart
    <2>4. ThreadOK(p)'
        BY <1>1, <2>1, <2>3 DEF ThreadOK, Recorded, Over
    <2>5. \A q \in Parts \ {p} : ThreadOK(q)'
        BY <2>1, <2>3, OthersKept DEF Numbers
    <2>6. /\ ~done /\ progress = SumOf(rows) /\ summary = SumOf(rows)
          /\ \A q \in Parts : Over(q) /\ (Closing(q) => q = p)
        BY <2>1 DEF JobInv, LastOK, Closing
    <2>7. \A q \in Parts : stage'[q] = "over"
        BY <2>3, <2>6 DEF Closing, Over, Apart
    <2>8. LastOK'
        BY <2>1, <2>6, <2>7 DEF LastOK, Closing
    <2>9. Kept
        BY <1>1, <2>1, <2>3, <2>6 DEF Kept, Apart
    <2> QED
        BY <2>2, <2>4, <2>5, <2>8, <2>9 DEF JobInv
<1> QED
    BY <1>3, <1>4, <1>5, <1>6, <1>7, <1>8, <1>9 DEF Thread

-----------------------------------------------------------------------------

LEMMA PollInvInit == ConstantsFit /\ Init => PollInv
<1> SUFFICES ASSUME ConstantsFit, Init
             PROVE  PollInv
    OBVIOUS
<1>1. /\ stage = [p \in Parts |-> "waiting"] /\ rows = [p \in Parts |-> 0]
      /\ outcome = [p \in Parts |-> "running"] /\ entry = [p \in Parts |-> NewEntry]
      /\ lock = 0 /\ sum = [p \in Parts |-> 0]
      /\ ~done /\ ~noted /\ ~cancelled /\ done = FALSE /\ noted = FALSE /\ cancelled = FALSE
      /\ poll = [open |-> FALSE, read |-> 0, answer |-> NoAnswer] /\ shown = NoAnswer
    BY DEF Init, NoPoll
<1>2. /\ PartCount \in Nat \ {0} /\ RowCount \in Nat \ {0} /\ 0 \notin Parts
      /\ NewEntry \in EntryType /\ NewEntry.state = "queued"
    BY DEF ConstantsFit, Parts, NewEntry, EntryType, Counts
<1>3. JobTypes
    <2>1. 0 \in Counts
        BY <1>2 DEF Counts
    <2>2. /\ stage \in [Parts -> {"waiting", "working", "report", "sum", "push", "complete", "finish", "over"}]
          /\ rows \in [Parts -> Counts]
          /\ outcome \in [Parts -> {"running"} \cup Ended]
        BY <1>1, <2>1
    <2>3. entry \in [Parts -> EntryType] /\ DOMAIN sum = Parts
        BY <1>1, <1>2
    <2> QED
        BY <1>1, <2>2, <2>3 DEF JobTypes
<1>4. \A p \in Parts : ThreadOK(p)
    BY <1>1, <1>2 DEF ThreadOK, Recorded, Over, Ended
<1>5. LastOK
    BY <1>1 DEF LastOK, Closing
<1>6. PollOK
    BY <1>1, <1>2, NothingRead DEF PollOK
<1>7. ShownOK
    <2>1. 2 * PartCount + 5 \in Nat
        BY <1>2
    <2>2. Shape(shown) /\ AnswerOK(shown, 2 * PartCount + 5)
        BY <1>1, <2>1, NothingRead
    <2>3. shown.summary = NoSummary
        BY <1>1 DEF NoAnswer
    <2> QED
        BY <2>2, <2>3 DEF ShownOK
<1> QED
    BY <1>3, <1>4, <1>5, <1>6, <1>7 DEF PollInv, JobInv

LEMMA PollInvStep == ConstantsFit /\ PollInv /\ [Next]_vars => PollInv'
<1> SUFFICES ASSUME ConstantsFit, PollInv, [Next]_vars
             PROVE  PollInv'
    OBVIOUS
<1>1. JobInv /\ PollOK /\ ShownOK
    BY DEF PollInv
<1>2. ASSUME UNCHANGED jobVars, UNCHANGED cancelled
      PROVE  JobInv'
    BY <1>1, <1>2 DEF jobVars, JobInv, JobTypes, ThreadOK, Recorded, Over, LastOK, Closing, Numbers
<1>3. ASSUME UNCHANGED jobVars, UNCHANGED cancelled
      PROVE  Kept
    BY <1>3 DEF jobVars, Kept
<1>4. ASSUME NEW p \in Parts, Thread(p)
      PROVE  PollInv'
    <2>1. UNCHANGED <<poll, shown>>
        BY <1>4 DEF Thread, MarkRunning, CancelledInLine, WorkRow, WorkerReturns, WorkerRaises,
                    WriteEntry, SumParts, PushProgress, PushSummary, SetDone
    <2>2. JobInv' /\ Kept
        BY <1>1, <1>4, ThreadKeepsJob
    <2> QED
        BY <1>1, <2>1, <2>2, KeptAnswers, KeptShown DEF PollInv
<1>5. CASE CancelTask
    <2>1. /\ ~done /\ cancelled' = TRUE
          /\ UNCHANGED <<stage, rows, outcome, entry, lock, sum, progress, summary, noted, done, poll, shown>>
        BY <1>5 DEF CancelTask, jobVars
    <2>2. JobInv'
        BY <1>1, <2>1 DEF JobInv, JobTypes, ThreadOK, Recorded, Over, LastOK, Closing, Numbers
    <2>3. Kept
        BY <2>1 DEF Kept
    <2> QED
        BY <1>1, <2>1, <2>2, <2>3, KeptAnswers, KeptShown DEF PollInv
<1>6. CASE BeginPoll
    <2>1. UNCHANGED <<jobVars, cancelled, shown>>
        BY <1>6 DEF BeginPoll
    <2> QED
        BY <1>1, <1>2, <1>3, <1>6, <2>1, BeginPollKeepsPoll, KeptShown DEF PollInv
<1>7. CASE ReadNext
    <2>1. UNCHANGED <<jobVars, cancelled, shown>>
        BY <1>7 DEF ReadNext
    <2> QED
        BY <1>1, <1>2, <1>3, <1>7, <2>1, ReadNextKeepsPoll, KeptShown DEF PollInv
<1>8. CASE ApplyTaskStatus
    <2>1. UNCHANGED <<jobVars, cancelled>>
        BY <1>8 DEF ApplyTaskStatus
    <2> QED
        BY <1>1, <1>2, <1>8, <2>1, ApplyKeepsPoll DEF PollInv
<1>9. CASE UNCHANGED vars
    <2>1. UNCHANGED <<jobVars, cancelled, poll, shown>>
        BY <1>9 DEF vars
    <2> QED
        BY <1>1, <1>2, <1>3, <2>1, KeptAnswers, KeptShown DEF PollInv
<1> QED
    BY <1>4, <1>5, <1>6, <1>7, <1>8, <1>9 DEF Next

LEMMA PollInvTellsTheTruth == ConstantsFit /\ PollInv => AnswersAreTrue
<1> SUFFICES ASSUME ConstantsFit, PollInv
             PROVE  AnswersAreTrue
    OBVIOUS
<1>1. /\ JobInv /\ AnswerOK(shown, 2 * PartCount + 5) /\ Shape(shown)
      /\ ~shown.done => shown.summary = NoSummary
      /\ PartCount \in Nat \ {0} /\ RowCount \in Nat \ {0}
    BY DEF PollInv, ShownOK, ConstantsFit
<1>2. FinalAnswerIsFinal
    BY <1>1 DEF FinalAnswerIsFinal, AnswerOK
<1>3. EndedRowsAreFinal
    BY <1>1 DEF EndedRowsAreFinal, AnswerOK, Parts
<1>4. PillIsTrue
    <2> SUFFICES ASSUME NEW p \in Parts
                 PROVE  LET g == shown.gateways[p]
                        IN  /\ stateText(g) = "finished" => rows[p] = RowCount /\ outcome[p] = "done"
                            /\ stateText(g) = "cancelled" => cancelled
                            /\ (stateClass(g) = "ok") = (stateText(g) = "finished")
        BY DEF PillIsTrue
    <2> DEFINE g == shown.gateways[p]
    <2>1. g \in EntryType /\ g.state \in {"queued", "running", "done", "cancelled", "failed"}
          /\ g.counted \in 0..RowCount
        BY <1>1 DEF Shape, EntryType, Ended, Counts
    <2>2. g.state \in Ended => entry[p] = g
        BY <1>3 DEF EndedRowsAreFinal
    <2>3. g.state \in Ended => outcome[p] = g.state /\ rows[p] = g.counted
        <3>1. ASSUME g.state \in Ended
              PROVE  outcome[p] = g.state /\ rows[p] = g.counted
            <4>1. Recorded(p)
                BY <1>1, <2>2, <3>1 DEF JobInv, JobTypes, ThreadOK, Recorded, Over, Ended
            <4>2. entry[p] = [state |-> outcome[p], counted |-> rows[p]]
                BY <1>1, <4>1 DEF JobInv, ThreadOK
            <4> QED
                BY <2>2, <3>1, <4>2
        <3> QED
            BY <3>1
    <2>4. g.state = "done" /\ g.counted < RowCount => shown.cancelled
        BY <1>1 DEF AnswerOK
    <2>5. shown.cancelled => cancelled
        BY <1>1 DEF AnswerOK
    <2>6. g.state = "cancelled" => cancelled
        BY <1>1, <2>3 DEF JobInv, ThreadOK, Ended
    <2> HIDE DEF g
    <2>7. stateText(g) = IF g.state # "done" THEN g.state
                         ELSE IF shown.cancelled /\ g.counted < RowCount THEN "cancelled" ELSE "finished"
        BY DEF stateText
    <2>8. stateText(g) = "finished" => g.state = "done" /\ g.counted = RowCount
        BY <1>1, <2>1, <2>4, <2>7
    <2>9. stateText(g) = "finished" => rows[p] = RowCount /\ outcome[p] = "done"
        BY <2>3, <2>8 DEF Ended
    <2>10. stateText(g) = "cancelled" => cancelled
        BY <2>5, <2>6, <2>7
    <2>11. (stateClass(g) = "ok") = (stateText(g) = "finished")
        BY <2>1, <2>7 DEF stateClass
    <2> QED
        BY <2>9, <2>10, <2>11 DEF g
<1>5. QueuedBannerIsTrue
    <2>1. queuedNow => shown.summary = NoSummary
        BY <1>1 DEF queuedNow
    <2>2. ASSUME ~queuedNow, NEW p \in Parts
          PROVE  stage[p] # "waiting"
        <3>1. CASE shown.done
            BY <1>1, <3>1 DEF AnswerOK, JobInv, LastOK
        <3>2. CASE shown.gateways[p].state # "queued"
            BY <1>1, <3>2 DEF AnswerOK
        <3> QED
            BY <1>1, <2>2, <3>1, <3>2 DEF queuedNow
    <2> QED
        BY <2>1, <2>2 DEF QueuedBannerIsTrue
<1> QED
    BY <1>2, <1>3, <1>4, <1>5 DEF AnswersAreTrue

-----------------------------------------------------------------------------
(* What a sum is *)

LEMMA LeastPosition ==
    ASSUME NEW I, I \subseteq Nat, I # {}
    PROVE  \E i \in I : \A j \in I : i <= j
<1>1. PICK i \in I : \A j \in I : ~(<<j, i>> \in OpToRel(<, Nat))
    BY NatLessThanWellFounded, WFMin, Zenon
<1>2. \A j \in I : ~(j < i)
    BY <1>1 DEF OpToRel
<1>3. \A j \in I : i <= j
    BY <1>2
<1> QED
    BY <1>3

(* A sum is taken a member at a time. *)
Pick(s) == CHOOSE x \in s : TRUE
Sums(h, f, D) == h = [s \in D |-> IF s = {} THEN 0 ELSE f[Pick(s)] + h[s \ {Pick(s)}]]

LEMMA SumsExist ==
    ASSUME NEW S, IsFiniteSet(S), NEW f
    PROVE  \E h : Sums(h, f, SUBSET S)
<1> DEFINE D(n) == {s \in SUBSET S : Cardinality(s) <= n}
           Bad == {n \in Nat : ~\E h : Sums(h, f, D(n))}
<1>1. \A s \in SUBSET S : IsFiniteSet(s) /\ Cardinality(s) \in Nat
    BY FS_Subset, FS_CardinalityType
<1>2. \E h : Sums(h, f, D(0))
    <2>1. \A s \in D(0) : s = {}
        BY <1>1, FS_EmptySet
    <2>2. Sums([s \in D(0) |-> 0], f, D(0))
        BY <2>1 DEF Sums
    <2> QED
        BY <2>2
<1>3. ASSUME NEW n \in Nat, \E h : Sums(h, f, D(n))
      PROVE  \E h : Sums(h, f, D(n + 1))
    <2>1. PICK g : Sums(g, f, D(n))
        BY <1>3
    <2> DEFINE h == [s \in D(n + 1) |-> IF s = {} THEN 0 ELSE f[Pick(s)] + g[s \ {Pick(s)}]]
    <2>2. D(n) \subseteq D(n + 1)
        BY <1>1
    <2>3. ASSUME NEW s \in D(n) PROVE h[s] = g[s]
        BY <2>1, <2>2 DEF Sums
    <2>4. ASSUME NEW s \in D(n + 1), s # {} PROVE s \ {Pick(s)} \in D(n)
        <3>1. Pick(s) \in s
            BY <2>4 DEF Pick
        <3>2. IsFiniteSet(s) /\ Cardinality(s) \in Nat /\ Cardinality(s) <= n + 1
            BY <1>1
        <3> HIDE DEF h
        <3>3. Cardinality(s \ {Pick(s)}) = Cardinality(s) - 1
            BY <3>1, <3>2, FS_RemoveElement
        <3> QED
            BY <3>2, <3>3
    <2>5. \A s \in D(n + 1) : h[s] = IF s = {} THEN 0 ELSE f[Pick(s)] + h[s \ {Pick(s)}]
        BY <2>3, <2>4
    <2>6. Sums(h, f, D(n + 1))
        BY <2>5 DEF Sums
    <2> QED
        BY <2>6
<1> HIDE DEF D
<1>4. Bad = {}
    <2> SUFFICES ASSUME Bad # {} PROVE FALSE
        OBVIOUS
    <2>1. PICK m \in Bad : \A j \in Bad : m <= j
        BY LeastPosition
    <2>2. m # 0
        BY <1>2
    <2>3. m - 1 \in Nat /\ m - 1 \notin Bad /\ (m - 1) + 1 = m
        BY <2>1, <2>2
    <2>4. \E h : Sums(h, f, D(m))
        BY <1>3, <2>3
    <2> QED
        BY <2>1, <2>4
<1>5. D(Cardinality(S)) = SUBSET S
    <2>1. \A s \in SUBSET S : Cardinality(s) <= Cardinality(S)
        BY FS_Subset
    <2> QED
        BY <2>1 DEF D
<1>6. Cardinality(S) \in Nat
    BY FS_CardinalityType
<1> QED
    BY <1>4, <1>5, <1>6

LEMMA SumIs ==
    ASSUME NEW f, IsFiniteSet(Parts)
    PROVE  \E h : Sums(h, f, SUBSET Parts) /\ SumOf(f) = h[Parts]
<1> DEFINE h == CHOOSE h : Sums(h, f, SUBSET Parts)
<1>1. Sums(h, f, SUBSET Parts)
    BY SumsExist
<1>2. SumOf(f) = h[Parts]
    BY DEF SumOf, MapThenSumSet, MapThenFoldSet, Sums, Pick
<1> QED
    BY <1>1, <1>2

(* What holds of no members, and of a set when it does without the member  *)
(* picked, holds of every subset.                                          *)
LEMMA MemberByMember ==
    ASSUME NEW S, IsFiniteSet(S), NEW Good, {} \in Good,
           \A s \in SUBSET S : s # {} /\ s \ {Pick(s)} \in Good => s \in Good
    PROVE  SUBSET S \subseteq Good
<1> DEFINE Bad == {n \in Nat : \E s \in SUBSET S : Cardinality(s) = n /\ s \notin Good}
<1>1. \A s \in SUBSET S : IsFiniteSet(s) /\ Cardinality(s) \in Nat
    BY FS_Subset, FS_CardinalityType
<1>2. Bad = {}
    <2> SUFFICES ASSUME Bad # {} PROVE FALSE
        OBVIOUS
    <2>1. PICK m \in Bad : \A j \in Bad : m <= j
        BY LeastPosition
    <2>2. PICK s \in SUBSET S : Cardinality(s) = m /\ s \notin Good
        BY <2>1
    <2>3. s # {} /\ Pick(s) \in s /\ s \ {Pick(s)} \in SUBSET S
        <3>1. s # {}
            BY <2>2
        <3>2. Pick(s) \in s
            BY <3>1 DEF Pick
        <3> QED
            BY <3>1, <3>2
    <2>4. s \ {Pick(s)} \notin Good
        BY <2>2, <2>3
    <2>5. Cardinality(s \ {Pick(s)}) = m - 1
        BY <1>1, <2>2, <2>3, FS_RemoveElement
    <2>6. Cardinality(s \ {Pick(s)}) \in Nat
        BY <1>1, <2>3
    <2>7. m - 1 \in Bad
        BY <2>3, <2>4, <2>5, <2>6
    <2> QED
        BY <2>1, <2>5, <2>6, <2>7
<1> QED
    BY <1>1, <1>2

LEMMA SumRises ==
    ASSUME IsFiniteSet(Parts), NEW f, NEW g,
           \A p \in Parts : f[p] \in Nat /\ g[p] \in Nat /\ f[p] <= g[p]
    PROVE  SumOf(f) \in Nat /\ SumOf(g) \in Nat /\ SumOf(f) <= SumOf(g)
<1>1. PICK h : Sums(h, f, SUBSET Parts) /\ SumOf(f) = h[Parts]
    BY SumIs
<1>2. PICK k : Sums(k, g, SUBSET Parts) /\ SumOf(g) = k[Parts]
    BY SumIs
<1> DEFINE Good == {s \in SUBSET Parts : h[s] \in Nat /\ k[s] \in Nat /\ h[s] <= k[s]}
<1>3. h[{}] = 0 /\ k[{}] = 0
    BY <1>1, <1>2 DEF Sums
<1>4. ASSUME NEW s \in SUBSET Parts, s # {}, s \ {Pick(s)} \in Good
      PROVE  s \in Good
    <2>1. h[s] = f[Pick(s)] + h[s \ {Pick(s)}]
        BY <1>1, <1>4 DEF Sums
    <2>2. k[s] = g[Pick(s)] + k[s \ {Pick(s)}]
        BY <1>2, <1>4 DEF Sums
    <2>3. Pick(s) \in Parts
        BY <1>4 DEF Pick
    <2> QED
        BY <1>4, <2>1, <2>2, <2>3
<1>5. {} \in Good
    BY <1>3
<1> HIDE DEF Good
<1>6. SUBSET Parts \subseteq Good
    BY <1>4, <1>5, MemberByMember
<1>7. Parts \in Good
    BY <1>6
<1> QED
    BY <1>1, <1>2, <1>7 DEF Good

-----------------------------------------------------------------------------
(* The progress of the task, of the answer and of the panel *)

(* Each is at most what the entries count, in the order in which one is     *)
(* taken from the other; an answer that has read it is no older than what   *)
(* is shown.                                                                *)
RisingOK ==
    /\ \A p \in Parts : entry[p].counted <= rows[p]
    /\ progress \in Nat /\ progress <= SumOf(Numbers)
    /\ poll.answer.progress \in Nat /\ poll.answer.progress <= progress
    /\ shown.progress \in Nat /\ shown.progress <= progress
    /\ poll.open /\ poll.read >= 2 * PartCount + 2 => shown.progress <= poll.answer.progress

LEMMA NumbersAdd ==
    ASSUME ConstantsFit, JobTypes, JobTypes', \A p \in Parts : entry[p].counted <= entry'[p].counted
    PROVE  SumOf(Numbers) \in Nat /\ SumOf(Numbers)' \in Nat /\ SumOf(Numbers) <= SumOf(Numbers)'
<1>1. IsFiniteSet(Parts)
    BY FS_Interval DEF ConstantsFit, Parts
<1>2. ASSUME NEW p \in Parts
      PROVE  /\ Numbers[p] \in Nat /\ Numbers'[p] \in Nat /\ Numbers[p] <= Numbers'[p]
    <2>1. entry[p] \in EntryType /\ entry'[p] \in EntryType
        BY DEF JobTypes
    <2>2. entry[p].counted \in Nat /\ entry'[p].counted \in Nat
        BY <2>1 DEF EntryType, Counts
    <2>3. Numbers[p] = entry[p].counted /\ Numbers'[p] = entry'[p].counted
        BY DEF Numbers
    <2> QED
        BY <2>2, <2>3
<1> DEFINE before == Numbers
           after == Numbers'
<1> HIDE DEF before, after
<1>3. SumOf(before) \in Nat /\ SumOf(after) \in Nat /\ SumOf(before) <= SumOf(after)
    BY <1>1, <1>2, SumRises DEF before, after
<1>4. SumOf(Numbers)' = SumOf(after)
    BY DEF after
<1> QED
    BY <1>3, <1>4 DEF before

LEMMA RisingInit == ConstantsFit /\ Init => RisingOK
<1> SUFFICES ASSUME ConstantsFit, Init PROVE RisingOK
    OBVIOUS
<1>1. IsFiniteSet(Parts)
    BY FS_Interval DEF ConstantsFit, Parts
<1>2. \A p \in Parts : entry[p].counted = 0 /\ rows[p] = 0 /\ Numbers[p] = 0
    BY DEF Init, NewEntry, Numbers
<1> DEFINE n == Numbers
<1> HIDE DEF n
<1>3. SumOf(n) \in Nat
    BY <1>1, <1>2, SumRises DEF n
<1>4. progress = 0 /\ poll.answer.progress = 0 /\ shown.progress = 0 /\ ~poll.open
    BY DEF Init, NoPoll, NoAnswer
<1> QED
    BY <1>2, <1>3, <1>4 DEF RisingOK, n

LEMMA ThreadRises ==
    ASSUME ConstantsFit, PollInv, PollInv', RisingOK, NEW p \in Parts, Thread(p)
    PROVE  RisingOK'
<1>0. /\ JobTypes /\ JobTypes' /\ ThreadOK(p) /\ UNCHANGED <<poll, shown>>
      /\ (\A q \in Parts : entry[q].counted <= rows[q])
      /\ progress \in Nat /\ progress <= SumOf(Numbers)
      /\ poll.answer.progress \in Nat /\ poll.answer.progress <= progress
      /\ shown.progress \in Nat /\ shown.progress <= progress
    BY DEF PollInv, JobInv, RisingOK, Thread, MarkRunning, CancelledInLine, WorkRow, WorkerReturns,
           WorkerRaises, WriteEntry, SumParts, PushProgress, PushSummary, SetDone
<1>1. \A q \in Parts : /\ entry[q] \in EntryType /\ entry'[q] \in EntryType
                       /\ rows[q] \in Nat /\ rows[q] <= RowCount /\ rows'[q] \in Nat
                       /\ entry[q].counted \in Nat
    BY <1>0 DEF JobTypes, EntryType, Counts
<1>2. DOMAIN entry = Parts /\ DOMAIN rows = Parts
    BY <1>0 DEF JobTypes
<1>3. \A q \in Parts : entry[q].counted <= entry'[q].counted /\ entry'[q].counted <= rows'[q]
    <2>1. CASE MarkRunning(p)
        <3>1. \A q \in Parts : entry'[q].counted = entry[q].counted /\ rows'[q] = rows[q]
            BY <2>1, <1>1, <1>2 DEF MarkRunning, EntryType
        <3> QED
            BY <3>1, <1>0, <1>1
    <2>2. CASE WriteEntry(p)
        <3>1. \A q \in Parts : entry'[q].counted = IF q = p THEN rows[q] ELSE entry[q].counted
            BY <2>2, <1>2 DEF WriteEntry
        <3>2. rows' = rows
            BY <2>2 DEF WriteEntry
        <3> QED
            BY <3>1, <3>2, <1>0, <1>1
    <2>3. CASE WorkRow(p) \/ WorkerRaises(p)
        <3>1. entry' = entry
            BY <2>3 DEF WorkRow, WorkerRaises
        <3>2. \A q \in Parts : rows[q] <= rows'[q]
            <4>1. RowCount \in Nat
                BY DEF ConstantsFit
            <4>2. \A q \in Parts : rows'[q] = rows[q] \/ rows'[q] = rows[q] + 1 \/ rows'[q] = RowCount
                BY <2>3, <1>2 DEF WorkRow, WorkerRaises
            <4> QED
                BY <4>1, <4>2, <1>1
        <3> QED
            BY <3>1, <3>2, <1>0, <1>1
    <2>4. CASE entry' = entry /\ rows' = rows
        BY <2>4, <1>0, <1>1
    <2> QED
        BY <2>1, <2>2, <2>3, <2>4 DEF Thread, CancelledInLine, WorkerReturns, SumParts, PushProgress,
                                      PushSummary, SetDone
<1>4. SumOf(Numbers) \in Nat /\ SumOf(Numbers)' \in Nat /\ SumOf(Numbers) <= SumOf(Numbers)'
    BY <1>0, <1>3, NumbersAdd
<1>5. progress' \in Nat /\ progress <= progress' /\ progress' <= SumOf(Numbers)'
    <2>1. CASE PushProgress(p)
        <3>1. progress' = SumOf(Numbers)
            BY <2>1, <1>0 DEF PushProgress, ThreadOK
        <3> QED
            BY <3>1, <1>0, <1>4
    <2>2. CASE progress' = progress
        BY <2>2, <1>0, <1>4
    <2> QED
        BY <2>1, <2>2 DEF Thread, MarkRunning, CancelledInLine, WorkRow, WorkerReturns, WorkerRaises,
                          WriteEntry, SumParts, PushSummary, SetDone
<1>6. poll' = poll /\ shown' = shown
    BY <1>0
<1>7. poll.open /\ poll.read >= 2 * PartCount + 2 => shown.progress <= poll.answer.progress
    BY DEF RisingOK
<1> QED
    BY <1>0, <1>3, <1>5, <1>6, <1>7 DEF RisingOK

(* Nothing but the answer and the panel changes in the steps of the event  *)
(* loop, and what is shown is the answer read to its end.                  *)
LEMMA LoopRises ==
    ASSUME ConstantsFit, PollInv, RisingOK, CancelTask \/ BeginPoll \/ ReadNext \/ ApplyTaskStatus
    PROVE  RisingOK' /\ ProgressMovesOn
<1>0. PartCount \in Nat /\ poll.read \in 0..(2 * PartCount + 5)
    BY DEF ConstantsFit, PollInv, PollOK
<1>1. entry' = entry /\ rows' = rows /\ progress' = progress
    BY DEF CancelTask, BeginPoll, ReadNext, ApplyTaskStatus, jobVars
<1>2. SumOf(Numbers)' = SumOf(Numbers)
    <2>1. Numbers' = Numbers
        BY <1>1 DEF Numbers
    <2> QED
        BY <2>1
<1>3. /\ (\A p \in Parts : entry[p].counted <= rows[p])
      /\ progress \in Nat /\ progress <= SumOf(Numbers)
      /\ poll.answer.progress \in Nat /\ poll.answer.progress <= progress
      /\ shown.progress \in Nat /\ shown.progress <= progress
      /\ (poll.open /\ poll.read >= 2 * PartCount + 2 => shown.progress <= poll.answer.progress)
    BY DEF RisingOK
<1>4. CASE CancelTask
    <2>1. poll' = poll /\ shown' = shown
        BY <1>4 DEF CancelTask
    <2> QED
        BY <2>1, <1>1, <1>2, <1>3 DEF RisingOK, ProgressMovesOn
<1>5. CASE BeginPoll
    <2>1. poll'.read = 0 /\ poll'.answer.progress = 0 /\ shown' = shown
        BY <1>5 DEF BeginPoll, NoAnswer
    <2> QED
        BY <2>1, <1>0, <1>1, <1>2, <1>3 DEF RisingOK, ProgressMovesOn
<1>6. CASE ReadNext
    <2>1. /\ poll'.read = poll.read + 1 /\ poll'.open = poll.open /\ shown' = shown
          /\ (\E p \in Parts : ReadsState(p) \/ ReadsCounted(p)) \/ ReadsOfTask
        <3>1. /\ poll' = [open |-> poll.open, read |-> poll.read + 1, answer |-> poll'.answer]
              /\ (\E p \in Parts : ReadsState(p) \/ ReadsCounted(p)) \/ ReadsOfTask
            BY <1>6, ReadStep DEF PollInv
        <3> QED
            BY <1>6, <3>1 DEF ReadNext
    <2>2. \/ poll.read + 1 # 2 * PartCount + 2 /\ poll'.answer.progress = poll.answer.progress
          \/ poll.read + 1 = 2 * PartCount + 2 /\ poll'.answer.progress = progress
        <3>1. Shape(poll.answer)
            BY DEF PollInv, PollOK
        <3>2. ASSUME NEW p \in Parts, ReadsState(p) \/ ReadsCounted(p)
              PROVE  poll.read + 1 # 2 * PartCount + 2 /\ poll'.answer.progress = poll.answer.progress
            <4>1. poll.read + 1 = 2 * p - 1 \/ poll.read + 1 = 2 * p
                BY <3>2 DEF ReadsState, ReadsCounted
            <4>2. poll.read + 1 # 2 * PartCount + 2
                BY <4>1, <1>0 DEF Parts
            <4>3. poll'.answer.progress = poll.answer.progress
                BY <3>1, <3>2 DEF Shape, ReadsState, ReadsCounted
            <4> QED
                BY <4>2, <4>3
        <3>3. CASE ReadsOfTask
            <4>1. poll.read + 1 = 2 * PartCount + 2 /\ poll'.answer = [poll.answer EXCEPT !.progress = progress]
                    => poll'.answer.progress = progress
                BY <3>1 DEF Shape
            <4> DEFINE s == Status
            <4> HIDE DEF s
            <4>2. ASSUME \/ poll'.answer = [poll.answer EXCEPT !.done = done]
                         \/ poll'.answer = [poll.answer EXCEPT !.summary = summary]
                         \/ poll'.answer = [poll.answer EXCEPT !.status = s]
                         \/ poll'.answer = [poll.answer EXCEPT !.cancelled = cancelled]
                  PROVE  poll'.answer.progress = poll.answer.progress
                BY <3>1, <4>2 DEF Shape
            <4>3. ReadsOfTask <=>
                    \/ poll.read + 1 = 2 * PartCount + 1 /\ poll'.answer = [poll.answer EXCEPT !.done = done]
                    \/ poll.read + 1 = 2 * PartCount + 2 /\ poll'.answer = [poll.answer EXCEPT !.progress = progress]
                    \/ poll.read + 1 = 2 * PartCount + 3 /\ poll'.answer = [poll.answer EXCEPT !.summary = summary]
                    \/ poll.read + 1 = 2 * PartCount + 4 /\ poll'.answer = [poll.answer EXCEPT !.status = s]
                    \/ poll.read + 1 = 2 * PartCount + 5 /\ poll'.answer = [poll.answer EXCEPT !.cancelled = cancelled]
                BY DEF ReadsOfTask, s
            <4> QED
                BY <3>3, <4>1, <4>2, <4>3, <1>0
        <3> QED
            BY <2>1, <3>2, <3>3
    <2>3. poll'.answer.progress \in Nat /\ poll'.answer.progress <= progress
        BY <2>2, <1>3
    <2>4. poll'.open /\ poll'.read >= 2 * PartCount + 2 => shown.progress <= poll'.answer.progress
        BY <2>1, <2>2, <1>0, <1>3
    <2> QED
        BY <2>1, <2>3, <2>4, <1>1, <1>2, <1>3 DEF RisingOK, ProgressMovesOn
<1>7. CASE ApplyTaskStatus
    <2>1. poll.open /\ poll.read >= 2 * PartCount + 2
        BY <1>7, <1>0, ReadsAre DEF ApplyTaskStatus, Reading
    <2>2. shown'.progress = poll.answer.progress
        <3>1. Shape(poll.answer)
            BY DEF PollInv, PollOK
        <3> QED
            BY <1>7, <3>1 DEF ApplyTaskStatus, Shape
    <2>3. ~poll'.open /\ poll'.answer.progress = 0
        BY <1>7 DEF ApplyTaskStatus, NoPoll, NoAnswer
    <2> QED
        BY <2>1, <2>2, <2>3, <1>1, <1>2, <1>3 DEF RisingOK, ProgressMovesOn
<1> QED
    BY <1>4, <1>5, <1>6, <1>7

LEMMA RisingStep ==
    ASSUME ConstantsFit, PollInv, PollInv', RisingOK, [Next]_vars
    PROVE  RisingOK' /\ (ProgressMovesOn \/ UNCHANGED vars)
<1>1. CASE UNCHANGED vars
    <2>1. /\ entry' = entry /\ rows' = rows /\ progress' = progress /\ poll' = poll /\ shown' = shown
        BY <1>1 DEF vars, jobVars
    <2>2. Numbers' = Numbers
        BY <2>1 DEF Numbers
    <2>3. SumOf(Numbers)' = SumOf(Numbers)
        BY <2>2
    <2> QED
        BY <2>1, <2>3, <1>1 DEF RisingOK
<1>2. ASSUME NEW p \in Parts, Thread(p)
      PROVE  RisingOK' /\ ProgressMovesOn
    <2>1. shown' = shown /\ shown.progress \in Nat
        BY <1>2 DEF RisingOK, Thread, MarkRunning, CancelledInLine, WorkRow, WorkerReturns,
             WorkerRaises, WriteEntry, SumParts, PushProgress, PushSummary, SetDone
    <2> QED
        BY <1>2, <2>1, ThreadRises DEF ProgressMovesOn
<1>3. CASE CancelTask \/ BeginPoll \/ ReadNext \/ ApplyTaskStatus
    BY <1>3, LoopRises
<1> QED
    BY <1>1, <1>2, <1>3 DEF Next

-----------------------------------------------------------------------------
(* BrowserLists *)

(* A change of l was served and is not answered yet; a load of l is out and *)
(* is the newest word about it.                                             *)
Pending(l) == \E s \in Slots : listsReq[s].kind = "change" /\ listsReq[s].list = l /\ listsReq[s].served
Fresh(s, l) == listsReq[s].kind = "load" /\ listsReq[s].list = l /\ ~listsReq[s].late

(* What a load brings is current, or a change is still to be answered.      *)
AnswersAreCurrent ==
    \A l \in Lists!Kept : Lists!Shown(l) /\ ~Pending(l) =>
        \A s \in Slots : Fresh(s, l) /\ listsReq[s].served => listsReq[s].version = version[l]

(* What is shown is current, or a load or a change is still to be answered. *)
NewsIsOut ==
    \A l \in Lists!Kept \ listsDoubt : Lists!Shown(l) /\ Lists!Filled(l) /\ ~Pending(l) =>
        list[l].version = version[l] \/ \E s \in Slots : Fresh(s, l)

ListsInv ==
    Lists!TypeOK /\ (~listsToken => panel = Lists!Closed) /\ Lists!TimerOnlyWhileOpen /\ Lists!RowsFitTheirTab
    /\ AnswersAreCurrent /\ NewsIsOut

RequestType == [kind : {"none", "load", "change"}, list : Lists!Lists \cup {NoTable},
                auth : BOOLEAN, served : BOOLEAN, version : 0..MaxChanges, late : BOOLEAN]

LEMMA RequestTypes ==
    ASSUME Lists!ConstantsFit
    PROVE  /\ Lists!NoReq \in RequestType /\ Lists!NoReq.kind = "none"
           /\ Lists!TypeOK => listsReq \in [Slots -> RequestType]
           /\ Lists!Nothing \in [of : Lists!Lists \cup {NoTable}, version : 0..MaxChanges]
           /\ Lists!EmptyLists \in [Lists!Kept -> [of : Lists!Lists \cup {NoTable}, version : 0..MaxChanges]]
           /\ Lists!Closed \in [open : BOOLEAN, timers : 0..1]
           /\ 0 \in 0..MaxChanges
           /\ "users" \in Lists!Kept /\ "routes" \in Lists!Kept /\ Lists!Kept \subseteq Lists!Lists /\ Lists!Passing \subseteq Lists!Lists
<1>1. 0 \in 0..MaxChanges /\ 0 \in 0..1
  BY DEF Lists!ConstantsFit
<1>2. Lists!Nothing \in [of : Lists!Lists \cup {NoTable}, version : 0..MaxChanges]
  BY <1>1 DEF Lists!Nothing
<1>3. Lists!NoReq \in RequestType /\ Lists!NoReq.kind = "none"
  BY <1>1 DEF Lists!NoReq, RequestType
<1>4. Lists!EmptyLists \in [Lists!Kept -> [of : Lists!Lists \cup {NoTable}, version : 0..MaxChanges]]
  BY <1>2 DEF Lists!EmptyLists
<1>5. Lists!Closed \in [open : BOOLEAN, timers : 0..1]
  BY <1>1 DEF Lists!Closed
<1> QED
  BY <1>1, <1>2, <1>3, <1>4, <1>5 DEF Lists!TypeOK, RequestType, Lists!Lists, Lists!Kept

LEMMA ListsInit == Lists!ConstantsFit /\ Lists!Init => ListsInv
<1> SUFFICES ASSUME Lists!ConstantsFit, Lists!Init PROVE ListsInv
  OBVIOUS
<1>1. Lists!TypeOK
  <2>1. version \in [Lists!Kept -> 0..MaxChanges] /\ listsEpoch \in 0..MaxEpoch
    BY DEF Lists!Init, Lists!ConstantsFit
  <2>2. listsReq \in [Slots -> RequestType]
    BY RequestTypes DEF Lists!Init
  <2> QED
    BY <2>1, <2>2, RequestTypes DEF Lists!Init, Lists!TypeOK, RequestType
<1>2. panel = Lists!Closed /\ panel.timers = 0 /\ ~panel.open
  BY DEF Lists!Init, Lists!Closed
<1>3. \A l \in Lists!Kept : ~Lists!Filled(l)
  BY DEF Lists!Init, Lists!Filled, Lists!EmptyLists
<1>4. \A s \in Slots : listsReq[s].kind = "none"
  BY RequestTypes DEF Lists!Init
<1>5. Lists!RowsFitTheirTab
  BY <1>3 DEF Lists!RowsFitTheirTab, Lists!Kept
<1>6. AnswersAreCurrent /\ NewsIsOut
  BY <1>3, <1>4 DEF AnswersAreCurrent, NewsIsOut, Fresh
<1> QED
  BY <1>1, <1>2, <1>5, <1>6 DEF ListsInv, Lists!TimerOnlyWhileOpen

-----------------------------------------------------------------------------
(* A request begins *)

(* What a load that begins does to the requests.                            *)
Loads(s, l) ==
    /\ listsReq'[s].kind = "load" /\ listsReq'[s].list = l /\ ~listsReq'[s].late /\ ~listsReq'[s].served
    /\ \A q \in Slots \ {s} :
          /\ listsReq'[q].kind = listsReq[q].kind /\ listsReq'[q].list = listsReq[q].list
          /\ listsReq'[q].served = listsReq[q].served /\ listsReq'[q].version = listsReq[q].version
          /\ listsReq'[q].late = (listsReq[q].late \/ (listsReq[q].kind = "load" /\ listsReq[q].list = l))

LEMMA OvertakenTyped ==
    ASSUME Lists!ConstantsFit, Lists!TypeOK, NEW s, NEW l
    PROVE  /\ Lists!Overtaken(s, l) \in [Slots -> RequestType]
           /\ \A q \in Slots \ {s} :
                 /\ Lists!Overtaken(s, l)[q].kind = listsReq[q].kind /\ Lists!Overtaken(s, l)[q].list = listsReq[q].list
                 /\ Lists!Overtaken(s, l)[q].served = listsReq[q].served /\ Lists!Overtaken(s, l)[q].version = listsReq[q].version
                 /\ Lists!Overtaken(s, l)[q].late = (listsReq[q].late \/ (listsReq[q].kind = "load" /\ listsReq[q].list = l))
<1>1. listsReq \in [Slots -> RequestType]
  BY RequestTypes
<1>2. ASSUME NEW q \in Slots, NEW b \in BOOLEAN
      PROVE  /\ [listsReq[q] EXCEPT !.late = b] \in RequestType
             /\ [listsReq[q] EXCEPT !.late = b].kind = listsReq[q].kind
             /\ [listsReq[q] EXCEPT !.late = b].list = listsReq[q].list
             /\ [listsReq[q] EXCEPT !.late = b].served = listsReq[q].served
             /\ [listsReq[q] EXCEPT !.late = b].version = listsReq[q].version
             /\ [listsReq[q] EXCEPT !.late = b].late = b
  BY <1>1 DEF RequestType
<1> DEFINE old(q) == listsReq[q].late \/ (q # s /\ listsReq[q].kind = "load" /\ listsReq[q].list = l)
<1>3. \A q \in Slots : old(q) \in BOOLEAN
  BY <1>1 DEF RequestType
<1>4. Lists!Overtaken(s, l) = [q \in Slots |-> [listsReq[q] EXCEPT !.late = old(q)]]
  BY DEF Lists!Overtaken
<1>5. \A q \in Slots \ {s} : old(q) = (listsReq[q].late \/ (listsReq[q].kind = "load" /\ listsReq[q].list = l))
  OBVIOUS
<1> DEFINE new(q) == [listsReq[q] EXCEPT !.late = old(q)]
<1>6. \A q \in Slots : /\ new(q) \in RequestType
                       /\ new(q).kind = listsReq[q].kind /\ new(q).list = listsReq[q].list
                       /\ new(q).served = listsReq[q].served /\ new(q).version = listsReq[q].version
                       /\ new(q).late = old(q)
  <2> HIDE DEF old
  <2> QED
    BY <1>2, <1>3
<1>7. Lists!Overtaken(s, l) = [q \in Slots |-> new(q)]
  BY <1>4
<1> HIDE DEF old, new
<1>8. \A q \in Slots : Lists!Overtaken(s, l)[q] = new(q)
  BY <1>7
<1>9. Lists!Overtaken(s, l) \in [Slots -> RequestType]
  BY <1>6, <1>7
<1> QED
  BY <1>5, <1>6, <1>8, <1>9

LEMMA BeginTyped ==
    ASSUME Lists!ConstantsFit, Lists!TypeOK, NEW s \in Slots, NEW l \in Lists!Lists, NEW b \in BOOLEAN,
           \/ listsReq' = Lists!Begin(s, l)
           \/ listsReq' = [Lists!Begin(s, l) EXCEPT ![s].auth = TRUE]
    PROVE  listsReq' \in [Slots -> RequestType] /\ Loads(s, l)
<1> DEFINE new(a) == [Lists!NoReq EXCEPT !.kind = "load", !.list = l, !.auth = a]
<1>1. \A a \in BOOLEAN : /\ new(a) \in RequestType
                         /\ new(a).kind = "load" /\ new(a).list = l /\ ~new(a).late /\ ~new(a).served
                         /\ [new(a) EXCEPT !.auth = TRUE] = new(TRUE)
  BY RequestTypes DEF Lists!NoReq, RequestType
<1>2. PICK a \in BOOLEAN : listsReq' = [Lists!Overtaken(s, l) EXCEPT ![s] = new(a)]
  <2>1. listsToken \in BOOLEAN
    BY DEF Lists!TypeOK
  <2>2. CASE listsReq' = Lists!Begin(s, l)
    BY <2>1, <2>2 DEF Lists!Begin
  <2>3. CASE listsReq' = [Lists!Begin(s, l) EXCEPT ![s].auth = TRUE]
    <3> DEFINE begun == Lists!Begin(s, l)
    <3>1. begun = [Lists!Overtaken(s, l) EXCEPT ![s] = new(listsToken)]
      BY DEF Lists!Begin
    <3>2. begun[s] = new(listsToken)
      BY <3>1, OvertakenTyped
    <3>3. [begun[s] EXCEPT !.auth = TRUE] = new(TRUE)
      BY <2>1, <3>2, <1>1
    <3>4. listsReq' = [begun EXCEPT ![s] = new(TRUE)]
      BY <2>3, <3>3
    <3> QED
      BY <3>1, <3>4, OvertakenTyped
  <2> QED
    BY <2>2, <2>3
<1> HIDE DEF new
<1>0. /\ Lists!Overtaken(s, l) \in [Slots -> RequestType]
      /\ \A q \in Slots \ {s} :
            /\ Lists!Overtaken(s, l)[q].kind = listsReq[q].kind /\ Lists!Overtaken(s, l)[q].list = listsReq[q].list
            /\ Lists!Overtaken(s, l)[q].served = listsReq[q].served /\ Lists!Overtaken(s, l)[q].version = listsReq[q].version
            /\ Lists!Overtaken(s, l)[q].late = (listsReq[q].late \/ (listsReq[q].kind = "load" /\ listsReq[q].list = l))
  BY OvertakenTyped
<1>3. listsReq' \in [Slots -> RequestType] /\ listsReq'[s] = new(a)
  BY <1>0, <1>1, <1>2
<1>4. \A q \in Slots \ {s} : listsReq'[q] = Lists!Overtaken(s, l)[q]
  BY <1>0, <1>2
<1> QED
  BY <1>0, <1>1, <1>3, <1>4 DEF Loads

(* A load begins in a slot that was free, or whose change was answered: the *)
(* news about its list is out, and nothing else is disturbed.               *)
LEMMA BeginKeeps ==
    ASSUME Lists!ConstantsFit, ListsInv, NEW s \in Slots, NEW l \in Lists!Lists, Loads(s, l),
           \/ listsReq[s].kind = "none"
           \/ listsReq[s].kind = "change" /\ (\A k \in Lists!Kept : Lists!Shown(k)' /\ listsReq[s].list = k => k = l),
           version' = version, list' = list, listsDoubt' = listsDoubt, active' = active \/ active' = l
    PROVE  AnswersAreCurrent' /\ NewsIsOut'
<1>0. AnswersAreCurrent /\ NewsIsOut
  BY DEF ListsInv
<1>1. ASSUME NEW k \in Lists!Kept, Lists!Shown(k)', ~Pending(k)'
      PROVE  /\ \A q \in Slots : Fresh(q, k)' /\ listsReq'[q].served => listsReq'[q].version = version[k]
             /\ k \notin listsDoubt /\ Lists!Filled(k)' => list[k].version = version[k] \/ \E q \in Slots : Fresh(q, k)'
  <2>1. CASE k = l
    <3>1. \A q \in Slots \ {s} : ~Fresh(q, k)'
      BY <2>1 DEF Loads, Fresh
    <3>2. Fresh(s, k)' /\ ~listsReq'[s].served
      BY <2>1 DEF Loads, Fresh
    <3> QED
      BY <3>1, <3>2
  <2>2. CASE k # l
    <3>1. Lists!Shown(k)
      BY <2>2, <1>1 DEF Lists!Shown
    <3>2. ~Pending(k)
      <4> SUFFICES ASSUME NEW q \in Slots, listsReq[q].kind = "change", listsReq[q].list = k, listsReq[q].served
                   PROVE  FALSE
        BY DEF Pending
      <4>1. q # s
        BY <2>2, <1>1
      <4>2. listsReq'[q].kind = "change" /\ listsReq'[q].list = k /\ listsReq'[q].served
        BY <4>1 DEF Loads
      <4> QED
        BY <4>2, <1>1 DEF Pending
    <3>3. \A q \in Slots : Fresh(q, k)' <=> q # s /\ Fresh(q, k)
      BY <2>2 DEF Loads, Fresh
    <3>4. \A q \in Slots : Fresh(q, k) => q # s
      BY DEF Fresh
    <3>5. \A q \in Slots \ {s} : listsReq'[q].served = listsReq[q].served /\ listsReq'[q].version = listsReq[q].version
      BY DEF Loads
    <3>6. Lists!Filled(k)' <=> Lists!Filled(k)
      BY DEF Lists!Filled
    <3> QED
      BY <1>0, <3>1, <3>2, <3>3, <3>4, <3>5, <3>6 DEF AnswersAreCurrent, NewsIsOut
  <2> QED
    BY <2>1, <2>2
<1> QED
  BY <1>1 DEF AnswersAreCurrent, NewsIsOut

(* A change is sent, or ends with its table out of sight.                   *)
LEMMA QuietKeeps ==
    ASSUME Lists!ConstantsFit, ListsInv, NEW s \in Slots, NEW r \in RequestType,
           listsReq' = [listsReq EXCEPT ![s] = r], listsReq[s].kind # "load", r.kind # "load", ~r.served,
           listsReq[s].kind = "change" => \A k \in Lists!Kept : Lists!Shown(k) => listsReq[s].list # k,
           version' = version, list' = list, listsDoubt' = listsDoubt, active' = active
    PROVE  AnswersAreCurrent' /\ NewsIsOut'
<1>0. AnswersAreCurrent /\ NewsIsOut /\ listsReq \in [Slots -> RequestType]
  BY RequestTypes DEF ListsInv
<1>1. listsReq'[s] = r /\ \A q \in Slots \ {s} : listsReq'[q] = listsReq[q]
  BY <1>0
<1>2. ASSUME NEW k \in Lists!Kept, Lists!Shown(k)', ~Pending(k)'
      PROVE  Lists!Shown(k) /\ ~Pending(k)
  <2>1. Lists!Shown(k)
    BY <1>2 DEF Lists!Shown
  <2> QED
    BY <1>1, <1>2, <2>1 DEF Pending
<1>3. \A k \in Lists!Kept, q \in Slots : (Fresh(q, k)' <=> Fresh(q, k)) /\ (Fresh(q, k) => listsReq'[q] = listsReq[q])
  BY <1>1 DEF Fresh
<1>4. \A k \in Lists!Kept : Lists!Filled(k)' <=> Lists!Filled(k)
  BY DEF Lists!Filled
<1> QED
  BY <1>0, <1>2, <1>3, <1>4 DEF AnswersAreCurrent, NewsIsOut

(* A load is answered, and its list written. *)
LEMMA LoadArrivesKeeps ==
    ASSUME Lists!ConstantsFit, ListsInv, NEW s \in Slots, Lists!LoadArrives(s)
    PROVE  ListsInv'
<1>0. Lists!TypeOK /\ (~listsToken => panel = Lists!Closed) /\ Lists!TimerOnlyWhileOpen /\ Lists!RowsFitTheirTab /\ AnswersAreCurrent
        /\ NewsIsOut /\ listsReq \in [Slots -> RequestType]
  BY RequestTypes DEF ListsInv
<1> DEFINE r == listsReq[s]
           m == r.list
<1>1. r \in RequestType /\ r.kind = "load" /\ r.served /\ m \in Lists!Lists \cup {NoTable} /\ r.version \in 0..MaxChanges
        /\ r.late \in BOOLEAN
  BY <1>0 DEF Lists!LoadArrives, RequestType
<1>2. version' = version /\ listsToken' = listsToken /\ admin' = admin /\ listsEpoch' = listsEpoch /\ active' = active /\ panel' = panel
        /\ listsReq' = [listsReq EXCEPT ![s] = Lists!NoReq]
  BY DEF Lists!LoadArrives
<1>3. listsReq' \in [Slots -> RequestType] /\ listsReq'[s] = Lists!NoReq /\ (\A q \in Slots \ {s} : listsReq'[q] = listsReq[q])
        /\ Lists!NoReq.kind = "none"
  BY <1>0, <1>2, RequestTypes
<1>4. /\ m \in Lists!Kept => /\ list' = [list EXCEPT ![m] = [of |-> m, version |-> r.version]]
                       /\ listsDoubt' = IF r.late THEN listsDoubt \cup {m} ELSE listsDoubt \ {m}
      /\ m \notin Lists!Kept => list' = list /\ listsDoubt' = listsDoubt
  BY DEF Lists!LoadArrives, Lists!WriteTo
<1>5. list \in [Lists!Kept -> [of : Lists!Lists \cup {NoTable}, version : 0..MaxChanges]] /\ listsDoubt \subseteq Lists!Kept
  BY <1>0 DEF Lists!TypeOK
<1>6. [of |-> m, version |-> r.version] \in [of : Lists!Lists \cup {NoTable}, version : 0..MaxChanges]
  BY <1>1
<1> HIDE DEF r, m
<1>7. list' \in [Lists!Kept -> [of : Lists!Lists \cup {NoTable}, version : 0..MaxChanges]] /\ listsDoubt' \subseteq Lists!Kept
  <2>1. CASE m \in Lists!Kept
    BY <2>1, <1>4, <1>5, <1>6
  <2>2. CASE m \notin Lists!Kept
    BY <2>2, <1>4, <1>5
  <2> QED
    BY <2>1, <2>2
<1>8. Lists!TypeOK'
  <2>1. version' \in [Lists!Kept -> 0..MaxChanges] /\ listsToken' \in BOOLEAN /\ admin' \in BOOLEAN /\ listsEpoch' \in 0..MaxEpoch
        /\ active' \in RefTables \cup {NoTable} /\ panel' \in [open : BOOLEAN, timers : 0..1]
    BY <1>0, <1>2 DEF Lists!TypeOK
  <2> QED
    BY <2>1, <1>3, <1>7 DEF Lists!TypeOK, RequestType
<1>9. /\ \A k \in Lists!Kept \ {m} : list'[k] = list[k] /\ (k \in listsDoubt' <=> k \in listsDoubt)
      /\ m \in Lists!Kept => list'[m].of = m /\ list'[m].version = r.version /\ (m \in listsDoubt' <=> r.late)
  <2>1. CASE m \in Lists!Kept
    BY <2>1, <1>1, <1>4, <1>5
  <2>2. CASE m \notin Lists!Kept
    BY <2>2, <1>4, <1>5
  <2> QED
    BY <2>1, <2>2
<1>10. Lists!RowsFitTheirTab'
  <2> SUFFICES ASSUME NEW t \in RefTables, Lists!Filled(t)' PROVE list'[t].of = t
    BY DEF Lists!RowsFitTheirTab
  <2>1. t \in Lists!Kept
    BY DEF Lists!Kept
  <2>2. CASE t = m
    BY <2>1, <2>2, <1>9
  <2>3. CASE t # m
    BY <2>1, <2>3, <1>9, <1>0 DEF Lists!RowsFitTheirTab, Lists!Filled
  <2> QED
    BY <2>2, <2>3
<1>11. ASSUME NEW k \in Lists!Kept, Lists!Shown(k)', ~Pending(k)'
       PROVE  Lists!Shown(k) /\ ~Pending(k)
  <2>1. Lists!Shown(k)
    BY <1>2, <1>11 DEF Lists!Shown
  <2>2. \A q \in Slots : listsReq[q].kind = "change" => q # s
    BY <1>1 DEF r
  <2> QED
    BY <1>3, <1>11, <2>1, <2>2 DEF Pending
<1>12. \A k \in Lists!Kept, q \in Slots : Fresh(q, k)' <=> q # s /\ Fresh(q, k)
  BY <1>3 DEF Fresh
<1>13. AnswersAreCurrent'
  BY <1>0, <1>2, <1>3, <1>11, <1>12 DEF AnswersAreCurrent
<1>14. NewsIsOut'
  <2> SUFFICES ASSUME NEW k \in Lists!Kept, k \notin listsDoubt', Lists!Shown(k)', Lists!Filled(k)', ~Pending(k)',
                      \A q \in Slots : ~Fresh(q, k)'
               PROVE  list'[k].version = version'[k]
    BY DEF NewsIsOut
  <2>1. CASE k = m
    <3>1. ~r.late /\ Fresh(s, k)
      BY <2>1, <1>1, <1>9 DEF Fresh, r, m
    <3> QED
      BY <3>1, <2>1, <1>0, <1>1, <1>2, <1>9, <1>11 DEF AnswersAreCurrent, r
  <2>2. CASE k # m
    <3>1. k \notin listsDoubt /\ list'[k] = list[k] /\ Lists!Filled(k)
      BY <2>2, <1>9 DEF Lists!Filled
    <3>2. \A q \in Slots : ~Fresh(q, k)
      BY <2>2, <1>12 DEF Fresh, r, m
    <3> QED
      BY <3>1, <3>2, <1>0, <1>2, <1>11 DEF NewsIsOut
  <2> QED
    BY <2>1, <2>2
<1> QED
  BY <1>0, <1>2, <1>8, <1>10, <1>13, <1>14 DEF ListsInv, Lists!TimerOnlyWhileOpen

(* A request is lost, refused or failed. *)
LEMMA FailsKeeps ==
    ASSUME Lists!ConstantsFit, ListsInv, NEW s \in Slots, Lists!Fails(s)
    PROVE  ListsInv'
<1>0. Lists!TypeOK /\ (~listsToken => panel = Lists!Closed) /\ Lists!TimerOnlyWhileOpen /\ Lists!RowsFitTheirTab /\ AnswersAreCurrent
        /\ NewsIsOut /\ listsReq \in [Slots -> RequestType]
  BY RequestTypes DEF ListsInv
<1> DEFINE r == listsReq[s]
           m == r.list
<1>1. r \in RequestType /\ r.kind # "none" /\ r.late \in BOOLEAN
  BY <1>0 DEF Lists!Fails, RequestType
<1>2. version' = version /\ list' = list /\ listsToken' = listsToken /\ admin' = admin /\ listsEpoch' = listsEpoch /\ active' = active
        /\ panel' = panel
  BY DEF Lists!Fails, Lists!pageVars
<1>3. /\ listsReq' \in [Slots -> RequestType] /\ listsReq'[s] = Lists!NoReq /\ Lists!NoReq.kind = "none"
      /\ r.kind = "load" => \A q \in Slots \ {s} : listsReq'[q] = listsReq[q]
      /\ \A q \in Slots \ {s} :
            /\ listsReq'[q].kind = listsReq[q].kind /\ listsReq'[q].list = listsReq[q].list
            /\ listsReq'[q].served = listsReq[q].served /\ listsReq'[q].version = listsReq[q].version
            /\ r.kind = "change" =>
                 listsReq'[q].late = (listsReq[q].late \/ (listsReq[q].kind = "load" /\ listsReq[q].list = m))
  <2>1. CASE r.kind = "change"
    <3>1. listsReq' = [Lists!Overtaken(s, m) EXCEPT ![s] = Lists!NoReq]
      BY <2>1 DEF Lists!Fails
    <3> DEFINE new == Lists!Overtaken(s, m)
    <3>2. /\ new \in [Slots -> RequestType]
          /\ \A q \in Slots \ {s} :
                /\ new[q].kind = listsReq[q].kind /\ new[q].list = listsReq[q].list
                /\ new[q].served = listsReq[q].served /\ new[q].version = listsReq[q].version
                /\ new[q].late = (listsReq[q].late \/ (listsReq[q].kind = "load" /\ listsReq[q].list = m))
      BY <1>0, OvertakenTyped
    <3> HIDE DEF new
    <3>3. listsReq' = [new EXCEPT ![s] = Lists!NoReq]
      BY <3>1 DEF new
    <3>4. listsReq' \in [Slots -> RequestType] /\ listsReq'[s] = Lists!NoReq /\ Lists!NoReq.kind = "none"
            /\ \A q \in Slots \ {s} : listsReq'[q] = new[q]
      BY <3>2, <3>3, RequestTypes
    <3> QED
      BY <2>1, <3>2, <3>4
  <2>2. CASE r.kind # "change"
    <3>1. listsReq' = [listsReq EXCEPT ![s] = Lists!NoReq]
      BY <2>2 DEF Lists!Fails
    <3> QED
      BY <3>1, <2>2, <1>0, RequestTypes
  <2> QED
    BY <2>1, <2>2
<1>4. listsDoubt' = IF r.kind = "load" /\ r.late THEN listsDoubt ELSE listsDoubt \cup {l \in {m} : Lists!Filled(l)}
  BY DEF Lists!Fails
<1>5. \A k \in Lists!Lists : Lists!Filled(k)' <=> Lists!Filled(k)
  BY <1>2 DEF Lists!Filled
<1>6. r.kind = "load" \/ r.kind = "change"
  BY <1>1 DEF RequestType
<1> HIDE DEF r, m
<1>7. listsDoubt' \subseteq Lists!Kept
  BY <1>0, <1>4 DEF Lists!TypeOK, Lists!Filled
<1>8. Lists!TypeOK'
  <2>1. version' \in [Lists!Kept -> 0..MaxChanges] /\ listsToken' \in BOOLEAN /\ admin' \in BOOLEAN /\ listsEpoch' \in 0..MaxEpoch
        /\ active' \in RefTables \cup {NoTable} /\ panel' \in [open : BOOLEAN, timers : 0..1]
        /\ list' \in [Lists!Kept -> [of : Lists!Lists \cup {NoTable}, version : 0..MaxChanges]]
    BY <1>0, <1>2 DEF Lists!TypeOK
  <2> QED
    BY <2>1, <1>3, <1>7 DEF Lists!TypeOK, RequestType
<1>9. Lists!RowsFitTheirTab'
  BY <1>0, <1>2 DEF Lists!RowsFitTheirTab, Lists!Filled
<1>10. ASSUME NEW k \in Lists!Kept, Lists!Shown(k)', ~Pending(k)'
       PROVE  /\ \A q \in Slots : Fresh(q, k)' /\ listsReq'[q].served => listsReq'[q].version = version[k]
              /\ k \notin listsDoubt' /\ Lists!Filled(k) => list[k].version = version[k] \/ \E q \in Slots : Fresh(q, k)'
  <2>1. Lists!Shown(k)
    BY <1>2, <1>10 DEF Lists!Shown
  <2>2. \A q \in Slots \ {s} : ~(listsReq[q].kind = "change" /\ listsReq[q].list = k /\ listsReq[q].served)
    BY <1>3, <1>10 DEF Pending
  <2>3. k \in Lists!Lists /\ (k \notin listsDoubt' => k \notin listsDoubt)
    BY <1>4 DEF Lists!Lists
  <2>4. CASE k = m /\ r.kind = "change"
    <3>1. \A q \in Slots : ~Fresh(q, k)'
      BY <2>4, <1>3 DEF Fresh
    <3>2. Lists!Filled(k) => k \in listsDoubt'
      BY <2>4, <1>4
    <3> QED
      BY <3>1, <3>2
  <2>5. CASE ~(k = m /\ r.kind = "change")
    <3>1. ~Pending(k)
      BY <2>2, <2>5 DEF Pending, r, m
    <3>2. \A q \in Slots : Fresh(q, k)' <=> q # s /\ Fresh(q, k)
      BY <2>5, <1>3, <1>6 DEF Fresh
    <3>3. \A q \in Slots : Fresh(q, k) /\ listsReq[q].served => listsReq[q].version = version[k]
      BY <2>1, <3>1, <1>0 DEF AnswersAreCurrent
    <3>4. k \notin listsDoubt' /\ Lists!Filled(k) => ~Fresh(s, k)
      BY <1>4, <1>6 DEF Fresh, r, m
    <3>5. k \notin listsDoubt' /\ Lists!Filled(k) => list[k].version = version[k] \/ \E q \in Slots : Fresh(q, k)
      BY <2>1, <2>3, <3>1, <1>0 DEF NewsIsOut
    <3> QED
      BY <3>2, <3>3, <3>4, <3>5, <1>3 DEF Fresh
  <2> QED
    BY <2>4, <2>5
<1>11. AnswersAreCurrent'
  BY <1>2, <1>10 DEF AnswersAreCurrent
<1>12. NewsIsOut'
  BY <1>2, <1>5, <1>10 DEF NewsIsOut, Lists!Lists
<1> QED
  BY <1>0, <1>2, <1>8, <1>9, <1>11, <1>12 DEF ListsInv, Lists!TimerOnlyWhileOpen

(* The server answers a request. *)
LEMMA ServeKeeps ==
    ASSUME Lists!ConstantsFit, ListsInv, NEW s \in Slots, Lists!Serve(s)
    PROVE  ListsInv'
<1>0. Lists!TypeOK /\ (~listsToken => panel = Lists!Closed) /\ Lists!TimerOnlyWhileOpen /\ Lists!RowsFitTheirTab /\ AnswersAreCurrent
        /\ NewsIsOut /\ listsReq \in [Slots -> RequestType]
  BY RequestTypes DEF ListsInv
<1> DEFINE r == listsReq[s]
           m == r.list
           told == IF r.kind = "load" /\ m \in Lists!Kept THEN version[m] ELSE 0
<1>1. r \in RequestType /\ r.kind # "none" /\ ~r.served
  BY <1>0 DEF Lists!Serve, RequestType
<1>2. list' = list /\ listsToken' = listsToken /\ admin' = admin /\ listsEpoch' = listsEpoch /\ active' = active /\ panel' = panel
        /\ listsDoubt' = listsDoubt
  BY DEF Lists!Serve, Lists!pageVars
<1>3. version \in [Lists!Kept -> 0..MaxChanges] /\ MaxChanges \in Nat
  BY <1>0 DEF Lists!TypeOK, Lists!ConstantsFit
<1>4. \/ /\ r.kind = "change" /\ m \in Lists!Kept
         /\ version[m] < MaxChanges /\ version' = [version EXCEPT ![m] = @ + 1]
      \/ (r.kind = "load" \/ m \in Lists!Passing) /\ version' = version
  BY DEF Lists!Serve
<1>5. told \in 0..MaxChanges
  BY <1>3
<1>6. listsReq' = [listsReq EXCEPT ![s] = [r EXCEPT !.served = TRUE, !.version = told]]
  <2>1. listsReq' = [listsReq EXCEPT ![s].served = TRUE, ![s].version = told]
    BY DEF Lists!Serve
  <2> HIDE DEF told
  <2> QED
    BY <2>1, <1>0
<1> HIDE DEF told
<1>7. /\ [r EXCEPT !.served = TRUE, !.version = told] \in RequestType
      /\ [r EXCEPT !.served = TRUE, !.version = told].kind = r.kind
      /\ [r EXCEPT !.served = TRUE, !.version = told].list = m
      /\ [r EXCEPT !.served = TRUE, !.version = told].late = r.late
      /\ [r EXCEPT !.served = TRUE, !.version = told].served
      /\ [r EXCEPT !.served = TRUE, !.version = told].version = told
  BY <1>1, <1>5 DEF RequestType
<1>8. /\ listsReq' \in [Slots -> RequestType]
      /\ listsReq'[s].kind = r.kind /\ listsReq'[s].list = m /\ listsReq'[s].late = r.late
      /\ listsReq'[s].served /\ listsReq'[s].version = told
      /\ \A q \in Slots \ {s} : listsReq'[q] = listsReq[q]
  BY <1>0, <1>6, <1>7
<1>9. version' \in [Lists!Kept -> 0..MaxChanges]
  BY <1>3, <1>4
<1>10. Lists!TypeOK'
  <2>1. list' \in [Lists!Kept -> [of : Lists!Lists \cup {NoTable}, version : 0..MaxChanges]] /\ listsToken' \in BOOLEAN
        /\ admin' \in BOOLEAN /\ listsEpoch' \in 0..MaxEpoch
        /\ active' \in RefTables \cup {NoTable} /\ panel' \in [open : BOOLEAN, timers : 0..1] /\ listsDoubt' \subseteq Lists!Kept
    BY <1>0, <1>2 DEF Lists!TypeOK
  <2> QED
    BY <2>1, <1>8, <1>9 DEF Lists!TypeOK, RequestType
<1>11. Lists!RowsFitTheirTab'
  BY <1>0, <1>2 DEF Lists!RowsFitTheirTab, Lists!Filled
<1>12. \A k \in Lists!Kept, q \in Slots : Fresh(q, k)' <=> Fresh(q, k)
  BY <1>8 DEF Fresh, r, m
<1>13. ASSUME NEW k \in Lists!Kept, Lists!Shown(k)', ~Pending(k)'
       PROVE  Lists!Shown(k) /\ ~Pending(k) /\ version'[k] = version[k]
  <2>1. Lists!Shown(k)
    BY <1>2, <1>13 DEF Lists!Shown
  <2>2. ~Pending(k)
    <3> SUFFICES ASSUME NEW q \in Slots, listsReq[q].kind = "change", listsReq[q].list = k, listsReq[q].served
                 PROVE  FALSE
      BY DEF Pending
    <3>1. q # s
      BY <1>1 DEF r
    <3>2. listsReq'[q] = listsReq[q]
      BY <3>1, <1>8
    <3> QED
      BY <3>2, <1>13 DEF Pending
  <2>3. ~(r.kind = "change" /\ m = k)
    BY <1>8, <1>13 DEF Pending
  <2>4. version'[k] = version[k]
    BY <2>3, <1>3, <1>4
  <2> QED
    BY <2>1, <2>2, <2>4
<1>14. AnswersAreCurrent'
  <2> SUFFICES ASSUME NEW k \in Lists!Kept, Lists!Shown(k)', ~Pending(k)', NEW q \in Slots, Fresh(q, k)', listsReq'[q].served
               PROVE  listsReq'[q].version = version'[k]
    BY DEF AnswersAreCurrent
  <2>1. Lists!Shown(k) /\ ~Pending(k) /\ version'[k] = version[k] /\ Fresh(q, k)
    BY <1>12, <1>13
  <2>2. CASE q = s
    <3>1. r.kind = "load" /\ m = k
      BY <2>1, <2>2 DEF Fresh, r, m
    <3> QED
      BY <3>1, <2>1, <2>2, <1>8 DEF told
  <2>3. CASE q # s
    BY <2>1, <2>3, <1>0, <1>8 DEF AnswersAreCurrent
  <2> QED
    BY <2>2, <2>3
<1>15. \A k \in Lists!Kept : Lists!Filled(k)' <=> Lists!Filled(k)
  BY <1>2 DEF Lists!Filled
<1>16. NewsIsOut'
  BY <1>0, <1>2, <1>12, <1>13, <1>15 DEF NewsIsOut
<1> QED
  BY <1>0, <1>2, <1>10, <1>11, <1>14, <1>16 DEF ListsInv, Lists!TimerOnlyWhileOpen

(* A change is answered, and its list is loaded. *)
LEMMA ChangeAnsweredKeeps ==
    ASSUME Lists!ConstantsFit, ListsInv, NEW s \in Slots, Lists!ChangeAnswered(s)
    PROVE  ListsInv'
<1>0. Lists!TypeOK /\ (~listsToken => panel = Lists!Closed) /\ Lists!TimerOnlyWhileOpen /\ Lists!RowsFitTheirTab /\ listsReq \in [Slots -> RequestType]
  BY RequestTypes DEF ListsInv
<1> DEFINE m == listsReq[s].list
           l == Lists!ReloadAfter(m)
<1>1. version' = version /\ list' = list /\ listsToken' = listsToken /\ admin' = admin /\ listsEpoch' = listsEpoch /\ active' = active
        /\ panel' = panel /\ listsDoubt' = listsDoubt
  BY DEF Lists!ChangeAnswered, Lists!pageVars
<1>2. listsReq[s].kind = "change" /\ listsReq[s] \in RequestType /\ m \in Lists!Lists \cup {NoTable}
        /\ listsReq' = IF l = NoTable THEN [listsReq EXCEPT ![s] = Lists!NoReq] ELSE Lists!Begin(s, l)
  BY <1>0 DEF Lists!ChangeAnswered, RequestType
<1>3. active \in RefTables \cup {NoTable} /\ RefTables \subseteq Lists!Lists
  BY <1>0 DEF Lists!TypeOK, Lists!Lists, Lists!Kept
<1>4. listsReq' \in [Slots -> RequestType] /\ AnswersAreCurrent' /\ NewsIsOut'
  <2>1. CASE l = NoTable
    <3>1. \A k \in Lists!Kept : Lists!Shown(k) => m # k
      <4>1. m \in RefTables => active = NoTable
        BY <2>1 DEF Lists!ReloadAfter
      <4>2. m \notin RefTables => m = NoTable
        BY <2>1 DEF Lists!ReloadAfter
      <4>3. NoTable \notin Lists!Kept /\ "users" \notin RefTables /\ "routes" \notin RefTables
        BY DEF Lists!ConstantsFit, Lists!Lists
      <4> QED
        BY <4>1, <4>2, <4>3 DEF Lists!Shown
    <3>2. Lists!NoReq \in RequestType /\ Lists!NoReq.kind # "load" /\ ~Lists!NoReq.served
      BY RequestTypes DEF Lists!NoReq
    <3>3. listsReq' = [listsReq EXCEPT ![s] = Lists!NoReq]
      BY <2>1, <1>2
    <3>4. AnswersAreCurrent' /\ NewsIsOut'
      BY <3>1, <3>2, <3>3, <1>1, <1>2, QuietKeeps
    <3> QED
      BY <3>2, <3>3, <3>4, <1>0
  <2>2. CASE l # NoTable
    <3>1. l \in Lists!Lists
      BY <2>2, <1>2, <1>3 DEF Lists!ReloadAfter
    <3>2. listsReq' = Lists!Begin(s, l)
      BY <2>2, <1>2
    <3>3. \A k \in Lists!Kept : Lists!Shown(k)' /\ m = k => k = l
      BY <1>1 DEF Lists!Shown, Lists!ReloadAfter, Lists!ConstantsFit
    <3>4. TRUE \in BOOLEAN
      OBVIOUS
    <3> HIDE DEF l
    <3>5. listsReq' \in [Slots -> RequestType] /\ Loads(s, l)
      BY <3>1, <3>2, <3>4, <1>0, BeginTyped
    <3> QED
      BY <3>1, <3>3, <3>5, <1>1, <1>2, BeginKeeps
  <2> QED
    BY <2>1, <2>2
<1>5. Lists!TypeOK'
  BY <1>0, <1>1, <1>4 DEF Lists!TypeOK, RequestType
<1> QED
  BY <1>0, <1>1, <1>4, <1>5 DEF ListsInv, Lists!TimerOnlyWhileOpen, Lists!RowsFitTheirTab, Lists!Filled

(* A load begins, from a view, a tab, the panel or its timer.               *)
LEMMA LoadKeeps ==
    ASSUME Lists!ConstantsFit, ListsInv, NEW s \in Slots, NEW l \in Lists!Lists, listsReq[s].kind = "none",
           listsReq' \in [Slots -> RequestType], Loads(s, l),
           version' = version, list' = list, listsDoubt' = listsDoubt,
           active' = active \/ (active' = l /\ l \in RefTables),
           listsEpoch' = listsEpoch, listsToken' \in BOOLEAN, admin' \in BOOLEAN,
           panel' \in [open : BOOLEAN, timers : 0..1],
           ~listsToken' => panel' = Lists!Closed,
           Lists!TimerOnlyWhileOpen'
    PROVE  ListsInv'
<1>0. Lists!TypeOK /\ Lists!RowsFitTheirTab
  BY DEF ListsInv
<1>2. AnswersAreCurrent' /\ NewsIsOut'
  BY BeginKeeps
<1>3. Lists!TypeOK'
  BY <1>0 DEF Lists!TypeOK, RequestType
<1> QED
  BY <1>0, <1>2, <1>3 DEF ListsInv, Lists!TimerOnlyWhileOpen, Lists!RowsFitTheirTab, Lists!Filled

(* A change is sent. *)
LEMMA ChangeKeeps ==
    ASSUME Lists!ConstantsFit, ListsInv, NEW l \in Lists!Lists, Lists!ChangeOnly(l)
    PROVE  ListsInv'
<1>0. Lists!TypeOK /\ (~listsToken => panel = Lists!Closed) /\ Lists!TimerOnlyWhileOpen /\ Lists!RowsFitTheirTab /\ listsReq \in [Slots -> RequestType]
  BY RequestTypes DEF ListsInv
<1>1. version' = version /\ list' = list /\ listsToken' = listsToken /\ admin' = admin /\ listsEpoch' = listsEpoch /\ active' = active
        /\ panel' = panel /\ listsDoubt' = listsDoubt
  BY DEF Lists!ChangeOnly, Lists!pageVars
<1> DEFINE r == [Lists!NoReq EXCEPT !.kind = "change", !.list = l, !.auth = TRUE]
<1>2. PICK s \in Slots : listsReq[s].kind = "none" /\ listsReq' = [listsReq EXCEPT ![s] = r]
  BY DEF Lists!ChangeOnly, Lists!StartChange
<1>3. r \in RequestType /\ r.kind = "change" /\ ~r.served
  BY RequestTypes DEF Lists!NoReq, RequestType
<1> HIDE DEF r
<1>4. listsReq' \in [Slots -> RequestType]
  BY <1>0, <1>2, <1>3
<1>5. AnswersAreCurrent' /\ NewsIsOut'
  BY <1>1, <1>2, <1>3, QuietKeeps
<1>6. Lists!TypeOK'
  BY <1>0, <1>1, <1>4 DEF Lists!TypeOK, RequestType
<1> QED
  BY <1>0, <1>1, <1>5, <1>6 DEF ListsInv, Lists!TimerOnlyWhileOpen, Lists!RowsFitTheirTab, Lists!Filled

LEMMA LogoutKeeps ==
    ASSUME Lists!ConstantsFit, ListsInv, Lists!doLogout
    PROVE  ListsInv'
<1>0. Lists!TypeOK /\ AnswersAreCurrent
  BY DEF ListsInv
<1>1. version' = version /\ listsReq' = listsReq /\ listsToken' = FALSE /\ admin' = admin /\ listsEpoch' = listsEpoch + 1 /\ listsEpoch < MaxEpoch
        /\ list' = Lists!EmptyLists /\ active' = NoTable /\ panel' = Lists!Closed /\ listsDoubt' = {}
  BY DEF Lists!doLogout
<1>2. listsEpoch' \in 0..MaxEpoch
  BY <1>0, <1>1 DEF Lists!TypeOK, Lists!ConstantsFit
<1>3. Lists!TypeOK'
  <2>1. /\ version' \in [Lists!Kept -> 0..MaxChanges]
        /\ listsToken' \in BOOLEAN /\ admin' \in BOOLEAN
        /\ list' \in [Lists!Kept -> [of : Lists!Lists \cup {NoTable}, version : 0..MaxChanges]]
        /\ active' \in RefTables \cup {NoTable}
        /\ panel' \in [open : BOOLEAN, timers : 0..1]
        /\ listsDoubt' \subseteq Lists!Kept
    BY <1>0, <1>1, RequestTypes DEF Lists!TypeOK
  <2> QED
    BY <2>1, <1>0, <1>1, <1>2 DEF Lists!TypeOK
<1>4. \A k \in Lists!Kept : ~Lists!Filled(k)'
  BY <1>1 DEF Lists!Filled, Lists!EmptyLists
<1>5. Lists!RowsFitTheirTab' /\ NewsIsOut'
  BY <1>4 DEF Lists!RowsFitTheirTab, NewsIsOut, Lists!Kept
<1>6. \A k \in Lists!Kept : Lists!Shown(k)' => Lists!Shown(k)
  <2>1. NoTable \notin Lists!Kept
    BY DEF Lists!ConstantsFit, Lists!Lists
  <2> QED
    BY <2>1, <1>1 DEF Lists!Shown
<1>7. AnswersAreCurrent'
  BY <1>0, <1>1, <1>6 DEF AnswersAreCurrent, Pending, Fresh
<1>8. Lists!TimerOnlyWhileOpen'
  BY <1>1 DEF Lists!TimerOnlyWhileOpen, Lists!Closed
<1> QED
  BY <1>1, <1>3, <1>5, <1>7, <1>8 DEF ListsInv

LEMMA ListsStep == Lists!ConstantsFit /\ ListsInv /\ [Lists!Next]_(Lists!vars) => ListsInv'
<1> SUFFICES ASSUME Lists!ConstantsFit, ListsInv, [Lists!Next]_(Lists!vars) PROVE ListsInv'
  OBVIOUS
<1>0. Lists!TypeOK /\ (~listsToken => panel = Lists!Closed) /\ Lists!TimerOnlyWhileOpen
  BY DEF ListsInv
<1>1. listsToken \in BOOLEAN /\ admin \in BOOLEAN /\ panel \in [open : BOOLEAN, timers : 0..1]
        /\ active \in RefTables \cup {NoTable}
  BY <1>0 DEF Lists!TypeOK
<1>2. "users" \in Lists!Lists /\ "routes" \in Lists!Lists /\ "logs" \in Lists!Lists /\ "history" \in Lists!Lists /\ "queue" \in Lists!Lists
        /\ RefTables \subseteq Lists!Lists
  BY DEF Lists!Lists, Lists!Kept, Lists!Passing
<1>3. ASSUME NEW role \in BOOLEAN, Lists!doLogin(role) PROVE ListsInv'
  <2>0. PICK s \in Slots : listsReq[s].kind = "none" /\ listsReq' = [Lists!Begin(s, "routes") EXCEPT ![s].auth = TRUE]
    BY <1>3 DEF Lists!doLogin
  <2>1. listsReq' \in [Slots -> RequestType] /\ Loads(s, "routes")
    BY <2>0, <1>0, <1>2, BeginTyped
  <2>2. ~listsToken /\ listsToken' = TRUE /\ admin' = role /\ version' = version /\ list' = list /\ listsDoubt' = listsDoubt /\ active' = active
          /\ listsEpoch' = listsEpoch /\ panel' = panel
    BY <1>3 DEF Lists!doLogin
  <2>3. Lists!TimerOnlyWhileOpen' /\ panel' \in [open : BOOLEAN, timers : 0..1]
    BY <2>2, <1>0, <1>1 DEF Lists!Closed, Lists!TimerOnlyWhileOpen
  <2>4. listsToken' \in BOOLEAN /\ admin' \in BOOLEAN /\ (~listsToken' => panel' = Lists!Closed)
    BY <2>2
  <2>5. PICK l \in Lists!Lists : l = "routes"
    BY <1>2
  <2>6. Loads(s, l)
    BY <2>1, <2>5
  <2> QED
    BY <2>0, <2>1, <2>2, <2>3, <2>4, <2>6, LoadKeeps
<1>4. ASSUME NEW l \in Lists!Lists, Lists!StartLoad(l), version' = version, list' = list, listsDoubt' = listsDoubt,
             active' = active \/ (active' = l /\ l \in RefTables),
             listsEpoch' = listsEpoch, listsToken' = listsToken, admin' = admin,
             panel' = panel \/ panel' = [open |-> TRUE, timers |-> 1]
      PROVE  ListsInv'
  <2>0. PICK s \in Slots : listsReq[s].kind = "none" /\ listsReq' = Lists!Begin(s, l)
    BY <1>4 DEF Lists!StartLoad
  <2>1. listsReq' \in [Slots -> RequestType] /\ Loads(s, l)
    BY <2>0, <1>0, BeginTyped
  <2>2. listsToken
    BY <1>4 DEF Lists!StartLoad
  <2>3. panel' \in [open : BOOLEAN, timers : 0..1]
    <3>1. [open |-> TRUE, timers |-> 1] \in [open : BOOLEAN, timers : 0..1]
      OBVIOUS
    <3> QED
      BY <3>1, <1>1, <1>4
  <2>4. CASE panel' = panel
    <3>1. Lists!TimerOnlyWhileOpen'
      BY <2>4, <1>0, <1>4 DEF Lists!TimerOnlyWhileOpen
    <3>2. listsToken' \in BOOLEAN /\ admin' \in BOOLEAN /\ (~listsToken' => panel' = Lists!Closed)
      BY <2>2, <1>1, <1>4
    <3> QED
      BY <3>1, <3>2, <2>0, <2>1, <2>3, <1>4, LoadKeeps
  <2>5. CASE panel' = [open |-> TRUE, timers |-> 1]
    <3>1. Lists!TimerOnlyWhileOpen'
      BY <2>2, <2>5, <1>4 DEF Lists!TimerOnlyWhileOpen
    <3>2. listsToken' \in BOOLEAN /\ admin' \in BOOLEAN /\ (~listsToken' => panel' = Lists!Closed)
      BY <2>2, <1>1, <1>4
    <3> QED
      BY <3>1, <3>2, <2>0, <2>1, <2>3, <1>4, LoadKeeps
  <2> QED
    BY <2>4, <2>5, <1>4
<1>5. ASSUME NEW l \in Lists!Lists, Lists!LoadOnly(l) PROVE ListsInv'
  <2>1. Lists!StartLoad(l) /\ version' = version /\ list' = list /\ listsDoubt' = listsDoubt /\ active' = active
          /\ listsEpoch' = listsEpoch /\ listsToken' = listsToken /\ admin' = admin /\ panel' = panel
    BY <1>5 DEF Lists!LoadOnly, Lists!pageVars
  <2> QED
    BY <2>1, <1>4
<1>6. CASE Lists!closeQueuePanel
  <2>1. panel' = Lists!Closed /\ version' = version /\ list' = list /\ listsDoubt' = listsDoubt /\ active' = active
          /\ listsEpoch' = listsEpoch /\ listsToken' = listsToken /\ admin' = admin /\ listsReq' = listsReq
    BY <1>6 DEF Lists!closeQueuePanel
  <2>2. Lists!TypeOK'
    BY <2>1, <1>0, RequestTypes DEF Lists!TypeOK
  <2>3. Lists!TimerOnlyWhileOpen'
    BY <2>1 DEF Lists!TimerOnlyWhileOpen, Lists!Closed
  <2> QED
    BY <2>1, <2>2, <2>3
       DEF ListsInv, Lists!RowsFitTheirTab, Lists!Filled, AnswersAreCurrent, NewsIsOut, Lists!Shown, Pending, Fresh
<1>7. CASE Lists!Tick
  <2>0. PICK s \in Slots : listsReq[s].kind = "none" /\ listsReq' = Lists!Begin(s, "queue")
    BY <1>7 DEF Lists!Tick
  <2>1. listsReq' \in [Slots -> RequestType] /\ Loads(s, "queue")
    BY <2>0, <1>0, <1>2, BeginTyped
  <2>2. panel' = panel /\ version' = version /\ list' = list /\ listsDoubt' = listsDoubt /\ active' = active
          /\ listsEpoch' = listsEpoch /\ listsToken' = listsToken /\ admin' = admin
    BY <1>7 DEF Lists!Tick, Lists!pageVars
  <2>3. Lists!TimerOnlyWhileOpen'
    BY <2>2, <1>0 DEF Lists!TimerOnlyWhileOpen
  <2>4. listsToken' \in BOOLEAN /\ admin' \in BOOLEAN /\ panel' \in [open : BOOLEAN, timers : 0..1]
        /\ (~listsToken' => panel' = Lists!Closed)
    BY <2>2, <1>0, <1>1
  <2>5. PICK l \in Lists!Lists : l = "queue"
    BY <1>2
  <2>6. Loads(s, l)
    BY <2>1, <2>5
  <2> QED
    BY <2>0, <2>1, <2>2, <2>3, <2>4, <2>6, LoadKeeps
<1>8. CASE \E t \in RefTables : Lists!loadRefTable(t)
  <2>1. PICK t \in RefTables : Lists!loadRefTable(t)
    BY <1>8
  <2>2. t \in Lists!Lists /\ Lists!StartLoad(t) /\ version' = version /\ list' = list /\ listsDoubt' = listsDoubt /\ active' = t
          /\ listsEpoch' = listsEpoch /\ listsToken' = listsToken /\ admin' = admin /\ panel' = panel
    BY <2>1, <1>2 DEF Lists!loadRefTable
  <2> QED
    BY <2>2, <1>4
<1>9. CASE Lists!openQueuePanel
  <2>1. PICK l \in Lists!Lists : l = "queue"
    BY <1>2
  <2>2. Lists!StartLoad(l) /\ version' = version /\ list' = list /\ listsDoubt' = listsDoubt /\ active' = active
          /\ listsEpoch' = listsEpoch /\ listsToken' = listsToken /\ admin' = admin /\ panel' = [open |-> TRUE, timers |-> 1]
    BY <2>1, <1>9 DEF Lists!openQueuePanel
  <2> QED
    BY <2>2, <1>4
<1>10. CASE Lists!deleteRefRow
  <2>1. active \in Lists!Lists
    BY <1>1, <1>2, <1>10 DEF Lists!deleteRefRow
  <2> QED
    BY <2>1, <1>10, ChangeKeeps DEF Lists!deleteRefRow
<1>11. CASE Lists!createUser \/ Lists!deleteUser \/ Lists!saveRoute \/ Lists!deleteRoute \/ Lists!cancelQueuedTask
  BY <1>2, <1>11, ChangeKeeps DEF Lists!createUser, Lists!deleteUser, Lists!saveRoute, Lists!deleteRoute, Lists!cancelQueuedTask
<1>12. CASE Lists!loadHistory \/ Lists!loadUsers \/ Lists!loadActivityLogs \/ Lists!loadRoutes
  BY <1>2, <1>5, <1>12 DEF Lists!loadHistory, Lists!loadUsers, Lists!loadActivityLogs, Lists!loadRoutes
<1>13. CASE \E s \in Slots : Lists!Serve(s) \/ Lists!Arrives(s)
  BY <1>13, ServeKeeps, LoadArrivesKeeps, ChangeAnsweredKeeps, FailsKeeps DEF Lists!Arrives
<1>14. CASE Lists!doLogout
  BY <1>14, LogoutKeeps
<1>15. CASE UNCHANGED Lists!vars
  BY <1>15 DEF ListsInv, Lists!TypeOK, Lists!TimerOnlyWhileOpen, Lists!RowsFitTheirTab, Lists!Filled, AnswersAreCurrent, NewsIsOut, Lists!Shown,
       Pending, Fresh, Lists!vars, Lists!pageVars
<1> QED
  BY <1>3, <1>6, <1>7, <1>8, <1>9, <1>10, <1>11, <1>12, <1>13, <1>14, <1>15 DEF Lists!Next

LEMMA ListsStayCurrent == ListsInv => Lists!ListsAreCurrent
<1> SUFFICES ASSUME ListsInv PROVE Lists!ListsAreCurrent
  OBVIOUS
<1>1. \A l \in Lists!Kept : ~Lists!Out(l) => ~Pending(l) /\ \A s \in Slots : ~Fresh(s, l)
  BY DEF Lists!Out, Pending, Fresh
<1> QED
  BY <1>1 DEF ListsInv, Lists!ListsAreCurrent, Lists!SettledListsAreCurrent, NewsIsOut

-----------------------------------------------------------------------------
(* BrowserFiles *)

LEMMA ImportsSize ==
    \A S : Imports!Cardinality(S) = Cardinality(S) /\ (Imports!IsFiniteSet(S) <=> IsFiniteSet(S))
  BY DEF Imports!Cardinality, Cardinality, Imports!IsFiniteSet, IsFiniteSet

(* An upload that the server has not answered. *)
Unanswered == {s \in Slots : filesReq[s].kind \in {"upload", "uploadDelete"} /\ filesReq[s].code = ""}
UploadsFit == Len(uploads) + Imports!Cardinality(Unanswered) <= MaxUploads

(* The upload of a request is one that the server gave out, and an upload   *)
(* carries a file the user chose.                                           *)
UploadsAreKnown ==
    \A s \in Slots : /\ filesReq[s].upload \in {0} \cup DOMAIN uploads
                     /\ filesReq[s].kind \in {"upload", "uploadDelete"} => filesReq[s].file \in Files

(* An answered import tells about its own upload, and about every row of    *)
(* it; and an import that is out is for the file shown, unless that was     *)
(* replaced.                                                                *)
ImportsFit ==
    \A s \in Slots : filesReq[s].kind = "import" =>
        /\ ~filesReq[s].late => filesReq[s].upload = imp.upload
        /\ filesReq[s].code = "ok" =>
             /\ filesReq[s].result.upload = filesReq[s].upload
             /\ filesReq[s].result.inserted + filesReq[s].result.skipped = filesReq[s].result.total

(* A delete task that is followed is shown. *)
ExecutingMeansTask == del.executing => del.task.upload # 0

FilesInv ==
    Imports!TypeOK /\ UploadsFit /\ UploadsAreKnown /\ ImportsFit /\ ExecutingMeansTask
    /\ Imports!FilesKeepTheirResults

ImpType == [upload : Imports!Ids, importing : BOOLEAN, result : Imports!ResultType]
DelType == [upload : Imports!Ids, dry : BOOLEAN, executing : BOOLEAN, task : Imports!TaskType, resultDry : BOOLEAN]

LEMMA EmptyTypes ==
    ASSUME Imports!ConstantsFit
    PROVE  /\ Imports!NoResult \in Imports!ResultType /\ Imports!NoTask \in Imports!TaskType /\ Imports!NoImp \in ImpType /\ Imports!NoDel \in DelType
           /\ Imports!NoReq \in Imports!ReqType /\ 0 \in Imports!Ids /\ 0 \in 0..MaxEpoch
<1>1. 0 \in Imports!Ids /\ 0 \in 0..MaxEpoch
  BY DEF Imports!ConstantsFit, Imports!Ids
<1>2. Imports!NoResult \in Imports!ResultType
  BY <1>1 DEF Imports!NoResult, Imports!ResultType
<1>3. Imports!NoTask \in Imports!TaskType
  BY <1>1 DEF Imports!NoTask, Imports!TaskType
<1>4. Imports!NoImp \in ImpType
  BY <1>1, <1>2 DEF Imports!NoImp, ImpType
<1>5. Imports!NoDel \in DelType
  BY <1>1, <1>3 DEF Imports!NoDel, DelType
<1>6. Imports!NoReq \in Imports!ReqType
  BY <1>1, <1>2 DEF Imports!NoReq, Imports!ReqType, Imports!Kinds
<1> QED
  BY <1>1, <1>2, <1>3, <1>4, <1>5, <1>6

LEMMA NoRequest == Imports!NoReq.kind = "none" /\ Imports!NoReq.upload = 0
  BY DEF Imports!NoReq

LEMMA FilesInit == Imports!ConstantsFit /\ Imports!Init => FilesInv
<1> SUFFICES ASSUME Imports!ConstantsFit, Imports!Init PROVE FilesInv
  OBVIOUS
<1>1. filesReq \in [Slots -> Imports!ReqType] /\ \A s \in Slots : filesReq[s] = Imports!NoReq
  BY EmptyTypes DEF Imports!Init
<1>2. uploads = <<>> /\ filesStored = {} /\ filesTable \subseteq Names /\ imp = Imports!NoImp /\ del = Imports!NoDel /\ filesEpoch = 0
  BY DEF Imports!Init
<1>3. uploads \in Seq(Files) /\ Len(uploads) = 0 /\ DOMAIN uploads = {}
  BY <1>2
<1>4. imp.upload = 0 /\ ~imp.importing /\ imp.result = Imports!NoResult
  BY <1>2 DEF Imports!NoImp
<1>5. del.upload = 0 /\ ~del.executing /\ del.task = Imports!NoTask
  BY <1>2 DEF Imports!NoDel
<1>6. Imports!TypeOK
  <2>1. filesEpoch \in 0..MaxEpoch /\ Len(uploads) \in Imports!Ids
    BY <1>2, <1>3, EmptyTypes
  <2>2. imp \in ImpType /\ del \in DelType
    BY <1>2, EmptyTypes
  <2> QED
    BY <2>1, <2>2, <1>1, <1>2, <1>3, <1>4, <1>5 DEF Imports!TypeOK, ImpType, DelType
<1>7. UploadsFit
  <2>0. \A s \in Slots : filesReq[s].kind = "none"
    BY <1>1, NoRequest
  <2>1. Unanswered = {}
    BY <2>0 DEF Unanswered
  <2>2. Imports!Cardinality(Unanswered) = 0
    BY <2>1, ImportsSize, FS_EmptySet
  <2>3. Len(uploads) + Imports!Cardinality(Unanswered) = 0 /\ MaxUploads \in Nat
    BY <2>2, <1>3 DEF Imports!ConstantsFit
  <2> QED
    BY <2>3 DEF UploadsFit
<1>8. UploadsAreKnown /\ ImportsFit
  BY <1>1, NoRequest DEF UploadsAreKnown, ImportsFit
<1>9. Imports!FilesKeepTheirResults
  BY <1>4, <1>5 DEF Imports!FilesKeepTheirResults, Imports!ImportingMeansOut, Imports!ResultFitsFile, Imports!ImportAddsUp, Imports!DeleteTitleIsTrue,
     Imports!DeleteFitsFile, Imports!NoResult
<1> QED
  BY <1>5, <1>6, <1>7, <1>8, <1>9 DEF FilesInv, ExecutingMeansTask

-----------------------------------------------------------------------------
(* Cardinalities *)

(* A sequence names no more things than it has places. *)
LEMMA NamesFit ==
    ASSUME NEW S, NEW f \in Seq(S), NEW X, X \subseteq DOMAIN f
    PROVE  IsFiniteSet(Imports!NamesOf(f, X)) /\ Imports!Cardinality(Imports!NamesOf(f, X)) <= Len(f)
<1>1. DOMAIN f = 1..Len(f) /\ Len(f) \in Nat
  OBVIOUS
<1>2. IsFiniteSet(1..Len(f)) /\ Imports!Cardinality(1..Len(f)) = Len(f)
  <2>1. IsFiniteSet(1..Len(f)) /\ Imports!Cardinality(1..Len(f)) = IF 1 > Len(f) THEN 0 ELSE Len(f) - 1 + 1
    BY <1>1, ImportsSize, FS_Interval, 1 \in Int, Len(f) \in Int
  <2> QED
    BY <2>1, <1>1
<1>3. X \in SUBSET (1..Len(f))
  BY <1>1
<1>4. IsFiniteSet(X) /\ Imports!Cardinality(X) <= Len(f)
  BY <1>2, <1>3, ImportsSize, FS_Subset
<1> DEFINE g == [i \in X |-> f[i]]
<1>5. g \in Surjection(X, Imports!NamesOf(f, X))
  BY DEF Surjection, Imports!NamesOf
<1> HIDE DEF g
<1>6. IsFiniteSet(Imports!NamesOf(f, X)) /\ Imports!Cardinality(Imports!NamesOf(f, X)) <= Imports!Cardinality(X)
  BY <1>4, <1>5, ImportsSize, FS_Surjection
<1>7. Imports!Cardinality(X) \in Nat /\ Imports!Cardinality(Imports!NamesOf(f, X)) \in Nat
  BY <1>4, <1>6, ImportsSize, FS_CardinalityType
<1> QED
  BY <1>1, <1>4, <1>6, <1>7

(* The result of an import counts every row once. *)
LEMMA ImportCounts ==
    ASSUME Imports!ConstantsFit, Imports!TypeOK, NEW u \in DOMAIN uploads
    PROVE  /\ Imports!ImportStaging(u) \in Imports!ResultType
           /\ Imports!ImportStaging(u).upload = u
           /\ Imports!ImportStaging(u).inserted + Imports!ImportStaging(u).skipped = Imports!ImportStaging(u).total
           /\ Imports!NamesOf(uploads[u], Imports!Named(uploads[u])) \subseteq Names
<1> DEFINE f == uploads[u]
           n == Imports!rowcount(f, filesTable)
           m == Imports!Cardinality(Imports!NamesOf(f, Imports!Named(f)) \ filesTable)
<1>1. f \in Seq(Names \cup {Unnamed}) /\ u \in Imports!Ids
  <2>1. uploads \in Seq(Files) /\ Len(uploads) \in 0..MaxUploads /\ MaxUploads \in Nat
    BY DEF Imports!TypeOK, Imports!Ids, Imports!ConstantsFit
  <2>2. u \in 1..Len(uploads) /\ f \in Files
    BY <2>1, ElementOfSeq
  <2> QED
    BY <2>1, <2>2 DEF Imports!Ids, Imports!ConstantsFit
<1>2. Len(f) \in Nat
  BY <1>1, LenProperties
<1>3. Imports!Named(f) \subseteq DOMAIN f /\ Imports!LastPage(f) \subseteq DOMAIN f
  BY DEF Imports!Named, Imports!LastPage
<1>4. n \in Nat /\ n <= Len(f)
  <2> DEFINE names == Imports!NamesOf(f, Imports!LastPage(f))
             new == names \ (filesTable \cup Imports!NamesOf(f, Imports!Named(f) \ Imports!LastPage(f)))
  <2>1. IsFiniteSet(names) /\ Imports!Cardinality(names) <= Len(f)
    BY <1>1, <1>3, NamesFit
  <2>2. n = Imports!Cardinality(new)
    BY DEF Imports!rowcount
  <2>3. new \in SUBSET names
    OBVIOUS
  <2> HIDE DEF names, new, n, f
  <2>4. IsFiniteSet(new) /\ Imports!Cardinality(new) <= Imports!Cardinality(names)
    BY <2>1, <2>3, ImportsSize, FS_Subset
  <2>5. Imports!Cardinality(new) \in Nat /\ Imports!Cardinality(names) \in Nat
    BY <2>1, <2>4, ImportsSize, FS_CardinalityType
  <2> QED
    BY <2>1, <2>2, <2>4, <2>5, <1>2
<1>5. m \in Nat
  <2> DEFINE names == Imports!NamesOf(f, Imports!Named(f))
  <2>1. IsFiniteSet(names)
    BY <1>1, <1>3, NamesFit
  <2>2. names \ filesTable \in SUBSET names
    OBVIOUS
  <2> HIDE DEF names
  <2>3. IsFiniteSet(names \ filesTable)
    BY <2>1, <2>2, ImportsSize, FS_Subset
  <2> QED
    BY <2>3, ImportsSize, FS_CardinalityType DEF names
<1>6. Imports!ImportStaging(u) = [inserted |-> n, skipped |-> Len(f) - n, total |-> Len(f), upload |-> u, added |-> m, late |-> FALSE]
  BY DEF Imports!ImportStaging
<1>7. Imports!NamesOf(f, Imports!Named(f)) \subseteq Names
  <2> SUFFICES ASSUME NEW i \in Imports!Named(f) PROVE f[i] \in Names
    BY DEF Imports!NamesOf
  <2>1. i \in 1..Len(f) /\ f[i] # Unnamed
    BY <1>1 DEF Imports!Named
  <2>2. f[i] \in Names \cup {Unnamed}
    BY <2>1, <1>1, ElementOfSeq
  <2> QED
    BY <2>1, <2>2
<1> HIDE DEF n, m, f
<1>8. Len(f) - n \in Nat /\ n + (Len(f) - n) = Len(f)
  BY <1>2, <1>4
<1>9. Imports!ImportStaging(u) \in Imports!ResultType
  BY <1>1, <1>2, <1>4, <1>5, <1>6, <1>8 DEF Imports!ResultType
<1> QED
  BY <1>6, <1>7, <1>8, <1>9 DEF f

LEMMA UnansweredFinite == Imports!ConstantsFit => /\ IsFiniteSet(Unanswered) /\ Imports!Cardinality(Unanswered) \in Nat
                                          /\ IsFiniteSet(Unanswered') /\ Imports!Cardinality(Unanswered') \in Nat
<1> SUFFICES ASSUME Imports!ConstantsFit
             PROVE  /\ IsFiniteSet(Unanswered) /\ Imports!Cardinality(Unanswered) \in Nat
                    /\ IsFiniteSet(Unanswered') /\ Imports!Cardinality(Unanswered') \in Nat
  OBVIOUS
<1>1. Unanswered \in SUBSET Slots /\ Unanswered' \in SUBSET Slots /\ IsFiniteSet(Slots)
  BY ImportsSize DEF Unanswered, Imports!ConstantsFit
<1>2. IsFiniteSet(Unanswered) /\ IsFiniteSet(Unanswered')
  BY <1>1, ImportsSize, FS_Subset
<1> QED
  BY <1>2, ImportsSize, FS_CardinalityType

(* An upload is answered, fails, or nothing happens to it. *)
LEMMA UploadsStillFit ==
    ASSUME Imports!ConstantsFit, Imports!TypeOK, UploadsFit, uploads' = uploads,
           Unanswered' \subseteq Unanswered
    PROVE  UploadsFit'
<1>1. IsFiniteSet(Unanswered) /\ Unanswered' \in SUBSET Unanswered
      /\ Imports!Cardinality(Unanswered) \in Nat /\ Imports!Cardinality(Unanswered') \in Nat
  BY UnansweredFinite
<1>2. Imports!Cardinality(Unanswered') <= Imports!Cardinality(Unanswered)
  BY <1>1, ImportsSize, FS_Subset
<1>3. Len(uploads) \in Nat /\ MaxUploads \in Nat
  BY DEF Imports!TypeOK, Imports!ConstantsFit
<1>4. Len(uploads') = Len(uploads)
  OBVIOUS
<1> QED
  BY <1>1, <1>2, <1>3, <1>4 DEF UploadsFit

-----------------------------------------------------------------------------
(* The steps *)

FilesTyped ==
    /\ filesEpoch \in 0..MaxEpoch
    /\ uploads \in Seq(Files) /\ Len(uploads) \in Imports!Ids /\ filesStored \subseteq DOMAIN uploads
    /\ filesTable \subseteq Names
    /\ imp \in ImpType
    /\ del \in DelType
    /\ filesReq \in [Slots -> Imports!ReqType]
    /\ imp.upload \in {0} \cup DOMAIN uploads /\ del.upload \in {0} \cup DOMAIN uploads

LEMMA FilesAreTyped == (FilesTyped <=> Imports!TypeOK) /\ (FilesTyped' <=> Imports!TypeOK')
  BY DEF FilesTyped, Imports!TypeOK, ImpType, DelType

(* What a step of one request does to the others: nothing, or it makes the  *)
(* imports late.                                                            *)
Beside(s) ==
    \A q \in Slots \ {s} :
        /\ filesReq'[q].kind = filesReq[q].kind /\ filesReq'[q].upload = filesReq[q].upload
        /\ filesReq'[q].code = filesReq[q].code /\ filesReq'[q].result = filesReq[q].result
        /\ filesReq[q].late => filesReq'[q].late

LEMMA SetBeside ==
    ASSUME NEW s \in Slots, NEW r \in Imports!ReqType, filesReq \in [Slots -> Imports!ReqType], filesReq' = [filesReq EXCEPT ![s] = r]
    PROVE  filesReq' \in [Slots -> Imports!ReqType] /\ filesReq'[s] = r /\ (\A q \in Slots \ {s} : filesReq'[q] = filesReq[q]) /\ Beside(s)
<1>1. filesReq' \in [Slots -> Imports!ReqType] /\ filesReq'[s] = r /\ (\A q \in Slots \ {s} : filesReq'[q] = filesReq[q])
  OBVIOUS
<1> QED
  BY <1>1 DEF Beside

(* A request begins, for a file or for an upload that is shown. *)
ForUpload(kind, u) == [Imports!NoReq EXCEPT !.kind = kind, !.epoch = filesEpoch, !.upload = u]
ForFile(kind, f) == [Imports!NoReq EXCEPT !.kind = kind, !.epoch = filesEpoch, !.file = f]

LEMMA NewUpload ==
    ASSUME Imports!ConstantsFit, NEW kind \in Imports!Kinds, NEW f \in Files, filesEpoch \in 0..MaxEpoch
    PROVE  /\ ForFile(kind, f) \in Imports!ReqType
           /\ ForFile(kind, f).kind = kind /\ ForFile(kind, f).upload = 0
           /\ ForFile(kind, f).file = f
<1>1. Imports!NoReq \in Imports!ReqType
  BY EmptyTypes
<1>2. ForFile(kind, f) \in Imports!ReqType
  BY <1>1 DEF Imports!NoReq, Imports!ReqType, ForFile
<1> QED
  BY <1>2 DEF Imports!NoReq, ForFile

LEMMA ChooseFileKeeps ==
    ASSUME Imports!ConstantsFit, FilesInv, NEW kind \in {"upload", "uploadDelete"}, NEW f \in Files, Imports!ChooseFile(kind, f)
    PROVE  FilesInv'
<1>0. Imports!TypeOK /\ FilesTyped /\ UploadsFit /\ UploadsAreKnown /\ ImportsFit /\ ExecutingMeansTask /\ Imports!FilesKeepTheirResults
  BY FilesAreTyped DEF FilesInv
<1>1. PICK s \in Slots : /\ filesReq[s].kind = "none"
                         /\ filesReq' = [filesReq EXCEPT ![s] = [Imports!NoReq EXCEPT !.kind = kind, !.epoch = filesEpoch, !.file = f]]
  BY DEF Imports!ChooseFile
<1>2. uploads' = uploads /\ filesStored' = filesStored /\ filesTable' = filesTable /\ imp' = imp /\ del' = del /\ filesEpoch' = filesEpoch
  BY DEF Imports!ChooseFile
<1> DEFINE r == ForFile(kind, f)
<1>3. r \in Imports!ReqType /\ r.kind = kind /\ r.upload = 0 /\ r.file = f
  <2>1. kind \in Imports!Kinds /\ filesEpoch \in 0..MaxEpoch
    BY <1>0 DEF Imports!Kinds, FilesTyped
  <2> QED
    BY <2>1, NewUpload
<1> HIDE DEF r
<1>4. filesReq' \in [Slots -> Imports!ReqType] /\ filesReq'[s] = r /\ (\A q \in Slots \ {s} : filesReq'[q] = filesReq[q])
  BY <1>0, <1>1, <1>3, SetBeside DEF FilesTyped, r, ForFile
<1>5. FilesTyped'
  BY <1>0, <1>2, <1>4 DEF FilesTyped
<1>6. UploadsFit'
  <2> DEFINE out == Imports!Out("upload") \cup Imports!Out("uploadDelete")
  <2>1. out \in SUBSET Slots /\ Unanswered \in SUBSET out /\ Unanswered' \in SUBSET (out \cup {s}) /\ IsFiniteSet(Slots)
    BY <1>4, ImportsSize DEF Imports!Out, Unanswered, Imports!ConstantsFit
  <2> HIDE DEF out
  <2>2. IsFiniteSet(out)
    BY <2>1, ImportsSize, FS_Subset
  <2>3. Imports!Cardinality(out) \in Nat
    BY <2>2, ImportsSize, FS_CardinalityType
  <2>4. IsFiniteSet(out \cup {s}) /\ Imports!Cardinality(out \cup {s}) = IF s \in out THEN Imports!Cardinality(out) ELSE Imports!Cardinality(out) + 1
    BY <2>2, ImportsSize, FS_AddElement
  <2>5. Imports!Cardinality(Unanswered') <= Imports!Cardinality(out \cup {s})
    BY <2>1, <2>4, ImportsSize, FS_Subset
  <2>6. Len(uploads) \in Nat /\ MaxUploads \in Nat /\ Len(uploads) + Imports!Cardinality(out) < MaxUploads
    BY <1>0 DEF Imports!ChooseFile, Imports!Sent, out, FilesTyped, Imports!Ids, Imports!ConstantsFit
  <2>7. Imports!Cardinality(Unanswered') \in Nat
    BY UnansweredFinite
  <2>8. Imports!Cardinality(out \cup {s}) <= Imports!Cardinality(out) + 1 /\ Imports!Cardinality(out \cup {s}) \in Nat
    BY <2>3, <2>4
  <2>9. Len(uploads) + Imports!Cardinality(Unanswered') <= MaxUploads
    BY <2>3, <2>5, <2>6, <2>7, <2>8
  <2> QED
    BY <2>9, <1>2 DEF UploadsFit
<1>7. UploadsAreKnown'
  BY <1>0, <1>2, <1>3, <1>4 DEF UploadsAreKnown
<1>8. ImportsFit'
  BY <1>0, <1>2, <1>3, <1>4 DEF ImportsFit
<1>9. Imports!ImportingMeansOut'
  BY <1>0, <1>1, <1>2, <1>4 DEF Imports!ImportingMeansOut, Imports!Out, Imports!FilesKeepTheirResults
<1>10. Imports!FilesKeepTheirResults'
  BY <1>0, <1>2, <1>9 DEF Imports!FilesKeepTheirResults, Imports!ResultFitsFile, Imports!ImportAddsUp, Imports!DeleteTitleIsTrue, Imports!DeleteFitsFile
<1> QED
  BY <1>0, <1>2, <1>5, <1>6, <1>7, <1>8, <1>10, FilesAreTyped DEF FilesInv, ExecutingMeansTask

(* The imports become late, and one request may end. *)
LEMMA OvertakenShape ==
    ASSUME Imports!ConstantsFit, filesReq \in [Slots -> Imports!ReqType],
           NEW over, \A q \in Slots : over[q] = [filesReq[q] EXCEPT !.late = @ \/ filesReq[q].kind = "import"]
    PROVE  \A q \in Slots :
             /\ over[q] \in Imports!ReqType
             /\ over[q].kind = filesReq[q].kind /\ over[q].upload = filesReq[q].upload
             /\ over[q].code = filesReq[q].code /\ over[q].result = filesReq[q].result /\ over[q].file = filesReq[q].file
             /\ over[q].kind = "import" => over[q].late
<1> SUFFICES ASSUME NEW q \in Slots
             PROVE  /\ over[q] \in Imports!ReqType
                    /\ over[q].kind = filesReq[q].kind /\ over[q].upload = filesReq[q].upload
                    /\ over[q].code = filesReq[q].code /\ over[q].result = filesReq[q].result /\ over[q].file = filesReq[q].file
                    /\ over[q].kind = "import" => over[q].late
  OBVIOUS
<1> DEFINE b == filesReq[q].late \/ filesReq[q].kind = "import"
<1>1. filesReq[q] \in Imports!ReqType
  OBVIOUS
<1>2. b \in BOOLEAN /\ (filesReq[q].kind = "import" => b)
  BY <1>1 DEF Imports!ReqType
<1>3. over[q] = [filesReq[q] EXCEPT !.late = b]
  OBVIOUS
<1> HIDE DEF b
<1> QED
  BY <1>1, <1>2, <1>3 DEF Imports!ReqType

LEMMA UploadAnsweredKeeps ==
    ASSUME Imports!ConstantsFit, FilesInv, NEW s \in Slots, Imports!UploadAnswered(s)
    PROVE  FilesInv'
<1>0. Imports!TypeOK /\ FilesTyped /\ UploadsFit /\ UploadsAreKnown /\ ImportsFit /\ ExecutingMeansTask /\ Imports!FilesKeepTheirResults
  BY FilesAreTyped DEF FilesInv
<1>1. filesReq[s].kind = "upload" /\ filesReq' = Imports!Overtaken(s)
      /\ imp' = [imp EXCEPT !.upload = filesReq[s].upload, !.result = Imports!NoResult]
      /\ uploads' = uploads /\ filesStored' = filesStored /\ filesTable' = filesTable /\ del' = del /\ filesEpoch' = filesEpoch
  BY DEF Imports!UploadAnswered
<1> DEFINE over == [q \in Slots |-> [filesReq[q] EXCEPT !.late = @ \/ filesReq[q].kind = "import"]]
<1>2. \A q \in Slots :
             /\ over[q] \in Imports!ReqType
             /\ over[q].kind = filesReq[q].kind /\ over[q].upload = filesReq[q].upload
             /\ over[q].code = filesReq[q].code /\ over[q].result = filesReq[q].result /\ over[q].file = filesReq[q].file
             /\ over[q].kind = "import" => over[q].late
  BY <1>0, OvertakenShape DEF FilesTyped
<1>3. filesReq' = [q \in Slots |-> IF q = s THEN Imports!NoReq ELSE over[q]]
  BY <1>1 DEF Imports!Overtaken
<1> HIDE DEF over
<1>4. filesReq' \in [Slots -> Imports!ReqType] /\ filesReq'[s] = Imports!NoReq /\ (\A q \in Slots \ {s} : filesReq'[q] = over[q])
      /\ Imports!NoReq.kind = "none" /\ Imports!NoReq.upload = 0
  BY <1>2, <1>3, EmptyTypes DEF Imports!NoReq
<1>5. imp \in ImpType /\ filesReq[s] \in Imports!ReqType /\ filesReq[s].upload \in {0} \cup DOMAIN uploads /\ filesReq[s].upload \in Imports!Ids
  BY <1>0 DEF FilesTyped, UploadsAreKnown, Imports!ReqType
<1>6. imp' \in ImpType /\ imp'.upload = filesReq[s].upload /\ imp'.result = Imports!NoResult /\ imp'.importing = imp.importing
  BY <1>1, <1>5, EmptyTypes DEF ImpType
<1>7. FilesTyped'
  BY <1>0, <1>1, <1>4, <1>5, <1>6 DEF FilesTyped
<1>8. UploadsFit'
  <2>1. Unanswered' \subseteq Unanswered
    BY <1>2, <1>4 DEF Unanswered
  <2> QED
    BY <2>1, <1>0, <1>1, UploadsStillFit
<1>9. UploadsAreKnown'
  BY <1>0, <1>1, <1>2, <1>4 DEF UploadsAreKnown
<1>10. ImportsFit'
  BY <1>0, <1>1, <1>2, <1>4 DEF ImportsFit
<1>11. Imports!ImportingMeansOut'
  BY <1>0, <1>1, <1>2, <1>4, <1>6 DEF Imports!ImportingMeansOut, Imports!Out, Imports!FilesKeepTheirResults
<1>12. Imports!ResultFitsFile' /\ Imports!ImportAddsUp'
  BY <1>6 DEF Imports!ResultFitsFile, Imports!ImportAddsUp, Imports!NoResult
<1>13. Imports!FilesKeepTheirResults'
  BY <1>0, <1>1, <1>11, <1>12 DEF Imports!FilesKeepTheirResults, Imports!DeleteTitleIsTrue, Imports!DeleteFitsFile
<1> QED
  BY <1>0, <1>1, <1>7, <1>8, <1>9, <1>10, <1>13, FilesAreTyped DEF FilesInv, ExecutingMeansTask

(* The tab is emptied, by its link or by a logout. *)
LEMMA EmptiedKeeps ==
    ASSUME Imports!ConstantsFit, FilesInv, Imports!resetUpload \/ Imports!doLogout
    PROVE  FilesInv'
<1>0. Imports!TypeOK /\ FilesTyped /\ UploadsFit /\ UploadsAreKnown /\ ImportsFit /\ ExecutingMeansTask /\ Imports!FilesKeepTheirResults
  BY FilesAreTyped DEF FilesInv
<1> DEFINE over == [q \in Slots |-> [filesReq[q] EXCEPT !.late = @ \/ filesReq[q].kind = "import"]]
<1>1. filesReq' = over /\ imp' = Imports!NoImp /\ uploads' = uploads /\ filesStored' = filesStored /\ filesTable' = filesTable
      /\ (del' = del \/ del' = Imports!NoDel)
  BY DEF Imports!resetUpload, Imports!doLogout
<1>2. \A q \in Slots :
             /\ over[q] \in Imports!ReqType
             /\ over[q].kind = filesReq[q].kind /\ over[q].upload = filesReq[q].upload
             /\ over[q].code = filesReq[q].code /\ over[q].result = filesReq[q].result /\ over[q].file = filesReq[q].file
             /\ over[q].kind = "import" => over[q].late
  BY <1>0, OvertakenShape DEF FilesTyped
<1>3. over \in [Slots -> Imports!ReqType]
  <2>1. \A q \in Slots : over[q] \in Imports!ReqType
    BY <1>2
  <2>2. over = [q \in Slots |-> over[q]]
    OBVIOUS
  <2> HIDE DEF over
  <2> QED
    BY <2>1, <2>2
<1> HIDE DEF over
<1>4. filesEpoch' \in 0..MaxEpoch
  BY <1>0 DEF Imports!resetUpload, Imports!doLogout, FilesTyped, Imports!ConstantsFit
<1>5. imp' \in ImpType /\ imp'.upload = 0 /\ imp'.result = Imports!NoResult /\ ~imp'.importing
  BY <1>1, EmptyTypes DEF Imports!NoImp
<1>6. Imports!NoDel \in DelType /\ Imports!NoDel.upload = 0 /\ ~Imports!NoDel.executing /\ Imports!NoDel.task = Imports!NoTask
  BY EmptyTypes DEF Imports!NoDel
<1>7. FilesTyped'
  BY <1>0, <1>1, <1>3, <1>4, <1>5, <1>6 DEF FilesTyped
<1>8. UploadsFit'
  <2>1. Unanswered' \subseteq Unanswered
    BY <1>1, <1>2 DEF Unanswered
  <2> QED
    BY <2>1, <1>0, <1>1, UploadsStillFit
<1>9. UploadsAreKnown'
  BY <1>0, <1>1, <1>2 DEF UploadsAreKnown
<1>10. ImportsFit'
  BY <1>0, <1>1, <1>2 DEF ImportsFit
<1>11. Imports!ImportingMeansOut' /\ Imports!ResultFitsFile' /\ Imports!ImportAddsUp'
  BY <1>5 DEF Imports!ImportingMeansOut, Imports!ResultFitsFile, Imports!ImportAddsUp, Imports!NoResult
<1>12. Imports!DeleteTitleIsTrue' /\ Imports!DeleteFitsFile' /\ ExecutingMeansTask'
  BY <1>0, <1>1, <1>6 DEF Imports!DeleteTitleIsTrue, Imports!DeleteFitsFile, ExecutingMeansTask, Imports!FilesKeepTheirResults
<1>13. Imports!FilesKeepTheirResults'
  BY <1>11, <1>12 DEF Imports!FilesKeepTheirResults
<1> QED
  BY <1>7, <1>8, <1>9, <1>10, <1>12, <1>13, FilesAreTyped DEF FilesInv

(* What a step leaves of the upload tab, and of the delete tab. *)
LEMMA ImpStays ==
    ASSUME Imports!FilesKeepTheirResults, imp' = imp,
           \A q \in Slots : filesReq[q].kind = "import" => filesReq'[q].kind = "import"
    PROVE  Imports!ImportingMeansOut' /\ Imports!ResultFitsFile' /\ Imports!ImportAddsUp'
  BY DEF Imports!FilesKeepTheirResults, Imports!ImportingMeansOut, Imports!ResultFitsFile, Imports!ImportAddsUp, Imports!Out

LEMMA DelStays ==
    ASSUME Imports!FilesKeepTheirResults, ExecutingMeansTask, del' = del
    PROVE  Imports!DeleteTitleIsTrue' /\ Imports!DeleteFitsFile' /\ ExecutingMeansTask'
  BY DEF Imports!FilesKeepTheirResults, Imports!DeleteTitleIsTrue, Imports!DeleteFitsFile, ExecutingMeansTask

(* A request ends, and the delete tab may change. *)
LEMMA DeleteTabKeeps ==
    ASSUME Imports!ConstantsFit, FilesInv, NEW s \in Slots, Imports!DeleteUploadAnswered(s) \/ Imports!UploadFails(s) \/ Imports!DeleteEnds(s)
    PROVE  FilesInv'
<1>0. Imports!TypeOK /\ FilesTyped /\ UploadsFit /\ UploadsAreKnown /\ ImportsFit /\ ExecutingMeansTask /\ Imports!FilesKeepTheirResults
  BY FilesAreTyped DEF FilesInv
<1>1. filesReq[s].kind \in {"upload", "uploadDelete", "delete"} /\ filesReq' = [filesReq EXCEPT ![s] = Imports!NoReq]
      /\ uploads' = uploads /\ filesStored' = filesStored /\ filesTable' = filesTable /\ imp' = imp /\ filesEpoch' = filesEpoch
  BY DEF Imports!DeleteUploadAnswered, Imports!UploadFails, Imports!DeleteEnds
<1>2. Imports!NoReq \in Imports!ReqType /\ Imports!NoTask \in Imports!TaskType
  BY EmptyTypes
<1>3. filesReq' \in [Slots -> Imports!ReqType] /\ filesReq'[s] = Imports!NoReq /\ (\A q \in Slots \ {s} : filesReq'[q] = filesReq[q])
      /\ Imports!NoReq.kind = "none" /\ Imports!NoReq.upload = 0
  BY <1>0, <1>1, <1>2, SetBeside, NoRequest DEF FilesTyped
<1>4. /\ del' \in DelType /\ del'.upload \in {0} \cup DOMAIN uploads
      /\ Imports!DeleteTitleIsTrue' /\ Imports!DeleteFitsFile' /\ ExecutingMeansTask'
  <2>1. CASE del' = del
    BY <2>1, <1>0, DelStays DEF FilesTyped
  <2>2. CASE Imports!DeleteUploadAnswered(s)
    <3> DEFINE t == IF del.executing THEN [del.task EXCEPT !.kept = TRUE] ELSE Imports!NoTask
    <3>1. del \in DelType /\ filesReq[s].upload \in {0} \cup DOMAIN uploads /\ filesReq[s].upload \in Imports!Ids
      BY <1>0 DEF FilesTyped, UploadsAreKnown, Imports!ReqType
    <3>2. t \in Imports!TaskType /\ (del.executing => t.kept /\ t.upload = del.task.upload /\ t.dry = del.task.dry)
          /\ (~del.executing => t = Imports!NoTask)
      BY <3>1, <1>2 DEF DelType, Imports!TaskType
    <3> HIDE DEF t
    <3>3. del' = [del EXCEPT !.upload = filesReq[s].upload, !.task = t]
      BY <2>2 DEF Imports!DeleteUploadAnswered, t
    <3>4. del' \in DelType /\ del'.upload = filesReq[s].upload /\ del'.task = t /\ del'.executing = del.executing
          /\ del'.resultDry = del.resultDry
      BY <3>1, <3>2, <3>3 DEF DelType
    <3>5. del.executing => del.task # Imports!NoTask /\ del.resultDry = del.task.dry /\ del.task.upload # 0
      BY <1>0 DEF ExecutingMeansTask, Imports!NoTask, Imports!FilesKeepTheirResults, Imports!DeleteTitleIsTrue
    <3> QED
      BY <3>1, <3>2, <3>4, <3>5 DEF Imports!DeleteTitleIsTrue, Imports!DeleteFitsFile, ExecutingMeansTask
  <2>3. CASE del' = [del EXCEPT !.executing = FALSE]
    <3>1. del \in DelType
      BY <1>0 DEF FilesTyped
    <3>2. del' \in DelType /\ del'.upload = del.upload /\ del'.task = del.task /\ del'.resultDry = del.resultDry
          /\ ~del'.executing
      BY <2>3, <3>1 DEF DelType
    <3> QED
      BY <3>2, <1>0 DEF FilesTyped, Imports!DeleteTitleIsTrue, Imports!DeleteFitsFile, ExecutingMeansTask, Imports!FilesKeepTheirResults
  <2> QED
    BY <2>1, <2>2, <2>3 DEF Imports!UploadFails, Imports!DeleteEnds
<1>5. FilesTyped'
  BY <1>0, <1>1, <1>3, <1>4 DEF FilesTyped
<1>6. UploadsFit'
  <2>1. Unanswered' \subseteq Unanswered
    BY <1>3 DEF Unanswered
  <2> QED
    BY <2>1, <1>0, <1>1, UploadsStillFit
<1>7. UploadsAreKnown'
  BY <1>0, <1>1, <1>3 DEF UploadsAreKnown
<1>8. ImportsFit'
  BY <1>0, <1>1, <1>3 DEF ImportsFit
<1>9. Imports!ImportingMeansOut' /\ Imports!ResultFitsFile' /\ Imports!ImportAddsUp'
  BY <1>0, <1>1, <1>3, ImpStays
<1>10. Imports!FilesKeepTheirResults'
  BY <1>4, <1>9 DEF Imports!FilesKeepTheirResults
<1> QED
  BY <1>4, <1>5, <1>6, <1>7, <1>8, <1>10, FilesAreTyped DEF FilesInv

(* An import ends, with a result or without. *)
LEMMA ImportEndsKeeps ==
    ASSUME Imports!ConstantsFit, FilesInv, NEW s \in Slots, Imports!ImportAnswered(s) \/ Imports!ImportFails(s)
    PROVE  FilesInv'
<1>0. Imports!TypeOK /\ FilesTyped /\ UploadsFit /\ UploadsAreKnown /\ ImportsFit /\ ExecutingMeansTask /\ Imports!FilesKeepTheirResults
  BY FilesAreTyped DEF FilesInv
<1>1. filesReq[s].kind = "import" /\ filesReq' = [filesReq EXCEPT ![s] = Imports!NoReq]
      /\ uploads' = uploads /\ filesStored' = filesStored /\ filesTable' = filesTable /\ del' = del /\ filesEpoch' = filesEpoch
  BY DEF Imports!ImportAnswered, Imports!ImportFails
<1>2. Imports!NoReq \in Imports!ReqType
  BY EmptyTypes
<1>3. filesReq' \in [Slots -> Imports!ReqType] /\ filesReq'[s] = Imports!NoReq /\ (\A q \in Slots \ {s} : filesReq'[q] = filesReq[q])
      /\ Imports!NoReq.kind = "none" /\ Imports!NoReq.upload = 0
  BY <1>0, <1>1, <1>2, SetBeside, NoRequest DEF FilesTyped
<1>4. imp \in ImpType /\ filesReq[s] \in Imports!ReqType
  BY <1>0 DEF FilesTyped
<1>5. /\ imp' \in ImpType /\ imp'.upload = imp.upload /\ ~imp'.importing
      /\ Imports!ResultFitsFile' /\ Imports!ImportAddsUp'
  <2>1. CASE Imports!ImportAnswered(s)
    <3> DEFINE r == [filesReq[s].result EXCEPT !.late = filesReq[s].late]
    <3>1. filesReq[s].result \in Imports!ResultType /\ filesReq[s].late \in BOOLEAN
      BY <1>4 DEF Imports!ReqType
    <3>2. r \in Imports!ResultType /\ r.late = filesReq[s].late /\ r.upload = filesReq[s].result.upload
          /\ r.inserted = filesReq[s].result.inserted /\ r.skipped = filesReq[s].result.skipped /\ r.total = filesReq[s].result.total
      BY <3>1 DEF Imports!ResultType
    <3>3. imp' = [imp EXCEPT !.importing = FALSE, !.result = r] /\ filesReq[s].code = "ok"
      BY <2>1 DEF Imports!ImportAnswered
    <3> HIDE DEF r
    <3>4. imp' \in ImpType /\ imp'.upload = imp.upload /\ imp'.importing = FALSE /\ imp'.result = r
      BY <3>2, <3>3, <1>4 DEF ImpType
    <3>5. /\ ~filesReq[s].late => filesReq[s].upload = imp.upload
          /\ filesReq[s].result.upload = filesReq[s].upload
          /\ filesReq[s].result.inserted + filesReq[s].result.skipped = filesReq[s].result.total
      BY <1>0, <1>1, <3>3 DEF ImportsFit
    <3> QED
      BY <3>2, <3>4, <3>5 DEF Imports!ResultFitsFile, Imports!ImportAddsUp
  <2>2. CASE Imports!ImportFails(s)
    <3>1. imp' = [imp EXCEPT !.importing = FALSE]
      BY <2>2 DEF Imports!ImportFails
    <3>2. imp' \in ImpType /\ imp'.upload = imp.upload /\ imp'.importing = FALSE /\ imp'.result = imp.result
      BY <3>1, <1>4 DEF ImpType
    <3> QED
      BY <3>2, <1>0 DEF Imports!ResultFitsFile, Imports!ImportAddsUp, Imports!FilesKeepTheirResults
  <2> QED
    BY <2>1, <2>2
<1>6. FilesTyped'
  BY <1>0, <1>1, <1>3, <1>5 DEF FilesTyped
<1>7. UploadsFit'
  <2>1. Unanswered' \subseteq Unanswered
    BY <1>3 DEF Unanswered
  <2> QED
    BY <2>1, <1>0, <1>1, UploadsStillFit
<1>8. UploadsAreKnown'
  BY <1>0, <1>1, <1>3 DEF UploadsAreKnown
<1>9. ImportsFit'
  BY <1>0, <1>1, <1>3, <1>5 DEF ImportsFit
<1>10. Imports!ImportingMeansOut'
  BY <1>5 DEF Imports!ImportingMeansOut
<1>11. Imports!DeleteTitleIsTrue' /\ Imports!DeleteFitsFile' /\ ExecutingMeansTask'
  BY <1>0, <1>1, DelStays
<1>12. Imports!FilesKeepTheirResults'
  BY <1>5, <1>10, <1>11 DEF Imports!FilesKeepTheirResults
<1> QED
  BY <1>6, <1>7, <1>8, <1>9, <1>11, <1>12, FilesAreTyped DEF FilesInv

(* The import is sent for the file shown. *)
LEMMA ImportBeginsKeeps ==
    ASSUME Imports!ConstantsFit, FilesInv, Imports!importToStaging
    PROVE  FilesInv'
<1>0. Imports!TypeOK /\ FilesTyped /\ UploadsFit /\ UploadsAreKnown /\ ImportsFit /\ ExecutingMeansTask /\ Imports!FilesKeepTheirResults
  BY FilesAreTyped DEF FilesInv
<1> DEFINE r == ForUpload("import", imp.upload)
<1>1. PICK s \in Slots : filesReq[s].kind = "none" /\ filesReq' = [filesReq EXCEPT ![s] = r]
  BY DEF Imports!importToStaging, Imports!Send, ForUpload
<1>2. imp' = [imp EXCEPT !.importing = TRUE]
      /\ uploads' = uploads /\ filesStored' = filesStored /\ filesTable' = filesTable /\ del' = del /\ filesEpoch' = filesEpoch
  BY DEF Imports!importToStaging
<1>3. imp \in ImpType /\ imp.upload \in {0} \cup DOMAIN uploads /\ imp.upload \in Imports!Ids /\ filesEpoch \in 0..MaxEpoch
      /\ "import" \in Imports!Kinds
  BY <1>0 DEF FilesTyped, ImpType, Imports!Kinds
<1>4. r \in Imports!ReqType /\ r.kind = "import" /\ r.upload = imp.upload /\ r.code = ""
  <2>1. Imports!NoReq \in Imports!ReqType
    BY EmptyTypes
  <2> QED
    BY <2>1, <1>3 DEF Imports!NoReq, Imports!ReqType, ForUpload
<1> HIDE DEF r
<1>5. filesReq' \in [Slots -> Imports!ReqType] /\ filesReq'[s] = r /\ (\A q \in Slots \ {s} : filesReq'[q] = filesReq[q])
  BY <1>0, <1>1, <1>4, SetBeside DEF FilesTyped
<1>6. imp' \in ImpType /\ imp'.upload = imp.upload /\ imp'.result = imp.result
  BY <1>2, <1>3 DEF ImpType
<1>7. FilesTyped'
  BY <1>0, <1>2, <1>3, <1>5, <1>6 DEF FilesTyped
<1>8. UploadsFit'
  <2>1. Unanswered' \subseteq Unanswered
    BY <1>4, <1>5 DEF Unanswered
  <2> QED
    BY <2>1, <1>0, <1>2, UploadsStillFit
<1>9. UploadsAreKnown'
  BY <1>0, <1>2, <1>3, <1>4, <1>5 DEF UploadsAreKnown
<1>10. ImportsFit'
  BY <1>0, <1>2, <1>4, <1>5, <1>6 DEF ImportsFit
<1>11. Imports!ImportingMeansOut'
  BY <1>4, <1>5 DEF Imports!ImportingMeansOut, Imports!Out
<1>12. Imports!ResultFitsFile' /\ Imports!ImportAddsUp'
  BY <1>0, <1>6 DEF Imports!ResultFitsFile, Imports!ImportAddsUp, Imports!FilesKeepTheirResults
<1>13. Imports!DeleteTitleIsTrue' /\ Imports!DeleteFitsFile' /\ ExecutingMeansTask'
  BY <1>0, <1>2, DelStays
<1>14. Imports!FilesKeepTheirResults'
  BY <1>11, <1>12, <1>13 DEF Imports!FilesKeepTheirResults
<1> QED
  BY <1>7, <1>8, <1>9, <1>10, <1>13, <1>14, FilesAreTyped DEF FilesInv

(* A delete task is sent for the file shown. *)
LEMMA DeleteBeginsKeeps ==
    ASSUME Imports!ConstantsFit, FilesInv, Imports!executeDelete
    PROVE  FilesInv'
<1>0. Imports!TypeOK /\ FilesTyped /\ UploadsFit /\ UploadsAreKnown /\ ImportsFit /\ ExecutingMeansTask /\ Imports!FilesKeepTheirResults
  BY FilesAreTyped DEF FilesInv
<1> DEFINE r == ForUpload("delete", del.upload)
           t == [upload |-> del.upload, dry |-> del.dry, kept |-> FALSE]
<1>1. PICK s \in Slots : filesReq[s].kind = "none" /\ filesReq' = [filesReq EXCEPT ![s] = r]
  BY DEF Imports!executeDelete, Imports!Send, ForUpload
<1>2. del' = [del EXCEPT !.resultDry = del.dry, !.executing = TRUE, !.task = t] /\ del.upload # 0
      /\ uploads' = uploads /\ filesStored' = filesStored /\ filesTable' = filesTable /\ imp' = imp /\ filesEpoch' = filesEpoch
  BY DEF Imports!executeDelete
<1>3. del \in DelType /\ del.upload \in {0} \cup DOMAIN uploads /\ del.upload \in Imports!Ids /\ filesEpoch \in 0..MaxEpoch
      /\ del.dry \in BOOLEAN /\ "delete" \in Imports!Kinds
  BY <1>0 DEF FilesTyped, DelType, Imports!Kinds
<1>4. r \in Imports!ReqType /\ r.kind = "delete" /\ r.upload = del.upload /\ r.code = ""
  <2>1. Imports!NoReq \in Imports!ReqType
    BY EmptyTypes
  <2> QED
    BY <2>1, <1>3 DEF Imports!NoReq, Imports!ReqType, ForUpload
<1>5. t \in Imports!TaskType /\ t.upload = del.upload /\ t.dry = del.dry
  BY <1>3 DEF Imports!TaskType
<1> HIDE DEF r, t
<1>6. filesReq' \in [Slots -> Imports!ReqType] /\ filesReq'[s] = r /\ (\A q \in Slots \ {s} : filesReq'[q] = filesReq[q])
  BY <1>0, <1>1, <1>4, SetBeside DEF FilesTyped
<1>7. del' \in DelType /\ del'.upload = del.upload /\ del'.task = t /\ del'.resultDry = del.dry
  BY <1>2, <1>3, <1>5 DEF DelType
<1>8. FilesTyped'
  BY <1>0, <1>2, <1>3, <1>6, <1>7 DEF FilesTyped
<1>9. UploadsFit'
  <2>1. Unanswered' \subseteq Unanswered
    BY <1>4, <1>6 DEF Unanswered
  <2> QED
    BY <2>1, <1>0, <1>2, UploadsStillFit
<1>10. UploadsAreKnown'
  BY <1>0, <1>2, <1>3, <1>4, <1>6 DEF UploadsAreKnown
<1>11. ImportsFit'
  BY <1>0, <1>2, <1>4, <1>6 DEF ImportsFit
<1>12. Imports!ImportingMeansOut' /\ Imports!ResultFitsFile' /\ Imports!ImportAddsUp'
  BY <1>0, <1>1, <1>2, <1>6, ImpStays
<1>13. Imports!DeleteTitleIsTrue' /\ Imports!DeleteFitsFile' /\ ExecutingMeansTask'
  BY <1>2, <1>5, <1>7 DEF Imports!DeleteTitleIsTrue, Imports!DeleteFitsFile, ExecutingMeansTask
<1>14. Imports!FilesKeepTheirResults'
  BY <1>12, <1>13 DEF Imports!FilesKeepTheirResults
<1> QED
  BY <1>8, <1>9, <1>10, <1>11, <1>13, <1>14, FilesAreTyped DEF FilesInv

(* Nobody's request changes. *)
LEMMA QuietFilesKeep ==
    ASSUME Imports!ConstantsFit, FilesInv, Imports!ToggleDry \/ \E u \in Imports!Ids \ {0} : Imports!CleanUp(u)
    PROVE  FilesInv'
<1>0. Imports!TypeOK /\ FilesTyped /\ UploadsFit /\ UploadsAreKnown /\ ImportsFit /\ ExecutingMeansTask /\ Imports!FilesKeepTheirResults
  BY FilesAreTyped DEF FilesInv
<1>1. filesReq' = filesReq /\ uploads' = uploads /\ filesTable' = filesTable /\ imp' = imp /\ filesEpoch' = filesEpoch
      /\ filesStored' \subseteq filesStored
  BY DEF Imports!ToggleDry, Imports!CleanUp
<1>2. del \in DelType /\ (del' = del \/ del' = [del EXCEPT !.dry = ~@])
  BY <1>0 DEF Imports!ToggleDry, Imports!CleanUp, FilesTyped
<1>3. del' \in DelType /\ del'.upload = del.upload /\ del'.task = del.task /\ del'.resultDry = del.resultDry
      /\ del'.executing = del.executing
  <2>1. CASE del' = del
    BY <2>1, <1>2
  <2>2. CASE del' = [del EXCEPT !.dry = ~@]
    <3>1. (~del.dry) \in BOOLEAN
      OBVIOUS
    <3> DEFINE b == ~del.dry
    <3>2. del' = [del EXCEPT !.dry = b]
      BY <2>2
    <3>3. b \in BOOLEAN
      BY <3>1
    <3> HIDE DEF b
    <3> QED
      BY <3>2, <3>3, <1>2 DEF DelType
  <2> QED
    BY <2>1, <2>2, <1>2
<1>4. FilesTyped'
  BY <1>0, <1>1, <1>3 DEF FilesTyped
<1>5. UploadsFit' /\ UploadsAreKnown' /\ ImportsFit'
  BY <1>0, <1>1 DEF UploadsFit, Unanswered, UploadsAreKnown, ImportsFit
<1>6. Imports!ImportingMeansOut' /\ Imports!ResultFitsFile' /\ Imports!ImportAddsUp'
  BY <1>0, <1>1, ImpStays
<1>7. Imports!DeleteTitleIsTrue' /\ Imports!DeleteFitsFile' /\ ExecutingMeansTask'
  BY <1>0, <1>3 DEF Imports!DeleteTitleIsTrue, Imports!DeleteFitsFile, ExecutingMeansTask, Imports!FilesKeepTheirResults
<1>8. Imports!FilesKeepTheirResults'
  BY <1>6, <1>7 DEF Imports!FilesKeepTheirResults
<1> QED
  BY <1>4, <1>5, <1>7, <1>8, FilesAreTyped DEF FilesInv

(* The server answers an upload: under the next id, or not at all. *)
LEMMA ServeUploadKeeps ==
    ASSUME Imports!ConstantsFit, FilesInv, NEW s \in Slots, Imports!ServeUpload(s)
    PROVE  FilesInv'
<1>0. Imports!TypeOK /\ FilesTyped /\ UploadsFit /\ UploadsAreKnown /\ ImportsFit /\ ExecutingMeansTask /\ Imports!FilesKeepTheirResults
  BY FilesAreTyped DEF FilesInv
<1>1. filesReq[s].kind \in {"upload", "uploadDelete"} /\ filesReq[s].code = ""
      /\ filesTable' = filesTable /\ imp' = imp /\ del' = del /\ filesEpoch' = filesEpoch
  BY DEF Imports!ServeUpload
<1>2. filesReq \in [Slots -> Imports!ReqType] /\ filesReq[s] \in Imports!ReqType /\ uploads \in Seq(Files) /\ Len(uploads) \in Nat
      /\ DOMAIN uploads = 1..Len(uploads)
  BY <1>0 DEF FilesTyped
<1>3. s \in Unanswered /\ IsFiniteSet(Unanswered) /\ Imports!Cardinality(Unanswered) \in Nat /\ Imports!Cardinality(Unanswered') \in Nat
  BY <1>1, UnansweredFinite DEF Unanswered
<1>4. IsFiniteSet(Unanswered \ {s}) /\ Imports!Cardinality(Unanswered \ {s}) = Imports!Cardinality(Unanswered) - 1
  BY <1>3, ImportsSize, FS_RemoveElement
<1>5. Len(uploads) + 1 <= MaxUploads
  <2>1. Imports!Cardinality(Unanswered \ {s}) \in Nat
    BY <1>4, ImportsSize, FS_CardinalityType
  <2>2. Len(uploads) + Imports!Cardinality(Unanswered) <= MaxUploads /\ MaxUploads \in Nat
    BY <1>0 DEF UploadsFit, Imports!ConstantsFit
  <2> QED
    BY <2>1, <2>2, <1>2, <1>3, <1>4
<1>6. CASE /\ uploads' = Append(uploads, filesReq[s].file)
           /\ filesStored' = filesStored \cup {Len(uploads) + 1}
           /\ filesReq' = [filesReq EXCEPT ![s].code = "ok", ![s].upload = Len(uploads) + 1]
  <2> DEFINE id == Len(uploads) + 1
             r == [filesReq[s] EXCEPT !.code = "ok", !.upload = id]
  <2>0. filesReq[s].file \in Files
    BY <1>0, <1>1 DEF UploadsAreKnown
  <2>1. id \in Imports!Ids
    BY <1>2, <1>5 DEF Imports!Ids, Imports!ConstantsFit
  <2>2. uploads' \in Seq(Files) /\ Len(uploads') = id /\ DOMAIN uploads' = 1..id
    BY <2>0, <1>2, <1>6
  <2>3. filesStored' \subseteq DOMAIN uploads' /\ DOMAIN uploads \subseteq DOMAIN uploads' /\ id \in DOMAIN uploads'
    <3>1. filesStored \subseteq 1..Len(uploads)
      BY <1>0, <1>2 DEF FilesTyped
    <3>2. 1..Len(uploads) \subseteq 1..id /\ id \in 1..id
      BY <1>2
    <3> QED
      BY <3>1, <3>2, <2>2, <1>2, <1>6
  <2> HIDE DEF id
  <2>4. r \in Imports!ReqType /\ r.kind = filesReq[s].kind /\ r.upload = id /\ r.code = "ok" /\ r.file = filesReq[s].file
    BY <2>1, <1>2 DEF Imports!ReqType
  <2>5. filesReq' = [filesReq EXCEPT ![s] = r]
    BY <1>2, <1>6 DEF id
  <2> HIDE DEF r
  <2>6. filesReq' \in [Slots -> Imports!ReqType] /\ filesReq'[s] = r /\ (\A q \in Slots \ {s} : filesReq'[q] = filesReq[q])
    BY <2>4, <2>5, <1>2, SetBeside
  <2>7. FilesTyped'
    BY <2>1, <2>2, <2>3, <2>6, <1>0, <1>1 DEF FilesTyped
  <2>8. UploadsFit'
    <3>1. Unanswered' \in SUBSET (Unanswered \ {s})
      BY <2>4, <2>6 DEF Unanswered
    <3>2. Imports!Cardinality(Unanswered') <= Imports!Cardinality(Unanswered \ {s})
      BY <3>1, <1>4, ImportsSize, FS_Subset
    <3>3. Len(uploads') + Imports!Cardinality(Unanswered') <= Len(uploads) + Imports!Cardinality(Unanswered)
      BY <3>2, <2>2, <1>2, <1>3, <1>4 DEF id
    <3>4. Len(uploads) + Imports!Cardinality(Unanswered) <= MaxUploads /\ MaxUploads \in Nat
      BY <1>0 DEF UploadsFit, Imports!ConstantsFit
    <3>5. Len(uploads') \in Nat
      BY <2>2, <1>2 DEF id
    <3> QED
      BY <3>3, <3>4, <3>5, <1>2, <1>3 DEF UploadsFit
  <2>9. UploadsAreKnown'
    BY <2>3, <2>4, <2>6, <1>0 DEF UploadsAreKnown
  <2>10. ImportsFit'
    BY <2>4, <2>6, <1>0, <1>1 DEF ImportsFit
  <2>11. Imports!ImportingMeansOut' /\ Imports!ResultFitsFile' /\ Imports!ImportAddsUp'
    BY <2>4, <2>6, <1>0, <1>1, ImpStays
  <2>12. Imports!DeleteTitleIsTrue' /\ Imports!DeleteFitsFile' /\ ExecutingMeansTask'
    BY <1>0, <1>1, DelStays
  <2>13. Imports!FilesKeepTheirResults'
    BY <2>11, <2>12 DEF Imports!FilesKeepTheirResults
  <2> QED
    BY <2>7, <2>8, <2>9, <2>10, <2>12, <2>13, FilesAreTyped DEF FilesInv
<1>7. CASE filesReq' = [filesReq EXCEPT ![s].code = "refused"] /\ uploads' = uploads /\ filesStored' = filesStored
  <2> DEFINE r == [filesReq[s] EXCEPT !.code = "refused"]
  <2>1. r \in Imports!ReqType /\ r.kind = filesReq[s].kind /\ r.upload = filesReq[s].upload /\ r.code = "refused"
        /\ r.file = filesReq[s].file
    BY <1>2 DEF Imports!ReqType
  <2>2. filesReq' = [filesReq EXCEPT ![s] = r]
    BY <1>2, <1>7
  <2> HIDE DEF r
  <2>3. filesReq' \in [Slots -> Imports!ReqType] /\ filesReq'[s] = r /\ (\A q \in Slots \ {s} : filesReq'[q] = filesReq[q])
    BY <2>1, <2>2, <1>2, SetBeside
  <2>4. FilesTyped'
    BY <2>3, <1>0, <1>1, <1>7 DEF FilesTyped
  <2>5. UploadsFit'
    <3>1. Unanswered' \subseteq Unanswered
      BY <2>1, <2>3 DEF Unanswered
    <3> QED
      BY <3>1, <1>0, <1>7, UploadsStillFit
  <2>6. UploadsAreKnown'
    BY <2>1, <2>3, <1>0, <1>7 DEF UploadsAreKnown
  <2>7. ImportsFit'
    BY <2>1, <2>3, <1>0, <1>1 DEF ImportsFit
  <2>8. Imports!ImportingMeansOut' /\ Imports!ResultFitsFile' /\ Imports!ImportAddsUp'
    BY <2>1, <2>3, <1>0, <1>1, ImpStays
  <2>9. Imports!DeleteTitleIsTrue' /\ Imports!DeleteFitsFile' /\ ExecutingMeansTask'
    BY <1>0, <1>1, DelStays
  <2>10. Imports!FilesKeepTheirResults'
    BY <2>8, <2>9 DEF Imports!FilesKeepTheirResults
  <2> QED
    BY <2>4, <2>5, <2>6, <2>7, <2>9, <2>10, FilesAreTyped DEF FilesInv
<1> QED
  BY <1>6, <1>7 DEF Imports!ServeUpload

(* The server imports a file, or does not. *)
LEMMA ServeImportKeeps ==
    ASSUME Imports!ConstantsFit, FilesInv, NEW s \in Slots, Imports!ServeImport(s)
    PROVE  FilesInv'
<1>0. Imports!TypeOK /\ FilesTyped /\ UploadsFit /\ UploadsAreKnown /\ ImportsFit /\ ExecutingMeansTask /\ Imports!FilesKeepTheirResults
  BY FilesAreTyped DEF FilesInv
<1> DEFINE u == filesReq[s].upload
           answer == Imports!ImportStaging(u)
<1>1. filesReq[s].kind = "import" /\ filesReq[s].code = ""
      /\ uploads' = uploads /\ filesStored' = filesStored /\ imp' = imp /\ del' = del /\ filesEpoch' = filesEpoch
  BY DEF Imports!ServeImport
<1>2. filesReq \in [Slots -> Imports!ReqType] /\ filesReq[s] \in Imports!ReqType /\ filesTable \subseteq Names
  BY <1>0 DEF FilesTyped
<1>3. \E r \in Imports!ReqType :
        /\ filesReq' = [filesReq EXCEPT ![s] = r]
        /\ r.kind = "import" /\ r.upload = u /\ r.late = filesReq[s].late
        /\ r.code = "ok" => r.result.upload = u /\ r.result.inserted + r.result.skipped = r.result.total
        /\ filesTable' \subseteq Names
  <2>1. CASE /\ u \in filesStored
             /\ filesTable' = filesTable \cup Imports!NamesOf(uploads[u], Imports!Named(uploads[u]))
             /\ filesReq' = [filesReq EXCEPT ![s].code = "ok", ![s].result = answer]
    <3> DEFINE r == [filesReq[s] EXCEPT !.code = "ok", !.result = answer]
    <3>1. u \in DOMAIN uploads
      BY <2>1, <1>0 DEF FilesTyped
    <3>2. answer \in Imports!ResultType /\ answer.upload = u /\ answer.inserted + answer.skipped = answer.total
          /\ Imports!NamesOf(uploads[u], Imports!Named(uploads[u])) \subseteq Names
      BY <3>1, <1>0, ImportCounts
    <3>3. filesTable' \subseteq Names
      BY <2>1, <3>2, <1>2
    <3>4. filesReq' = [filesReq EXCEPT ![s] = r]
      BY <2>1, <1>2
    <3> HIDE DEF answer
    <3>5. r \in Imports!ReqType /\ r.kind = filesReq[s].kind /\ r.upload = u /\ r.late = filesReq[s].late /\ r.result = answer
      BY <3>2, <1>2 DEF Imports!ReqType
    <3> HIDE DEF r, u
    <3> QED
      BY <3>2, <3>3, <3>4, <3>5, <1>1
  <2>2. CASE filesReq' = [filesReq EXCEPT ![s].code = "refused"] /\ filesTable' = filesTable
    <3> DEFINE r == [filesReq[s] EXCEPT !.code = "refused"]
    <3>1. r \in Imports!ReqType /\ r.kind = filesReq[s].kind /\ r.upload = u /\ r.late = filesReq[s].late /\ r.code = "refused"
      BY <1>2 DEF Imports!ReqType
    <3>2. filesReq' = [filesReq EXCEPT ![s] = r]
      BY <2>2, <1>2
    <3> HIDE DEF r, u, answer
    <3> QED
      BY <2>2, <3>1, <3>2, <1>1, <1>2
  <2> QED
    BY <2>1, <2>2 DEF Imports!ServeImport
<1> HIDE DEF answer
<1>4. PICK r \in Imports!ReqType :
        /\ filesReq' = [filesReq EXCEPT ![s] = r]
        /\ r.kind = "import" /\ r.upload = u /\ r.late = filesReq[s].late
        /\ r.code = "ok" => r.result.upload = u /\ r.result.inserted + r.result.skipped = r.result.total
        /\ filesTable' \subseteq Names
  BY <1>3
<1>5. filesReq' \in [Slots -> Imports!ReqType] /\ filesReq'[s] = r /\ (\A q \in Slots \ {s} : filesReq'[q] = filesReq[q])
  BY <1>2, <1>4, SetBeside
<1>6. FilesTyped'
  BY <1>0, <1>1, <1>4, <1>5 DEF FilesTyped
<1>7. UploadsFit'
  <2>1. Unanswered' \subseteq Unanswered
    BY <1>4, <1>5 DEF Unanswered
  <2> QED
    BY <2>1, <1>0, <1>1, UploadsStillFit
<1>8. UploadsAreKnown'
  BY <1>0, <1>1, <1>4, <1>5 DEF UploadsAreKnown
<1>9. ImportsFit'
  BY <1>0, <1>1, <1>4, <1>5 DEF ImportsFit
<1>10. Imports!ImportingMeansOut' /\ Imports!ResultFitsFile' /\ Imports!ImportAddsUp'
  BY <1>0, <1>1, <1>4, <1>5, ImpStays
<1>11. Imports!DeleteTitleIsTrue' /\ Imports!DeleteFitsFile' /\ ExecutingMeansTask'
  BY <1>0, <1>1, DelStays
<1>12. Imports!FilesKeepTheirResults'
  BY <1>10, <1>11 DEF Imports!FilesKeepTheirResults
<1> QED
  BY <1>6, <1>7, <1>8, <1>9, <1>11, <1>12, FilesAreTyped DEF FilesInv

LEMMA FilesStep == Imports!ConstantsFit /\ FilesInv /\ [Imports!Next]_(Imports!vars) => FilesInv'
<1> SUFFICES ASSUME Imports!ConstantsFit, FilesInv, [Imports!Next]_(Imports!vars) PROVE FilesInv'
  OBVIOUS
<1>1. CASE UNCHANGED Imports!vars
  BY <1>1 DEF FilesInv, Imports!vars, Imports!TypeOK, UploadsFit, Unanswered, UploadsAreKnown, ImportsFit, ExecutingMeansTask,
     Imports!FilesKeepTheirResults, Imports!ImportingMeansOut, Imports!Out, Imports!ResultFitsFile, Imports!ImportAddsUp, Imports!DeleteTitleIsTrue, Imports!DeleteFitsFile
<1>2. CASE Imports!resetUpload \/ Imports!doLogout
  BY <1>2, EmptiedKeeps
<1>3. CASE Imports!importToStaging
  BY <1>3, ImportBeginsKeeps
<1>4. CASE Imports!executeDelete
  BY <1>4, DeleteBeginsKeeps
<1>5. CASE Imports!ToggleDry \/ \E u \in Imports!Ids \ {0} : Imports!CleanUp(u)
  BY <1>5, QuietFilesKeep
<1>6. CASE \E kind \in {"upload", "uploadDelete"}, f \in Files : Imports!ChooseFile(kind, f)
  BY <1>6, ChooseFileKeeps
<1>7. CASE \E s \in Slots : \/ Imports!UploadAnswered(s) \/ Imports!DeleteUploadAnswered(s) \/ Imports!UploadFails(s)
                            \/ Imports!ImportAnswered(s) \/ Imports!ImportFails(s) \/ Imports!DeleteEnds(s)
                            \/ Imports!ServeUpload(s) \/ Imports!ServeImport(s)
  BY <1>7, UploadAnsweredKeeps, DeleteTabKeeps, ImportEndsKeeps, ServeUploadKeeps, ServeImportKeeps
<1> QED
  BY <1>1, <1>2, <1>3, <1>4, <1>5, <1>6, <1>7 DEF Imports!Next

-----------------------------------------------------------------------------
(* A sequence without one of its elements (RemoveAt).                       *)
Without(s, i) == SubSeq(s, 1, i - 1) \o SubSeq(s, i + 1, Len(s))

(* Without an element: that closes the gap and nothing else. *)
LEMMA WithoutShape ==
    ASSUME NEW S, NEW s \in Seq(S), NEW i \in 1..Len(s)
    PROVE  /\ Without(s, i) \in Seq(S)
           /\ Len(Without(s, i)) = Len(s) - 1
           /\ \A j \in 1..(Len(s) - 1) :
                 Without(s, i)[j] = IF j < i THEN s[j] ELSE s[j + 1]
<1> DEFINE a == SubSeq(s, 1, i - 1)
           b == SubSeq(s, i + 1, Len(s))
<1>1. Len(s) \in Nat /\ \A j \in 1..Len(s) : s[j] \in S
    BY LenProperties, ElementOfSeq
<1>2. /\ a \in Seq(S)
      /\ Len(a) = i - 1
      /\ \A j \in 1..(i - 1) : a[j] = s[j]
    <2>1. \A j \in 1..(i - 1) : s[j] \in S
        BY <1>1
    <2>2. /\ a \in Seq(S)
          /\ Len(a) = IF 1 <= i - 1 THEN i - 1 - 1 + 1 ELSE 0
          /\ \A j \in 1..(i - 1 - 1 + 1) : a[j] = s[1 + j - 1]
        BY <2>1, <1>1, SubSeqProperties, 1 \in Int, i - 1 \in Int
    <2> QED
        BY <2>2, <1>1
<1>3. /\ b \in Seq(S)
      /\ Len(b) = Len(s) - i
      /\ \A j \in 1..(Len(s) - i) : b[j] = s[i + j]
    <2>1. \A j \in (i + 1)..Len(s) : s[j] \in S
        BY <1>1
    <2>2. /\ b \in Seq(S)
          /\ Len(b) = IF i + 1 <= Len(s) THEN Len(s) - (i + 1) + 1 ELSE 0
          /\ \A j \in 1..(Len(s) - (i + 1) + 1) : b[j] = s[(i + 1) + j - 1]
        BY <2>1, <1>1, SubSeqProperties, i + 1 \in Int, Len(s) \in Int
    <2> QED
        BY <2>2, <1>1
<1>4. /\ a \o b \in Seq(S)
      /\ Len(a \o b) = Len(a) + Len(b)
      /\ \A j \in 1..(Len(a) + Len(b)) :
            (a \o b)[j] = IF j <= Len(a) THEN a[j] ELSE b[j - Len(a)]
    BY <1>2, <1>3, ConcatProperties
<1>5. Without(s, i) = a \o b
    BY DEF Without
<1> HIDE DEF a, b
<1>6. Len(a \o b) = Len(s) - 1
    BY <1>1, <1>2, <1>3, <1>4
<1>7. ASSUME NEW j \in 1..(Len(s) - 1)
      PROVE  (a \o b)[j] = IF j < i THEN s[j] ELSE s[j + 1]
    <2>1. (a \o b)[j] = IF j <= i - 1 THEN a[j] ELSE b[j - (i - 1)]
        <3>1. Len(a) = i - 1 /\ Len(b) = Len(s) - i /\ Len(s) \in Nat
            BY <1>1, <1>2, <1>3
        <3>2. j \in 1..(Len(a) + Len(b))
            BY <3>1
        <3>3. (a \o b)[j] = IF j <= Len(a) THEN a[j] ELSE b[j - Len(a)]
            BY <1>4, <3>2
        <3> QED
            BY <3>1, <3>3
    <2>2. CASE j < i
        BY <1>1, <1>2, <2>1, <2>2
    <2>3. CASE ~(j < i)
        <3>1. j - (i - 1) \in 1..(Len(s) - i) /\ i + (j - (i - 1)) = j + 1
            BY <1>1, <2>3
        <3>2. b[j - (i - 1)] = s[i + (j - (i - 1))]
            BY <1>3, <3>1
        <3>3. b[j - (i - 1)] = s[j + 1]
            BY <3>1, <3>2
        <3>4. ~(j <= i - 1)
            BY <2>3
        <3> QED
            BY <2>1, <2>3, <3>3, <3>4
    <2> QED
        BY <2>2, <2>3
<1> QED
    BY <1>4, <1>5, <1>6, <1>7

-----------------------------------------------------------------------------
(* BrowserQuery *)

LEMMA QuerySize ==
    \A S : Query!Cardinality(S) = Cardinality(S) /\ (Query!IsFiniteSet(S) <=> IsFiniteSet(S))
  BY DEF Query!Cardinality, Cardinality, Query!IsFiniteSet, IsFiniteSet

(* A search that is out and is the newest one.                              *)
Newest(s) == queryReq[s].kind = "search" /\ ~queryReq[s].late
(* What is known of the table as it was then still holds. *)
Says(a, search) ==
    /\ a.writes <= writes
    /\ a.writes = writes => a = Query!SearchFormalTags(search)

NewestIsAsked == \A s \in Slots : Newest(s) => queryReq[s].search = asked
QueryAnswersAreTrue ==
    \A s \in Slots : queryReq[s].kind = "search" /\ queryReq[s].state = "ok" => Says(queryReq[s].answer, queryReq[s].search)
ShownIsAsked == (\A s \in Slots : ~Newest(s)) /\ ~queryDoubt => queryShown = asked
RowsAreTheirs ==
    /\ dbQuery.writes <= writes
    /\ queryShown # Query!NoSearch /\ dbQuery.writes = writes
         => /\ dbQuery.results = Query!SearchFormalTags(queryShown).data
            /\ dbQuery.totalPages = Query!SearchFormalTags(queryShown).totalPages

QueryType == [conditions : Query!ConditionLists \ {<<>>}, logic : {"AND", "OR"}, page : Query!Pages, totalPages : Query!Pages,
              total : Query!Pages, loading : BOOLEAN, exporting : BOOLEAN, results : SUBSET Tags,
              writes : 0..MaxWrites]

QueryTyped ==
    /\ tags \in Tables /\ writes \in 0..MaxWrites /\ queryEpoch \in 0..MaxEpoch
    /\ dbQuery \in QueryType
    /\ queryDoubt \in BOOLEAN
    /\ queryReq \in [Slots -> Query!ReqType]
    /\ asked \in Query!SearchType /\ queryShown \in Query!SearchType

QueryInv ==
    QueryTyped /\ dbQuery.page = asked.page /\ Query!DisabledMeansOut
    /\ NewestIsAsked /\ QueryAnswersAreTrue /\ ShownIsAsked /\ RowsAreTheirs

-----------------------------------------------------------------------------
(* Numbers and sequences *)

LEMMA Rest ==
    ASSUME NEW n \in Nat, NEW p \in Nat \ {0}
    PROVE  n \div p \in Nat /\ (n \div p) * p <= n /\ n < ((n \div p) + 1) * p
  OBVIOUS

LEMMA Multiple == ASSUME NEW n \in Nat, NEW p \in Nat \ {0} PROVE n <= n * p /\ n * p \in Nat
  OBVIOUS

LEMMA Smaller == ASSUME NEW a \in Nat, NEW b \in Nat, NEW p \in Nat \ {0}, a * p < (b + 1) * p PROVE a <= b
  OBVIOUS

(* There are no more pages than rows. *)
LEMMA PagesFit ==
    ASSUME Query!ConstantsFit, NEW n \in Nat
    PROVE  Query!PageCount(n) \in Nat /\ Query!PageCount(n) <= n
<1> DEFINE p == PageSize
           k == (n + p - 1) \div p
<1>1. p \in Nat \ {0} /\ n + p - 1 \in Nat
  BY DEF Query!ConstantsFit
<1> HIDE DEF p
<1>2. k \in Nat /\ k * p <= n + p - 1
  BY <1>1, Rest
<1>3. n * p \in Nat /\ n <= n * p
  BY <1>1, Multiple
<1> HIDE DEF k
<1>4. k * p < (n + 1) * p
  BY <1>1, <1>2, <1>3
<1>5. k <= n
  BY <1>1, <1>2, <1>4, Smaller
<1> QED
  BY <1>2, <1>5 DEF Query!PageCount, k, p

(* The bounded lists are the short sequences. *)
LEMMA ShortLists ==
    ASSUME Query!ConstantsFit
    PROVE  /\ \A c \in Query!ConditionLists : c \in Seq(Conditions) /\ Len(c) \in 0..MaxConditions
           /\ \A c \in Seq(Conditions) : Len(c) <= MaxConditions => c \in Query!ConditionLists
<1>1. MaxConditions \in Nat
  BY DEF Query!ConstantsFit
<1>2. ASSUME NEW c \in Query!ConditionLists PROVE c \in Seq(Conditions) /\ Len(c) \in 0..MaxConditions
  <2>1. PICK n \in 0..MaxConditions : c \in [1..n -> Conditions]
    BY DEF Query!ConditionLists
  <2>2. n \in Nat
    BY <1>1
  <2>3. c \in Seq(Conditions)
    BY <2>1, <2>2
  <2>4. Len(c) = n
    BY <2>1, <2>2
  <2> QED
    BY <2>3, <2>4
<1>3. ASSUME NEW c \in Seq(Conditions), Len(c) <= MaxConditions PROVE c \in Query!ConditionLists
  <2>1. c \in [1..Len(c) -> Conditions] /\ Len(c) \in 0..MaxConditions
    BY <1>1, <1>3
  <2> QED
    BY <2>1 DEF Query!ConditionLists
<1> QED
  BY <1>2, <1>3

-----------------------------------------------------------------------------
(* A search *)

(* The tags that match, and their pages. *)
LEMMA Found ==
    ASSUME Query!ConstantsFit, NEW f
    PROVE  QueryTyped => /\ Query!Match(f) \subseteq Tags /\ IsFiniteSet(Query!Match(f))
                         /\ Query!Cardinality(Query!Match(f)) \in Query!Pages /\ Query!Cardinality(Query!Match(f)) \in Nat
<1> SUFFICES ASSUME QueryTyped
             PROVE  /\ Query!Match(f) \subseteq Tags /\ IsFiniteSet(Query!Match(f))
                    /\ Query!Cardinality(Query!Match(f)) \in Query!Pages /\ Query!Cardinality(Query!Match(f)) \in Nat
  OBVIOUS
<1>1. Query!Match(f) \in SUBSET tags
  BY DEF Query!Match
<1>2. tags \subseteq Tags /\ IsFiniteSet(Tags)
  BY QuerySize DEF QueryTyped, Query!ConstantsFit
<1>3. Query!Match(f) \in SUBSET Tags
  BY <1>1, <1>2
<1>4. IsFiniteSet(Query!Match(f)) /\ Query!Cardinality(Query!Match(f)) <= Query!Cardinality(Tags)
  BY <1>2, <1>3, QuerySize, FS_Subset
<1>5. Query!Cardinality(Query!Match(f)) \in Nat /\ Query!Cardinality(Tags) \in Nat
  BY <1>2, <1>4, QuerySize, FS_CardinalityType
<1> QED
  BY <1>3, <1>4, <1>5 DEF Query!Pages

LEMMA SearchTyped ==
    ASSUME Query!ConstantsFit, QueryTyped, NEW search
    PROVE  Query!SearchFormalTags(search) \in Query!AnswerType
<1> DEFINE found == Query!Match(search.filter)
           n == Query!Cardinality(found)
<1>1. found \subseteq Tags /\ n \in Query!Pages /\ n \in Nat
  BY Found
<1>2. Query!OnPage(found, search.page, PageSize) \subseteq Tags
  BY <1>1 DEF Query!OnPage
<1>3. Query!PageCount(n) \in Query!Pages
  <2>1. Query!PageCount(n) \in Nat /\ Query!PageCount(n) <= n
    BY <1>1, PagesFit
  <2>2. Query!Cardinality(Tags) \in Nat
    BY QuerySize, FS_CardinalityType DEF Query!ConstantsFit
  <2> HIDE DEF n
  <2> QED
    BY <2>1, <2>2, <1>1 DEF Query!Pages
<1>4. writes \in 0..MaxWrites
  BY DEF QueryTyped
<1>5. Query!SearchFormalTags(search)
        = [data |-> Query!OnPage(found, search.page, PageSize), total |-> n, totalPages |-> Query!PageCount(n), writes |-> writes]
  BY DEF Query!SearchFormalTags
<1> HIDE DEF found, n
<1> QED
  BY <1>1, <1>2, <1>3, <1>4, <1>5 DEF Query!AnswerType

(* Every tag found is on one of the pages. *)
LEMMA PagesCover ==
    ASSUME Query!ConstantsFit, NEW found, found \subseteq Nat, IsFiniteSet(found)
    PROVE  found = UNION {Query!OnPage(found, p, PageSize) : p \in 0 .. Query!PageCount(Query!Cardinality(found)) - 1}
<1> DEFINE n == Query!Cardinality(found)
<1>1. n \in Nat /\ PageSize \in Nat \ {0}
  BY QuerySize, FS_CardinalityType DEF Query!ConstantsFit
<1>2. \A p : Query!OnPage(found, p, PageSize) \subseteq found
  BY DEF Query!OnPage
<1>3. ASSUME NEW t \in found
      PROVE  \E p \in 0 .. Query!PageCount(n) - 1 : t \in Query!OnPage(found, p, PageSize)
  <2> DEFINE above == {u \in found : u > t}
             k == Query!Cardinality(above)
             p == k \div PageSize
  <2>1. above \in SUBSET (found \ {t})
    OBVIOUS
  <2>2. IsFiniteSet(found \ {t}) /\ Query!Cardinality(found \ {t}) = n - 1
    BY QuerySize, FS_RemoveElement
  <2>3. IsFiniteSet(above) /\ k <= n - 1
    BY <2>1, <2>2, QuerySize, FS_Subset
  <2>4. k \in Nat
    BY <2>3, QuerySize, FS_CardinalityType
  <2> HIDE DEF k, n
  <2>5. p \in Nat /\ p * PageSize <= k /\ k < (p + 1) * PageSize
    BY <2>4, <1>1, Rest
  <2> HIDE DEF p
  <2>6. p * PageSize \in Nat /\ (p + 1) * PageSize \in Nat
    BY <2>5, <1>1, Multiple
  <2>7. k \in p * PageSize .. (p + 1) * PageSize - 1
    BY <2>4, <2>5, <2>6
  <2>8. t \in Query!OnPage(found, p, PageSize)
    BY <2>7 DEF Query!OnPage, k
  <2>9. p + 1 <= Query!PageCount(n)
    <3> DEFINE all == n + PageSize - 1
               q == all \div PageSize
    <3>1. all \in Nat /\ (p + 1) * PageSize <= all
      <4>1. (p + 1) * PageSize = p * PageSize + PageSize
        BY <2>5, <1>1
      <4> QED
        BY <4>1, <2>3, <2>4, <2>5, <2>6, <1>1
    <3> HIDE DEF all
    <3>2. q \in Nat /\ all < (q + 1) * PageSize
      BY <3>1, <1>1, Rest
    <3> HIDE DEF q
    <3>3. (q + 1) * PageSize \in Nat /\ (p + 1) * PageSize \in Nat
      BY <3>2, <2>6, <1>1, Multiple
    <3>4. (p + 1) * PageSize < (q + 1) * PageSize
      BY <3>1, <3>2, <3>3
    <3>5. p + 1 <= q
      BY <3>2, <3>4, <2>5, <1>1, Smaller, p + 1 \in Nat
    <3> QED
      BY <3>5 DEF Query!PageCount, q, all
  <2>10. Query!PageCount(n) \in Nat
    BY <1>1, PagesFit
  <2> QED
    BY <2>5, <2>8, <2>9, <2>10
<1> HIDE DEF n
<1> QED
  BY <1>2, <1>3 DEF n

LEMMA NoneTyped ==
    ASSUME Query!ConstantsFit
    PROVE  /\ Query!NoSearch \in Query!SearchType /\ Query!NoAnswer \in Query!AnswerType /\ Query!NoReq \in Query!ReqType
           /\ Query!BlankQuery \in QueryType
           /\ 0 \in Query!Pages /\ 0 \in 0..MaxWrites /\ 0 \in 0..MaxEpoch
<1>1. Query!Cardinality(Tags) \in Nat
  BY QuerySize, FS_CardinalityType DEF Query!ConstantsFit
<1>2. 0 \in Query!Pages /\ 0 \in 0..MaxWrites /\ 0 \in 0..MaxEpoch
  BY <1>1 DEF Query!Pages, Query!ConstantsFit
<1>3. <<>> \in Query!ConditionLists
  <2>1. <<>> \in Seq(Conditions) /\ Len(<<>>) = 0
    OBVIOUS
  <2>2. 0 <= MaxConditions
    BY DEF Query!ConstantsFit
  <2> DEFINE none == <<>>
  <2>3. none \in Seq(Conditions) /\ Len(none) <= MaxConditions
    BY <2>1, <2>2
  <2> HIDE DEF none
  <2>4. none \in Query!ConditionLists
    BY <2>3, ShortLists
  <2> QED
    BY <2>4 DEF none
<1>4. Query!NoSearch \in Query!SearchType
  BY <1>2, <1>3 DEF Query!NoSearch, Query!NoFilter, Query!SearchType, Query!Filters
<1>5. Query!NoAnswer \in Query!AnswerType
  BY <1>2 DEF Query!NoAnswer, Query!AnswerType
<1>6. Query!NoReq \in Query!ReqType
  BY <1>4, <1>5 DEF Query!NoReq, Query!ReqType
<1>7. <<Blank>> \in Query!ConditionLists \ {<<>>}
  <2>1. <<Blank>> \in Seq(Conditions) /\ Len(<<Blank>>) = 1 /\ <<Blank>> # <<>>
    BY DEF Query!ConstantsFit
  <2>2. 1 <= MaxConditions
    BY DEF Query!ConstantsFit
  <2> QED
    BY <2>1, <2>2, ShortLists
<1>8. Query!BlankQuery \in QueryType
  BY <1>2, <1>7 DEF Query!BlankQuery, QueryType
<1> QED
  BY <1>2, <1>4, <1>5, <1>6, <1>8

LEMMA QueryNoRequest == Query!NoReq.kind = "none"
  BY DEF Query!NoReq

LEMMA QueryInit == Query!ConstantsFit /\ Query!Init => QueryInv
<1> SUFFICES ASSUME Query!ConstantsFit, Query!Init PROVE QueryInv
  OBVIOUS
<1>1. QueryTyped
  <2>1. queryReq \in [Slots -> Query!ReqType] /\ writes \in 0..MaxWrites /\ queryEpoch \in 0..MaxEpoch /\ dbQuery \in QueryType
        /\ asked \in Query!SearchType /\ queryShown \in Query!SearchType
    BY NoneTyped DEF Query!Init
  <2> QED
    BY <2>1 DEF Query!Init, QueryTyped
<1>2. \A s \in Slots : queryReq[s].kind = "none"
  BY QueryNoRequest DEF Query!Init
<1>3. dbQuery.page = 0 /\ ~dbQuery.loading /\ ~dbQuery.exporting /\ dbQuery.writes = 0
  BY DEF Query!Init, Query!BlankQuery
<1>4. asked = Query!NoSearch /\ queryShown = Query!NoSearch /\ Query!NoSearch.page = 0 /\ writes = 0
  BY DEF Query!Init, Query!NoSearch
<1>5. Query!DisabledMeansOut
  BY <1>3 DEF Query!DisabledMeansOut
<1>6. NewestIsAsked /\ QueryAnswersAreTrue /\ ShownIsAsked
  BY <1>2, <1>4 DEF NewestIsAsked, QueryAnswersAreTrue, ShownIsAsked, Newest
<1>7. RowsAreTheirs
  BY <1>3, <1>4 DEF RowsAreTheirs
<1> QED
  BY <1>1, <1>3, <1>4, <1>5, <1>6, <1>7 DEF QueryInv

-----------------------------------------------------------------------------
(* The steps *)

(* What a search finds depends on the table and its changes alone. *)
LEMMA SameTable ==
    ASSUME tags' = tags, writes' = writes
    PROVE  /\ \A a, search : Says(a, search)' <=> Says(a, search)
           /\ \A search : Query!SearchFormalTags(search)' = Query!SearchFormalTags(search)
<1>1. \A search : Query!SearchFormalTags(search)' = Query!SearchFormalTags(search)
  BY DEF Query!SearchFormalTags, Query!Match
<1> QED
  BY <1>1 DEF Says

(* The form is edited. *)
LEMMA EditKeeps ==
    ASSUME Query!ConstantsFit, QueryInv, NEW c \in Query!ConditionLists \ {<<>>}, NEW l \in {"AND", "OR"},
           Query!Edit([dbQuery EXCEPT !.conditions = c]) \/ Query!Edit([dbQuery EXCEPT !.logic = l])
    PROVE  QueryInv'
<1>0. QueryTyped /\ dbQuery.page = asked.page /\ Query!DisabledMeansOut /\ NewestIsAsked /\ QueryAnswersAreTrue /\ ShownIsAsked
      /\ RowsAreTheirs
  BY DEF QueryInv
<1>1. tags' = tags /\ writes' = writes /\ queryEpoch' = queryEpoch /\ queryReq' = queryReq /\ asked' = asked /\ queryShown' = queryShown /\ queryDoubt' = queryDoubt
      /\ (dbQuery' = [dbQuery EXCEPT !.conditions = c] \/ dbQuery' = [dbQuery EXCEPT !.logic = l])
  BY DEF Query!Edit
<1>2. dbQuery' \in QueryType /\ dbQuery'.page = dbQuery.page /\ dbQuery'.loading = dbQuery.loading
      /\ dbQuery'.exporting = dbQuery.exporting /\ dbQuery'.writes = dbQuery.writes
      /\ dbQuery'.results = dbQuery.results /\ dbQuery'.totalPages = dbQuery.totalPages
  BY <1>0, <1>1 DEF QueryTyped, QueryType
<1>3. QueryTyped'
  BY <1>0, <1>1, <1>2 DEF QueryTyped
<1>4. Query!DisabledMeansOut'
  BY <1>0, <1>1, <1>2 DEF Query!DisabledMeansOut, Query!Searching
<1>5. NewestIsAsked' /\ ShownIsAsked'
  BY <1>0, <1>1 DEF NewestIsAsked, ShownIsAsked, Newest
<1>6. QueryAnswersAreTrue'
  BY <1>0, <1>1, SameTable DEF QueryAnswersAreTrue
<1>7. RowsAreTheirs'
  BY <1>0, <1>1, <1>2, SameTable DEF RowsAreTheirs
<1> QED
  BY <1>0, <1>1, <1>2, <1>3, <1>4, <1>5, <1>6, <1>7 DEF QueryInv

LEMMA EditsKeep ==
    ASSUME Query!ConstantsFit, QueryInv,
           \/ Query!addCondition
           \/ \E i \in DOMAIN dbQuery.conditions :
                 Query!removeCondition(i) \/ \E c \in Conditions : Query!EditCondition(i, c)
           \/ \E l \in {"AND", "OR"} : Query!ChooseLogic(l)
    PROVE  QueryInv'
<1> DEFINE d == dbQuery.conditions
<1>1. d \in Query!ConditionLists /\ d # <<>>
  BY DEF QueryInv, QueryTyped, QueryType
<1>2. d \in Seq(Conditions) /\ Len(d) \in 0..MaxConditions /\ MaxConditions \in Nat
  BY <1>1, ShortLists DEF Query!ConstantsFit
<1>3. Len(d) \in Nat /\ Len(d) # 0 /\ DOMAIN d = 1..Len(d)
  BY <1>1, <1>2
<1>4. Blank \in Conditions
  BY DEF Query!ConstantsFit
<1>5. "AND" \in {"AND", "OR"}
  OBVIOUS
<1>6. ASSUME NEW c \in Seq(Conditions), Len(c) \in 1..MaxConditions, Query!Edit([dbQuery EXCEPT !.conditions = c])
      PROVE  QueryInv'
  <2>1. c \in Query!ConditionLists /\ c # <<>>
    BY <1>2, <1>6, ShortLists
  <2>2. c \in Query!ConditionLists \ {<<>>}
    BY <2>1
  <2> QED
    BY <2>2, <1>5, <1>6, EditKeeps
<1>7. CASE Query!addCondition
  <2>1. Append(d, Blank) \in Seq(Conditions) /\ Len(Append(d, Blank)) = Len(d) + 1
    BY <1>2, <1>4
  <2>2. Len(d) < MaxConditions /\ Query!Edit([dbQuery EXCEPT !.conditions = Append(d, Blank)])
    BY <1>7 DEF Query!addCondition
  <2> DEFINE c == Append(d, Blank)
  <2>3. c \in Seq(Conditions) /\ Len(c) \in 1..MaxConditions
    BY <2>1, <2>2, <1>2, <1>3
  <2>4. Query!Edit([dbQuery EXCEPT !.conditions = c])
    BY <2>2
  <2> HIDE DEF c, d
  <2> QED
    BY <2>3, <2>4, <1>6
<1>8. ASSUME NEW i \in DOMAIN d, Query!removeCondition(i) PROVE QueryInv'
  <2> DEFINE rest == Without(d, i)
             c == IF rest = <<>> THEN <<Blank>> ELSE rest
  <2>0. i \in 1..Len(d)
    BY <1>3
  <2>1. rest \in Seq(Conditions) /\ Len(rest) = Len(d) - 1
    BY <2>0, <1>2, WithoutShape
  <2>2. Query!Edit([dbQuery EXCEPT !.conditions = c])
    BY <1>8 DEF Query!removeCondition, Without
  <2> HIDE DEF rest
  <2>3. c \in Seq(Conditions) /\ Len(c) \in 1..MaxConditions
    <3>1. CASE rest = <<>>
      <4>1. c = <<Blank>>
        BY <3>1
      <4>2. <<Blank>> \in Seq(Conditions) /\ Len(<<Blank>>) = 1
        BY <1>4
      <4>3. 1 \in 1..MaxConditions
        BY <1>2, <1>3
      <4> QED
        BY <4>1, <4>2, <4>3
    <3>2. CASE rest # <<>>
      <4>0. \A x \in Seq(Conditions) : Len(x) = 0 => x = <<>>
        OBVIOUS
      <4>1. c = rest /\ Len(rest) # 0
        BY <4>0, <3>2, <2>1
      <4> QED
        BY <4>1, <2>1, <1>2, <1>3
    <3> QED
      BY <3>1, <3>2
  <2> HIDE DEF c
  <2> QED
    BY <2>2, <2>3, <1>6
<1>9. ASSUME NEW i \in DOMAIN d, NEW x \in Conditions, Query!EditCondition(i, x) PROVE QueryInv'
  <2> DEFINE c == [d EXCEPT ![i] = x]
  <2>1. c \in Seq(Conditions) /\ Len(c) = Len(d)
    BY <1>2, <1>3
  <2>2. dbQuery \in QueryType
    BY DEF QueryInv, QueryTyped
  <2>3. Query!Edit([dbQuery EXCEPT !.conditions[i] = x])
    BY <1>9 DEF Query!EditCondition
  <2>4. [dbQuery EXCEPT !.conditions[i] = x] = [dbQuery EXCEPT !.conditions = c]
    BY <2>2 DEF QueryType
  <2>5. Query!Edit([dbQuery EXCEPT !.conditions = c])
    BY <2>3, <2>4
  <2>6. Len(c) \in 1..MaxConditions
    BY <2>1, <1>2, <1>3
  <2> HIDE DEF c
  <2> QED
    BY <2>1, <2>5, <2>6, <1>6
<1>10. ASSUME NEW l \in {"AND", "OR"}, Query!ChooseLogic(l) PROVE QueryInv'
  <2>1. d \in Query!ConditionLists \ {<<>>}
    BY <1>1
  <2>2. Query!Edit([dbQuery EXCEPT !.logic = l])
    BY <1>10 DEF Query!ChooseLogic
  <2> HIDE DEF d
  <2> QED
    BY <2>1, <2>2, EditKeeps
<1> HIDE DEF d
<1> QED
  BY <1>7, <1>8, <1>9, <1>10 DEF d

(* The searches that are out are not the newest word any more. *)
LEMMA LateShape ==
    ASSUME queryReq \in [Slots -> Query!ReqType],
           NEW over, \A q \in Slots : over[q] = [queryReq[q] EXCEPT !.late = queryReq[q].kind = "search"]
    PROVE  \A q \in Slots :
             /\ over[q] \in Query!ReqType
             /\ over[q].kind = queryReq[q].kind /\ over[q].search = queryReq[q].search /\ over[q].state = queryReq[q].state
             /\ over[q].answer = queryReq[q].answer
             /\ over[q].kind = "search" => over[q].late
<1> SUFFICES ASSUME NEW q \in Slots
             PROVE  /\ over[q] \in Query!ReqType
                    /\ over[q].kind = queryReq[q].kind /\ over[q].search = queryReq[q].search
                    /\ over[q].state = queryReq[q].state /\ over[q].answer = queryReq[q].answer
                    /\ over[q].kind = "search" => over[q].late
  OBVIOUS
<1> DEFINE b == queryReq[q].kind = "search"
<1>1. queryReq[q] \in Query!ReqType /\ b \in BOOLEAN /\ (queryReq[q].kind = "search" => b)
  OBVIOUS
<1>2. over[q] = [queryReq[q] EXCEPT !.late = b]
  OBVIOUS
<1> HIDE DEF b
<1> QED
  BY <1>1, <1>2 DEF Query!ReqType

(* A search is asked, at the first page or at another one. *)
LEMMA AskKeeps ==
    ASSUME Query!ConstantsFit, QueryInv, NEW page \in Query!Pages, Query!Ask(page)
    PROVE  QueryInv'
<1>0. QueryTyped /\ dbQuery.page = asked.page /\ Query!DisabledMeansOut /\ NewestIsAsked /\ QueryAnswersAreTrue /\ ShownIsAsked
      /\ RowsAreTheirs
  BY DEF QueryInv
<1> DEFINE search == [filter |-> Query!Filter, page |-> page]
           r == [Query!NoReq EXCEPT !.kind = "search", !.search = search]
           over == [q \in Slots |-> [queryReq[q] EXCEPT !.late = queryReq[q].kind = "search"]]
<1>1. tags' = tags /\ writes' = writes /\ queryEpoch' = queryEpoch /\ queryShown' = queryShown /\ queryDoubt' = queryDoubt /\ asked' = search
      /\ dbQuery' = [dbQuery EXCEPT !.page = page, !.loading = TRUE]
  BY DEF Query!Ask
<1>2. PICK s \in Slots : queryReq[s].kind = "none" /\ queryReq' = [q \in Slots |-> IF q = s THEN r ELSE over[q]]
  <2>1. PICK s \in Slots :
             /\ queryReq[s].kind = "none"
             /\ queryReq' = [q \in Slots |-> IF q = s THEN [Query!NoReq EXCEPT !.kind = "search", !.search = search]
                                        ELSE [queryReq[q] EXCEPT !.late = queryReq[q].kind = "search"]]
    BY DEF Query!Ask
  <2> QED
    BY <2>1
<1>3. search \in Query!SearchType /\ search.page = page
  BY <1>0 DEF Query!SearchType, Query!Filters, Query!Filter, QueryTyped, QueryType
<1> HIDE DEF search
<1>4. r \in Query!ReqType /\ r.kind = "search" /\ r.search = search /\ ~r.late /\ r.state = "sent"
  <2>1. Query!NoReq \in Query!ReqType
    BY NoneTyped
  <2> QED
    BY <2>1, <1>3 DEF Query!NoReq, Query!ReqType
<1>5. \A q \in Slots : /\ over[q] \in Query!ReqType
                       /\ over[q].kind = queryReq[q].kind /\ over[q].search = queryReq[q].search /\ over[q].state = queryReq[q].state
                       /\ over[q].answer = queryReq[q].answer
                       /\ over[q].kind = "search" => over[q].late
  BY <1>0, LateShape DEF QueryTyped
<1> HIDE DEF r, over
<1>6. queryReq' \in [Slots -> Query!ReqType] /\ queryReq'[s] = r /\ \A q \in Slots \ {s} : queryReq'[q] = over[q]
  BY <1>2, <1>4, <1>5
<1>7. dbQuery' \in QueryType /\ dbQuery'.page = page /\ dbQuery'.loading /\ dbQuery'.exporting = dbQuery.exporting
      /\ dbQuery'.writes = dbQuery.writes /\ dbQuery'.results = dbQuery.results
      /\ dbQuery'.totalPages = dbQuery.totalPages
  BY <1>0, <1>1 DEF QueryTyped, QueryType
<1>8. QueryTyped'
  BY <1>0, <1>1, <1>3, <1>6, <1>7 DEF QueryTyped
<1>9. Query!DisabledMeansOut'
  <2>1. Query!Searching'
    BY <1>4, <1>6 DEF Query!Searching
  <2>2. ASSUME NEW q \in Slots, queryReq[q].kind = "export" PROVE queryReq'[q].kind = "export"
    BY <2>2, <1>2, <1>5, <1>6
  <2> QED
    BY <2>1, <2>2, <1>0, <1>7 DEF Query!DisabledMeansOut
<1>10. NewestIsAsked'
  BY <1>1, <1>4, <1>5, <1>6 DEF NewestIsAsked, Newest
<1>11. QueryAnswersAreTrue'
  BY <1>0, <1>1, <1>4, <1>5, <1>6, SameTable DEF QueryAnswersAreTrue
<1>12. ShownIsAsked'
  BY <1>4, <1>6 DEF ShownIsAsked, Newest
<1>13. RowsAreTheirs'
  BY <1>0, <1>1, <1>7, SameTable DEF RowsAreTheirs
<1> QED
  BY <1>1, <1>3, <1>7, <1>8, <1>9, <1>10, <1>11, <1>12, <1>13 DEF QueryInv

LEMMA QueryLogoutKeeps ==
    ASSUME Query!ConstantsFit, QueryInv, Query!doLogout
    PROVE  QueryInv'
<1>0. QueryTyped /\ QueryAnswersAreTrue /\ RowsAreTheirs
  BY DEF QueryInv
<1> DEFINE over == [q \in Slots |-> [queryReq[q] EXCEPT !.late = queryReq[q].kind = "search"]]
<1>1. tags' = tags /\ writes' = writes /\ queryShown' = Query!NoSearch /\ queryDoubt' = FALSE /\ asked' = Query!NoSearch
      /\ dbQuery' = Query!BlankQuery /\ queryEpoch' = queryEpoch + 1 /\ queryEpoch < MaxEpoch /\ queryReq' = over
  BY DEF Query!doLogout
<1>2. \A q \in Slots : /\ over[q] \in Query!ReqType
                       /\ over[q].kind = queryReq[q].kind /\ over[q].search = queryReq[q].search /\ over[q].state = queryReq[q].state
                       /\ over[q].answer = queryReq[q].answer
                       /\ over[q].kind = "search" => over[q].late
  BY <1>0, LateShape DEF QueryTyped
<1>3. over = [q \in Slots |-> over[q]]
  OBVIOUS
<1> HIDE DEF over
<1>4. queryReq' \in [Slots -> Query!ReqType]
  BY <1>1, <1>2, <1>3
<1>5. queryEpoch' \in 0..MaxEpoch
  BY <1>0, <1>1 DEF QueryTyped, Query!ConstantsFit
<1>6. QueryTyped'
  BY <1>0, <1>1, <1>4, <1>5, NoneTyped DEF QueryTyped
<1>7. dbQuery'.page = 0 /\ ~dbQuery'.loading /\ ~dbQuery'.exporting /\ dbQuery'.writes = 0
  BY <1>1 DEF Query!BlankQuery
<1>8. asked'.page = 0
  BY <1>1 DEF Query!NoSearch
<1>9. Query!DisabledMeansOut'
  BY <1>7 DEF Query!DisabledMeansOut
<1>10. NewestIsAsked' /\ ShownIsAsked'
  BY <1>1, <1>2 DEF NewestIsAsked, ShownIsAsked, Newest
<1>11. QueryAnswersAreTrue'
  BY <1>0, <1>1, <1>2, SameTable DEF QueryAnswersAreTrue
<1>12. RowsAreTheirs'
  <2>1. 0 <= writes
    BY <1>0 DEF QueryTyped, Query!ConstantsFit
  <2> QED
    BY <2>1, <1>1, <1>7 DEF RowsAreTheirs
<1> QED
  BY <1>6, <1>7, <1>8, <1>9, <1>10, <1>11, <1>12 DEF QueryInv

(* The table changes: what was said of it is of an earlier one. *)
LEMMA WriteKeeps ==
    ASSUME Query!ConstantsFit, QueryInv, NEW new \in Tables, Query!Write(new)
    PROVE  QueryInv'
<1>0. QueryTyped /\ dbQuery.page = asked.page /\ Query!DisabledMeansOut /\ NewestIsAsked /\ QueryAnswersAreTrue /\ ShownIsAsked
      /\ RowsAreTheirs
  BY DEF QueryInv
<1>1. tags' = new /\ writes' = writes + 1 /\ writes < MaxWrites
      /\ dbQuery' = dbQuery /\ queryEpoch' = queryEpoch /\ queryReq' = queryReq /\ asked' = asked /\ queryShown' = queryShown /\ queryDoubt' = queryDoubt
  BY DEF Query!Write
<1>2. writes \in Nat /\ writes' \in 0..MaxWrites
  BY <1>0, <1>1 DEF QueryTyped, Query!ConstantsFit
<1>3. QueryTyped'
  BY <1>0, <1>1, <1>2 DEF QueryTyped
<1>4. Query!DisabledMeansOut' /\ NewestIsAsked' /\ ShownIsAsked'
  BY <1>0, <1>1 DEF Query!DisabledMeansOut, Query!Searching, NewestIsAsked, ShownIsAsked, Newest
<1>5. QueryAnswersAreTrue'
  <2> SUFFICES ASSUME NEW s \in Slots, queryReq[s].kind = "search", queryReq[s].state = "ok"
               PROVE  Says(queryReq[s].answer, queryReq[s].search)'
    BY <1>1 DEF QueryAnswersAreTrue
  <2>1. queryReq[s].answer.writes <= writes
    BY <1>0 DEF QueryAnswersAreTrue, Says
  <2>2. queryReq[s].answer.writes \in 0..MaxWrites
    BY <1>0 DEF QueryTyped, Query!ReqType, Query!AnswerType
  <2>3. queryReq[s].answer.writes <= writes + 1 /\ queryReq[s].answer.writes # writes + 1
    BY <2>1, <2>2, <1>2 DEF Query!ConstantsFit
  <2> QED
    BY <2>3, <1>1 DEF Says
<1>6. RowsAreTheirs'
  <2>1. dbQuery.writes <= writes /\ dbQuery.writes \in 0..MaxWrites
    BY <1>0 DEF RowsAreTheirs, QueryTyped, QueryType
  <2>2. dbQuery.writes <= writes + 1 /\ dbQuery.writes # writes + 1
    BY <2>1, <1>2 DEF Query!ConstantsFit
  <2> QED
    BY <2>2, <1>1 DEF RowsAreTheirs
<1> QED
  BY <1>0, <1>1, <1>3, <1>4, <1>5, <1>6 DEF QueryInv

(* One request changes, and the table, the searches and the rows stay: an   *)
(* export begins, is answered, ends, or a search is answered.               *)
LEMMA OneRequestKeeps ==
    ASSUME Query!ConstantsFit, QueryInv, NEW s \in Slots, NEW r \in Query!ReqType, queryReq' = [queryReq EXCEPT ![s] = r],
           tags' = tags, writes' = writes, queryEpoch' = queryEpoch, asked' = asked, queryShown' = queryShown, queryDoubt' = queryDoubt,
           NEW b \in BOOLEAN, dbQuery' = [dbQuery EXCEPT !.exporting = b], b => r.kind = "export" \/ (dbQuery.exporting /\ queryReq[s].kind # "export"),
           \/ queryReq[s].kind # "search" /\ r.kind # "search"
           \/ /\ queryReq[s].kind = "search" /\ r.kind = "search" /\ r.search = queryReq[s].search /\ r.late = queryReq[s].late
              /\ Says(r.answer, r.search)
    PROVE  QueryInv'
<1>0. QueryTyped /\ dbQuery.page = asked.page /\ Query!DisabledMeansOut /\ NewestIsAsked /\ QueryAnswersAreTrue /\ ShownIsAsked
      /\ RowsAreTheirs
  BY DEF QueryInv
<1>1. queryReq' \in [Slots -> Query!ReqType] /\ queryReq'[s] = r /\ \A q \in Slots \ {s} : queryReq'[q] = queryReq[q]
  BY <1>0 DEF QueryTyped
<1>2. dbQuery' \in QueryType /\ dbQuery'.page = dbQuery.page /\ dbQuery'.loading = dbQuery.loading
      /\ dbQuery'.exporting = b /\ dbQuery'.writes = dbQuery.writes
      /\ dbQuery'.results = dbQuery.results /\ dbQuery'.totalPages = dbQuery.totalPages
  BY <1>0 DEF QueryTyped, QueryType
<1>3. QueryTyped'
  BY <1>0, <1>1, <1>2 DEF QueryTyped
<1>4. \A q \in Slots : (queryReq'[q].kind = "search" <=> queryReq[q].kind = "search") /\ (Newest(q)' <=> Newest(q))
                       /\ (Newest(q) => queryReq'[q].search = queryReq[q].search)
  BY <1>1 DEF Newest
<1>5. Query!DisabledMeansOut'
  <2>1. dbQuery'.loading => Query!Searching'
    BY <1>0, <1>2, <1>4 DEF Query!DisabledMeansOut, Query!Searching
  <2>2. ASSUME b PROVE \E q \in Slots : queryReq'[q].kind = "export"
    <3>1. CASE r.kind = "export"
      BY <3>1, <1>1
    <3>2. CASE dbQuery.exporting /\ queryReq[s].kind # "export"
      <4>1. PICK q \in Slots : queryReq[q].kind = "export"
        BY <3>2, <1>0 DEF Query!DisabledMeansOut
      <4>2. q # s
        BY <3>2, <4>1
      <4> QED
        BY <4>1, <4>2, <1>1
    <3> QED
      BY <2>2, <3>1, <3>2
  <2> QED
    BY <2>1, <2>2, <1>2 DEF Query!DisabledMeansOut
<1>6. NewestIsAsked' /\ ShownIsAsked'
  BY <1>0, <1>4 DEF NewestIsAsked, ShownIsAsked
<1>7. QueryAnswersAreTrue'
  <2> SUFFICES ASSUME NEW q \in Slots, queryReq'[q].kind = "search", queryReq'[q].state = "ok"
               PROVE  Says(queryReq'[q].answer, queryReq'[q].search)
    BY SameTable DEF QueryAnswersAreTrue
  <2>1. CASE q = s
    BY <2>1, <1>1
  <2>2. CASE q # s
    BY <2>2, <1>0, <1>1 DEF QueryAnswersAreTrue
  <2> QED
    BY <2>1, <2>2
<1>8. RowsAreTheirs'
  BY <1>0, <1>2, SameTable DEF RowsAreTheirs
<1> QED
  BY <1>0, <1>2, <1>3, <1>5, <1>6, <1>7, <1>8 DEF QueryInv

LEMMA ExportKeeps ==
    ASSUME Query!ConstantsFit, QueryInv, Query!exportTags
    PROVE  QueryInv'
<1>0. QueryTyped
  BY DEF QueryInv
<1> DEFINE search == [filter |-> Query!Filter, page |-> 0]
           r == [Query!NoReq EXCEPT !.kind = "export", !.search = search]
<1>1. tags' = tags /\ writes' = writes /\ queryEpoch' = queryEpoch /\ queryShown' = queryShown /\ queryDoubt' = queryDoubt /\ asked' = asked
      /\ dbQuery' = [dbQuery EXCEPT !.exporting = TRUE]
  BY DEF Query!exportTags
<1>2. PICK s \in Slots : queryReq[s].kind = "none" /\ queryReq' = [queryReq EXCEPT ![s] = r]
  BY DEF Query!exportTags
<1>3. search \in Query!SearchType
  BY <1>0, NoneTyped DEF Query!SearchType, Query!Filters, Query!Filter, QueryTyped, QueryType
<1> HIDE DEF search
<1>4. r \in Query!ReqType /\ r.kind = "export"
  <2>1. Query!NoReq \in Query!ReqType
    BY NoneTyped
  <2> QED
    BY <2>1, <1>3 DEF Query!NoReq, Query!ReqType
<1> HIDE DEF r
<1>5. queryReq[s].kind # "search" /\ r.kind # "search" /\ TRUE \in BOOLEAN
  BY <1>2, <1>4
<1> QED
  BY <1>1, <1>2, <1>4, <1>5, OneRequestKeeps

LEMMA AnswerShape ==
    ASSUME NEW s \in Slots, queryReq \in [Slots -> Query!ReqType], NEW st \in {"ok", "refused"}, NEW a \in Query!AnswerType,
           queryReq' = [queryReq EXCEPT ![s].state = st, ![s].answer = a]
    PROVE  \E r \in Query!ReqType : /\ queryReq' = [queryReq EXCEPT ![s] = r]
                              /\ r.kind = queryReq[s].kind /\ r.search = queryReq[s].search /\ r.late = queryReq[s].late
                              /\ r.answer = a
<1> DEFINE r == [queryReq[s] EXCEPT !.state = st, !.answer = a]
<1>1. r \in Query!ReqType /\ r.kind = queryReq[s].kind /\ r.search = queryReq[s].search /\ r.late = queryReq[s].late /\ r.answer = a
  BY DEF Query!ReqType
<1>2. queryReq' = [queryReq EXCEPT ![s] = r]
  OBVIOUS
<1> HIDE DEF r
<1> QED
  BY <1>1, <1>2

LEMMA SameExporting ==
    ASSUME dbQuery \in QueryType
    PROVE  dbQuery.exporting \in BOOLEAN /\ dbQuery = [dbQuery EXCEPT !.exporting = dbQuery.exporting]
  BY DEF QueryType

LEMMA ServeSearchKeeps ==
    ASSUME Query!ConstantsFit, QueryInv, NEW s \in Slots, Query!ServeSearch(s)
    PROVE  QueryInv'
<1>0. QueryTyped /\ Query!DisabledMeansOut
  BY DEF QueryInv
<1>1. /\ queryReq[s].kind = "search"
      /\ queryReq' = [queryReq EXCEPT ![s].state = "ok", ![s].answer = Query!SearchFormalTags(queryReq[s].search)]
      /\ tags' = tags /\ writes' = writes /\ dbQuery' = dbQuery /\ queryEpoch' = queryEpoch /\ asked' = asked /\ queryShown' = queryShown
      /\ queryDoubt' = queryDoubt
  BY DEF Query!ServeSearch
<1>2. Query!SearchFormalTags(queryReq[s].search) \in Query!AnswerType
  BY <1>0, SearchTyped
<1> DEFINE a == Query!SearchFormalTags(queryReq[s].search)
<1>3. a \in Query!AnswerType /\ queryReq' = [queryReq EXCEPT ![s].state = "ok", ![s].answer = a]
  BY <1>1, <1>2
<1>4. Says(a, queryReq[s].search)
  <2>1. a.writes = writes /\ writes <= writes
    BY <1>0 DEF Query!SearchFormalTags, QueryTyped, Query!ConstantsFit
  <2> QED
    BY <2>1 DEF Says
<1> HIDE DEF a
<1>5. PICK r \in Query!ReqType : /\ queryReq' = [queryReq EXCEPT ![s] = r]
                           /\ r.kind = queryReq[s].kind /\ r.search = queryReq[s].search /\ r.late = queryReq[s].late
                           /\ r.answer = a
  BY <1>0, <1>3, AnswerShape DEF QueryTyped
<1> DEFINE b == dbQuery.exporting
<1>6. b \in BOOLEAN /\ dbQuery' = [dbQuery EXCEPT !.exporting = b]
  BY <1>0, <1>1, SameExporting DEF QueryTyped
<1>7. b => dbQuery.exporting /\ queryReq[s].kind # "export"
  BY <1>1
<1> HIDE DEF b
<1>8. Says(r.answer, r.search)
  BY <1>4, <1>5
<1> QED
  BY <1>1, <1>5, <1>6, <1>7, <1>8, OneRequestKeeps

LEMMA ServeExportKeeps ==
    ASSUME Query!ConstantsFit, QueryInv, NEW s \in Slots, Query!ServeExport(s)
    PROVE  QueryInv'
<1>0. QueryTyped /\ Query!DisabledMeansOut
  BY DEF QueryInv
<1> DEFINE saved == Query!OnPage(Query!Match(queryReq[s].search.filter), 0, ExportCap)
           st == IF saved = {} THEN "refused" ELSE "ok"
           a == [Query!NoAnswer EXCEPT !.data = saved]
<1>1. /\ queryReq[s].kind = "export"
      /\ queryReq' = [queryReq EXCEPT ![s].state = st, ![s].answer = a]
      /\ tags' = tags /\ writes' = writes /\ dbQuery' = dbQuery /\ queryEpoch' = queryEpoch /\ asked' = asked /\ queryShown' = queryShown
      /\ queryDoubt' = queryDoubt
  BY DEF Query!ServeExport
<1>2. saved \subseteq Tags
  BY <1>0, Found DEF Query!OnPage
<1>3. st \in {"ok", "refused"}
  OBVIOUS
<1> HIDE DEF saved
<1>4. a \in Query!AnswerType
  BY <1>2, NoneTyped DEF Query!NoAnswer, Query!AnswerType
<1> HIDE DEF a, st
<1>5. PICK r \in Query!ReqType : /\ queryReq' = [queryReq EXCEPT ![s] = r]
                           /\ r.kind = queryReq[s].kind /\ r.search = queryReq[s].search /\ r.late = queryReq[s].late
                           /\ r.answer = a
  BY <1>0, <1>1, <1>3, <1>4, AnswerShape DEF QueryTyped
<1> DEFINE b == dbQuery.exporting
<1>6. b \in BOOLEAN /\ dbQuery' = [dbQuery EXCEPT !.exporting = b]
  BY <1>0, <1>1, SameExporting DEF QueryTyped
<1>7. r.kind = "export"
  BY <1>1, <1>5
<1> HIDE DEF b
<1> QED
  BY <1>1, <1>5, <1>6, <1>7, OneRequestKeeps

LEMMA ExportArrivesKeeps ==
    ASSUME Query!ConstantsFit, QueryInv, NEW s \in Slots, Query!ExportArrives(s)
    PROVE  QueryInv'
<1>1. /\ queryReq[s].kind = "export"
      /\ queryReq' = [queryReq EXCEPT ![s] = Query!NoReq]
      /\ tags' = tags /\ writes' = writes /\ dbQuery' = [dbQuery EXCEPT !.exporting = FALSE]
      /\ queryEpoch' = queryEpoch /\ asked' = asked /\ queryShown' = queryShown /\ queryDoubt' = queryDoubt
  BY DEF Query!ExportArrives
<1>2. Query!NoReq \in Query!ReqType /\ Query!NoReq.kind = "none" /\ FALSE \in BOOLEAN
  BY NoneTyped, QueryNoRequest
<1> QED
  BY <1>1, <1>2, OneRequestKeeps

(* The answer of a search, or its failure. *)
LEMMA SearchEndsKeeps ==
    ASSUME Query!ConstantsFit, QueryInv, NEW s \in Slots, Query!SearchAnswered(s) \/ Query!SearchFails(s)
    PROVE  QueryInv'
<1>0. QueryTyped /\ dbQuery.page = asked.page /\ Query!DisabledMeansOut /\ NewestIsAsked /\ QueryAnswersAreTrue /\ ShownIsAsked
      /\ RowsAreTheirs
  BY DEF QueryInv
<1>1. queryReq[s].kind = "search" /\ queryReq' = [queryReq EXCEPT ![s] = Query!NoReq]
      /\ tags' = tags /\ writes' = writes /\ queryEpoch' = queryEpoch /\ asked' = asked
  BY DEF Query!SearchAnswered, Query!SearchFails
<1>2. Query!NoReq \in Query!ReqType /\ Query!NoReq.kind = "none"
  BY NoneTyped, QueryNoRequest
<1>3. queryReq' \in [Slots -> Query!ReqType] /\ queryReq'[s] = Query!NoReq /\ \A q \in Slots \ {s} : queryReq'[q] = queryReq[q]
  BY <1>0, <1>1, <1>2 DEF QueryTyped
<1>4. queryReq[s] \in Query!ReqType /\ queryReq[s].search \in Query!SearchType /\ queryReq[s].late \in BOOLEAN /\ queryReq[s].answer \in Query!AnswerType
      /\ dbQuery \in QueryType
  BY <1>0 DEF QueryTyped, Query!ReqType
<1>5. NewestIsAsked' /\ QueryAnswersAreTrue'
  <2>1. NewestIsAsked'
    BY <1>0, <1>1, <1>2, <1>3 DEF NewestIsAsked, Newest
  <2> SUFFICES ASSUME NEW q \in Slots, queryReq'[q].kind = "search", queryReq'[q].state = "ok"
               PROVE  Says(queryReq'[q].answer, queryReq'[q].search)
    BY <2>1, <1>1, SameTable DEF QueryAnswersAreTrue
  <2>2. q # s
    BY <1>2, <1>3
  <2> QED
    BY <2>2, <1>0, <1>3 DEF QueryAnswersAreTrue
<1>6. /\ dbQuery' \in QueryType /\ dbQuery'.page = dbQuery.page /\ ~dbQuery'.loading
      /\ dbQuery'.exporting = dbQuery.exporting
      /\ queryShown' \in Query!SearchType /\ queryDoubt' \in BOOLEAN
      /\ ShownIsAsked' /\ RowsAreTheirs'
  <2>1. CASE Query!SearchAnswered(s)
    <3> DEFINE a == queryReq[s].answer
    <3>1. /\ dbQuery' = [dbQuery EXCEPT !.results = a.data, !.total = a.total, !.totalPages = a.totalPages,
                                        !.writes = a.writes, !.loading = FALSE]
          /\ queryShown' = queryReq[s].search /\ queryDoubt' = queryReq[s].late /\ queryReq[s].state = "ok"
      BY <2>1 DEF Query!SearchAnswered
    <3>2. a.data \subseteq Tags /\ a.total \in Query!Pages /\ a.totalPages \in Query!Pages /\ a.writes \in 0..MaxWrites
      BY <1>4 DEF Query!AnswerType
    <3>3. Says(a, queryReq[s].search)
      BY <3>1, <1>0, <1>1 DEF QueryAnswersAreTrue
    <3> HIDE DEF a
    <3>4. /\ dbQuery' \in QueryType /\ dbQuery'.page = dbQuery.page /\ dbQuery'.loading = FALSE
          /\ dbQuery'.exporting = dbQuery.exporting /\ dbQuery'.results = a.data
          /\ dbQuery'.totalPages = a.totalPages /\ dbQuery'.writes = a.writes
      BY <3>1, <3>2, <1>4 DEF QueryType
    <3>5. ShownIsAsked'
      BY <3>1, <1>0, <1>1 DEF ShownIsAsked, NewestIsAsked, Newest
    <3>6. RowsAreTheirs'
      BY <3>1, <3>3, <3>4, <1>1, SameTable DEF RowsAreTheirs, Says
    <3> QED
      BY <3>1, <3>4, <3>5, <3>6, <1>4
  <2>2. CASE Query!SearchFails(s)
    <3>1. dbQuery' = [dbQuery EXCEPT !.loading = FALSE] /\ queryShown' = queryShown /\ queryDoubt' = (queryDoubt \/ ~queryReq[s].late)
      BY <2>2 DEF Query!SearchFails
    <3>2. /\ dbQuery' \in QueryType /\ dbQuery'.page = dbQuery.page /\ dbQuery'.loading = FALSE
          /\ dbQuery'.exporting = dbQuery.exporting /\ dbQuery'.results = dbQuery.results
          /\ dbQuery'.totalPages = dbQuery.totalPages /\ dbQuery'.writes = dbQuery.writes
      BY <3>1, <1>4 DEF QueryType
    <3>3. ShownIsAsked'
      <4> SUFFICES ASSUME \A q \in Slots : ~Newest(q)', ~queryDoubt' PROVE queryShown = asked
        BY <3>1, <1>1 DEF ShownIsAsked
      <4>1. ~queryDoubt /\ queryReq[s].late
        BY <3>1
      <4>2. \A q \in Slots : ~Newest(q)
        BY <4>1, <1>3 DEF Newest
      <4> QED
        BY <4>1, <4>2, <1>0 DEF ShownIsAsked
    <3>4. RowsAreTheirs'
      BY <3>1, <3>2, <1>0, <1>1, SameTable DEF RowsAreTheirs
    <3>5. queryDoubt' \in BOOLEAN
      BY <3>1, <1>0, <1>4 DEF QueryTyped
    <3> QED
      BY <3>1, <3>2, <3>3, <3>4, <3>5, <1>0 DEF QueryTyped
  <2> QED
    BY <2>1, <2>2
<1>7. QueryTyped'
  BY <1>0, <1>1, <1>3, <1>6 DEF QueryTyped
<1>8. Query!DisabledMeansOut'
  <2>1. \A q \in Slots : queryReq[q].kind = "export" => queryReq'[q].kind = "export"
    BY <1>1, <1>3
  <2> QED
    BY <2>1, <1>0, <1>6 DEF Query!DisabledMeansOut
<1> QED
  BY <1>0, <1>1, <1>5, <1>6, <1>7, <1>8 DEF QueryInv

LEMMA QueryStep == Query!ConstantsFit /\ QueryInv /\ [Query!Next]_(Query!vars) => QueryInv'
<1> SUFFICES ASSUME Query!ConstantsFit, QueryInv, [Query!Next]_(Query!vars) PROVE QueryInv'
  OBVIOUS
<1>1. CASE UNCHANGED Query!vars
  <2>1. tags' = tags /\ writes' = writes /\ dbQuery' = dbQuery /\ queryEpoch' = queryEpoch /\ queryReq' = queryReq /\ asked' = asked
        /\ queryShown' = queryShown /\ queryDoubt' = queryDoubt
    BY <1>1 DEF Query!vars
  <2>2. QueryTyped' /\ dbQuery'.page = asked'.page /\ Query!DisabledMeansOut' /\ NewestIsAsked' /\ ShownIsAsked'
    BY <2>1 DEF QueryInv, QueryTyped, Query!DisabledMeansOut, Query!Searching, NewestIsAsked, ShownIsAsked, Newest
  <2>3. QueryAnswersAreTrue' /\ RowsAreTheirs'
    BY <2>1, SameTable DEF QueryInv, QueryAnswersAreTrue, RowsAreTheirs
  <2> QED
    BY <2>2, <2>3 DEF QueryInv
<1>2. CASE \/ Query!addCondition
           \/ \E i \in DOMAIN dbQuery.conditions :
                 Query!removeCondition(i) \/ \E c \in Conditions : Query!EditCondition(i, c)
           \/ \E l \in {"AND", "OR"} : Query!ChooseLogic(l)
  BY <1>2, EditsKeep
<1>3. CASE Query!searchTags \/ \E p \in Query!Pages : Query!TurnPage(p)
  <2>1. 0 \in Query!Pages
    BY NoneTyped
  <2>2. \E p \in Query!Pages : Query!Ask(p)
    BY <2>1, <1>3 DEF Query!searchTags, Query!TurnPage
  <2> QED
    BY <2>2, AskKeeps
<1>4. CASE Query!exportTags
  BY <1>4, ExportKeeps
<1>5. CASE Query!doLogout
  BY <1>5, QueryLogoutKeeps
<1>6. CASE \E new \in Tables : Query!Write(new)
  BY <1>6, WriteKeeps
<1>7. CASE \E s \in Slots : Query!ServeSearch(s) \/ Query!ServeExport(s) \/ Query!SearchAnswered(s) \/ Query!SearchFails(s) \/ Query!ExportArrives(s)
  BY <1>7, ServeSearchKeeps, ServeExportKeeps, SearchEndsKeeps, ExportArrivesKeeps
<1> QED
  BY <1>1, <1>2, <1>3, <1>4, <1>5, <1>6, <1>7 DEF Query!Next

LEMMA QueryFits == Query!ConstantsFit /\ QueryInv => Query!TypeOK /\ Query!ResultsFitTheSearch
<1> SUFFICES ASSUME Query!ConstantsFit, QueryInv PROVE Query!TypeOK /\ Query!ResultsFitTheSearch
  OBVIOUS
<1>0. QueryTyped /\ dbQuery.page = asked.page /\ Query!DisabledMeansOut /\ ShownIsAsked /\ RowsAreTheirs
  BY DEF QueryInv
<1>1. Query!TypeOK
  BY <1>0 DEF QueryTyped, Query!TypeOK, QueryType
<1>2. ~Query!Searching => \A s \in Slots : ~Newest(s)
  BY DEF Query!Searching, Newest
<1>3. Query!SettledRowsFitTheSearch
  BY <1>0, <1>2 DEF Query!SettledRowsFitTheSearch, ShownIsAsked
<1>4. Query!PagesCoverMatches
  <2> SUFFICES ASSUME queryShown # Query!NoSearch, dbQuery.writes = writes
               PROVE  /\ Query!Match(queryShown.filter)
                           = UNION {Query!OnPage(Query!Match(queryShown.filter), p, PageSize) : p \in 0 .. dbQuery.totalPages - 1}
                      /\ dbQuery.results = Query!OnPage(Query!Match(queryShown.filter), queryShown.page, PageSize)
    BY DEF Query!PagesCoverMatches
  <2> DEFINE found == Query!Match(queryShown.filter)
  <2>1. found \subseteq Nat /\ IsFiniteSet(found)
    BY <1>0, Found DEF Query!ConstantsFit
  <2>2. dbQuery.results = Query!OnPage(found, queryShown.page, PageSize) /\ dbQuery.totalPages = Query!PageCount(Query!Cardinality(found))
    BY <1>0 DEF RowsAreTheirs, Query!SearchFormalTags
  <2> HIDE DEF found
  <2>3. found = UNION {Query!OnPage(found, p, PageSize) : p \in 0 .. Query!PageCount(Query!Cardinality(found)) - 1}
    BY <2>1, PagesCover
  <2> QED
    BY <2>2, <2>3 DEF found
<1> QED
  BY <1>0, <1>1, <1>3, <1>4 DEF Query!ResultsFitTheSearch

-----------------------------------------------------------------------------
(* All parts together.                                                      *)

(* A step of the whole is a step of the part it is about, or none; one of   *)
(* the panel of a task, or none, it always is.                              *)
LEMMA PartSteps ==
    ASSUME [PartsNext]_allVars
    PROVE  /\ view' = view
           /\ [Next]_vars
           /\ view \in ListsViews => [Lists!Next]_(Lists!vars)
           /\ view \in FilesViews => [Imports!Next]_(Imports!vars)
           /\ view \in QueryViews => [Query!Next]_(Query!vars)
<1>1. CASE UNCHANGED allVars
  BY <1>1 DEF allVars, listsVars, filesVars, queryVars,
              Lists!vars, Lists!pageVars, Imports!vars, Query!vars
<1>2. CASE PartsNext
  BY <1>2 DEF PartsNext, StepIn, ListsViews, FilesViews, QueryViews
<1> QED
  BY <1>1, <1>2

LEMMA PartInits ==
    ASSUME PartsInit
    PROVE  /\ view \in Views
           /\ Init
           /\ view \in ListsViews => Lists!Init
           /\ view \in FilesViews => Imports!Init
           /\ view \in QueryViews => Query!Init
  BY DEF PartsInit

LEMMA ListsAreKept == PartsSpec => [](view \in ListsViews => ListsInv)
<1> DEFINE Holds == view \in ListsViews => ListsInv
<1>1. PartsInit => Holds
  BY PartInits, ListsInit, EveryConstantFits
<1>2. ASSUME Holds, [PartsNext]_allVars PROVE Holds'
  <2>1. CASE view \in ListsViews
    <3>1. ListsInv /\ [Lists!Next]_(Lists!vars)
      BY <1>2, <2>1, PartSteps
    <3>2. ListsInv'
      BY <3>1, ListsStep, EveryConstantFits
    <3> QED
      BY <3>2
  <2>2. CASE ~(view \in ListsViews)
    BY <1>2, <2>2, PartSteps
  <2> QED
    BY <2>1, <2>2
<1> HIDE DEF Holds
<1>3. PartsSpec => []Holds
  BY <1>1, <1>2, PTL DEF PartsSpec
<1> QED
  BY <1>3, PTL DEF Holds

LEMMA FilesAreKept == PartsSpec => [](view \in FilesViews => FilesInv)
<1> DEFINE Holds == view \in FilesViews => FilesInv
<1>1. PartsInit => Holds
  BY PartInits, FilesInit, EveryConstantFits
<1>2. ASSUME Holds, [PartsNext]_allVars PROVE Holds'
  <2>1. CASE view \in FilesViews
    <3>1. FilesInv /\ [Imports!Next]_(Imports!vars)
      BY <1>2, <2>1, PartSteps
    <3>2. FilesInv'
      BY <3>1, FilesStep, EveryConstantFits
    <3> QED
      BY <3>2
  <2>2. CASE ~(view \in FilesViews)
    BY <1>2, <2>2, PartSteps
  <2> QED
    BY <2>1, <2>2
<1> HIDE DEF Holds
<1>3. PartsSpec => []Holds
  BY <1>1, <1>2, PTL DEF PartsSpec
<1> QED
  BY <1>3, PTL DEF Holds

LEMMA QueryIsKept == PartsSpec => [](view \in QueryViews => QueryInv)
<1> DEFINE Holds == view \in QueryViews => QueryInv
<1>1. PartsInit => Holds
  BY PartInits, QueryInit, EveryConstantFits
<1>2. ASSUME Holds, [PartsNext]_allVars PROVE Holds'
  <2>1. CASE view \in QueryViews
    <3>1. QueryInv /\ [Query!Next]_(Query!vars)
      BY <1>2, <2>1, PartSteps
    <3>2. QueryInv'
      BY <3>1, QueryStep, EveryConstantFits
    <3> QED
      BY <3>2
  <2>2. CASE ~(view \in QueryViews)
    BY <1>2, <2>2, PartSteps
  <2> QED
    BY <2>1, <2>2
<1> HIDE DEF Holds
<1>3. PartsSpec => []Holds
  BY <1>1, <1>2, PTL DEF PartsSpec
<1> QED
  BY <1>3, PTL DEF Holds

(* What the panel shows of a task is so, for any number of gateways and    *)
(* rows: get_task_status reads state before numbers and done before the    *)
(* rest, and end_part and push_complete write in the opposite order        *)
(* (main.py:964-987, gateway_jobs.py:249-263, task_manager.py:57-66).      *)
THEOREM PollsAreTrue ==
    /\ PartsSpec => []AnswersAreTrue
    /\ Spec => []AnswersAreTrue
<1>1. (PartsInit => Init) /\ ([PartsNext]_allVars => [Next]_vars)
  BY PartInits, PartSteps
<1>2. Init => PollInv
  BY PollInvInit, EveryConstantFits
<1>3. PollInv /\ [Next]_vars => PollInv'
  BY PollInvStep, EveryConstantFits
<1>4. PollInv => AnswersAreTrue
  BY PollInvTellsTheTruth, EveryConstantFits
<1>5. Spec => []AnswersAreTrue
  BY <1>2, <1>3, <1>4, PTL DEF Spec
<1>6. PartsSpec => []AnswersAreTrue
  BY <1>1, <1>2, <1>3, <1>4, PTL DEF PartsSpec
<1> QED
  BY <1>5, <1>6

(* The progress bar never goes back, for any number of parts and rows:      *)
(* update_progress and end_part sum the entries and push the sum with the   *)
(* lock held (gateway_jobs.py:149-165, :250-260), an entry only counts up,  *)
(* and a poll reads the progress after the one before it was shown          *)
(* (main.py:964-987).                                                       *)
THEOREM ProgressMovesForward ==
    /\ PartsSpec => ProgressNeverFalls
    /\ Spec => ProgressNeverFalls
<1> DEFINE Inv == PollInv /\ RisingOK
<1>1. (PartsInit => Init) /\ ([PartsNext]_allVars => [Next]_vars)
    BY PartInits, PartSteps
<1>2. Init => Inv
    BY PollInvInit, RisingInit, EveryConstantFits
<1>3. Inv /\ [Next]_vars => Inv' /\ [ProgressMovesOn]_vars
    BY PollInvStep, RisingStep, EveryConstantFits
<1> HIDE DEF Inv
<1>4. Spec => ProgressNeverFalls
    BY <1>2, <1>3, PTL DEF Spec, ProgressNeverFalls
<1>5. PartsSpec => ProgressNeverFalls
    BY <1>1, <1>2, <1>3, PTL DEF PartsSpec, ProgressNeverFalls
<1> QED
    BY <1>4, <1>5

(* The lists of the settings, history and queue views: however many loads  *)
(* and changes overlap, and in whatever order they are answered, the rows  *)
(* under a tab are of its table, a list that is looked at has every change *)
(* the page made once nothing is under way for it, and the panel of the    *)
(* queues has one timer while it is open (app.js: loadRefTable, loadUsers, *)
(* saveRoute, openQueuePanel and what follows them).                       *)
THEOREM ListsStayTrue ==
    /\ PartsSpec => []ListsAreCurrent
    /\ Lists!Spec => []Lists!ListsAreCurrent
<1>1. (view \in ListsViews => ListsInv) => ListsAreCurrent
  BY ListsStayCurrent DEF ListsAreCurrent, ListsInv
<1>2. PartsSpec => []ListsAreCurrent
  BY <1>1, ListsAreKept, PTL
<1>3. Lists!Init => ListsInv
  BY ListsInit, EveryConstantFits
<1>4. ListsInv /\ [Lists!Next]_(Lists!vars) => ListsInv'
  BY ListsStep, EveryConstantFits
<1>5. ListsInv => Lists!ListsAreCurrent
  BY ListsStayCurrent
<1>6. Lists!Spec => []Lists!ListsAreCurrent
  BY <1>3, <1>4, <1>5, PTL DEF Lists!Spec
<1> QED
  BY <1>2, <1>6

(* Step 1 and batch delete: for any files and any number of uploads, the   *)
(* result under a file is of that file unless the file was replaced while  *)
(* it was imported, it accounts for every row, the import button opens     *)
(* again, and the title of a delete task names the mode it was sent with   *)
(* (app.js: _uploadCSV, importToStaging, executeDelete; main.py:           *)
(* import_staging).                                                        *)
THEOREM ResultsStayWithTheirFiles ==
    /\ PartsSpec => []FilesKeepTheirResults
    /\ Imports!Spec => []Imports!FilesKeepTheirResults
<1>1. (view \in FilesViews => FilesInv) => FilesKeepTheirResults
  BY DEF FilesKeepTheirResults, FilesInv
<1>2. PartsSpec => []FilesKeepTheirResults
  BY <1>1, FilesAreKept, PTL
<1>3. Imports!Init => FilesInv
  BY FilesInit, EveryConstantFits
<1>4. FilesInv /\ [Imports!Next]_(Imports!vars) => FilesInv'
  BY FilesStep, EveryConstantFits
<1>5. FilesInv => Imports!FilesKeepTheirResults
  BY DEF FilesInv
<1>6. Imports!Spec => []Imports!FilesKeepTheirResults
  BY <1>3, <1>4, <1>5, PTL DEF Imports!Spec
<1> QED
  BY <1>2, <1>6

(* The query tab: for any table, page size and number of overlapping       *)
(* searches, the rows and the page number are those of the newest search   *)
(* once it is answered, the pages hold every tag that matches, and no      *)
(* button stays disabled (app.js: searchTags, exportTags; main.py:         *)
(* search_formal_tags).                                                    *)
THEOREM RowsBelongToTheSearch ==
    /\ PartsSpec => []ResultsFitTheSearch
    /\ Query!Spec => []Query!ResultsFitTheSearch
<1>1. (view \in QueryViews => QueryInv) => ResultsFitTheSearch
  BY QueryFits, EveryConstantFits DEF ResultsFitTheSearch
<1>2. PartsSpec => []ResultsFitTheSearch
  BY <1>1, QueryIsKept, PTL
<1>3. Query!Init => QueryInv
  BY QueryInit, EveryConstantFits
<1>4. QueryInv /\ [Query!Next]_(Query!vars) => QueryInv'
  BY QueryStep, EveryConstantFits
<1>5. QueryInv => Query!ResultsFitTheSearch
  BY QueryFits, EveryConstantFits
<1>6. Query!Spec => []Query!ResultsFitTheSearch
  BY <1>3, <1>4, <1>5, PTL DEF Query!Spec
<1> QED
  BY <1>2, <1>6
=============================================================================
