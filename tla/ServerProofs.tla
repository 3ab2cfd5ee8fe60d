---------------------------- MODULE ServerProofs ----------------------------
(***************************************************************************)
(* What the parts of MCServer keep, for any values of their constants: the *)
(* write of PgImport, whatever fails on the way and wherever the process   *)
(* dies - as long as the formal transaction does not fail as a whole; and  *)
(* the parts beside it, each under its own prefix.                         *)
(***************************************************************************)
EXTENDS MCServer, SequenceTheorems, FiniteSetTheorems, WellFoundedInduction,
        TLAPS


(* What the handler has made sure of at each of its stages. *)
Stages ==
    /\ work.pc \in {"collector", "undo"} => work.new \cap Has(collector) = {}
    /\ work.pc \in {"collector", "status"} => \A t \in Good : formal[t] = staging[t].content
    /\ work.pc = "status" /\ HasCollector => \A t \in Good : collector[t] = staging[t].content

Inv == TypeOK /\ Stages /\ DoneMeansWritten /\ CollectorWithinFormal

-----------------------------------------------------------------------------

(* The initial states have the invariant: nothing is stored anywhere. *)
LEMMA InitInv == Init => Inv
  BY NoneAssumption, BoundAssumption
  DEF Init, Inv, TypeOK, NoPreview, Stages, DoneMeansWritten, CollectorWithinFormal, Stored, Statuses, Marks, NoRow, Idle, Has,
      Good, Pending, Derivers

(* What a handler that ends leaves behind. *)
LEMMA AnsweredWork ==
  ASSUME TypeOK, NEW outcome \in {"ok", "rolledback", "failed"},
         Answered(outcome)
  PROVE  /\ work' = Idle
         /\ exec' \in [pc : {"idle", "sent", "served", "rederive"},
                       answer : {"none", "ok", "rolledback", "failed"}]
         /\ UNCHANGED <<pgDerive, derive, edits>>
<1>1. exec \in [pc : {"idle", "sent", "served", "rederive"},
                answer : {"none", "ok", "rolledback", "failed"}]
  BY DEF TypeOK
<1> QED BY <1>1 DEF Answered

-----------------------------------------------------------------------------
(* Types *)

CoreOK ==
    /\ staging \in [Tags -> [content : Stored, status : Statuses]]
    /\ formal \in [Tags -> Stored] /\ collector \in [Tags -> Stored]
    /\ work \in [pc : {"idle", "formal", "collector", "undo", "status"}, mine : BOOLEAN,
                 rows : SUBSET Tags, new : SUBSET Tags, errors : SUBSET Tags]
    /\ work.rows \subseteq Pending /\ work.new \cup work.errors \subseteq work.rows

PageOK ==
    /\ pgDerive \in [data : SUBSET Tags, loading : BOOLEAN, executing : BOOLEAN,
                     result : {"none", "ok", "error"}]
    /\ exec \in [pc : {"idle", "sent", "served", "rederive"},
                 answer : {"none", "ok", "rolledback", "failed"}]
    /\ derive \in [Derivers -> [pc : {"idle", "sent", "served"}, rows : SUBSET Tags]]
    /\ edits \in 0..MaxEdits

LEMMA TypeParts == TypeOK <=> CoreOK /\ PageOK
  BY DEF TypeOK, CoreOK, PageOK

LEMMA TypePartsNext == CoreOK' /\ PageOK' => TypeOK'
  BY DEF TypeOK, CoreOK, PageOK

(* The steps of the page keep the tables and at most disown the handler. *)
PageStep ==
    \/ \E d \in Derivers : ServeDerive(d) \/ DeriveArrives(d) \/ DeriveFails(d)
    \/ derivePg \/ executePg \/ Executed \/ ExecuteFails \/ ExecuteLost \/ doLogout

LEMMA PageStepCore ==
  ASSUME TypeOK, PageStep
  PROVE  /\ UNCHANGED tables
         /\ work' = [work EXCEPT !.mine = work'.mine] /\ work'.mine \in BOOLEAN
<1>1. ASSUME UNCHANGED <<tables, work>> PROVE work' = [work EXCEPT !.mine = work'.mine] /\ work'.mine \in BOOLEAN
  BY <1>1 DEF TypeOK
<1>2. CASE ExecuteLost
  BY <1>2 DEF ExecuteLost, TypeOK
<1>3. CASE ~ExecuteLost
  <2>1. UNCHANGED <<tables, work>>
    BY <1>3 DEF PageStep, ServeDerive, DeriveArrives, DeriveFails, EndDerive, derivePg, executePg, Executed,
                ExecuteFails, doLogout
  <2> QED BY <1>1, <2>1
<1> QED BY <1>2, <1>3

LEMMA PageStepType == TypeOK /\ PageStep => PageOK'
<1> SUFFICES ASSUME TypeOK, PageStep PROVE PageOK'
  OBVIOUS
<1>0. PageOK /\ Pending \subseteq Tags
  BY DEF TypeOK, PageOK, Pending
<1>1. ASSUME NEW d \in Derivers, ServeDerive(d) PROVE PageOK'
  BY <1>0, <1>1 DEF PageOK, ServeDerive
<1>2. ASSUME NEW d \in Derivers, NEW data \in SUBSET Tags, EndDerive(d, data) PROVE PageOK'
  BY <1>0, <1>2 DEF PageOK, EndDerive
<1>3. ASSUME NEW d \in Derivers, DeriveArrives(d) \/ DeriveFails(d) PROVE PageOK'
  <2>1. derive[d].rows \in SUBSET Tags /\ pgDerive.data \in SUBSET Tags
    BY <1>0 DEF PageOK
  <2> QED BY <1>2, <1>3, <2>1 DEF DeriveArrives, DeriveFails
<1>4. CASE derivePg
  BY <1>0, <1>4 DEF PageOK, derivePg, BeginDerive, Derivers
<1>5. CASE executePg
  BY <1>0, <1>5 DEF PageOK, executePg
<1>6. CASE Executed
  BY <1>0, <1>6 DEF PageOK, Executed, BeginDerive, Derivers
<1>7. CASE ExecuteFails
  BY <1>0, <1>7 DEF PageOK, ExecuteFails
<1>8. CASE ExecuteLost
  BY <1>0, <1>8 DEF PageOK, ExecuteLost
<1>9. CASE doLogout
  BY <1>0, <1>9 DEF PageOK, doLogout, NoPreview
<1> QED BY <1>1, <1>3, <1>4, <1>5, <1>6, <1>7, <1>8, <1>9 DEF PageStep

LEMMA PageStepInv == Inv /\ PageStep => Inv'
<1> SUFFICES ASSUME Inv, PageStep PROVE Inv'
  OBVIOUS
<1>1. TypeOK /\ PageOK'
  BY PageStepType DEF Inv
<1>2. UNCHANGED tables /\ work' = [work EXCEPT !.mine = work'.mine] /\ work'.mine \in BOOLEAN
  BY <1>1, PageStepCore
<1>3. CoreOK'
  BY <1>1, <1>2, TypeParts DEF CoreOK, tables, Pending
<1>4. /\ work'.pc = work.pc /\ work'.rows = work.rows
      /\ work'.errors = work.errors /\ work'.new = work.new
  BY <1>1, <1>2 DEF TypeOK
<1> QED
  BY <1>1, <1>2, <1>3, <1>4, TypePartsNext
  DEF Inv, Stages, DoneMeansWritten, CollectorWithinFormal, Good, Has, tables

-----------------------------------------------------------------------------
(* The staging table and the handler *)

LEMMA StagingStep ==
  ASSUME Inv, NEW t \in Tags, Delete(t) \/ (\E c \in Contents : Import(t, c)) \/ \E s \in Marks : Mark(t, s)
  PROVE  Inv'
<1>1. /\ CoreOK /\ PageOK /\ work = Idle /\ work' = Idle
      /\ UNCHANGED <<formal, collector, page>> /\ edits' \in 0..MaxEdits
  BY TypeParts, BoundAssumption DEF Inv, Delete, Import, Mark, PageOK
<1>2. PICK row \in [content : Stored, status : Marks] : staging' = [staging EXCEPT ![t] = row]
  <2>1. CASE \E s \in Marks : Mark(t, s)
    <3>1. PICK s \in Marks : Mark(t, s)
      BY <2>1
    <3> DEFINE row == [staging[t] EXCEPT !.status = s]
    <3>2. staging' = [staging EXCEPT ![t] = row]
      BY <3>1 DEF Mark
    <3>3. staging[t] \in [content : Stored, status : Statuses]
      BY <1>1 DEF CoreOK
    <3>4. row \in [content : Stored, status : Marks]
      BY <3>1, <3>3
    <3> HIDE DEF row
    <3> QED BY <3>2, <3>4
  <2> QED BY <2>1, NoneAssumption DEF Delete, Import, NoRow, Stored, Marks
<1>3. CoreOK' /\ PageOK'
  BY <1>1, <1>2 DEF CoreOK, PageOK, page, Idle, Statuses
<1>4. DoneMeansWritten'
  BY <1>1, <1>2 DEF CoreOK, Inv, DoneMeansWritten, Marks
<1> QED
  BY <1>1, <1>3, <1>4, TypePartsNext DEF Inv, Stages, CollectorWithinFormal, Idle, Has

LEMMA TakeInv ==
  ASSUME Inv, NEW mine \in BOOLEAN, Take(mine)
  PROVE  Inv'
<1>1. CoreOK /\ PageOK /\ UNCHANGED <<tables, pgDerive, derive, edits>> /\ Pending \subseteq Tags
  BY TypeParts DEF Inv, Take, Pending
<1>2. PageOK'
  BY <1>1 DEF PageOK, Take
<1>3. work' = work \/ work' = [pc |-> "formal", mine |-> mine, rows |-> Pending, new |-> {}, errors |-> {}]
  BY DEF Take, Idle
<1>4. CoreOK'
  BY <1>1, <1>3 DEF CoreOK, tables, Pending
<1> QED
  BY <1>1, <1>2, <1>3, <1>4, TypePartsNext
  DEF Inv, Stages, DoneMeansWritten, CollectorWithinFormal, Good, Has, tables

LEMMA WriteFormalInv ==
  ASSUME Inv, NEW bad \in SUBSET Tags, WriteFormal(bad)
  PROVE  Inv'
<1> DEFINE good == work.rows \ bad
<1>1. /\ CoreOK /\ PageOK /\ UNCHANGED <<staging, collector, page, edits>>
      /\ good \subseteq Pending /\ good \subseteq Tags /\ bad \subseteq work.rows
      /\ AfterFormal(good) \in {"collector", "status"}
      /\ AfterFormal(good) = "status" => ~HasCollector \/ good = {}
  BY TypeParts DEF Inv, CoreOK, WriteFormal, AfterFormal
<1>2. /\ work' = [work EXCEPT !.pc = AfterFormal(good), !.errors = bad, !.new = good \ Has(formal)]
      /\ formal' = [t \in Tags |-> IF t \in good THEN staging[t].content ELSE formal[t]]
  BY DEF WriteFormal, Upsert
<1>3. \A t \in good : staging[t].content \in Contents /\ staging[t].status = "pending"
  BY <1>1 DEF CoreOK, Stored, Pending, NoRow
<1>4. /\ work'.pc = AfterFormal(good) /\ work'.errors = bad /\ work'.new = good \ Has(formal)
      /\ work'.rows = work.rows /\ Good' = good
  BY <1>1, <1>2 DEF CoreOK, Good
<1>5. PageOK'
  BY <1>1 DEF PageOK, page
<1>6. CoreOK'
  <2>1. formal' \in [Tags -> Stored]
    BY <1>1, <1>2, <1>3 DEF CoreOK, Stored
  <2> QED
    BY <1>1, <1>2, <1>4, <2>1 DEF CoreOK, Pending
<1>7. Stages'
  <2>1. work'.new \cap Has(collector) = {}
    BY <1>4 DEF Inv, CollectorWithinFormal
  <2> QED
    BY <1>1, <1>2, <1>4, <2>1 DEF Stages, Has
<1>8. DoneMeansWritten'
  BY <1>1, <1>2, <1>3 DEF Inv, DoneMeansWritten
<1>9. CollectorWithinFormal'
  BY <1>1, <1>2, <1>3, NoneAssumption DEF Inv, CollectorWithinFormal, Has
<1> QED
  BY <1>5, <1>6, <1>7, <1>8, <1>9, TypePartsNext DEF Inv

LEMMA WriteCollectorInv ==
  ASSUME Inv, NEW bad \in SUBSET Tags, WriteCollector(bad)
  PROVE  Inv'
<1> DEFINE good == Good \ bad
<1>1. /\ CoreOK /\ PageOK /\ UNCHANGED <<staging, formal, page, edits>> /\ work.pc = "collector"
      /\ good \subseteq Pending /\ good \subseteq Tags /\ bad \subseteq work.rows
      /\ \A t \in good : formal[t] = staging[t].content
  BY TypeParts DEF Inv, CoreOK, WriteCollector, Good, Stages
<1>2. /\ work' = [work EXCEPT !.pc = "status", !.errors = @ \cup bad]
      /\ collector' = [t \in Tags |-> IF t \in good THEN staging[t].content ELSE collector[t]]
  BY DEF WriteCollector, Upsert
<1>3. \A t \in good : staging[t].content \in Contents /\ staging[t].status = "pending"
  BY <1>1 DEF CoreOK, Stored, Pending, NoRow
<1>4. /\ work'.pc = "status" /\ work'.errors = work.errors \cup bad /\ work'.new = work.new
      /\ work'.rows = work.rows /\ Good' = good
  BY <1>1, <1>2 DEF CoreOK, Good
<1>5. PageOK'
  BY <1>1 DEF PageOK, page
<1>6. CoreOK'
  <2>1. collector' \in [Tags -> Stored]
    BY <1>1, <1>2, <1>3 DEF CoreOK, Stored
  <2> QED
    BY <1>1, <1>2, <1>4, <2>1 DEF CoreOK, Pending
<1>7. Stages'
  BY <1>1, <1>2, <1>4 DEF Stages
<1>8. DoneMeansWritten'
  BY <1>1, <1>2, <1>3 DEF Inv, DoneMeansWritten
<1>9. CollectorWithinFormal'
  BY <1>1, <1>2, <1>3, NoneAssumption DEF Inv, CollectorWithinFormal, Has
<1> QED
  BY <1>5, <1>6, <1>7, <1>8, <1>9, TypePartsNext DEF Inv

LEMMA CollectorFailsInv == Inv /\ CollectorFails => Inv'
<1> SUFFICES ASSUME Inv, CollectorFails PROVE Inv'
  OBVIOUS
<1>1. /\ CoreOK /\ PageOK /\ UNCHANGED <<tables, page, edits>> /\ work.pc = "collector"
      /\ work' = [work EXCEPT !.pc = "undo"]
  BY TypeParts DEF Inv, CollectorFails
<1>2. work'.pc = "undo" /\ work'.rows = work.rows /\ work'.errors = work.errors /\ work'.new = work.new
  BY <1>1 DEF CoreOK
<1>3. CoreOK' /\ PageOK'
  BY <1>1, <1>2 DEF CoreOK, PageOK, tables, page, Pending
<1> QED
  BY <1>1, <1>2, <1>3, TypePartsNext DEF Inv, Stages, DoneMeansWritten, CollectorWithinFormal, Has, tables

(* The handler ends without a change of the tables. *)
LEMMA EndsInv ==
  ASSUME Inv, NEW outcome \in {"rolledback", "failed"}, Answered(outcome), UNCHANGED tables
  PROVE  Inv'
<1>1. CoreOK /\ PageOK
  BY TypeParts DEF Inv
<1>2. work' = Idle /\ PageOK'
  BY <1>1, AnsweredWork DEF Inv, PageOK
<1>3. CoreOK'
  BY <1>1, <1>2 DEF CoreOK, Idle, tables
<1> QED
  BY <1>2, <1>3, TypePartsNext DEF Inv, Stages, DoneMeansWritten, CollectorWithinFormal, Has, Idle, tables

LEMMA UndoInv == Inv /\ Undo => Inv'
<1> SUFFICES ASSUME Inv, Undo PROVE Inv'
  OBVIOUS
<1> DEFINE gone == work.new \cap Good
<1>1. /\ CoreOK /\ PageOK /\ UNCHANGED <<staging, collector>> /\ work.pc = "undo"
      /\ gone \subseteq Pending /\ gone \cap Has(collector) = {}
      /\ formal' = [t \in Tags |-> IF t \in gone THEN None ELSE formal[t]]
  BY TypeParts DEF Inv, Undo, Stages, CoreOK
<1>2. work' = Idle /\ PageOK'
  BY <1>1, AnsweredWork DEF Inv, PageOK, Undo
<1>3. CoreOK'
  BY <1>1, <1>2 DEF CoreOK, Idle, Stored
<1>4. DoneMeansWritten'
  BY <1>1 DEF Inv, DoneMeansWritten, Pending
<1>5. CollectorWithinFormal'
  BY <1>1 DEF Inv, CollectorWithinFormal, Has
<1> QED
  BY <1>2, <1>3, <1>4, <1>5, TypePartsNext DEF Inv, Stages, Idle

LEMMA MarkDoneInv == Inv /\ MarkDone => Inv'
<1> SUFFICES ASSUME Inv, MarkDone PROVE Inv'
  OBVIOUS
<1>1. /\ CoreOK /\ PageOK /\ UNCHANGED <<formal, collector>> /\ Good \subseteq Tags
      /\ staging' = [t \in Tags |-> IF t \in Good THEN [staging[t] EXCEPT !.status = "done"] ELSE staging[t]]
      /\ \A t \in Good : formal[t] = staging[t].content
      /\ HasCollector => \A t \in Good : collector[t] = staging[t].content
  BY TypeParts DEF Inv, MarkDone, Stages, CoreOK, Good
<1>2. work' = Idle /\ PageOK'
  BY <1>1, AnsweredWork DEF Inv, PageOK, MarkDone
<1>3. CoreOK'
  <2>1. \A t \in Good : [staging[t] EXCEPT !.status = "done"] \in [content : Stored, status : Statuses]
    BY <1>1 DEF CoreOK, Statuses
  <2>2. staging' \in [Tags -> [content : Stored, status : Statuses]]
    BY <1>1, <2>1 DEF CoreOK
  <2> QED BY <1>1, <1>2, <2>2 DEF CoreOK, Idle
<1>4. DoneMeansWritten'
  BY <1>1 DEF Inv, DoneMeansWritten, CoreOK
<1> QED
  BY <1>1, <1>2, <1>3, <1>4, TypePartsNext DEF Inv, Stages, CollectorWithinFormal, Idle, Has

LEMMA StepInv == ~FormalMayFail /\ Inv /\ [Next]_vars => Inv'
<1> SUFFICES ASSUME ~FormalMayFail, Inv, [Next]_vars PROVE Inv'
  OBVIOUS
<1>1. CASE \E t \in Tags : Delete(t) \/ (\E c \in Contents : Import(t, c)) \/ \E s \in Marks : Mark(t, s)
  BY <1>1, StagingStep
<1>2. CASE Handler
  <2>1. CASE UndoFails \/ MarkDoneFails \/ Crash
    BY <2>1, EndsInv DEF UndoFails, MarkDoneFails, Crash
  <2> QED
    BY <1>2, <2>1, TakeInv, WriteFormalInv, WriteCollectorInv, CollectorFailsInv, UndoInv, MarkDoneInv
    DEF Handler, FormalFails
<1>3. CASE PageStep
  BY <1>3, PageStepInv
<1>4. CASE UNCHANGED vars
  BY <1>4 DEF Inv, TypeOK, Stages, DoneMeansWritten, CollectorWithinFormal, vars, tables, page, Has, Good, Pending
<1> QED
  BY <1>1, <1>2, <1>3, <1>4 DEF Next, PageStep

-----------------------------------------------------------------------------

(* The staging table never claims more than was written: a row that is done *)
(* is in the formal table and in the Collector's as it stands, unless it is *)
(* done because an operator said so, and the Collector's table stays within *)
(* the formal one, through failures of single rows, of the Collector, of    *)
(* the compensation, and crashes.                                           *)
THEOREM ImportIsHonest ==
  ASSUME ~FormalMayFail
  PROVE  Spec => [](TypeOK /\ ImportIsTrue)
<1>1. Inv /\ [Next]_vars => Inv'
  BY StepInv
<1>2. Inv => TypeOK /\ ImportIsTrue
  BY DEF Inv, ImportIsTrue
<1> QED
  BY InitInv, <1>1, <1>2, PTL DEF Spec

-----------------------------------------------------------------------------
(* A step of the whole is a step of the part it is about, or none.          *)
LEMMA PartSteps ==
    ASSUME [PartsNext]_allVars
    PROVE  /\ view' = view
           /\ [Next]_vars
           /\ view = "router" => [Router!Next]_(Router!vars)
           /\ view = "records" => [Records!Next]_(Records!vars)
           /\ view = "lockout" => [Lockout!Next]_(Lockout!vars)
           /\ view \in FormsViews => [Forms!Next]_(Forms!vars)
           /\ view = "mapping" => [Mapping!Next]_(Mapping!vars)
<1>1. CASE UNCHANGED allVars
  BY <1>1 DEF allVars, routerVars, recordsVars, lockoutVars, formsVars, mappingVars, Router!vars, Router!tables,
              Records!vars, Records!history, Lockout!vars, Forms!vars, Mapping!vars, Mapping!pageVars
<1>2. CASE PartsNext
  BY <1>2 DEF PartsNext, StepIn, FormsViews
<1> QED
  BY <1>1, <1>2

LEMMA PartInits ==
    ASSUME PartsInit
    PROVE  /\ view = "pg" => Init
           /\ view = "router" => Router!Init
           /\ view = "records" => Records!Init
           /\ view = "lockout" => Lockout!Init
           /\ view \in FormsViews => Forms!Init
           /\ view = "mapping" => Mapping!Init
  BY DEF PartsInit

-----------------------------------------------------------------------------
(* Facts about sequences.                                                   *)

(* A set of positions that is not empty has a least one. *)
LEMMA LeastPosition ==
    ASSUME NEW I, I \subseteq Nat, I # {}
    PROVE  \E i \in I : \A j \in I : i <= j
<1>1. PICK i \in I : \A j \in I : ~(<<j, i>> \in OpToRel(<, Nat))
    BY NatLessThanWellFounded, WFMin, Zenon
<1>2. \A j \in I : ~(j < i)
    BY <1>1 DEF OpToRel
<1>3. \A j \in I : i <= j
    BY <1>2
<1> QED
    BY <1>3

(* A sequence without one of its elements (RemoveAt).                       *)
Without(s, i) == SubSeq(s, 1, i - 1) \o SubSeq(s, i + 1, Len(s))

(* Without an element: that closes the gap and nothing else. *)
LEMMA WithoutShape ==
    ASSUME NEW S, NEW s \in Seq(S), NEW i \in 1..Len(s)
    PROVE  /\ Without(s, i) \in Seq(S)
           /\ Len(Without(s, i)) = Len(s) - 1
           /\ \A j \in 1..(Len(s) - 1) :
                 Without(s, i)[j] = IF j < i THEN s[j] ELSE s[j + 1]
<1> DEFINE a == SubSeq(s, 1, i - 1)
           b == SubSeq(s, i + 1, Len(s))
<1>1. Len(s) \in Nat /\ \A j \in 1..Len(s) : s[j] \in S
    BY LenProperties, ElementOfSeq
<1>2. /\ a \in Seq(S)
      /\ Len(a) = i - 1
      /\ \A j \in 1..(i - 1) : a[j] = s[j]
    <2>1. \A j \in 1..(i - 1) : s[j] \in S
        BY <1>1
    <2>2. /\ a \in Seq(S)
          /\ Len(a) = IF 1 <= i - 1 THEN i - 1 - 1 + 1 ELSE 0
          /\ \A j \in 1..(i - 1 - 1 + 1) : a[j] = s[1 + j - 1]
        BY <2>1, <1>1, SubSeqProperties, 1 \in Int, i - 1 \in Int
    <2> QED
        BY <2>2, <1>1
<1>3. /\ b \in Seq(S)
      /\ Len(b) = Len(s) - i
      /\ \A j \in 1..(Len(s) - i) : b[j] = s[i + j]
    <2>1. \A j \in (i + 1)..Len(s) : s[j] \in S
        BY <1>1
    <2>2. /\ b \in Seq(S)
          /\ Len(b) = IF i + 1 <= Len(s) THEN Len(s) - (i + 1) + 1 ELSE 0
          /\ \A j \in 1..(Len(s) - (i + 1) + 1) : b[j] = s[(i + 1) + j - 1]
        BY <2>1, <1>1, SubSeqProperties, i + 1 \in Int, Len(s) \in Int
    <2> QED
        BY <2>2, <1>1
<1>4. /\ a \o b \in Seq(S)
      /\ Len(a \o b) = Len(a) + Len(b)
      /\ \A j \in 1..(Len(a) + Len(b)) :
            (a \o b)[j] = IF j <= Len(a) THEN a[j] ELSE b[j - Len(a)]
    BY <1>2, <1>3, ConcatProperties
<1>5. Without(s, i) = a \o b
    BY DEF Without
<1> HIDE DEF a, b
<1>6. Len(a \o b) = Len(s) - 1
    BY <1>1, <1>2, <1>3, <1>4
<1>7. ASSUME NEW j \in 1..(Len(s) - 1)
      PROVE  (a \o b)[j] = IF j < i THEN s[j] ELSE s[j + 1]
    <2>1. (a \o b)[j] = IF j <= i - 1 THEN a[j] ELSE b[j - (i - 1)]
        <3>1. Len(a) = i - 1 /\ Len(b) = Len(s) - i /\ Len(s) \in Nat
            BY <1>1, <1>2, <1>3
        <3>2. j \in 1..(Len(a) + Len(b))
            BY <3>1
        <3>3. (a \o b)[j] = IF j <= Len(a) THEN a[j] ELSE b[j - Len(a)]
            BY <1>4, <3>2
        <3> QED
            BY <3>1, <3>3
    <2>2. CASE j < i
        BY <1>1, <1>2, <2>1, <2>2
    <2>3. CASE ~(j < i)
        <3>1. j - (i - 1) \in 1..(Len(s) - i) /\ i + (j - (i - 1)) = j + 1
            BY <1>1, <2>3
        <3>2. b[j - (i - 1)] = s[i + (j - (i - 1))]
            BY <1>3, <3>1
        <3>3. b[j - (i - 1)] = s[j + 1]
            BY <3>1, <3>2
        <3>4. ~(j <= i - 1)
            BY <2>3
        <3> QED
            BY <2>1, <2>3, <3>3, <3>4
    <2> QED
        BY <2>2, <2>3
<1> QED
    BY <1>4, <1>5, <1>6, <1>7



-----------------------------------------------------------------------------
(* TaskRecords *)

(* One record is added in front and the oldest goes if there are too many:  *)
(* it makes no difference whether the others were cut before.               *)
LEMMA NewestShape ==
    ASSUME Records!ConstantsFit, NEW s \in Seq(Tasks)
    PROVE  /\ Records!Newest(s) \in Seq(Tasks)
           /\ Len(Records!Newest(s)) = IF Len(s) < MaxRecords THEN Len(s) ELSE MaxRecords
           /\ \A i \in 1 .. Len(Records!Newest(s)) : Records!Newest(s)[i] = s[i]
<1> DEFINE n == IF Len(s) < MaxRecords THEN Len(s) ELSE MaxRecords
<1>1. Len(s) \in Nat /\ \A i \in 1 .. Len(s) : s[i] \in Tasks
  BY LenProperties, ElementOfSeq
<1>2. n \in Nat /\ n <= Len(s)
  BY <1>1 DEF Records!ConstantsFit
<1>3. \A i \in 1 .. n : s[i] \in Tasks
  BY <1>1, <1>2
<1> HIDE DEF n
<1>4. /\ SubSeq(s, 1, n) \in Seq(Tasks)
      /\ Len(SubSeq(s, 1, n)) = IF 1 <= n THEN n - 1 + 1 ELSE 0
      /\ \A i \in 1 .. n - 1 + 1 : SubSeq(s, 1, n)[i] = s[1 + i - 1]
  BY <1>2, <1>3, SubSeqProperties, 1 \in Int, n \in Int
<1>5. Len(SubSeq(s, 1, n)) = n /\ \A i \in 1 .. n : SubSeq(s, 1, n)[i] = s[i]
  BY <1>2, <1>4
<1>6. Records!Newest(s) = SubSeq(s, 1, n)
  BY DEF Records!Newest, n
<1> QED
  BY <1>4, <1>5, <1>6 DEF n

LEMMA PrefixedShape ==
    ASSUME NEW s \in Seq(Tasks), NEW t \in Tasks
    PROVE  /\ <<t>> \o s \in Seq(Tasks)
           /\ Len(<<t>> \o s) = Len(s) + 1
           /\ \A i \in 1 .. Len(s) + 1 : (<<t>> \o s)[i] = IF i = 1 THEN t ELSE s[i - 1]
<1>1. <<t>> \in Seq(Tasks) /\ Len(<<t>>) = 1 /\ <<t>>[1] = t
  OBVIOUS
<1>2. /\ <<t>> \o s \in Seq(Tasks)
      /\ Len(<<t>> \o s) = 1 + Len(s)
      /\ \A i \in 1 .. 1 + Len(s) : (<<t>> \o s)[i] = IF i <= 1 THEN <<t>>[i] ELSE s[i - 1]
  BY <1>1, ConcatProperties
<1>3. Len(s) \in Nat
  BY LenProperties
<1> QED
  BY <1>1, <1>2, <1>3

LEMMA NewestOfNewest ==
    ASSUME Records!ConstantsFit, NEW s \in Seq(Tasks), NEW t \in Tasks
    PROVE  Records!Newest(<<t>> \o Records!Newest(s)) = Records!Newest(<<t>> \o s)
<1> DEFINE a == <<t>> \o Records!Newest(s)
           b == <<t>> \o s
<1>1. /\ Records!Newest(s) \in Seq(Tasks) /\ Len(s) \in Nat
      /\ Len(Records!Newest(s)) = IF Len(s) < MaxRecords THEN Len(s) ELSE MaxRecords
      /\ \A i \in 1 .. Len(Records!Newest(s)) : Records!Newest(s)[i] = s[i]
  BY NewestShape, LenProperties
<1>2. /\ a \in Seq(Tasks) /\ Len(a) = Len(Records!Newest(s)) + 1
      /\ \A i \in 1 .. Len(Records!Newest(s)) + 1 : a[i] = IF i = 1 THEN t ELSE Records!Newest(s)[i - 1]
  BY <1>1, PrefixedShape
<1>3. /\ b \in Seq(Tasks) /\ Len(b) = Len(s) + 1
      /\ \A i \in 1 .. Len(s) + 1 : b[i] = IF i = 1 THEN t ELSE s[i - 1]
  BY <1>1, PrefixedShape
<1> HIDE DEF a, b
<1>4. /\ Records!Newest(a) \in Seq(Tasks)
      /\ Len(Records!Newest(a)) = IF Len(a) < MaxRecords THEN Len(a) ELSE MaxRecords
      /\ \A i \in 1 .. Len(Records!Newest(a)) : Records!Newest(a)[i] = a[i]
  BY <1>2, NewestShape
<1>5. /\ Records!Newest(b) \in Seq(Tasks)
      /\ Len(Records!Newest(b)) = IF Len(b) < MaxRecords THEN Len(b) ELSE MaxRecords
      /\ \A i \in 1 .. Len(Records!Newest(b)) : Records!Newest(b)[i] = b[i]
  BY <1>3, NewestShape
<1>6. Len(Records!Newest(a)) = Len(Records!Newest(b)) /\ Len(Records!Newest(a)) \in Nat
  BY <1>1, <1>2, <1>3, <1>4, <1>5 DEF Records!ConstantsFit
<1>7. ASSUME NEW i \in 1 .. Len(Records!Newest(a))
      PROVE  Records!Newest(a)[i] = Records!Newest(b)[i]
  <2>1. Records!Newest(a)[i] = a[i] /\ Records!Newest(b)[i] = b[i]
    BY <1>4, <1>5, <1>6
  <2>2. i \in 1 .. Len(Records!Newest(s)) + 1 /\ i \in 1 .. Len(s) + 1
    BY <1>1, <1>2, <1>4 DEF Records!ConstantsFit
  <2>3. CASE i = 1
    BY <1>2, <1>3, <2>1, <2>2, <2>3
  <2>4. CASE i # 1
    <3>1. i - 1 \in 1 .. Len(Records!Newest(s))
      BY <1>1, <2>2, <2>4 DEF Records!ConstantsFit
    <3>2. a[i] = s[i - 1] /\ b[i] = s[i - 1]
      BY <1>1, <1>2, <1>3, <2>2, <2>4, <3>1
    <3> QED
      BY <2>1, <3>2
  <2> QED
    BY <2>3, <2>4
<1>8. Records!Newest(a) = Records!Newest(b)
  BY <1>4, <1>5, <1>6, <1>7, SeqEqual
<1> QED
  BY <1>8 DEF a, b

-----------------------------------------------------------------------------

(* Whoever holds the lock has read what the file loads as, and while he has *)
(* it open nobody else can load it; tasks in the registry have started.     *)
HistoryInv ==
    /\ lock = Unlocked => ~emptied
    /\ IF emptied THEN file = Torn ELSE Records!Loads = Records!Newest(written)
    /\ \A t \in Tasks : lock = t => state[t] = "done" /\ loaded = Records!Newest(written)

RegistryInv ==
    \A i \in 1 .. Len(registry) : state[registry[i]] \in {"running", "done", "kept", "unkept"}

RecordsInv == Records!TypeOK /\ HistoryInv /\ RegistryInv

(* The registry after an eviction. *)
Dropped(s) == IF Records!Finished(s) # {} THEN Records!RemoveAt(s, Records!Min(Records!Finished(s))) ELSE Tail(s)

(* What goes is one task, and a finished one if there is one. *)
LEMMA DroppedShape ==
    ASSUME NEW s \in Seq(Tasks), s # <<>>
    PROVE  /\ Dropped(s) \in Seq(Tasks)
           /\ Len(Dropped(s)) = Len(s) - 1
           /\ \A j \in 1 .. Len(Dropped(s)) : \E i \in 1 .. Len(s) : Dropped(s)[j] = s[i]
           /\ Records!Finished(s) # {} =>
                \A i \in 1 .. Len(s) : i \in Records!Finished(s) \/ \E j \in 1 .. Len(Dropped(s)) : Dropped(s)[j] = s[i]
<1>1. Len(s) \in Nat /\ Len(s) # 0 /\ DOMAIN s = 1 .. Len(s)
  BY LenProperties, EmptySeq
<1>2. CASE Records!Finished(s) = {}
  <2>1. Dropped(s) = Tail(s)
    BY <1>2 DEF Dropped
  <2>2. /\ Tail(s) \in Seq(Tasks) /\ Len(Tail(s)) = Len(s) - 1
        /\ \A j \in 1 .. Len(Tail(s)) : Tail(s)[j] = s[j + 1]
    BY HeadTailProperties
  <2>3. \A j \in 1 .. Len(s) - 1 : j + 1 \in 1 .. Len(s)
    BY <1>1
  <2> QED
    BY <1>1, <1>2, <2>1, <2>2, <2>3
<1>3. CASE Records!Finished(s) # {}
  <2> DEFINE m == Records!Min(Records!Finished(s))
  <2>1. Records!Finished(s) \subseteq 1 .. Len(s)
    BY <1>1 DEF Records!Finished
  <2>2. \E i \in Records!Finished(s) : \A j \in Records!Finished(s) : i <= j
    BY <1>1, <1>3, <2>1, LeastPosition
  <2>3. m \in Records!Finished(s)
    BY <2>2 DEF Records!Min
  <2>4. Dropped(s) = Without(s, m)
    BY <1>3 DEF Dropped, Records!RemoveAt, Without
  <2> HIDE DEF m
  <2>5. m \in 1 .. Len(s)
    BY <2>1, <2>3
  <2>6. /\ Without(s, m) \in Seq(Tasks)
        /\ Len(Without(s, m)) = Len(s) - 1
        /\ \A j \in 1 .. (Len(s) - 1) : Without(s, m)[j] = IF j < m THEN s[j] ELSE s[j + 1]
    BY <2>5, WithoutShape
  <2>7. ASSUME NEW j \in 1 .. (Len(s) - 1)
        PROVE  \E i \in 1 .. Len(s) : Without(s, m)[j] = s[i]
    <3>1. j \in 1 .. Len(s) /\ j + 1 \in 1 .. Len(s)
      BY <1>1
    <3> QED
      BY <2>6, <3>1
  <2>8. ASSUME NEW i \in 1 .. Len(s), i # m
        PROVE  \E j \in 1 .. (Len(s) - 1) : Without(s, m)[j] = s[i]
    <3>1. CASE i < m
      <4>1. i \in 1 .. (Len(s) - 1)
        BY <1>1, <2>5, <3>1
      <4> QED
        BY <2>6, <3>1, <4>1
    <3>2. CASE ~(i < m)
      <4>1. i - 1 \in 1 .. (Len(s) - 1) /\ ~(i - 1 < m) /\ (i - 1) + 1 = i
        BY <1>1, <2>5, <2>8, <3>2
      <4>2. Without(s, m)[i - 1] = s[(i - 1) + 1]
        BY <2>6, <4>1
      <4> QED
        BY <4>1, <4>2
    <3> QED
      BY <3>1, <3>2
  <2> QED
    BY <2>3, <2>4, <2>6, <2>7, <2>8
<1> QED
  BY <1>2, <1>3

(* A new task enters the registry, and may push another out. *)
LEMMA AcceptShape ==
    ASSUME Records!ConstantsFit, Records!TypeOK, NEW t \in Tasks
    PROVE  LET s == Append(registry, t)
           IN  /\ s \in Seq(Tasks) /\ s # <<>> /\ Len(s) = Len(registry) + 1
               /\ s[Len(registry) + 1] = t
               /\ \A i \in 1 .. Len(registry) : s[i] = registry[i]
               /\ Records!Evict(s) = IF Len(registry) < MaxTasks THEN s ELSE Dropped(s)
<1> DEFINE s == Append(registry, t)
<1>1. registry \in Seq(Tasks) /\ Len(registry) \in Nat /\ Len(registry) <= MaxTasks /\ MaxTasks \in Nat
  BY LenProperties DEF Records!TypeOK, Records!ConstantsFit
<1>2. /\ s \in Seq(Tasks) /\ Len(s) = Len(registry) + 1
      /\ \A i \in 1 .. Len(registry) : s[i] = registry[i]
      /\ s[Len(registry) + 1] = t
  BY <1>1, AppendProperties
<1> HIDE DEF s
<1>3. s # <<>>
  BY <1>1, <1>2, EmptySeq
<1>4. Records!Evict(s) = IF Len(registry) < MaxTasks THEN s ELSE Dropped(s)
  BY <1>1, <1>2 DEF Records!Evict, Dropped
<1> QED
  BY <1>2, <1>3, <1>4 DEF s

LEMMA NothingYet ==
    ASSUME Records!ConstantsFit
    PROVE  /\ <<>> \in Seq(Tasks) /\ Len(<<>>) = 0
           /\ Records!Newest(<<>>) = <<>> /\ <<>> # Torn
<1>1. <<>> \in Seq(Tasks) /\ Len(<<>>) = 0
  BY EmptySeq
<1>2. ASSUME NEW s \in Seq(Tasks), Len(s) = 0
      PROVE  Records!Newest(s) \in Seq(Tasks) /\ Len(Records!Newest(s)) = 0
  <2>1. /\ Records!Newest(s) \in Seq(Tasks)
        /\ Len(Records!Newest(s)) = IF Len(s) < MaxRecords THEN Len(s) ELSE MaxRecords
    BY NewestShape
  <2>2. Len(s) < MaxRecords
    BY <1>2 DEF Records!ConstantsFit
  <2> QED
    BY <1>2, <2>1, <2>2
<1>3. Records!Newest(<<>>) = <<>>
  BY <1>1, <1>2, EmptySeq
<1>4. <<>> # Torn
  BY <1>1 DEF Records!ConstantsFit
<1> QED
  BY <1>1, <1>3, <1>4

LEMMA RecordsInit == Records!ConstantsFit /\ Records!Init => RecordsInv
<1> SUFFICES ASSUME Records!ConstantsFit, Records!Init PROVE RecordsInv
  OBVIOUS
<1>1. \A s \in {registry, loaded, file, written} : s \in Seq(Tasks) /\ Len(s) = 0
  BY NothingYet DEF Records!Init
<1>2. file # Torn /\ Records!Newest(written) = file
  BY NothingYet DEF Records!Init
<1>3. Records!TypeOK
  <2>1. /\ registry \in Seq(Tasks) /\ loaded \in Seq(Tasks) /\ file \in Seq(Tasks) /\ written \in Seq(Tasks)
        /\ Len(registry) <= MaxTasks /\ Len(loaded) <= MaxRecords /\ Len(file) <= MaxRecords
    BY <1>1 DEF Records!ConstantsFit
  <2>2. /\ state = [t \in Tasks |-> "new"] /\ lock = Unlocked /\ emptied = FALSE
        /\ clears \in 0 .. MaxClears /\ crashes \in 0 .. MaxCrashes
    BY DEF Records!Init, Records!ConstantsFit
  <2> QED
    BY <2>1, <2>2 DEF Records!TypeOK
<1>4. HistoryInv
  BY <1>2 DEF Records!Init, Records!ConstantsFit, HistoryInv, Records!Loads
<1>5. RegistryInv
  BY <1>1 DEF RegistryInv
<1> QED
  BY <1>3, <1>4, <1>5 DEF RecordsInv

LEMMA AcceptStep ==
    ASSUME Records!ConstantsFit, RecordsInv, NEW t \in Tasks, Records!Accept(t)
    PROVE  RecordsInv' /\ Records!RunningStays
<1> DEFINE s == Append(registry, t)
<1>1. /\ s \in Seq(Tasks) /\ s # <<>> /\ Len(s) = Len(registry) + 1
      /\ s[Len(registry) + 1] = t
      /\ \A i \in 1 .. Len(registry) : s[i] = registry[i]
      /\ Records!Evict(s) = IF Len(registry) < MaxTasks THEN s ELSE Dropped(s)
  BY AcceptShape DEF RecordsInv
<1>2. /\ registry' = Records!Evict(s) /\ state[t] = "new" /\ state' = [state EXCEPT ![t] = "running"]
      /\ UNCHANGED <<lock, emptied, loaded, file, written, clears, crashes>>
  BY DEF Records!Accept, Records!history
<1> HIDE DEF s
<1>3. Len(registry) \in Nat /\ Len(registry) <= MaxTasks /\ MaxTasks \in Nat
      /\ \A i \in 1 .. Len(s) : s[i] \in Tasks
  BY <1>1, LenProperties, ElementOfSeq DEF RecordsInv, Records!TypeOK, Records!ConstantsFit
<1>4. /\ Dropped(s) \in Seq(Tasks)
      /\ Len(Dropped(s)) = Len(s) - 1
      /\ \A j \in 1 .. Len(Dropped(s)) : \E i \in 1 .. Len(s) : Dropped(s)[j] = s[i]
      /\ Records!Finished(s) # {} =>
           \A i \in 1 .. Len(s) : i \in Records!Finished(s) \/ \E j \in 1 .. Len(Dropped(s)) : Dropped(s)[j] = s[i]
  BY <1>1, DroppedShape
<1>5. registry' \in Seq(Tasks) /\ Len(registry') <= MaxTasks
  BY <1>1, <1>2, <1>3, <1>4
<1>6. \A j \in 1 .. Len(registry') : \E i \in 1 .. Len(s) : registry'[j] = s[i]
  BY <1>1, <1>2, <1>4
<1>7. \A i \in 1 .. Len(s) : i = Len(registry) + 1 \/ i \in 1 .. Len(registry)
  BY <1>1, <1>3
<1>8. RegistryInv'
  <2>1. ASSUME NEW i \in 1 .. Len(s)
        PROVE  state'[s[i]] \in {"running", "done", "kept", "unkept"}
    <3>1. CASE i = Len(registry) + 1
      BY <1>1, <1>2, <3>1 DEF RecordsInv, Records!TypeOK
    <3>2. CASE i \in 1 .. Len(registry)
      BY <1>1, <1>2, <1>3, <2>1, <3>2 DEF RecordsInv, Records!TypeOK, RegistryInv
    <3> QED
      BY <1>7, <3>1, <3>2
  <2> QED
    BY <1>6, <2>1 DEF RegistryInv
<1>9. Records!TypeOK'
  BY <1>2, <1>5 DEF RecordsInv, Records!TypeOK
<1>10. HistoryInv'
  BY <1>2 DEF RecordsInv, Records!TypeOK, HistoryInv, Records!Loads
<1>11. Records!RunningStays
  <2> SUFFICES ASSUME NEW u \in Records!Running, u \in Records!ToSet(registry), u \notin Records!ToSet(registry'),
                      NEW v \in Records!ToSet(registry)
               PROVE  v \in Records!Running
    BY DEF Records!RunningStays
  <2>1. PICK i \in 1 .. Len(registry) : registry[i] = u
    BY DEF Records!ToSet, RecordsInv, Records!TypeOK
  <2>2. PICK j \in 1 .. Len(registry) : registry[j] = v
    BY DEF Records!ToSet, RecordsInv, Records!TypeOK
  <2>3. i \in 1 .. Len(s) /\ s[i] = u /\ j \in 1 .. Len(s) /\ s[j] = v
    BY <1>1, <1>3, <2>1, <2>2
  <2>4. DOMAIN s = 1 .. Len(s) /\ DOMAIN registry' = 1 .. Len(registry')
    BY <1>1, <1>5
  <2>5. ~(\E m \in 1 .. Len(registry') : registry'[m] = s[i])
    BY <2>3, <2>4 DEF Records!ToSet
  <2>6. registry' = Dropped(s)
    BY <1>1, <1>2, <2>3, <2>5
  <2>7. i \notin Records!Finished(s)
    BY <2>3 DEF Records!Finished, Records!Running
  <2>8. Records!Finished(s) = {}
    BY <1>4, <2>3, <2>5, <2>6, <2>7
  <2>9. state[v] \notin {"done", "kept", "unkept"}
    BY <2>3, <2>4, <2>8 DEF Records!Finished
  <2>10. state[v] = "running" /\ v \in Tasks
    BY <1>3, <2>2, <2>3, <2>9 DEF RecordsInv, RegistryInv
  <2> QED
    BY <2>10 DEF Records!Running
<1> QED
  BY <1>8, <1>9, <1>10, <1>11 DEF RecordsInv

LEMMA RefuseStep ==
    ASSUME Records!ConstantsFit, RecordsInv, NEW t \in Tasks, Records!Refuse(t)
    PROVE  RecordsInv' /\ Records!RunningStays
<1>1. /\ registry' = Dropped(registry)
      /\ UNCHANGED <<state, lock, emptied, loaded, file, written, clears, crashes>>
      /\ Len(registry) = MaxTasks
  BY DEF Records!Refuse, Records!history, Dropped
<1>2. /\ registry \in Seq(Tasks) /\ Len(registry) \in Nat /\ registry # <<>>
      /\ \A i \in 1 .. Len(registry) : registry[i] \in Tasks
  BY <1>1, LenProperties, ElementOfSeq, EmptySeq DEF RecordsInv, Records!TypeOK, Records!ConstantsFit
<1>3. /\ registry' \in Seq(Tasks)
      /\ Len(registry') = Len(registry) - 1
      /\ \A j \in 1 .. Len(registry') : \E i \in 1 .. Len(registry) : registry'[j] = registry[i]
      /\ Records!Finished(registry) # {} =>
           \A i \in 1 .. Len(registry) : i \in Records!Finished(registry) \/ \E j \in 1 .. Len(registry') : registry'[j] = registry[i]
  BY <1>1, <1>2, DroppedShape
<1>4. Records!TypeOK'
  BY <1>1, <1>2, <1>3 DEF RecordsInv, Records!TypeOK, Records!ConstantsFit
<1>5. HistoryInv' /\ RegistryInv'
  BY <1>1, <1>3 DEF RecordsInv, HistoryInv, RegistryInv, Records!Loads
<1>6. Records!RunningStays
  <2> SUFFICES ASSUME NEW u \in Records!Running, u \in Records!ToSet(registry), u \notin Records!ToSet(registry'),
                      NEW v \in Records!ToSet(registry)
               PROVE  v \in Records!Running
    BY DEF Records!RunningStays
  <2>1. DOMAIN registry = 1 .. Len(registry) /\ DOMAIN registry' = 1 .. Len(registry')
    BY <1>2, <1>3
  <2>2. PICK i \in 1 .. Len(registry) : registry[i] = u
    BY <2>1 DEF Records!ToSet
  <2>3. PICK j \in 1 .. Len(registry) : registry[j] = v
    BY <2>1 DEF Records!ToSet
  <2>4. ~(\E m \in 1 .. Len(registry') : registry'[m] = registry[i])
    BY <2>1, <2>2 DEF Records!ToSet
  <2>5. i \notin Records!Finished(registry)
    BY <2>2 DEF Records!Finished, Records!Running
  <2>6. Records!Finished(registry) = {}
    BY <1>3, <2>4, <2>5
  <2>7. state[v] = "running" /\ v \in Tasks
    BY <1>2, <2>1, <2>3, <2>6 DEF Records!Finished, RecordsInv, RegistryInv
  <2> QED
    BY <2>7 DEF Records!Running
<1> QED
  BY <1>4, <1>5, <1>6 DEF RecordsInv

(* The steps of a completion, of a clear and of the lock leave the registry *)
(* alone, and no task in it falls back.                                     *)
LEMMA SameRegistry ==
    ASSUME RecordsInv, registry' = registry,
           \A t \in Tasks : state'[t] = state[t] \/ state'[t] \in {"running", "done", "kept", "unkept"}
    PROVE  RegistryInv' /\ Records!RunningStays
<1>1. \A i \in 1 .. Len(registry) : registry[i] \in Tasks
  BY ElementOfSeq DEF RecordsInv, Records!TypeOK
<1> QED
  BY <1>1 DEF RecordsInv, RegistryInv, Records!RunningStays, Records!ToSet

LEMMA DumpStep ==
    ASSUME Records!ConstantsFit, RecordsInv, NEW t \in Tasks, Records!Dump(t)
    PROVE  RecordsInv' /\ Records!RunningStays
<1>1. /\ lock = t /\ emptied /\ lock' = Unlocked /\ emptied' = FALSE /\ loaded' = <<>>
      /\ file' = Records!Newest(<<t>> \o loaded) /\ written' = <<t>> \o written
      /\ state' = [state EXCEPT ![t] = "kept"]
      /\ UNCHANGED <<registry, clears, crashes>>
  BY DEF Records!Dump, Records!Released
<1>2. loaded = Records!Newest(written) /\ written \in Seq(Tasks) /\ loaded \in Seq(Tasks)
  BY <1>1 DEF RecordsInv, HistoryInv, Records!TypeOK
<1>3. file' = Records!Newest(written')
  BY <1>1, <1>2, NewestOfNewest
<1>4. written' \in Seq(Tasks)
  BY <1>1, <1>2, PrefixedShape
<1>5. /\ file' \in Seq(Tasks)
      /\ Len(file') = IF Len(written') < MaxRecords THEN Len(written') ELSE MaxRecords
  BY <1>3, <1>4, NewestShape
<1>6. Len(file') <= MaxRecords /\ file' # Torn
  BY <1>4, <1>5, LenProperties DEF Records!ConstantsFit
<1>7. Records!TypeOK'
  <2>1. loaded' \in Seq(Tasks) /\ Len(loaded') <= MaxRecords
    BY <1>1, NothingYet DEF Records!ConstantsFit
  <2> QED
    BY <1>1, <1>4, <1>5, <1>6, <2>1 DEF RecordsInv, Records!TypeOK
<1>8. HistoryInv'
  BY <1>1, <1>3, <1>6 DEF HistoryInv, Records!Loads, Records!ConstantsFit
<1>9. RegistryInv' /\ Records!RunningStays
  BY <1>1, SameRegistry DEF RecordsInv, Records!TypeOK
<1> QED
  BY <1>7, <1>8, <1>9 DEF RecordsInv

LEMMA LockStep ==
    ASSUME Records!ConstantsFit, RecordsInv,
           \/ \E t \in Tasks : Records!SetDone(t) \/ Records!Load(t)
           \/ Records!StartClear \/ Records!Open
    PROVE  RecordsInv' /\ Records!RunningStays
<1>1. <<>> \in Seq(Tasks) /\ Len(<<>>) = 0
  BY EmptySeq
<1>2. ASSUME NEW t \in Tasks, Records!SetDone(t)
      PROVE  RecordsInv' /\ Records!RunningStays
  <2>1. Records!TypeOK' /\ HistoryInv'
    BY <1>2 DEF Records!SetDone, Records!history, RecordsInv, Records!TypeOK, HistoryInv, Records!Loads
  <2>2. RegistryInv' /\ Records!RunningStays
    BY <1>2, SameRegistry DEF Records!SetDone, Records!history, RecordsInv, Records!TypeOK
  <2> QED
    BY <2>1, <2>2 DEF RecordsInv
<1>3. ASSUME NEW t \in Tasks, Records!Load(t)
      PROVE  RecordsInv' /\ Records!RunningStays
  <2>1. Records!Loads \in Seq(Tasks) /\ Len(Records!Loads) <= MaxRecords
    BY <1>1 DEF RecordsInv, Records!TypeOK, Records!Loads, Records!ConstantsFit
  <2>2. Records!TypeOK' /\ HistoryInv'
    BY <1>3, <2>1 DEF Records!Load, RecordsInv, Records!TypeOK, HistoryInv, Records!Loads, Records!ConstantsFit
  <2>3. RegistryInv' /\ Records!RunningStays
    BY <1>3, SameRegistry DEF Records!Load
  <2> QED
    BY <2>2, <2>3 DEF RecordsInv
<1>4. ASSUME Records!StartClear
      PROVE  RecordsInv' /\ Records!RunningStays
  <2>1. Records!TypeOK' /\ HistoryInv'
    BY <1>4 DEF Records!StartClear, RecordsInv, Records!TypeOK, HistoryInv, Records!Loads, Records!ConstantsFit
  <2>2. RegistryInv' /\ Records!RunningStays
    BY <1>4, SameRegistry DEF Records!StartClear
  <2> QED
    BY <2>1, <2>2 DEF RecordsInv
<1>5. ASSUME Records!Open
      PROVE  RecordsInv' /\ Records!RunningStays
  <2>1. Records!TypeOK' /\ HistoryInv'
    BY <1>5 DEF Records!Open, RecordsInv, Records!TypeOK, HistoryInv
  <2>2. RegistryInv' /\ Records!RunningStays
    BY <1>5, SameRegistry DEF Records!Open
  <2> QED
    BY <2>1, <2>2 DEF RecordsInv
<1> QED
  BY <1>2, <1>3, <1>4, <1>5

LEMMA ReleaseStep ==
    ASSUME Records!ConstantsFit, RecordsInv, Records!DumpCleared \/ Records!WriteFails \/ Records!Crash
    PROVE  RecordsInv' /\ Records!RunningStays
<1>1. Records!Released => loaded' \in Seq(Tasks) /\ Len(loaded') <= MaxRecords
  BY NothingYet DEF Records!Released, Records!ConstantsFit
<1>2. ASSUME NEW s \in Seq(Tasks), s = <<>>
      PROVE  Len(s) <= MaxRecords /\ s # Torn /\ Records!Newest(s) = s
  BY <1>2, NothingYet DEF Records!ConstantsFit
<1>3. ASSUME Records!DumpCleared
      PROVE  RecordsInv' /\ Records!RunningStays
  <2>1. /\ file' \in Seq(Tasks) /\ Len(file') <= MaxRecords /\ file' # Torn
        /\ written' = file' /\ Records!Newest(written') = written'
    BY <1>2, <1>3, NothingYet DEF Records!DumpCleared
  <2>3. Records!TypeOK'
    BY <1>1, <1>3, <2>1 DEF Records!DumpCleared, Records!Released, RecordsInv, Records!TypeOK
  <2>4. HistoryInv'
    BY <1>3, <2>1 DEF Records!DumpCleared, Records!Released, HistoryInv, Records!Loads, Records!ConstantsFit
  <2>2. RegistryInv' /\ Records!RunningStays
    BY <1>3, SameRegistry DEF Records!DumpCleared
  <2> QED
    BY <2>2, <2>3, <2>4 DEF RecordsInv
<1>4. ASSUME Records!WriteFails
      PROVE  RecordsInv' /\ Records!RunningStays
  <2>3. written' \in Seq(Tasks) /\ Records!Newest(written') = <<>>
    BY <1>4, NothingYet DEF Records!WriteFails
  <2>4. file' = Torn
    BY <1>4 DEF Records!WriteFails, RecordsInv, HistoryInv
  <2>1. Records!TypeOK' /\ HistoryInv'
    BY <1>1, <1>4, <2>3, <2>4 DEF Records!WriteFails, Records!Released, RecordsInv, Records!TypeOK, HistoryInv, Records!Loads, Records!ConstantsFit
  <2>2. RegistryInv' /\ Records!RunningStays
    BY <1>4, SameRegistry DEF Records!WriteFails
  <2> QED
    BY <2>1, <2>2 DEF RecordsInv
<1>5. ASSUME Records!Crash
      PROVE  RecordsInv' /\ Records!RunningStays
  <2>4. /\ registry' \in Seq(Tasks) /\ Len(registry') = 0
        /\ written' \in Seq(Tasks)
        /\ file = Torn => Records!Newest(written') = <<>>
    BY <1>5, NothingYet DEF Records!Crash, RecordsInv, Records!TypeOK
  <2>1. Records!TypeOK'
    <3>1. state' \in [Tasks -> {"new", "running", "done", "kept", "unkept", "lost"}]
      BY <1>5 DEF Records!Crash, RecordsInv, Records!TypeOK
    <3>2. crashes' \in 0 .. MaxCrashes
      BY <1>5 DEF Records!Crash, RecordsInv, Records!TypeOK, Records!ConstantsFit
    <3>3. Len(registry') <= MaxTasks
      BY <2>4 DEF Records!ConstantsFit
    <3>4. UNCHANGED <<file, clears>> /\ lock' = Unlocked /\ emptied' = FALSE
      BY <1>5 DEF Records!Crash, Records!Released
    <3>5. loaded' \in Seq(Tasks) /\ Len(loaded') <= MaxRecords
      BY <1>1, <1>5 DEF Records!Crash
    <3> QED
      BY <2>4, <3>1, <3>2, <3>3, <3>4, <3>5 DEF RecordsInv, Records!TypeOK
  <2>2. HistoryInv'
    BY <1>5, <2>4 DEF Records!Crash, Records!Released, RecordsInv, HistoryInv, Records!Loads, Records!ConstantsFit
  <2>3. RegistryInv' /\ Records!RunningStays
    BY <1>5, <2>4 DEF Records!Crash, RecordsInv, Records!TypeOK, RegistryInv, Records!RunningStays
  <2> QED
    BY <2>1, <2>2, <2>3 DEF RecordsInv
<1> QED
  BY <1>3, <1>4, <1>5

LEMMA RecordsStep ==
    ASSUME Records!ConstantsFit, RecordsInv, [Records!Next]_(Records!vars)
    PROVE  RecordsInv' /\ Records!RunningStays /\ Records!RecordsAreKept
<1>1. CASE Records!Next
  BY <1>1, AcceptStep, RefuseStep, DumpStep, LockStep, ReleaseStep DEF Records!Next, RecordsInv, HistoryInv, Records!RecordsAreKept
<1>2. CASE UNCHANGED Records!vars
  <2>1. Records!TypeOK' /\ HistoryInv' /\ RegistryInv'
    BY <1>2 DEF Records!vars, Records!history, RecordsInv, Records!TypeOK, HistoryInv, RegistryInv, Records!Loads
  <2>2. Records!RunningStays
    BY <1>2 DEF Records!vars, Records!RunningStays
  <2> QED
    BY <2>1, <2>2 DEF RecordsInv, HistoryInv, Records!RecordsAreKept
<1> QED
  BY <1>1, <1>2

LEMMA RecordsAreHeld == PartsSpec => [](view = "records" => RecordsInv)
<1> DEFINE Kept == view = "records" => RecordsInv
<1>1. PartsInit => Kept
  BY PartInits, RecordsInit, EveryConstantFits
<1>2. ASSUME Kept, [PartsNext]_allVars PROVE Kept'
  <2>1. CASE view = "records"
    <3>1. RecordsInv /\ [Records!Next]_(Records!vars)
      BY <1>2, <2>1, PartSteps
    <3>2. RecordsInv'
      BY <3>1, RecordsStep, EveryConstantFits
    <3> QED
      BY <3>2
  <2>2. CASE view # "records"
    BY <1>2, <2>2, PartSteps
  <2> QED
    BY <2>1, <2>2
<1> HIDE DEF Kept
<1>3. PartsSpec => []Kept
  BY <1>1, <1>2, PTL DEF PartsSpec
<1> QED
  BY <1>3, PTL DEF Kept

(* The history keeps the newest records, newest first, whichever threads    *)
(* finish at once, whatever fails to be written and whenever the process    *)
(* dies; and the registry gives up a running task only when it holds        *)
(* nothing else - for any number of tasks and any limits.                   *)
THEOREM RecordsAndRegistryAreKept ==
    /\ PartsSpec => TasksAreKept
    /\ Records!Spec => []Records!RecordsAreKept /\ [][Records!RunningStays]_(Records!vars)
<1> DEFINE Held == view = "records" => RecordsInv
<1>1. RecordsInv => Records!RecordsAreKept
  BY DEF RecordsInv, HistoryInv, Records!TypeOK, Records!RecordsAreKept
<1>2. RecordsInv /\ [Records!Next]_(Records!vars) => RecordsInv' /\ Records!RunningStays
  BY RecordsStep, EveryConstantFits
<1>3. Held => (view = "records" => Records!RecordsAreKept)
  BY <1>1
<1>4. ASSUME Held, [PartsNext]_allVars
      PROVE  [view = "records" => Records!RunningStays]_allVars
  <2>1. CASE view = "records"
    BY <1>2, <1>4, <2>1, PartSteps
  <2>2. CASE view # "records"
    BY <2>2
  <2> QED
    BY <2>1, <2>2
<1>5. PartsSpec => []Held
  BY RecordsAreHeld
<1> HIDE DEF Held
<1>6. PartsSpec => TasksAreKept
  BY <1>3, <1>4, <1>5, PTL DEF PartsSpec, TasksAreKept
<1>7. Records!Init => RecordsInv
  BY RecordsInit, EveryConstantFits
<1>8. RecordsInv /\ [Records!Next]_(Records!vars) => [Records!RunningStays]_(Records!vars)
  BY <1>2
<1>9. Records!Spec => []Records!RecordsAreKept /\ [][Records!RunningStays]_(Records!vars)
  BY <1>1, <1>2, <1>7, <1>8, PTL DEF Records!Spec
<1> QED
  BY <1>6, <1>9

-----------------------------------------------------------------------------
(* LoginLockout *)

LEMMA LockoutSize == \A S : Lockout!Cardinality(S) = Cardinality(S)
  BY DEF Lockout!Cardinality, Cardinality

(* The wrong passwords are noted in order.  Those that the record counts    *)
(* are the last ones; of those before them all but Max - 1 at the most are  *)
(* older than its start by a whole window - and so of 2 * Max in a row the  *)
(* last is later than the first by a window.                                *)
Noting ==
    /\ wrong \in Seq(Nat)
    /\ \A i \in 1 .. Len(wrong) : wrong[i] <= now
    /\ \A i, j \in 1 .. Len(wrong) : i <= j => wrong[i] <= wrong[j]

Counting ==
    /\ record.count <= Len(wrong) /\ record.start <= now
    /\ \A i \in 1 .. Len(wrong) : Len(wrong) - record.count < i => record.start <= wrong[i]
    /\ record.count > 0 => record.start = wrong[Len(wrong) - record.count + 1]

Older ==
    IF record.count = 0
    THEN \A i \in 1 .. Len(wrong) : i + MaxAttempts <= Len(wrong) + 1 => wrong[i] + Window <= now
    ELSE \A i \in 1 .. Len(wrong) :
           i + MaxAttempts <= Len(wrong) - record.count + 1 => wrong[i] + Window <= record.start

Spread ==
    \A i, j \in 1 .. Len(wrong) : i + 2 * MaxAttempts <= j + 1 => wrong[i] + Window <= wrong[j]

Answering ==
    /\ pc = "checked" => ~refused /\ ~Lockout!Locked
    /\ refused => Lockout!Locked

LockoutInv == Lockout!TypeOK /\ Noting /\ Counting /\ Older /\ Spread /\ Answering

LEMMA LockoutInit == Lockout!ConstantsFit /\ Lockout!Init => LockoutInv
<1> SUFFICES ASSUME Lockout!ConstantsFit, Lockout!Init PROVE LockoutInv
  OBVIOUS
<1>1. wrong \in Seq(Nat) /\ Len(wrong) = 0 /\ DOMAIN wrong = {}
  BY EmptySeq DEF Lockout!Init
<1>2. record.count = 0 /\ record.start = 0 /\ now = 0
  BY DEF Lockout!Init, Lockout!NoRecord
<1>3. Lockout!TypeOK
  <2>1. now \in 0 .. MaxTime /\ pc \in {"idle", "checked"} /\ refused \in BOOLEAN
    <3>1. now = 0 /\ pc = "idle" /\ refused = FALSE
      BY DEF Lockout!Init
    <3>2. now \in 0 .. MaxTime
      BY <3>1 DEF Lockout!ConstantsFit
    <3>3. pc \in {"idle", "checked"}
      BY <3>1
    <3>4. refused \in BOOLEAN
      BY <3>1
    <3> QED
      BY <3>2, <3>3, <3>4
  <2>2. record \in [count : 0 .. MaxAttempts, start : 0 .. MaxTime]
    <3>1. record = [count |-> 0, start |-> 0]
      BY DEF Lockout!Init, Lockout!NoRecord
    <3> QED
      BY <3>1 DEF Lockout!ConstantsFit
  <2> QED
    BY <1>1, <2>1, <2>2 DEF Lockout!TypeOK
<1>4. Noting /\ Counting /\ Older /\ Spread
  BY <1>1, <1>2 DEF Noting, Counting, Older, Spread
<1>5. Answering
  BY DEF Lockout!Init, Answering
<1> QED
  BY <1>3, <1>4, <1>5 DEF LockoutInv

(* The numbers of a state.                                                  *)
Numbers ==
    /\ MaxAttempts \in Nat /\ MaxAttempts > 0 /\ Window \in Nat /\ Window > 0 /\ MaxTime \in Nat
    /\ now \in Nat /\ now <= MaxTime
    /\ record.count \in Nat /\ record.count <= MaxAttempts
    /\ record.start \in Nat /\ record.start <= MaxTime
    /\ Len(wrong) \in Nat /\ DOMAIN wrong = 1 .. Len(wrong)
    /\ \A i \in 1 .. Len(wrong) : wrong[i] \in Nat

LEMMA LockoutFacts ==
    ASSUME Lockout!ConstantsFit, LockoutInv
    PROVE  Numbers /\ Lockout!TypeOK /\ Noting /\ Counting /\ Older /\ Spread /\ Answering
<1>1. Lockout!TypeOK /\ Noting /\ Counting /\ Older /\ Spread /\ Answering
  BY DEF LockoutInv
<1>2. MaxAttempts \in Nat /\ MaxAttempts > 0 /\ Window \in Nat /\ Window > 0 /\ MaxTime \in Nat
  BY DEF Lockout!ConstantsFit
<1>3. /\ now \in Nat /\ now <= MaxTime
      /\ record.count \in Nat /\ record.count <= MaxAttempts
      /\ record.start \in Nat /\ record.start <= MaxTime
  BY <1>1, <1>2 DEF Lockout!TypeOK
<1>4. /\ Len(wrong) \in Nat /\ DOMAIN wrong = 1 .. Len(wrong)
      /\ \A i \in 1 .. Len(wrong) : wrong[i] \in Nat
  BY <1>1, LenProperties, ElementOfSeq DEF Noting
<1> QED
  BY <1>1, <1>2, <1>3, <1>4 DEF Numbers

LEMMA TickStep == ASSUME Lockout!ConstantsFit, LockoutInv, Lockout!Tick PROVE LockoutInv'
<1>0. Numbers /\ Lockout!TypeOK /\ Noting /\ Counting /\ Older /\ Spread /\ Answering
  BY LockoutFacts
<1>1. /\ now' = now + 1 /\ now' \in 0 .. MaxTime /\ refused' = FALSE
      /\ UNCHANGED <<record, pc, wrong>>
  BY <1>0 DEF Lockout!Tick, Numbers
<1>2. Lockout!TypeOK'
  <2>1. \A i \in 1 .. Len(wrong) : wrong[i] \in 0 .. now'
    BY <1>1, <1>0 DEF Noting, Numbers
  <2>2. \A i \in DOMAIN wrong' : wrong'[i] \in 0 .. now'
    BY <1>1, <1>0, <2>1 DEF Numbers
  <2>3. /\ record' \in [count : 0 .. MaxAttempts, start : 0 .. MaxTime]
        /\ pc' \in {"idle", "checked"} /\ refused' \in BOOLEAN
    BY <1>0, <1>1 DEF Lockout!TypeOK
  <2> QED
    BY <1>1, <2>2, <2>3 DEF Lockout!TypeOK
<1>3. Noting' /\ Counting' /\ Spread'
  BY <1>1, <1>0 DEF Noting, Counting, Spread, Numbers
<1>4. Older'
  BY <1>1, <1>0 DEF Older, Numbers
<1>5. Answering'
  BY <1>1, <1>0 DEF Answering, Lockout!Locked, Lockout!Expired, Numbers
<1> QED
  BY <1>2, <1>3, <1>4, <1>5 DEF LockoutInv

(* A record that is expired may be forgotten: every password it counts, and *)
(* all but Max - 1 of those at its end, is a window old.                    *)
LEMMA ExpiredIsOld ==
    ASSUME Lockout!ConstantsFit, LockoutInv, record.count > 0, Lockout!Expired(record),
           NEW i \in 1 .. Len(wrong), i + MaxAttempts <= Len(wrong) + 1
    PROVE  wrong[i] + Window <= now
<1>0. Numbers /\ Lockout!TypeOK /\ Noting /\ Counting /\ Older /\ Spread /\ Answering
  BY LockoutFacts
<1> DEFINE first == Len(wrong) - record.count + 1
<1>1. first \in 1 .. Len(wrong) /\ i <= first
  BY <1>0 DEF Counting, Numbers
<1>2. wrong[i] <= wrong[first] /\ wrong[first] = record.start
  BY <1>1, <1>0 DEF Noting, Counting
<1>3. record.start + Window <= now
  BY <1>0 DEF Lockout!Expired, Numbers
<1> QED
  BY <1>2, <1>3, <1>0 DEF Numbers

LEMMA AllowedStep == ASSUME Lockout!ConstantsFit, LockoutInv, Lockout!Allowed PROVE LockoutInv'
<1>0. Numbers /\ Lockout!TypeOK /\ Noting /\ Counting /\ Older /\ Spread /\ Answering
  BY LockoutFacts
<1>1. /\ pc' = "checked" /\ refused' = FALSE /\ ~Lockout!Locked /\ UNCHANGED <<now, wrong>>
      /\ record' = IF record.count > 0 /\ Lockout!Expired(record) THEN Lockout!NoRecord ELSE record
  BY DEF Lockout!Allowed
<1>2. CASE record.count > 0 /\ Lockout!Expired(record)
  <2>1. record' = Lockout!NoRecord /\ record'.count = 0 /\ record'.start = 0
    BY <1>1, <1>2 DEF Lockout!NoRecord
  <2>2. Lockout!TypeOK'
    <3>1. record' \in [count : 0 .. MaxAttempts, start : 0 .. MaxTime]
      BY <2>1, <1>0 DEF Lockout!NoRecord, Numbers
    <3>2. /\ now' \in 0 .. MaxTime /\ pc' \in {"idle", "checked"} /\ refused' \in BOOLEAN
          /\ \A i \in DOMAIN wrong' : wrong'[i] \in 0 .. now'
      BY <1>1, <1>0 DEF Lockout!TypeOK
    <3> QED
      BY <3>1, <3>2 DEF Lockout!TypeOK
  <2>3. Noting' /\ Counting' /\ Spread'
    BY <1>1, <2>1, <1>0 DEF Noting, Counting, Spread, Numbers
  <2>4. Older'
    BY <1>1, <1>2, <2>1, ExpiredIsOld DEF Older
  <2>5. Answering'
    BY <1>1, <2>1, <1>0 DEF Answering, Lockout!Locked, Numbers
  <2> QED
    BY <2>2, <2>3, <2>4, <2>5 DEF LockoutInv
<1>3. CASE ~(record.count > 0 /\ Lockout!Expired(record))
  <2>1. record' = record
    BY <1>1, <1>3
  <2>2. Lockout!TypeOK'
    BY <1>1, <2>1, <1>0 DEF Lockout!TypeOK
  <2>3. Noting' /\ Counting' /\ Spread' /\ Older'
    BY <1>1, <2>1, <1>0 DEF Noting, Counting, Spread, Older
  <2>4. Answering'
    BY <1>1, <2>1 DEF Answering, Lockout!Locked, Lockout!Expired
  <2> QED
    BY <2>2, <2>3, <2>4 DEF LockoutInv
<1> QED
  BY <1>2, <1>3

LEMMA WrongPasswordStep == ASSUME Lockout!ConstantsFit, LockoutInv, Lockout!WrongPassword PROVE LockoutInv'
<1>0. Numbers /\ Lockout!TypeOK /\ Noting /\ Counting /\ Older /\ Spread /\ Answering
  BY LockoutFacts
<1> DEFINE n == Len(wrong)
           fresh == record.count = 0 \/ Lockout!Expired(record)
<1>1. /\ pc = "checked" /\ pc' = "idle" /\ record' = Lockout!Noted /\ wrong' = Append(wrong, now)
      /\ UNCHANGED <<now, refused>>
  BY DEF Lockout!WrongPassword
<1>2. ~refused /\ ~Lockout!Locked
  BY <1>1, <1>0 DEF Answering
<1>3. /\ wrong' \in Seq(Nat) /\ Len(wrong') = n + 1
      /\ \A i \in 1 .. n : wrong'[i] = wrong[i]
      /\ wrong'[n + 1] = now
      /\ DOMAIN wrong' = 1 .. n + 1
  <2>1. wrong \in Seq(Nat) /\ now \in Nat
    BY <1>0 DEF Noting, Numbers
  <2>2. /\ wrong' \in Seq(Nat) /\ Len(wrong') = n + 1
        /\ \A i \in 1 .. n : wrong'[i] = wrong[i]
        /\ wrong'[n + 1] = now
    BY <1>1, <2>1, AppendProperties
  <2> QED
    BY <2>2
<1>4. /\ fresh => record'.count = 1 /\ record'.start = now
      /\ ~fresh => record'.count = record.count + 1 /\ record'.start = record.start /\ record.count < MaxAttempts
      /\ record' \in [count : 0 .. MaxAttempts, start : 0 .. MaxTime]
  <2>1. CASE fresh
    BY <1>1, <2>1, <1>0 DEF Lockout!Noted, Numbers
  <2>2. CASE ~fresh
    <3>1. record' = [record EXCEPT !.count = @ + 1]
      BY <1>1, <2>2 DEF Lockout!Noted
    <3>2. record.count < MaxAttempts
      BY <1>2, <2>2, <1>0 DEF Lockout!Locked, Numbers
    <3>3. record \in [count : 0 .. MaxAttempts, start : 0 .. MaxTime]
      BY <1>0 DEF Lockout!TypeOK
    <3> QED
      BY <2>2, <3>1, <3>2, <3>3, <1>0 DEF Numbers
  <2> QED
    BY <2>1, <2>2
<1> HIDE DEF fresh
<1>5. n \in Nat /\ \A i \in 1 .. n + 1 : i = n + 1 \/ i \in 1 .. n
  BY <1>0 DEF Numbers
<1>6. Noting'
  <2>1. \A i \in 1 .. n + 1 : wrong'[i] <= now
    <3>1. now <= now /\ \A i \in 1 .. n : wrong[i] <= now
      BY <1>0 DEF Noting, Numbers
    <3> QED
      BY <1>3, <1>5, <3>1
  <2>2. \A i, j \in 1 .. n + 1 : i <= j => wrong'[i] <= wrong'[j]
    <3> SUFFICES ASSUME NEW i \in 1 .. n + 1, NEW j \in 1 .. n + 1, i <= j
                 PROVE  wrong'[i] <= wrong'[j]
      OBVIOUS
    <3>1. CASE j = n + 1
      BY <1>3, <2>1, <3>1
    <3>2. CASE j \in 1 .. n
      <4>1. i \in 1 .. n
        BY <1>5, <3>2
      <4>2. wrong[i] <= wrong[j]
        BY <1>0, <3>2, <4>1 DEF Noting
      <4> QED
        BY <1>3, <3>2, <4>1, <4>2
    <3> QED
      BY <1>5, <3>1, <3>2
  <2> QED
    BY <1>1, <1>3, <2>1, <2>2 DEF Noting
<1>7. Counting'
  <2>1. CASE fresh
    BY <1>1, <1>3, <1>4, <1>5, <2>1, <1>0 DEF Counting, Numbers
  <2>2. CASE ~fresh
    <3>1. record'.count = record.count + 1 /\ record'.start = record.start /\ record.count > 0
      BY <1>4, <2>2, <1>0 DEF fresh, Numbers
    <3>2. /\ record.count <= n /\ record.start <= now
          /\ \A i \in 1 .. n : n - record.count < i => record.start <= wrong[i]
          /\ record.start = wrong[n - record.count + 1]
      BY <3>1, <1>0 DEF Counting
    <3>3. /\ n - record.count + 1 \in 1 .. n /\ (n + 1) - record'.count = n - record.count
          /\ (n + 1) - record'.count + 1 = n - record.count + 1
      BY <1>5, <3>1, <3>2, <1>0 DEF Numbers
    <3>4. \A i \in 1 .. n + 1 : n - record.count < i => record.start <= wrong'[i]
      BY <1>3, <1>5, <3>2
    <3>5. record'.start = wrong'[(n + 1) - record'.count + 1]
      BY <1>3, <3>1, <3>2, <3>3
    <3>6. record'.count <= n + 1 /\ record'.start <= now
      BY <1>5, <3>1, <3>2, <1>0 DEF Numbers
    <3> QED
      BY <1>1, <1>3, <3>1, <3>3, <3>4, <3>5, <3>6 DEF Counting
  <2> QED
    BY <2>1, <2>2
<1>8. Older'
  <2>1. CASE fresh
    <3>1. \A i \in 1 .. n : i + MaxAttempts <= n + 1 => wrong[i] + Window <= now
      <4>1. CASE record.count = 0
        BY <4>1, <1>0 DEF Older
      <4>2. CASE record.count # 0
        BY <2>1, <4>2, ExpiredIsOld, <1>0 DEF fresh, Numbers
      <4> QED
        BY <4>1, <4>2
    <3>2. \A i \in 1 .. n + 1 : i + MaxAttempts <= (n + 1) - 1 + 1 => i \in 1 .. n /\ i + MaxAttempts <= n + 1
      BY <1>5, <1>0 DEF Numbers
    <3> QED
      BY <1>3, <1>4, <2>1, <3>1, <3>2 DEF Older
  <2>2. CASE ~fresh
    <3>1. record'.count = record.count + 1 /\ record'.start = record.start /\ record.count > 0
      BY <1>4, <2>2, <1>0 DEF fresh, Numbers
    <3>2. \A i \in 1 .. n : i + MaxAttempts <= n - record.count + 1 => wrong[i] + Window <= record.start
      BY <3>1, <1>0 DEF Older
    <3>3. \A i \in 1 .. n + 1 : i + MaxAttempts <= (n + 1) - record'.count + 1
            => i \in 1 .. n /\ i + MaxAttempts <= n - record.count + 1
      BY <1>5, <3>1, <1>0 DEF Numbers
    <3>4. record'.count # 0
      BY <3>1, <1>0 DEF Numbers
    <3> QED
      BY <1>3, <3>1, <3>2, <3>3, <3>4 DEF Older
  <2> QED
    BY <2>1, <2>2
<1>9. Spread'
  <2>1. /\ record'.count \in 1 .. MaxAttempts /\ record'.start \in Nat /\ record'.start <= now
    BY <1>1, <1>4, <1>7, <1>0 DEF Counting, Numbers
  <2>2. \A i \in 1 .. n : i + 2 * MaxAttempts <= (n + 1) + 1 => wrong[i] + Window <= now
    <3> SUFFICES ASSUME NEW i \in 1 .. n, i + 2 * MaxAttempts <= (n + 1) + 1
                 PROVE  wrong[i] + Window <= now
      OBVIOUS
    <3>1. i + MaxAttempts <= (n + 1) - record'.count + 1 /\ i \in 1 .. n + 1
      BY <1>5, <2>1, <1>0 DEF Numbers
    <3>2. wrong'[i] + Window <= record'.start
      BY <1>3, <1>8, <2>1, <3>1 DEF Older
    <3> QED
      <4>1. wrong'[i] = wrong[i] /\ wrong[i] \in Nat
        BY <1>3, <1>0 DEF Numbers
      <4>2. \A w, a, b, c \in Nat : w + c <= a /\ a <= b => w + c <= b
        OBVIOUS
      <4>3. now \in Nat /\ Window \in Nat /\ record'.start \in Nat /\ record'.start <= now
        BY <2>1, <1>0 DEF Numbers
      <4> QED
        BY <3>2, <4>1, <4>2, <4>3
  <2>3. \A i, j \in 1 .. n : i + 2 * MaxAttempts <= j + 1 => wrong[i] + Window <= wrong[j]
    BY <1>0 DEF Spread
  <2>4. \A i, j \in 1 .. n + 1 : i + 2 * MaxAttempts <= j + 1 => i \in 1 .. n
    BY <1>5, <1>0 DEF Numbers
  <2>5. \A i, j \in 1 .. n + 1 : i + 2 * MaxAttempts <= j + 1 => wrong'[i] + Window <= wrong'[j]
    BY <1>3, <1>5, <2>2, <2>3, <2>4
  <2> QED
    BY <1>3, <2>5 DEF Spread
<1>10. Lockout!TypeOK'
  <2>1. \A i \in 1 .. n + 1 : wrong'[i] \in 0 .. now
    <3>1. now \in 0 .. now /\ \A i \in 1 .. n : wrong[i] \in 0 .. now
      BY <1>0 DEF Noting, Numbers
    <3> QED
      BY <1>3, <1>5, <3>1
  <2> QED
    BY <1>1, <1>3, <1>4, <2>1, <1>0 DEF Lockout!TypeOK
<1>11. Answering'
  BY <1>1, <1>2 DEF Answering
<1> QED
  BY <1>6, <1>7, <1>8, <1>9, <1>10, <1>11 DEF LockoutInv

LEMMA OtherAnswers ==
    ASSUME Lockout!ConstantsFit, LockoutInv, Lockout!Refused \/ Lockout!LoggedIn \/ Lockout!Inactive \/ UNCHANGED Lockout!vars
    PROVE  LockoutInv'
<1>0. Numbers /\ Lockout!TypeOK /\ Noting /\ Counting /\ Older /\ Spread /\ Answering
  BY LockoutFacts
<1>1. CASE Lockout!LoggedIn
  <2>1. /\ record'.count = 0 /\ record'.start = 0 /\ record' \in [count : 0 .. MaxAttempts, start : 0 .. MaxTime]
        /\ UNCHANGED <<now, refused>> /\ pc' = "idle" /\ ~refused
    BY <1>1, <1>0 DEF Lockout!LoggedIn, Lockout!NoRecord, Answering, Numbers
  <2>2. wrong' \in Seq(Nat) /\ Len(wrong') = 0 /\ DOMAIN wrong' = {}
    BY <1>1, EmptySeq DEF Lockout!LoggedIn
  <2>3. Lockout!TypeOK'
    BY <2>1, <2>2, <1>0 DEF Lockout!TypeOK
  <2>4. Noting' /\ Older' /\ Spread'
    BY <2>1, <2>2 DEF Noting, Older, Spread
  <2>5. Counting'
    BY <2>1, <2>2, <1>0 DEF Counting, Numbers
  <2>6. Answering'
    BY <2>1 DEF Answering
  <2> QED
    BY <2>3, <2>4, <2>5, <2>6 DEF LockoutInv
<1>2. CASE Lockout!Refused \/ Lockout!Inactive \/ UNCHANGED Lockout!vars
  <2>1. UNCHANGED <<now, record, wrong>>
    BY <1>2 DEF Lockout!Refused, Lockout!Inactive, Lockout!vars
  <2>2. Lockout!TypeOK'
    BY <1>2, <2>1, <1>0 DEF Lockout!TypeOK, Lockout!Refused, Lockout!Inactive, Lockout!vars
  <2>3. Noting' /\ Counting' /\ Older' /\ Spread'
    BY <2>1, <1>0 DEF Noting, Counting, Older, Spread
  <2>4. Answering'
    BY <1>2, <2>1, <1>0 DEF Answering, Lockout!Locked, Lockout!Expired, Lockout!Refused, Lockout!Inactive, Lockout!vars
  <2> QED
    BY <2>2, <2>3, <2>4 DEF LockoutInv
<1> QED
  BY <1>1, <1>2

LEMMA LockoutStep == ASSUME Lockout!ConstantsFit, LockoutInv, [Lockout!Next]_(Lockout!vars) PROVE LockoutInv'
  BY TickStep, AllowedStep, WrongPasswordStep, OtherAnswers DEF Lockout!Next

(* What the record counts was given within the window.                      *)
LEMMA RefusalsHaveCause == ASSUME Lockout!ConstantsFit, LockoutInv PROVE Lockout!RefusedForCause
<1>0. Numbers /\ Lockout!TypeOK /\ Noting /\ Counting /\ Older /\ Spread /\ Answering
  BY LockoutFacts
<1> SUFFICES ASSUME refused
             PROVE  Lockout!Within({t \in 0 .. now : now - t < Window}) >= MaxAttempts
  BY DEF Lockout!RefusedForCause
<1> DEFINE n == Len(wrong)
           I == {i \in DOMAIN wrong : wrong[i] \in {t \in 0 .. now : now - t < Window}}
<1>1. record.count >= MaxAttempts /\ now - record.start < Window
  BY <1>0 DEF Answering, Lockout!Locked, Lockout!Expired, Numbers
<1>2. record.count <= n /\ \A i \in 1 .. n : n - record.count < i => record.start <= wrong[i] /\ wrong[i] <= now
  BY <1>0 DEF Counting, Noting
<1>3. (n - record.count + 1) .. n \subseteq I
  <2> SUFFICES ASSUME NEW i \in (n - record.count + 1) .. n
               PROVE  i \in I
    OBVIOUS
  <2>1. i \in 1 .. n /\ n - record.count < i
    BY <1>2, <1>0 DEF Numbers
  <2>2. record.start <= wrong[i] /\ wrong[i] <= now /\ wrong[i] \in Nat
    BY <1>2, <1>0, <2>1 DEF Numbers
  <2>3. \A w, a, b, c \in Nat : a <= w /\ w <= b /\ b - a < c => w \in 0 .. b /\ b - w < c
    OBVIOUS
  <2>4. wrong[i] \in 0 .. now /\ now - wrong[i] < Window
    BY <1>1, <2>2, <2>3, <1>0 DEF Numbers
  <2> QED
    BY <1>0, <2>1, <2>4 DEF Numbers
<1>4. IsFiniteSet(I) /\ I \subseteq 1 .. n
  <2>1. I \subseteq 1 .. n /\ n \in Int /\ 1 \in Int
    BY <1>0 DEF Numbers
  <2>2. IsFiniteSet(1 .. n)
    BY <2>1, FS_Interval
  <2> QED
    BY <2>1, <2>2, FS_Subset
<1>5. Cardinality((n - record.count + 1) .. n) = record.count
  <2>1. /\ n - record.count + 1 \in Int /\ n \in Int
        /\ n - (n - record.count + 1) + 1 = record.count
        /\ n - record.count + 1 > n => record.count = 0
    BY <1>2, <1>0 DEF Numbers
  <2> QED
    BY <2>1, FS_Interval
<1>6. Cardinality(I) \in Nat /\ record.count <= Cardinality(I)
  BY <1>3, <1>4, <1>5, FS_Subset, FS_CardinalityType
<1> QED
  BY <1>1, <1>6, <1>0, LockoutSize DEF Lockout!Within, Numbers

(* 2 * Max of them do not fit in a span of Window seconds.                  *)
LEMMA AttemptsAreFew == ASSUME Lockout!ConstantsFit, LockoutInv PROVE Lockout!FewAttempts
<1>0. Numbers /\ Lockout!TypeOK /\ Noting /\ Counting /\ Older /\ Spread /\ Answering
  BY LockoutFacts
<1> SUFFICES ASSUME NEW s \in 0 .. MaxTime
             PROVE  Lockout!Within(s .. (s + Window - 1)) < 2 * MaxAttempts
  BY DEF Lockout!FewAttempts
<1> DEFINE n == Len(wrong)
           I == {i \in DOMAIN wrong : wrong[i] \in s .. (s + Window - 1)}
<1>1. I \subseteq 1 .. n /\ n \in Nat
  BY <1>0 DEF Numbers
<1>2. CASE I = {}
  <2>1. Cardinality(I) = 0
    BY <1>2, FS_EmptySet
  <2>2. 0 < 2 * MaxAttempts
    BY <1>0 DEF Numbers
  <2> QED
    BY <2>1, <2>2, LockoutSize DEF Lockout!Within
<1>3. CASE I # {}
  <2>1. PICK a \in I : \A i \in I : a <= i
    <3>1. I \subseteq Nat
      BY <1>1
    <3> HIDE DEF I
    <3> QED
      BY <1>3, <3>1, LeastPosition
  <2>2. a \in 1 .. n /\ wrong[a] \in Nat /\ wrong[a] >= s
    BY <1>1, <1>0 DEF Numbers
  <2>3. ASSUME NEW i \in I
        PROVE  i \in a .. (a + 2 * MaxAttempts - 2)
    <3>1. i \in 1 .. n /\ a <= i /\ wrong[i] \in Nat /\ wrong[i] < s + Window
      BY <1>1, <2>1, <1>0 DEF Numbers
    <3>2. ~(a + 2 * MaxAttempts <= i + 1)
      BY <2>2, <3>1, <1>0 DEF Spread, Numbers
    <3> QED
      BY <1>1, <2>2, <3>1, <3>2, <1>0 DEF Numbers
  <2> HIDE DEF I
  <2>4. a \in Int /\ a + 2 * MaxAttempts - 2 \in Int /\ a <= a + 2 * MaxAttempts - 2
    BY <2>2, <1>0 DEF Numbers
  <2>5. IsFiniteSet(a .. (a + 2 * MaxAttempts - 2)) /\ Cardinality(a .. (a + 2 * MaxAttempts - 2)) = 2 * MaxAttempts - 1
    <3>1. (a + 2 * MaxAttempts - 2) - a + 1 = 2 * MaxAttempts - 1 /\ ~(a > a + 2 * MaxAttempts - 2)
      BY <2>4, <1>0 DEF Numbers
    <3> QED
      BY <2>4, <3>1, FS_Interval
  <2>6. Cardinality(I) <= 2 * MaxAttempts - 1 /\ Cardinality(I) \in Nat
    BY <2>3, <2>5, FS_Subset, FS_CardinalityType
  <2> QED
    BY <2>6, <1>0, LockoutSize DEF Lockout!Within, I, Numbers
<1> QED
  BY <1>2, <1>3

LEMMA LockoutIsKept == PartsSpec => [](view = "lockout" => LockoutInv)
<1> DEFINE Kept == view = "lockout" => LockoutInv
<1>1. PartsInit => Kept
  BY PartInits, LockoutInit, EveryConstantFits
<1>2. ASSUME Kept, [PartsNext]_allVars PROVE Kept'
  <2>1. CASE view = "lockout"
    <3>1. LockoutInv /\ [Lockout!Next]_(Lockout!vars)
      BY <1>2, <2>1, PartSteps
    <3>2. LockoutInv'
      BY <3>1, LockoutStep, EveryConstantFits
    <3> QED
      BY <3>2
  <2>2. CASE view # "lockout"
    BY <1>2, <2>2, PartSteps
  <2> QED
    BY <2>1, <2>2
<1> HIDE DEF Kept
<1>3. PartsSpec => []Kept
  BY <1>1, <1>2, PTL DEF PartsSpec
<1> QED
  BY <1>3, PTL DEF Kept

(* A login is refused only for enough wrong passwords within the window, and *)
(* two windows that touch let fewer than twice as many through - for any    *)
(* limit, any window and however the attempts are placed.                   *)
THEOREM RefusedForCauseOnly ==
    /\ PartsSpec => []LockoutIsFair
    /\ Lockout!Spec => []Lockout!LockoutIsFair
<1>1. (view = "lockout" => LockoutInv) => LockoutIsFair
  BY RefusalsHaveCause, AttemptsAreFew, EveryConstantFits DEF LockoutIsFair, Lockout!LockoutIsFair
<1>2. PartsSpec => []LockoutIsFair
  BY <1>1, LockoutIsKept, PTL
<1>3. Lockout!Init => LockoutInv
  BY LockoutInit, EveryConstantFits
<1>4. LockoutInv /\ [Lockout!Next]_(Lockout!vars) => LockoutInv'
  BY LockoutStep, EveryConstantFits
<1>5. LockoutInv => Lockout!LockoutIsFair
  BY RefusalsHaveCause, AttemptsAreFew, EveryConstantFits DEF Lockout!LockoutIsFair
<1>6. Lockout!Spec => []Lockout!LockoutIsFair
  BY <1>3, <1>4, <1>5, PTL DEF Lockout!Spec
<1> QED
  BY <1>2, <1>6

-----------------------------------------------------------------------------
(* GatewayRouter *)

LEMMA RouterSize == \A S : Router!Cardinality(S) = Cardinality(S)
  BY DEF Router!Cardinality, Cardinality

(* A gateway that did not change since its sync has what the cache says of  *)
(* it, though perhaps deeper, and no channel that the cache does not have.  *)
Faithful ==
    \A g \in current, c \in Channels :
        /\ routerCache[g][c] <= reality[g][c]
        /\ routerCache[g][c] = 0 <=> reality[g][c] = 0

Places == [site : Sites, zone : Zones \cup {None}]

(* TypeOK, with the locations as a sequence.                                *)
Typed ==
    /\ routerGateways \subseteq Gateways /\ current \subseteq routerGateways
    /\ reality \in [Gateways -> [Channels -> 0..3]]
    /\ routerCache \in [Gateways -> [Channels -> 0..3]]
    /\ \A g \in Gateways \ routerGateways : routerCache[g] = Router!NoStructure
    /\ siteMap \in [Sites -> routerGateways \cup {None}]
    /\ zoneMap \in [Zones -> routerGateways \cup {None}]
    /\ locations \in Seq(Places) /\ Len(locations) <= MaxLocations

RouterInv == Typed /\ IsFiniteSet(routerGateways) /\ Faithful

LEMMA LocationsAreBounded ==
    ASSUME Router!ConstantsFit, Typed PROVE Router!TypeOK
<1>1. locations \in Router!BoundedSeq(Places, MaxLocations)
  <2>1. /\ locations \in [1 .. Len(locations) -> Places]
        /\ Len(locations) \in Nat
    BY LenProperties DEF Typed
  <2>2. Len(locations) \in 0 .. MaxLocations
    BY <2>1 DEF Typed, Router!ConstantsFit
  <2> QED
    BY <2>1, <2>2 DEF Router!BoundedSeq, Router!SeqOf
<1> QED
  BY <1>1 DEF Typed, Router!TypeOK, Places

LEMMA RouterInit == Router!ConstantsFit /\ Router!Init => RouterInv
<1> SUFFICES ASSUME Router!ConstantsFit, Router!Init PROVE RouterInv
  OBVIOUS
<1>1. locations \in Seq(Places) /\ Len(locations) = 0
  BY EmptySeq DEF Router!Init
<1>2. routerGateways = {} /\ current = {} /\ IsFiniteSet(routerGateways)
  BY FS_EmptySet DEF Router!Init
<1>3. reality \in [Gateways -> [Channels -> 0..3]]
  BY DEF Router!Init, Router!ConstantsFit
<1>4. routerCache = [g \in Gateways |-> Router!NoStructure] /\ Router!NoStructure \in [Channels -> 0..3]
  BY DEF Router!Init, Router!NoStructure
<1>5. siteMap \in [Sites -> routerGateways \cup {None}] /\ zoneMap \in [Zones -> routerGateways \cup {None}]
  BY DEF Router!Init
<1>6. Len(locations) <= MaxLocations
  BY <1>1 DEF Router!ConstantsFit
<1>7. Typed
  BY <1>1, <1>2, <1>3, <1>4, <1>5, <1>6 DEF Typed
<1> QED
  BY <1>2, <1>7 DEF RouterInv, Faithful

(* The steps that touch the table of gateways, or their structures.         *)
LEMMA GatewaysChange ==
    ASSUME Router!ConstantsFit, RouterInv, NEW g \in Gateways, Router!createGateway(g) \/ Router!deleteGateway(g)
    PROVE  RouterInv'
<1>0. Typed /\ IsFiniteSet(routerGateways) /\ Faithful
  BY DEF RouterInv
<1>1. CASE Router!createGateway(g)
  <2>1. /\ routerGateways' = routerGateways \cup {g} /\ g \notin routerGateways
        /\ UNCHANGED <<reality, routerCache, siteMap, zoneMap, locations, current>>
    BY <1>1 DEF Router!createGateway
  <2>2. IsFiniteSet(routerGateways')
    BY <1>0, <2>1, FS_AddElement
  <2>3. Typed'
    BY <1>0, <2>1 DEF Typed, Router!NoStructure
  <2>4. Faithful'
    BY <1>0, <2>1 DEF Faithful
  <2> QED
    BY <2>2, <2>3, <2>4 DEF RouterInv
<1>2. CASE Router!deleteGateway(g)
  <2>1. /\ routerGateways' = routerGateways \ {g} /\ current' = current \ {g}
        /\ routerCache' = [routerCache EXCEPT ![g] = Router!NoStructure]
        /\ UNCHANGED <<reality, locations>>
    BY <1>2 DEF Router!deleteGateway
  <2>2. IsFiniteSet(routerGateways')
    BY <1>0, <2>1, FS_RemoveElement
  <2>3. Router!NoStructure \in [Channels -> 0..3]
    BY DEF Router!NoStructure
  <2>4. /\ routerCache' \in [Gateways -> [Channels -> 0..3]]
        /\ \A h \in Gateways \ routerGateways' : routerCache'[h] = Router!NoStructure
        /\ \A h \in Gateways \ {g} : routerCache'[h] = routerCache[h]
    BY <1>0, <2>1, <2>3 DEF Typed
  <2>5. siteMap' \in [Sites -> routerGateways' \cup {None}]
    BY <1>0, <1>2, <2>1 DEF Typed, Router!deleteGateway
  <2>6. zoneMap' \in [Zones -> routerGateways' \cup {None}]
    BY <1>0, <1>2, <2>1 DEF Typed, Router!deleteGateway
  <2>7. Typed'
    <3>1. /\ routerGateways' \subseteq Gateways /\ current' \subseteq routerGateways'
          /\ reality' \in [Gateways -> [Channels -> 0..3]]
          /\ locations' \in Seq(Places) /\ Len(locations') <= MaxLocations
      BY <1>0, <2>1 DEF Typed
    <3> QED
      BY <2>4, <2>5, <2>6, <3>1 DEF Typed, Router!NoStructure, Places
  <2>8. Faithful'
    BY <1>0, <2>1, <2>4 DEF Faithful, Typed
  <2> QED
    BY <2>2, <2>7, <2>8 DEF RouterInv
<1> QED
  BY <1>1, <1>2

LEMMA StructuresChange ==
    ASSUME Router!ConstantsFit, RouterInv,
           \/ \E g \in Gateways : Router!syncStructure(g)
           \/ \E g \in Gateways, structure \in [Channels -> Depths] : Router!KepwareChanges(g, structure)
           \/ \E sel \in routerGateways \cup {None} : Router!executeKw(sel)
    PROVE  RouterInv'
<1>0. Typed /\ IsFiniteSet(routerGateways) /\ Faithful
  BY DEF RouterInv
<1>1. ASSUME NEW g \in Gateways, Router!syncStructure(g)
      PROVE  RouterInv'
  <2>1. PICK listed \in [Channels -> 1..3] : routerCache' = [routerCache EXCEPT ![g] = Router!fetchStructure(g, listed)]
    BY <1>1 DEF Router!syncStructure
  <2>2. /\ g \in routerGateways /\ current' = current \cup {g}
        /\ UNCHANGED <<routerGateways, reality, siteMap, zoneMap, locations>>
    BY <1>1 DEF Router!syncStructure
  <2>3. ASSUME NEW c \in Channels
        PROVE  /\ Router!fetchStructure(g, listed)[c] \in 0..3
               /\ Router!fetchStructure(g, listed)[c] <= reality[g][c]
               /\ Router!fetchStructure(g, listed)[c] = 0 <=> reality[g][c] = 0
    <3>1. reality[g][c] \in 0..3 /\ listed[c] \in 1..3
      BY <1>0 DEF Typed
    <3>2. Router!fetchStructure(g, listed)[c] = IF reality[g][c] < listed[c] THEN reality[g][c] ELSE listed[c]
      BY DEF Router!fetchStructure
    <3> QED
      BY <3>1, <3>2
  <2>4. Router!fetchStructure(g, listed) \in [Channels -> 0..3]
    <3>1. Router!fetchStructure(g, listed) = [c \in Channels |-> Router!fetchStructure(g, listed)[c]]
      BY DEF Router!fetchStructure
    <3> HIDE DEF Router!fetchStructure
    <3> QED
      BY <2>3, <3>1
  <2>5. /\ routerCache' \in [Gateways -> [Channels -> 0..3]]
        /\ routerCache'[g] = Router!fetchStructure(g, listed)
        /\ \A h \in Gateways \ {g} : routerCache'[h] = routerCache[h]
    BY <1>0, <2>1, <2>4 DEF Typed
  <2>6. Typed'
    <3>1. /\ routerGateways' \subseteq Gateways /\ current' \subseteq routerGateways'
          /\ reality' \in [Gateways -> [Channels -> 0..3]]
          /\ siteMap' \in [Sites -> routerGateways' \cup {None}]
          /\ zoneMap' \in [Zones -> routerGateways' \cup {None}]
          /\ locations' \in Seq(Places) /\ Len(locations') <= MaxLocations
      BY <1>0, <2>2 DEF Typed
    <3>2. \A h \in Gateways \ routerGateways' : routerCache'[h] = Router!NoStructure
      BY <1>0, <2>2, <2>5 DEF Typed
    <3> QED
      BY <2>5, <3>1, <3>2 DEF Typed, Router!NoStructure, Places
  <2>7. Faithful'
    <3> SUFFICES ASSUME NEW h \in current', NEW c \in Channels
                 PROVE  /\ routerCache'[h][c] <= reality'[h][c]
                        /\ routerCache'[h][c] = 0 <=> reality'[h][c] = 0
      BY DEF Faithful
    <3>1. CASE h = g
      BY <2>2, <2>3, <2>5, <3>1
    <3>2. CASE h # g
      BY <1>0, <2>2, <2>5, <3>2 DEF Faithful, Typed
    <3> QED
      BY <3>1, <3>2
  <2> QED
    BY <1>0, <2>2, <2>6, <2>7 DEF RouterInv
<1>2. ASSUME NEW g \in Gateways, NEW structure \in [Channels -> Depths], Router!KepwareChanges(g, structure)
      PROVE  RouterInv'
  <2>1. /\ reality' = [reality EXCEPT ![g] = structure] /\ current' = current \ {g}
        /\ UNCHANGED <<routerGateways, routerCache, siteMap, zoneMap, locations>>
    BY <1>2 DEF Router!KepwareChanges, Router!tables
  <2>2. structure \in [Channels -> 0..3]
    BY DEF Router!ConstantsFit
  <2>3. /\ reality' \in [Gateways -> [Channels -> 0..3]]
        /\ \A h \in Gateways \ {g} : reality'[h] = reality[h]
    BY <1>0, <2>1, <2>2 DEF Typed
  <2>4. Typed'
    BY <1>0, <2>1, <2>3 DEF Typed, Router!NoStructure
  <2>5. Faithful'
    BY <1>0, <2>1, <2>3 DEF Faithful, Typed
  <2> QED
    BY <1>0, <2>1, <2>4, <2>5 DEF RouterInv
<1>3. ASSUME NEW sel \in routerGateways \cup {None}, Router!executeKw(sel)
      PROVE  RouterInv'
  <2> DEFINE built(g) == UNION {{r.channel : r \in p.rows} :
                                p \in {q \in Router!PlanGatewayParts(sel, Router!Rows).parts : q.gateway = g}}
  <2>1. /\ reality' = [g \in Gateways |-> [c \in Channels |->
                         IF c \in built(g) /\ reality[g][c] = 2 THEN 3 ELSE reality[g][c]]]
        /\ UNCHANGED <<routerGateways, routerCache, siteMap, zoneMap, locations, current>>
    BY <1>3 DEF Router!executeKw, Router!tables
  <2> HIDE DEF built
  <2>2. ASSUME NEW g \in Gateways, NEW c \in Channels
        PROVE  /\ reality'[g][c] \in 0..3 /\ reality[g][c] <= reality'[g][c]
               /\ reality'[g][c] = 0 <=> reality[g][c] = 0
    <3>1. reality[g][c] \in 0..3
      BY <1>0 DEF Typed
    <3>2. reality'[g][c] = IF c \in built(g) /\ reality[g][c] = 2 THEN 3 ELSE reality[g][c]
      BY <2>1
    <3> QED
      BY <3>1, <3>2
  <2>3. reality' \in [Gateways -> [Channels -> 0..3]]
    BY <2>1, <2>2
  <2>4. Typed'
    BY <1>0, <2>1, <2>3 DEF Typed, Router!NoStructure
  <2>5. Faithful'
    <3> SUFFICES ASSUME NEW h \in current, NEW c \in Channels
                 PROVE  /\ routerCache[h][c] <= reality'[h][c]
                        /\ routerCache[h][c] = 0 <=> reality'[h][c] = 0
      BY <2>1 DEF Faithful
    <3>1. h \in Gateways /\ routerCache[h][c] \in 0..3 /\ reality[h][c] \in 0..3
      BY <1>0 DEF Typed
    <3>2. routerCache[h][c] <= reality[h][c] /\ (routerCache[h][c] = 0 <=> reality[h][c] = 0)
      BY <1>0 DEF Faithful
    <3> QED
      BY <2>2, <3>1, <3>2
  <2> QED
    BY <1>0, <2>1, <2>4, <2>5 DEF RouterInv
<1> QED
  BY <1>1, <1>2, <1>3

LEMMA SettingsChange ==
    ASSUME Router!ConstantsFit, RouterInv,
           \/ \E to \in Gateways \cup {None} : Router!SetRoute(to)
           \/ \E site \in Sites, zone \in Zones \cup {None} : Router!upsertLocation(site, zone)
           \/ \E i \in DOMAIN locations : Router!deleteLocation(i)
           \/ UNCHANGED Router!vars
    PROVE  RouterInv'
<1>0. Typed /\ IsFiniteSet(routerGateways) /\ Faithful
  BY DEF RouterInv
<1>1. UNCHANGED <<routerGateways, reality, routerCache, current>>
  BY DEF Router!SetRoute, Router!upsertLocation, Router!deleteLocation, Router!vars, Router!tables
<1>2. siteMap' \in [Sites -> routerGateways \cup {None}] /\ zoneMap' \in [Zones -> routerGateways \cup {None}]
  BY <1>0 DEF Typed, Router!SetRoute, Router!upsertLocation, Router!deleteLocation, Router!vars, Router!tables
<1>3. locations' \in Seq(Places) /\ Len(locations') <= MaxLocations
  <2>1. locations \in Seq(Places) /\ Len(locations) \in Nat /\ Len(locations) <= MaxLocations
        /\ MaxLocations \in Nat /\ DOMAIN locations = 1 .. Len(locations)
    BY <1>0, LenProperties DEF Typed, Router!ConstantsFit
  <2>2. ASSUME NEW site \in Sites, NEW zone \in Zones \cup {None}, Router!upsertLocation(site, zone)
        PROVE  locations' \in Seq(Places) /\ Len(locations') <= MaxLocations
    <3>1. /\ Len(locations) < MaxLocations
          /\ locations' = Append(locations, [site |-> site, zone |-> zone])
      BY <2>2 DEF Router!upsertLocation
    <3>2. [site |-> site, zone |-> zone] \in Places
      BY DEF Places
    <3>3. locations' \in Seq(Places) /\ Len(locations') = Len(locations) + 1
      BY <2>1, <3>1, <3>2, AppendProperties
    <3> QED
      BY <2>1, <3>1, <3>3
  <2>3. ASSUME NEW i \in DOMAIN locations, Router!deleteLocation(i)
        PROVE  locations' \in Seq(Places) /\ Len(locations') <= MaxLocations
    <3>1. locations' = Without(locations, i) /\ i \in 1 .. Len(locations)
      BY <2>1, <2>3 DEF Router!deleteLocation, Router!RemoveAt, Without
    <3>2. locations' \in Seq(Places) /\ Len(locations') = Len(locations) - 1
      BY <2>1, <3>1, WithoutShape
    <3> QED
      BY <2>1, <3>2
  <2>4. CASE locations' = locations
    BY <2>1, <2>4
  <2>5. CASE (\E to \in Gateways \cup {None} : Router!SetRoute(to)) \/ UNCHANGED Router!vars
    BY <2>4, <2>5 DEF Router!SetRoute, Router!vars, Router!tables
  <2> QED
    BY <2>2, <2>3, <2>5
<1>4. Typed'
  BY <1>0, <1>1, <1>2, <1>3 DEF Typed, Router!NoStructure, Places
<1>5. Faithful'
  BY <1>0, <1>1 DEF Faithful
<1> QED
  BY <1>0, <1>1, <1>4, <1>5 DEF RouterInv

LEMMA RouterStep == ASSUME Router!ConstantsFit, RouterInv, [Router!Next]_(Router!vars) PROVE RouterInv'
<1>1. CASE \E g \in Gateways : Router!createGateway(g) \/ Router!deleteGateway(g)
  BY <1>1, GatewaysChange
<1>2. CASE \/ \E g \in Gateways : Router!syncStructure(g)
           \/ \E g \in Gateways, structure \in [Channels -> Depths] : Router!KepwareChanges(g, structure)
           \/ \E sel \in routerGateways \cup {None} : Router!executeKw(sel)
  BY <1>2, StructuresChange
<1>3. CASE \/ \E to \in Gateways \cup {None} : Router!SetRoute(to)
           \/ \E site \in Sites, zone \in Zones \cup {None} : Router!upsertLocation(site, zone)
           \/ \E i \in DOMAIN locations : Router!deleteLocation(i)
           \/ UNCHANGED Router!vars
  BY <1>3, SettingsChange
<1> QED
  BY <1>1, <1>2, <1>3 DEF Router!Next

-----------------------------------------------------------------------------
(* What a row's zone and the map give.                                      *)
LEMMA ZoneIsAZone ==
    ASSUME Router!ConstantsFit, RouterInv, NEW site
    PROVE  Router!FirstZone(site) \in Zones \cup {None}
<1> DEFINE I == {j \in 1 .. Len(locations) : locations[j].site = site}
           i == Router!SelectInSeq(locations, LAMBDA l : l.site = site)
<1>1. locations \in Seq(Places) /\ Len(locations) \in Nat
  BY LenProperties DEF RouterInv, Typed
<1>2. i = IF I # {} THEN Router!Min(I) ELSE 0
  BY DEF Router!SelectInSeq
<1>3. CASE I = {}
  BY <1>2, <1>3 DEF Router!FirstZone
<1>4. CASE I # {}
  <2>1. I \subseteq Nat
    BY <1>1
  <2> HIDE DEF I
  <2>2. \E x \in I : \A y \in I : x <= y
    BY <1>4, <2>1, LeastPosition
  <2>3. Router!Min(I) \in I
    BY <2>2 DEF Router!Min
  <2>4. i \in 1 .. Len(locations)
    BY <1>2, <1>4, <2>3 DEF I
  <2>5. locations[i] \in Places /\ i # 0
    BY <1>1, <2>4, ElementOfSeq
  <2>6. Router!FirstZone(site) = IF i = 0 THEN None ELSE locations[i].zone
    BY DEF Router!FirstZone
  <2> HIDE DEF i
  <2> QED
    BY <2>5, <2>6 DEF Places
<1> QED
  BY <1>3, <1>4

LEMMA MapGives ==
    ASSUME Router!ConstantsFit, RouterInv, NEW site \in Sites \cup {None}, NEW zone \in Zones \cup {None}
    PROVE  Router!LookupMap(site, zone) \in routerGateways \cup {None}
<1>1. /\ siteMap \in [Sites -> routerGateways \cup {None}]
      /\ zoneMap \in [Zones -> routerGateways \cup {None}]
  BY DEF RouterInv, Typed
<1>2. CASE site # None /\ siteMap[site] # None
  BY <1>1, <1>2 DEF Router!LookupMap
<1>3. CASE ~(site # None /\ siteMap[site] # None)
  <2>1. CASE zone # None /\ zoneMap[zone] # None
    BY <1>1, <1>3, <2>1 DEF Router!LookupMap
  <2>2. CASE ~(zone # None /\ zoneMap[zone] # None)
    BY <1>3, <2>2 DEF Router!LookupMap
  <2> QED
    BY <2>1, <2>2
<1> QED
  BY <1>2, <1>3

GoodStatuses == {"single", "ok", "channel_only", "map_only"}
BadStatuses == {"conflict", "conflict_channel", "unrouted"}

(* What a route is, by its status.                                          *)
RouteIs(row, r, at, map) ==
    /\ r.status \in GoodStatuses => r.gateway \in routerGateways
    /\ r.status \in BadStatuses => r.gateway = None
    /\ r.status \in GoodStatuses \cup BadStatuses
    /\ r.status = "single" <=> Router!Cardinality(routerGateways) = 1
    /\ r.status = "single" => routerGateways = {r.gateway}
    /\ r.status \in {"ok", "channel_only"} => at = {r.gateway}
    /\ r.status = "ok" => map = r.gateway
    /\ r.status = "map_only" => at = {}

LEMMA RouteShape ==
    ASSUME Router!ConstantsFit, RouterInv, NEW row \in Router!Rows
    PROVE  RouteIs(row, Router!resolveGateway(row), Router!ChannelGateways(row.channel), Router!LookupMap(row.site, Router!ZoneOf(row)))
<1> DEFINE at  == Router!ChannelGateways(row.channel)
           map == Router!LookupMap(row.site, Router!ZoneOf(row))
           one == CHOOSE g \in at : TRUE
           r == Router!resolveGateway(row)
<1>1. map \in routerGateways \cup {None}
  <2>1. row.site \in Sites \cup {None}
    BY DEF Router!Rows
  <2>2. Router!ZoneOf(row) \in Zones \cup {None}
    BY ZoneIsAZone DEF Router!ZoneOf
  <2> QED
    BY <2>1, <2>2, MapGives
<1>2. at \subseteq routerGateways
  BY DEF Router!ChannelGateways
<1>3. IsFiniteSet(routerGateways) /\ IsFiniteSet(at) /\ Router!Cardinality(at) \in Nat
  BY <1>2, FS_Subset, FS_CardinalityType, RouterSize DEF RouterInv
<1>4. Router!Cardinality(at) = 0 <=> at = {}
  BY <1>3, FS_EmptySet, RouterSize
<1>5. Router!Cardinality(at) = 1 => at = {one}
  <2>1. ASSUME Router!Cardinality(at) = 1 PROVE \E x : at = {x}
    BY <1>3, <2>1, FS_Singleton, RouterSize
  <2> QED
    BY <2>1
<1>6. Router!Cardinality(routerGateways) = 1 => routerGateways = {CHOOSE g \in routerGateways : TRUE}
  <2>1. ASSUME Router!Cardinality(routerGateways) = 1 PROVE \E x : routerGateways = {x}
    BY <1>3, <2>1, FS_Singleton, RouterSize
  <2> QED
    BY <2>1
<1>7. None \notin routerGateways
  BY DEF Router!ConstantsFit, RouterInv, Typed
<1>8. /\ Router!Cardinality(routerGateways) = 1 => r = Router!Routed(CHOOSE g \in routerGateways : TRUE, "single")
      /\ Router!Cardinality(routerGateways) # 1 /\ Router!Cardinality(at) > 1 => r = Router!Refused("conflict_channel")
      /\ Router!Cardinality(routerGateways) # 1 /\ Router!Cardinality(at) = 1 =>
           /\ map = None => r = Router!Routed(one, "channel_only")
           /\ map # None /\ map = one => r = Router!Routed(one, "ok")
           /\ map # None /\ map # one => r = Router!Refused("conflict")
      /\ Router!Cardinality(routerGateways) # 1 /\ at = {} =>
           r = IF map = None THEN Router!Refused("unrouted") ELSE Router!Routed(map, "map_only")
  <2>0. ~(Router!Cardinality(at) > 1 /\ Router!Cardinality(at) = 1)
        /\ ~(Router!Cardinality(at) > 1 /\ at = {}) /\ ~(Router!Cardinality(at) = 1 /\ at = {})
    BY <1>3, <1>4
  <2>1. CASE Router!Cardinality(routerGateways) = 1
    BY <2>1 DEF Router!resolveGateway
  <2>2. CASE Router!Cardinality(routerGateways) # 1 /\ Router!Cardinality(at) > 1
    <3>1. r = Router!Refused("conflict_channel")
      BY <2>0, <2>2 DEF Router!resolveGateway
    <3> QED
      BY <2>0, <2>2, <3>1
  <2>3. CASE Router!Cardinality(routerGateways) # 1 /\ Router!Cardinality(at) = 1
    <3>1. r = CASE map = None -> Router!Routed(one, "channel_only")
                [] map = one  -> Router!Routed(one, "ok")
                [] OTHER      -> Router!Refused("conflict")
      BY <2>0, <2>3 DEF Router!resolveGateway
    <3>2. one \in routerGateways /\ one # None
      BY <1>2, <1>5, <1>7, <2>3
    <3> HIDE DEF at, map, one, r
    <3>3. /\ map = None => r = Router!Routed(one, "channel_only")
          /\ map # None /\ map = one => r = Router!Routed(one, "ok")
          /\ map # None /\ map # one => r = Router!Refused("conflict")
      BY <3>1, <3>2
    <3> QED
      BY <2>0, <2>3, <3>3
  <2>4. CASE Router!Cardinality(routerGateways) # 1 /\ at = {}
    <3>1. r = IF map = None THEN Router!Refused("unrouted") ELSE Router!Routed(map, "map_only")
      BY <2>0, <2>4 DEF Router!resolveGateway
    <3> QED
      BY <2>0, <2>4, <3>1
  <2>5. \/ Router!Cardinality(routerGateways) = 1
        \/ Router!Cardinality(routerGateways) # 1 /\ Router!Cardinality(at) > 1
        \/ Router!Cardinality(routerGateways) # 1 /\ Router!Cardinality(at) = 1
        \/ Router!Cardinality(routerGateways) # 1 /\ at = {}
    BY <1>3, <1>4
  <2> QED
    BY <2>1, <2>2, <2>3, <2>4, <2>5
<1> HIDE DEF r, at, map, one
<1>9. CASE Router!Cardinality(routerGateways) = 1
  <2>1. r.status = "single" /\ routerGateways = {r.gateway}
    <3> DEFINE only == CHOOSE g \in routerGateways : TRUE
    <3>1. r = Router!Routed(only, "single") /\ routerGateways = {only}
      BY <1>6, <1>8, <1>9
    <3> HIDE DEF only
    <3> QED
      BY <3>1 DEF Router!Routed
  <2> QED
    BY <1>9, <2>1 DEF RouteIs, GoodStatuses, BadStatuses, r, at, map
<1>10. CASE Router!Cardinality(routerGateways) # 1 /\ Router!Cardinality(at) > 1
  <2>1. r.status = "conflict_channel" /\ r.gateway = None
    BY <1>8, <1>10 DEF Router!Routed, Router!Refused
  <2> QED
    BY <1>10, <2>1 DEF RouteIs, GoodStatuses, BadStatuses, r, at, map
<1>11. CASE Router!Cardinality(routerGateways) # 1 /\ Router!Cardinality(at) = 1
  <2>1. at = {one} /\ one \in routerGateways
    BY <1>2, <1>5, <1>11
  <2>2. \/ r.status = "channel_only" /\ r.gateway = one
        \/ r.status = "ok" /\ r.gateway = one /\ map = one
        \/ r.status = "conflict" /\ r.gateway = None
    BY <1>8, <1>11 DEF Router!Routed, Router!Refused
  <2> QED
    BY <1>11, <2>1, <2>2 DEF RouteIs, GoodStatuses, BadStatuses, r, at, map
<1>12. CASE Router!Cardinality(routerGateways) # 1 /\ at = {}
  <2>1. \/ r.status = "unrouted" /\ r.gateway = None
        \/ r.status = "map_only" /\ r.gateway \in routerGateways
    BY <1>1, <1>8, <1>12 DEF Router!Routed, Router!Refused
  <2> QED
    BY <1>12, <2>1 DEF RouteIs, GoodStatuses, BadStatuses, r, at, map
<1> QED
  BY <1>3, <1>4, <1>9, <1>10, <1>11, <1>12

(* So a row can be sent exactly when the page does not call it blocked.     *)
LEMMA RoutesAreKnown ==
    ASSUME Router!ConstantsFit, RouterInv, NEW row \in Router!Rows
    PROVE  /\ Router!Routable(Router!resolveGateway(row)) <=> Router!resolveGateway(row).status \in GoodStatuses
           /\ Router!resolveGateway(row).status \in BadStatuses <=> ~(Router!resolveGateway(row).status \in GoodStatuses)
           /\ Router!Routable(Router!resolveGateway(row)) => Router!resolveGateway(row).gateway \in routerGateways
           /\ ~Router!Routable(Router!resolveGateway(row)) => Router!resolveGateway(row).gateway = None
<1> DEFINE r == Router!resolveGateway(row)
<1>1. /\ r.status \in GoodStatuses => r.gateway \in routerGateways
      /\ r.status \in BadStatuses => r.gateway = None
      /\ r.status \in GoodStatuses \cup BadStatuses
  BY RouteShape DEF RouteIs
<1>2. None \notin routerGateways
  BY DEF Router!ConstantsFit, RouterInv, Typed
<1> HIDE DEF r
<1>3. r.status \in BadStatuses <=> ~(r.status \in GoodStatuses)
  BY <1>1 DEF GoodStatuses, BadStatuses
<1>4. Router!Routable(r) <=> r.status \in GoodStatuses
  BY <1>1, <1>2 DEF Router!Routable, GoodStatuses
<1> QED
  BY <1>1, <1>3, <1>4 DEF r

-----------------------------------------------------------------------------
(* The properties.                                                          *)
LEMMA BuiltWhereItIs == ASSUME Router!ConstantsFit, RouterInv PROVE Router!NeverBuiltElsewhere
<1> SUFFICES ASSUME routerGateways = current, Router!Cardinality(routerGateways) > 1,
                    NEW row \in Router!Rows, row.channel # None, Router!Routable(Router!resolveGateway(row)),
                    NEW other \in routerGateways \ {Router!resolveGateway(row).gateway}
             PROVE  reality[other][row.channel] = 0
  BY DEF Router!NeverBuiltElsewhere
<1> DEFINE r == Router!resolveGateway(row)
           at == Router!ChannelGateways(row.channel)
<1>1. r.status \in GoodStatuses
  BY RoutesAreKnown
<1>2. /\ r.status = "single" => Router!Cardinality(routerGateways) = 1
      /\ r.status \in {"ok", "channel_only"} => at = {r.gateway}
      /\ r.status = "map_only" => at = {}
  BY RouteShape DEF RouteIs
<1>3. IsFiniteSet(routerGateways) /\ Router!Cardinality(routerGateways) \in Nat
  BY FS_CardinalityType, RouterSize DEF RouterInv
<1>4. other \notin at
  <2> HIDE DEF r, at
  <2>1. at = {r.gateway} \/ at = {}
    BY <1>1, <1>2, <1>3 DEF GoodStatuses
  <2> QED
    BY <2>1 DEF r
<1>5. row.channel \in Channels /\ other \in current
  BY DEF Router!Rows
<1>6. routerCache[other][row.channel] \in 0..3 /\ ~(routerCache[other][row.channel] > 0)
  BY <1>4, <1>5 DEF Router!ChannelGateways, RouterInv, Typed
<1>7. routerCache[other][row.channel] = 0 <=> reality[other][row.channel] = 0
  BY <1>5 DEF RouterInv, Faithful
<1> QED
  BY <1>6, <1>7

(* What is derived for a row.                                               *)
LEMMA DerivedParts ==
    ASSUME NEW sel, NEW row
    PROVE  /\ Router!Derive(sel, row).route = Router!resolveGateway(row)
           /\ Router!Derive(sel, row).validation = Router!Validation(sel, row)
  BY DEF Router!Derive

LEMMA BlockedIsUnroutable ==
    ASSUME Router!ConstantsFit, RouterInv, NEW sel, NEW row \in Router!Rows
    PROVE  Router!routeBlocked(Router!Derive(sel, row)) <=> ~Router!Routable(Router!resolveGateway(row))
<1>1. Router!Derive(sel, row).route = Router!resolveGateway(row)
  BY DerivedParts
<1>2. Router!routeBlocked(Router!Derive(sel, row)) <=> Router!resolveGateway(row).status \in BadStatuses
  BY <1>1 DEF Router!routeBlocked, BadStatuses
<1> QED
  BY <1>2, RoutesAreKnown

LEMMA MarksAreTrue == ASSUME Router!ConstantsFit, RouterInv PROVE Router!MarksAreAboutTheTarget
<1> SUFFICES ASSUME NEW sel \in routerGateways \cup {None}, NEW row \in Router!Rows,
                    ~Router!routeBlocked(Router!Derive(sel, row)), ~Router!rowSkipped(sel, Router!Derive(sel, row)),
                    Router!Derive(sel, row).route.gateway \in current
             PROVE  /\ Router!rowStatus(Router!Derive(sel, row)) = "ok" =>
                         row.channel # None /\ reality[Router!Derive(sel, row).route.gateway][row.channel] = 3
                    /\ Router!rowStatus(Router!Derive(sel, row)) = "add" =>
                         row.channel # None /\ reality[Router!Derive(sel, row).route.gateway][row.channel] >= 2
  BY DEF Router!MarksAreAboutTheTarget
<1> DEFINE g == Router!Derive(sel, row).route.gateway
           v == Router!Derive(sel, row).validation
<1>1. g = Router!resolveGateway(row).gateway /\ v = Router!Validation(sel, row)
  BY DerivedParts
<1>2. g \in routerGateways /\ g # None /\ g \in Gateways
  <2>1. None \notin routerGateways /\ routerGateways \subseteq Gateways
    BY DEF Router!ConstantsFit, RouterInv, Typed
  <2>2. Router!Routable(Router!resolveGateway(row))
    BY BlockedIsUnroutable
  <2> QED
    BY <1>1, <2>1, <2>2, RoutesAreKnown
<1>3. sel # None => sel = g
  BY DEF Router!rowSkipped
<1>4. v = IF row.channel = None THEN 0 ELSE routerCache[g][row.channel]
  <2> HIDE DEF g
  <2>1. (IF sel # None THEN sel ELSE Router!resolveGateway(row).gateway) = g
    BY <1>1, <1>3
  <2>2. CASE row.channel = None
    BY <1>1, <1>2, <2>1, <2>2 DEF Router!Validation
  <2>3. CASE row.channel # None
    BY <1>1, <1>2, <2>1, <2>3 DEF Router!Validation
  <2> QED
    BY <2>2, <2>3
<1>5. /\ Router!rowStatus(Router!Derive(sel, row)) = "ok" => v = 3
      /\ Router!rowStatus(Router!Derive(sel, row)) = "add" => v = 2
  <2> HIDE DEF v
  <2>1. Router!rowStatus(Router!Derive(sel, row)) = CASE v = 3 -> "ok" [] v = 2 -> "add" [] OTHER -> "warn"
    BY DEF Router!rowStatus, v
  <2>2. CASE v = 3
    BY <2>1, <2>2
  <2>3. CASE v = 2
    BY <2>1, <2>3
  <2>4. CASE v # 3 /\ v # 2
    BY <2>1, <2>4
  <2> QED
    BY <2>2, <2>3, <2>4
<1>6. row.channel \in Channels \cup {None}
  BY DEF Router!Rows
<1> HIDE DEF g, v
<1>7. row.channel # None => /\ routerCache[g][row.channel] <= reality[g][row.channel]
                            /\ routerCache[g][row.channel] \in 0..3
                            /\ reality[g][row.channel] \in 0..3
  BY <1>2, <1>6 DEF RouterInv, Typed, Faithful, g
<1>8. v = 3 => row.channel # None /\ reality[g][row.channel] = 3
  BY <1>4, <1>7
<1>9. v = 2 => row.channel # None /\ reality[g][row.channel] >= 2
  BY <1>4, <1>7
<1> QED
  BY <1>5, <1>8, <1>9 DEF g

(* A row that the page sends is one of those of the plan, and so on.        *)
LEMMA SummaryIsPlanned == ASSUME Router!ConstantsFit, RouterInv PROVE Router!SummaryIsThePlan
<1> SUFFICES ASSUME NEW sel \in routerGateways \cup {None}, NEW batch \in Router!Batches
             PROVE  LET s == Router!routeSummary(sel, batch)
                        p == Router!PlanGatewayParts(sel, batch)
                    IN  IF p = Router!NoPlan THEN s.willSend = 0
                        ELSE /\ s.willSend = Router!Cardinality(UNION {q.rows : q \in p.parts})
                             /\ s.blocked = p.blocked
                             /\ s.skipOther = p.other
  BY DEF Router!SummaryIsThePlan
<1> DEFINE s == Router!routeSummary(sel, batch)
           p == Router!PlanGatewayParts(sel, batch)
           routable == {r \in batch : Router!Routable(Router!resolveGateway(r))}
           to(g) == {r \in routable : Router!resolveGateway(r).gateway = g}
           mine == IF sel = None THEN routerGateways ELSE {sel}
           parts == {[gateway |-> g, rows |-> to(g)] : g \in {h \in mine : to(h) # {}}}
           sent == UNION {q.rows : q \in parts}
           blocked == {row \in batch : Router!routeBlocked(Router!Derive(sel, row))}
           skip == {row \in batch : Router!rowSkipped(sel, Router!Derive(sel, row))}
           will == {row \in batch : ~Router!routeBlocked(Router!Derive(sel, row)) /\ ~Router!rowSkipped(sel, Router!Derive(sel, row))}
<1>0. batch \subseteq Router!Rows
  BY DEF Router!Batches
<1>1. /\ s.blocked = Router!Cardinality(blocked)
      /\ s.skipOther = Router!Cardinality(skip)
      /\ s.willSend = Router!Cardinality(will)
  BY DEF Router!routeSummary
<1>2. p = IF sel \notin routerGateways \cup {None} \/ routerGateways = {} \/ parts = {} THEN Router!NoPlan
          ELSE [parts |-> parts, blocked |-> Router!Cardinality(batch \ routable),
                other |-> Router!Cardinality(routable \ sent)]
  BY DEF Router!PlanGatewayParts
<1>3. ASSUME NEW row \in batch
      PROVE  /\ Router!routeBlocked(Router!Derive(sel, row)) <=> ~Router!Routable(Router!resolveGateway(row))
             /\ Router!Routable(Router!resolveGateway(row)) => Router!resolveGateway(row).gateway \in routerGateways
             /\ Router!rowSkipped(sel, Router!Derive(sel, row)) <=>
                   sel # None /\ Router!Routable(Router!resolveGateway(row)) /\ Router!resolveGateway(row).gateway # sel
  <2>1. /\ Router!routeBlocked(Router!Derive(sel, row)) <=> ~Router!Routable(Router!resolveGateway(row))
        /\ Router!Routable(Router!resolveGateway(row)) => Router!resolveGateway(row).gateway \in routerGateways
    BY <1>0, BlockedIsUnroutable, RoutesAreKnown
  <2>2. Router!Derive(sel, row).route = Router!resolveGateway(row)
    BY DerivedParts
  <2> QED
    BY <2>1, <2>2 DEF Router!rowSkipped
<1>4. \A row : row \in sent <=> row \in routable /\ Router!resolveGateway(row).gateway \in mine
  <2>1. ASSUME NEW row \in sent
        PROVE  row \in routable /\ Router!resolveGateway(row).gateway \in mine
    <3>1. PICK q \in parts : row \in q.rows
      OBVIOUS
    <3>2. PICK g \in mine : q = [gateway |-> g, rows |-> to(g)]
      BY <3>1
    <3> QED
      BY <3>1, <3>2
  <2>2. ASSUME NEW row \in routable, Router!resolveGateway(row).gateway \in mine
        PROVE  row \in sent
    <3> DEFINE g == Router!resolveGateway(row).gateway
               q == [gateway |-> g, rows |-> to(g)]
    <3>1. row \in to(g) /\ g \in {h \in mine : to(h) # {}}
      BY <2>2
    <3>2. q \in parts /\ row \in q.rows
      BY <3>1
    <3> QED
      BY <3>2
  <2> QED
    BY <2>1, <2>2
<1> HIDE DEF s, p, parts, to
<1>5. will = sent /\ blocked = batch \ routable /\ skip = routable \ sent
  <2>1. \A row \in routable : row \in batch /\ Router!resolveGateway(row).gateway \in routerGateways
    BY <1>3
  <2>2. blocked = batch \ routable
    BY <1>3
  <2>3. \A row : row \in will <=> row \in routable /\ Router!resolveGateway(row).gateway \in mine
    BY <1>3
  <2>4. \A row : row \in skip <=> row \in routable /\ ~(Router!resolveGateway(row).gateway \in mine)
    BY <1>3
  <2> HIDE DEF will, sent, skip, routable, mine
  <2>5. will = sent
    BY <1>4, <2>3
  <2>6. skip = routable \ sent
    BY <1>4, <2>4
  <2> QED
    BY <2>2, <2>5, <2>6 DEF routable
<1>6. p = Router!NoPlan => s.willSend = 0
  <2>1. ASSUME p = Router!NoPlan PROVE parts = {} \/ routerGateways = {}
    <3>1. Router!NoPlan.parts = {}
      BY DEF Router!NoPlan
    <3> QED
      BY <1>2, <2>1, <3>1
  <2>2. routerGateways = {} => will = {}
    BY <1>3
  <2>3. parts = {} => sent = {}
    OBVIOUS
  <2>4. p = Router!NoPlan => will = {}
    BY <1>5, <2>1, <2>2, <2>3
  <2>5. Router!Cardinality({}) = 0
    BY FS_EmptySet, RouterSize
  <2> HIDE DEF will
  <2> QED
    BY <1>1, <2>4, <2>5
<1>7. p # Router!NoPlan => /\ p.parts = parts /\ p.blocked = Router!Cardinality(batch \ routable)
                    /\ p.other = Router!Cardinality(routable \ sent)
  BY <1>2
<1>8. p # Router!NoPlan => /\ s.willSend = Router!Cardinality(UNION {q.rows : q \in p.parts})
                    /\ s.blocked = p.blocked
                    /\ s.skipOther = p.other
  <2>1. p # Router!NoPlan => Router!Cardinality(UNION {q.rows : q \in p.parts}) = Router!Cardinality(will)
    BY <1>5, <1>7
  <2> HIDE DEF will, skip, blocked, sent, routable
  <2> QED
    BY <1>1, <1>5, <1>7, <2>1
<1> QED
  BY <1>6, <1>8 DEF s, p

LEMMA BadgesAreTrue == ASSUME Router!ConstantsFit, RouterInv PROVE Router!BadgeIsTrue
<1> SUFFICES ASSUME NEW row \in Router!Rows
             PROVE  LET r == Router!Derive(None, row)
                        b == Router!routeBadge(r)
                    IN  /\ (b = "blocked") = ~Router!Routable(Router!resolveGateway(row))
                        /\ b = "ok" => /\ Router!ChannelGateways(row.channel) = {r.route.gateway}
                                       /\ Router!LookupMap(row.site, Router!ZoneOf(row)) = r.route.gateway
                        /\ b = "none" => routerGateways = {r.route.gateway}
  BY DEF Router!BadgeIsTrue
<1> DEFINE r == Router!Derive(None, row)
           b == Router!routeBadge(r)
           at == Router!ChannelGateways(row.channel)
           map == Router!LookupMap(row.site, Router!ZoneOf(row))
<1>1. r.route = Router!resolveGateway(row)
  BY DerivedParts
<1>2. /\ r.route.status \in GoodStatuses \cup BadStatuses
      /\ r.route.status = "single" => routerGateways = {r.route.gateway}
      /\ r.route.status \in {"ok", "channel_only"} => at = {r.route.gateway}
      /\ r.route.status = "ok" => map = r.route.gateway
  BY <1>1, RouteShape DEF RouteIs
<1>3. Router!routeBlocked(r) <=> ~Router!Routable(Router!resolveGateway(row))
  BY BlockedIsUnroutable
<1>4. Router!routeBlocked(r) <=> r.route.status \in BadStatuses
  BY DEF Router!routeBlocked, BadStatuses
<1> HIDE DEF r, at, map
<1>5. /\ b = "blocked" <=> Router!routeBlocked(r)
      /\ b = "ok" <=> r.route.status = "ok"
      /\ b = "none" => r.route.status = "single"
  <2>1. CASE r.route.status = "ok"
    BY <1>4, <2>1 DEF Router!routeBadge, BadStatuses
  <2>2. CASE r.route.status \in {"channel_only", "map_only"}
    BY <1>4, <2>2 DEF Router!routeBadge, BadStatuses
  <2>3. CASE r.route.status \in BadStatuses
    BY <1>4, <2>3 DEF Router!routeBadge, BadStatuses
  <2>4. CASE r.route.status = "single"
    BY <1>4, <2>4 DEF Router!routeBadge, BadStatuses
  <2> QED
    BY <1>2, <2>1, <2>2, <2>3, <2>4 DEF GoodStatuses
<1> HIDE DEF b
<1>6. (b = "blocked") = ~Router!Routable(Router!resolveGateway(row))
  BY <1>3, <1>5
<1> QED
  BY <1>2, <1>5, <1>6 DEF r, b, at, map

LEMMA UnmappedSitesAreTrue == ASSUME Router!ConstantsFit, RouterInv PROVE Router!UnmappedMeansNoGateway
<1> SUFFICES ASSUME NEW i \in DOMAIN locations
             PROVE  locations[i].site \in Router!UnmappedSites <=>
                      Router!LookupMap(locations[i].site, Router!ZoneOf([channel |-> None, site |-> locations[i].site])) = None
  BY DEF Router!UnmappedMeansNoGateway
<1> DEFINE place == locations[i].site
           zone == Router!FirstZone(place)
<1>1. place \in Sites /\ place # None
  <2>1. locations \in Seq(Places) /\ i \in 1 .. Len(locations)
    BY LenProperties DEF RouterInv, Typed
  <2>2. locations[i] \in Places
    BY <2>1, ElementOfSeq
  <2> QED
    BY <2>2 DEF Places, Router!ConstantsFit
<1>2. Router!ZoneOf([channel |-> None, site |-> place]) = zone
  BY DEF Router!ZoneOf
<1>3. place \in Router!UnmappedSites <=> siteMap[place] = None /\ (zone = None \/ zoneMap[zone] = None)
  BY <1>1 DEF Router!UnmappedSites
<1> HIDE DEF place, zone
<1>4. Router!LookupMap(place, zone) = None <=> siteMap[place] = None /\ (zone = None \/ zoneMap[zone] = None)
  <2>1. CASE siteMap[place] # None
    BY <1>1, <2>1 DEF Router!LookupMap
  <2>2. CASE siteMap[place] = None /\ zone # None /\ zoneMap[zone] # None
    BY <1>1, <2>2 DEF Router!LookupMap
  <2>3. CASE siteMap[place] = None /\ (zone = None \/ zoneMap[zone] = None)
    BY <1>1, <2>3 DEF Router!LookupMap
  <2> QED
    BY <2>1, <2>2, <2>3
<1> QED
  BY <1>2, <1>3, <1>4 DEF place

LEMMA RouterIsKept == PartsSpec => [](view = "router" => RouterInv)
<1> DEFINE Kept == view = "router" => RouterInv
<1>1. PartsInit => Kept
  BY PartInits, RouterInit, EveryConstantFits
<1>2. ASSUME Kept, [PartsNext]_allVars PROVE Kept'
  <2>1. CASE view = "router"
    <3>1. RouterInv /\ [Router!Next]_(Router!vars)
      BY <1>2, <2>1, PartSteps
    <3>2. RouterInv'
      BY <3>1, RouterStep, EveryConstantFits
    <3> QED
      BY <3>2
  <2>2. CASE view # "router"
    BY <1>2, <2>2, PartSteps
  <2> QED
    BY <2>1, <2>2
<1> HIDE DEF Kept
<1>3. PartsSpec => []Kept
  BY <1>1, <1>2, PTL DEF PartsSpec
<1> QED
  BY <1>3, PTL DEF Kept

(* A row that is sent goes to the gateway that has its channel, and the mark *)
(* the page shows is about that gateway - for any gateways, channels, sites *)
(* and zones, whatever was synced in part or changed since.                 *)
THEOREM RowsGoWhereTheirChannelIs ==
    /\ PartsSpec => []RoutesAreSafe
    /\ Router!Spec => []Router!RoutesAreSafe
<1>1. (view = "router" => RouterInv) => RoutesAreSafe
  BY BuiltWhereItIs, MarksAreTrue, EveryConstantFits DEF RoutesAreSafe, Router!RoutesAreSafe
<1>2. PartsSpec => []RoutesAreSafe
  BY <1>1, RouterIsKept, PTL
<1>3. Router!Init => RouterInv
  BY RouterInit, EveryConstantFits
<1>4. RouterInv /\ [Router!Next]_(Router!vars) => RouterInv'
  BY RouterStep, EveryConstantFits
<1>5. RouterInv => Router!RoutesAreSafe
  BY BuiltWhereItIs, MarksAreTrue, EveryConstantFits DEF Router!RoutesAreSafe
<1>6. Router!Spec => []Router!RoutesAreSafe
  BY <1>3, <1>4, <1>5, PTL DEF Router!Spec
<1> QED
  BY <1>2, <1>6

(* What the page counts as sent, blocked and skipped is what the server     *)
(* plans, its badges say how the route was found, and the sites listed as   *)
(* not mapped are those for which the map has no gateway.                   *)
THEOREM PageCountsWhatIsPlanned ==
    /\ PartsSpec => []PlansAgree
    /\ Router!Spec => []Router!PlansAgree
<1>1. (view = "router" => RouterInv) => PlansAgree
  BY SummaryIsPlanned, BadgesAreTrue, UnmappedSitesAreTrue, EveryConstantFits
  DEF PlansAgree, Router!PlansAgree
<1>2. PartsSpec => []PlansAgree
  BY <1>1, RouterIsKept, PTL
<1>3. Router!Init => RouterInv
  BY RouterInit, EveryConstantFits
<1>4. RouterInv /\ [Router!Next]_(Router!vars) => RouterInv'
  BY RouterStep, EveryConstantFits
<1>5. RouterInv => Router!PlansAgree
  BY SummaryIsPlanned, BadgesAreTrue, UnmappedSitesAreTrue, EveryConstantFits DEF Router!PlansAgree
<1>6. Router!Spec => []Router!PlansAgree
  BY <1>3, <1>4, <1>5, PTL DEF Router!Spec
<1> QED
  BY <1>2, <1>6

-----------------------------------------------------------------------------
(* BrowserForms *)

LEMMA FormsSize == \A S : Forms!Cardinality(S) = Cardinality(S)
  BY DEF Forms!Cardinality, Cardinality

(* What the form for a gateway holds belongs to the gateway it was opened   *)
(* for, or the form is for a new one; and a request takes that with it.     *)
FormIsOfOne ==
    gwForm.editing # Forms!Null => /\ formsGateways[gwForm.editing] # Forms!Null
                             /\ gwForm.of = gwForm.editing
                             /\ gwForm.secret \in {Forms!Null, gwForm.editing}

RequestIsOfOne ==
    \A s \in Slots : formsReq[s].kind = "gateway" =>
        /\ formsReq[s].name \in Names
        /\ formsReq[s].to # Forms!Null => formsReq[s].of = formsReq[s].to /\ formsReq[s].secret \in {Forms!Null, formsReq[s].to}

(* The table: unique names, and a mark on one row at the most.              *)
TableIsSound ==
    /\ formsGateways \in [Forms!Ids -> Names \cup {Forms!Null, Forms!Gone}]
    /\ \A g \in defaults : Forms!Exists(g)
    /\ \A g, h \in defaults : g = h
    /\ Forms!NamesAreUnique

FormsTyped ==
    /\ token \in BOOLEAN /\ formsEpoch \in 0..MaxLogouts
    /\ gwForm \in Forms!GatewayFormType /\ form \in [SmallForms -> Forms!FormType]
    /\ formsReq \in [Slots -> Forms!ReqType]

FormsInv == FormsTyped /\ TableIsSound /\ FormIsOfOne /\ RequestIsOfOne

LEMMA NamesAreNames ==
    ASSUME Forms!ConstantsFit
    PROVE  Forms!Null \notin Names /\ Forms!Gone \notin Names /\ Forms!Null # Forms!Gone /\ Forms!Null \notin Forms!Ids
           /\ "gateway" \notin SmallForms /\ "none" \notin SmallForms
  BY DEF Forms!ConstantsFit, Forms!Null, Forms!Gone, Forms!Ids

LEMMA FormsInit == Forms!ConstantsFit /\ Forms!Init => FormsInv
<1> SUFFICES ASSUME Forms!ConstantsFit, Forms!Init PROVE FormsInv
  OBVIOUS
<1>1. gwForm \in Forms!GatewayFormType /\ gwForm.editing = Forms!Null
  BY DEF Forms!Init, Forms!BlankGateway, Forms!GatewayFormType
<1>2. form \in [SmallForms -> Forms!FormType]
  BY DEF Forms!Init, Forms!BlankForm, Forms!FormType
<1>3. formsReq \in [Slots -> Forms!ReqType] /\ \A s \in Slots : formsReq[s].kind = "none"
  BY DEF Forms!Init, Forms!NoReq, Forms!ReqType
<1>4. token \in BOOLEAN
  BY DEF Forms!Init
<1>5. formsEpoch \in 0..MaxLogouts
  BY DEF Forms!Init, Forms!ConstantsFit
<1>6. TableIsSound
  <2>1. /\ formsGateways \in [Forms!Ids -> Names \cup {Forms!Null, Forms!Gone}] /\ defaults = {}
        /\ \A g \in Forms!Ids : formsGateways[g] = Forms!Null
    BY DEF Forms!Init
  <2>2. Forms!NamesAreUnique
    BY <2>1, NamesAreNames DEF Forms!NamesAreUnique, Forms!Exists
  <2> QED
    BY <2>1, <2>2 DEF TableIsSound
<1>7. FormIsOfOne
  BY <1>1 DEF FormIsOfOne
<1>8. RequestIsOfOne
  BY <1>3 DEF RequestIsOfOne
<1> QED
  BY <1>1, <1>2, <1>3, <1>4, <1>5, <1>6, <1>7, <1>8 DEF FormsInv, FormsTyped

(* The form for a gateway, by what is put in it.                            *)
LEMMA InputStep ==
    ASSUME Forms!ConstantsFit, FormsInv, NEW f \in Forms!GatewayFormType, Forms!Input(f),
           f.editing # Forms!Null => /\ formsGateways[f.editing] # Forms!Null
                               /\ f.of = f.editing
                               /\ f.secret \in {Forms!Null, f.editing}
    PROVE  FormsInv'
<1>1. gwForm' = f /\ UNCHANGED <<formsGateways, defaults, token, formsEpoch, form, formsReq>>
  BY DEF Forms!Input
<1>2. FormsTyped'
  BY <1>1 DEF FormsInv, FormsTyped
<1>3. TableIsSound' /\ RequestIsOfOne'
  BY <1>1 DEF FormsInv, TableIsSound, RequestIsOfOne, Forms!NamesAreUnique, Forms!Exists
<1>4. FormIsOfOne'
  BY <1>1 DEF FormIsOfOne
<1> QED
  BY <1>2, <1>3, <1>4 DEF FormsInv

LEMMA FieldsStep ==
    ASSUME Forms!ConstantsFit, FormsInv,
           \/ Forms!openNewGateway \/ Forms!closeGateway \/ Forms!TickDefault \/ Forms!TypePassword
           \/ \E n \in Names : Forms!TypeName(n)
           \/ \E g \in Forms!Ids : Forms!editGw(g)
    PROVE  FormsInv'
<1>0. gwForm \in Forms!GatewayFormType /\ FormIsOfOne
  BY DEF FormsInv, FormsTyped
<1>1. CASE Forms!openNewGateway
  <2> DEFINE f == [gwForm EXCEPT !.show = TRUE, !.editing = Forms!Null]
  <2>1. f \in Forms!GatewayFormType /\ f.editing = Forms!Null
    BY <1>0 DEF Forms!GatewayFormType
  <2>2. Forms!Input(f)
    BY <1>1 DEF Forms!openNewGateway
  <2> HIDE DEF f
  <2> QED
    BY <2>1, <2>2, InputStep
<1>2. CASE Forms!closeGateway
  <2> DEFINE f == [gwForm EXCEPT !.show = FALSE]
  <2>1. f \in Forms!GatewayFormType /\ f.editing = gwForm.editing /\ f.of = gwForm.of /\ f.secret = gwForm.secret
    BY <1>0 DEF Forms!GatewayFormType
  <2>2. Forms!Input(f)
    BY <1>2 DEF Forms!closeGateway
  <2> HIDE DEF f
  <2> QED
    BY <1>0, <2>1, <2>2, InputStep DEF FormIsOfOne
<1>3. CASE Forms!TickDefault
  <2> DEFINE f == [gwForm EXCEPT !.default = ~@]
  <2>1. f \in Forms!GatewayFormType /\ f.editing = gwForm.editing /\ f.of = gwForm.of /\ f.secret = gwForm.secret
    BY <1>0 DEF Forms!GatewayFormType
  <2>2. Forms!Input(f)
    BY <1>3 DEF Forms!TickDefault
  <2> HIDE DEF f
  <2> QED
    BY <1>0, <2>1, <2>2, InputStep DEF FormIsOfOne
<1>4. CASE Forms!TypePassword
  <2> DEFINE f == [gwForm EXCEPT !.secret = IF gwForm.editing = Forms!Null THEN Forms!New ELSE gwForm.editing]
  <2>1. /\ f \in Forms!GatewayFormType /\ f.editing = gwForm.editing /\ f.of = gwForm.of
        /\ gwForm.editing # Forms!Null => f.secret = gwForm.editing
    BY <1>0 DEF Forms!GatewayFormType
  <2>2. Forms!Input(f)
    BY <1>4 DEF Forms!TypePassword
  <2> HIDE DEF f
  <2> QED
    BY <1>0, <2>1, <2>2, InputStep DEF FormIsOfOne
<1>5. ASSUME NEW n \in Names, Forms!TypeName(n) PROVE FormsInv'
  <2> DEFINE f == [gwForm EXCEPT !.name = n]
  <2>1. f \in Forms!GatewayFormType /\ f.editing = gwForm.editing /\ f.of = gwForm.of /\ f.secret = gwForm.secret
    BY <1>0 DEF Forms!GatewayFormType
  <2>2. Forms!Input(f)
    BY <1>5 DEF Forms!TypeName
  <2> HIDE DEF f
  <2> QED
    BY <1>0, <2>1, <2>2, InputStep DEF FormIsOfOne
<1>6. ASSUME NEW g \in Forms!Ids, Forms!editGw(g) PROVE FormsInv'
  <2> DEFINE marked == g \in defaults
             f == [Forms!BlankGateway EXCEPT !.show = TRUE, !.editing = g, !.name = formsGateways[g], !.of = g,
                                       !.default = marked]
  <2>1. formsGateways[g] \in Names /\ Forms!Exists(g)
    BY <1>6 DEF Forms!editGw, Forms!Exists
  <2>2. marked \in BOOLEAN
    OBVIOUS
  <2>3. Forms!Input(f)
    BY <1>6 DEF Forms!editGw
  <2> HIDE DEF marked
  <2>4. f.editing = g /\ f.of = g /\ f.secret = Forms!Null
    BY DEF Forms!BlankGateway
  <2>5. f \in Forms!GatewayFormType
    <3>1. Forms!BlankGateway \in Forms!GatewayFormType
      BY DEF Forms!BlankGateway, Forms!GatewayFormType
    <3> QED
      BY <2>1, <2>2, <3>1 DEF Forms!GatewayFormType
  <2> HIDE DEF f
  <2> QED
    BY <2>1, <2>3, <2>4, <2>5, InputStep, NamesAreNames
<1> QED
  BY <1>1, <1>2, <1>3, <1>4, <1>5, <1>6

(* The table, by the row that is written or given up.                       *)
LEMMA WriteStep ==
    ASSUME Forms!ConstantsFit, FormsInv, NEW s \in Slots, NEW g \in Forms!Ids, Forms!Write(s, g),
           formsReq[s].kind = "gateway", formsReq[s].to \in {Forms!Null, g}, ~Forms!Taken(s),
           formsReq[s].to = Forms!Null => formsGateways[g] = Forms!Null
    PROVE  FormsInv'
<1>0. FormsTyped /\ TableIsSound /\ FormIsOfOne /\ RequestIsOfOne
  BY DEF FormsInv
<1>1. /\ formsGateways' = [formsGateways EXCEPT ![g] = formsReq[s].name]
      /\ defaults' = IF formsReq[s].default THEN {g} ELSE defaults \ {g}
      /\ formsReq' = [formsReq EXCEPT ![s].state = "ok"]
      /\ UNCHANGED <<token, formsEpoch, gwForm, form>>
  BY DEF Forms!Write
<1>2. formsReq[s].name \in Names /\ formsReq[s] \in Forms!ReqType
  BY <1>0 DEF RequestIsOfOne, FormsTyped
<1>3. /\ formsGateways' \in [Forms!Ids -> Names \cup {Forms!Null, Forms!Gone}]
      /\ formsGateways'[g] = formsReq[s].name
      /\ \A h \in Forms!Ids : h # g => formsGateways'[h] = formsGateways[h]
  BY <1>0, <1>1, <1>2 DEF TableIsSound
<1>4. \A h \in Forms!Ids : h # g => formsGateways[h] # formsReq[s].name
  BY NamesAreNames DEF Forms!Taken
<1>5. TableIsSound'
  <2>1. Forms!NamesAreUnique'
    BY <1>0, <1>3, <1>4 DEF TableIsSound, Forms!NamesAreUnique, Forms!Exists
  <2>2. \A h \in defaults' : Forms!Exists(h)'
    <3> SUFFICES ASSUME NEW h \in defaults' PROVE h \in Forms!Ids /\ formsGateways'[h] \in Names
      BY DEF Forms!Exists
    <3>1. CASE h = g
      BY <1>2, <1>3, <3>1
    <3>2. CASE h # g
      BY <1>0, <1>1, <1>3, <3>2 DEF TableIsSound, Forms!Exists
    <3> QED
      BY <3>1, <3>2
  <2>3. \A h, k \in defaults' : h = k
    BY <1>0, <1>1 DEF TableIsSound
  <2> QED
    BY <1>3, <2>1, <2>2, <2>3 DEF TableIsSound
<1>6. /\ formsReq' \in [Slots -> Forms!ReqType]
      /\ \A t \in Slots : /\ formsReq'[t].kind = formsReq[t].kind /\ formsReq'[t].to = formsReq[t].to /\ formsReq'[t].of = formsReq[t].of
                          /\ formsReq'[t].name = formsReq[t].name /\ formsReq'[t].secret = formsReq[t].secret
  <2>1. [formsReq[s] EXCEPT !.state = "ok"] \in Forms!ReqType
    BY <1>2 DEF Forms!ReqType
  <2>2. formsReq' = [formsReq EXCEPT ![s] = [formsReq[s] EXCEPT !.state = "ok"]]
    BY <1>1
  <2>3. formsReq' \in [Slots -> Forms!ReqType]
    BY <1>0, <2>1, <2>2 DEF FormsTyped
  <2>4. ASSUME NEW t \in Slots
        PROVE  /\ formsReq'[t].kind = formsReq[t].kind /\ formsReq'[t].to = formsReq[t].to /\ formsReq'[t].of = formsReq[t].of
               /\ formsReq'[t].name = formsReq[t].name /\ formsReq'[t].secret = formsReq[t].secret
    <3>1. formsReq[t] \in Forms!ReqType
      BY <1>0 DEF FormsTyped
    <3>2. formsReq'[t] = IF t = s THEN [formsReq[s] EXCEPT !.state = "ok"] ELSE formsReq[t]
      BY <1>0, <2>2 DEF FormsTyped
    <3> QED
      BY <3>1, <3>2 DEF Forms!ReqType
  <2> QED
    BY <2>3, <2>4
<1>7. FormsTyped'
  BY <1>0, <1>1, <1>6 DEF FormsTyped
<1>8. RequestIsOfOne'
  BY <1>0, <1>6 DEF RequestIsOfOne
<1>9. FormIsOfOne'
  BY <1>0, <1>1, <1>2, <1>3, NamesAreNames DEF FormIsOfOne, FormsTyped, Forms!GatewayFormType
<1> QED
  BY <1>5, <1>7, <1>8, <1>9 DEF FormsInv

(* A request that ends, or is refused: the table stays, but perhaps without *)
(* a mark.                                                                  *)
LEMMA RequestStep ==
    ASSUME Forms!ConstantsFit, FormsInv, NEW s \in Slots,
           UNCHANGED <<formsGateways, token, formsEpoch, form>>, defaults' \subseteq defaults,
           gwForm' \in {gwForm, Forms!BlankGateway},
           \/ formsReq' = [formsReq EXCEPT ![s] = Forms!NoReq]
           \/ formsReq' = [formsReq EXCEPT ![s].state = "refused"]
    PROVE  FormsInv'
<1>0. FormsTyped /\ TableIsSound /\ FormIsOfOne /\ RequestIsOfOne
  BY DEF FormsInv
<1>1. formsReq[s] \in Forms!ReqType
  BY <1>0 DEF FormsTyped
<1>2. PICK r \in {Forms!NoReq, [formsReq[s] EXCEPT !.state = "refused"]} : formsReq' = [formsReq EXCEPT ![s] = r]
  OBVIOUS
<1>3. /\ r \in Forms!ReqType
      /\ r.kind = "none" \/ /\ r.kind = formsReq[s].kind /\ r.to = formsReq[s].to /\ r.of = formsReq[s].of
                            /\ r.name = formsReq[s].name /\ r.secret = formsReq[s].secret
  <2>1. CASE r = Forms!NoReq
    BY <2>1 DEF Forms!ReqType, Forms!NoReq
  <2>2. CASE r = [formsReq[s] EXCEPT !.state = "refused"]
    BY <1>1, <2>2 DEF Forms!ReqType
  <2> QED
    BY <2>1, <2>2
<1>4. /\ formsReq' \in [Slots -> Forms!ReqType]
      /\ \A t \in Slots : formsReq'[t] = IF t = s THEN r ELSE formsReq[t]
  BY <1>0, <1>2, <1>3 DEF FormsTyped
<1>5. RequestIsOfOne'
  <2> SUFFICES ASSUME NEW t \in Slots, formsReq'[t].kind = "gateway"
               PROVE  /\ formsReq'[t].name \in Names
                      /\ formsReq'[t].to # Forms!Null => formsReq'[t].of = formsReq'[t].to /\ formsReq'[t].secret \in {Forms!Null, formsReq'[t].to}
    BY DEF RequestIsOfOne
  <2>1. CASE t = s
    BY <1>0, <1>3, <1>4, <2>1 DEF RequestIsOfOne
  <2>2. CASE t # s
    BY <1>0, <1>4, <2>2 DEF RequestIsOfOne
  <2> QED
    BY <2>1, <2>2
<1>6. Forms!BlankGateway \in Forms!GatewayFormType /\ Forms!BlankGateway.editing = Forms!Null
  BY DEF Forms!BlankGateway, Forms!GatewayFormType
<1>7. FormsTyped'
  BY <1>0, <1>4, <1>6 DEF FormsTyped
<1>8. FormIsOfOne'
  <2>1. gwForm' = gwForm \/ gwForm'.editing = Forms!Null
    BY <1>6
  <2> QED
    BY <1>0, <2>1 DEF FormIsOfOne
<1>9. TableIsSound'
  BY <1>0 DEF TableIsSound, Forms!NamesAreUnique, Forms!Exists
<1> QED
  BY <1>5, <1>7, <1>8, <1>9 DEF FormsInv

LEMMA AnswersStep ==
    ASSUME Forms!ConstantsFit, FormsInv, NEW s \in Slots,
           Forms!Create(s) \/ Forms!Update(s) \/ Forms!GatewaySaved(s) \/ Forms!GatewayFails(s)
    PROVE  FormsInv'
<1>0. FormsTyped /\ TableIsSound /\ FormIsOfOne /\ RequestIsOfOne
  BY DEF FormsInv
<1>1. CASE Forms!Create(s)
  <2>1. formsReq[s].kind = "gateway" /\ formsReq[s].to = Forms!Null
    BY <1>1 DEF Forms!Create, Forms!Asked
  <2>2. CASE ~Forms!Taken(s)
    <3>1. PICK g \in Forms!Ids : formsGateways[g] = Forms!Null /\ Forms!Write(s, g)
      BY <1>1, <2>2 DEF Forms!Create
    <3> QED
      BY <2>1, <2>2, <3>1, WriteStep
  <2>3. CASE Forms!Taken(s)
    <3>1. UNCHANGED <<formsGateways, defaults>> /\ Forms!Refuse(s)
      BY <1>1, <2>3 DEF Forms!Create
    <3> QED
      BY <3>1, RequestStep DEF Forms!Refuse
  <2> QED
    BY <2>2, <2>3
<1>2. CASE Forms!Update(s)
  <2>1. /\ formsReq[s].kind = "gateway" /\ formsReq[s].to # Forms!Null
        /\ \/ Forms!Exists(formsReq[s].to) /\ ~Forms!Taken(s) /\ Forms!Write(s, formsReq[s].to)
           \/ UNCHANGED <<formsGateways, defaults>> /\ Forms!Refuse(s)
           \/ defaults' \subseteq defaults /\ UNCHANGED formsGateways /\ Forms!Refuse(s)
    BY <1>2 DEF Forms!Update, Forms!Asked
  <2>2. CASE Forms!Exists(formsReq[s].to) /\ ~Forms!Taken(s) /\ Forms!Write(s, formsReq[s].to)
    BY <2>1, <2>2, WriteStep DEF Forms!Exists
  <2>3. CASE defaults' \subseteq defaults /\ UNCHANGED formsGateways /\ Forms!Refuse(s)
    BY <2>3, RequestStep DEF Forms!Refuse
  <2> QED
    BY <2>1, <2>2, <2>3
<1>3. CASE Forms!GatewaySaved(s) \/ Forms!GatewayFails(s)
  <2>1. /\ formsReq' = [formsReq EXCEPT ![s] = Forms!NoReq] /\ gwForm' \in {gwForm, Forms!BlankGateway}
        /\ UNCHANGED <<formsGateways, defaults, token, formsEpoch, form>>
    BY <1>3 DEF Forms!GatewaySaved, Forms!GatewayFails
  <2> QED
    BY <2>1, RequestStep
<1> QED
  BY <1>1, <1>2, <1>3

LEMMA SendStep == ASSUME Forms!ConstantsFit, FormsInv, Forms!saveGw PROVE FormsInv'
<1>0. FormsTyped /\ TableIsSound /\ FormIsOfOne /\ RequestIsOfOne
  BY DEF FormsInv
<1> DEFINE r == [Forms!NoReq EXCEPT !.kind = "gateway", !.to = gwForm.editing, !.name = gwForm.name,
                              !.of = gwForm.of, !.secret = gwForm.secret, !.default = gwForm.default]
<1>1. PICK s \in Slots : formsReq[s].kind = "none" /\ formsReq' = [formsReq EXCEPT ![s] = r]
  BY DEF Forms!saveGw
<1>2. gwForm.name # Forms!Null /\ UNCHANGED <<formsGateways, defaults, token, formsEpoch, gwForm, form>>
  BY DEF Forms!saveGw
<1>3. gwForm \in Forms!GatewayFormType
  BY <1>0 DEF FormsTyped
<1>4. r.to = gwForm.editing /\ r.name = gwForm.name /\ r.of = gwForm.of /\ r.secret = gwForm.secret
  BY DEF Forms!NoReq
<1>5. r \in Forms!ReqType /\ r.name \in Names
  <2>1. Forms!NoReq \in Forms!ReqType
    BY DEF Forms!NoReq, Forms!ReqType
  <2>2. /\ gwForm.editing \in Forms!Ids \cup {Forms!Null} /\ gwForm.name \in Names /\ gwForm.of \in Forms!Ids \cup {Forms!Null}
        /\ gwForm.secret \in Forms!Ids \cup {Forms!Null, Forms!New} /\ gwForm.default \in BOOLEAN
    BY <1>2, <1>3 DEF Forms!GatewayFormType
  <2>3. r \in Forms!ReqType
    BY <2>1, <2>2 DEF Forms!ReqType
  <2> QED
    BY <1>4, <2>2, <2>3
<1> HIDE DEF r
<1>6. r.to # Forms!Null => r.of = r.to /\ r.secret \in {Forms!Null, r.to}
  BY <1>0, <1>4 DEF FormIsOfOne
<1>7. /\ formsReq' \in [Slots -> Forms!ReqType]
      /\ \A t \in Slots : formsReq'[t] = IF t = s THEN r ELSE formsReq[t]
  BY <1>0, <1>1, <1>5 DEF FormsTyped
<1>8. FormsTyped'
  BY <1>0, <1>2, <1>7 DEF FormsTyped
<1>9. RequestIsOfOne'
  BY <1>0, <1>5, <1>6, <1>7 DEF RequestIsOfOne
<1>10. TableIsSound' /\ FormIsOfOne'
  BY <1>0, <1>2 DEF TableIsSound, FormIsOfOne, Forms!NamesAreUnique, Forms!Exists
<1> QED
  BY <1>8, <1>9, <1>10 DEF FormsInv

LEMMA DeletionStep ==
    ASSUME Forms!ConstantsFit, FormsInv, NEW g \in Forms!Ids, Forms!deleteGateway(g)
    PROVE  FormsInv'
<1>0. FormsTyped /\ TableIsSound /\ FormIsOfOne /\ RequestIsOfOne
  BY DEF FormsInv
<1>1. /\ formsGateways' = [formsGateways EXCEPT ![g] = Forms!Gone] /\ defaults' = defaults \ {g}
      /\ UNCHANGED <<token, formsEpoch, gwForm, form, formsReq>>
  BY DEF Forms!deleteGateway
<1>2. /\ formsGateways' \in [Forms!Ids -> Names \cup {Forms!Null, Forms!Gone}]
      /\ formsGateways'[g] = Forms!Gone
      /\ \A h \in Forms!Ids : h # g => formsGateways'[h] = formsGateways[h]
  BY <1>0, <1>1 DEF TableIsSound
<1>3. TableIsSound'
  <2>1. Forms!NamesAreUnique'
    BY <1>0, <1>2, NamesAreNames DEF TableIsSound, Forms!NamesAreUnique, Forms!Exists
  <2>2. (\A h \in defaults : Forms!Exists(h))' /\ (\A h, k \in defaults : h = k)'
    BY <1>0, <1>1, <1>2 DEF TableIsSound, Forms!Exists
  <2> QED
    BY <1>2, <2>1, <2>2 DEF TableIsSound
<1>4. FormsTyped' /\ RequestIsOfOne'
  BY <1>0, <1>1 DEF FormsTyped, RequestIsOfOne
<1>5. FormIsOfOne'
  BY <1>0, <1>1, <1>2, NamesAreNames DEF FormIsOfOne, FormsTyped, Forms!GatewayFormType
<1> QED
  BY <1>3, <1>4, <1>5 DEF FormsInv

(* What leaves the table and the form for a gateway alone.                  *)
LEMMA OtherFormsStep ==
    ASSUME Forms!ConstantsFit, FormsInv,
           UNCHANGED <<formsGateways, defaults, gwForm>>,
           token' \in BOOLEAN, formsEpoch' \in 0..MaxLogouts, form' \in [SmallForms -> Forms!FormType],
           \/ formsReq' = formsReq
           \/ \E s \in Slots, r \in Forms!ReqType : r.kind # "gateway" /\ formsReq' = [formsReq EXCEPT ![s] = r]
    PROVE  FormsInv'
<1>0. FormsTyped /\ TableIsSound /\ FormIsOfOne /\ RequestIsOfOne
  BY DEF FormsInv
<1>1. formsReq' \in [Slots -> Forms!ReqType]
  BY <1>0 DEF FormsTyped
<1>2. \A t \in Slots : formsReq'[t] = formsReq[t] \/ formsReq'[t].kind # "gateway"
  BY <1>0 DEF FormsTyped
<1>3. FormsTyped'
  BY <1>0, <1>1 DEF FormsTyped
<1>4. RequestIsOfOne'
  BY <1>0, <1>2 DEF RequestIsOfOne
<1>5. TableIsSound' /\ FormIsOfOne'
  BY <1>0 DEF TableIsSound, FormIsOfOne, Forms!NamesAreUnique, Forms!Exists
<1> QED
  BY <1>3, <1>4, <1>5 DEF FormsInv

LEMMA SmallFormsStep ==
    ASSUME Forms!ConstantsFit, FormsInv,
           \/ Forms!doLogin \/ Forms!doLogout
           \/ \E s \in Slots : Forms!FormAnswered(s)
           \/ \E f \in SmallForms : Forms!FillForm(f) \/ Forms!SubmitForm(f) \/ Forms!SubmitIncomplete(f)
           \/ UNCHANGED Forms!vars
    PROVE  FormsInv'
<1>0. /\ token \in BOOLEAN /\ formsEpoch \in 0..MaxLogouts /\ form \in [SmallForms -> Forms!FormType]
      /\ formsReq \in [Slots -> Forms!ReqType]
  BY DEF FormsInv, FormsTyped
<1>1. \A f \in SmallForms : [Forms!NoReq EXCEPT !.kind = f] \in Forms!ReqType /\ [Forms!NoReq EXCEPT !.kind = f].kind # "gateway"
  BY NamesAreNames DEF Forms!NoReq, Forms!ReqType
<1>2. Forms!NoReq \in Forms!ReqType /\ Forms!NoReq.kind # "gateway"
  BY DEF Forms!NoReq, Forms!ReqType
<1>3. CASE Forms!doLogin
  <2>1. UNCHANGED <<formsGateways, defaults, formsEpoch, gwForm, form, formsReq>> /\ token' = TRUE
    BY <1>3 DEF Forms!doLogin
  <2>2. token' \in BOOLEAN
    BY <2>1
  <2> QED
    BY <1>0, <2>1, <2>2, OtherFormsStep
<1>4. CASE Forms!doLogout
  <2>1. /\ UNCHANGED <<formsGateways, defaults, gwForm, formsReq>> /\ token' = FALSE /\ formsEpoch' = formsEpoch + 1 /\ formsEpoch < MaxLogouts
        /\ form' = [f \in SmallForms |-> IF f = "route" THEN [form[f] EXCEPT !.message = ""] ELSE form[f]]
    BY <1>4 DEF Forms!doLogout
  <2>2. token' \in BOOLEAN
    BY <2>1
  <2>3. formsEpoch' \in 0..MaxLogouts
    <3>1. MaxLogouts \in Nat /\ formsEpoch \in 0..MaxLogouts
      BY <1>0 DEF Forms!ConstantsFit
    <3>2. formsEpoch' = formsEpoch + 1 /\ formsEpoch < MaxLogouts
      BY <2>1
    <3> QED
      BY <3>1, <3>2
  <2>4. \A f \in SmallForms : [form[f] EXCEPT !.message = ""] \in Forms!FormType /\ form[f] \in Forms!FormType
    BY <1>0 DEF Forms!FormType
  <2>5. form' \in [SmallForms -> Forms!FormType]
    BY <2>1, <2>4
  <2> QED
    BY <2>1, <2>2, <2>3, <2>5, OtherFormsStep
<1>5. ASSUME NEW f \in SmallForms, Forms!FillForm(f) \/ Forms!SubmitForm(f) \/ Forms!SubmitIncomplete(f)
      PROVE  FormsInv'
  <2>1. UNCHANGED <<formsGateways, defaults, token, formsEpoch, gwForm>>
    BY <1>5 DEF Forms!FillForm, Forms!SubmitForm, Forms!SubmitIncomplete
  <2>2. form[f] \in Forms!FormType
    BY <1>0
  <2>3. form' \in [SmallForms -> Forms!FormType]
    <3>1. CASE Forms!FillForm(f)
      <4>1. form' = [form EXCEPT ![f] = [filled |-> TRUE,
                                         message |-> IF f = "route" THEN "" ELSE form[f].message]]
        BY <3>1 DEF Forms!FillForm
      <4>2. [filled |-> TRUE, message |-> IF f = "route" THEN "" ELSE form[f].message] \in Forms!FormType
        BY <2>2 DEF Forms!FormType
      <4> QED
        BY <1>0, <4>1, <4>2
    <3>2. CASE Forms!SubmitForm(f) \/ Forms!SubmitIncomplete(f)
      <4>1. PICK m \in {"", "error"} : form' = [form EXCEPT ![f] = [form[f] EXCEPT !.message = m]]
        BY <3>2 DEF Forms!SubmitForm, Forms!SubmitIncomplete
      <4>2. [form[f] EXCEPT !.message = m] \in Forms!FormType
        BY <2>2 DEF Forms!FormType
      <4> QED
        BY <1>0, <4>1, <4>2
    <3> QED
      BY <1>5, <3>1, <3>2
  <2>4. \/ formsReq' = formsReq
        \/ \E s \in Slots : formsReq' = [formsReq EXCEPT ![s] = [Forms!NoReq EXCEPT !.kind = f]]
    BY <1>5 DEF Forms!FillForm, Forms!SubmitForm, Forms!SubmitIncomplete
  <2>5. \/ formsReq' = formsReq
        \/ \E s \in Slots, r \in Forms!ReqType : r.kind # "gateway" /\ formsReq' = [formsReq EXCEPT ![s] = r]
    BY <1>1, <2>4
  <2> QED
    BY <1>0, <2>1, <2>3, <2>5, OtherFormsStep
<1>6. ASSUME NEW s \in Slots, Forms!FormAnswered(s)
      PROVE  FormsInv'
  <2> DEFINE f == formsReq[s].kind
  <2>1. /\ f \in SmallForms /\ formsReq' = [formsReq EXCEPT ![s] = Forms!NoReq]
        /\ UNCHANGED <<formsGateways, defaults, token, formsEpoch, gwForm>>
        /\ \/ form' = [form EXCEPT ![f] = [form[f] EXCEPT !.filled = FALSE,
                                             !.message = IF f = "password" THEN "ok" ELSE form[f].message]]
           \/ form' = [form EXCEPT ![f] = [form[f] EXCEPT !.message = IF f = "user" THEN form[f].message ELSE "error"]]
    BY <1>6 DEF Forms!FormAnswered
  <2> HIDE DEF f
  <2>2. form[f] \in Forms!FormType
    BY <1>0, <2>1
  <2>3. /\ [form[f] EXCEPT !.filled = FALSE, !.message = IF f = "password" THEN "ok" ELSE form[f].message] \in Forms!FormType
        /\ [form[f] EXCEPT !.message = IF f = "user" THEN form[f].message ELSE "error"] \in Forms!FormType
    BY <2>2 DEF Forms!FormType
  <2>4. form' \in [SmallForms -> Forms!FormType]
    BY <1>0, <2>1, <2>3
  <2> QED
    BY <1>0, <1>2, <2>1, <2>4, OtherFormsStep
<1>7. CASE UNCHANGED Forms!vars
  BY <1>0, <1>7, OtherFormsStep DEF Forms!vars
<1> QED
  BY <1>3, <1>4, <1>5, <1>6, <1>7

LEMMA FormsStep == ASSUME Forms!ConstantsFit, FormsInv, [Forms!Next]_(Forms!vars) PROVE FormsInv'
<1>1. CASE \/ Forms!openNewGateway \/ Forms!closeGateway \/ Forms!TickDefault \/ Forms!TypePassword
           \/ \E n \in Names : Forms!TypeName(n)
           \/ \E g \in Forms!Ids : Forms!editGw(g)
  BY <1>1, FieldsStep
<1>2. CASE \/ Forms!doLogin \/ Forms!doLogout
           \/ \E s \in Slots : Forms!FormAnswered(s)
           \/ \E f \in SmallForms : Forms!FillForm(f) \/ Forms!SubmitForm(f) \/ Forms!SubmitIncomplete(f)
           \/ UNCHANGED Forms!vars
  BY <1>2, SmallFormsStep
<1>3. CASE Forms!saveGw \/ \E g \in Forms!Ids : Forms!deleteGateway(g)
  BY <1>3, SendStep, DeletionStep
<1>4. CASE \E s \in Slots : Forms!Create(s) \/ Forms!Update(s) \/ Forms!GatewaySaved(s) \/ Forms!GatewayFails(s)
  BY <1>4, AnswersStep
<1> QED
  BY <1>1, <1>2, <1>3, <1>4 DEF Forms!Next

LEMMA FormsAreSound == ASSUME Forms!ConstantsFit, FormsInv PROVE Forms!TypeOK /\ Forms!GatewaysAreSound
<1>0. FormsTyped /\ TableIsSound /\ FormIsOfOne /\ RequestIsOfOne
  BY DEF FormsInv
<1>1. Forms!UpdateCarriesItsOwn
  BY <1>0 DEF RequestIsOfOne, Forms!UpdateCarriesItsOwn
<1>2. Forms!NamesAreUnique
  BY <1>0 DEF TableIsSound
<1>3. Forms!AtMostOneDefault
  <2>1. defaults = {} \/ \E g : defaults = {g}
    BY <1>0 DEF TableIsSound
  <2>2. Forms!Cardinality(defaults) \in {0, 1}
    BY <2>1, FS_EmptySet, FS_Singleton, FormsSize
  <2> QED
    BY <2>2 DEF Forms!AtMostOneDefault
<1>4. Forms!TypeOK
  <2>1. defaults \subseteq {g \in Forms!Ids : Forms!Exists(g)}
    BY <1>0 DEF TableIsSound, Forms!Exists
  <2> QED
    BY <1>0, <2>1 DEF FormsTyped, TableIsSound, FormIsOfOne, Forms!TypeOK
<1> QED
  BY <1>1, <1>2, <1>3, <1>4 DEF Forms!GatewaysAreSound

LEMMA FormsAreKept == PartsSpec => [](view \in FormsViews => FormsInv)
<1> DEFINE Kept == view \in FormsViews => FormsInv
<1>1. PartsInit => Kept
  BY PartInits, FormsInit, EveryConstantFits
<1>2. ASSUME Kept, [PartsNext]_allVars PROVE Kept'
  <2>1. CASE view \in FormsViews
    <3>1. FormsInv /\ [Forms!Next]_(Forms!vars)
      BY <1>2, <2>1, PartSteps
    <3>2. FormsInv'
      BY <3>1, FormsStep, EveryConstantFits
    <3> QED
      BY <3>2
  <2>2. CASE view \notin FormsViews
    BY <1>2, <2>2, PartSteps
  <2> QED
    BY <2>1, <2>2
<1> HIDE DEF Kept
<1>3. PartsSpec => []Kept
  BY <1>1, <1>2, PTL DEF PartsSpec
<1> QED
  BY <1>3, PTL DEF Kept

(* No name is there twice, one gateway at the most is the default, and an    *)
(* update carries the fields of its own gateway - for any number of         *)
(* gateways, names and requests under way, however the forms are opened,    *)
(* left, sent twice and answered.                                           *)
THEOREM GatewayTableIsSound ==
    /\ PartsSpec => []GatewaysAreSound
    /\ Forms!Spec => []Forms!GatewaysAreSound
<1>1. (view \in FormsViews => FormsInv) => GatewaysAreSound
  BY FormsAreSound, EveryConstantFits DEF GatewaysAreSound
<1>2. PartsSpec => []GatewaysAreSound
  BY <1>1, FormsAreKept, PTL
<1>3. Forms!Init => FormsInv
  BY FormsInit, EveryConstantFits
<1>4. FormsInv /\ [Forms!Next]_(Forms!vars) => FormsInv'
  BY FormsStep, EveryConstantFits
<1>5. FormsInv => Forms!GatewaysAreSound
  BY FormsAreSound, EveryConstantFits
<1>6. Forms!Spec => []Forms!GatewaysAreSound
  BY <1>3, <1>4, <1>5, PTL DEF Forms!Spec
<1> QED
  BY <1>2, <1>6

-----------------------------------------------------------------------------
(* BrowserMapping *)

(* The cache holds the results made last, in order: as many as it may of    *)
(* those made since the start.                                              *)
CacheInOrder ==
    /\ made \in Nat /\ made <= MaxMappings /\ restarts \in Nat /\ restarts <= made
    /\ mappingCache \in Seq(Nat) /\ Len(mappingCache) <= CacheMax /\ Len(mappingCache) <= made - restarts
    /\ Len(mappingCache) = CacheMax \/ Len(mappingCache) = made - restarts
    /\ \A i \in 1 .. Len(mappingCache) : mappingCache[i] = made - Len(mappingCache) + i

MappingTyped ==
    /\ files \in BOOLEAN /\ tab \in Mapping!TabType /\ mappingEpoch \in 0..MaxLogouts
    /\ mappingReq \in [Slots -> Mapping!ReqType]
    /\ saved \in [name : Mapping!Ids, content : Mapping!Ids, crossed : BOOLEAN]

(* A download that is not crossed is of the result the tab has.             *)
DownloadsFit ==
    \A s \in Slots : mappingReq[s].kind = "download" /\ ~mappingReq[s].crossed => mappingReq[s].id = tab.mappingId

MappingInv ==
    /\ MappingTyped /\ CacheInOrder /\ DownloadsFit
    /\ Mapping!DownloadFitsScreen /\ Mapping!BusyMeansMapping /\ Mapping!SavedFitsName

LEMMA CacheNumbers ==
    ASSUME Mapping!ConstantsFit, CacheInOrder
    PROVE  /\ CacheMax \in Nat /\ CacheMax > 0 /\ MaxMappings \in Nat
           /\ made \in Nat /\ restarts \in Nat /\ made <= MaxMappings
           /\ Len(mappingCache) \in Nat /\ mappingCache \in Seq(Nat)
  BY LenProperties DEF Mapping!ConstantsFit, CacheInOrder

LEMMA MappingInit == Mapping!ConstantsFit /\ Mapping!Init => MappingInv
<1> SUFFICES ASSUME Mapping!ConstantsFit, Mapping!Init PROVE MappingInv
  OBVIOUS
<1>1. mappingCache \in Seq(Nat) /\ Len(mappingCache) = 0
  BY EmptySeq DEF Mapping!Init
<1>2. /\ made = 0 /\ restarts = 0 /\ mappingEpoch = 0
      /\ files = FALSE /\ tab = Mapping!NoTab /\ saved = Mapping!NothingSaved
      /\ mappingReq = [s \in Slots |-> Mapping!NoReq]
  BY DEF Mapping!Init
<1>3. CacheInOrder
  <2>1. CacheMax \in Nat /\ MaxMappings \in Nat
    BY DEF Mapping!ConstantsFit
  <2> QED
    BY <1>1, <1>2, <2>1 DEF CacheInOrder
<1>4. 0 \in Mapping!Ids
  BY DEF Mapping!ConstantsFit, Mapping!Ids
<1>5. tab \in Mapping!TabType /\ tab.result = 0 /\ tab.executing = FALSE
  BY <1>2, <1>4 DEF Mapping!NoTab, Mapping!TabType
<1>6. saved \in [name : Mapping!Ids, content : Mapping!Ids, crossed : BOOLEAN] /\ saved.name = saved.content
  BY <1>2, <1>4 DEF Mapping!NothingSaved
<1>7. mappingReq \in [Slots -> Mapping!ReqType] /\ \A s \in Slots : mappingReq[s].kind = "none"
  BY <1>2, <1>4 DEF Mapping!NoReq, Mapping!ReqType
<1>8. MappingTyped
  <2>1. mappingEpoch \in 0..MaxLogouts
    BY <1>2 DEF Mapping!ConstantsFit
  <2>2. files \in BOOLEAN
    BY <1>2
  <2> QED
    BY <1>5, <1>6, <1>7, <2>1, <2>2 DEF MappingTyped
<1>9. DownloadsFit
  BY <1>7 DEF DownloadsFit
<1>10. Mapping!DownloadFitsScreen /\ Mapping!BusyMeansMapping /\ Mapping!SavedFitsName
  BY <1>5, <1>6 DEF Mapping!DownloadFitsScreen, Mapping!BusyMeansMapping, Mapping!SavedFitsName
<1> QED
  BY <1>3, <1>8, <1>9, <1>10 DEF MappingInv

(* A result more: the oldest goes when there is no room.                    *)
LEMMA PutKeepsOrder ==
    ASSUME Mapping!ConstantsFit, CacheInOrder, made < MaxMappings, made' = made + 1,
           mappingCache' = Mapping!Put(made + 1), restarts' = restarts
    PROVE  CacheInOrder'
<1> DEFINE c == Append(mappingCache, made + 1)
           n == Len(mappingCache)
<1>0. /\ CacheMax \in Nat /\ CacheMax > 0 /\ MaxMappings \in Nat
      /\ made \in Nat /\ restarts \in Nat /\ made <= MaxMappings
      /\ n \in Nat /\ mappingCache \in Seq(Nat)
  BY CacheNumbers
<1>1. /\ restarts <= made /\ n <= CacheMax /\ n <= made - restarts
      /\ n = CacheMax \/ n = made - restarts
      /\ \A i \in 1 .. n : mappingCache[i] = made - n + i
  BY DEF CacheInOrder
<1>2. made + 1 \in Nat
  BY <1>0
<1>3. /\ c \in Seq(Nat) /\ Len(c) = n + 1
      /\ \A i \in 1 .. n : c[i] = mappingCache[i]
      /\ c[n + 1] = made + 1
  BY <1>0, <1>2, AppendProperties
<1>4. mappingCache' = IF Len(c) > CacheMax THEN Tail(c) ELSE c
  BY DEF Mapping!Put
<1>5. \A i \in 1 .. n + 1 : c[i] = made - n + i
  <2> SUFFICES ASSUME NEW i \in 1 .. n + 1 PROVE c[i] = made - n + i
    OBVIOUS
  <2>1. CASE i = n + 1
    BY <1>0, <1>3, <2>1
  <2>2. CASE i # n + 1
    BY <1>0, <1>1, <1>3, <2>2
  <2> QED
    BY <2>1, <2>2
<1> HIDE DEF c
<1>6. CASE n + 1 > CacheMax
  <2>1. c # <<>>
    BY <1>0, <1>3, EmptySeq
  <2>2. /\ Tail(c) \in Seq(Nat) /\ Len(Tail(c)) = n
        /\ \A i \in 1 .. n : Tail(c)[i] = c[i + 1]
    BY <1>0, <1>3, <2>1, HeadTailProperties
  <2>3. mappingCache' = Tail(c) /\ n = CacheMax
    BY <1>0, <1>1, <1>3, <1>4, <1>6
  <2> HIDE DEF n
  <2>4. \A i \in 1 .. n : mappingCache'[i] = (made + 1) - n + i
    <3> SUFFICES ASSUME NEW i \in 1 .. n PROVE mappingCache'[i] = (made + 1) - n + i
      OBVIOUS
    <3>1. i + 1 \in 1 .. n + 1 /\ made - n + (i + 1) = (made + 1) - n + i
      BY <1>0
    <3>2. mappingCache'[i] = c[i + 1]
      BY <2>2, <2>3
    <3>3. c[i + 1] = made - n + (i + 1)
      BY <1>5, <3>1
    <3> QED
      BY <3>1, <3>2, <3>3
  <2>5. /\ mappingCache' \in Seq(Nat) /\ Len(mappingCache') = n
    BY <2>2, <2>3
  <2>6. /\ made' \in Nat /\ made' <= MaxMappings /\ restarts' \in Nat /\ restarts' <= made'
        /\ Len(mappingCache') <= CacheMax /\ Len(mappingCache') <= made' - restarts' /\ Len(mappingCache') = CacheMax
    BY <1>0, <1>1, <2>3, <2>5
  <2>7. \A i \in 1 .. Len(mappingCache') : mappingCache'[i] = made' - Len(mappingCache') + i
    BY <2>4, <2>5
  <2> QED
    BY <2>5, <2>6, <2>7 DEF CacheInOrder
<1>7. CASE ~(n + 1 > CacheMax)
  <2>1. mappingCache' = c
    BY <1>3, <1>4, <1>7
  <2>2. n = made - restarts
    BY <1>0, <1>1, <1>7
  <2> HIDE DEF n
  <2>3. \A i \in 1 .. n + 1 : mappingCache'[i] = (made + 1) - (n + 1) + i
    <3> SUFFICES ASSUME NEW i \in 1 .. n + 1 PROVE mappingCache'[i] = (made + 1) - (n + 1) + i
      OBVIOUS
    <3>1. c[i] = made - n + i
      BY <1>5
    <3> QED
      BY <1>0, <2>1, <3>1
  <2>4. mappingCache' \in Seq(Nat) /\ Len(mappingCache') = n + 1
    BY <1>3, <2>1
  <2>5. /\ made' \in Nat /\ made' <= MaxMappings /\ restarts' \in Nat /\ restarts' <= made'
        /\ Len(mappingCache') <= CacheMax /\ Len(mappingCache') = made' - restarts'
    BY <1>0, <1>1, <1>7, <2>2, <2>4
  <2>6. \A i \in 1 .. Len(mappingCache') : mappingCache'[i] = made' - Len(mappingCache') + i
    BY <2>3, <2>4
  <2>7. Len(mappingCache') <= made' - restarts'
    BY <1>0, <2>5, <2>4
  <2> QED
    BY <2>4, <2>5, <2>6, <2>7 DEF CacheInOrder
<1> QED
  BY <1>6, <1>7

(* The cache, by what makes results and what loses them.                    *)
LEMMA CacheStep ==
    ASSUME Mapping!ConstantsFit, CacheInOrder, [Mapping!Next]_(Mapping!vars)
    PROVE  CacheInOrder' /\ made <= made'
<1>0. made \in Nat /\ MaxMappings \in Nat
  BY CacheNumbers
<1>1. CASE UNCHANGED <<made, mappingCache, restarts>>
  BY <1>0, <1>1 DEF CacheInOrder
<1>2. CASE made < MaxMappings /\ made' = made + 1 /\ mappingCache' = Mapping!Put(made + 1) /\ restarts' = restarts
  BY <1>0, <1>2, PutKeepsOrder
<1>3. CASE Mapping!Restart
  <2>1. mappingCache' \in Seq(Nat) /\ Len(mappingCache') = 0 /\ restarts' = made /\ made' = made
    BY <1>3, EmptySeq DEF Mapping!Restart
  <2>2. CacheMax \in Nat /\ made <= MaxMappings
    BY CacheNumbers DEF CacheInOrder
  <2> QED
    BY <1>0, <2>1, <2>2 DEF CacheInOrder
<1>4. \/ UNCHANGED <<made, mappingCache, restarts>>
      \/ made < MaxMappings /\ made' = made + 1 /\ mappingCache' = Mapping!Put(made + 1) /\ restarts' = restarts
      \/ Mapping!Restart
  <2>1. CASE Mapping!ChooseFiles \/ Mapping!executeIoMapping \/ Mapping!downloadIoMapping \/ Mapping!doLogout \/ UNCHANGED Mapping!vars
    BY <2>1 DEF Mapping!ChooseFiles, Mapping!executeIoMapping, Mapping!downloadIoMapping, Mapping!doLogout, Mapping!vars
  <2>2. CASE Mapping!ServeOther
    BY <2>2 DEF Mapping!ServeOther
  <2>3. ASSUME NEW s \in Slots, Mapping!Mapped(s) \/ Mapping!MappingFails(s) \/ Mapping!Downloaded(s) \/ Mapping!DownloadFails(s) \/ Mapping!ServeDownload(s)
        PROVE  UNCHANGED <<made, mappingCache, restarts>>
    BY <2>3 DEF Mapping!Mapped, Mapping!MappingFails, Mapping!Downloaded, Mapping!DownloadFails, Mapping!ServeDownload
  <2>4. ASSUME NEW s \in Slots, Mapping!ServeExecute(s)
        PROVE  \/ UNCHANGED <<made, mappingCache, restarts>>
               \/ made < MaxMappings /\ made' = made + 1 /\ mappingCache' = Mapping!Put(made + 1) /\ restarts' = restarts
    BY <2>4 DEF Mapping!ServeExecute
  <2> QED
    BY <2>1, <2>2, <2>3, <2>4 DEF Mapping!Next
<1> QED
  BY <1>1, <1>2, <1>3, <1>4

(* What the page's part of the invariant says of a state.                   *)
PageInv == MappingTyped /\ DownloadsFit /\ Mapping!DownloadFitsScreen /\ Mapping!BusyMeansMapping /\ Mapping!SavedFitsName

(* The tab stays what it shows; a request may come, go or be answered, but  *)
(* no mapping that the tab waits for is lost.                               *)
LEMMA RequestChanges ==
    ASSUME Mapping!ConstantsFit, PageInv, NEW s \in Slots, NEW r \in Mapping!ReqType,
           mappingReq' = [mappingReq EXCEPT ![s] = r],
           tab' \in Mapping!TabType, files' \in BOOLEAN, mappingEpoch' = mappingEpoch,
           tab'.mappingId = tab.mappingId, tab'.result \in {0, tab.result},
           tab'.executing => \/ tab.executing /\ (r.kind = "execute" \/ mappingReq[s].kind # "execute")
                             \/ r.kind = "execute" /\ tab'.result = 0,
           r.kind = "download" /\ ~r.crossed => r.id = tab.mappingId,
           saved' \in [name : Mapping!Ids, content : Mapping!Ids, crossed : BOOLEAN],
           saved'.crossed \/ saved'.name = saved'.content
    PROVE  PageInv'
<1>0. MappingTyped /\ DownloadsFit /\ Mapping!DownloadFitsScreen /\ Mapping!BusyMeansMapping /\ Mapping!SavedFitsName
  BY DEF PageInv
<1>1. \A q \in Slots : mappingReq'[q] = IF q = s THEN r ELSE mappingReq[q]
  BY <1>0 DEF MappingTyped
<1>2. mappingReq' \in [Slots -> Mapping!ReqType]
  BY <1>0 DEF MappingTyped
<1>3. MappingTyped'
  BY <1>0, <1>2 DEF MappingTyped
<1>4. DownloadsFit'
  BY <1>0, <1>1 DEF DownloadsFit
<1>5. Mapping!DownloadFitsScreen' /\ Mapping!SavedFitsName'
  BY <1>0 DEF Mapping!DownloadFitsScreen, Mapping!SavedFitsName
<1>6. Mapping!BusyMeansMapping'
  <2> SUFFICES ASSUME tab'.executing
               PROVE  tab'.result = 0 /\ \E q \in Slots : mappingReq'[q].kind = "execute"
    BY DEF Mapping!BusyMeansMapping
  <2>1. CASE r.kind = "execute" /\ tab'.result = 0
    BY <1>1, <2>1
  <2>2. CASE tab.executing /\ (r.kind = "execute" \/ mappingReq[s].kind # "execute")
    <3>1. tab.result = 0
      BY <1>0, <2>2 DEF Mapping!BusyMeansMapping
    <3>2. PICK q \in Slots : mappingReq[q].kind = "execute"
      BY <1>0, <2>2 DEF Mapping!BusyMeansMapping
    <3>3. mappingReq'[q].kind = "execute"
      BY <1>1, <2>2, <3>2
    <3>5. \E p \in Slots : mappingReq'[p].kind = "execute"
      BY <3>3
    <3> QED
      BY <3>1, <3>5
  <2> QED
    BY <2>1, <2>2
<1> QED
  BY <1>3, <1>4, <1>5, <1>6 DEF PageInv

(* The tab changes, and every download on its way is crossed by it.         *)
LEMMA TabChanges ==
    ASSUME Mapping!ConstantsFit, PageInv,
           mappingReq' \in [Slots -> Mapping!ReqType],
           \A q \in Slots : mappingReq'[q].kind = "download" => mappingReq'[q].crossed,
           tab' \in Mapping!TabType, ~tab'.executing, tab'.result # 0 => tab'.mappingId = tab'.result,
           files' \in BOOLEAN, mappingEpoch' \in 0..MaxLogouts, saved' = saved
    PROVE  PageInv'
<1>0. MappingTyped /\ Mapping!SavedFitsName
  BY DEF PageInv
<1>1. MappingTyped'
  BY <1>0 DEF MappingTyped
<1>2. DownloadsFit' /\ Mapping!DownloadFitsScreen' /\ Mapping!SavedFitsName'
  BY <1>0 DEF DownloadsFit, Mapping!DownloadFitsScreen, Mapping!SavedFitsName
<1>3. Mapping!BusyMeansMapping'
  BY DEF Mapping!BusyMeansMapping
<1> QED
  BY <1>1, <1>2, <1>3 DEF PageInv

LEMMA MappingEnds ==
    ASSUME Mapping!ConstantsFit, PageInv, NEW s \in Slots,
           Mapping!Mapped(s) \/ Mapping!MappingFails(s) \/ Mapping!Downloaded(s) \/ Mapping!DownloadFails(s)
    PROVE  PageInv'
<1>0. /\ files \in BOOLEAN /\ tab \in Mapping!TabType /\ mappingEpoch \in 0..MaxLogouts
      /\ mappingReq \in [Slots -> Mapping!ReqType] /\ mappingReq[s] \in Mapping!ReqType
      /\ saved \in [name : Mapping!Ids, content : Mapping!Ids, crossed : BOOLEAN]
      /\ saved.crossed \/ saved.name = saved.content
  BY DEF PageInv, MappingTyped, Mapping!SavedFitsName
<1>1. Mapping!NoReq \in Mapping!ReqType /\ Mapping!NoReq.kind = "none"
  BY DEF Mapping!NoReq, Mapping!ReqType, Mapping!Ids, Mapping!ConstantsFit
<1>2. CASE Mapping!Mapped(s)
  <2>1. /\ tab' = [mappingId |-> mappingReq[s].id, executing |-> FALSE, result |-> mappingReq[s].id]
        /\ mappingReq' = Mapping!Crossed(s) /\ UNCHANGED <<files, mappingEpoch, saved>>
    BY <1>2 DEF Mapping!Mapped
  <2>2. mappingReq[s].id \in Mapping!Ids
    BY <1>0 DEF Mapping!ReqType
  <2>3. tab' \in Mapping!TabType /\ tab'.executing = FALSE /\ tab'.mappingId = tab'.result
    BY <2>1, <2>2 DEF Mapping!TabType
  <2>4. ASSUME NEW q \in Slots
        PROVE  Mapping!Crossed(s)[q] \in Mapping!ReqType /\ (Mapping!Crossed(s)[q].kind = "download" => Mapping!Crossed(s)[q].crossed)
    <3>1. Mapping!Crossed(s)[q] = IF q = s THEN Mapping!NoReq ELSE [mappingReq[q] EXCEPT !.crossed = mappingReq[q].kind = "download"]
      BY DEF Mapping!Crossed
    <3> DEFINE cr == mappingReq[q].kind = "download"
    <3>2. mappingReq[q] \in Mapping!ReqType /\ cr \in BOOLEAN
      BY <1>0
    <3> HIDE DEF cr
    <3>3. [mappingReq[q] EXCEPT !.crossed = cr] \in Mapping!ReqType /\ [mappingReq[q] EXCEPT !.crossed = cr].crossed = cr
          /\ [mappingReq[q] EXCEPT !.crossed = cr].kind = mappingReq[q].kind
      BY <3>2 DEF Mapping!ReqType
    <3> QED
      BY <1>1, <3>1, <3>3 DEF cr
  <2>5. mappingReq' \in [Slots -> Mapping!ReqType]
    BY <2>1, <2>4 DEF Mapping!Crossed
  <2> QED
    BY <1>0, <2>1, <2>3, <2>4, <2>5, TabChanges
<1>3. CASE Mapping!MappingFails(s)
  <2>1. /\ tab' = [tab EXCEPT !.executing = FALSE] /\ mappingReq' = [mappingReq EXCEPT ![s] = Mapping!NoReq]
        /\ UNCHANGED <<files, mappingEpoch, saved>>
    BY <1>3 DEF Mapping!MappingFails
  <2>2. tab' \in Mapping!TabType /\ tab'.executing = FALSE /\ tab'.mappingId = tab.mappingId /\ tab'.result = tab.result
    BY <1>0, <2>1 DEF Mapping!TabType
  <2> QED
    BY <1>0, <1>1, <2>1, <2>2, RequestChanges
<1>4. CASE Mapping!Downloaded(s)
  <2>1. /\ mappingReq[s].kind = "download" /\ mappingReq' = [mappingReq EXCEPT ![s] = Mapping!NoReq]
        /\ saved' = [name |-> tab.mappingId, content |-> mappingReq[s].id, crossed |-> mappingReq[s].crossed]
        /\ UNCHANGED <<files, tab, mappingEpoch>>
    BY <1>4 DEF Mapping!Downloaded, Mapping!pageVars
  <2>2. ~mappingReq[s].crossed => mappingReq[s].id = tab.mappingId
    BY <2>1 DEF PageInv, DownloadsFit
  <2>3. saved' \in [name : Mapping!Ids, content : Mapping!Ids, crossed : BOOLEAN]
    BY <1>0, <2>1 DEF Mapping!ReqType, Mapping!TabType
  <2>4. saved'.crossed \/ saved'.name = saved'.content
    BY <2>1, <2>2
  <2> QED
    BY <1>0, <1>1, <2>1, <2>3, <2>4, RequestChanges
<1>5. CASE Mapping!DownloadFails(s)
  <2>1. /\ mappingReq[s].kind = "download" /\ mappingReq' = [mappingReq EXCEPT ![s] = Mapping!NoReq]
        /\ UNCHANGED <<files, tab, mappingEpoch, saved>>
    BY <1>5 DEF Mapping!DownloadFails, Mapping!pageVars
  <2> QED
    BY <1>0, <1>1, <2>1, RequestChanges
<1> QED
  BY <1>2, <1>3, <1>4, <1>5

LEMMA MappingServed ==
    ASSUME Mapping!ConstantsFit, PageInv, CacheInOrder,
           Mapping!ServeOther \/ Mapping!Restart \/ \E s \in Slots : Mapping!ServeExecute(s) \/ Mapping!ServeDownload(s)
    PROVE  PageInv'
<1>0. /\ files \in BOOLEAN /\ tab \in Mapping!TabType /\ mappingEpoch \in 0..MaxLogouts
      /\ mappingReq \in [Slots -> Mapping!ReqType]
      /\ saved \in [name : Mapping!Ids, content : Mapping!Ids, crossed : BOOLEAN]
      /\ saved.crossed \/ saved.name = saved.content
  BY DEF PageInv, MappingTyped, Mapping!SavedFitsName
<1>1. CASE Mapping!ServeOther \/ Mapping!Restart
  <2>1. UNCHANGED <<files, tab, mappingEpoch, mappingReq, saved>>
    BY <1>1 DEF Mapping!ServeOther, Mapping!Restart, Mapping!pageVars
  <2> QED
    BY <2>1 DEF PageInv, MappingTyped, DownloadsFit, Mapping!DownloadFitsScreen, Mapping!BusyMeansMapping, Mapping!SavedFitsName
<1>2. ASSUME NEW s \in Slots, Mapping!ServeExecute(s) PROVE PageInv'
  <2>1. /\ mappingReq[s].kind = "execute" /\ UNCHANGED <<files, tab, mappingEpoch, saved>>
        /\ \/ made < MaxMappings /\ mappingReq' = [mappingReq EXCEPT ![s] = [mappingReq[s] EXCEPT !.code = "ok", !.id = made + 1]]
           \/ mappingReq' = [mappingReq EXCEPT ![s] = [mappingReq[s] EXCEPT !.code = "refused"]]
    BY <1>0, <1>2 DEF Mapping!ServeExecute, Mapping!pageVars
  <2>2. made < MaxMappings => made + 1 \in Mapping!Ids
    BY CacheNumbers DEF Mapping!Ids
  <2>3. mappingReq[s] \in Mapping!ReqType
    BY <1>0
  <2>4. CASE made < MaxMappings /\ mappingReq' = [mappingReq EXCEPT ![s] = [mappingReq[s] EXCEPT !.code = "ok", !.id = made + 1]]
    <3> DEFINE r == [mappingReq[s] EXCEPT !.code = "ok", !.id = made + 1]
    <3>1. r \in Mapping!ReqType /\ r.kind = "execute"
      BY <2>1, <2>2, <2>3, <2>4 DEF Mapping!ReqType
    <3>2. mappingReq' = [mappingReq EXCEPT ![s] = r]
      BY <2>4
    <3> HIDE DEF r
    <3> QED
      BY <1>0, <2>1, <3>1, <3>2, RequestChanges
  <2>5. CASE mappingReq' = [mappingReq EXCEPT ![s] = [mappingReq[s] EXCEPT !.code = "refused"]]
    <3> DEFINE r == [mappingReq[s] EXCEPT !.code = "refused"]
    <3>1. r \in Mapping!ReqType /\ r.kind = "execute"
      BY <2>1, <2>3 DEF Mapping!ReqType
    <3>2. mappingReq' = [mappingReq EXCEPT ![s] = r]
      BY <2>5
    <3> HIDE DEF r
    <3> QED
      BY <1>0, <2>1, <3>1, <3>2, RequestChanges
  <2> QED
    BY <2>1, <2>4, <2>5
<1>3. ASSUME NEW s \in Slots, Mapping!ServeDownload(s) PROVE PageInv'
  <2> DEFINE code == IF mappingReq[s].id \in Mapping!ToSet(mappingCache) THEN "ok" ELSE "refused"
             r == [mappingReq[s] EXCEPT !.code = code]
  <2>1. /\ mappingReq[s].kind = "download" /\ UNCHANGED <<files, tab, mappingEpoch, saved>>
        /\ mappingReq' = [mappingReq EXCEPT ![s] = r]
    BY <1>0, <1>3 DEF Mapping!ServeDownload, Mapping!pageVars
  <2>2. code \in {"ok", "refused"} /\ mappingReq[s] \in Mapping!ReqType
    BY <1>0
  <2> HIDE DEF code
  <2>3. r \in Mapping!ReqType /\ r.kind = "download" /\ r.crossed = mappingReq[s].crossed /\ r.id = mappingReq[s].id
    BY <2>1, <2>2 DEF Mapping!ReqType
  <2>4. ~mappingReq[s].crossed => mappingReq[s].id = tab.mappingId
    BY <2>1 DEF PageInv, DownloadsFit
  <2> HIDE DEF r
  <2> QED
    BY <1>0, <2>1, <2>3, <2>4, RequestChanges
<1> QED
  BY <1>1, <1>2, <1>3

LEMMA PageSteps ==
    ASSUME Mapping!ConstantsFit, PageInv,
           Mapping!ChooseFiles \/ Mapping!executeIoMapping \/ Mapping!downloadIoMapping \/ Mapping!doLogout \/ UNCHANGED Mapping!vars
    PROVE  PageInv'
<1>0. /\ files \in BOOLEAN /\ tab \in Mapping!TabType /\ mappingEpoch \in 0..MaxLogouts
      /\ mappingReq \in [Slots -> Mapping!ReqType]
      /\ saved \in [name : Mapping!Ids, content : Mapping!Ids, crossed : BOOLEAN]
      /\ saved.crossed \/ saved.name = saved.content
  BY DEF PageInv, MappingTyped, Mapping!SavedFitsName
<1>1. CASE Mapping!ChooseFiles \/ UNCHANGED Mapping!vars
  <2>1. UNCHANGED <<tab, mappingEpoch, mappingReq, saved>>
    BY <1>1 DEF Mapping!ChooseFiles, Mapping!vars, Mapping!pageVars
  <2>2. files' = files \/ files' = TRUE
    BY <1>1 DEF Mapping!ChooseFiles, Mapping!vars, Mapping!pageVars
  <2>3. files' \in BOOLEAN
    BY <1>0, <2>2
  <2> QED
    BY <2>1, <2>3 DEF PageInv, MappingTyped, DownloadsFit, Mapping!DownloadFitsScreen, Mapping!BusyMeansMapping, Mapping!SavedFitsName
<1>2. CASE Mapping!executeIoMapping
  <2> DEFINE r == [Mapping!NoReq EXCEPT !.kind = "execute"]
  <2>1. PICK s \in Slots : mappingReq[s].kind = "none" /\ mappingReq' = [mappingReq EXCEPT ![s] = r]
    BY <1>2 DEF Mapping!executeIoMapping
  <2>2. /\ tab' = [tab EXCEPT !.executing = TRUE, !.result = 0]
        /\ UNCHANGED <<files, mappingEpoch, saved>>
    BY <1>2 DEF Mapping!executeIoMapping
  <2>3. r \in Mapping!ReqType /\ r.kind = "execute"
    <3>1. Mapping!NoReq \in Mapping!ReqType
      BY DEF Mapping!NoReq, Mapping!ReqType, Mapping!Ids, Mapping!ConstantsFit
    <3> QED
      BY <3>1 DEF Mapping!ReqType
  <2>4. tab' \in Mapping!TabType /\ tab'.result = 0 /\ tab'.mappingId = tab.mappingId
    <3>1. 0 \in Mapping!Ids
      BY DEF Mapping!Ids, Mapping!ConstantsFit
    <3> QED
      BY <1>0, <2>2, <3>1 DEF Mapping!TabType
  <2> HIDE DEF r
  <2> QED
    BY <1>0, <2>1, <2>2, <2>3, <2>4, RequestChanges
<1>3. CASE Mapping!downloadIoMapping
  <2> DEFINE r == [Mapping!NoReq EXCEPT !.kind = "download", !.id = tab.mappingId]
  <2>1. PICK s \in Slots : mappingReq[s].kind = "none" /\ mappingReq' = [mappingReq EXCEPT ![s] = r]
    BY <1>3 DEF Mapping!downloadIoMapping
  <2>2. UNCHANGED <<files, tab, mappingEpoch, saved>>
    BY <1>3 DEF Mapping!downloadIoMapping, Mapping!pageVars
  <2>3. r \in Mapping!ReqType /\ r.kind = "download" /\ r.id = tab.mappingId
    <3>1. Mapping!NoReq \in Mapping!ReqType
      BY DEF Mapping!NoReq, Mapping!ReqType, Mapping!Ids, Mapping!ConstantsFit
    <3>2. tab.mappingId \in Mapping!Ids
      BY <1>0 DEF Mapping!TabType
    <3> QED
      BY <3>1, <3>2 DEF Mapping!ReqType
  <2> HIDE DEF r
  <2> QED
    BY <1>0, <2>1, <2>2, <2>3, RequestChanges
<1>4. CASE Mapping!doLogout
  <2>1. /\ mappingEpoch < MaxLogouts /\ mappingEpoch' = mappingEpoch + 1 /\ files' = FALSE /\ tab' = Mapping!NoTab /\ saved' = saved
        /\ mappingReq' = [q \in Slots |-> [mappingReq[q] EXCEPT !.crossed = mappingReq[q].kind = "download"]]
    BY <1>4 DEF Mapping!doLogout
  <2>2. Mapping!NoTab \in Mapping!TabType /\ Mapping!NoTab.executing = FALSE /\ Mapping!NoTab.result = 0
    BY DEF Mapping!NoTab, Mapping!TabType, Mapping!Ids, Mapping!ConstantsFit
  <2>3. ASSUME NEW q \in Slots
        PROVE  /\ [mappingReq[q] EXCEPT !.crossed = mappingReq[q].kind = "download"] \in Mapping!ReqType
               /\ [mappingReq[q] EXCEPT !.crossed = mappingReq[q].kind = "download"].kind = "download"
                    => [mappingReq[q] EXCEPT !.crossed = mappingReq[q].kind = "download"].crossed
    <3> DEFINE cr == mappingReq[q].kind = "download"
    <3>2. mappingReq[q] \in Mapping!ReqType /\ cr \in BOOLEAN
      BY <1>0
    <3> HIDE DEF cr
    <3>3. [mappingReq[q] EXCEPT !.crossed = cr] \in Mapping!ReqType /\ [mappingReq[q] EXCEPT !.crossed = cr].crossed = cr
          /\ [mappingReq[q] EXCEPT !.crossed = cr].kind = mappingReq[q].kind
      BY <3>2 DEF Mapping!ReqType
    <3> QED
      BY <3>3 DEF cr
  <2>4. mappingReq' \in [Slots -> Mapping!ReqType]
    BY <2>1, <2>3
  <2>5. mappingEpoch' \in 0..MaxLogouts
    <3>1. MaxLogouts \in Nat
      BY DEF Mapping!ConstantsFit
    <3>2. mappingEpoch' = mappingEpoch + 1 /\ mappingEpoch < MaxLogouts /\ mappingEpoch \in 0..MaxLogouts
      BY <1>0, <2>1
    <3> QED
      BY <3>1, <3>2
  <2>6. files' \in BOOLEAN
    BY <2>1
  <2>7. \A q \in Slots : mappingReq'[q].kind = "download" => mappingReq'[q].crossed
    BY <2>1, <2>3
  <2> QED
    BY <2>1, <2>2, <2>4, <2>5, <2>6, <2>7, TabChanges
<1> QED
  BY <1>1, <1>2, <1>3, <1>4

LEMMA MappingStep == ASSUME Mapping!ConstantsFit, MappingInv, [Mapping!Next]_(Mapping!vars) PROVE MappingInv'
<1>1. PageInv /\ CacheInOrder
  BY DEF MappingInv, PageInv
<1>2. PageInv'
  <2>1. CASE Mapping!ChooseFiles \/ Mapping!executeIoMapping \/ Mapping!downloadIoMapping \/ Mapping!doLogout \/ UNCHANGED Mapping!vars
    BY <1>1, <2>1, PageSteps
  <2>2. CASE Mapping!ServeOther \/ Mapping!Restart \/ \E s \in Slots : Mapping!ServeExecute(s) \/ Mapping!ServeDownload(s)
    BY <1>1, <2>2, MappingServed
  <2>3. CASE \E s \in Slots : Mapping!Mapped(s) \/ Mapping!MappingFails(s) \/ Mapping!Downloaded(s) \/ Mapping!DownloadFails(s)
    BY <1>1, <2>3, MappingEnds
  <2> QED
    BY <2>1, <2>2, <2>3 DEF Mapping!Next
<1>3. CacheInOrder'
  BY <1>1, CacheStep
<1> QED
  BY <1>2, <1>3 DEF MappingInv, PageInv

LEMMA MappingIsTrue == ASSUME Mapping!ConstantsFit, MappingInv PROVE Mapping!MappingsAreTrue
<1>0. /\ CacheMax \in Nat /\ CacheMax > 0 /\ MaxMappings \in Nat
      /\ made \in Nat /\ restarts \in Nat /\ made <= MaxMappings
      /\ Len(mappingCache) \in Nat /\ mappingCache \in Seq(Nat)
  BY CacheNumbers DEF MappingInv
<1>1. /\ restarts <= made /\ Len(mappingCache) <= CacheMax /\ Len(mappingCache) <= made - restarts
      /\ Len(mappingCache) = CacheMax \/ Len(mappingCache) = made - restarts
      /\ \A i \in 1 .. Len(mappingCache) : mappingCache[i] = made - Len(mappingCache) + i
  BY DEF MappingInv, CacheInOrder
<1>2. Mapping!ToSet(mappingCache) = {mappingCache[i] : i \in 1 .. Len(mappingCache)}
  <2>1. DOMAIN mappingCache = 1 .. Len(mappingCache)
    BY <1>0, LenProperties
  <2> QED
    BY <2>1 DEF Mapping!ToSet
<1> DEFINE n == Len(mappingCache)
<1> HIDE DEF n
<1>3. ASSUME NEW x \in Mapping!ToSet(mappingCache)
      PROVE  x \in {i \in Mapping!Ids \ {0} : made - CacheMax < i /\ restarts < i /\ i <= made}
  <2>1. PICK i \in 1 .. n : x = made - n + i
    BY <1>1, <1>2 DEF n
  <2>2. n \in Nat /\ n <= CacheMax /\ n <= made - restarts
    BY <1>0, <1>1 DEF n
  <2>3. x \in Nat /\ x > 0 /\ x <= made /\ made - CacheMax < x /\ restarts < x
    BY <1>0, <2>1, <2>2
  <2> QED
    BY <1>0, <2>3 DEF Mapping!Ids
<1>4. ASSUME NEW x \in Mapping!Ids \ {0}, made - CacheMax < x, restarts < x, x <= made
      PROVE  x \in Mapping!ToSet(mappingCache)
  <2>1. x \in Nat /\ n \in Nat /\ (n = CacheMax \/ n = made - restarts)
    BY <1>0, <1>1 DEF Mapping!Ids, n
  <2>2. x - (made - n) \in 1 .. n
    BY <1>0, <1>4, <2>1
  <2>3. made - n + (x - (made - n)) = x
    BY <1>0, <2>1
  <2>4. mappingCache[x - (made - n)] = x
    BY <1>1, <2>2, <2>3 DEF n
  <2> QED
    BY <1>2, <2>2, <2>4 DEF n
<1>5. Mapping!NewestResultsAreKept
  BY <1>3, <1>4 DEF Mapping!NewestResultsAreKept
<1> QED
  BY <1>5 DEF MappingInv, Mapping!MappingsAreTrue

LEMMA MappingIsKept == PartsSpec => [](view = "mapping" => MappingInv)
<1> DEFINE Kept == view = "mapping" => MappingInv
<1>1. PartsInit => Kept
  BY PartInits, MappingInit, EveryConstantFits
<1>2. ASSUME Kept, [PartsNext]_allVars PROVE Kept'
  <2>1. CASE view = "mapping"
    <3>1. MappingInv /\ [Mapping!Next]_(Mapping!vars)
      BY <1>2, <2>1, PartSteps
    <3>2. MappingInv'
      BY <3>1, MappingStep, EveryConstantFits
    <3> QED
      BY <3>2
  <2>2. CASE view # "mapping"
    BY <1>2, <2>2, PartSteps
  <2> QED
    BY <2>1, <2>2
<1> HIDE DEF Kept
<1>3. PartsSpec => []Kept
  BY <1>1, <1>2, PTL DEF PartsSpec
<1> QED
  BY <1>3, PTL DEF Kept

(* The server keeps the results made last, as many as it may; the download   *)
(* on offer is that of the result on the screen; and a file holds what its  *)
(* name says, unless the tab changed while it came - for any size of the    *)
(* cache, any number of results and of requests under way.                  *)
THEOREM MappingsAreWhatTheySay ==
    /\ PartsSpec => []MappingsAreTrue
    /\ Mapping!Spec => []Mapping!MappingsAreTrue
<1>1. (view = "mapping" => MappingInv) => MappingsAreTrue
  BY MappingIsTrue, EveryConstantFits DEF MappingsAreTrue
<1>2. PartsSpec => []MappingsAreTrue
  BY <1>1, MappingIsKept, PTL
<1>3. Mapping!Init => MappingInv
  BY MappingInit, EveryConstantFits
<1>4. MappingInv /\ [Mapping!Next]_(Mapping!vars) => MappingInv'
  BY MappingStep, EveryConstantFits
<1>5. MappingInv => Mapping!MappingsAreTrue
  BY MappingIsTrue, EveryConstantFits
<1>6. Mapping!Spec => []Mapping!MappingsAreTrue
  BY <1>3, <1>4, <1>5, PTL DEF Mapping!Spec
<1> QED
  BY <1>2, <1>6

-----------------------------------------------------------------------------
(* All parts together.                                                      *)

LEMMA ImportIsKept == ~FormalMayFail => (PartsSpec => []Inv)
<1> SUFFICES ASSUME ~FormalMayFail PROVE PartsSpec => []Inv
  OBVIOUS
<1>1. PartsInit => Inv
  BY InitInv DEF PartsInit
<1>2. Inv /\ [PartsNext]_allVars => Inv'
  BY StepInv, PartSteps
<1> QED
  BY <1>1, <1>2, PTL DEF PartsSpec

LEMMA MappingTypes ==
    ASSUME Mapping!ConstantsFit, MappingInv PROVE Mapping!TypeOK
<1>0. /\ CacheMax \in Nat /\ CacheMax > 0 /\ MaxMappings \in Nat
      /\ made \in Nat /\ restarts \in Nat /\ made <= MaxMappings
      /\ Len(mappingCache) \in Nat /\ mappingCache \in Seq(Nat)
  BY CacheNumbers DEF MappingInv
<1>1. /\ restarts <= made /\ Len(mappingCache) <= CacheMax /\ Len(mappingCache) <= made - restarts
      /\ \A i \in 1 .. Len(mappingCache) : mappingCache[i] = made - Len(mappingCache) + i
  BY DEF MappingInv, CacheInOrder
<1>2. ASSUME NEW i \in 1 .. Len(mappingCache)
      PROVE  mappingCache[i] \in Mapping!Ids \ {0}
  <2>1. mappingCache[i] = made - Len(mappingCache) + i
    BY <1>1
  <2>2. mappingCache[i] \in Nat /\ mappingCache[i] > 0 /\ mappingCache[i] <= MaxMappings
    BY <1>0, <1>1, <2>1
  <2> QED
    BY <1>0, <2>2 DEF Mapping!Ids
<1>3. mappingCache \in Seq(Mapping!Ids \ {0})
  <2>1. mappingCache \in [1 .. Len(mappingCache) -> Nat]
    BY <1>0, LenProperties
  <2>2. mappingCache \in [1 .. Len(mappingCache) -> Mapping!Ids \ {0}]
    BY <1>2, <2>1
  <2> QED
    BY <1>0, <2>2, SeqDef
<1>4. made \in Mapping!Ids /\ restarts \in 0 .. made
  BY <1>0, <1>1 DEF Mapping!Ids
<1> QED
  BY <1>1, <1>3, <1>4 DEF MappingInv, MappingTyped, Mapping!TypeOK

(* Every part of the server and of the page keeps its types - for any       *)
(* values of the constants, as long as the formal transaction does not fail *)
(* as a whole.                                                              *)
THEOREM PartsAreTyped == ASSUME ~FormalMayFail PROVE PartsSpec => []PartsTypeOK
<1> DEFINE Typing ==
      /\ Inv
      /\ view = "router" => RouterInv
      /\ view = "records" => RecordsInv
      /\ view = "lockout" => LockoutInv
      /\ view \in FormsViews => FormsInv
      /\ view = "mapping" => MappingInv
<1>1. Typing => PartsTypeOK
  <2> SUFFICES ASSUME Typing PROVE PartsTypeOK
    OBVIOUS
  <2>1. TypeOK
    BY DEF Inv
  <2>2. view = "router" => Router!TypeOK
    BY LocationsAreBounded, EveryConstantFits DEF RouterInv
  <2>3. view = "records" => Records!TypeOK
    BY DEF RecordsInv
  <2>4. view = "lockout" => Lockout!TypeOK
    BY DEF LockoutInv
  <2>5. view \in FormsViews => Forms!TypeOK
    BY FormsAreSound, EveryConstantFits
  <2>6. view = "mapping" => Mapping!TypeOK
    BY MappingTypes, EveryConstantFits
  <2> QED
    BY <2>1, <2>2, <2>3, <2>4, <2>5, <2>6 DEF PartsTypeOK
<1>2. PartsSpec => []Typing
  BY ImportIsKept, RouterIsKept, RecordsAreHeld, LockoutIsKept, FormsAreKept, MappingIsKept, PTL
<1> HIDE DEF Typing
<1> QED
  BY <1>1, <1>2, PTL
=============================================================================
