------------------------- MODULE GatewayCallsProofs -------------------------
(***************************************************************************)
(* What a part without staging rows keeps, for any number of rows, of      *)
(* retries and of verified writes, whatever the gateway does with a PUT.   *)
(***************************************************************************)
EXTENDS GatewayCalls, FiniteSetTheorems, TLAPS

Types ==
  /\ kind \in Kinds /\ put \in {"partial", "replaces", "ignores"} /\ zero \in BOOLEAN
  /\ tags \in [Rows -> TagStates]
  /\ todo \in Selections
  /\ idx \in 0 .. Len(todo)
  /\ pc \in {"turn", "start", "row", "call", "backoff", "done"} /\ stage \in Stages
  /\ tries \in 0 .. MaxRetries /\ puts \in 0 .. idx
  /\ cancelled \in BOOLEAN
  /\ report \in [success : Nat, fail : Nat, skip : Nat, remaining : Nat]
  /\ spoiled \subseteq Rows /\ succeeded \subseteq Rows /\ lost \subseteq Rows

(* Where the worker is, and what it knows of the row it is at. *)
AtCall(s) == pc \in {"call", "backoff"} /\ stage = s
InRow == \E s \in Stages : AtCall(s)

Places ==
  /\ pc \in {"turn", "start"} => idx = 0
  /\ pc = "turn" => Len(todo) = N /\ kind = "fix"
  /\ InRow => idx > 0
  /\ InRow /\ stage # "verify" => puts < idx
  /\ AtCall("delete") => kind = "delete"
  /\ AtCall("read") => kind \in {"check", "fix"} /\ tags[Row] # "unfixable"
  /\ AtCall("write") => kind = "fix" /\ tags[Row] = "wrong"
  /\ AtCall("verify") => kind = "fix"

(* Every row is counted, is the one under way, or is still to come. *)
Counted == report.success + report.fail + report.skip + report.remaining
Account ==
  /\ pc = "turn" => Counted = 0
  /\ pc = "start" => report.success = 0 /\ report.fail = 0
  /\ pc \notin {"turn", "done"} => report.remaining = 0
  /\ pc \in {"start", "row"} => Counted + Len(todo) - idx = N
  /\ InRow => Counted + Len(todo) - idx + 1 = N
  /\ pc = "done" => Counted = N

(* At a gateway that does not update in part, the first write that returns *)
(* is confirmed at once, and stops the worker.                             *)
Breaker ==
  /\ put = "partial" => /\ spoiled = {}
                        /\ AtCall("verify") => tags[Row] = "right"
  /\ put # "partial" => /\ kind = "fix" => succeeded = {}
                        /\ puts > 0 => AtCall("verify") \/ pc = "done"
                        /\ AtCall("verify") => ~Confirmed
  /\ puts = 0 => spoiled \subseteq lost
  /\ \A r, s \in spoiled \ lost : r = s

Inv == Types /\ Places /\ Account /\ Breaker /\ ReportIsTrue

LEMMA SelectionsAreSequences ==
  ASSUME NEW s \in Selections
  PROVE  s \in Seq(Rows) /\ Len(s) \in 0 .. N /\ DOMAIN s = 1 .. Len(s)
BY CallsAssumption DEF Selections, Rows

LEMMA InitInv == Init => Inv
<1> SUFFICES ASSUME Init PROVE Inv
  OBVIOUS
<1>1. todo \in Selections /\ Len(todo) = N
  BY CallsAssumption DEF Init, Selections, Rows
<1>2. Types
  <2>1. idx \in 0 .. Len(todo) /\ tries \in 0 .. MaxRetries /\ puts \in 0 .. idx
    BY <1>1, CallsAssumption DEF Init
  <2>2. /\ pc \in {"turn", "start", "row", "call", "backoff", "done"} /\ stage \in Stages
        /\ report \in [success : Nat, fail : Nat, skip : Nat, remaining : Nat]
    BY DEF Init, Stages
  <2> QED
    BY <1>1, <2>1, <2>2 DEF Init, Types
<1>3. Places /\ Account
  BY <1>1, CallsAssumption DEF Init, Places, Account, Counted, InRow, AtCall
<1>4. Breaker /\ ReportIsTrue
  BY DEF Init, Breaker, AtCall, ReportIsTrue
<1> QED
  BY <1>2, <1>3, <1>4 DEF Inv

-----------------------------------------------------------------------------
(* Outside a call the breaker has nothing to confirm.                      *)
LEMMA QuietBreaker ==
  ASSUME Inv, UNCHANGED <<kind, put, tags, spoiled, lost, puts, succeeded>>,
         pc # "done", pc' \in {"start", "row", "done"}, ~AtCall("verify")
  PROVE  Breaker' /\ ReportIsTrue'
BY DEF Inv, Breaker, AtCall, ReportIsTrue

(* A part that ends before its first row. *)
LEMMA EndsAtOnce ==
  ASSUME Inv, pc' = "done", idx = 0,
         UNCHANGED <<fixed, gateway, call, todo, idx, cancelled, succeeded>>,
         report' \in [success : Nat, fail : Nat, skip : Nat, remaining : Nat], Counted' = N
  PROVE  Types' /\ Account'
BY DEF Inv, Types, Account, fixed, gateway, call, InRow, AtCall

LEMMA BeforeInv == Inv /\ Before => Inv'
<1> SUFFICES ASSUME Inv, Before PROVE Inv'
  OBVIOUS
<1>1. /\ pc \in {"turn", "start"} /\ idx = 0 /\ pc' \in {"start", "row", "done"}
      /\ UNCHANGED <<fixed, gateway, call, idx, cancelled, succeeded>>
  BY DEF Before, Recheck, RecheckFails, NothingToDo, CancelledBefore, LogIn, LoginFails, Start, Inv,
         Places, outcome
<1>2. Breaker' /\ ReportIsTrue'
  BY <1>1, QuietBreaker DEF fixed, gateway, call, AtCall
<1>3. Places'
  BY <1>1 DEF Places, InRow, AtCall, Before, Recheck, RecheckFails, NothingToDo, CancelledBefore,
              LogIn, LoginFails
<1>4. CASE Recheck
  <2>1. todo' \in Selections /\ Len(todo') \in 0 .. N
    BY <1>4, SelectionsAreSequences DEF Recheck
  <2>2. report' = [report EXCEPT !.skip = N - Len(todo')] /\ pc = "turn" /\ pc' = "start"
    BY <1>4 DEF Recheck
  <2>3. /\ report'.skip = N - Len(todo') /\ report'.success = report.success
        /\ report'.fail = report.fail /\ report'.remaining = report.remaining
    BY <2>2 DEF Inv, Types
  <2>4. Types'
    BY <1>1, <2>1, <2>2, CallsAssumption DEF Inv, Types, fixed, gateway, call
  <2>5. Account'
    BY <1>1, <2>1, <2>2, <2>3, CallsAssumption DEF Inv, Types, Account, Counted, InRow, AtCall
  <2> QED
    BY <1>2, <1>3, <2>4, <2>5 DEF Inv
<1>5. CASE ~Recheck
  <2>1. todo' = todo /\ Len(todo) \in 0 .. N
    BY <1>5, SelectionsAreSequences
    DEF Inv, Types, Before, RecheckFails, NothingToDo, CancelledBefore, LogIn, LoginFails
  <2>2. /\ report \in [success : Nat, fail : Nat, skip : Nat, remaining : Nat]
        /\ pc = "turn" => report.skip = 0
        /\ report.success = 0 /\ report.fail = 0
        /\ report.remaining = 0 /\ (todo = <<>> => Len(todo) = 0)
        /\ pc = "start" => report.skip + Len(todo) = N
    BY <1>1, <2>1, CallsAssumption DEF Inv, Types, Account, Counted
  <2>3. CASE RecheckFails
    <3>1. report' = [report EXCEPT !.fail = N] /\ pc = "turn" /\ pc' = "done"
      BY <2>3 DEF RecheckFails
    <3>2. report' \in [success : Nat, fail : Nat, skip : Nat, remaining : Nat] /\ Counted' = N
      BY <2>1, <2>2, <3>1, CallsAssumption DEF Counted
    <3>3. Types' /\ Account'
      BY <1>1, <2>1, <3>1, <3>2, EndsAtOnce
    <3> QED
      BY <1>2, <1>3, <3>3 DEF Inv
  <2>4. CASE NothingToDo \/ LogIn
    <3>1. report' = report /\ pc = "start" /\ (pc' = "row" \/ (pc' = "done" /\ Len(todo) = 0))
      BY <2>2, <2>4 DEF NothingToDo, LogIn, Start, outcome
    <3> QED
      BY <1>1, <1>2, <1>3, <2>1, <2>2, <3>1, CallsAssumption
      DEF Inv, Types, Account, Counted, InRow, AtCall, fixed, gateway, call
  <2>5. CASE CancelledBefore
    <3>1. report' = [report EXCEPT !.remaining = Len(todo)] /\ pc = "start" /\ pc' = "done"
      BY <2>5 DEF CancelledBefore, Start
    <3>2. report' \in [success : Nat, fail : Nat, skip : Nat, remaining : Nat] /\ Counted' = N
      BY <2>1, <2>2, <3>1, CallsAssumption DEF Counted
    <3>3. Types' /\ Account'
      BY <1>1, <2>1, <3>1, <3>2, EndsAtOnce
    <3> QED
      BY <1>2, <1>3, <3>3 DEF Inv
  <2>6. CASE LoginFails
    <3>1. report' = [report EXCEPT !.fail = Len(todo)] /\ pc = "start" /\ pc' = "done"
      BY <2>6 DEF LoginFails, Start
    <3>2. report' \in [success : Nat, fail : Nat, skip : Nat, remaining : Nat] /\ Counted' = N
      BY <2>1, <2>2, <3>1, CallsAssumption DEF Counted
    <3>3. Types' /\ Account'
      BY <1>1, <2>1, <3>1, <3>2, EndsAtOnce
    <3> QED
      BY <1>2, <1>3, <3>3 DEF Inv
  <2> QED
    BY <1>5, <2>3, <2>4, <2>5, <2>6 DEF Before
<1> QED
  BY <1>4, <1>5

-----------------------------------------------------------------------------
(* A cancel touches nothing the invariant relates. *)
LEMMA CancelInv == Inv /\ Cancel => Inv'
<1> SUFFICES ASSUME Inv, Cancel PROVE Inv'
  OBVIOUS
<1>1. UNCHANGED <<kind, put, zero, tags, spoiled, lost, todo, idx, pc, stage, tries, puts, report,
                  succeeded>> /\ cancelled' = TRUE
  BY DEF Cancel, fixed, gateway, call, outcome
<1>2. Types' /\ Places' /\ Account'
  BY <1>1 DEF Inv, Types, Places, Account, Counted, InRow, AtCall, Row
<1>3. Breaker' /\ ReportIsTrue'
  BY <1>1 DEF Inv, Breaker, AtCall, Row, Confirmed, ReportIsTrue
<1> QED
  BY <1>2, <1>3 DEF Inv

(* So does a worker that raises: all rows count as failed. *)
LEMMA LoopRaisesInv == Inv /\ LoopRaises => Inv'
<1> SUFFICES ASSUME Inv, LoopRaises PROVE Inv'
  OBVIOUS
<1>1. /\ pc = "row" /\ pc' = "done"
      /\ UNCHANGED <<fixed, gateway, call, todo, idx, cancelled, succeeded>>
      /\ report' = [success |-> 0, fail |-> N, skip |-> 0, remaining |-> 0]
  BY DEF LoopRaises
<1>2. report' \in [success : Nat, fail : Nat, skip : Nat, remaining : Nat] /\ Counted' = N
  BY <1>1, CallsAssumption DEF Counted
<1>3. Types' /\ Account' /\ Places'
  BY <1>1, <1>2 DEF Inv, Types, Account, Places, InRow, AtCall, fixed, gateway, call
<1>4. Breaker' /\ ReportIsTrue'
  BY <1>1, QuietBreaker DEF fixed, gateway, call, AtCall
<1> QED
  BY <1>3, <1>4 DEF Inv

LEMMA LoopEndInv == Inv /\ (LoopEnds \/ LoopCancelled) => Inv'
<1> SUFFICES ASSUME Inv, LoopEnds \/ LoopCancelled PROVE Inv'
  OBVIOUS
<1>1. /\ pc = "row" /\ pc' = "done" /\ idx \in 0 .. Len(todo) /\ Len(todo) \in 0 .. N
      /\ UNCHANGED <<fixed, gateway, call, todo, idx, cancelled, succeeded>>
  BY SelectionsAreSequences DEF Inv, Types, LoopEnds, LoopCancelled, outcome
<1>2. /\ report.remaining = 0 /\ Counted + Len(todo) - idx = N
      /\ report \in [success : Nat, fail : Nat, skip : Nat, remaining : Nat]
  BY <1>1 DEF Inv, Types, Account
<1>3. report' \in [success : Nat, fail : Nat, skip : Nat, remaining : Nat] /\ Counted' = N
  <2>1. report' = [report EXCEPT !.remaining = Len(todo) - idx]
    BY <1>1, <1>2 DEF LoopEnds, LoopCancelled, outcome
  <2>2. Len(todo) - idx \in Nat /\ report.success + report.fail + report.skip + (Len(todo) - idx) = N
    BY <1>1, <1>2, CallsAssumption DEF Counted
  <2> QED
    BY <1>2, <2>1, <2>2 DEF Counted
<1>4. Types' /\ Account' /\ Places'
  BY <1>1, <1>3 DEF Inv, Types, Account, Places, InRow, AtCall, fixed, gateway, call
<1>5. Breaker' /\ ReportIsTrue'
  BY <1>1, QuietBreaker DEF fixed, gateway, call, AtCall
<1> QED
  BY <1>4, <1>5 DEF Inv

(* What ending a row does to the counters, and what it leaves to show. *)
Counts(r) ==
  \/ RowSucceeds(r)
  \/ UNCHANGED succeeded /\ (RowSkipped \/ RowFails)

LEMMA RowIsCounted ==
  ASSUME Inv, NEW r \in Rows, Counts(r)
  PROVE  /\ pc' = "row" /\ succeeded' \subseteq Rows
         /\ report' \in [success : Nat, fail : Nat, skip : Nat, remaining : Nat]
         /\ report'.remaining = report.remaining
         /\ Counted' = Counted + 1
<1>1. report \in [success : Nat, fail : Nat, skip : Nat, remaining : Nat]
  BY DEF Inv, Types
<1>2. succeeded \subseteq Rows
  BY DEF Inv, Types
<1> QED
  BY <1>1, <1>2 DEF Counts, RowSucceeds, RowSkipped, RowFails, Counted

LEMMA NextRowInv == Inv /\ NextRow => Inv'
<1> SUFFICES ASSUME Inv, NextRow PROVE Inv'
  OBVIOUS
<1> DEFINE r == todo[idx + 1]
<1>1. /\ pc = "row" /\ idx' = idx + 1 /\ idx \in 0 .. Len(todo) /\ Len(todo) \in 0 .. N
      /\ idx < Len(todo) /\ todo \in Seq(Rows)
      /\ UNCHANGED <<fixed, gateway, puts, todo, cancelled>>
  BY SelectionsAreSequences DEF Inv, Types, NextRow
<1>2. r \in Rows /\ Row' = r
  BY <1>1 DEF Row
<1>3. /\ report.remaining = 0 /\ Counted + Len(todo) - idx = N
  BY <1>1 DEF Inv, Account
<1>4. CASE Counts(r) /\ UNCHANGED <<stage, tries>> /\ (kind = "fix" => UNCHANGED succeeded)
           /\ (kind = "delete" => UNCHANGED succeeded)
  <2>1. /\ pc' = "row" /\ succeeded' \subseteq Rows
        /\ report' \in [success : Nat, fail : Nat, skip : Nat, remaining : Nat]
        /\ report'.remaining = 0 /\ Counted' = Counted + 1
    BY <1>2, <1>3, <1>4, RowIsCounted
  <2>2. Types'
    BY <1>1, <1>4, <2>1 DEF Inv, Types, fixed, gateway
  <2>3. Account' /\ Places'
    <3>1. Counted \in Nat
      BY DEF Inv, Types, Counted
    <3>2. Counted' + Len(todo) - idx' = N
      BY <1>1, <1>3, <2>1, <3>1, CallsAssumption
    <3> QED
      BY <1>1, <2>1, <3>2 DEF Account, Places, InRow, AtCall
  <2>4. Breaker' /\ ReportIsTrue'
    BY <1>1, <1>4, <2>1 DEF Inv, Breaker, AtCall, ReportIsTrue, fixed, gateway
  <2> QED
    BY <2>2, <2>3, <2>4 DEF Inv
<1>5. CASE /\ UNCHANGED outcome
           /\ \/ kind = "delete" /\ Calls("delete")
              \/ kind \in {"check", "fix"} /\ tags[r] # "unfixable" /\ Calls("read")
  <2>1. pc' = "call" /\ stage' \in {"delete", "read"} /\ tries' = 0 /\ UNCHANGED outcome
    BY <1>5 DEF Calls
  <2>2. Types'
    BY <1>1, <2>1, CallsAssumption DEF Inv, Types, Stages, fixed, gateway, outcome
  <2>3. Account'
    BY <1>1, <1>3, <2>1 DEF Inv, Types, Account, Counted, InRow, AtCall, Stages, outcome
  <2>4. Places'
    <3>1. puts \in 0 .. idx
      BY DEF Inv, Types
    <3> QED
      BY <1>1, <1>2, <1>5, <2>1, <3>1 DEF Places, InRow, AtCall, Calls, fixed, gateway
  <2>5. Breaker' /\ ReportIsTrue'
    BY <1>1, <2>1 DEF Inv, Breaker, AtCall, ReportIsTrue, fixed, gateway, outcome
  <2> QED
    BY <2>2, <2>3, <2>4, <2>5 DEF Inv
<1> QED
  <2>1. kind \in Kinds
    BY DEF Inv, Types
  <2>2. CASE kind = "rehearse"
    BY <1>4, <2>2 DEF NextRow, Counts, LooksBeforeLogin
  <2>3. CASE kind = "delete"
    BY <1>5, <2>3 DEF NextRow, LooksBeforeLogin
  <2>4. CASE kind \in {"check", "fix"} /\ tags[r] = "unfixable"
    BY <1>4, <2>4 DEF NextRow, Counts, LooksBeforeLogin, RowFails
  <2>5. CASE kind \in {"check", "fix"} /\ tags[r] # "unfixable"
    BY <1>5, <2>5 DEF NextRow, LooksBeforeLogin
  <2> QED
    BY <2>1, <2>2, <2>3, <2>4, <2>5 DEF Kinds

-----------------------------------------------------------------------------
(* How a call ends.  All calls leave alone what the row is and where the   *)
(* loop stands.                                                            *)

LEMMA AtRow ==
  ASSUME Inv, InRow
  PROVE  /\ idx \in 1 .. Len(todo) /\ Len(todo) \in 0 .. N /\ Row \in Rows
         /\ Counted \in Nat /\ report.remaining = 0 /\ Counted + Len(todo) - idx + 1 = N
         /\ pc \in {"call", "backoff"}
<1>1. idx \in 0 .. Len(todo) /\ idx > 0 /\ Len(todo) \in 0 .. N /\ todo \in Seq(Rows)
  BY SelectionsAreSequences DEF Inv, Types, Places
<1>2. Row \in Rows
  BY <1>1 DEF Row
<1>3. Counted \in Nat
  BY DEF Inv, Types, Counted
<1> QED
  BY <1>1, <1>2, <1>3 DEF Inv, Account, InRow, AtCall

(* A row that ends moves from under way to counted. *)
LEMMA RowEndCounts ==
  ASSUME Inv, InRow, Counts(Row),
         tags' \in [Rows -> TagStates], spoiled' \subseteq Rows, lost' \subseteq Rows,
         puts' \in 0 .. idx, UNCHANGED <<fixed, stage, tries, todo, idx, cancelled>>
  PROVE  Types' /\ Places' /\ Account'
<1>1. /\ pc' = "row" /\ succeeded' \subseteq Rows
      /\ report' \in [success : Nat, fail : Nat, skip : Nat, remaining : Nat]
      /\ report'.remaining = 0 /\ Counted' = Counted + 1
  BY AtRow, RowIsCounted
<1>2. Types'
  BY <1>1 DEF Inv, Types, fixed
<1>3. Counted' + Len(todo) - idx = N
  BY <1>1, AtRow
<1> QED
  BY <1>1, <1>2, <1>3 DEF Account, Places, InRow, AtCall

(* So does the row that stops the worker, with all behind it. *)
LEMMA AbortCounts ==
  ASSUME Inv, InRow, Abort, UNCHANGED <<fixed, tags, spoiled, lost, call, todo, idx, cancelled>>
  PROVE  Types' /\ Places' /\ Account'
<1>1. report \in [success : Nat, fail : Nat, skip : Nat, remaining : Nat]
  BY DEF Inv, Types
<1>2. /\ pc' = "done" /\ UNCHANGED succeeded
      /\ report' = [report EXCEPT !.fail = @ + 1, !.remaining = Len(todo) - idx]
  BY DEF Abort
<1>3. Len(todo) - idx \in Nat /\ report.success + report.fail + 1 + report.skip + (Len(todo) - idx) = N
  BY <1>1, AtRow, CallsAssumption DEF Counted
<1>4. /\ report' \in [success : Nat, fail : Nat, skip : Nat, remaining : Nat]
      /\ Counted' = N
  <2>1. /\ report'.success = report.success /\ report'.fail = report.fail + 1
        /\ report'.skip = report.skip /\ report'.remaining = Len(todo) - idx
    BY <1>1, <1>2
  <2>2. report' \in [success : Nat, fail : Nat, skip : Nat, remaining : Nat]
    <3>1. report' = [success |-> report.success, fail |-> report.fail + 1, skip |-> report.skip,
                     remaining |-> Len(todo) - idx]
      BY <1>1, <1>2
    <3>2. report.success \in Nat /\ report.fail + 1 \in Nat /\ report.skip \in Nat
      BY <1>1
    <3> QED
      BY <1>3, <3>1, <3>2
  <2>3. report.success \in Nat /\ report.fail \in Nat /\ report.skip \in Nat
    BY <1>1
  <2> QED
    BY <1>3, <2>1, <2>2, <2>3 DEF Counted
<1>5. Types'
  BY <1>2, <1>4 DEF Inv, Types, fixed, call
<1> QED
  BY <1>2, <1>4, <1>5 DEF Account, Places, InRow, AtCall

(* A call that leads to the next call, or waits, counts nothing. *)
LEMMA CallGoesOn ==
  ASSUME Inv, InRow, pc' \in {"call", "backoff"}, stage' \in Stages, tries' \in 0 .. MaxRetries,
         puts' \in 0 .. idx, tags' \in [Rows -> TagStates], spoiled' \subseteq Rows,
         UNCHANGED <<fixed, lost, outcome, todo, idx, cancelled>>
  PROVE  Types' /\ Account'
<1>1. Types'
  BY DEF Inv, Types, fixed, outcome
<1>2. Counted' = Counted /\ report' = report
  BY DEF Counted, outcome
<1> QED
  BY <1>1, <1>2, AtRow DEF Account

(* A row that ends outside the breaker's reach. *)
LEMMA RowEndQuiet ==
  ASSUME Inv, UNCHANGED <<kind, put, tags, spoiled, lost, puts>>, pc # "done", pc' = "row",
         ~AtCall("verify"), succeeded' = succeeded \/ kind \notin {"fix", "delete"}
  PROVE  Breaker' /\ ReportIsTrue'
BY DEF Inv, Breaker, AtCall, ReportIsTrue

-----------------------------------------------------------------------------
(* The calls.                                                              *)

LEMMA ReadInv == Inv /\ ReadAnswered => Inv'
<1> SUFFICES ASSUME Inv, ReadAnswered PROVE Inv'
  OBVIOUS
<1>1. /\ pc = "call" /\ AtCall("read") /\ InRow /\ ~AtCall("verify")
      /\ UNCHANGED <<fixed, tags, spoiled, lost, puts, todo, idx, cancelled>>
  BY DEF ReadAnswered, Returns, AtCall, InRow, Stages
<1>2. kind \in {"check", "fix"} /\ tags[Row] # "unfixable" /\ Row \in Rows /\ Row' = Row
  BY <1>1, AtRow DEF Inv, Places, Row
<1>3. /\ tags \in [Rows -> TagStates] /\ spoiled \subseteq Rows /\ lost \subseteq Rows
      /\ puts \in 0 .. idx
  BY DEF Inv, Types
<1>4. CASE /\ Counts(Row) /\ UNCHANGED <<stage, tries>>
           /\ succeeded' = succeeded \/ kind = "check"
  <2>1. Types' /\ Places' /\ Account'
    BY <1>1, <1>3, <1>4, RowEndCounts
  <2>2. pc' = "row"
    BY <1>4 DEF Counts, RowSucceeds, RowSkipped, RowFails
  <2>3. Breaker' /\ ReportIsTrue'
    BY <1>1, <1>2, <1>4, <2>2, RowEndQuiet DEF fixed
  <2> QED
    BY <2>1, <2>3 DEF Inv
<1>5. CASE kind = "fix" /\ tags[Row] = "wrong" /\ Calls("write") /\ UNCHANGED outcome
  <2>1. pc' = "call" /\ stage' = "write" /\ tries' = 0
    BY <1>5 DEF Calls
  <2>2. Types' /\ Account'
    BY <1>1, <1>3, <1>5, <2>1, CallGoesOn, CallsAssumption DEF Stages
  <2>3. puts < idx
    BY <1>1 DEF Inv, Places, AtCall
  <2>4. Places'
    BY <1>1, <1>2, <1>5, <2>1, <2>3, AtRow DEF Places, AtCall, InRow, fixed
  <2>5. Breaker' /\ ReportIsTrue'
    BY <1>1, <1>5, <2>1 DEF Inv, Breaker, AtCall, ReportIsTrue, fixed, outcome
  <2> QED
    BY <2>2, <2>4, <2>5 DEF Inv
<1> QED
  <2>1. tags[Row] \in TagStates
    BY <1>2, <1>3
  <2>2. CASE tags[Row] \in {"absent", "unreadable"}
    BY <1>4, <2>2 DEF ReadAnswered, Counts, RowFails
  <2>3. CASE tags[Row] = "right" /\ kind = "fix"
    BY <1>4, <2>3 DEF ReadAnswered, Counts, RowSkipped
  <2>4. CASE tags[Row] = "wrong" /\ kind = "fix"
    BY <1>5, <2>4 DEF ReadAnswered
  <2>5. CASE tags[Row] \in {"right", "wrong"} /\ kind = "check"
    BY <1>4, <2>5 DEF ReadAnswered, Counts
  <2> QED
    BY <1>2, <2>1, <2>2, <2>3, <2>4, <2>5 DEF TagStates

(* What is known when the gateway has done a PUT. *)
LEMMA PutFacts ==
  ASSUME Inv, AtCall("write"), PutDone
  PROVE  /\ tags' \in [Rows -> TagStates] /\ spoiled' \subseteq spoiled \cup {Row}
         /\ kind = "fix" /\ Row \in Rows /\ spoiled \subseteq Rows
         /\ puts \in 0 .. idx /\ puts < idx
         /\ put = "partial" => spoiled' = {} /\ tags'[Row] = "right"
         /\ put # "partial" => puts = 0 /\ spoiled \subseteq lost /\ succeeded = {}
         /\ put = "replaces" => Row \in spoiled'
         /\ put = "ignores" => tags'[Row] = "wrong"
         /\ put \in {"partial", "replaces", "ignores"}
         /\ \A r \in Rows : tags[r] = "right" => tags'[r] = "right"
<1>1. InRow /\ stage = "write" /\ pc # "done" /\ ~AtCall("verify")
  BY DEF InRow, AtCall, Stages
<1>2. /\ Row \in Rows /\ tags \in [Rows -> TagStates] /\ spoiled \subseteq Rows
      /\ puts \in 0 .. idx /\ put \in {"partial", "replaces", "ignores"}
  BY <1>1, AtRow DEF Inv, Types
<1>3. kind = "fix" /\ tags[Row] = "wrong" /\ puts < idx
  BY <1>1 DEF Inv, Places
<1>4. /\ put = "partial" => spoiled = {}
      /\ put # "partial" => puts = 0 /\ spoiled \subseteq lost /\ succeeded = {}
  BY <1>1, <1>2, <1>3 DEF Inv, Breaker
<1> QED
  BY <1>2, <1>3, <1>4 DEF PutDone, TagStates

LEMMA WriteInv == Inv /\ WriteAnswered => Inv'
<1> SUFFICES ASSUME Inv, WriteAnswered PROVE Inv'
  OBVIOUS
<1>1. /\ AtCall("write") /\ InRow /\ PutDone /\ puts' = puts + 1
      /\ UNCHANGED <<fixed, lost, todo, idx, cancelled>>
  BY DEF WriteAnswered, Returns, AtCall, InRow, Stages
<1>2. /\ tags' \in [Rows -> TagStates] /\ spoiled' \subseteq Rows /\ lost' \subseteq Rows
      /\ puts' \in 0 .. idx /\ Row' = Row /\ Row \in Rows
  BY <1>1, PutFacts DEF Inv, Types, Row
<1>3. \A r, q \in spoiled' \ lost' : r = q
  BY <1>1, PutFacts
<1>4. CASE puts' <= VerifyFirst
  <2>1. pc' = "call" /\ stage' = "verify" /\ tries' = 0 /\ UNCHANGED outcome
    BY <1>4 DEF WriteAnswered, Calls
  <2>2. Types' /\ Account'
    BY <1>1, <1>2, <2>1, CallGoesOn, CallsAssumption DEF Stages
  <2>3. Places'
    BY <1>1, <2>1, AtRow, PutFacts DEF Places, InRow, AtCall, fixed
  <2>4. Breaker'
    BY <1>1, <1>2, <1>3, <2>1, PutFacts DEF Breaker, AtCall, Confirmed, fixed, outcome
  <2>5. ReportIsTrue'
    BY <1>1, <2>1, PutFacts DEF Inv, Types, ReportIsTrue, fixed, outcome
  <2> QED
    BY <2>2, <2>3, <2>4, <2>5 DEF Inv
<1>5. CASE ~(puts' <= VerifyFirst)
  <2>1. RowSucceeds(Row) /\ UNCHANGED <<stage, tries>>
    BY <1>5 DEF WriteAnswered
  <2>2. Types' /\ Places' /\ Account'
    BY <1>1, <1>2, <2>1, RowEndCounts DEF Counts
  <2>3. put = "partial" /\ puts' # 0
    BY <1>1, <1>5, PutFacts, CallsAssumption
  <2>4. pc' = "row" /\ succeeded' = succeeded \cup {Row}
    BY <2>1 DEF RowSucceeds
  <2>5. Breaker'
    BY <1>1, <1>3, <2>3, <2>4, PutFacts DEF Breaker, AtCall, fixed
  <2>6. ReportIsTrue'
    BY <1>1, <2>3, <2>4, PutFacts DEF Inv, Types, ReportIsTrue, fixed
  <2> QED
    BY <2>2, <2>5, <2>6 DEF Inv
<1> QED
  BY <1>4, <1>5

LEMMA VerifyInv == Inv /\ VerifyAnswered => Inv'
<1> SUFFICES ASSUME Inv, VerifyAnswered PROVE Inv'
  OBVIOUS
<1>1. /\ AtCall("verify") /\ InRow
      /\ UNCHANGED <<fixed, tags, spoiled, lost, call, todo, idx, cancelled>>
  BY DEF VerifyAnswered, Returns, AtCall, InRow, Stages
<1>2. /\ tags \in [Rows -> TagStates] /\ spoiled \subseteq Rows /\ lost \subseteq Rows
      /\ puts \in 0 .. idx /\ kind = "fix"
  BY <1>1 DEF Inv, Types, Places
<1>3. CASE Confirmed
  <2>1. RowSucceeds(Row) /\ put = "partial"
    BY <1>1, <1>3 DEF VerifyAnswered, Inv, Breaker
  <2>2. Types' /\ Places' /\ Account'
    BY <1>1, <1>2, <2>1, RowEndCounts DEF Counts, call
  <2>3. pc' = "row" /\ succeeded' = succeeded \cup {Row}
    BY <2>1 DEF RowSucceeds
  <2>4. Breaker' /\ ReportIsTrue'
    BY <1>1, <1>2, <1>3, <2>1, <2>3 DEF Inv, Breaker, AtCall, ReportIsTrue, Confirmed, fixed, call
  <2> QED
    BY <2>2, <2>4 DEF Inv
<1>4. CASE ~Confirmed
  <2>1. Abort
    BY <1>4 DEF VerifyAnswered
  <2>2. Types' /\ Places' /\ Account'
    BY <1>1, <2>1, AbortCounts
  <2>3. Breaker' /\ ReportIsTrue'
    BY <1>1, <2>1 DEF Abort, Inv, Breaker, AtCall, ReportIsTrue, fixed, call
  <2> QED
    BY <2>2, <2>3 DEF Inv
<1> QED
  BY <1>3, <1>4

LEMMA DeleteInv == Inv /\ DeleteAnswered => Inv'
<1> SUFFICES ASSUME Inv, DeleteAnswered PROVE Inv'
  OBVIOUS
<1>1. /\ AtCall("delete") /\ InRow /\ TagGone /\ RowSucceeds(Row) /\ pc # "done" /\ ~AtCall("verify")
      /\ UNCHANGED <<fixed, lost, call, todo, idx, cancelled>>
  BY DEF DeleteAnswered, Returns, AtCall, InRow, Stages
<1>2. /\ tags \in [Rows -> TagStates] /\ spoiled \subseteq Rows /\ lost \subseteq Rows
      /\ puts \in 0 .. idx /\ kind = "delete" /\ Row \in Rows /\ succeeded \subseteq Rows
  BY <1>1, AtRow DEF Inv, Types, Places
<1>3. tags' = [tags EXCEPT ![Row] = "absent"] /\ spoiled' = spoiled
  BY <1>1 DEF TagGone
<1>4. Types' /\ Places' /\ Account'
  BY <1>1, <1>2, <1>3, RowEndCounts DEF Counts, call, TagStates
<1>5. pc' = "row" /\ succeeded' = succeeded \cup {Row}
  BY <1>1 DEF RowSucceeds
<1>6. Breaker'
  BY <1>1, <1>2, <1>3, <1>5 DEF Inv, Breaker, AtCall, fixed, call
<1>7. ReportIsTrue'
  BY <1>1, <1>2, <1>3, <1>5 DEF Inv, ReportIsTrue, fixed
<1> QED
  BY <1>4, <1>6, <1>7 DEF Inv

(* A call without effect that fails ends its row, and if it was to confirm *)
(* a write the part.                                                       *)
LEMMA CallFailedInv ==
  ASSUME Inv, InRow, CallFailed,
         UNCHANGED <<fixed, tags, spoiled, lost, call, todo, idx, cancelled>>
  PROVE  Inv'
<1>1. /\ tags \in [Rows -> TagStates] /\ spoiled \subseteq Rows /\ lost \subseteq Rows
      /\ puts \in 0 .. idx /\ pc # "done"
  BY AtRow DEF Inv, Types
<1>2. CASE stage = "verify"
  <2>1. Abort
    BY <1>2 DEF CallFailed
  <2>2. Types' /\ Places' /\ Account'
    BY <2>1, AbortCounts
  <2>3. Breaker' /\ ReportIsTrue'
    BY <2>1 DEF Abort, Inv, Breaker, AtCall, ReportIsTrue, fixed, call
  <2> QED
    BY <2>2, <2>3 DEF Inv
<1>3. CASE stage # "verify"
  <2>1. RowFails /\ pc' = "row" /\ UNCHANGED succeeded
    BY <1>3 DEF CallFailed, RowFails
  <2>2. Types' /\ Places' /\ Account'
    BY <1>1, <2>1, RowEndCounts DEF Counts, call
  <2>3. Breaker' /\ ReportIsTrue'
    BY <1>1, <1>3, <2>1, RowEndQuiet DEF AtCall, fixed, call
  <2> QED
    BY <2>2, <2>3 DEF Inv
<1> QED
  BY <1>2, <1>3

LEMMA CallLostInv == Inv /\ CallLost => Inv'
<1> SUFFICES ASSUME Inv, CallLost PROVE Inv'
  OBVIOUS
<1>1. /\ InRow /\ pc # "done" /\ ~AtCall("verify") /\ RowFails /\ pc' = "row"
      /\ lost' = lost \cup {Row} /\ UNCHANGED <<fixed, call, todo, idx, cancelled, succeeded>>
      /\ \/ AtCall("write") /\ PutDone
         \/ AtCall("delete") /\ TagGone
  BY DEF CallLost, Returns, AtCall, InRow, Stages, CallFailed, RowFails
<1>2. /\ tags \in [Rows -> TagStates] /\ spoiled \subseteq Rows /\ lost' \subseteq Rows
      /\ puts \in 0 .. idx /\ Row \in Rows /\ succeeded \subseteq Rows
  BY <1>1, AtRow DEF Inv, Types
<1>3. CASE AtCall("write") /\ PutDone
  <2>1. Types' /\ Places' /\ Account'
    BY <1>1, <1>2, <1>3, PutFacts, RowEndCounts DEF Counts, call
  <2>2. Breaker'
    BY <1>1, <1>2, <1>3, PutFacts DEF Inv, Breaker, AtCall, fixed, call
  <2>3. ReportIsTrue'
    BY <1>1, <1>2, <1>3, PutFacts DEF Inv, ReportIsTrue, fixed
  <2> QED
    BY <2>1, <2>2, <2>3 DEF Inv
<1>4. CASE AtCall("delete") /\ TagGone
  <2>1. tags' = [tags EXCEPT ![Row] = "absent"] /\ spoiled' = spoiled /\ kind = "delete"
    BY <1>4 DEF TagGone, Inv, Places
  <2>2. Types' /\ Places' /\ Account'
    BY <1>1, <1>2, <2>1, RowEndCounts DEF Counts, call, TagStates
  <2>3. Breaker'
    BY <1>1, <1>2, <2>1 DEF Inv, Breaker, AtCall, fixed, call
  <2>4. ReportIsTrue'
    BY <1>1, <1>2, <2>1 DEF Inv, ReportIsTrue, fixed
  <2> QED
    BY <2>2, <2>3, <2>4 DEF Inv
<1> QED
  BY <1>1, <1>3, <1>4

(* 429 and the sleep after it change nothing but the attempt. *)
LEMMA BackOffInv == Inv /\ (RateLimited \/ BackOffEnds) => Inv'
<1> SUFFICES ASSUME Inv, RateLimited \/ BackOffEnds PROVE Inv'
  OBVIOUS
<1>1. /\ InRow /\ pc' \in {"call", "backoff"} /\ tries' \in 0 .. MaxRetries
      /\ UNCHANGED <<fixed, tags, spoiled, lost, stage, puts, outcome, todo, idx, cancelled>>
  BY CallsAssumption
  DEF Inv, Types, RateLimited, BackOffEnds, Returns, InRow, AtCall, gateway, call
<1>2. /\ tags \in [Rows -> TagStates] /\ spoiled \subseteq Rows /\ puts \in 0 .. idx
      /\ stage \in Stages
  BY DEF Inv, Types
<1>3. Types' /\ Account'
  BY <1>1, <1>2, CallGoesOn
<1>4. pc \in {"call", "backoff"}
  BY <1>1, AtRow
<1>5. Places' /\ Breaker' /\ ReportIsTrue'
  BY <1>1, <1>4 DEF Inv, Places, InRow, AtCall, Row, Breaker, Confirmed, ReportIsTrue, fixed, outcome
<1> QED
  BY <1>3, <1>5 DEF Inv

LEMMA NextInv == Inv /\ [Next]_vars => Inv'
<1> SUFFICES ASSUME Inv, [Next]_vars PROVE Inv'
  OBVIOUS
<1>1. CASE UNCHANGED vars
  BY <1>1 DEF Inv, Types, Places, Account, Counted, InRow, AtCall, Row, Breaker, Confirmed,
              ReportIsTrue, vars
<1>2. CASE CallFails \/ BackOffCancelled
  BY <1>2, CallFailedInv
  DEF CallFails, BackOffCancelled, Returns, InRow, AtCall, gateway, Inv, Types
<1>3. CASE Next /\ ~(CallFails \/ BackOffCancelled)
  BY <1>3, BeforeInv, LoopRaisesInv, LoopEndInv, NextRowInv, CancelInv, ReadInv, WriteInv, VerifyInv, DeleteInv,
     CallLostInv, BackOffInv
  DEF Next, Worker, Loop, Call
<1> QED
  BY <1>1, <1>2, <1>3

-----------------------------------------------------------------------------
(* At most one tag is damaged: two would be equal. *)
LEMMA AtMostOne ==
  ASSUME Inv
  PROVE  DamageIsContained
<1>1. CASE spoiled \ lost = {}
  BY <1>1, FS_EmptySet DEF DamageIsContained
<1>2. CASE spoiled \ lost # {}
  <2>1. PICK r \in spoiled \ lost : spoiled \ lost = {r}
    BY <1>2 DEF Inv, Breaker
  <2>2. Cardinality({r}) = 1
    BY FS_Singleton
  <2> QED
    BY <2>1, <2>2 DEF DamageIsContained
<1> QED
  BY <1>1, <1>2

(* The counters stay within the number of rows. *)
LEMMA CountersAreBounded ==
  ASSUME Inv
  PROVE  TypeOK
<1>1. Types /\ Len(todo) \in 0 .. N /\ idx \in 0 .. Len(todo) /\ N \in Nat
  BY SelectionsAreSequences, CallsAssumption DEF Inv, Types
<1>2. Counted <= N
  <2>1. Counted \in Nat
    BY <1>1 DEF Types, Counted
  <2>2. CASE InRow
    BY <1>1, <2>1, <2>2, AtRow
  <2>3. CASE ~InRow
    BY <1>1, <2>1, <2>3 DEF Inv, Types, Account, InRow, AtCall, Stages
  <2> QED
    BY <2>2, <2>3
<1>3. report \in [success : 0 .. N, fail : 0 .. N, skip : 0 .. N, remaining : 0 .. N]
  BY <1>1, <1>2 DEF Types, Counted
<1> QED
  BY <1>1, <1>3 DEF Types, TypeOK

-----------------------------------------------------------------------------
(* What the gateway may still hear after a cancel: calls that came before  *)
(* the one under way, in the same row.                                     *)
Heard(s) == CASE s \in {"read", "delete"} -> 0 [] s = "write" -> 1 [] s = "verify" -> 2

Swift ==
  /\ late \in Nat
  /\ late # 0 => cancelled
  /\ pc \in {"turn", "start"} => late = 0
  /\ pc = "call" => late <= Heard(stage)
  /\ pc = "backoff" => late <= Heard(stage) + 1
  /\ CancelIsSwift

(* A call that ends adds one at most, and none before the cancel. *)
LEMMA ReturnIsHeard ==
  ASSUME Inv, Swift, \E s \in Stages : Returns(s), UNCHANGED <<kind, cancelled>>
  PROVE  /\ late' \in Nat /\ (late' # 0 => cancelled') /\ late' <= Heard(stage) + 1
         /\ kind' = "fix" => late' <= 3
         /\ kind' # "fix" => late' <= 1
<1>1. stage \in Stages /\ pc = "call" /\ late \in Nat /\ late <= Heard(stage)
  BY DEF Inv, Types, Returns, Swift
<1>2. late' = IF cancelled THEN late + 1 ELSE late
  BY DEF Returns
<1>3. kind # "fix" => stage \in {"read", "delete"}
  BY <1>1 DEF Inv, Places, AtCall, Stages
<1> QED
  BY <1>1, <1>2, <1>3 DEF Swift, Heard, Stages

LEMMA SwiftInv == Inv /\ Swift /\ [Next]_vars => Swift'
<1> SUFFICES ASSUME Inv, Swift, [Next]_vars PROVE Swift'
  OBVIOUS
<1>1. CASE UNCHANGED vars
  BY <1>1 DEF vars, Swift, CancelIsSwift, Heard
<1>2. CASE Before \/ LoopRaises \/ LoopEnds \/ LoopCancelled
  <2>1. pc \in {"turn", "start", "row"} /\ pc' \in {"start", "row", "done"}
        /\ UNCHANGED <<kind, late, cancelled>> /\ (pc' = "start" => pc = "turn")
    BY <1>2 DEF Before, Recheck, RecheckFails, NothingToDo, CancelledBefore, LogIn, LoginFails, Start,
                LoopRaises, LoopEnds, LoopCancelled, fixed, gateway
  <2> QED
    BY <2>1 DEF Swift, CancelIsSwift
<1>3. CASE NextRow
  <2>1. ~cancelled /\ UNCHANGED <<kind, late, cancelled>>
    BY <1>3 DEF NextRow, fixed, gateway
  <2>2. late = 0
    BY <2>1 DEF Swift
  <2>3. pc' = "row" \/ (pc' = "call" /\ stage' \in Stages)
    BY <1>3 DEF NextRow, RowSucceeds, RowFails, Calls, Stages
  <2> QED
    BY <2>1, <2>2, <2>3 DEF Swift, CancelIsSwift, Heard, Stages
<1>4. CASE ReadAnswered \/ WriteAnswered \/ VerifyAnswered \/ DeleteAnswered \/ CallFails \/ CallLost
  <2>1. (\E s \in Stages : Returns(s)) /\ UNCHANGED <<kind, cancelled>>
    BY <1>4 DEF ReadAnswered, WriteAnswered, VerifyAnswered, DeleteAnswered, CallFails, CallLost,
                fixed, Stages
  <2>2. \/ pc' \in {"row", "done"}
        \/ pc' = "call" /\ stage = "read" /\ stage' = "write"
        \/ pc' = "call" /\ stage = "write" /\ stage' = "verify"
    BY <1>4 DEF ReadAnswered, WriteAnswered, VerifyAnswered, DeleteAnswered, CallFails, CallLost,
                Returns, CallFailed, RowSucceeds, RowSkipped, RowFails, Abort, Calls
  <2>3. /\ late' \in Nat /\ (late' # 0 => cancelled') /\ late' <= Heard(stage) + 1
        /\ late' <= IF kind' = "fix" THEN 3 ELSE 1
    BY <2>1, ReturnIsHeard
  <2>4. pc' = "call" => late' <= Heard(stage')
    BY <2>2, <2>3 DEF Heard
  <2> QED
    BY <2>2, <2>3, <2>4 DEF Swift, CancelIsSwift
<1>5. CASE RateLimited
  <2>1. /\ (\E s \in Stages : Returns(s)) /\ UNCHANGED <<kind, cancelled, stage>> /\ pc' = "backoff"
    BY <1>5 DEF RateLimited, fixed
  <2> QED
    BY <2>1, ReturnIsHeard DEF Swift, CancelIsSwift, Heard
<1>6. CASE BackOffEnds
  <2>1. ~cancelled /\ pc' = "call" /\ UNCHANGED <<kind, late, cancelled, stage>> /\ stage \in Stages
    BY <1>6 DEF BackOffEnds, fixed, gateway, call, Inv, Types
  <2> QED
    BY <2>1 DEF Swift, CancelIsSwift, Heard, Stages
<1>7. CASE BackOffCancelled
  <2>1. pc' \in {"row", "done"} /\ UNCHANGED <<kind, late, cancelled>>
    BY <1>7 DEF BackOffCancelled, CallFailed, Abort, RowFails, fixed, gateway
  <2> QED
    BY <2>1 DEF Swift, CancelIsSwift
<1>8. CASE Cancel
  <2>1. cancelled' = TRUE /\ UNCHANGED <<kind, late, pc, stage>>
    BY <1>8 DEF Cancel, fixed, gateway, call
  <2> QED
    BY <2>1 DEF Swift, CancelIsSwift, Heard
<1> QED
  BY <1>1, <1>2, <1>3, <1>4, <1>5, <1>6, <1>7, <1>8 DEF Next, Worker, Loop, Call

(* Whatever the gateway does with a PUT, fails or limits, and whenever the *)
(* part is cancelled: the summary accounts for every row, what it reports  *)
(* as corrected or deleted is so, at most one tag is damaged, and after a  *)
(* cancel no more than the row under way reaches the gateway.              *)
THEOREM CallsAreHonest == Spec => [](TypeOK /\ CallsAreTrue)
<1>1. Inv /\ Swift => TypeOK /\ CallsAreTrue
  BY AtMostOne, CountersAreBounded
  DEF Inv, Account, Counted, ReportAddsUp, Swift, CallsAreTrue
<1>2. Init => Swift
  BY DEF Init, Swift, CancelIsSwift
<1> QED
  BY InitInv, NextInv, SwiftInv, <1>1, <1>2, PTL DEF Spec
=============================================================================
