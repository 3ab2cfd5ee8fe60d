------------------------------ MODULE PgImport ------------------------------
(***************************************************************************)
(* main.py: pg_execute_pg, the import of pending staging rows into the     *)
(* formal table and the Collector's table, with pg_client's import_formal, *)
(* import_collector_tags and delete_formal_by_tagnames; and Step 4 of the  *)
(* page (static/js/app.js: derivePg, executePg).                           *)
(*                                                                         *)
(* Three transactions on two databases, one after the other, and the       *)
(* process may die between any two.  The handler has no await, so no other *)
(* request runs meanwhile.  A row's data are a member of Contents, and the *)
(* row, its derived fields and what the two tables hold of them are one    *)
(* and the same content.  A row that an operator set to done by hand is    *)
(* "claimed" here; the code does not tell it from the others.  A commit    *)
(* whose answer is lost counts as failed without effect.                   *)
(*                                                                         *)
(* A logout opens the page's buttons while its requests are out, and what  *)
(* they bring is shown to the next user.  Bound: the page has one write    *)
(* and one preview under way at one time, as the buttons see to within a   *)
(* session; a second write of the next session, before the first one's     *)
(* answer, is to the server the write of another client.                   *)
(***************************************************************************)
EXTENDS Integers, FiniteSets

CONSTANTS Tags,          \* tag names
          Contents,      \* what a row may say of a tag
          None,          \* no content: not in the table
          HasCollector,  \* COLLECTOR_DB_DATABASE is set
          FormalMayFail, \* bound: the formal transaction may fail as a whole
          MaxEdits       \* bound: rows imported, or set by hand

ASSUME NoneAssumption == None \notin Contents
ASSUME FlagsAssumption == HasCollector \in BOOLEAN /\ FormalMayFail \in BOOLEAN
ASSUME BoundAssumption == MaxEdits \in Nat

VARIABLES staging,   \* scada_tag_config: content and pg_status
          formal,    \* the formal table
          collector, \* the Collector's table
          work,      \* the handler that runs
          pgDerive,  \* the page's Step 4
          exec,      \* the page's executePg and its request
          derive,    \* the page's derivePg, the user's and the one after a write
          edits

tables == <<staging, formal, collector>>
page == <<pgDerive, exec, derive>>
vars == <<tables, work, page, edits>>

-----------------------------------------------------------------------------

Stored == Contents \cup {None}
Marks == {"pending", "claimed", "skip"}
Statuses == Marks \cup {"done"}
NoRow == [content |-> None, status |-> "pending"]
Pending == {t \in Tags : staging[t] # NoRow /\ staging[t].status = "pending"}
Has(table) == {t \in Tags : table[t] # None}

(* Locals of pg_execute_pg: the rows, those the formal table took and those *)
(* new to it, the tag names of the errors so far.                           *)
Idle == [pc |-> "idle", mine |-> FALSE, rows |-> {}, new |-> {}, errors |-> {}]
Derivers == {"user", "after"}
NoPreview == [data |-> {}, loading |-> FALSE, executing |-> FALSE, result |-> "none"]

Init ==
    /\ staging = [t \in Tags |-> NoRow]
    /\ formal = [t \in Tags |-> None] /\ collector = [t \in Tags |-> None]
    /\ work = Idle
    /\ pgDerive = NoPreview
    /\ exec = [pc |-> "idle", answer |-> "none"]
    /\ derive = [d \in Derivers |-> [pc |-> "idle", rows |-> {}]]
    /\ edits = 0

-----------------------------------------------------------------------------
(* The staging table, between requests *)

(* import_staging: a row that is there already is left as it is. *)
Import(t, c) ==
    /\ work = Idle /\ edits < MaxEdits
    /\ staging[t] = NoRow
    /\ staging' = [staging EXCEPT ![t] = [content |-> c, status |-> "pending"]]
    /\ edits' = edits + 1
    /\ UNCHANGED <<formal, collector, work, page>>

(* A slip: a deletion is served while a write runs.                         *)
DeleteAnytime(t) ==
    /\ staging[t] # NoRow
    /\ staging' = [staging EXCEPT ![t] = NoRow]
    /\ UNCHANGED <<formal, collector, work, page, edits>>

Delete(t) ==
    /\ work = Idle /\ staging[t] # NoRow
    /\ staging' = [staging EXCEPT ![t] = NoRow]
    /\ UNCHANGED <<formal, collector, work, page, edits>>

(* pg_staging_update_status: any status, whatever the row has been through. *)
Mark(t, s) ==
    /\ work = Idle /\ edits < MaxEdits
    /\ staging[t] # NoRow
    /\ staging' = [staging EXCEPT ![t].status = s]
    /\ edits' = edits + 1
    /\ UNCHANGED <<formal, collector, work, page>>

-----------------------------------------------------------------------------
(* pg_execute_pg *)

Answered(outcome) ==
    /\ exec' = IF work.mine /\ exec.pc = "sent"
               THEN [exec EXCEPT !.pc = "served", !.answer = outcome] ELSE exec
    /\ work' = Idle
    /\ UNCHANGED <<pgDerive, derive, edits>>

(* It takes what is pending now, for the page or for another client. *)
Take(mine) ==
    /\ work = Idle /\ (mine => exec.pc = "sent")
    /\ IF Pending = {}
       THEN /\ exec' = IF mine THEN [exec EXCEPT !.pc = "served", !.answer = "ok"] ELSE exec
            /\ UNCHANGED work
       ELSE /\ work' = [Idle EXCEPT !.pc = "formal", !.mine = mine, !.rows = Pending]
            /\ UNCHANGED exec
    /\ UNCHANGED <<tables, pgDerive, derive, edits>>

Good == work.rows \ work.errors

(* Where it goes on after the formal table. *)
AfterFormal(good) == IF HasCollector /\ good # {} THEN "collector" ELSE "status"

Upsert(table, rows) == [t \in Tags |-> IF t \in rows THEN staging[t].content ELSE table[t]]

(* import_formal: each row in its savepoint, then the commit. *)
WriteFormal(bad) ==
    /\ work.pc = "formal"
    /\ bad \subseteq work.rows
    /\ formal' = Upsert(formal, work.rows \ bad)
    /\ work' = [work EXCEPT !.pc = AfterFormal(work.rows \ bad), !.errors = bad,
                            !.new = (work.rows \ bad) \ Has(formal)]
    /\ UNCHANGED <<staging, collector, page, edits>>

(* import_formal fails as a whole: nothing stays, and the one error it      *)
(* reports, _connection, is the name of no tag.  Some rows may count as     *)
(* newly inserted.                                                          *)
FormalFails(seen) ==
    /\ FormalMayFail /\ work.pc = "formal"
    /\ seen \subseteq work.rows \ Has(formal)
    /\ work' = [work EXCEPT !.pc = AfterFormal(work.rows), !.new = seen]
    /\ UNCHANGED <<tables, page, edits>>

(* import_collector_tags. *)
WriteCollector(bad) ==
    /\ work.pc = "collector"
    /\ bad \subseteq Good
    /\ collector' = Upsert(collector, Good \ bad)
    /\ work' = [work EXCEPT !.pc = "status", !.errors = @ \cup bad]
    /\ UNCHANGED <<staging, formal, page, edits>>

CollectorFails ==
    /\ work.pc = "collector"
    /\ work' = [work EXCEPT !.pc = "undo"]
    /\ UNCHANGED <<tables, page, edits>>

(* delete_formal_by_tagnames for the newly inserted, then a 500. *)
Undo ==
    /\ work.pc = "undo"
    /\ formal' = [t \in Tags |-> IF t \in work.new \cap Good THEN None ELSE formal[t]]
    /\ Answered("rolledback")
    /\ UNCHANGED <<staging, collector>>

(* The compensation fails; the answer is the same. *)
UndoFails ==
    /\ work.pc = "undo"
    /\ Answered("rolledback")
    /\ UNCHANGED tables

(* A slip: rows the Collector refused are done as well.                     *)
MarkDoneAnyway ==
    /\ work.pc = "status"
    /\ staging' = [t \in Tags |-> IF t \in work.rows THEN [staging[t] EXCEPT !.status = "done"] ELSE staging[t]]
    /\ Answered("ok")
    /\ UNCHANGED <<formal, collector>>

(* update_staging_status of the rows without an error, by their id. *)
MarkDone ==
    /\ work.pc = "status"
    /\ staging' = [t \in Tags |-> IF t \in Good THEN [staging[t] EXCEPT !.status = "done"] ELSE staging[t]]
    /\ Answered("ok")
    /\ UNCHANGED <<formal, collector>>

MarkDoneFails ==
    /\ work.pc = "status"
    /\ Answered("failed")
    /\ UNCHANGED tables

(* The process dies in the handler; the page's request fails. *)
Crash ==
    /\ work # Idle
    /\ Answered("failed")
    /\ UNCHANGED tables

-----------------------------------------------------------------------------
(* The page *)

(* The part of _resetState for this step, and the next login. *)
doLogout == pgDerive' = NoPreview /\ UNCHANGED <<tables, work, exec, derive, edits>>

(* derivePg up to its request: it clears the result of the last write. *)
BeginDerive(d, p) ==
    /\ derive' = [derive EXCEPT ![d].pc = "sent"]
    /\ pgDerive' = [p EXCEPT !.loading = TRUE, !.result = "none"]

(* The button is disabled while loading. *)
derivePg ==
    /\ ~pgDerive.loading /\ derive["user"].pc = "idle"
    /\ BeginDerive("user", pgDerive)
    /\ UNCHANGED <<tables, work, exec, edits>>

ServeDerive(d) ==
    /\ work = Idle /\ derive[d].pc = "sent"
    /\ derive' = [derive EXCEPT ![d] = [pc |-> "served", rows |-> Pending]]
    /\ UNCHANGED <<tables, work, pgDerive, exec, edits>>

(* The rest of derivePg; after a write also the end of executePg. *)
EndDerive(d, data) ==
    /\ derive' = [derive EXCEPT ![d] = [pc |-> "idle", rows |-> {}]]
    /\ pgDerive' = [pgDerive EXCEPT !.loading = FALSE, !.data = data,
                                    !.executing = IF d = "after" THEN FALSE ELSE @]
    /\ exec' = IF d = "after" THEN [exec EXCEPT !.pc = "idle"] ELSE exec
    /\ UNCHANGED <<tables, work, edits>>

DeriveArrives(d) == derive[d].pc = "served" /\ EndDerive(d, derive[d].rows)
DeriveFails(d) == derive[d].pc # "idle" /\ EndDerive(d, pgDerive.data)

(* executePg after the confirmation. *)
executePg ==
    /\ ~pgDerive.executing /\ pgDerive.data # {} /\ exec.pc = "idle"
    /\ pgDerive' = [pgDerive EXCEPT !.executing = TRUE, !.result = "none"]
    /\ exec' = [pc |-> "sent", answer |-> "none"]
    /\ UNCHANGED <<tables, work, derive, edits>>

(* The answer: its result is shown, then the preview is derived again. *)
Executed ==
    /\ exec.pc = "served" /\ exec.answer = "ok"
    /\ BeginDerive("after", [pgDerive EXCEPT !.result = "ok"])
    /\ exec' = [exec EXCEPT !.pc = "rederive"]
    /\ UNCHANGED <<tables, work, edits>>

ExecuteFails ==
    /\ exec.pc = "served" /\ exec.answer \in {"rolledback", "failed"}
    /\ pgDerive' = [pgDerive EXCEPT !.executing = FALSE, !.result = "error"]
    /\ exec' = [exec EXCEPT !.pc = "idle"]
    /\ UNCHANGED <<tables, work, derive, edits>>

(* The connection fails under the request; the server may go on with it, or *)
(* have done it already.                                                    *)
ExecuteLost ==
    /\ exec.pc \in {"sent", "served"}
    /\ pgDerive' = [pgDerive EXCEPT !.executing = FALSE, !.result = "error"]
    /\ exec' = [exec EXCEPT !.pc = "idle", !.answer = "failed"]
    /\ work' = [work EXCEPT !.mine = FALSE]
    /\ UNCHANGED <<tables, derive, edits>>

-----------------------------------------------------------------------------

Handler ==
    \/ \E mine \in BOOLEAN : Take(mine)
    \/ \E S \in SUBSET Tags : WriteFormal(S) \/ FormalFails(S) \/ WriteCollector(S)
    \/ CollectorFails \/ Undo \/ UndoFails \/ MarkDone \/ MarkDoneFails \/ Crash

Next ==
    \/ \E t \in Tags : Delete(t) \/ (\E c \in Contents : Import(t, c)) \/ \E s \in Marks : Mark(t, s)
    \/ Handler
    \/ \E d \in Derivers : ServeDerive(d) \/ DeriveArrives(d) \/ DeriveFails(d)
    \/ derivePg \/ executePg \/ Executed \/ ExecuteFails \/ ExecuteLost \/ doLogout

Spec == Init /\ [][Next]_vars

(* The handler runs to its end, the server answers what is sent, the        *)
(* coroutines of the page go on.                                            *)
ServeExec == Take(TRUE)
Continue ==
    \/ \E S \in SUBSET Tags : WriteFormal(S) \/ FormalFails(S) \/ WriteCollector(S)
    \/ CollectorFails \/ Undo \/ UndoFails \/ MarkDone \/ MarkDoneFails \/ Crash
Fairness ==
    /\ WF_vars(Continue) /\ SF_vars(ServeExec)
    /\ \A d \in Derivers : WF_vars(DeriveArrives(d) \/ DeriveFails(d))
    /\ WF_vars(Executed \/ ExecuteFails)
FairSpec == Spec /\ Fairness

-----------------------------------------------------------------------------
(* Properties *)

(* The tables, the handler and the page keep their types; in particular    *)
(* the rows a write holds stay pending until it ends.                      *)
TypeOK ==
    /\ staging \in [Tags -> [content : Stored, status : Statuses]]
    /\ formal \in [Tags -> Stored] /\ collector \in [Tags -> Stored]
    /\ work \in [pc : {"idle", "formal", "collector", "undo", "status"}, mine : BOOLEAN,
                 rows : SUBSET Tags, new : SUBSET Tags, errors : SUBSET Tags]
    /\ work.rows \subseteq Pending /\ work.new \cup work.errors \subseteq work.rows
    /\ pgDerive \in [data : SUBSET Tags, loading : BOOLEAN, executing : BOOLEAN,
                     result : {"none", "ok", "error"}]
    /\ exec \in [pc : {"idle", "sent", "served", "rederive"},
                 answer : {"none", "ok", "rolledback", "failed"}]
    /\ derive \in [Derivers -> [pc : {"idle", "sent", "served"}, rows : SUBSET Tags]]
    /\ edits \in 0..MaxEdits

(* A row that is done is in the formal table and, where there is one, in    *)
(* the Collector's, as the staging table has it - whatever failed on the    *)
(* way, wherever the process died and whatever was set by hand before -     *)
(* unless it is done because an operator said so.                           *)
DoneMeansWritten ==
    \A t \in Tags : staging[t].status = "done" =>
        formal[t] = staging[t].content /\ (HasCollector => collector[t] = staging[t].content)

(* The Collector polls no tag the formal table does not list: the table is  *)
(* written first, and the compensation never takes away what was there.     *)
CollectorWithinFormal == Has(collector) \subseteq Has(formal)

(* A write that was started ends, and the button comes back. *)
WriteEnds == pgDerive.executing ~> ~pgDerive.executing

(* The three tables agree on what was imported.                             *)
ImportIsTrue ==
    /\ DoneMeansWritten
    /\ CollectorWithinFormal
=============================================================================
