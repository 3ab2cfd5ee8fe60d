--------------------------- MODULE BrowserStaging ---------------------------
(***************************************************************************)
(* static/js/app.js: Step 2, the table of staging rows - pages, status     *)
(* filter, selection, deleting - against the staging table behind it.      *)
(*                                                                         *)
(* Every click that changes what should be shown starts loadStaging, which *)
(* is not disabled while another load is out: answers can arrive in any    *)
(* order, fail, or find the rows changed by an import or a task.  A logout *)
(* sets the tab back and leaves the requests that are out: loadStaging and *)
(* the two deletions do not look at the epoch, so what was asked in one    *)
(* session writes into the next.                                           *)
(*                                                                         *)
(* The three status filters are one; a row is pending or done.  Rows are   *)
(* numbered by id, the order of the server's pages.                        *)
(***************************************************************************)
EXTENDS Integers, Sequences, FiniteSets

CONSTANTS Ids,       \* ids the staging table may hold
          PageSize,  \* 50 in the code
          Slots,     \* bound: requests under way at one time
          NewRequests, \* bound: requests in a behaviour
          MaxEpoch   \* bound: logouts in a behaviour

(* What is assumed of the constants.                                        *)
ConstantsFit ==
    /\ Ids \subseteq Nat
    /\ IsFiniteSet(Ids)
    /\ PageSize \in Nat \ {0}
    /\ NewRequests \in Nat
    /\ MaxEpoch \in Nat

VARIABLES rows,     \* the staging table: the ids in it
          done,     \* the ids whose status is done
          table,    \* staging.data, total, totalPages
          page,     \* staging.page
          filter,   \* staging.filterTb, filterPg, filterScale
          selected, \* staging.selectedIds
          deleting, \* staging.deleting and staging.clearing
          epoch,    \* _taskEpoch: logouts so far
          req,      \* the coroutines
          made,     \* requests made so far
          shown,    \* the model's: the page and filter the table was asked for
          recent,   \* the model's: rows shown since the last load or logout
          overtaken,\* the model's: a load that was no longer the newest of its
                    \* session came last
          failed    \* the model's: the newest load failed

pageVars == <<table, page, filter, selected, deleting>>
ghosts == <<shown, recent, overtaken, failed>>
vars == <<rows, done, pageVars, epoch, req, made, ghosts>>

Filters == {"", "pending", "done"}
Flags == {"delete", "clear"}

-----------------------------------------------------------------------------

(* get_staging_list *)
Match(f) == {i \in rows : f = "" \/ (f = "done") = (i \in done)}
Before(S, i) == Cardinality({j \in S : j < i})
OnPage(S, p) == {i \in S : Before(S, i) \div PageSize = p}
Pages(S) == (Cardinality(S) + PageSize - 1) \div PageSize
Listing(f, p) == [data |-> OnPage(Match(f), p), total |-> Cardinality(Match(f)), totalPages |-> Pages(Match(f))]

Blank == [data |-> {}, total |-> 0, totalPages |-> 0]
(* ends: the flags that the coroutine clears in its finally once this load *)
(* is over.                                                                *)
NoReq == [kind |-> "none", served |-> FALSE, page |-> 0, filter |-> "", ids |-> {}, answer |-> Blank,
          late |-> FALSE, ends |-> {}]

ListingType == [data : SUBSET Ids, total : Nat, totalPages : Nat]
ReqType == [kind : {"none", "load"} \cup Flags, served : BOOLEAN, page : Int, filter : Filters,
            ids : SUBSET Ids, answer : ListingType, late : BOOLEAN, ends : SUBSET Flags]

Init ==
    /\ rows \in SUBSET Ids /\ done = {}
    /\ table = Blank
    /\ page = 0 /\ filter = "" /\ selected = {} /\ deleting = {}
    /\ epoch = 0
    /\ req = [s \in Slots |-> NoReq]
    /\ made = 0
    /\ shown = <<0, "">> /\ recent = {} /\ overtaken = FALSE /\ failed = FALSE

-----------------------------------------------------------------------------
(* The session: the part of _resetState for this tab, by the button or by a *)
(* 401, and the next login.  No load that is out is of the new session.     *)

doLogout ==
    /\ epoch < MaxEpoch
    /\ epoch' = epoch + 1
    /\ table' = Blank
    /\ page' = 0 /\ filter' = "" /\ selected' = {} /\ deleting' = {}
    /\ req' = [s \in Slots |-> [req[s] EXCEPT !.late = req[s].kind = "load"]]
    /\ shown' = <<0, "">> /\ recent' = {} /\ overtaken' = FALSE /\ failed' = FALSE
    /\ UNCHANGED <<rows, done, made>>

-----------------------------------------------------------------------------
(* Loading *)

Loads == {s \in Slots : req[s].kind = "load"}

(* The request; the loads that are out are no longer the newest. *)
Begin(s, p, f, ends) ==
    [q \in Slots |-> IF q = s THEN [NoReq EXCEPT !.kind = "load", !.page = p, !.filter = f, !.ends = ends]
                     ELSE [req[q] EXCEPT !.late = req[q].kind = "load"]]

(* A slip: the selection survives a load.                                   *)
LoadKeepsSelection(s, p, f, ends) ==
    /\ req' = Begin(s, p, f, ends)
    /\ selected' = selected
    /\ recent' = table.data

(* loadStaging up to its request. *)
Load(s, p, f, ends) ==
    /\ req' = Begin(s, p, f, ends)
    /\ selected' = {}
    /\ recent' = table.data

NewLoad(p, f) ==
    /\ made < NewRequests /\ made' = made + 1
    /\ \E s \in Slots : req[s].kind = "none" /\ Load(s, p, f, {})
    /\ page' = p /\ filter' = f
    /\ UNCHANGED <<rows, done, table, deleting, epoch, shown, overtaken, failed>>

Refresh == NewLoad(page, filter)

(* A filter: the page number stays. *)
ChooseFilter(f) == f # filter /\ NewLoad(page, f)

(* A slip: the first page has a previous one.                               *)
PreviousUnbounded == table.totalPages > 1 /\ NewLoad(page - 1, filter)

(* The pager, there when the table has several pages. *)
PreviousPage == table.totalPages > 1 /\ page > 0 /\ NewLoad(page - 1, filter)
NextPage == table.totalPages > 1 /\ page < table.totalPages - 1 /\ NewLoad(page + 1, filter)

LoadArrives(s) ==
    LET r == req[s]
    IN  /\ r.kind = "load" /\ r.served
        /\ table' = r.answer
        /\ shown' = <<r.page, r.filter>>
        /\ recent' = recent \cup r.answer.data
        /\ overtaken' = r.late
        /\ failed' = (failed /\ r.late)
        /\ req' = [req EXCEPT ![s] = NoReq]
        /\ deleting' = deleting \ r.ends
        /\ UNCHANGED <<rows, done, page, filter, selected, epoch, made>>

(* The load failed: logged to the console, and the table stays. *)
LoadFails(s) ==
    /\ req[s].kind = "load"
    /\ req' = [req EXCEPT ![s] = NoReq]
    /\ failed' = (failed \/ ~req[s].late)
    /\ deleting' = deleting \ req[s].ends
    /\ UNCHANGED <<rows, done, table, page, filter, selected, epoch, made, shown, recent, overtaken>>

-----------------------------------------------------------------------------
(* Selecting and deleting *)

(* toggleStagingRow *)
ToggleRow(i) ==
    /\ i \in table.data
    /\ selected' = IF i \in selected THEN selected \ {i} ELSE selected \cup {i}
    /\ UNCHANGED <<rows, done, table, page, filter, deleting, epoch, req, made, ghosts>>

(* toggleStagingSelectAll: the box is checked when as many rows are         *)
(* selected as are shown.                                                   *)
AllChecked == table.data # {} /\ Cardinality(selected) = Cardinality(table.data)
ToggleAll ==
    /\ table.data # {}
    /\ selected' = IF AllChecked THEN {} ELSE table.data
    /\ UNCHANGED <<rows, done, table, page, filter, deleting, epoch, req, made, ghosts>>

Submit(kind, ids) ==
    /\ made < NewRequests /\ made' = made + 1
    /\ kind \notin deleting
    /\ deleting' = deleting \cup {kind}
    /\ \E s \in Slots : req[s].kind = "none"
           /\ req' = [req EXCEPT ![s] = [NoReq EXCEPT !.kind = kind, !.ids = ids]]
    /\ UNCHANGED <<rows, done, table, page, filter, selected, epoch, ghosts>>

DeleteSelected == selected # {} /\ Submit("delete", selected)
ClearStaging == Submit("clear", {})

(* deleteSelectedStaging and clearStaging after their answer: the table is  *)
(* loaded again, and the button opens when that is over.                    *)
DeleteAnswered(s) ==
    /\ req[s].kind \in Flags /\ req[s].served
    /\ Load(s, page, filter, {req[s].kind})
    /\ UNCHANGED <<rows, done, table, page, filter, deleting, epoch, made, shown, overtaken, failed>>

DeleteFails(s) ==
    /\ req[s].kind \in Flags
    /\ deleting' = deleting \ {req[s].kind}
    /\ req' = [req EXCEPT ![s] = NoReq]
    /\ UNCHANGED <<rows, done, table, page, filter, selected, epoch, made, ghosts>>

-----------------------------------------------------------------------------
(* The server *)

Serve(s) ==
    LET r == req[s]
    IN  /\ r.kind # "none" /\ ~r.served
        /\ rows' = IF r.kind = "delete" THEN rows \ r.ids ELSE IF r.kind = "clear" THEN {} ELSE rows
        /\ done' = done \cap rows'
        /\ req' = [req EXCEPT ![s].served = TRUE,
                              ![s].answer = IF r.kind = "load" THEN Listing(r.filter, r.page) ELSE Blank]
        /\ UNCHANGED <<pageVars, epoch, made, ghosts>>

(* A task marks a row, or an import adds one (StagingWorkers). *)
RowDone(i) == i \in rows \ done /\ done' = done \cup {i} /\ UNCHANGED <<rows, pageVars, epoch, req, made, ghosts>>
Imported(i) == i \in Ids \ rows /\ rows' = rows \cup {i} /\ UNCHANGED <<done, pageVars, epoch, req, made, ghosts>>

-----------------------------------------------------------------------------

Arrives(s) == LoadArrives(s) \/ LoadFails(s) \/ DeleteAnswered(s) \/ DeleteFails(s)

Next ==
    \/ Refresh \/ PreviousPage \/ NextPage \/ ToggleAll \/ DeleteSelected \/ ClearStaging \/ doLogout
    \/ \E f \in Filters : ChooseFilter(f)
    \/ \E i \in Ids : ToggleRow(i) \/ RowDone(i) \/ Imported(i)
    \/ \E s \in Slots : Serve(s) \/ Arrives(s)

Spec == Init /\ [][Next]_vars

-----------------------------------------------------------------------------
(* Properties *)

(* The table, the page's listing and the requests keep their types.        *)
TypeOK ==
    /\ rows \subseteq Ids /\ done \subseteq rows
    /\ table \in ListingType
    /\ page \in Nat /\ filter \in Filters
    /\ selected \subseteq Ids /\ deleting \subseteq Flags
    /\ req \in [Slots -> ReqType]
    /\ epoch \in 0..MaxEpoch /\ made \in 0..NewRequests
    /\ shown \in Nat \X Filters /\ recent \subseteq Ids /\ overtaken \in BOOLEAN /\ failed \in BOOLEAN

(* A selected row was on the screen since the last load began, and in this  *)
(* session: deleting the selection never reaches further back than one      *)
(* load, nor beyond a logout.                                               *)
SelectionIsRecent == selected \subseteq recent

(* Once the newest load of the session has been answered last, the table    *)
(* shows the page and the filter that the controls show; a new session has  *)
(* an empty table.  Not so while a load of the session before came after    *)
(* the logout, whose rows nothing keeps out (app.js:413).                   *)
SettledTableFits == Loads = {} /\ ~overtaken /\ ~failed => shown = <<page, filter>>

(* What is shown is what was asked for, and what is selected was shown.     *)
TableIsSettled ==
    /\ SelectionIsRecent
    /\ SettledTableFits
=============================================================================
