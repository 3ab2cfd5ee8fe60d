---------------------------- MODULE BrowserQuery ----------------------------
(***************************************************************************)
(* static/js/app.js: the query tab over the formal table tags, and the     *)
(* endpoints behind it: searches page by page, and the export.             *)
(*                                                                         *)
(* The search button and the pager are disabled while a search is out, the *)
(* Enter key in a condition is not: searches overlap, and their answers    *)
(* arrive in any order.  The table changes in between.  A condition is     *)
(* abstracted to the tags it matches.                                      *)
(***************************************************************************)
EXTENDS Integers, Sequences, FiniteSets

CONSTANTS Tags,          \* the tag ids that occur
          Conditions,    \* the conditions that occur
          Blank,         \* tagname contains '', which matches every tag
          Hits,          \* Conditions -> SUBSET Tags
          Tables,        \* the contents the table takes
          MaxConditions, \* 6
          PageSize,      \* 50
          ExportCap,     \* the page_size of an export, 10000
          Slots,         \* bound: requests under way at one time
          MaxWrites,     \* bound: changes of the table
          MaxEpoch       \* bound: logouts

(* What is assumed of the constants.                                        *)
ConstantsFit ==
    /\ IsFiniteSet(Tags)
    /\ Tags \subseteq Nat
    /\ Tables \subseteq SUBSET Tags
    /\ Blank \in Conditions
    /\ Hits \in [Conditions -> SUBSET Tags]
    /\ Hits[Blank] = Tags
    /\ {MaxConditions, PageSize, ExportCap} \subseteq Nat \ {0}
    /\ MaxWrites \in Nat
    /\ MaxEpoch \in Nat

VARIABLES tags,     \* the formal table
          writes,   \* its changes so far
          dbQuery,
          epoch,
          req,      \* the coroutines
          asked,    \* the model's: the newest search asked in this session
          shown,    \* the model's: the search whose rows are shown
          doubt     \* the model's: the newest search failed or was overtaken

vars == <<tags, writes, dbQuery, epoch, req, asked, shown, doubt>>

-----------------------------------------------------------------------------
(* The shapes of the data *)

ConditionLists == UNION {[1..n -> Conditions] : n \in 0..MaxConditions}
Filters == [conditions : ConditionLists, logic : {"AND", "OR"}]
Pages == 0..Cardinality(Tags)

Filter == [conditions |-> dbQuery.conditions, logic |-> dbQuery.logic]
NoFilter == [conditions |-> <<>>, logic |-> "AND"]
NoSearch == [filter |-> NoFilter, page |-> 0]
SearchType == [filter : Filters, page : Pages]

NoAnswer == [data |-> {}, total |-> 0, totalPages |-> 0, writes |-> 0]
AnswerType == [data : SUBSET Tags, total : Pages, totalPages : Pages, writes : 0..MaxWrites]

(* state: sent, ok (answered), or refused.  late: a newer search is out.    *)
NoReq == [kind |-> "none", search |-> NoSearch, state |-> "sent", answer |-> NoAnswer, late |-> FALSE]
ReqType == [kind : {"none", "search", "export"}, search : SearchType,
            state : {"sent", "ok", "refused"}, answer : AnswerType, late : BOOLEAN]

BlankQuery == [conditions |-> <<Blank>>, logic |-> "AND", page |-> 0, totalPages |-> 0, total |-> 0,
               loading |-> FALSE, exporting |-> FALSE, results |-> {}, writes |-> 0]

Init ==
    /\ tags \in Tables /\ writes = 0
    /\ dbQuery = BlankQuery
    /\ epoch = 0
    /\ req = [s \in Slots |-> NoReq]
    /\ asked = NoSearch /\ shown = NoSearch /\ doubt = FALSE

-----------------------------------------------------------------------------
(* search_formal_tags *)

Match(f) ==
    LET c == f.conditions
    IN  {t \in tags : IF f.logic = "AND" THEN \A i \in DOMAIN c : t \in Hits[c[i]]
                                         ELSE \E i \in DOMAIN c : t \in Hits[c[i]]}

(* ORDER BY tag_id DESC LIMIT size OFFSET page * size. *)
OnPage(found, page, size) ==
    {t \in found : Cardinality({u \in found : u > t}) \in page * size .. (page + 1) * size - 1}

PageCount(n) == (n + PageSize - 1) \div PageSize

SearchFormalTags(search) ==
    LET found == Match(search.filter)
    IN  [data |-> OnPage(found, search.page, PageSize), total |-> Cardinality(found),
         totalPages |-> PageCount(Cardinality(found)), writes |-> writes]

-----------------------------------------------------------------------------
(* The page *)

Edit(q) ==
    /\ dbQuery' = q
    /\ UNCHANGED <<tags, writes, epoch, req, asked, shown, doubt>>

addCondition ==
    /\ Len(dbQuery.conditions) < MaxConditions
    /\ Edit([dbQuery EXCEPT !.conditions = Append(@, Blank)])

(* removeCondition: the last one is replaced by a blank one. *)
removeCondition(i) ==
    LET c == dbQuery.conditions
        rest == SubSeq(c, 1, i - 1) \o SubSeq(c, i + 1, Len(c))
    IN  Edit([dbQuery EXCEPT !.conditions = IF rest = <<>> THEN <<Blank>> ELSE rest])

EditCondition(i, c) == Edit([dbQuery EXCEPT !.conditions[i] = c])
ChooseLogic(l) == Edit([dbQuery EXCEPT !.logic = l])

(* searchTags up to its request, at a page.  Older searches that are out    *)
(* are not the newest word any more.                                        *)
Ask(page) ==
    LET search == [filter |-> Filter, page |-> page]
    IN  /\ dbQuery' = [dbQuery EXCEPT !.page = page, !.loading = TRUE]
        /\ \E s \in Slots :
             /\ req[s].kind = "none"
             /\ req' = [q \in Slots |-> IF q = s THEN [NoReq EXCEPT !.kind = "search", !.search = search]
                                        ELSE [req[q] EXCEPT !.late = req[q].kind = "search"]]
        /\ asked' = search
        /\ UNCHANGED <<tags, writes, epoch, shown, doubt>>

(* A slip: a new search keeps the page of the old one.                      *)
SearchKeepsPage ==
    /\ UNCHANGED <<tags, writes, epoch, shown, doubt>>
    /\ dbQuery' = [dbQuery EXCEPT !.loading = TRUE, !.page = 0]
    /\ LET search == [filter |-> Filter, page |-> dbQuery.page]
       IN  /\ asked' = search
           /\ \E s \in Slots :
                /\ req[s].kind = "none"
                /\ req' = [req EXCEPT ![s] = [NoReq EXCEPT !.kind = "search", !.search = search]]

(* searchTags(true): the button, or Enter in a condition at any time. *)
searchTags == Ask(0)

(* The pager: page and search in one handler. *)
TurnPage(to) ==
    /\ dbQuery.results # {} /\ dbQuery.totalPages > 1 /\ ~dbQuery.loading
    /\ \/ to = dbQuery.page - 1 /\ dbQuery.page # 0
       \/ to = dbQuery.page + 1 /\ dbQuery.page < dbQuery.totalPages - 1
    /\ Ask(to)

exportTags ==
    /\ dbQuery.total > 0 /\ ~dbQuery.exporting
    /\ dbQuery' = [dbQuery EXCEPT !.exporting = TRUE]
    /\ \E s \in Slots :
         /\ req[s].kind = "none"
         /\ req' = [req EXCEPT ![s] = [NoReq EXCEPT !.kind = "export",
                                                    !.search = [filter |-> Filter, page |-> 0]]]
    /\ UNCHANGED <<tags, writes, epoch, asked, shown, doubt>>

(* A logout with its part of _resetState, and the next login. *)
doLogout ==
    /\ epoch < MaxEpoch
    /\ epoch' = epoch + 1
    /\ dbQuery' = BlankQuery
    /\ asked' = NoSearch /\ shown' = NoSearch /\ doubt' = FALSE
    /\ req' = [s \in Slots |-> [req[s] EXCEPT !.late = req[s].kind = "search"]]
    /\ UNCHANGED <<tags, writes>>

-----------------------------------------------------------------------------
(* The server *)

(* Tags are imported and deleted by other handlers. *)
Write(new) ==
    /\ writes < MaxWrites /\ new # tags
    /\ tags' = new /\ writes' = writes + 1
    /\ UNCHANGED <<dbQuery, epoch, req, asked, shown, doubt>>

(* pg_tags_search, or a failure of the database. *)
ServeSearch(s) ==
    /\ req[s].kind = "search" /\ req[s].state = "sent"
    /\ req' = [req EXCEPT ![s].state = "ok", ![s].answer = SearchFormalTags(req[s].search)]
    /\ UNCHANGED <<tags, writes, dbQuery, epoch, asked, shown, doubt>>

(* pg_tags_export: page 0 of size ExportCap; 404 when nothing matches.      *)
ServeExport(s) ==
    LET found == Match(req[s].search.filter)
        rows  == OnPage(found, 0, ExportCap)
    IN  /\ req[s].kind = "export" /\ req[s].state = "sent"
        /\ req' = [req EXCEPT ![s].state = IF rows = {} THEN "refused" ELSE "ok",
                              ![s].answer = [NoAnswer EXCEPT !.data = rows]]
        /\ UNCHANGED <<tags, writes, dbQuery, epoch, asked, shown, doubt>>

-----------------------------------------------------------------------------
(* Answers *)

SearchAnswered(s) ==
    LET a == req[s].answer
    IN  /\ req[s].kind = "search" /\ req[s].state = "ok"
        /\ dbQuery' = [dbQuery EXCEPT !.results = a.data, !.total = a.total, !.totalPages = a.totalPages,
                                      !.writes = a.writes, !.loading = FALSE]
        /\ shown' = req[s].search
        /\ doubt' = req[s].late
        /\ req' = [req EXCEPT ![s] = NoReq]
        /\ UNCHANGED <<tags, writes, epoch, asked>>

(* Lost or failed: the page number stays, and so do the old rows. *)
SearchFails(s) ==
    /\ req[s].kind = "search"
    /\ dbQuery' = [dbQuery EXCEPT !.loading = FALSE]
    /\ doubt' = (doubt \/ ~req[s].late)
    /\ req' = [req EXCEPT ![s] = NoReq]
    /\ UNCHANGED <<tags, writes, epoch, asked, shown>>

(* The file is saved, or the export was refused or lost. *)
ExportArrives(s) ==
    /\ req[s].kind = "export"
    /\ dbQuery' = [dbQuery EXCEPT !.exporting = FALSE]
    /\ req' = [req EXCEPT ![s] = NoReq]
    /\ UNCHANGED <<tags, writes, epoch, asked, shown, doubt>>

-----------------------------------------------------------------------------

Next ==
    \/ addCondition \/ searchTags \/ exportTags \/ doLogout
    \/ \E i \in DOMAIN dbQuery.conditions :
          removeCondition(i) \/ \E c \in Conditions : EditCondition(i, c)
    \/ \E l \in {"AND", "OR"} : ChooseLogic(l)
    \/ \E p \in Pages : TurnPage(p)
    \/ \E new \in Tables : Write(new)
    \/ \E s \in Slots : ServeSearch(s) \/ ServeExport(s) \/ SearchAnswered(s) \/ SearchFails(s) \/ ExportArrives(s)

Spec == Init /\ [][Next]_vars

-----------------------------------------------------------------------------
(* Properties *)

(* The conditions are never none: the server takes none as all tags. *)
TypeOK ==
    /\ tags \in Tables /\ writes \in 0..MaxWrites /\ epoch \in 0..MaxEpoch
    /\ dbQuery.conditions \in ConditionLists \ {<<>>}
    /\ dbQuery.page \in Pages /\ dbQuery.totalPages \in Pages /\ dbQuery.total \in Pages
    /\ dbQuery.results \subseteq Tags
    /\ \A b \in {dbQuery.loading, dbQuery.exporting, doubt} : b \in BOOLEAN
    /\ req \in [Slots -> ReqType]
    /\ {asked, shown} \subseteq SearchType

Searching == \E s \in Slots : req[s].kind = "search"

(* The pager and the buttons are never disabled for good: something is out  *)
(* that will free them.                                                     *)
DisabledMeansOut ==
    /\ dbQuery.loading => Searching
    /\ dbQuery.exporting => \E s \in Slots : req[s].kind = "export"

(* With no search out, and the newest one answered last, the rows and the   *)
(* page number on the screen are those of the newest search, also after     *)
(* overlapping searches, and after a logout none are there.                 *)
SettledRowsFitTheSearch ==
    ~Searching /\ ~doubt => shown = asked /\ dbQuery.page = shown.page

(* As long as the table has not changed since, the pages the pager reaches  *)
(* hold every tag that matches, and the page shown is one of them.          *)
PagesCoverMatches ==
    ~Searching /\ ~doubt /\ shown # NoSearch /\ dbQuery.writes = writes
      => LET found == Match(shown.filter)
         IN  /\ found = UNION {OnPage(found, p, PageSize) : p \in 0 .. dbQuery.totalPages - 1}
             /\ dbQuery.results = OnPage(found, shown.page, PageSize)

(* The rows, the page and the buttons belong to the newest search.          *)
ResultsFitTheSearch ==
    /\ DisabledMeansOut
    /\ SettledRowsFitTheSearch
    /\ PagesCoverMatches
=============================================================================
