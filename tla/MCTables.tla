------------------------------ MODULE MCTables ------------------------------
(***************************************************************************)
(* What the page shows, for TLC: the panel of a task (TaskPoll), and the   *)
(* tables, lists and files of its tabs.  They share nothing: a behaviour   *)
(* is about one of them, the view.                                         *)
(***************************************************************************)
EXTENDS TaskPoll, TLC

CONSTANTS RefTables, NoTable, MaxChanges, MaxLists,         \* BrowserLists
          Names, Unnamed, Files, SqlPage, MaxUploads,       \* BrowserFiles
          Tags, Conditions, Blank, Hits, Tables,            \* BrowserQuery
          MaxConditions, PageSize, ExportCap, MaxWrites,
          Slots, MaxEpoch,                                  \* all of them
          theTable, theSlot,  \* where one of them is enough
          n1, n2, Some        \* members of Names and Conditions

(* A file of one row, and one with a row without a name that is longer than *)
(* one statement.                                                           *)
TwoFiles == {<<n1>>, <<n1, Unnamed, n2>>}

(* A condition besides the blank one, which two of the three tags match.    *)
TwoConditions == (Blank :> Tags) @@ (Some :> {1, 3})

VARIABLES
    view,  \* the part the behaviour is about, besides those of TaskPoll
    version, listsToken, admin, listsEpoch, list, active, panel, listsReq,
    listsDoubt,
    filesEpoch, uploads, filesStored, filesTable, imp, del, filesReq,
    tags, writes, dbQuery, queryEpoch, queryReq, asked, queryShown,
    queryDoubt

Lists == INSTANCE BrowserLists WITH
    token <- listsToken, epoch <- listsEpoch, req <- listsReq,
    doubt <- listsDoubt
Imports == INSTANCE BrowserFiles WITH
    epoch <- filesEpoch, stored <- filesStored, table <- filesTable,
    req <- filesReq
Query == INSTANCE BrowserQuery WITH
    epoch <- queryEpoch, req <- queryReq, shown <- queryShown,
    doubt <- queryDoubt

ASSUME EveryConstantFits ==
    /\ ConstantsFit
    /\ Lists!ConstantsFit
    /\ Imports!ConstantsFit
    /\ Query!ConstantsFit

ListsViews == {"lists", "tabs", "changes"}
FilesViews == {"files", "logouts"}
QueryViews == {"query", "conditions", "writes"}
Views == {"poll"} \cup ListsViews \cup FilesViews \cup QueryViews

listsVars ==
    <<version, listsToken, admin, listsEpoch, list, active, panel, listsReq,
      listsDoubt>>
filesVars ==
    <<filesEpoch, uploads, filesStored, filesTable, imp, del, filesReq>>
queryVars ==
    <<tags, writes, dbQuery, queryEpoch, queryReq, asked, queryShown, queryDoubt>>
allVars == <<view, vars, listsVars, filesVars, queryVars>>

(* A part that the behaviour is not about has no state, or stays as it is   *)
(* at first.                                                                *)
Unused == "unused"
PartsInit ==
    /\ view \in Views
    /\ Init
    /\ IF view \in ListsViews THEN Lists!Init ELSE
              /\ version = Unused /\ listsToken = Unused /\ admin = Unused
              /\ listsEpoch = Unused /\ list = Unused /\ active = Unused
              /\ panel = Unused /\ listsReq = Unused /\ listsDoubt = Unused
    /\ IF view \in FilesViews THEN Imports!Init ELSE
              /\ filesEpoch = Unused /\ uploads = Unused
              /\ filesStored = Unused /\ filesTable = Unused /\ imp = Unused
              /\ del = Unused /\ filesReq = Unused
    /\ IF view \in QueryViews THEN Query!Init ELSE
              /\ tags = Unused /\ writes = Unused /\ dbQuery = Unused
              /\ queryEpoch = Unused /\ queryReq = Unused /\ asked = Unused
              /\ queryShown = Unused /\ queryDoubt = Unused

(* A step of a part: the others stay. *)
StepIn(component) ==
    /\ UNCHANGED view
    /\ IF component = "poll" THEN TRUE ELSE UNCHANGED vars
    /\ IF component = "lists" THEN TRUE ELSE UNCHANGED listsVars
    /\ IF component = "files" THEN TRUE ELSE UNCHANGED filesVars
    /\ IF component = "query" THEN TRUE ELSE UNCHANGED queryVars

(* Each part but the first is seen in several ways, as TLC cannot have all  *)
(* of it at once: the lists with a logout, with tabs or with changes; the   *)
(* files with two uploads or a logout; the query with two searches, with    *)
(* two conditions, or with writes and a logout.                             *)
OneTab == active' \in {theTable, NoTable}
OneList == Cardinality(Lists!InUse') <= 1
NoChange == version' = version
NoListsLogout == listsEpoch' = listsEpoch

OneUpload == Imports!Sent' <= 1
NoFilesLogout == filesEpoch' = filesEpoch

OneSearch == \A s \in Slots \ {theSlot} : queryReq'[s].kind = "none"
OneCondition == Len(dbQuery'.conditions) <= 1
NoWrites == writes' = writes
NoQueryLogout == queryEpoch' = queryEpoch

PartsNext ==
    \/ view = "poll" /\ StepIn("poll") /\ Next
    \/ view = "lists" /\ StepIn("lists") /\ Lists!Next
         /\ OneTab /\ OneList /\ NoChange
    \/ view = "tabs" /\ StepIn("lists") /\ Lists!Next
         /\ NoChange /\ NoListsLogout
    \/ view = "changes" /\ StepIn("lists") /\ Lists!Next
         /\ OneTab /\ OneList /\ NoListsLogout
    \/ view = "files" /\ StepIn("files") /\ Imports!Next /\ NoFilesLogout
    \/ view = "logouts" /\ StepIn("files") /\ Imports!Next /\ OneUpload
    \/ view = "query" /\ StepIn("query") /\ Query!Next
         /\ OneCondition /\ NoWrites /\ NoQueryLogout
    \/ view = "conditions" /\ StepIn("query") /\ Query!Next
         /\ OneSearch /\ NoWrites /\ NoQueryLogout
    \/ view = "writes" /\ StepIn("query") /\ Query!Next
         /\ OneSearch /\ OneCondition

PartsSpec == PartsInit /\ [][PartsNext]_allVars

(* Requests under way have no order: no part compares or chooses among the  *)
(* slots that carry them.                                                   *)
Symmetry == Permutations(Slots)

-----------------------------------------------------------------------------
(* The properties of the parts.  Each of them says as well that the part   *)
(* keeps its types.                                                        *)

(* The lists on the screen are their tables', and are kept current only     *)
(* while they are looked at.                                                *)
ListsAreCurrent ==
    view \in ListsViews => Lists!TypeOK /\ Lists!ListsAreCurrent

(* What stands under a file is about that file.                             *)
FilesKeepTheirResults ==
    view \in FilesViews => Imports!TypeOK /\ Imports!FilesKeepTheirResults

(* The rows, the page and the buttons belong to the newest search.          *)
ResultsFitTheSearch ==
    view \in QueryViews => Query!TypeOK /\ Query!ResultsFitTheSearch
=============================================================================
