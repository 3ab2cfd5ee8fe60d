------------------------------- MODULE MCPage -------------------------------
(***************************************************************************)
(* The parts of the page for TLC: the tasks of BrowserTasks, and parts     *)
(* that share nothing with them but the session, whose end each of them    *)
(* models.  A behaviour is about one of them, the view.                    *)
(***************************************************************************)
EXTENDS BrowserTasks, Sequences, TLC

CONSTANTS theRun,                          \* where one of BrowserTasks is enough
          Gateways, AnyGateway, Jobs,           \* BrowserPreview
          Ops, MaxVersion,
          Rows, Derivers, Values,          \* BrowserOverrides
          Emptied, Base, MaxEdits, Savers,
          Ids, PageSize, NewRequests,      \* BrowserStaging
          MaxChats, MaxMessages,           \* BrowserTools
          Slots                            \* both

VARIABLES
    view,  \* the part the behaviour is about, besides those of BrowserTasks
    world, previewToken, previewEpoch, gwList, previewSelected,
    routeDataVersion, preview, structureSync, previewJob, unheard,
    overridesStored, overridesTable, saver, saving, derive, loading,
    overridesEpoch, edits, touched, lost, raced,
    rows, done, stagingTable, page, filter, stagingSelected, deleting,
    stagingEpoch, stagingReq, made, stagingShown, recent, overtaken, failed,
    toolsToken, toolsValid, toolsEpoch, busy, status, chat, toolsJob

Preview == INSTANCE BrowserPreview WITH
    token <- previewToken, epoch <- previewEpoch,
    selected <- previewSelected, job <- previewJob, Auto <- AnyGateway
Overrides == INSTANCE BrowserOverrides WITH
    stored <- overridesStored, table <- overridesTable,
    epoch <- overridesEpoch, Cleared <- Emptied
Staging == INSTANCE BrowserStaging WITH
    table <- stagingTable, selected <- stagingSelected,
    epoch <- stagingEpoch, req <- stagingReq, shown <- stagingShown
Tools == INSTANCE BrowserTools WITH
    token <- toolsToken, valid <- toolsValid, epoch <- toolsEpoch,
    job <- toolsJob

ASSUME EveryConstantFits ==
    /\ ConstantsFit
    /\ Preview!ConstantsFit
    /\ Overrides!ConstantsFit
    /\ Staging!ConstantsFit
    /\ Tools!ConstantsFit

Views == {"tasks", "cancels", "preview", "scales", "overrides", "staging",
          "sessions", "tools"}
PreviewViews == {"preview", "scales"}
StagingViews == {"staging", "sessions"}

previewVars ==
    <<world, previewToken, previewEpoch, gwList, previewSelected,
      routeDataVersion, preview, structureSync, previewJob, unheard>>
overridesVars ==
    <<overridesStored, overridesTable, saver, saving, derive, loading,
      overridesEpoch, edits, touched, lost, raced>>
stagingVars ==
    <<rows, done, stagingTable, page, filter, stagingSelected, deleting,
      stagingEpoch, stagingReq, made, stagingShown, recent, overtaken, failed>>
toolsVars ==
    <<toolsToken, toolsValid, toolsEpoch, busy, status, chat, toolsJob>>
allVars == <<view, vars, previewVars, overridesVars, stagingVars, toolsVars>>

(* A part that the behaviour is not about has no state, or stays as it is   *)
(* at first.                                                                *)
Unused == "unused"
PartsInit ==
    /\ view \in Views
    /\ Init
    /\ IF view \in PreviewViews THEN Preview!Init ELSE
              /\ world = Unused /\ previewToken = Unused
              /\ previewEpoch = Unused /\ gwList = Unused
              /\ previewSelected = Unused /\ routeDataVersion = Unused
              /\ preview = Unused /\ structureSync = Unused
              /\ previewJob = Unused /\ unheard = Unused
    /\ IF view = "overrides" THEN Overrides!Init ELSE
              /\ overridesStored = Unused /\ overridesTable = Unused
              /\ saver = Unused /\ saving = Unused /\ derive = Unused
              /\ loading = Unused /\ overridesEpoch = Unused
              /\ edits = Unused /\ touched = Unused /\ lost = Unused
              /\ raced = Unused
    /\ IF view \in StagingViews THEN Staging!Init ELSE
              /\ rows = Unused /\ done = Unused /\ stagingTable = Unused
              /\ page = Unused /\ filter = Unused
              /\ stagingSelected = Unused /\ deleting = Unused
              /\ stagingEpoch = Unused /\ stagingReq = Unused /\ made = Unused
              /\ stagingShown = Unused /\ recent = Unused
              /\ overtaken = Unused /\ failed = Unused
    /\ IF view = "tools" THEN Tools!Init ELSE
              /\ toolsToken = Unused /\ toolsValid = Unused
              /\ toolsEpoch = Unused /\ busy = Unused /\ status = Unused
              /\ chat = Unused /\ toolsJob = Unused

(* A step of a part: the others stay. *)
StepIn(component) ==
    /\ UNCHANGED view
    /\ IF component = "tasks" THEN TRUE ELSE UNCHANGED vars
    /\ IF component = "preview" THEN TRUE ELSE UNCHANGED previewVars
    /\ IF component = "overrides" THEN TRUE ELSE UNCHANGED overridesVars
    /\ IF component = "staging" THEN TRUE ELSE UNCHANGED stagingVars
    /\ IF component = "tools" THEN TRUE ELSE UNCHANGED toolsVars

(* Three parts are seen in two ways, as TLC cannot have all of them at      *)
(* once: several submissions and no cancelling, or one; Step 3 and the      *)
(* gateways, or Step 5 and logouts; rows that come and are worked on, or    *)
(* logouts.                                                                 *)
NoCancels == cancelReq' = cancelReq
OneSubmission == \A r \in Runs \ {theRun} : ts'[r].owner = NoRun
NoLogout == previewEpoch' = previewEpoch
NoStagingLogout == stagingEpoch' = stagingEpoch
RowsOnlyGo == rows' \subseteq rows /\ done' \subseteq done
OnlyStarts(kinds) == \A j \in Jobs : previewJob'[j].kind \in {"none", "load"} \cup kinds

PartsNext ==
    \/ view = "tasks" /\ StepIn("tasks") /\ Next /\ NoCancels
    \/ view = "cancels" /\ StepIn("tasks") /\ Next /\ OneSubmission
    \/ view = "preview" /\ StepIn("preview") /\ Preview!Next /\ NoLogout
         /\ OnlyStarts({"kw", "saveRoute", "deleteGw"})
    \/ view = "scales" /\ StepIn("preview") /\ Preview!Next
         /\ OnlyStarts({"scale", "saveRoute"})
    \/ view = "overrides" /\ StepIn("overrides") /\ Overrides!Next
    \/ view = "staging" /\ StepIn("staging") /\ Staging!Next /\ NoStagingLogout
    \/ view = "sessions" /\ StepIn("staging") /\ Staging!Next /\ RowsOnlyGo
    \/ view = "tools" /\ StepIn("tools") /\ Tools!Next

PartsSpec == PartsInit /\ [][PartsNext]_allVars

(* Requests under way have no order: no part compares or chooses among the  *)
(* slots, coroutines and derivations that carry them.                       *)
Symmetry ==
    UNION {Permutations(S) : S \in {Slots, Threads, Jobs, Savers, Derivers}}

-----------------------------------------------------------------------------
(* The properties of the parts.                                            *)

(* Every part keeps its types.                                             *)
PartsTypeOK ==
    /\ view \in Views
    /\ TypeOK
    /\ view \in PreviewViews => Preview!TypeOK
    /\ view = "overrides" => Overrides!TypeOK
    /\ view \in StagingViews => Staging!TypeOK
    /\ view = "tools" => Tools!TypeOK

(* A preview that is not flagged is about the gateway and the routing data  *)
(* of now.                                                                  *)
PreviewsAreFresh == view \in PreviewViews => Preview!PreviewsAreFresh

(* The overrides stored are those the user typed, and the page knows which. *)
SavedMeansStored == view = "overrides" => Overrides!SavedMeansStored

(* What is shown is what was asked for, and what is selected was shown.     *)
TableIsSettled == view \in StagingViews => Staging!TableIsSettled

(* The assistant and the connection tests end, and replies come in turn.    *)
RepliesAreInTurn == view = "tools" => Tools!RepliesAreInTurn
=============================================================================
