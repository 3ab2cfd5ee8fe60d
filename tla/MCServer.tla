------------------------------ MODULE MCServer ------------------------------
(***************************************************************************)
(* Parts of the server, and of the page next to them: the write of         *)
(* PgImport, and parts that share nothing with it.  A behaviour is about   *)
(* one of them, the view.                                                  *)
(***************************************************************************)
EXTENDS PgImport, Sequences, TLC

CONSTANTS Gateways, Channels, Sites, Zones,        \* GatewayRouter
          Depths, MaxLocations,
          Tasks, Unlocked, Clear, Torn,            \* TaskRecords
          MaxTasks, MaxRecords, MaxClears, MaxCrashes,
          MaxAttempts, Window, MaxTime,            \* LoginLockout
          Names, MaxGateways, SmallForms,          \* BrowserForms
          CacheMax, MaxMappings,                   \* BrowserMapping
          Slots, MaxLogouts,                       \* both
          theName, theSlot  \* where one of them is enough

VARIABLES
    view,  \* the part the behaviour is about, besides those of PgImport
    routerGateways, reality, routerCache, siteMap, zoneMap, locations,
    current,
    state, registry, lock, emptied, loaded, file, written, clears, crashes,
    now, record, pc, refused, wrong,
    formsGateways, defaults, token, formsEpoch, gwForm, form, formsReq,
    files, tab, mappingEpoch, mappingReq, made, mappingCache, restarts,
    saved

Router == INSTANCE GatewayRouter WITH
    gateways <- routerGateways, cache <- routerCache
Records == INSTANCE TaskRecords WITH
    Free <- Unlocked
Lockout == INSTANCE LoginLockout WITH
    Max <- MaxAttempts
Forms == INSTANCE BrowserForms WITH
    gateways <- formsGateways, epoch <- formsEpoch, req <- formsReq,
    MaxEpoch <- MaxLogouts
Mapping == INSTANCE BrowserMapping WITH
    epoch <- mappingEpoch, req <- mappingReq, cache <- mappingCache,
    MaxEpoch <- MaxLogouts

ASSUME EveryConstantFits ==
    /\ Router!ConstantsFit
    /\ Records!ConstantsFit
    /\ Lockout!ConstantsFit
    /\ Forms!ConstantsFit
    /\ Mapping!ConstantsFit

Views == {"pg", "router", "records", "lockout", "gateways", "races", "forms",
          "mapping"}
FormsViews == {"gateways", "races", "forms"}

routerVars ==
    <<routerGateways, reality, routerCache, siteMap, zoneMap, locations, current>>
recordsVars ==
    <<state, registry, lock, emptied, loaded, file, written, clears, crashes>>
lockoutVars ==
    <<now, record, pc, refused, wrong>>
formsVars ==
    <<formsGateways, defaults, token, formsEpoch, gwForm, form, formsReq>>
mappingVars ==
    <<files, tab, mappingEpoch, mappingReq, made, mappingCache, restarts, saved>>
allVars == <<view, vars, routerVars, recordsVars, lockoutVars, formsVars, mappingVars>>

(* A part that the behaviour is not about has no state, or stays as it is   *)
(* at first.                                                                *)
Unused == "unused"
PartsInit ==
    /\ view \in Views
    /\ Init
    /\ IF view = "router" THEN Router!Init ELSE
              /\ routerGateways = Unused /\ reality = Unused
              /\ routerCache = Unused /\ siteMap = Unused
              /\ zoneMap = Unused /\ locations = Unused /\ current = Unused
    /\ IF view = "records" THEN Records!Init ELSE
              /\ state = Unused /\ registry = Unused /\ lock = Unused
              /\ emptied = Unused /\ loaded = Unused /\ file = Unused
              /\ written = Unused /\ clears = Unused /\ crashes = Unused
    /\ IF view = "lockout" THEN Lockout!Init ELSE
              /\ now = Unused /\ record = Unused /\ pc = Unused
              /\ refused = Unused /\ wrong = Unused
    /\ IF view \in FormsViews THEN Forms!Init ELSE
              /\ formsGateways = Unused /\ defaults = Unused
              /\ token = Unused /\ formsEpoch = Unused /\ gwForm = Unused
              /\ form = Unused /\ formsReq = Unused
    /\ IF view = "mapping" THEN Mapping!Init ELSE
              /\ files = Unused /\ tab = Unused /\ mappingEpoch = Unused
              /\ mappingReq = Unused /\ made = Unused
              /\ mappingCache = Unused /\ restarts = Unused
              /\ saved = Unused

(* A step of a part: the others stay. *)
StepIn(component) ==
    /\ UNCHANGED view
    /\ IF component = "pg" THEN TRUE ELSE UNCHANGED vars
    /\ IF component = "router" THEN TRUE ELSE UNCHANGED routerVars
    /\ IF component = "records" THEN TRUE ELSE UNCHANGED recordsVars
    /\ IF component = "lockout" THEN TRUE ELSE UNCHANGED lockoutVars
    /\ IF component = "forms" THEN TRUE ELSE UNCHANGED formsVars
    /\ IF component = "mapping" THEN TRUE ELSE UNCHANGED mappingVars

(* The table and the forms are seen in three ways, as TLC cannot have all   *)
(* of it at once: several gateways and one request at a time; one gateway   *)
(* and several requests; one gateway, the other forms and a logout.         *)
OneRequest == \A s \in Slots \ {theSlot} : formsReq'[s] = formsReq[s]
OneGateway ==
    /\ \A g \in Forms!Ids \ {1} : formsGateways'[g] = Forms!Null
    /\ gwForm'.name \in {Forms!Null, theName}
GatewayForm == form' = form /\ formsEpoch' = formsEpoch

PartsNext ==
    \/ view = "pg" /\ StepIn("pg") /\ Next
    \/ view = "router" /\ StepIn("router") /\ Router!Next
    \/ view = "records" /\ StepIn("records") /\ Records!Next
    \/ view = "lockout" /\ StepIn("lockout") /\ Lockout!Next
    \/ view = "gateways" /\ StepIn("forms") /\ Forms!Next /\ OneRequest /\ GatewayForm
    \/ view = "races" /\ StepIn("forms") /\ Forms!Next /\ OneGateway /\ GatewayForm
    \/ view = "forms" /\ StepIn("forms") /\ Forms!Next /\ OneRequest /\ OneGateway
    \/ view = "mapping" /\ StepIn("mapping") /\ Mapping!Next

PartsSpec == PartsInit /\ [][PartsNext]_allVars

(* Tags and what rows say of them have no order, and no name that PgImport  *)
(* would look at.                                                           *)
Symmetry == Permutations(Tags) \cup Permutations(Contents)

-----------------------------------------------------------------------------
(* The properties of the parts.                                            *)

(* Every part keeps its types.                                             *)
PartsTypeOK ==
    /\ TypeOK
    /\ view = "router" => Router!TypeOK
    /\ view = "records" => Records!TypeOK
    /\ view = "lockout" => Lockout!TypeOK
    /\ view \in FormsViews => Forms!TypeOK
    /\ view = "mapping" => Mapping!TypeOK

(* A row goes to the gateway that has its channel, and its mark speaks of   *)
(* that gateway.                                                            *)
RoutesAreSafe == view = "router" => Router!RoutesAreSafe

(* The page's own counts, badges and lists agree with the server's plan.    *)
PlansAgree == view = "router" => Router!PlansAgree

(* The registry and the history keep what a user still needs.              *)
TasksAreKept ==
    /\ [](view = "records" => Records!RecordsAreKept)
    /\ [][view = "records" => Records!RunningStays]_allVars

(* The lockout refuses only with cause, and lets through only a few         *)
(* attempts.                                                                *)
LockoutIsFair == view = "lockout" => Lockout!LockoutIsFair

(* The table of gateways stays sound behind its dialogue.                   *)
GatewaysAreSound == view \in FormsViews => Forms!GatewaysAreSound

(* The mapping on the screen, the one kept and the one saved are the same.  *)
MappingsAreTrue == view = "mapping" => Mapping!MappingsAreTrue
=============================================================================
