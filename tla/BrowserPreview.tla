--------------------------- MODULE BrowserPreview ---------------------------
(***************************************************************************)
(* static/js/app.js: the preview tables of Step 3 and Step 5, the gateway  *)
(* selected for them, and what makes them stale: a changed gateway, a      *)
(* changed row of the gateway map, a structure sync.                       *)
(*                                                                         *)
(* A preview remembers the gateway and the routeDataVersion it was derived *)
(* with; the page flags it once one of them differs.  Every operation that *)
(* changes the routing data adds one to routeDataVersion when its answer   *)
(* has arrived.  The operations are coroutines (Jobs): they are sent, the  *)
(* server serves them, the answer arrives or is lost, and other operations *)
(* and a logout fall in between.                                           *)
(*                                                                         *)
(* Routing data is abstracted to a version number of the server's and the  *)
(* set of gateways; nobody else changes them.  A 401 is a logout followed  *)
(* by a failed request.  Derivations may overlap: the button is disabled   *)
(* while one is loading, but a task or a save that ends derives again.     *)
(***************************************************************************)
EXTENDS Integers, Sequences, FiniteSets, Functions

CONSTANTS Gateways,
          Auto,       \* selectedGwId null: every row to its own gateway
          Jobs,       \* coroutines
          Ops,        \* bound: the operations the user starts
          MaxVersion, \* bound: changes of the routing data, on the server and
                      \* as the page counts them
          MaxEpoch    \* bound: logouts

Previews == {"kw", "scale"}
Changes == {"saveRoute", "deleteRoute", "saveGw", "deleteGw"}
Kinds == {"none", "load", "sync"} \cup Previews \cup Changes

(* What is assumed of the constants.                                        *)
ConstantsFit ==
    /\ IsFiniteSet(Gateways)
    /\ Auto \notin Gateways
    /\ MaxVersion \in Nat \ {0}
    /\ MaxEpoch \in Nat
    /\ Ops \subseteq Kinds

VARIABLES world,   \* the server's gateways and the version of its routing data
          token,   \* the page has a token
          epoch,   \* _taskEpoch
          gwList,
          selected,\* selectedGwId
          routeDataVersion,
          preview, \* kwDerive and scaleDerive: data, derivedGw, derivedVer
          structureSync,
          job,     \* the coroutines
          unheard  \* a change was made whose answer was lost

pageVars == <<gwList, selected, routeDataVersion, preview, structureSync>>
vars == <<world, token, epoch, pageVars, job, unheard>>

-----------------------------------------------------------------------------

(* version, asked and crossed are the model's: the routing data the rows     *)
(* were derived from, the gateway the request named, and whether a change   *)
(* was answered while it was out; born: the session that asked.             *)
Empty == [full |-> FALSE, derivedGw |-> Auto, derivedVer |-> 0,
          version |-> 0, asked |-> Auto, crossed |-> FALSE]
NoSync == [loading |-> FALSE, results |-> 0, done |-> 0, total |-> 0]
Free == [kind |-> "none", pc |-> "", gw |-> Auto, version |-> 0, gateways |-> {},
         rest |-> <<>>, crossed |-> FALSE, born |-> 0]

PreviewType == [full : BOOLEAN, derivedGw : Gateways \cup {Auto}, derivedVer : Nat,
                version : 0..MaxVersion, asked : Gateways \cup {Auto}, crossed : BOOLEAN]
JobType == [kind : Kinds, pc : {"", "sent", "served", "reload", "reloaded"},
            gw : Gateways \cup {Auto}, version : 0..MaxVersion, gateways : SUBSET Gateways,
            rest : Seq(Gateways), crossed : BOOLEAN, born : 0..MaxEpoch]

Init ==
    /\ world = [gateways |-> Gateways, version |-> 1]
    /\ token = TRUE /\ epoch = 0
    /\ gwList = {} /\ selected = Auto /\ routeDataVersion = 0
    /\ preview = [p \in Previews |-> Empty]
    /\ structureSync = NoSync
    /\ job = [j \in Jobs |-> Free]
    /\ unheard = FALSE

-----------------------------------------------------------------------------
(* The session *)

(* A change becomes known to the page while a derivation is out. *)
Cross(r) == [r EXCEPT !.crossed = @ \/ r.kind \in Previews]

(* doLogout and the part of _resetState that concerns this module.          *)
(* Requests that are out stay out.                                          *)
doLogout ==
    /\ token /\ epoch < MaxEpoch
    /\ token' = FALSE
    /\ epoch' = epoch + 1
    /\ gwList' = {} /\ selected' = Auto /\ routeDataVersion' = 0
    /\ preview' = [p \in Previews |-> Empty]
    /\ structureSync' = NoSync
    /\ job' = [j \in Jobs |-> Cross(job[j])]
    /\ UNCHANGED <<world, unheard>>

(* A coroutine starts and runs to its first request. *)
Start(j, kind, g) ==
    /\ kind \in Ops \cup {"load"} /\ job[j].kind = "none"
    /\ job' = [job EXCEPT ![j] = [Free EXCEPT !.kind = kind, !.pc = "sent", !.gw = g, !.born = epoch]]

(* doLogin and _initAfterLogin: the gateways are loaded. *)
doLogin(j) ==
    /\ ~token
    /\ token' = TRUE
    /\ Start(j, "load", Auto)
    /\ UNCHANGED <<world, epoch, pageVars, unheard>>

(* loadGateways of the page as it was opened with a token. *)
OpenPage(j) ==
    /\ token /\ gwList = {}
    /\ Start(j, "load", Auto)
    /\ UNCHANGED <<world, token, epoch, pageVars, unheard>>

Select(g) ==
    /\ token /\ g \in gwList \cup {Auto} /\ g # selected
    /\ selected' = g
    /\ UNCHANGED <<world, token, epoch, gwList, routeDataVersion, preview, structureSync, job, unheard>>

-----------------------------------------------------------------------------
(* What the user starts *)

Unchanged == UNCHANGED <<world, token, epoch, gwList, selected, routeDataVersion, preview, unheard>>

(* deriveKw names the selected gateway in its request, deriveScale none. *)
deriveKw(j) ==
    /\ token
    /\ Start(j, "kw", selected)
    /\ Unchanged /\ UNCHANGED structureSync

deriveScale(j) ==
    /\ token
    /\ Start(j, "scale", Auto)
    /\ Unchanged /\ UNCHANGED structureSync

(* saveRoute and deleteRoute, up to the request. *)
ChangeRoute(j, kind) ==
    /\ token
    /\ Start(j, kind, Auto)
    /\ Unchanged /\ UNCHANGED structureSync

(* saveGw (of a new or an edited gateway) and deleteGw, up to the request.  *)
ChangeGateway(j, kind, g) ==
    /\ token /\ kind = "deleteGw" => g \in gwList
    /\ Start(j, kind, g)
    /\ Unchanged /\ UNCHANGED structureSync

(* syncStructure: the selected gateway or all, one after the other. *)
syncStructure(j) ==
    LET targets == IF selected # Auto THEN {selected} ELSE gwList
    IN  /\ token /\ ~structureSync.loading /\ targets # {}
        /\ "sync" \in Ops /\ job[j].kind = "none" /\ routeDataVersion < MaxVersion
        /\ structureSync' = [loading |-> TRUE, results |-> 0, done |-> 0, total |-> Cardinality(targets)]
        /\ \E order \in Injection(1..Cardinality(targets), targets) :
              job' = [job EXCEPT ![j] = [Free EXCEPT !.kind = "sync", !.pc = "sent",
                                         !.rest = order, !.born = epoch]]
        /\ Unchanged

-----------------------------------------------------------------------------
(* The server *)

Changed(gateways) ==
    /\ world.version < MaxVersion
    /\ world' = [gateways |-> gateways, version |-> world.version + 1]

(* A request is served: derivations and lists read, the others change the   *)
(* routing data.  A change may be refused, which is a failure.              *)
Serve(j) ==
    LET kind == job[j].kind
        new == IF kind = "saveGw" THEN world.gateways \cup {job[j].gw}
               ELSE IF kind = "deleteGw" THEN world.gateways \ {job[j].gw} ELSE world.gateways
    IN  /\ job[j].pc \in {"sent", "reload"}
        /\ IF job[j].pc = "sent" /\ kind \in Changes \cup {"sync"} THEN Changed(new) ELSE UNCHANGED world
        /\ job' = [job EXCEPT ![j].pc = IF @ = "sent" THEN "served" ELSE "reloaded",
                              ![j].version = IF kind \in Previews THEN world.version ELSE 0,
                              ![j].gateways = IF kind = "load" \/ job[j].pc = "reload" THEN new ELSE {}]
        /\ UNCHANGED <<token, epoch, pageVars, unheard>>

-----------------------------------------------------------------------------
(* What happens when an answer arrives *)

(* The coroutine is over, or goes on, and the page knows of a change.       *)
Crossed(j, next) == job' = [k \in Jobs |-> IF k = j THEN next ELSE Cross(job[k])]

(* loadGateways. *)
TakeGateways(gateways, sel) ==
    /\ gwList' = gateways
    /\ selected' = IF sel \in gateways THEN sel ELSE Auto

LoadArrives(j) ==
    /\ job[j].kind = "load" /\ job[j].pc = "served"
    /\ TakeGateways(job[j].gateways, selected)
    /\ job' = [job EXCEPT ![j] = Free]
    /\ UNCHANGED <<world, token, epoch, routeDataVersion, preview, structureSync, unheard>>

(* body.gateway_id, or the selection when Step 5's rows arrive. *)
Derived(j) == IF job[j].kind = "kw" THEN job[j].gw ELSE selected

(* deriveKw and deriveScale: derivedVer is read after the answer. *)
PreviewArrives(j) ==
    /\ job[j].kind \in Previews /\ job[j].pc = "served"
    /\ preview' = [preview EXCEPT ![job[j].kind] =
                      [full |-> TRUE, derivedGw |-> Derived(j), derivedVer |-> routeDataVersion,
                       version |-> job[j].version, asked |-> job[j].gw,
                       crossed |-> job[j].crossed]]
    /\ job' = [job EXCEPT ![j] = Free]
    /\ UNCHANGED <<world, token, epoch, gwList, selected, routeDataVersion, structureSync, unheard>>

(* A slip: the map has changed, the version has not.                        *)
RouteChangedSilently(j) ==
    /\ job[j].kind \in {"saveRoute", "deleteRoute"} /\ job[j].pc = "served"
    /\ Crossed(j, Free)
    /\ UNCHANGED <<world, token, epoch, pageVars, unheard>>

(* saveRoute and deleteRoute. *)
RouteChanged(j) ==
    /\ job[j].kind \in {"saveRoute", "deleteRoute"} /\ job[j].pc = "served"
    /\ routeDataVersion' = routeDataVersion + 1
    /\ Crossed(j, Free)
    /\ UNCHANGED <<world, token, epoch, gwList, selected, preview, structureSync, unheard>>

(* saveGw and deleteGw: the selection is dropped with its gateway, and the  *)
(* gateways are loaded again before the version goes up.                    *)
GatewayChanged(j) ==
    /\ job[j].kind \in {"saveGw", "deleteGw"} /\ job[j].pc = "served"
    /\ selected' = IF job[j].kind = "deleteGw" /\ selected = job[j].gw THEN Auto ELSE selected
    /\ job' = [job EXCEPT ![j].pc = "reload"]
    /\ UNCHANGED <<world, token, epoch, gwList, routeDataVersion, preview, structureSync, unheard>>

GatewaysReloaded(j) ==
    /\ job[j].kind \in {"saveGw", "deleteGw"} /\ job[j].pc \in {"reload", "reloaded"}
    /\ \/ job[j].pc = "reloaded" /\ TakeGateways(job[j].gateways, selected)
       \/ UNCHANGED <<gwList, selected>>                   \* the load failed
    /\ routeDataVersion' = routeDataVersion + 1
    /\ Crossed(j, Free)
    /\ UNCHANGED <<world, token, epoch, preview, structureSync, unheard>>

(* A slip: the loop stops after the first gateway and leaves the flag.      *)
SyncedStuck(j) ==
    LET rest == Tail(job[j].rest)
        on == rest # <<>> /\ token
        mine == job[j].born = epoch
        counted == [structureSync EXCEPT !.done = @ + 1, !.results = IF mine THEN @ + 1 ELSE @]
    IN  /\ job[j].kind = "sync" /\ job[j].pc \in {"sent", "served"}
        /\ IF on
           THEN /\ structureSync' = counted
                /\ job' = [job EXCEPT ![j].rest = rest, ![j].pc = "sent"]
                /\ UNCHANGED routeDataVersion
           ELSE /\ structureSync' = counted
                /\ routeDataVersion' = routeDataVersion + 1
                /\ Crossed(j, Free)
        /\ UNCHANGED <<world, token, epoch, gwList, selected, preview, unheard>>

(* syncStructure after one gateway, whether its sync succeeded or not.  The *)
(* loop goes on while the page has a token, be it another one; the results  *)
(* array it pushes to is the one from before the await, which the panel no  *)
(* longer shows after a logout.                                             *)
Synced(j) ==
    LET rest == Tail(job[j].rest)
        on == rest # <<>> /\ token
        mine == job[j].born = epoch
        counted == [structureSync EXCEPT !.done = @ + 1, !.results = IF mine THEN @ + 1 ELSE @]
    IN  /\ job[j].kind = "sync" /\ job[j].pc \in {"sent", "served"}
        /\ IF on
           THEN /\ structureSync' = counted
                /\ job' = [job EXCEPT ![j].rest = rest, ![j].pc = "sent"]
                /\ UNCHANGED routeDataVersion
           ELSE /\ structureSync' = [counted EXCEPT !.loading = FALSE]
                /\ routeDataVersion' = routeDataVersion + 1
                /\ Crossed(j, Free)
        /\ UNCHANGED <<world, token, epoch, gwList, selected, preview, unheard>>

(* Every other request may fail, on the way there or on the way back.       *)
Fails(j) ==
    /\ job[j].kind \notin {"none", "sync"} /\ job[j].pc \in {"sent", "served"}
    /\ unheard' = (unheard \/ (job[j].pc = "served" /\ job[j].kind \in Changes))
    /\ job' = [job EXCEPT ![j] = Free]
    /\ UNCHANGED <<world, token, epoch, pageVars>>

-----------------------------------------------------------------------------

Arrives(j) ==
    LoadArrives(j) \/ PreviewArrives(j) \/ RouteChanged(j) \/ GatewayChanged(j)
        \/ GatewaysReloaded(j) \/ Synced(j) \/ Fails(j)

Next ==
    \/ doLogout
    \/ \E g \in Gateways \cup {Auto} : Select(g)
    \/ \E j \in Jobs :
          \/ doLogin(j) \/ OpenPage(j) \/ deriveKw(j) \/ deriveScale(j) \/ syncStructure(j)
          \/ Serve(j) \/ Arrives(j)
          \/ \E kind \in {"saveRoute", "deleteRoute"} : ChangeRoute(j, kind)
          \/ \E kind \in {"saveGw", "deleteGw"}, g \in Gateways : ChangeGateway(j, kind, g)

Spec == Init /\ [][Next]_vars

(* Every request is answered or fails. *)
FairSpec == Spec /\ \A j \in Jobs : WF_vars(Arrives(j))

-----------------------------------------------------------------------------
(* Properties *)

(* The page, its previews and the requests under way keep their types.     *)
TypeOK ==
    /\ world \in [gateways : SUBSET Gateways, version : 1..MaxVersion]
    /\ token \in BOOLEAN /\ epoch \in 0..MaxEpoch
    /\ gwList \subseteq Gateways /\ selected \in Gateways \cup {Auto}
    /\ routeDataVersion \in Nat
    /\ preview \in [Previews -> PreviewType]
    /\ structureSync \in [loading : BOOLEAN, results : Nat, done : Nat, total : Nat]
    /\ job \in [Jobs -> JobType]
    /\ unheard \in BOOLEAN

(* kwStale, scaleStale. *)
Stale(p) ==
    preview[p].full /\ (preview[p].derivedGw # selected \/ preview[p].derivedVer # routeDataVersion)

(* What is selected is in the list: execution never names a gateway the     *)
(* page does not show, whatever the order in which lists arrive.            *)
SelectionExists == selected # Auto => selected \in gwList

(* Step 3's rows are validated against the gateway the request named: a     *)
(* preview that is not flagged was asked for the gateway selected now.      *)
PreviewFitsSelection ==
    preview["kw"].full /\ ~Stale("kw") => preview["kw"].asked = selected

Pending == \E j \in Jobs : job[j].kind \in Changes \cup {"sync"}

(* A preview is flagged or rests on the current routing data, once every    *)
(* change has been answered, unless a change was answered (or the session   *)
(* ended) while the preview was on its way.                                 *)
SettledPreviewsAreFlagged ==
    \A p \in Previews :
        preview[p].full /\ ~preview[p].crossed /\ ~Pending /\ ~unheard
        => Stale(p) \/ preview[p].version = world.version

(* A sync ends, whatever its requests do, and opens its button again.       *)
SyncEnds == structureSync.loading ~> ~structureSync.loading

(* A preview that is not flagged is about the gateway and the routing data  *)
(* of now.                                                                  *)
PreviewsAreFresh ==
    /\ PreviewFitsSelection
    /\ SettledPreviewsAreFlagged
    /\ SelectionExists
=============================================================================
