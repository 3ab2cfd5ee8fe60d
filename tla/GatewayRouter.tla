---------------------------- MODULE GatewayRouter ----------------------------
(***************************************************************************)
(* Which gateway a row goes to: gateway_router.py, the structure cache and *)
(* the gateway map in the database, the plan of a request (main.py), and   *)
(* the preview and its summary in the page (static/js/app.js).             *)
(*                                                                         *)
(* The state is what a route depends on.  The preview and the plan are     *)
(* both computed from it, at different moments: BrowserPreview is about    *)
(* the time between them.  Under a channel, rows use one path: its device, *)
(* then its group.  A structure is abstracted to how deep that path is     *)
(* there: 0 no channel, 1 the channel, 2 the device, 3 the group.          *)
(***************************************************************************)
EXTENDS Integers, Sequences, FiniteSets, SequencesExt

CONSTANTS Gateways, Channels, Sites, Zones,
          None,         \* null, or the empty string
          Depths,       \* bound: the depths that occur at the gateways
          MaxLocations  \* bound: rows of location_config

(* What is assumed of the constants.                                        *)
ConstantsFit ==
    /\ None \notin Gateways \cup Channels \cup Sites \cup Zones
    /\ Depths \subseteq 0..3
    /\ MaxLocations \in Nat

VARIABLES gateways,  \* kepware_gateway
          reality,   \* what is at each gateway
          cache,     \* kepware_structure
          siteMap, zoneMap, \* gateway_route_map
          locations, \* location_config, in the order of its ids
          current    \* the model's: gateways that did not change since their last sync

tables == <<gateways, cache, siteMap, zoneMap, locations>>
vars == <<tables, reality, current>>

-----------------------------------------------------------------------------
(* The rows: a staging row has a channel and a site; its zone is that of    *)
(* the first location of its site.                                          *)

Rows == [channel : Channels \cup {None}, site : Sites \cup {None}]
Batches == SUBSET Rows \ {{}}

FirstZone(site) ==
    LET i == SelectInSeq(locations, LAMBDA l : l.site = site)
    IN  IF i = 0 THEN None ELSE locations[i].zone

ZoneOf(row) == FirstZone(row.site)

-----------------------------------------------------------------------------
(* gateway_router.py *)

ChannelGateways(channel) == {g \in gateways : channel # None /\ cache[g][channel] > 0}

LookupMap(site, zone) ==
    CASE site # None /\ siteMap[site] # None -> siteMap[site]
      [] zone # None /\ zoneMap[zone] # None /\ ~(site # None /\ siteMap[site] # None) -> zoneMap[zone]
      [] OTHER -> None

Routed(gateway, status) == [gateway |-> gateway, status |-> status]
Refused(status) == Routed(None, status)

resolveGateway(row) ==
    LET at  == ChannelGateways(row.channel)
        map == LookupMap(row.site, ZoneOf(row))
        one == CHOOSE g \in at : TRUE
    IN  CASE Cardinality(gateways) = 1 -> Routed(CHOOSE g \in gateways : TRUE, "single")
          [] Cardinality(gateways) # 1 /\ Cardinality(at) > 1 -> Refused("conflict_channel")
          [] Cardinality(gateways) # 1 /\ Cardinality(at) = 1 ->
               CASE map = None -> Routed(one, "channel_only")
                 [] map = one  -> Routed(one, "ok")
                 [] OTHER      -> Refused("conflict")
          [] Cardinality(gateways) # 1 /\ at = {} ->
               IF map = None THEN Refused("unrouted") ELSE Routed(map, "map_only")

Routable(route) == route.status \in {"single", "ok", "channel_only", "map_only"} /\ route.gateway # None

(* find_unmapped, its sites. *)
UnmappedSites ==
    {s \in Sites : /\ \E i \in DOMAIN locations : locations[i].site = s
                   /\ siteMap[s] = None
                   /\ (FirstZone(s) = None \/ zoneMap[FirstZone(s)] = None)}

-----------------------------------------------------------------------------
(* The plan of a request: sel is its gateway_id, None for automatic.        *)

NoPlan == [parts |-> {}, blocked |-> 0, other |-> 0]

PlanGatewayParts(sel, batch) ==
    LET routable == {r \in batch : Routable(resolveGateway(r))}
        to(g)    == {r \in routable : resolveGateway(r).gateway = g}
        mine     == IF sel = None THEN gateways ELSE {sel}
        parts    == {[gateway |-> g, rows |-> to(g)] : g \in {g \in mine : to(g) # {}}}
        sent     == UNION {p.rows : p \in parts}
    IN  IF sel \notin gateways \cup {None} \/ gateways = {} \/ parts = {}
        THEN NoPlan                       \* 404 or 400
        ELSE [parts |-> parts, blocked |-> Cardinality(batch \ routable),
              other |-> Cardinality(routable \ sent)]

-----------------------------------------------------------------------------
(* The preview.  Validation: the depth found in the cache of one gateway -  *)
(* the selected one, else the one of the row's route - or None.             *)

Validation(sel, row) ==
    LET g == IF sel # None THEN sel ELSE resolveGateway(row).gateway
    IN  CASE g = None -> None
          [] g # None /\ row.channel = None -> 0
          [] g # None /\ row.channel # None -> cache[g][row.channel]

Derive(sel, row) == [route |-> resolveGateway(row), validation |-> Validation(sel, row)]

(* A slip: a channel at two gateways is no obstacle for the page.           *)
BlockedButConflict(r) == r.route.status \in {"conflict", "unrouted"}
routeBlocked(r) == r.route.status \in {"conflict", "conflict_channel", "unrouted"}

rowSkipped(sel, r) == sel # None /\ ~routeBlocked(r) /\ r.route.gateway # sel

routeBadge(r) ==
    CASE r.route.status = "ok" -> "ok"
      [] r.route.status \in {"channel_only", "map_only"} -> "one reason"
      [] routeBlocked(r) -> "blocked"
      [] OTHER -> "none"

rowStatus(r) ==
    CASE r.validation = 3 -> "ok"
      [] r.validation = 2 -> "add"
      [] OTHER -> "warn"

routeSummary(sel, batch) ==
    LET count(P(_)) == Cardinality({row \in batch : P(Derive(sel, row))})
    IN  [blocked   |-> count(routeBlocked),
         skipOther |-> count(LAMBDA r : rowSkipped(sel, r)),
         willSend  |-> count(LAMBDA r : ~routeBlocked(r) /\ ~rowSkipped(sel, r))]

-----------------------------------------------------------------------------

NoStructure == [c \in Channels |-> 0]

Init ==
    /\ gateways = {}
    /\ reality \in [Gateways -> [Channels -> Depths]]
    /\ cache = [g \in Gateways |-> NoStructure]
    /\ siteMap = [s \in Sites |-> None] /\ zoneMap = [z \in Zones |-> None]
    /\ locations = <<>>
    /\ current = {}

createGateway(g) ==
    /\ g \notin gateways
    /\ gateways' = gateways \cup {g}
    /\ UNCHANGED <<reality, cache, siteMap, zoneMap, locations, current>>

(* ON DELETE CASCADE: its structure and its routes go with it. *)
deleteGateway(g) ==
    /\ g \in gateways
    /\ gateways' = gateways \ {g}
    /\ cache' = [cache EXCEPT ![g] = NoStructure]
    /\ siteMap' = [s \in Sites |-> IF siteMap[s] = g THEN None ELSE siteMap[s]]
    /\ zoneMap' = [z \in Zones |-> IF zoneMap[z] = g THEN None ELSE zoneMap[z]]
    /\ current' = current \ {g}
    /\ UNCHANGED <<reality, locations>>

(* upsert_gateway_route, delete_gateway_route: to is a gateway, or None. *)
SetRoute(to) ==
    /\ to \in gateways \cup {None}
    /\ \/ \E s \in Sites : siteMap' = [siteMap EXCEPT ![s] = to] /\ UNCHANGED zoneMap
       \/ \E z \in Zones : zoneMap' = [zoneMap EXCEPT ![z] = to] /\ UNCHANGED siteMap
    /\ UNCHANGED <<gateways, reality, cache, locations, current>>

upsertLocation(site, zone) ==
    LET l == [site |-> site, zone |-> zone]
    IN  /\ Len(locations) < MaxLocations /\ ~Contains(locations, l)
        /\ locations' = Append(locations, l)
        /\ UNCHANGED <<gateways, reality, cache, siteMap, zoneMap, current>>

deleteLocation(i) ==
    /\ locations' = RemoveAt(locations, i)
    /\ UNCHANGED <<gateways, reality, cache, siteMap, zoneMap, current>>

(* Somebody works at the gateway. *)
KepwareChanges(g, structure) ==
    /\ reality' = [reality EXCEPT ![g] = structure]
    /\ current' = current \ {g}
    /\ UNCHANGED tables

(* A slip: a channel whose devices cannot be listed is left out.            *)
FetchDropsChannel(g, listed) == [c \in Channels |-> IF listed[c] < 2 THEN 0 ELSE reality[g][c]]

(* fetch_structure: the listing of the devices or of the groups of a        *)
(* channel may fail, which ends the path there; listed[c] is how deep the   *)
(* listing got.                                                             *)
fetchStructure(g, listed) ==
    [c \in Channels |-> IF reality[g][c] < listed[c] THEN reality[g][c] ELSE listed[c]]

(* kw_sync_structure; when the channels cannot be listed, nothing changes.  *)
syncStructure(g) ==
    /\ g \in gateways
    /\ \E listed \in [Channels -> 1..3] : cache' = [cache EXCEPT ![g] = fetchStructure(g, listed)]
    /\ current' = current \cup {g}
    /\ UNCHANGED <<gateways, reality, siteMap, zoneMap, locations>>

(* executeKw after a preview that is not stale, and the job it starts: at   *)
(* each gateway the groups that are missing are made.                       *)
executeKw(sel) ==
    LET built(g) == UNION {{r.channel : r \in p.rows} : p \in {q \in PlanGatewayParts(sel, Rows).parts : q.gateway = g}}
    IN  /\ routeSummary(sel, Rows).willSend > 0
        /\ reality' = [g \in Gateways |-> [c \in Channels |->
                         IF c \in built(g) /\ reality[g][c] = 2 THEN 3 ELSE reality[g][c]]]
        /\ UNCHANGED <<tables, current>>

Next ==
    \/ \E g \in Gateways : createGateway(g) \/ deleteGateway(g) \/ syncStructure(g)
    \/ \E to \in Gateways \cup {None} : SetRoute(to)
    \/ \E site \in Sites, zone \in Zones \cup {None} : upsertLocation(site, zone)
    \/ \E i \in DOMAIN locations : deleteLocation(i)
    \/ \E g \in Gateways, structure \in [Channels -> Depths] : KepwareChanges(g, structure)
    \/ \E sel \in gateways \cup {None} : executeKw(sel)

Spec == Init /\ [][Next]_vars

-----------------------------------------------------------------------------
(* Properties *)

(* The rows of the structure and of the map refer to gateways that exist. *)
TypeOK ==
    /\ gateways \subseteq Gateways /\ current \subseteq gateways
    /\ reality \in [Gateways -> [Channels -> 0..3]]
    /\ cache \in [Gateways -> [Channels -> 0..3]]
    /\ \A g \in Gateways \ gateways : cache[g] = NoStructure
    /\ siteMap \in [Sites -> gateways \cup {None}]
    /\ zoneMap \in [Zones -> gateways \cup {None}]
    /\ locations \in BoundedSeq([site : Sites, zone : Zones \cup {None}], MaxLocations)

(* What the page says it will send, will not send and will skip is what the *)
(* server plans for the same rows, in both modes; and the page refuses to   *)
(* send exactly when the server would.                                      *)
SummaryIsThePlan ==
    \A sel \in gateways \cup {None}, batch \in Batches :
        LET s == routeSummary(sel, batch)
            p == PlanGatewayParts(sel, batch)
        IN  IF p = NoPlan THEN s.willSend = 0
            ELSE /\ s.willSend = Cardinality(UNION {q.rows : q \in p.parts})
                 /\ s.blocked = p.blocked
                 /\ s.skipOther = p.other

(* A row that is sent goes to the gateway that has its channel, as long as  *)
(* no gateway changed since its sync, even a sync that listed only a part:  *)
(* never somewhere else because of the map.                                 *)
NeverBuiltElsewhere ==
    gateways = current /\ Cardinality(gateways) > 1 =>
        \A row \in Rows : row.channel # None /\ Routable(resolveGateway(row)) =>
            LET g == resolveGateway(row).gateway
            IN  \A other \in gateways \ {g} : reality[other][row.channel] = 0

(* The mark of a row that will be sent is about the gateway it will be sent *)
(* to: what it says is there is there, if nobody changed it since the sync. *)
MarksAreAboutTheTarget ==
    \A sel \in gateways \cup {None}, row \in Rows :
        LET r == Derive(sel, row)
            g == r.route.gateway
        IN  ~routeBlocked(r) /\ ~rowSkipped(sel, r) /\ g \in current =>
              /\ rowStatus(r) = "ok"  => row.channel # None /\ reality[g][row.channel] = 3
              /\ rowStatus(r) = "add" => row.channel # None /\ reality[g][row.channel] >= 2

(* The badge of a row is true: marked as impossible exactly when the server *)
(* will not send it, ticked when structure and map agree, and without a     *)
(* badge only when there is one gateway.                                    *)
BadgeIsTrue ==
    \A row \in Rows :
        LET r == Derive(None, row)
            b == routeBadge(r)
        IN  /\ (b = "blocked") = ~Routable(resolveGateway(row))
            /\ b = "ok" => /\ ChannelGateways(row.channel) = {r.route.gateway}
                           /\ LookupMap(row.site, ZoneOf(row)) = r.route.gateway
            /\ b = "none" => gateways = {r.route.gateway}

(* The settings list a site as not mapped exactly when the map gives no     *)
(* gateway for the rows of that site.                                       *)
UnmappedMeansNoGateway ==
    \A i \in DOMAIN locations :
        LET s == locations[i].site
        IN  s \in UnmappedSites <=> LookupMap(s, ZoneOf([channel |-> None, site |-> s])) = None

(* A row goes to the gateway that has its channel, and its mark speaks of   *)
(* that gateway.                                                            *)
RoutesAreSafe ==
    /\ NeverBuiltElsewhere
    /\ MarksAreAboutTheTarget

(* The page's own counts, badges and lists agree with the server's plan.    *)
PlansAgree ==
    /\ SummaryIsThePlan
    /\ BadgeIsTrue
    /\ UnmappedMeansNoGateway
=============================================================================
