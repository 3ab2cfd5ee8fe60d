---------------------------- MODULE BrowserLists ----------------------------
(***************************************************************************)
(* static/js/app.js: the lists of the settings, history and queue views -  *)
(* what loads them, what changes them on the server, and the timer of the  *)
(* queue panel.                                                            *)
(*                                                                         *)
(* A change (a user, a row of a reference table, a row of the gateway map, *)
(* a cancelled task) is followed by a load of the list it concerns.  Loads *)
(* may overlap and be answered in any order, and a logout leaves them out. *)
(* A list is abstracted to the server's version of it; nobody else changes *)
(* users, reference tables and the map.                                    *)
(***************************************************************************)
EXTENDS Integers, FiniteSets

CONSTANTS RefTables, \* the reference tables
          NoTable,   \* activeRefTable null
          Slots,     \* bound: requests under way at one time
          MaxChanges,\* bound: changes of one list
          MaxLists,  \* bound: lists loaded at one time, apart from the routes
          MaxEpoch   \* bound: logouts

Kept == {"users", "routes"} \cup RefTables
(* What these show changes all the time: their requests only. *)
Passing == {"logs", "history", "queue"}
Lists == Kept \cup Passing

(* What is assumed of the constants.                                        *)
ConstantsFit ==
    /\ NoTable \notin Lists
    /\ RefTables \cap ({"users", "routes"} \cup Passing) = {}
    /\ MaxChanges \in Nat
    /\ MaxEpoch \in Nat

VARIABLES version, \* the server's version of each list: its changes so far
          token,   \* the page has a token
          admin,   \* auth.role
          epoch,
          list,    \* the version shown, none when empty; for a reference table
                   \* also whose rows they are
          active,  \* activeRefTable
          panel,   \* queuePanel.open and the intervals that are running
          req,     \* the coroutines
          doubt    \* the model's: lists whose newest load failed or was
                   \* overtaken, or that changed without an answer

pageVars == <<token, admin, epoch, list, active, panel>>
vars == <<version, pageVars, req, doubt>>

-----------------------------------------------------------------------------

NoReq == [kind |-> "none", list |-> NoTable, auth |-> FALSE, served |-> FALSE, version |-> 0,
          late |-> FALSE]
Nothing == [of |-> NoTable, version |-> 0]
Filled(l) == l \in Kept /\ list[l] # Nothing
EmptyLists == [l \in Kept |-> Nothing]
Closed == [open |-> FALSE, timers |-> 0]

Init ==
    /\ version = [l \in Kept |-> 0]
    /\ token = FALSE /\ admin = FALSE /\ epoch = 0
    /\ list = EmptyLists /\ active = NoTable /\ panel = Closed
    /\ req = [s \in Slots |-> NoReq]
    /\ doubt = {}

(* The loads of list l that are out are not the newest word any more. *)
Overtaken(s, l) ==
    [q \in Slots |-> [req[q] EXCEPT !.late = @ \/ (q # s /\ req[q].kind = "load" /\ req[q].list = l)]]

(* The request of a load, with the token of the moment. *)
Begin(s, l) ==
    [Overtaken(s, l) EXCEPT ![s] = [NoReq EXCEPT !.kind = "load", !.list = l, !.auth = token]]

InUse == {l \in Lists \ {"routes"} : Filled(l) \/ \E s \in Slots : req[s].list = l}

StartLoad(l) ==
    /\ token
    /\ l \in InUse \cup {"routes"} \/ Cardinality(InUse) < MaxLists
    /\ \E s \in Slots : req[s].kind = "none" /\ req' = Begin(s, l)

StartChange(l) ==
    /\ token
    /\ \E s \in Slots : req[s].kind = "none"
          /\ req' = [req EXCEPT ![s] = [NoReq EXCEPT !.kind = "change", !.list = l, !.auth = TRUE]]

-----------------------------------------------------------------------------
(* The session *)

(* doLogin and _initAfterLogin: the map for everybody; the users for an     *)
(* administrator, which is loadUsers below.                                 *)
doLogin(role) ==
    /\ ~token
    /\ token' = TRUE /\ admin' = role
    /\ \E s \in Slots : req[s].kind = "none" /\ req' = [Begin(s, "routes") EXCEPT ![s].auth = TRUE]
    /\ UNCHANGED <<version, epoch, list, active, panel, doubt>>

(* doLogout with its part of _resetState. *)
doLogout ==
    /\ token /\ epoch < MaxEpoch
    /\ token' = FALSE /\ epoch' = epoch + 1
    /\ list' = EmptyLists /\ active' = NoTable /\ panel' = Closed
    /\ doubt' = {}
    /\ UNCHANGED <<version, admin, req>>

-----------------------------------------------------------------------------
(* Loads *)

LoadOnly(l) == StartLoad(l) /\ UNCHANGED <<version, pageVars, doubt>>

loadHistory == LoadOnly("history")
loadUsers == admin /\ LoadOnly("users")
loadActivityLogs == LoadOnly("logs")
loadRoutes == LoadOnly("routes")          \* also when the settings tab is opened

(* loadRefTable: the tab is active at once, its rows come later. *)
loadRefTable(t) ==
    /\ StartLoad(t)
    /\ active' = t
    /\ UNCHANGED <<version, token, admin, epoch, list, panel, doubt>>

(* openQueuePanel: an earlier interval is cleared first. *)
openQueuePanel ==
    /\ StartLoad("queue")
    /\ panel' = [open |-> TRUE, timers |-> 1]
    /\ UNCHANGED <<version, token, admin, epoch, list, active, doubt>>

closeQueuePanel ==
    /\ panel.open
    /\ panel' = Closed
    /\ UNCHANGED <<version, token, admin, epoch, list, active, req, doubt>>

(* The interval fires: loadQueue(true), with or without a token. *)
Tick ==
    /\ panel.timers > 0
    /\ \E s \in Slots : req[s].kind = "none" /\ req' = Begin(s, "queue")
    /\ UNCHANGED <<version, pageVars, doubt>>

-----------------------------------------------------------------------------
(* Changes, up to their request *)

ChangeOnly(l) == StartChange(l) /\ UNCHANGED <<version, pageVars, doubt>>

createUser == admin /\ ChangeOnly("users")
deleteUser == admin /\ Filled("users") /\ ChangeOnly("users")
deleteRefRow == active # NoTable /\ Filled(active) /\ ChangeOnly(active)
saveRoute == admin /\ ChangeOnly("routes")
deleteRoute == admin /\ Filled("routes") /\ ChangeOnly("routes")

(* cancelQueuedTask, from a row of the open panel; the gateways' queues     *)
(* change.                                                                  *)
cancelQueuedTask ==
    /\ panel.open /\ ~\E s \in Slots : req[s].kind = "change" /\ req[s].list = "queue"
    /\ ChangeOnly("queue")

-----------------------------------------------------------------------------
(* The server *)

(* A change may be refused: then it Fails.  A request without a token is    *)
(* answered 401: it Fails.                                                  *)
Serve(s) ==
    LET r == req[s]
    IN  /\ r.kind # "none" /\ ~r.served /\ r.auth
        /\ \/ /\ r.kind = "change" /\ r.list \in Kept
              /\ version[r.list] < MaxChanges /\ version' = [version EXCEPT ![r.list] = @ + 1]
           \/ (r.kind = "load" \/ r.list \in Passing) /\ UNCHANGED version
        /\ req' = [req EXCEPT ![s].served = TRUE, ![s].version = IF r.kind = "load" /\ r.list \in Kept THEN version[r.list] ELSE 0]
        /\ UNCHANGED <<pageVars, doubt>>

-----------------------------------------------------------------------------
(* Answers *)

(* A slip: the rows go to the tab that is active when they arrive.          *)
WriteToActive(l) == IF l \in RefTables /\ active # NoTable THEN active ELSE l
(* Where the rows of a load are written: refData[key] keeps its key. *)
WriteTo(l) == l

LoadArrives(s) ==
    LET r == req[s]
    IN  /\ r.kind = "load" /\ r.served
        /\ IF r.list \in Kept
           THEN /\ list' = [list EXCEPT ![WriteTo(r.list)] = [of |-> r.list, version |-> r.version]]
                /\ doubt' = IF r.late THEN doubt \cup {r.list} ELSE doubt \ {r.list}
           ELSE UNCHANGED <<list, doubt>>
        /\ req' = [req EXCEPT ![s] = NoReq]
        /\ UNCHANGED <<version, token, admin, epoch, active, panel>>

(* What is loaded after a change: for a reference table, the tab that is    *)
(* active by then.                                                          *)
ReloadAfter(l) == IF l \in RefTables THEN active ELSE l

(* createUser, deleteUser, deleteRefRow, saveRoute, deleteRoute and         *)
(* cancelQueuedTask after their answer.                                     *)
ChangeAnswered(s) ==
    LET l == ReloadAfter(req[s].list)
    IN  /\ req[s].kind = "change" /\ req[s].served
        /\ req' = IF l = NoTable THEN [req EXCEPT ![s] = NoReq] ELSE Begin(s, l)
        /\ UNCHANGED <<version, pageVars, doubt>>

(* Lost, refused or failed: the old list stays. *)
Fails(s) ==
    /\ req[s].kind # "none"
    /\ doubt' = IF req[s].kind = "load" /\ req[s].late THEN doubt
                ELSE doubt \cup {l \in {req[s].list} : Filled(l)}
    /\ req' = IF req[s].kind = "change"
              THEN [Overtaken(s, req[s].list) EXCEPT ![s] = NoReq] ELSE [req EXCEPT ![s] = NoReq]
    /\ UNCHANGED <<version, pageVars>>

-----------------------------------------------------------------------------

Arrives(s) == LoadArrives(s) \/ ChangeAnswered(s) \/ Fails(s)

Next ==
    \/ \E role \in BOOLEAN : doLogin(role)
    \/ doLogout
    \/ loadHistory \/ loadUsers \/ loadActivityLogs \/ loadRoutes
    \/ \E t \in RefTables : loadRefTable(t)
    \/ openQueuePanel \/ closeQueuePanel \/ Tick
    \/ createUser \/ deleteUser \/ deleteRefRow \/ saveRoute \/ deleteRoute \/ cancelQueuedTask
    \/ \E s \in Slots : Serve(s) \/ Arrives(s)

Spec == Init /\ [][Next]_vars

-----------------------------------------------------------------------------
(* Properties *)

(* The lists, the panel with its one timer and the requests keep their     *)
(* types.                                                                  *)
TypeOK ==
    /\ version \in [Kept -> 0..MaxChanges]
    /\ token \in BOOLEAN /\ admin \in BOOLEAN /\ epoch \in 0..MaxEpoch
    /\ list \in [Kept -> [of : Lists \cup {NoTable}, version : 0..MaxChanges]]
    /\ active \in RefTables \cup {NoTable}
    /\ panel \in [open : BOOLEAN, timers : 0..1]
    /\ req \in [Slots -> [kind : {"none", "load", "change"}, list : Lists \cup {NoTable},
                          auth : BOOLEAN, served : BOOLEAN, version : 0..MaxChanges, late : BOOLEAN]]
    /\ doubt \subseteq Kept

(* The panel refreshes itself while it is open, with one timer, and stops   *)
(* when it is closed or the user logs out.                                  *)
TimerOnlyWhileOpen == panel.timers = IF panel.open /\ token THEN 1 ELSE 0

(* Rows under a tab of the reference tables are rows of that table, however *)
(* fast the user switches.                                                  *)
RowsFitTheirTab == \A t \in RefTables : Filled(t) => list[t].of = t

Out(l) == \E s \in Slots : req[s].list = l
Shown(l) == l \in {"users", "routes"} \/ l = active

(* With nothing under way for it, a list that is shown has every change the *)
(* page made, unless an answer was lost or came out of order.               *)
SettledListsAreCurrent ==
    \A l \in Kept \ doubt :
        Shown(l) /\ Filled(l) /\ ~Out(l) => list[l].version = version[l]

(* The lists on the screen are their tables', and are kept current only     *)
(* while they are looked at.                                                *)
ListsAreCurrent ==
    /\ TimerOnlyWhileOpen
    /\ RowsFitTheirTab
    /\ SettledListsAreCurrent
=============================================================================
