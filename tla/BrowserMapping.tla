--------------------------- MODULE BrowserMapping ---------------------------
(***************************************************************************)
(* static/js/app.js: the I/O mapping tab, which joins two uploaded files   *)
(* and offers the result for download, and the cache of results behind it. *)
(*                                                                         *)
(* The server keeps the newest results only, and none over a restart.  The *)
(* page reads the id of the result again when a download arrives.  Files   *)
(* stand for their versions: choosing a file makes a new pair.  Several    *)
(* pages share the server; the others only make results.                   *)
(***************************************************************************)
EXTENDS Integers, Sequences, FiniteSets, SequencesExt

CONSTANTS CacheMax,    \* _IO_MAPPING_CACHE_MAX, 50
          Slots,       \* bound: requests of the page under way at one time
          MaxMappings, \* bound: results made
          MaxEpoch     \* bound: logouts in a behaviour

(* What is assumed of the constants.                                        *)
ConstantsFit ==
    /\ CacheMax \in Nat \ {0}
    /\ MaxMappings \in Nat
    /\ MaxEpoch \in Nat

VARIABLES files,    \* ioMapping.fileA and fileB are chosen
          tab,      \* the rest of ioMapping
          epoch,    \* logouts so far
          req,      \* the coroutines
          made,     \* results made by the server so far
          cache,    \* _io_mapping_cache, oldest first: the ids in it
          restarts, \* results made before the server's last start
          saved     \* the model's: the last file saved

pageVars == <<files, tab>>
vars == <<pageVars, epoch, req, made, cache, restarts, saved>>

-----------------------------------------------------------------------------
(* The shapes of the data.  Id 0 is null. *)

Ids == 0..MaxMappings

(* mappingId, executing, and the result shown. *)
NoTab == [mappingId |-> 0, executing |-> FALSE, result |-> 0]
TabType == [mappingId : Ids, executing : BOOLEAN, result : Ids]

NoReq == [kind |-> "none", id |-> 0, code |-> "", crossed |-> FALSE]
ReqType == [kind : {"none", "execute", "download"}, id : Ids, code : {"", "ok", "refused"}, crossed : BOOLEAN]

(* A saved file: the id in its name, the result in it, and whether the tab  *)
(* changed while it was on its way.                                         *)
NothingSaved == [name |-> 0, content |-> 0, crossed |-> FALSE]

Init ==
    /\ files = FALSE /\ tab = NoTab
    /\ epoch = 0
    /\ req = [s \in Slots |-> NoReq]
    /\ made = 0 /\ cache = <<>> /\ restarts = 0
    /\ saved = NothingSaved

-----------------------------------------------------------------------------
(* The page *)

ChooseFiles ==
    /\ ~files /\ files' = TRUE
    /\ UNCHANGED <<tab, epoch, req, made, cache, restarts, saved>>

(* executeIoMapping up to its request; the button is disabled while another *)
(* one is out.                                                              *)
executeIoMapping ==
    /\ files /\ ~tab.executing
    /\ tab' = [tab EXCEPT !.executing = TRUE, !.result = 0]
    /\ \E s \in Slots : req[s].kind = "none" /\ req' = [req EXCEPT ![s] = [NoReq EXCEPT !.kind = "execute"]]
    /\ UNCHANGED <<files, epoch, made, cache, restarts, saved>>

(* The tab changes: a download that is on its way is crossed by it. *)
Crossed(s) == [q \in Slots |-> IF q = s THEN NoReq ELSE [req[q] EXCEPT !.crossed = req[q].kind = "download"]]

(* A slip: the id of the first result stays.                                *)
MappedKeepsId(s) ==
    /\ req[s].kind = "execute" /\ req[s].code = "ok"
    /\ tab' = [mappingId |-> IF tab.mappingId = 0 THEN req[s].id ELSE tab.mappingId,
               executing |-> FALSE, result |-> req[s].id]
    /\ req' = Crossed(s)
    /\ UNCHANGED <<files, epoch, made, cache, restarts, saved>>

(* executeIoMapping after its answer. *)
Mapped(s) ==
    /\ req[s].kind = "execute" /\ req[s].code = "ok"
    /\ tab' = [mappingId |-> req[s].id, executing |-> FALSE, result |-> req[s].id]
    /\ req' = Crossed(s)
    /\ UNCHANGED <<files, epoch, made, cache, restarts, saved>>

(* An error of the server, of the request or of its answer: the id of the   *)
(* result before stays, and so does the download button.                    *)
MappingFails(s) ==
    /\ req[s].kind = "execute"
    /\ tab' = [tab EXCEPT !.executing = FALSE]
    /\ req' = [req EXCEPT ![s] = NoReq]
    /\ UNCHANGED <<files, epoch, made, cache, restarts, saved>>

(* downloadIoMapping up to its request. *)
downloadIoMapping ==
    /\ tab.mappingId # 0
    /\ \E s \in Slots : req[s].kind = "none"
           /\ req' = [req EXCEPT ![s] = [NoReq EXCEPT !.kind = "download", !.id = tab.mappingId]]
    /\ UNCHANGED <<pageVars, epoch, made, cache, restarts, saved>>

(* The file is saved under the id the tab has now. *)
Downloaded(s) ==
    /\ req[s].kind = "download" /\ req[s].code = "ok"
    /\ saved' = [name |-> tab.mappingId, content |-> req[s].id, crossed |-> req[s].crossed]
    /\ req' = [req EXCEPT ![s] = NoReq]
    /\ UNCHANGED <<pageVars, epoch, made, cache, restarts>>

DownloadFails(s) ==
    /\ req[s].kind = "download"
    /\ req' = [req EXCEPT ![s] = NoReq]
    /\ UNCHANGED <<pageVars, epoch, made, cache, restarts, saved>>

(* _resetState for this tab. *)
doLogout ==
    /\ epoch < MaxEpoch
    /\ epoch' = epoch + 1
    /\ files' = FALSE /\ tab' = NoTab
    /\ req' = [q \in Slots |-> [req[q] EXCEPT !.crossed = req[q].kind = "download"]]
    /\ UNCHANGED <<made, cache, restarts, saved>>

-----------------------------------------------------------------------------
(* The server *)

(* io_mapping_execute's cache: the oldest results go. *)
Put(id) == LET c == Append(cache, id)
           IN  IF Len(c) > CacheMax THEN Tail(c) ELSE c

ServeExecute(s) ==
    /\ req[s].kind = "execute" /\ req[s].code = ""
    /\ \/ /\ made < MaxMappings
          /\ made' = made + 1 /\ cache' = Put(made + 1)
          /\ req' = [req EXCEPT ![s].code = "ok", ![s].id = made + 1]
       \/ /\ req' = [req EXCEPT ![s].code = "refused"]
          /\ UNCHANGED <<made, cache>>
    /\ UNCHANGED <<pageVars, epoch, restarts, saved>>

(* Another page's mapping. *)
ServeOther ==
    /\ made < MaxMappings
    /\ made' = made + 1 /\ cache' = Put(made + 1)
    /\ UNCHANGED <<pageVars, epoch, req, restarts, saved>>

(* io_mapping_download: 404 for a result that is no longer kept. *)
ServeDownload(s) ==
    /\ req[s].kind = "download" /\ req[s].code = ""
    /\ req' = [req EXCEPT ![s].code = IF req[s].id \in ToSet(cache) THEN "ok" ELSE "refused"]
    /\ UNCHANGED <<pageVars, epoch, made, cache, restarts, saved>>

Restart ==
    /\ cache # <<>>
    /\ cache' = <<>> /\ restarts' = made
    /\ UNCHANGED <<pageVars, epoch, req, made, saved>>

-----------------------------------------------------------------------------

Next ==
    \/ ChooseFiles \/ executeIoMapping \/ downloadIoMapping \/ doLogout
    \/ ServeOther \/ Restart
    \/ \E s \in Slots : \/ Mapped(s) \/ MappingFails(s) \/ Downloaded(s) \/ DownloadFails(s)
                        \/ ServeExecute(s) \/ ServeDownload(s)

Spec == Init /\ [][Next]_vars

-----------------------------------------------------------------------------
(* Properties *)

(* The tab, the cache of results with its limit and the requests keep      *)
(* their types.                                                            *)
TypeOK ==
    /\ files \in BOOLEAN
    /\ tab \in TabType
    /\ epoch \in 0..MaxEpoch
    /\ req \in [Slots -> ReqType]
    /\ made \in Ids /\ cache \in Seq(Ids \ {0}) /\ Len(cache) <= CacheMax
    /\ restarts \in 0..made
    /\ saved \in [name : Ids, content : Ids, crossed : BOOLEAN]

(* The newest CacheMax results made since the server started can be         *)
(* downloaded, and an older one is never handed out.                        *)
NewestResultsAreKept ==
    ToSet(cache) = {i \in Ids \ {0} : made - CacheMax < i /\ restarts < i /\ i <= made}

(* While a result is on the screen, the download offered is that result's,  *)
(* however many mappings failed or were left behind by a logout.            *)
DownloadFitsScreen == tab.result # 0 => tab.mappingId = tab.result

(* The mapping button is closed only while a mapping is out, and no result  *)
(* stands beside it then.                                                   *)
BusyMeansMapping == tab.executing => tab.result = 0 /\ \E s \in Slots : req[s].kind = "execute"

(* A saved file holds the result it is named for, unless the tab changed    *)
(* while it was on its way.                                                 *)
SavedFitsName == saved.crossed \/ saved.name = saved.content

(* The mapping on the screen, the one kept and the one saved are the same.  *)
MappingsAreTrue ==
    /\ NewestResultsAreKept
    /\ DownloadFitsScreen
    /\ BusyMeansMapping
    /\ SavedFitsName
=============================================================================
