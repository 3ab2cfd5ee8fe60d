---------------------------- MODULE BrowserFiles ----------------------------
(***************************************************************************)
(* static/js/app.js: the two tabs that start from an uploaded CSV file -   *)
(* Step 1, which imports it into the staging table, and batch delete -     *)
(* with the upload store and the import behind them.                       *)
(*                                                                         *)
(* An upload is kept under an id until the weekly clean-up removes it.     *)
(* Choosing another file is never disabled, so uploads and imports overlap *)
(* and their answers come in any order, or not at all, and in a later      *)
(* session.  A file is the sequence of the tag names of its rows; its      *)
(* other columns, and how the delete task runs (BrowserTasks), are left    *)
(* out.                                                                    *)
(***************************************************************************)
EXTENDS Integers, Sequences, FiniteSets

CONSTANTS Names,      \* tag names
          Unnamed,    \* the tag name of a row that has none
          Files,      \* files the user may choose: sequences of rows
          SqlPage,    \* rows in one statement of execute_values, 100
          Slots,      \* bound: requests under way at one time
          MaxUploads, \* bound: uploads in a behaviour
          MaxEpoch    \* bound: logouts in a behaviour

(* What is assumed of the constants.                                        *)
ConstantsFit ==
    /\ Unnamed \notin Names
    /\ Files \subseteq Seq(Names \cup {Unnamed})
    /\ SqlPage \in Nat \ {0}
    /\ IsFiniteSet(Slots)
    /\ MaxUploads \in Nat
    /\ MaxEpoch \in Nat

VARIABLES epoch,   \* sessions ended so far
          uploads, \* the file of each upload id given out
          stored,  \* the ids whose rows are still in the upload store
          table,   \* the tag names in the staging table
          imp,     \* Step 1: imp
          del,     \* batch delete: delState
          req      \* the coroutines

vars == <<epoch, uploads, stored, table, imp, del, req>>

-----------------------------------------------------------------------------
(* The shapes of the data.  Upload 0 is no upload. *)

Ids == 0..MaxUploads

(* What import_staging returns; upload, added and late are the model's: the *)
(* upload imported, the rows really added, and whether another file was     *)
(* shown meanwhile.                                                         *)
NoResult == [inserted |-> 0, skipped |-> 0, total |-> 0, upload |-> 0, added |-> 0, late |-> FALSE]
ResultType == [inserted : Nat, skipped : Nat, total : Nat, upload : Ids, added : Nat, late : BOOLEAN]

(* delState.task: what was sent; kept: another file came while it ran. *)
NoTask == [upload |-> 0, dry |-> TRUE, kept |-> FALSE]
TaskType == [upload : Ids, dry : BOOLEAN, kept : BOOLEAN]

(* The declarations of imp and delState. *)
NoImp == [upload |-> 0, importing |-> FALSE, result |-> NoResult]
NoDel == [upload |-> 0, dry |-> TRUE, executing |-> FALSE, task |-> NoTask, resultDry |-> TRUE]

NoReq == [kind |-> "none", epoch |-> 0, file |-> <<>>, upload |-> 0, code |-> "", result |-> NoResult, late |-> FALSE]
Kinds == {"none", "upload", "uploadDelete", "import", "delete"}
ReqType == [kind : Kinds, epoch : 0..MaxEpoch, file : Files \cup {<<>>}, upload : Ids,
            code : {"", "ok", "refused"}, result : ResultType, late : BOOLEAN]

Init ==
    /\ epoch = 0
    /\ uploads = <<>> /\ stored = {}
    /\ table \in SUBSET Names
    /\ imp = NoImp /\ del = NoDel
    /\ req = [s \in Slots |-> NoReq]

Out(kind) == {s \in Slots : req[s].kind = kind}
Send(kind, upload) ==
    \E s \in Slots : req[s].kind = "none"
        /\ req' = [req EXCEPT ![s] = [NoReq EXCEPT !.kind = kind, !.epoch = epoch, !.upload = upload]]

-----------------------------------------------------------------------------
(* Choosing a file *)

(* For the bound: uploads that were made, or are under way. *)
Sent == Len(uploads) + Cardinality(Out("upload") \cup Out("uploadDelete"))

(* handleFile, onDrop, handleDeleteFile and onDeleteDrop: the file is sent. *)
(* A dropped file that is not a .csv is not.                                *)
ChooseFile(kind, f) ==
    /\ Sent < MaxUploads
    /\ \E s \in Slots : req[s].kind = "none"
           /\ req' = [req EXCEPT ![s] = [NoReq EXCEPT !.kind = kind, !.epoch = epoch, !.file = f]]
    /\ UNCHANGED <<epoch, uploads, stored, table, imp, del>>

(* The imports that are out belong to the file that was shown until now. *)
Overtaken(s) == [q \in Slots |-> IF q = s THEN NoReq
                                 ELSE [req[q] EXCEPT !.late = @ \/ req[q].kind = "import"]]

(* A slip: the result of the file before stays.                             *)
UploadKeepsResult(s) ==
    /\ req[s].kind = "upload" /\ req[s].code = "ok"
    /\ imp' = [imp EXCEPT !.upload = req[s].upload]
    /\ req' = Overtaken(s)
    /\ UNCHANGED <<epoch, uploads, stored, table, del>>

(* _uploadCSV after its answer. *)
UploadAnswered(s) ==
    /\ req[s].kind = "upload" /\ req[s].code = "ok"
    /\ imp' = [imp EXCEPT !.upload = req[s].upload, !.result = NoResult]
    /\ req' = Overtaken(s)
    /\ UNCHANGED <<epoch, uploads, stored, table, del>>

(* _uploadDeleteCSV after its answer: a task that is followed stays. *)
DeleteUploadAnswered(s) ==
    /\ req[s].kind = "uploadDelete" /\ req[s].code = "ok"
    /\ del' = [del EXCEPT !.upload = req[s].upload,
                          !.task = IF del.executing THEN [@ EXCEPT !.kept = TRUE] ELSE NoTask]
    /\ req' = [req EXCEPT ![s] = NoReq]
    /\ UNCHANGED <<epoch, uploads, stored, table, imp>>

(* Either upload failed, or its answer was lost: an alert. *)
UploadFails(s) ==
    /\ req[s].kind \in {"upload", "uploadDelete"}
    /\ req' = [req EXCEPT ![s] = NoReq]
    /\ UNCHANGED <<epoch, uploads, stored, table, imp, del>>

(* The link beside the import button; it is never disabled. *)
resetUpload ==
    /\ imp.upload # 0
    /\ imp' = NoImp
    /\ req' = [q \in Slots |-> [req[q] EXCEPT !.late = @ \/ req[q].kind = "import"]]
    /\ UNCHANGED <<epoch, uploads, stored, table, del>>

-----------------------------------------------------------------------------
(* Importing into the staging table *)

importToStaging ==
    /\ imp.upload # 0 /\ ~imp.importing
    /\ imp' = [imp EXCEPT !.importing = TRUE]
    /\ Send("import", imp.upload)
    /\ UNCHANGED <<epoch, uploads, stored, table, del>>

ImportAnswered(s) ==
    /\ req[s].kind = "import" /\ req[s].code = "ok"
    /\ imp' = [imp EXCEPT !.importing = FALSE, !.result = [req[s].result EXCEPT !.late = req[s].late]]
    /\ req' = [req EXCEPT ![s] = NoReq]
    /\ UNCHANGED <<epoch, uploads, stored, table, del>>

(* importToStaging after an error of the server, of the request or of its   *)
(* answer: finally.                                                         *)
ImportFails(s) ==
    /\ req[s].kind = "import"
    /\ imp' = [imp EXCEPT !.importing = FALSE]
    /\ req' = [req EXCEPT ![s] = NoReq]
    /\ UNCHANGED <<epoch, uploads, stored, table, del>>

-----------------------------------------------------------------------------
(* Batch delete *)

(* The box for a dry run; it stays open while a task is followed. *)
ToggleDry ==
    /\ del' = [del EXCEPT !.dry = ~@]
    /\ UNCHANGED <<epoch, uploads, stored, table, imp, req>>

(* executeDelete up to its POST; without dry_run the user has confirmed (an *)
(* answer of no returns before anything changes).                           *)
executeDelete ==
    /\ del.upload # 0 /\ ~del.executing
    /\ del' = [del EXCEPT !.resultDry = del.dry, !.executing = TRUE,
                          !.task = [upload |-> del.upload, dry |-> del.dry, kept |-> FALSE]]
    /\ Send("delete", del.upload)
    /\ UNCHANGED <<epoch, uploads, stored, table, imp>>

(* _runGatewayTask to its end, refused or followed: finally looks at the    *)
(* session.                                                                 *)
DeleteEnds(s) ==
    /\ req[s].kind = "delete"
    /\ del' = IF req[s].epoch = epoch THEN [del EXCEPT !.executing = FALSE] ELSE del
    /\ req' = [req EXCEPT ![s] = NoReq]
    /\ UNCHANGED <<epoch, uploads, stored, table, imp>>

-----------------------------------------------------------------------------
(* The session: doLogout's _resetState for these two tabs *)

doLogout ==
    /\ epoch < MaxEpoch
    /\ epoch' = epoch + 1
    /\ imp' = NoImp /\ del' = NoDel
    /\ req' = [q \in Slots |-> [req[q] EXCEPT !.late = @ \/ req[q].kind = "import"]]
    /\ UNCHANGED <<uploads, stored, table>>

-----------------------------------------------------------------------------
(* The server *)

(* upload_csv: the rows are stored under a new id, or refused. *)
ServeUpload(s) ==
    /\ req[s].kind \in {"upload", "uploadDelete"} /\ req[s].code = ""
    /\ \/ /\ uploads' = Append(uploads, req[s].file)
          /\ stored' = stored \cup {Len(uploads) + 1}
          /\ req' = [req EXCEPT ![s].code = "ok", ![s].upload = Len(uploads) + 1]
       \/ /\ req' = [req EXCEPT ![s].code = "refused"]
          /\ UNCHANGED <<uploads, stored>>
    /\ UNCHANGED <<epoch, table, imp, del>>

(* import_staging: rows without a name are skipped, and the others inserted *)
(* unless their name is there.  execute_values sends them in statements of  *)
(* SqlPage rows; rowcount is what the last statement inserted.              *)
Named(f) == {i \in DOMAIN f : f[i] # Unnamed}
NamesOf(f, chosen) == {f[i] : i \in chosen}
LastPageStart(f) == ((Cardinality(Named(f)) - 1) \div SqlPage) * SqlPage
LastPage(f) == {i \in Named(f) : Cardinality({j \in Named(f) : j < i}) >= LastPageStart(f)}
rowcount(f, there) ==
    Cardinality(NamesOf(f, LastPage(f)) \ (there \cup NamesOf(f, Named(f) \ LastPage(f))))

ImportStaging(u) ==
    LET f == uploads[u]
        inserted == rowcount(f, table)
    IN  [inserted |-> inserted, skipped |-> Len(f) - inserted, total |-> Len(f), upload |-> u,
         added |-> Cardinality(NamesOf(f, Named(f)) \ table), late |-> FALSE]

(* pg_staging_import: 404 when the upload is gone, 500 when the database    *)
(* refuses the whole statement.                                             *)
ServeImport(s) ==
    LET u == req[s].upload
    IN  /\ req[s].kind = "import" /\ req[s].code = ""
        /\ \/ /\ u \in stored
              /\ table' = table \cup NamesOf(uploads[u], Named(uploads[u]))
              /\ req' = [req EXCEPT ![s].code = "ok", ![s].result = ImportStaging(u)]
           \/ /\ req' = [req EXCEPT ![s].code = "refused"]
              /\ UNCHANGED table
        /\ UNCHANGED <<epoch, uploads, stored, imp, del>>

(* _cleanup_csv_uploads removes a file that is old enough. *)
CleanUp(u) ==
    /\ u \in stored /\ stored' = stored \ {u}
    /\ UNCHANGED <<epoch, uploads, table, imp, del, req>>

-----------------------------------------------------------------------------

Next ==
    \/ resetUpload \/ importToStaging \/ ToggleDry \/ executeDelete \/ doLogout
    \/ \E kind \in {"upload", "uploadDelete"}, f \in Files : ChooseFile(kind, f)
    \/ \E s \in Slots : \/ UploadAnswered(s) \/ DeleteUploadAnswered(s) \/ UploadFails(s)
                        \/ ImportAnswered(s) \/ ImportFails(s) \/ DeleteEnds(s)
                        \/ ServeUpload(s) \/ ServeImport(s)
    \/ \E u \in Ids \ {0} : CleanUp(u)

Spec == Init /\ [][Next]_vars

-----------------------------------------------------------------------------
(* Properties *)

(* The tabs, the files on the server and the requests keep their types.    *)
TypeOK ==
    /\ epoch \in 0..MaxEpoch
    /\ uploads \in Seq(Files) /\ Len(uploads) \in Ids /\ stored \subseteq DOMAIN uploads
    /\ table \subseteq Names
    /\ imp \in [upload : Ids, importing : BOOLEAN, result : ResultType]
    /\ del \in [upload : Ids, dry : BOOLEAN, executing : BOOLEAN,
                task : TaskType, resultDry : BOOLEAN]
    /\ req \in [Slots -> ReqType]
    /\ imp.upload \in {0} \cup DOMAIN uploads /\ del.upload \in {0} \cup DOMAIN uploads

(* The import button is closed only while an import is out: whatever        *)
(* failed, was replaced or was left behind by a logout, it opens again.     *)
ImportingMeansOut == imp.importing => Out("import") # {}

(* The result of an import stands under the file it came from, unless the   *)
(* file was replaced while the import was out.                              *)
ResultFitsFile == imp.result # NoResult => imp.result.upload = imp.upload \/ imp.result.late

(* The result accounts for every row of the file. *)
ImportAddsUp == imp.result.inserted + imp.result.skipped = imp.result.total

(* The title over a delete task names the mode it was sent with. *)
DeleteTitleIsTrue == del.task # NoTask => del.resultDry = del.task.dry

(* The delete task shown belongs to the file shown, unless the file was     *)
(* replaced while the task was followed.                                    *)
DeleteFitsFile == del.task # NoTask => del.task.upload = del.upload \/ del.task.kept

(* What stands under a file is about that file.                             *)
FilesKeepTheirResults ==
    /\ ImportingMeansOut
    /\ ResultFitsFile
    /\ ImportAddsUp
    /\ DeleteTitleIsTrue
    /\ DeleteFitsFile
=============================================================================
