-------------------------- MODULE BrowserOverrides --------------------------
(***************************************************************************)
(* static/js/app.js: editing the rows of Step 3's preview and saving them  *)
(* as overrides of the staging table.                                      *)
(*                                                                         *)
(* saveAllKwOverrides sends the changed rows one by one and marks a row as *)
(* saved when its answer has come.  The inputs stay open meanwhile, and    *)
(* the preview may be derived again: by the user at any time, and by the   *)
(* save itself once every row is stored.  A derivation replaces the rows   *)
(* of the table; the save goes on with the row objects it began with.      *)
(*                                                                         *)
(* A logout empties the table and opens the buttons, and leaves what is    *)
(* out: neither function looks at the epoch, so that a save goes on behind *)
(* the next session's, and a derivation fills its table.                   *)
(*                                                                         *)
(* The four editable fields of a row are one value; Cleared is the empty   *)
(* field that takes an override back, and Base what the row then gets.     *)
(***************************************************************************)
EXTENDS Integers, Sequences, FiniteSets, Functions

CONSTANTS Rows,
          Values,   \* what the user may type
          Cleared,  \* an empty field
          Base,     \* what the derivation gives without an override
          Savers,   \* bound: saves under way at one time
          Derivers, \* bound: derivations under way at one time
          MaxEdits, \* bound: edits in a behaviour
          MaxEpoch  \* bound: logouts in a behaviour

(* What is assumed of the constants.                                        *)
ConstantsFit ==
    /\ {Cleared, Base} \subseteq Values
    /\ Cleared # Base
    /\ IsFiniteSet(Rows)
    /\ MaxEdits \in Nat
    /\ MaxEpoch \in Nat

VARIABLES stored,  \* the override of each staging row
          table,   \* kwDerive.data: what a row shows and what it was stamped with
          saver,   \* the calls of saveAllKwOverrides
          saving,  \* kwDerive.savingOverrides
          derive,  \* derivations on their way
          loading, \* kwDerive.loading
          epoch,   \* _taskEpoch: logouts so far
          edits,   \* edits made so far
          touched, \* the model's: the rows the user ever edited
          lost,    \* the model's: rows stored by a request whose answer was lost
          raced    \* the model's: rows edited while their save was out, or shown
                   \* from a derivation that a save had overtaken

ghosts == <<edits, touched, lost, raced>>
vars == <<stored, table, saver, saving, derive, loading, epoch, ghosts>>

-----------------------------------------------------------------------------

Effective(v) == IF v = Cleared THEN Base ELSE v

NoDerive == [pc |-> "idle", rows |-> [r \in Rows |-> Base]]

(* The rows a save works through, the value the request in flight carries,  *)
(* and, once the table has been replaced, the row objects it still holds.   *)
NoSave == [pc |-> "idle", rest |-> <<>>, sent |-> Base, held |-> <<>>]

Init ==
    /\ stored = [r \in Rows |-> Cleared]
    /\ table = <<>>
    /\ saver = [v \in Savers |-> NoSave] /\ saving = FALSE
    /\ derive = [d \in Derivers |-> NoDerive] /\ loading = FALSE
    /\ epoch = 0
    /\ edits = 0 /\ touched = {}
    /\ lost = {} /\ raced = {}

(* _kwRowChanged *)
Changed(r) == table[r].shown # table[r].orig
Unsaved == {r \in DOMAIN table : Changed(r)}  \* what executeKw warns of

(* A save is under way and works on rows of the table that is shown.        *)
Attached(v) == saver[v].pc # "idle" /\ saver[v].held = <<>>
Current(v) == Head(saver[v].rest)

(* The table goes; the saves keep the row objects they work on. *)
Detached ==
    [v \in Savers |-> IF Attached(v) THEN [saver[v] EXCEPT !.held = [r \in DOMAIN table |-> table[r].shown]]
                      ELSE saver[v]]

-----------------------------------------------------------------------------
(* The session: the part of _resetState for Step 3, and the next login. *)

doLogout ==
    /\ epoch < MaxEpoch
    /\ epoch' = epoch + 1
    /\ table' = <<>> /\ saver' = Detached
    /\ saving' = FALSE /\ loading' = FALSE
    /\ UNCHANGED <<stored, derive, ghosts>>

-----------------------------------------------------------------------------
(* The user *)

(* v-model of a row's inputs. *)
Edit(r, value) ==
    /\ edits < MaxEdits /\ r \in DOMAIN table /\ value # table[r].shown
    /\ edits' = edits + 1
    /\ table' = [table EXCEPT ![r].shown = value]
    /\ touched' = touched \cup {r}
    /\ raced' = IF \E v \in Savers : Attached(v) /\ Current(v) = r THEN raced \cup {r} ELSE raced
    /\ UNCHANGED <<stored, saver, saving, derive, loading, epoch, lost>>

(* A derivation starts, on the user's click or after a save. *)
StartDerive ==
    \E d \in Derivers :
        /\ derive[d].pc = "idle"
        /\ derive' = [derive EXCEPT ![d].pc = "sent"]
        /\ loading' = TRUE

(* deriveKw by the user; the button is disabled while loading. *)
Derive ==
    /\ ~loading
    /\ StartDerive
    /\ UNCHANGED <<stored, table, saver, saving, epoch, ghosts>>

(* saveAllKwOverrides up to the first request; the button is disabled while *)
(* a save of this session is under way, or until any save ends.             *)
SaveAll ==
    /\ ~saving /\ Unsaved # {}
    /\ saving' = TRUE
    /\ \E v \in Savers, order \in Injection(1..Cardinality(Unsaved), Unsaved) :
          /\ saver[v].pc = "idle"
          /\ saver' = [saver EXCEPT ![v] = [pc |-> "sent", rest |-> order, sent |-> table[Head(order)].shown,
                                            held |-> <<>>]]
    /\ UNCHANGED <<stored, table, derive, loading, epoch, ghosts>>

-----------------------------------------------------------------------------
(* The server *)

(* pg_staging_kw_override: patch_kw_overrides of one row. *)
ServeSave(v) ==
    /\ saver[v].pc = "sent"
    /\ stored' = [stored EXCEPT ![Current(v)] = saver[v].sent]
    /\ saver' = [saver EXCEPT ![v].pc = "served"]
    /\ raced' = IF Attached(v) THEN raced ELSE raced \cup {Current(v)}
    /\ UNCHANGED <<table, saving, derive, loading, epoch, edits, touched, lost>>

(* The derivation of pg_client: an override, or the derived value. *)
ServeDerive(d) ==
    /\ derive[d].pc = "sent"
    /\ derive' = [derive EXCEPT ![d].pc = "served", ![d].rows = [r \in Rows |-> Effective(stored[r])]]
    /\ UNCHANGED <<stored, table, saver, saving, loading, epoch, ghosts>>

-----------------------------------------------------------------------------
(* Answers *)

(* A slip: the first answer stamps every row of the save.                   *)
StampAll(t, r) == [q \in DOMAIN t |-> [shown |-> t[q].shown, orig |-> t[q].shown]]
(* _stampKwOrig: the row as it stands now, not as it was sent. *)
Stamp(t, r) == [t EXCEPT ![r].orig = t[r].shown]

(* What the loop reads of the next row. *)
Shown(v, r) == IF Attached(v) THEN table[r].shown ELSE saver[v].held[r]

(* One row is saved: stamped, and on to the next, or to deriving again.     *)
RowSaved(v) ==
    /\ saver[v].pc = "served"
    /\ table' = IF Attached(v) THEN Stamp(table, Current(v)) ELSE table
    /\ LET rest == Tail(saver[v].rest)
       IN  IF rest # <<>>
           THEN /\ saver' = [saver EXCEPT ![v] = [saver[v] EXCEPT !.pc = "sent", !.rest = rest,
                                                                  !.sent = Shown(v, Head(rest))]]
                /\ UNCHANGED <<saving, derive, loading>>
           ELSE saver' = [saver EXCEPT ![v] = NoSave] /\ saving' = FALSE /\ StartDerive
    /\ UNCHANGED <<stored, epoch, ghosts>>

(* A row could not be saved, or its answer was lost: the save stops there.  *)
SaveFails(v) ==
    /\ saver[v].pc \in {"sent", "served"}
    /\ saver' = [saver EXCEPT ![v] = NoSave] /\ saving' = FALSE
    /\ lost' = IF Attached(v) /\ saver[v].pc = "served" THEN lost \cup {Current(v)} ELSE lost
    /\ UNCHANGED <<stored, table, derive, loading, epoch, edits, touched, raced>>

(* deriveKw when its answer has come: new rows, stamped. *)
Derived(d) ==
    LET rows == derive[d].rows
    IN  /\ derive[d].pc = "served"
        /\ table' = [r \in Rows |-> [shown |-> rows[r], orig |-> rows[r]]]
        /\ saver' = Detached
        /\ derive' = [derive EXCEPT ![d] = NoDerive]
        /\ loading' = FALSE
        /\ raced' = {r \in Rows : rows[r] # Effective(stored[r])} /\ lost' = {}
        /\ UNCHANGED <<stored, saving, epoch, edits, touched>>

DeriveFails(d) ==
    /\ derive[d].pc \in {"sent", "served"}
    /\ derive' = [derive EXCEPT ![d] = NoDerive]
    /\ loading' = FALSE
    /\ UNCHANGED <<stored, table, saver, saving, epoch, ghosts>>

-----------------------------------------------------------------------------

Next ==
    \/ \E r \in Rows, value \in Values : Edit(r, value)
    \/ SaveAll \/ Derive \/ doLogout
    \/ \E v \in Savers : ServeSave(v) \/ RowSaved(v) \/ SaveFails(v)
    \/ \E d \in Derivers : ServeDerive(d) \/ Derived(d) \/ DeriveFails(d)

Spec == Init /\ [][Next]_vars

-----------------------------------------------------------------------------
(* Properties *)

RowValues == [Rows -> Values]

(* The page's rows, the stored overrides and the request keep their types. *)
TypeOK ==
    /\ stored \in RowValues
    /\ table \in [DOMAIN table -> [shown : Values, orig : Values]] /\ DOMAIN table \in {{}, Rows}
    /\ saver \in [Savers -> [pc : {"idle", "sent", "served"}, rest : Seq(Rows), sent : Values,
                             held : {<<>>} \cup RowValues]]
    /\ \A v \in Savers : saver[v].pc # "idle" => saver[v].rest # <<>>
    /\ derive \in [Derivers -> [pc : {"idle", "sent", "served"}, rows : RowValues]]
    /\ saving \in BOOLEAN /\ loading \in BOOLEAN
    /\ epoch \in 0..MaxEpoch /\ edits \in 0..MaxEdits
    /\ touched \subseteq Rows /\ lost \subseteq Rows /\ raced \subseteq Rows

InStore(v, r) == v \in {stored[r], Effective(stored[r])}

(* A row the page counts as unchanged shows what the staging table holds,   *)
(* whatever was refused or lost in the middle of a save and whatever goes   *)
(* on of a session before, unless since the table was derived the answer to *)
(* its save was lost, it was edited while its own request was out, or a     *)
(* save that had lost the table stored it.                                  *)
UnchangedRowsAreStored == \A r \in DOMAIN table \ (lost \cup raced) : ~Changed(r) => InStore(table[r].shown, r)

(* Only changed rows are sent: a row nobody edited gets no override, which  *)
(* would keep it from following its derivation later.                       *)
OnlyEditedRowsAreOverridden == \A r \in Rows : stored[r] # Cleared => r \in touched

(* The overrides stored are those the user typed, and the page knows which. *)
SavedMeansStored ==
    /\ UnchangedRowsAreStored
    /\ OnlyEditedRowsAreOverridden
=============================================================================
