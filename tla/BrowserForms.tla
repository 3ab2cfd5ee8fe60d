---------------------------- MODULE BrowserForms ----------------------------
(***************************************************************************)
(* static/js/app.js: the forms of the settings - a gateway, a row of the   *)
(* gateway map, a new user, the own password - and what the server does    *)
(* with them.                                                              *)
(*                                                                         *)
(* No form is locked while its request is out: it can be filled for        *)
(* something else, sent twice, or the user can log out.  The button for a  *)
(* new gateway opens the form without resetting its fields (index.html).   *)
(* Of a gateway's fields the name and the mark of the default are kept, as *)
(* there may be one of each; the others are abstracted to the gateway they *)
(* were loaded from.  The text of an error is left out.                    *)
(***************************************************************************)
EXTENDS Integers, FiniteSets

CONSTANTS Names,       \* names of gateways
          MaxGateways, \* bound: gateways made
          Slots,       \* bound: requests under way at one time
          MaxEpoch,    \* bound: logouts
          SmallForms   \* the forms used besides that of a gateway

Ids == 1..MaxGateways
Null == 0            \* no gateway, no name, nothing typed
Gone == -2           \* a row that was deleted: its id is not used again
New == -1            \* a form for a new gateway

(* What is assumed of the constants.                                        *)
ConstantsFit ==
    /\ MaxGateways \in Nat
    /\ MaxEpoch \in Nat
    /\ SmallForms \subseteq {"route", "user", "password"}
    /\ {Null, Gone} \cap Names = {}

VARIABLES gateways, \* the names in kepware_gateway, Null where there is no row yet
          defaults, \* the gateways marked is_default
          token,    \* the page has a token
          epoch,    \* logouts so far
          gwForm,
          form,     \* routeMap.form with formError, newUser, pwForm
          req       \* the coroutines

vars == <<gateways, defaults, token, epoch, gwForm, form, req>>

-----------------------------------------------------------------------------
(* The shapes of the data *)

(* of: the gateway whose other fields are in the form.  secret: what the    *)
(* password was typed for, a gateway or New.                                *)
BlankGateway == [show |-> FALSE, editing |-> Null, name |-> Null, of |-> Null, secret |-> Null,
                 default |-> FALSE]
GatewayFormType ==
    [show : BOOLEAN, editing : Ids \cup {Null}, name : Names \cup {Null}, of : Ids \cup {Null},
     secret : Ids \cup {Null, New}, default : BOOLEAN]

BlankForm == [filled |-> FALSE, message |-> ""]
FormType == [filled : BOOLEAN, message : {"", "ok", "error"}]

NoReq == [kind |-> "none", to |-> Null, name |-> Null, of |-> Null, secret |-> Null,
          default |-> FALSE, state |-> "sent"]
ReqType == [kind : {"none", "gateway"} \cup SmallForms, to : Ids \cup {Null}, name : Names \cup {Null},
            of : Ids \cup {Null}, secret : Ids \cup {Null, New}, default : BOOLEAN, state : {"sent", "ok", "refused"}]

Exists(g) == g \in Ids /\ gateways[g] \in Names

Init ==
    /\ gateways = [g \in Ids |-> Null] /\ defaults = {}
    /\ token = FALSE /\ epoch = 0
    /\ gwForm = BlankGateway
    /\ form = [f \in SmallForms |-> BlankForm]
    /\ req = [s \in Slots |-> NoReq]

doLogin ==
    /\ ~token /\ token' = TRUE
    /\ UNCHANGED <<gateways, defaults, epoch, gwForm, form, req>>

(* doLogout with _resetState, which leaves every form alone but the error   *)
(* of the map's.                                                            *)
doLogout ==
    /\ token /\ epoch < MaxEpoch
    /\ token' = FALSE /\ epoch' = epoch + 1
    /\ form' = [f \in SmallForms |-> IF f = "route" THEN [form[f] EXCEPT !.message = ""] ELSE form[f]]
    /\ UNCHANGED <<gateways, defaults, gwForm, req>>

-----------------------------------------------------------------------------
(* The gateway form *)

Input(f) ==
    /\ token
    /\ gwForm' = f
    /\ UNCHANGED <<gateways, defaults, token, epoch, form, req>>

openNewGateway == Input([gwForm EXCEPT !.show = TRUE, !.editing = Null])
closeGateway == gwForm.show /\ Input([gwForm EXCEPT !.show = FALSE])

TypeName(n) == gwForm.show /\ Input([gwForm EXCEPT !.name = n])
TickDefault == gwForm.show /\ Input([gwForm EXCEPT !.default = ~@])
TypePassword ==
    gwForm.show /\ Input([gwForm EXCEPT !.secret = IF gwForm.editing = Null THEN New ELSE gwForm.editing])

(* editGw: a row of the list, which is taken to be up to date. *)
editGw(g) ==
    /\ Exists(g)
    /\ Input([BlankGateway EXCEPT !.show = TRUE, !.editing = g, !.name = gateways[g], !.of = g,
                                  !.default = g \in defaults])

(* saveGw up to its request, once the fields it asks for are there.         *)
(* Nothing locks the form.                                                  *)
saveGw ==
    LET f == gwForm
    IN  /\ token /\ f.show /\ f.name # Null /\ (f.editing = Null => f.secret # Null)
        /\ \E s \in Slots :
              /\ req[s].kind = "none"
              /\ req' = [req EXCEPT ![s] = [NoReq EXCEPT !.kind = "gateway", !.to = f.editing,
                                 !.name = f.name, !.of = f.of, !.secret = f.secret, !.default = f.default]]
        /\ UNCHANGED <<gateways, defaults, token, epoch, gwForm, form>>

Refuse(s) ==
    /\ req' = [req EXCEPT ![s].state = "refused"]
    /\ UNCHANGED <<token, epoch, gwForm, form>>

(* A slip: the mark is not taken away from the others.                      *)
WriteKeepsDefaults(s, g) ==
    /\ gateways' = [gateways EXCEPT ![g] = req[s].name]
    /\ defaults' = IF req[s].default THEN defaults \cup {g} ELSE defaults \ {g}
    /\ req' = [req EXCEPT ![s].state = "ok"]
    /\ UNCHANGED <<token, epoch, gwForm, form>>

(* The row is written.  A gateway to be the default takes the mark away     *)
(* from the others first.                                                   *)
Write(s, g) ==
    /\ gateways' = [gateways EXCEPT ![g] = req[s].name]
    /\ defaults' = IF req[s].default THEN {g} ELSE defaults \ {g}
    /\ req' = [req EXCEPT ![s].state = "ok"]
    /\ UNCHANGED <<token, epoch, gwForm, form>>

Asked(s) == req[s].kind = "gateway" /\ req[s].state = "sent"

(* The constraint on the table: UNIQUE. *)
Taken(s) == \E g \in Ids : g # req[s].to /\ gateways[g] = req[s].name

(* kw_create_gateway *)
Create(s) ==
    /\ Asked(s) /\ req[s].to = Null
    /\ \/ ~Taken(s) /\ \E g \in Ids : gateways[g] = Null /\ Write(s, g)
       \/ Taken(s) /\ UNCHANGED <<gateways, defaults>> /\ Refuse(s)

(* kw_update_gateway.  The update of a gateway that is gone is answered 404 *)
(* and is committed: the others have lost the mark by then.                 *)
Update(s) ==
    LET g == req[s].to
    IN  /\ Asked(s) /\ g # Null
        /\ \/ Exists(g) /\ ~Taken(s) /\ Write(s, g)
           \/ Exists(g) /\ Taken(s) /\ UNCHANGED <<gateways, defaults>> /\ Refuse(s)
           \/ /\ ~Exists(g)
              /\ defaults' = IF req[s].default THEN {} ELSE defaults
              /\ UNCHANGED gateways /\ Refuse(s)

(* kw_delete_gateway, by this page or another, whatever the form is about. *)
deleteGateway(g) ==
    /\ Exists(g)
    /\ gateways' = [gateways EXCEPT ![g] = Gone] /\ defaults' = defaults \ {g}
    /\ UNCHANGED <<token, epoch, gwForm, form, req>>

(* The rest of saveGw: _resetGwForm, whatever is in the form by now. *)
GatewaySaved(s) ==
    /\ req[s].kind = "gateway" /\ req[s].state = "ok"
    /\ gwForm' = BlankGateway
    /\ req' = [req EXCEPT ![s] = NoReq]
    /\ UNCHANGED <<gateways, defaults, token, epoch, form>>

(* Refused, lost or failed: the form stays as it is, with an error. *)
GatewayFails(s) ==
    /\ req[s].kind = "gateway"
    /\ req' = [req EXCEPT ![s] = NoReq]
    /\ UNCHANGED <<gateways, defaults, token, epoch, gwForm, form>>

-----------------------------------------------------------------------------
(* The other forms, alike to a large part.  Filling the map's is pickRoute  *)
(* or the keyboard.                                                         *)

FillForm(f) ==
    /\ token
    /\ form' = [form EXCEPT ![f] = [filled |-> TRUE,
                                    message |-> IF f = "route" THEN "" ELSE @.message]]
    /\ UNCHANGED <<gateways, defaults, token, epoch, gwForm, req>>

(* saveRoute, createUser and changePassword up to their requests; they end  *)
(* early when a field is missing or the passwords differ.  The button of    *)
(* the map's form is disabled while one is out; its Enter key is not.       *)
SubmitForm(f) ==
    /\ token /\ form[f].filled
    /\ form' = [form EXCEPT ![f].message = ""]
    /\ \E s \in Slots : req[s].kind = "none" /\ req' = [req EXCEPT ![s] = [NoReq EXCEPT !.kind = f]]
    /\ UNCHANGED <<gateways, defaults, token, epoch, gwForm>>

SubmitIncomplete(f) ==
    /\ token /\ f # "user"
    /\ form' = [form EXCEPT ![f].message = "error"]
    /\ UNCHANGED <<gateways, defaults, token, epoch, gwForm, req>>

(* Saved: the form is emptied.  The own password's tells so; a failure is   *)
(* told in the map's and the password's, by a dialogue for a new user.      *)
FormAnswered(s) ==
    LET f == req[s].kind
    IN  /\ f \in SmallForms
        /\ \/ form' = [form EXCEPT ![f].filled = FALSE, ![f].message = IF f = "password" THEN "ok" ELSE @]
           \/ form' = [form EXCEPT ![f].message = IF f = "user" THEN @ ELSE "error"]
        /\ req' = [req EXCEPT ![s] = NoReq]
        /\ UNCHANGED <<gateways, defaults, token, epoch, gwForm>>

-----------------------------------------------------------------------------

Next ==
    \/ doLogin \/ doLogout
    \/ openNewGateway \/ closeGateway \/ TickDefault \/ TypePassword \/ saveGw
    \/ \E n \in Names : TypeName(n)
    \/ \E g \in Ids : editGw(g) \/ deleteGateway(g)
    \/ \E s \in Slots : Create(s) \/ Update(s) \/ GatewaySaved(s) \/ GatewayFails(s) \/ FormAnswered(s)
    \/ \E f \in SmallForms : FillForm(f) \/ SubmitForm(f) \/ SubmitIncomplete(f)

Spec == Init /\ [][Next]_vars

-----------------------------------------------------------------------------
(* Properties *)

(* The map of gateways, the forms and the requests keep their types.       *)
TypeOK ==
    /\ gateways \in [Ids -> Names \cup {Null, Gone}] /\ defaults \subseteq {g \in Ids : Exists(g)}
    /\ token \in BOOLEAN /\ epoch \in 0..MaxEpoch
    /\ gwForm \in GatewayFormType /\ form \in [SmallForms -> FormType]
    /\ req \in [Slots -> ReqType]
    /\ gwForm.editing # Null => gateways[gwForm.editing] # Null /\ gwForm.of = gwForm.editing

(* An update of a gateway carries its own fields, and a password only if it *)
(* was typed for it - however the forms were opened, left and answered      *)
(* before.                                                                  *)
UpdateCarriesItsOwn ==
    \A s \in Slots :
        req[s].kind = "gateway" /\ req[s].to # Null =>
            req[s].of = req[s].to /\ req[s].secret \in {Null, req[s].to}

(* A form that is sent twice makes one gateway: no name is there twice.     *)
NamesAreUnique ==
    \A g, h \in Ids : g # h /\ Exists(g) => gateways[g] # gateways[h]

(* "is_default is unique, the others are cleared before a create or an      *)
(* update" (docs/FLOW_kepware_import.md), whatever is sent twice or to a    *)
(* gateway deleted meanwhile.                                               *)
AtMostOneDefault == Cardinality(defaults) <= 1

(* The table of gateways stays sound behind its dialogue.                   *)
GatewaysAreSound ==
    /\ UpdateCarriesItsOwn
    /\ NamesAreUnique
    /\ AtMostOneDefault
=============================================================================
