---------------------------- MODULE LoginLockout ----------------------------
(***************************************************************************)
(* auth.py: the count of failed logins of one account (check_login_allowed,*)
(* record_login_failure, reset_login_failures) and its window, as          *)
(* user_login of main.py uses them.  The clock goes on while the database  *)
(* is asked and the password compared, but the handler has no await: one   *)
(* login at a time.                                                        *)
(***************************************************************************)
EXTENDS Integers, Sequences, FiniteSets

CONSTANTS Max,      \* LOGIN_MAX_ATTEMPTS, 5 in the code
          Window,   \* LOGIN_LOCKOUT_SECONDS, 300 in the code
          MaxTime   \* bound: the clock

(* What is assumed of the constants.                                        *)
ConstantsFit ==
    /\ Max \in Nat \ {0}
    /\ Window \in Nat \ {0}
    /\ MaxTime \in Nat

VARIABLES now,
          record,   \* _LOGIN_FAILURES of the account: count and start of the window
          pc,       \* idle, or checked: the handler compares the password
          refused,  \* the last answer was 429
          wrong     \* when the wrong passwords since the last login were noted

vars == <<now, record, pc, refused, wrong>>

NoRecord == [count |-> 0, start |-> 0]

Init ==
  /\ now = 0 /\ record = NoRecord /\ pc = "idle" /\ refused = FALSE /\ wrong = <<>>

Expired(r) == now - r.start >= Window

Tick ==
  /\ now < MaxTime
  /\ now' = now + 1
  /\ refused' = FALSE
  /\ UNCHANGED <<record, pc, wrong>>

(* Slip: one attempt more. *)
LockedLate == record.count > Max /\ ~Expired(record)

Locked == record.count >= Max /\ ~Expired(record)

(* check_login_allowed lets the login go on, and drops an expired record. *)
Allowed ==
  /\ pc = "idle" /\ ~Locked
  /\ record' = IF record.count > 0 /\ Expired(record) THEN NoRecord ELSE record
  /\ pc' = "checked" /\ refused' = FALSE
  /\ UNCHANGED <<now, wrong>>

Refused ==
  /\ pc = "idle" /\ Locked
  /\ refused' = TRUE
  /\ UNCHANGED <<now, record, pc, wrong>>

(* record_login_failure: a new window, or one more in the old one. *)
Noted == IF record.count = 0 \/ Expired(record) THEN [count |-> 1, start |-> now]
         ELSE [record EXCEPT !.count = @ + 1]

WrongPassword ==
  /\ pc = "checked"
  /\ record' = Noted
  /\ wrong' = Append(wrong, now)
  /\ pc' = "idle"
  /\ UNCHANGED <<now, refused>>

(* reset_login_failures. *)
LoggedIn ==
  /\ pc = "checked"
  /\ record' = NoRecord
  /\ wrong' = <<>>
  /\ pc' = "idle"
  /\ UNCHANGED <<now, refused>>

(* An account that is not active: 403, and the count stays. *)
Inactive ==
  /\ pc = "checked"
  /\ pc' = "idle"
  /\ UNCHANGED <<now, record, refused, wrong>>

Next == Tick \/ Allowed \/ Refused \/ WrongPassword \/ LoggedIn \/ Inactive
Spec == Init /\ [][Next]_vars

-----------------------------------------------------------------------------
(* The state keeps its type; in particular the count never exceeds Max.    *)
TypeOK ==
  /\ now \in 0 .. MaxTime
  /\ record \in [count : 0 .. Max, start : 0 .. MaxTime]
  /\ pc \in {"idle", "checked"} /\ refused \in BOOLEAN
  /\ \A i \in DOMAIN wrong : wrong[i] \in 0 .. now

Within(span) == Cardinality({i \in DOMAIN wrong : wrong[i] \in span})

(* A login is refused only if at least Max wrong passwords were given in   *)
(* the last Window seconds, with no login in between: nobody is locked out *)
(* by older mistakes, nor longer than the window.                          *)
RefusedForCause == refused => Within({t \in 0 .. now : now - t < Window}) >= Max

(* However the attempts are placed around the end of a window, fewer than  *)
(* 2 * Max wrong passwords are looked at in any span of Window seconds.    *)
FewAttempts == \A s \in 0 .. MaxTime : Within(s .. (s + Window - 1)) < 2 * Max

(* The lockout refuses only with cause, and lets through only a few         *)
(* attempts.                                                                *)
LockoutIsFair ==
    /\ RefusedForCause
    /\ FewAttempts
=============================================================================
