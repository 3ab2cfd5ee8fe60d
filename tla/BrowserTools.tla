---------------------------- MODULE BrowserTools ----------------------------
(***************************************************************************)
(* static/js/app.js: the small tools that each wait for one answer - the   *)
(* Collector's test and reload (Step 6), the test of PostgreSQL, and the   *)
(* assistant, whose canned replies come after a pause.                     *)
(*                                                                         *)
(* A button is disabled by its own flag only, and a logout clears the      *)
(* flags of requests that are still out; of the assistant it clears the    *)
(* messages, as its bin does, and leaves a reply under way alone.          *)
(* collector_reload passes the Collector's own HTTP status on.             *)
(***************************************************************************)
EXTENDS Integers, Sequences

CONSTANTS Slots,       \* bound: coroutines at one time
          MaxChats,    \* bound: times the chat is cleared
          MaxMessages, \* bound: messages of the chat
          MaxEpoch     \* bound: logins after the first

(* What is assumed of the constants.                                        *)
ConstantsFit ==
    /\ MaxChats \in Nat
    /\ MaxMessages \in Nat
    /\ MaxEpoch \in Nat

Tools == {"test", "reload", "pgtest"}
Buttons == [test |-> "collector", reload |-> "collector", pgtest |-> "pg"]  \* where its result shows
Codes == {"ok", "error", "unauthorized"}

VARIABLES token,  \* the page has a token
          valid,  \* the server accepts it
          epoch,  \* logins so far
          busy,   \* collectorState.testing, .reloading and pgConn.testing
          status, \* collectorState.status and pgConn.status
          chat,   \* the assistant
          job     \* the coroutines

vars == <<token, valid, epoch, busy, status, chat, job>>

(* job.as: the login whose token a request carries.                         *)
(* chat.number counts the clearings: a message belongs to the chat in which *)
(* its question was asked.                                                  *)
NoChat == [open |-> FALSE, typing |-> FALSE, messages |-> <<>>, number |-> 0]
MessageType == [role : {"user", "assistant"}, chat : 0..MaxChats]
ChatType == [open : BOOLEAN, typing : BOOLEAN, messages : Seq(MessageType), number : 0..MaxChats]

NoJob == [kind |-> "none", as |-> 0, chat |-> 0, code |-> ""]
JobType == [kind : {"none", "reply"} \cup Tools, as : 0..MaxEpoch, chat : 0..MaxChats,
            code : {""} \cup Codes]

Init ==
    /\ token = TRUE /\ valid = TRUE /\ epoch = 0
    /\ busy = [t \in Tools |-> FALSE]
    /\ status = [p \in {"collector", "pg"} |-> ""]
    /\ chat = NoChat
    /\ job = [s \in Slots |-> NoJob]

Start(s, j) == job[s].kind = "none" /\ job' = [job EXCEPT ![s] = j]

-----------------------------------------------------------------------------
(* Sessions *)

(* _resetState, as far as it concerns the tools. *)
Cleared == [chat EXCEPT !.messages = <<>>, !.open = FALSE, !.number = @ + 1]

LogOut ==
    /\ chat.number < MaxChats
    /\ token' = FALSE
    /\ busy' = [t \in Tools |-> FALSE]
    /\ status' = [p \in {"collector", "pg"} |-> ""]
    /\ chat' = Cleared

doLogout == token /\ LogOut /\ UNCHANGED <<valid, epoch, job>>

doLogin ==
    /\ ~token /\ epoch < MaxEpoch
    /\ token' = TRUE /\ valid' = TRUE /\ epoch' = epoch + 1
    /\ UNCHANGED <<busy, status, chat, job>>

(* The token runs out, or the server starts with another key. *)
Expire ==
    /\ token /\ valid /\ valid' = FALSE
    /\ UNCHANGED <<token, epoch, busy, status, chat, job>>

-----------------------------------------------------------------------------
(* The tests and the reload *)

(* testCollector, reloadCollector and testPgConn up to their requests. *)
Press(t) ==
    /\ token /\ ~busy[t]
    /\ \E s \in Slots : Start(s, [NoJob EXCEPT !.kind = t, !.as = epoch])
    /\ busy' = [busy EXCEPT ![t] = TRUE]
    /\ status' = [status EXCEPT !["collector"] = IF t = "pgtest" THEN @ ELSE ""]
    /\ UNCHANGED <<token, valid, epoch, chat>>

(* collector_test_connection and pg_test_connection: 500 when the database  *)
(* does not answer.  collector_reload: the Collector's status as it is, 502 *)
(* when it does not answer.  The token of an earlier login may still be     *)
(* good.                                                                    *)
Serve(s) ==
    /\ job[s].kind \in Tools /\ job[s].code = ""
    /\ \E c \in Codes :
          /\ c = "unauthorized" => ~valid \/ job[s].as # epoch \/ job[s].kind = "reload"
          /\ c # "unauthorized" => valid \/ job[s].as # epoch
          /\ job' = [job EXCEPT ![s].code = c]
    /\ UNCHANGED <<token, valid, epoch, busy, status, chat>>

(* window.fetch: a 401 while the page has a token logs out first, and the   *)
(* handler goes on with the answer all the same.                            *)
Answered(s) ==
    LET t == job[s].kind
        out == job[s].code = "unauthorized" /\ token
    IN  /\ t \in Tools /\ job[s].code # ""
        /\ IF out THEN chat.number < MaxChats /\ chat' = Cleared ELSE UNCHANGED chat
        /\ token' = (token /\ ~out)
        /\ busy' = [u \in Tools |-> IF out THEN FALSE ELSE busy[u] /\ u # t]
        /\ status' = [p \in {"collector", "pg"} |->
                        IF p = Buttons[t] THEN IF job[s].code = "ok" THEN "ok" ELSE "error"
                        ELSE IF out THEN "" ELSE status[p]]
        /\ job' = [job EXCEPT ![s] = NoJob]
        /\ UNCHANGED <<valid, epoch>>

(* No answer: the catch and the finally. *)
Lost(s) ==
    LET t == job[s].kind
    IN  /\ t \in Tools
        /\ busy' = [busy EXCEPT ![t] = FALSE]
        /\ status' = [status EXCEPT ![Buttons[t]] = "error"]
        /\ job' = [job EXCEPT ![s] = NoJob]
        /\ UNCHANGED <<token, valid, epoch, chat>>

-----------------------------------------------------------------------------
(* The assistant.  It can be used while the login is shown. *)

Say(role, n) == Append(chat.messages, [role |-> role, chat |-> n])

openChat(b) ==
    /\ chat.open # b /\ chat' = [chat EXCEPT !.open = b]
    /\ UNCHANGED <<token, valid, epoch, busy, status, job>>

(* The bin of the chat. *)
ClearChat ==
    /\ chat.open /\ chat.number < MaxChats
    /\ chat' = [Cleared EXCEPT !.open = TRUE]
    /\ UNCHANGED <<token, valid, epoch, busy, status, job>>

(* The input is disabled while a reply is on its way; the quick questions   *)
(* show in an empty chat and are not.                                       *)
CanAsk == chat.open /\ (~chat.typing \/ chat.messages = <<>>)

(* chatSend up to the pause. *)
chatSend ==
    /\ CanAsk /\ Len(chat.messages) < MaxMessages
    /\ \E s \in Slots : Start(s, [NoJob EXCEPT !.kind = "reply", !.chat = chat.number])
    /\ chat' = [chat EXCEPT !.messages = Say("user", chat.number), !.typing = TRUE]
    /\ UNCHANGED <<token, valid, epoch, busy, status>>

(* A slip: the reply is dropped when the chat was cleared.                  *)
ReplyDropped(s) ==
    /\ job[s].kind = "reply"
    /\ chat' = IF job[s].chat # chat.number THEN chat
               ELSE [chat EXCEPT !.typing = FALSE, !.messages = Say("assistant", job[s].chat)]
    /\ job' = [job EXCEPT ![s] = NoJob]
    /\ UNCHANGED <<token, valid, epoch, busy, status>>

(* The rest of chatSend, whatever chat is there by now. *)
Reply(s) ==
    /\ job[s].kind = "reply"
    /\ chat' = [chat EXCEPT !.typing = FALSE, !.messages = Say("assistant", job[s].chat)]
    /\ job' = [job EXCEPT ![s] = NoJob]
    /\ UNCHANGED <<token, valid, epoch, busy, status>>

-----------------------------------------------------------------------------

Next ==
    \/ doLogout \/ doLogin \/ Expire \/ ClearChat \/ chatSend
    \/ \E b \in BOOLEAN : openChat(b)
    \/ \E t \in Tools : Press(t)
    \/ \E s \in Slots : Serve(s) \/ Answered(s) \/ Lost(s) \/ Reply(s)

Spec == Init /\ [][Next]_vars

-----------------------------------------------------------------------------
(* Properties *)

(* The flags, the chat and the requests keep their types.                  *)
TypeOK ==
    /\ token \in BOOLEAN /\ valid \in BOOLEAN /\ epoch \in 0..MaxEpoch
    /\ busy \in [Tools -> BOOLEAN]
    /\ status \in [{"collector", "pg"} -> {"", "ok", "error"}]
    /\ chat \in ChatType
    /\ job \in [Slots -> JobType]
    /\ ~token => \A t \in Tools : ~busy[t]

(* No button and no input stays disabled for an answer that no longer can   *)
(* come: a flag stands for something under way, across logouts, cleared     *)
(* chats and overlapping replies.                                           *)
DisabledMeansUnderWay ==
    /\ \A t \in Tools : busy[t] => \E s \in Slots : job[s].kind = t
    /\ chat.typing => \E s \in Slots : job[s].kind = "reply"

(* Questions and replies take turns, unless a reply to a question of a      *)
(* chat that was cleared came in between.                                   *)
RepliesTakeTurns ==
    LET m == chat.messages
    IN  (\A i \in 1..Len(m) : m[i].chat = chat.number) =>
            \A i \in 1..Len(m) : m[i].role = IF i % 2 = 1 THEN "user" ELSE "assistant"

(* The assistant and the connection tests end, and replies come in turn.    *)
RepliesAreInTurn ==
    /\ DisabledMeansUnderWay
    /\ RepliesTakeTurns
=============================================================================
