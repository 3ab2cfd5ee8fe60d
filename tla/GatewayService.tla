--------------------------- MODULE GatewayService ---------------------------
(***************************************************************************)
(* What the gateway queue and the job runner promise together, without     *)
(* lines, threads, locks or flags: on each gateway a task is served after  *)
(* all that arrived before it have left, whoever is served stays until the *)
(* service ends, and a task is answered once it has left every gateway.    *)
(* GatewayJobs implements this specification.                              *)
(***************************************************************************)
CONSTANTS Keys, Tasks

VARIABLES arrived,  \* the tasks the service has accepted
          present,  \* per gateway, the tasks that have not left it
          ahead,    \* per gateway and task, the earlier tasks still there
          serving,  \* per gateway, the tasks being served
          answered  \* the tasks that have been answered

serviceVars == <<arrived, present, ahead, serving, answered>>

ServiceInit ==
    /\ arrived = {}
    /\ present = [k \in Keys |-> {}]
    /\ ahead = [k \in Keys |-> [t \in Tasks |-> {}]]
    /\ serving = [k \in Keys |-> {}]
    /\ answered = {}

(* A task arrives at all its gateways at once, behind everyone there. *)
Arrive(t, K) ==
    /\ t \notin arrived
    /\ arrived' = arrived \cup {t}
    /\ present' = [k \in Keys |-> IF k \in K THEN present[k] \cup {t} ELSE present[k]]
    /\ ahead' = [k \in Keys |-> [u \in Tasks |->
                    IF k \in K /\ u = t THEN present[k] ELSE ahead[k][u]]]
    /\ UNCHANGED <<serving, answered>>

Serve(k, t) ==
    /\ t \in present[k]
    /\ ahead[k][t] = {}
    /\ serving' = [serving EXCEPT ![k] = @ \cup {t}]
    /\ UNCHANGED <<arrived, present, ahead, answered>>

EndService(k, t) ==
    /\ t \in serving[k]
    /\ serving' = [serving EXCEPT ![k] = @ \ {t}]
    /\ UNCHANGED <<arrived, present, ahead, answered>>

(* Served or not, a task may leave when it is not being served. *)
Leave(k, t) ==
    /\ t \in present[k] \ serving[k]
    /\ present' = [present EXCEPT ![k] = @ \ {t}]
    /\ ahead' = [ahead EXCEPT ![k] = [u \in Tasks |-> IF u = t THEN {} ELSE @[u] \ {t}]]
    /\ UNCHANGED <<arrived, serving, answered>>

Answer(t) ==
    /\ t \in arrived \ answered
    /\ \A k \in Keys : t \notin present[k]
    /\ answered' = answered \cup {t}
    /\ UNCHANGED <<arrived, present, ahead, serving>>

ServiceNext ==
    \/ \E t \in Tasks, K \in SUBSET Keys : Arrive(t, K)
    \/ \E k \in Keys, t \in Tasks : Serve(k, t) \/ EndService(k, t) \/ Leave(k, t)
    \/ \E t \in Tasks : Answer(t)

ServiceSpec == ServiceInit /\ [][ServiceNext]_serviceVars
=============================================================================
