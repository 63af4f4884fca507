------------------------------ MODULE Component -----------------------------
(***************************************************************************)
(* What util.Component (consumer/internal/util/util.go) promises of a      *)
(* background component: a successful Launch starts a background process,  *)
(* Close asks it to stop at its earliest convenience, and the owner of the *)
(* component is told that it is down only when nothing of it runs any more.*)
(* KafkaConsumer is shown to implement this module.                        *)
(***************************************************************************)
CONSTANT Kc           \* the components

VARIABLES
    status,           \* status[k]: "new", "running" or "stopped"
    owner             \* owner[k]: "unaware", "asking" it to stop, or "told" that it is down

vars == <<status, owner>>

Init ==
    /\ status = [k \in Kc |-> "new"]
    /\ owner = [k \in Kc |-> "unaware"]

(* Launch returns with a process in the background, or with an error and nothing left behind. *)
Launch(k) ==
    /\ status[k] = "new"
    /\ \E s \in {"running", "stopped"} : status' = [status EXCEPT ![k] = s]
    /\ UNCHANGED owner

(* The background process ends, on its own or because it was asked to. *)
Stop(k) ==
    /\ status[k] = "running"
    /\ status' = [status EXCEPT ![k] = "stopped"]
    /\ UNCHANGED owner

Ask(k) ==
    /\ status[k] # "new"
    /\ owner[k] = "unaware"
    /\ owner' = [owner EXCEPT ![k] = "asking"]
    /\ UNCHANGED status

Tell(k) ==
    /\ status[k] = "stopped"
    /\ owner[k] # "told"
    /\ owner' = [owner EXCEPT ![k] = "told"]
    /\ UNCHANGED status

Next == \E k \in Kc : Launch(k) \/ Stop(k) \/ Ask(k) \/ Tell(k)

(* A component that was asked to stop does stop, and its owner hears of it. *)
Fairness ==
    \A k \in Kc :
        /\ WF_vars(owner[k] = "asking" /\ Stop(k))
        /\ WF_vars(owner[k] = "asking" /\ Tell(k))

Safety == Init /\ [][Next]_vars

Spec == Safety /\ Fairness
=============================================================================
