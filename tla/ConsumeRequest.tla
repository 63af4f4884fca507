--------------------------- MODULE ConsumeRequest ---------------------------
(***************************************************************************)
(* What GET /consume of the consumer service promises to the client of a   *)
(* request, without its goroutines: a request may join the consumer group   *)
(* once, and it ends, outside the group, some time after its context did.   *)
(* SseConsumer is shown to implement this module; PortalStream uses it as   *)
(* the service the portal talks to.                                         *)
(***************************************************************************)
CONSTANT Request      \* the requests to /consume

VARIABLES
    req,              \* req[r]: "none", "open", "cut" (its context is cancelled) or "ended"
    member            \* member[r]: its place in the consumer group, "none", "in" or "out"

vars == <<req, member>>

Active == {"open", "cut"}

Init ==
    /\ req = [r \in Request |-> "none"]
    /\ member = [r \in Request |-> "none"]

Begin(r) ==
    /\ req[r] = "none"
    /\ req' = [req EXCEPT ![r] = "open"]
    /\ UNCHANGED member

(* The handler does not look at its context before it launches its listener. *)
Join(r) ==
    /\ req[r] \in Active
    /\ member[r] = "none"
    /\ member' = [member EXCEPT ![r] = "in"]
    /\ UNCHANGED req

Leave(r) ==
    /\ member[r] = "in"
    /\ member' = [member EXCEPT ![r] = "out"]
    /\ UNCHANGED req

(* The client goes, or the server's ReadTimeout is over. *)
Cut(r) ==
    /\ req[r] = "open"
    /\ req' = [req EXCEPT ![r] = "cut"]
    /\ UNCHANGED member

End(r) ==
    /\ req[r] \in Active
    /\ member[r] # "in"
    /\ req' = [req EXCEPT ![r] = "ended"]
    /\ UNCHANGED member

Next == \E r \in Request : Begin(r) \/ Join(r) \/ Leave(r) \/ Cut(r) \/ End(r)

(* A request that was cut off is wound up. *)
Fairness == \A r \in Request : WF_vars(req[r] = "cut" /\ (Leave(r) \/ End(r)))

Safety == Init /\ [][Next]_vars

Spec == Safety /\ Fairness
=============================================================================
