--------------------------- MODULE ApprovalContract ---------------------------
(***************************************************************************)
(* What runs and approvals promise to whoever reads the two tables, however*)
(* many request handlers race and wherever the process dies:               *)
(*                                                                         *)
(*   - an action that needs an approval is performed only behind a request *)
(*     for it;                                                             *)
(*   - a decision, once taken, may be replaced by the other one but never  *)
(*     returns to pending;                                                 *)
(*   - an approval is recorded as carried out, and its run as succeeded,   *)
(*     only if the action was performed.                                   *)
(*                                                                         *)
(* It deliberately does not promise that a rejected action was never       *)
(* performed or that an action is performed once: the code does not.       *)
(***************************************************************************)
CONSTANT Runs

VARIABLES
    decision,   \* none, pending, done or rejected
    performed,  \* the runs whose action was carried out at least once
    reported    \* the runs reported as succeeded

vars == <<decision, performed, reported>>

Init ==
    /\ decision = [r \in Runs |-> "none"]
    /\ performed = {}
    /\ reported = {}

Ask(r) ==
    /\ decision[r] = "none" /\ r \notin reported
    /\ decision' = [decision EXCEPT ![r] = "pending"]
    /\ UNCHANGED <<performed, reported>>

Perform(r) ==
    /\ decision[r] # "none"
    /\ performed' = performed \cup {r}
    /\ UNCHANGED <<decision, reported>>

Decide(r) ==
    /\ decision[r] # "none"
    /\ \E d \in {"done", "rejected"} :
         /\ d = "done" => r \in performed
         /\ decision' = [decision EXCEPT ![r] = d]
    /\ UNCHANGED <<performed, reported>>

Report(r) ==
    /\ decision[r] = "none" \/ r \in performed
    /\ reported' = reported \cup {r}
    /\ UNCHANGED <<decision, performed>>

Retract(r) ==
    /\ reported' = reported \ {r}
    /\ UNCHANGED <<decision, performed>>

Next ==
    \E r \in Runs : Ask(r) \/ Perform(r) \/ Decide(r) \/ Report(r) \/ Retract(r)

Spec == Init /\ [][Next]_vars
=============================================================================
