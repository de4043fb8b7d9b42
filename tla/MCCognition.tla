----------------------------- MODULE MCCognition -----------------------------
(***************************************************************************)
(* The runtime's queue, what users make of a decision of Janus and its     *)
(* deep dives, in one run: part says which of them a behaviour is about,   *)
(* the others stay in their initial states.  They share no state: the      *)
(* queue is in the cognition database, the rest in that of Janus, and of   *)
(* the knowledge only what Janus promotes.  What users push and a wakeup   *)
(* come in behaviours of their own, and so do candidates that are replaced *)
(* and corrections that overlap.                                           *)
(***************************************************************************)
EXTENDS MCRuntimeQueue, JanusMemory, JanusDeepDive

VARIABLE part

cognitionVars == <<part, vars, janusVars, diveVars>>

CognitionInit ==
    /\ part \in {"queue", "wakeup", "memory", "replaced", "dive"}
    /\ Init /\ JanusInit /\ DiveInit
    /\ part # "memory" => router = "gone"

\* Nothing is replaced and what is corrected is this decision's, or no two requests are
\* under way.
OfThisDecision ==
    /\ \A c \in Memories : owner[c] = "this"
    /\ \A q \in Correctors : corrector[q].by = "this"
OneAtATime == \A p, q \in Underway : p = q

CognitionNext ==
    /\ UNCHANGED part
    /\ \/ part = "queue" /\ Next /\ UNCHANGED <<wakeup, janusVars, diveVars>>
       \/ part = "wakeup" /\ Next /\ PushedFor(None)' = {} /\ UNCHANGED <<janusVars, diveVars>>
       \/ part = "memory" /\ JanusNext /\ OfThisDecision' /\ UNCHANGED <<vars, diveVars>>
       \/ part = "replaced" /\ JanusNext /\ OneAtATime' /\ UNCHANGED <<vars, diveVars>>
       \/ part = "dive" /\ DiveNext /\ UNCHANGED <<vars, janusVars>>

\* The fairness of FairSpec where the queue moves.
CognitionFairness ==
    /\ \A r \in Runtimes : WF_vars(part \in {"queue", "wakeup"} /\ CycleStep(r))
    /\ \A w \in Wakeups : WF_vars(part = "wakeup" /\ ComesDue(w))

\* The type invariants of the components.
CognitionTypeOK == TypeOK /\ JanusTypeOK /\ DiveTypeOK

CognitionSpec == CognitionInit /\ [][CognitionNext]_cognitionVars /\ CognitionFairness
=============================================================================
