---------------------------- MODULE JanusDeepDive ----------------------------
(***************************************************************************)
(* A request of Janus to look deeper into it all (janus/deep_dive.py,      *)
(* service.py): it is recorded, approved or rejected, executed and         *)
(* deleted, each by a request of a client, in any order and at once.  An   *)
(* execution looks at the status once and then writes its own.             *)
(*                                                                         *)
(* One identifier; what the execution gathers is left out, and what else   *)
(* a deletion names.                                                       *)
(***************************************************************************)
EXTENDS Naturals, FiniteSets

CONSTANTS
    Executors,   \* executions that may be under way at once
    MaxAsked,    \* bound: times that the request is recorded
    MaxApproved, \* bound: approvals
    MaxDeaths    \* bound: executions that raise or are killed

ASSUME DeepDiveConstants ==
    MaxAsked \in Nat /\ MaxApproved \in Nat /\ MaxDeaths \in Nat

VARIABLES
    dive,      \* status of the row in active_deep_dive_requests, "none" for no row
    results,   \* number of rows in active_deep_dive_results
    executor,  \* where each execution stands
    asked, approved,
    \* what really happened, for the properties only
    gathered,  \* results ever recorded
    shared,    \* looks at an approval that another execution was looking at
    spared,    \* without a row: results that its deletion left or could not see yet
    trimmed,   \* since the last result, results were deleted or a client said "completed"
    deaths

diveVars == <<dive, results, executor, asked, approved,
              gathered, shared, spared, trimmed, deaths>>

\* The statuses, all others in one.
DiveStatuses == {"needs_approval", "approved", "rejected", "executing", "completed", "other"}

DiveInit ==
    /\ dive = "none" /\ results = 0 /\ executor = [x \in Executors |-> "off"]
    /\ asked = 0 /\ approved = 0
    /\ gathered = 0 /\ shared = 0 /\ spared = 0 /\ trimmed = FALSE /\ deaths = 0

\* A user, or the model that interprets an event, names the identifier: a row that
\* is there is replaced.  A user's request has any status that the user likes.
RequestDive ==
    /\ asked < MaxAsked /\ asked' = asked + 1
    /\ dive' \in DiveStatuses
    /\ IF dive' = "approved" THEN approved < MaxApproved /\ approved' = approved + 1
       ELSE UNCHANGED approved
    /\ spared' = 0 /\ trimmed' = (trimmed \/ dive' = "completed")
    /\ UNCHANGED <<results, executor, gathered, shared, deaths>>

ApproveUnasked ==
    /\ approved < MaxApproved
    /\ approved' = approved + 1
    /\ dive' = "approved"
    /\ UNCHANGED <<results, executor, asked, gathered, shared, spared, trimmed, deaths>>

\* update_deep_dive_status looks for the row, not for its status.
ApproveDive ==
    /\ dive # "none" /\ approved < MaxApproved
    /\ approved' = approved + 1
    /\ dive' = "approved"
    /\ UNCHANGED <<results, executor, asked, gathered, shared, spared, trimmed, deaths>>

RejectDive ==
    /\ dive # "none"
    /\ dive' = "rejected"
    /\ UNCHANGED <<results, executor, asked, approved, gathered, shared, spared, trimmed, deaths>>

\* Executions whose result is still to come.
Pending == {x \in Executors : executor[x] \in {"looked", "gathering"}}

\* janus_privacy_delete of the identifier: the row and its results in one transaction.
DeleteRowOnly ==
    /\ dive' = "none"
    /\ spared' = Cardinality(Pending)
    /\ UNCHANGED <<results, executor, asked, approved, gathered, shared, trimmed, deaths>>

DeleteDive ==
    /\ dive' = "none" /\ results' = 0
    /\ spared' = Cardinality(Pending) /\ trimmed' = (trimmed \/ results > 0)
    /\ UNCHANGED <<executor, asked, approved, gathered, shared, deaths>>

\* Of a source, an episode or several at once: only requests have a source, and the
\* results have the episodes of the requests that they were gathered for.
DeleteInPart ==
    /\ dive' \in {dive, "none"} /\ results' \in 0..results
    /\ spared' = IF dive' = "none" THEN results' + Cardinality(Pending) ELSE 0
    /\ trimmed' = (trimmed \/ results' < results)
    /\ UNCHANGED <<executor, asked, approved, gathered, shared, deaths>>

AllowedUnlessRefused == dive \notin {"none", "needs_approval", "rejected"}
Allowed == dive = "approved"

LookAtStatus(x) ==
    /\ executor[x] = "off" /\ Allowed
    /\ executor' = [executor EXCEPT ![x] = "looked"]
    /\ shared' = IF \E y \in Executors : executor[y] = "looked" THEN shared + 1 ELSE shared
    /\ UNCHANGED <<dive, results, asked, approved, gathered, spared, trimmed, deaths>>

\* A row that is gone meanwhile stays gone.
Write(status) == dive' = IF dive = "none" THEN "none" ELSE status

CompleteFirst(x) ==
    /\ executor[x] = "looked"
    /\ Write("completed")
    /\ executor' = [executor EXCEPT ![x] = "gathering"]
    /\ UNCHANGED <<results, asked, approved, gathered, shared, spared, trimmed, deaths>>

StartDive(x) ==
    /\ executor[x] = "looked"
    /\ Write("executing")
    /\ executor' = [executor EXCEPT ![x] = "gathering"]
    /\ UNCHANGED <<results, asked, approved, gathered, shared, spared, trimmed, deaths>>

\* The result is recorded whatever has become of the request.
RecordResult(x) ==
    /\ executor[x] = "gathering"
    /\ results' = results + 1 /\ gathered' = gathered + 1 /\ trimmed' = FALSE
    /\ executor' = [executor EXCEPT ![x] = "recorded"]
    /\ UNCHANGED <<dive, asked, approved, shared, spared, deaths>>

CompleteDive(x) ==
    /\ executor[x] = "recorded"
    /\ Write("completed")
    /\ executor' = [executor EXCEPT ![x] = "off"]
    /\ UNCHANGED <<results, asked, approved, gathered, shared, spared, trimmed, deaths>>

KillDive(x) ==
    /\ executor[x] # "off" /\ deaths < MaxDeaths
    /\ deaths' = deaths + 1
    /\ executor' = [executor EXCEPT ![x] = "off"]
    /\ UNCHANGED <<dive, results, asked, approved, gathered, shared, spared, trimmed>>

DiveNext ==
    \/ RequestDive \/ ApproveDive \/ RejectDive \/ DeleteDive \/ DeleteInPart
    \/ \E x \in Executors :
        LookAtStatus(x) \/ StartDive(x) \/ RecordResult(x) \/ CompleteDive(x) \/ KillDive(x)

DiveSpec == DiveInit /\ [][DiveNext]_diveVars
-----------------------------------------------------------------------------
(* The type invariant: what the tables and the locals may hold; no row comes of itself. *)
DiveTypeOK ==
    /\ dive \in DiveStatuses \cup {"none"}
    /\ executor \in [Executors -> {"off", "looked", "gathering", "recorded"}]
    /\ gathered \in Nat /\ results \in 0..gathered
    /\ asked \in 0..MaxAsked /\ approved \in 0..MaxApproved /\ deaths \in 0..MaxDeaths
    /\ shared \in Nat /\ spared \in Nat /\ trimmed \in BOOLEAN
    /\ asked = 0 => dive = "none"

(***************************************************************************)
(* Safety, with requests that overlap and executions that die.             *)
(***************************************************************************)

\* There are no more results than approvals, whatever is approved, rejected or asked
\* for again meanwhile and wherever an execution dies, but for one more each time that
\* an execution looks at an approval that another has looked at and not written over
\* yet (execute_approved_deep_dive).
ResultsAreApproved == gathered <= approved + shared

\* A request that reads as completed has a result: an execution records it first, and
\* it is missing only if a client has deleted results behind the last one recorded, or
\* said "completed" itself.
CompletedHasResult == dive = "completed" => results > 0 \/ trimmed

\* Behind a deletion there are no more results than it has left: none of a request that
\* it named, and one of each execution that had not recorded its own yet.
DeletionIsComplete == dive = "none" => results <= spared

\* Results and requests stand for each other.
DivesAreBacked == ResultsAreApproved /\ CompletedHasResult /\ DeletionIsComplete
=============================================================================
