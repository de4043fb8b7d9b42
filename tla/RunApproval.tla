----------------------------- MODULE RunApproval -----------------------------
(***************************************************************************)
(* A run, the approval it may ask for, and everyone who writes to them:    *)
(*                                                                         *)
(*   - the worker thread that executes AgentOrchestrator.run for one run   *)
(*     (humungousaur/orchestrator.py, started by api.py);                  *)
(*   - the API request handlers, one thread each, that approve, reject or  *)
(*     edit the pending action (humungousaur/runtime.py) or cancel the run *)
(*     (AuditLog.request_cancel_run);                                      *)
(*   - the process, which may die and take every thread with it.           *)
(*                                                                         *)
(* They share two SQLite tables and nothing else.  Every method of         *)
(* AuditLog and ApprovalStore opens a connection of its own, a SELECT does *)
(* not open a transaction, and no lock spans two statements, so each       *)
(* statement is a step of this specification: a method that reads a row    *)
(* and then updates it is two actions with a program counter between them. *)
(*                                                                         *)
(* A run stops at its first needs_approval result, hence has at most one   *)
(* approval, and the approval's token is identified with its run.          *)
(***************************************************************************)
EXTENDS Naturals, FiniteSets

CONSTANTS
    Runs,          \* run ids; the run's worker thread carries the same name
    Handlers,      \* request-handler threads of the API server and the CLI
    Preapproved,   \* the runs submitted with approve_high_risk
    ModelPlanned,  \* the runs with planner_provider "model"; the others: "explicit"
    Kinds,         \* the kinds of tool the planner may pick, see Outcomes
    Inputs,        \* tool inputs a user may put into a pending approval
    MaxRuns,       \* bound: runs submitted
    MaxTurns,      \* MODEL_PLANNING_MAX_TURNS
    MaxSteps,      \* bound: steps of one plan
    MaxFaults,     \* bound: process crashes and aborted handlers
    None           \* NULL

AllKinds == {"open", "guarded", "selfGated", "blocked", "broken"}

ASSUME ProcessesAreDistinct == Runs \cap Handlers = {}
ASSUME ConstantTypes ==
    /\ Preapproved \subseteq Runs
    /\ ModelPlanned \subseteq Runs
    /\ Kinds \subseteq AllKinds
    /\ MaxRuns \in Nat
    /\ MaxTurns \in Nat \ {0}
    /\ MaxSteps \in Nat
    /\ MaxFaults \in Nat

VARIABLES
    \* table runs
    runStatus,        \* column status, None before the row exists
    finished,         \* finished_at is set
    cancelRequested,  \* cancel_requested_at is set
    \* table approvals
    apprStatus,       \* column status, None before the row exists
    apprInput,        \* column tool_input
    \* locals of the threads
    pc,               \* where each worker and each handler stands
    verdict,          \* the status a thread is about to hand to finish_run
    turn,             \* worker: turn_index of the planning loop
    steps,            \* worker: how many steps of the plan are still to run
    results,          \* worker: the statuses in the list of results
    target,           \* handler: the run it works on
    readInput,        \* handler: the tool_input it read from the approval
    toolResult,       \* handler: the status of the replayed tool
    \* what really happened, for the properties only
    executions,       \* how often the guarded action was performed
    ranInput,         \* the input it was last performed with
    lateActions,      \* tools the worker started after a cancel was recorded
    faults            \* crashes and aborts so far

runsTable == <<runStatus, finished, cancelRequested>>
approvalsTable == <<apprStatus, apprInput>>
workerVars == <<turn, steps, results>>
handlerVars == <<target, readInput, toolResult>>
history == <<executions, ranInput, lateActions>>
vars == <<runsTable, approvalsTable, pc, verdict, workerVars, handlerVars,
          history, faults>>

Procs == Runs \cup Handlers

ResultStatuses == {"succeeded", "failed", "blocked", "skipped", "needs_approval"}
RunStatuses == {"planned", "cancelling", "cancelled", "succeeded", "failed",
                "blocked", "needs_approval"}
Verdicts == {"succeeded", "failed", "blocked", "cancelled", "needs_approval"}
Decided == {"executed", "failed", "rejected"}
ASSUME NoneIsNoValue ==
    None \notin Inputs \cup Runs \cup RunStatuses \cup Decided \cup {"pending"}

WorkerPCs == {"new", "queued", "started", "planning", "planned", "step",
              "execute", "persist", "stepDone", "turnEnd", "planDone",
              "compose", "note", "noPlan", "pausing", "finishRead",
              "finishWrite", "recording", "errorRead", "errorWrite", "done",
              "dead"}
HandlerPCs == {"idle", "approving", "approveRead", "approveWrite", "markRead",
               "markWrite", "rejecting", "rejectRead", "rejectWrite",
               "editing", "cancelWrite"}

Init ==
    /\ runStatus = [r \in Runs |-> None]
    /\ finished = [r \in Runs |-> FALSE]
    /\ cancelRequested = [r \in Runs |-> FALSE]
    /\ apprStatus = [r \in Runs |-> None]
    /\ apprInput = [r \in Runs |-> None]
    /\ pc = [p \in Procs |-> IF p \in Runs THEN "new" ELSE "idle"]
    /\ verdict = [p \in Procs |-> None]
    /\ turn = [r \in Runs |-> 0]
    /\ steps = [r \in Runs |-> 0]
    /\ results = [r \in Runs |-> {}]
    /\ target = [h \in Handlers |-> None]
    /\ readInput = [h \in Handlers |-> None]
    /\ toolResult = [h \in Handlers |-> None]
    /\ executions = [r \in Runs |-> 0]
    /\ ranInput = [r \in Runs |-> None]
    /\ lateActions = [r \in Runs |-> 0]
    /\ faults = 0

Goto(p, to) == pc' = [pc EXCEPT ![p] = to]
Move(p, from, to) == pc[p] = from /\ Goto(p, to)

\* A handler's locals end with its request.
Forget(h) ==
    /\ verdict' = [verdict EXCEPT ![h] = None]
    /\ target' = [target EXCEPT ![h] = None]
    /\ readInput' = [readInput EXCEPT ![h] = None]
    /\ toolResult' = [toolResult EXCEPT ![h] = None]

-----------------------------------------------------------------------------
(***************************************************************************)
(* Pure parts: the executor with its policy gate, and the run's status.    *)
(***************************************************************************)

\* The statuses Executor.execute can return.  "broken" is an unknown tool or
\* an invalid input; "guarded" is a high-risk or requires_approval tool;
\* "selfGated" is an ungated tool whose own execute answers needs_approval
\* without an approval payload (clarify, tool_call, mcp_server_launch, the
\* live domain tools).  A tool that raises counts as failed.
Outcomes(kind, approved) ==
    IF kind = "broken" THEN {"failed"}
    ELSE IF kind = "blocked" THEN {"blocked"}
    ELSE IF kind = "selfGated" \/ (kind = "guarded" /\ ~approved)
         THEN {"needs_approval"}
    ELSE {"succeeded", "failed"}

\* Mutant: an open approval does not keep a run from succeeding.
RunStatusLenient(statuses) ==
    IF statuses \cap {"failed", "blocked"} # {} THEN "failed" ELSE "succeeded"

RunStatus(statuses) ==
    IF "needs_approval" \in statuses THEN "needs_approval"
    ELSE IF statuses \cap {"failed", "blocked"} # {} THEN "failed"
    ELSE "succeeded"

\* Mutant: finish_run stores what it is given.
FinishStatusGiven(status, cancelled) == status

\* finish_run turns every status into cancelled once a cancel is recorded.
FinishStatus(status, cancelled) == IF cancelled THEN "cancelled" ELSE status

-----------------------------------------------------------------------------
(***************************************************************************)
(* AuditLog.finish_run: SELECT cancel_requested_at, then UPDATE the row.   *)
(* Used by the worker and by the handlers that approve and reject.         *)
(***************************************************************************)
FinishRead(p, r, from, to) ==
    /\ Move(p, from, to)
    /\ verdict' = [verdict EXCEPT ![p] = FinishStatus(@, cancelRequested[r])]
    /\ UNCHANGED <<runsTable, approvalsTable, workerVars, handlerVars, history,
                   faults>>

FinishWrite(p, r, from, to) ==
    /\ Move(p, from, to)
    /\ runStatus' = [runStatus EXCEPT ![r] = verdict[p]]
    /\ finished' = [finished EXCEPT ![r] = TRUE]
    /\ IF to = "idle" THEN Forget(p) ELSE UNCHANGED <<verdict, handlerVars>>
    /\ UNCHANGED <<cancelRequested, approvalsTable, workerVars, history, faults>>

-----------------------------------------------------------------------------
(***************************************************************************)
(* The worker: POST /runs/async inserts the row and starts the thread,     *)
(* the thread executes AgentOrchestrator.run.                              *)
(***************************************************************************)
Submit(r) ==
    /\ Cardinality({q \in Runs : runStatus[q] # None}) < MaxRuns
    /\ Move(r, "new", "queued")
    /\ runStatus' = [runStatus EXCEPT ![r] = "planned"]
    /\ UNCHANGED <<finished, cancelRequested, approvalsTable, verdict,
                   workerVars, handlerVars, history, faults>>

\* Mutant: the checkpoint does not look at the runs table.
CheckpointSkipped(r, from, to) ==
    /\ Move(r, from, to)
    /\ UNCHANGED <<runsTable, approvalsTable, verdict, workerVars, handlerVars,
                   history, faults>>

\* One _cancel_requested test of run(): go on, or hand CANCELLED to finish_run.
Checkpoint(r, from, to) ==
    /\ pc[r] = from
    /\ IF cancelRequested[r]
       THEN /\ Goto(r, "finishRead")
            /\ verdict' = [verdict EXCEPT ![r] = "cancelled"]
       ELSE Goto(r, to) /\ UNCHANGED verdict
    /\ UNCHANGED <<runsTable, approvalsTable, workerVars, handlerVars, history,
                   faults>>

\* One _cancel_requested test of _execute_steps: go on, or leave the loop; the
\* test behind the loop then ends the run.
StepCheckpoint(r, from, to) ==
    /\ Move(r, from, IF cancelRequested[r] THEN "planDone" ELSE to)
    /\ UNCHANGED <<runsTable, approvalsTable, verdict, workerVars, handlerVars,
                   history, faults>>

\* A tool starts in r: does it start after the cancel request was recorded?
CountLate(r) ==
    lateActions' = [lateActions EXCEPT ![r] =
                        IF cancelRequested[r] THEN @ + 1 ELSE @]

\* The planner answers with a list of steps, possibly empty.
Plan(r) ==
    /\ Move(r, "planning", "planned")
    /\ \E n \in 0..MaxSteps : steps' = [steps EXCEPT ![r] = n]
    /\ UNCHANGED <<runsTable, approvalsTable, verdict, turn, results,
                   handlerVars, history, faults>>

\* Mutant: the loop never runs out of turns.
EndlessTurns(r, skipped) ==
    /\ Goto(r, "planning")
    /\ results' = [results EXCEPT ![r] = @ \cup skipped]
    /\ turn' = [turn EXCEPT ![r] = 0]

\* Mutant: the loop runs one turn too many.
OneTurnTooMany(r, skipped) ==
    LET exhausted == turn[r] = MaxTurns
    IN /\ Goto(r, IF exhausted THEN "planDone" ELSE "planning")
       /\ turn' = [turn EXCEPT ![r] = IF exhausted THEN @ ELSE @ + 1]
       /\ results' = [results EXCEPT ![r] =
                         @ \cup skipped \cup (IF exhausted THEN {"failed"} ELSE {})]

\* The next turn of the planning loop; behind the last one the loop's else
\* branch records a failed result.
NextTurn(r, skipped) ==
    LET exhausted == turn[r] + 1 = MaxTurns
    IN /\ Goto(r, IF exhausted THEN "planDone" ELSE "planning")
       /\ turn' = [turn EXCEPT ![r] = IF exhausted THEN @ ELSE @ + 1]
       /\ results' = [results EXCEPT ![r] =
                         @ \cup skipped \cup (IF exhausted THEN {"failed"} ELSE {})]

\* The plan holds no step: leave the loop (model) or give up (explicit).
PlanIsEmpty(r) ==
    /\ pc[r] = "planned" /\ ~cancelRequested[r] /\ steps[r] = 0
    /\ Goto(r, IF r \in ModelPlanned THEN "planDone" ELSE "noPlan")
    /\ UNCHANGED <<runsTable, approvalsTable, verdict, workerVars, handlerVars,
                   history, faults>>

\* The model repeats only steps it already took: record a skipped result.
PlanRepeats(r) ==
    /\ pc[r] = "planned" /\ ~cancelRequested[r] /\ steps[r] > 0
    /\ r \in ModelPlanned /\ turn[r] > 0
    /\ NextTurn(r, {"skipped"})
    /\ steps' = [steps EXCEPT ![r] = 0]
    /\ UNCHANGED <<runsTable, approvalsTable, verdict, handlerVars, history,
                   faults>>

\* Execute one step.  Its result joins the list; a needs_approval result ends
\* the steps, and one that carries an approval payload is persisted next.
ExecuteStep(r) ==
    /\ pc[r] = "execute"
    /\ \E kind \in Kinds :
         \E status \in Outcomes(kind, r \in Preapproved) :
           /\ results' = [results EXCEPT ![r] = @ \cup {status}]
           /\ steps' = [steps EXCEPT ![r] =
                          IF status = "needs_approval" THEN 0 ELSE @ - 1]
           /\ Goto(r, IF status # "needs_approval" THEN "stepDone"
                      ELSE IF kind = "guarded" THEN "persist" ELSE "turnEnd")
    /\ CountLate(r)
    /\ UNCHANGED <<runsTable, approvalsTable, verdict, turn, handlerVars,
                   executions, ranInput, faults>>

\* ApprovalStore.create_pending (INSERT OR IGNORE on a fresh token).
PersistApproval(r) ==
    /\ Move(r, "persist", "turnEnd")
    /\ \E i \in Inputs :
         /\ apprStatus' = [apprStatus EXCEPT ![r] = "pending"]
         /\ apprInput' = [apprInput EXCEPT ![r] = i]
    /\ UNCHANGED <<runsTable, verdict, workerVars, handlerVars, history, faults>>

\* Behind the last step of a turn: explicit plans have one turn; the model's
\* loop stops on needs_approval, on a prepared response or on a cancel.
TurnEnd(r) ==
    /\ pc[r] = "turnEnd"
    /\ \/ /\ Goto(r, "planDone")
          /\ UNCHANGED workerVars
       \/ /\ r \in ModelPlanned
          /\ "needs_approval" \notin results[r]
          /\ ~cancelRequested[r]
          /\ NextTurn(r, {})
          /\ UNCHANGED steps
    /\ UNCHANGED <<runsTable, approvalsTable, verdict, handlerVars, history,
                   faults>>

\* _write_summary_note executes one more tool, whose result counts, then the
\* run's status is computed; without a plan the status is FAILED regardless.
WriteNote(r) ==
    /\ pc[r] \in {"note", "noPlan"}
    /\ \E status \in Outcomes("open", FALSE) :
         results' = [results EXCEPT ![r] = @ \cup {status}]
    /\ LET outcome == IF pc[r] = "noPlan" THEN "failed"
                      ELSE RunStatus(results'[r])
       IN /\ verdict' = [verdict EXCEPT ![r] = outcome]
          /\ Goto(r, IF outcome = "needs_approval" THEN "pausing"
                     ELSE "finishRead")
    /\ CountLate(r)
    /\ UNCHANGED <<runsTable, approvalsTable, turn, steps, handlerVars,
                   executions, ranInput, faults>>

\* AuditLog.pause_run: an UPDATE with no condition on the row.
PauseRun(r) ==
    /\ Move(r, "pausing", "recording")
    /\ runStatus' = [runStatus EXCEPT ![r] = "needs_approval"]
    /\ UNCHANGED <<finished, cancelRequested, approvalsTable, verdict,
                   workerVars, handlerVars, history, faults>>

\* The last event and the memory record are written; run() returns.
Return(r) ==
    /\ Move(r, "recording", "done")
    /\ UNCHANGED <<runsTable, approvalsTable, verdict, workerVars, handlerVars,
                   history, faults>>

\* The plan is done: a run without any result has no response to compose.
PlanDone(r) ==
    Checkpoint(r, "planDone", IF results[r] = {} THEN "noPlan" ELSE "compose")

\* The plan has steps: the checkpoint behind the planner, then the first step.
StartSteps(r) ==
    /\ steps[r] > 0 \/ cancelRequested[r]
    /\ StepCheckpoint(r, "planned", "step")

\* The checkpoint behind a step, then the next step or the end of the turn.
AfterStep(r) ==
    StepCheckpoint(r, "stepDone", IF steps[r] > 0 THEN "step" ELSE "turnEnd")

WorkerStep(r) ==
    \/ Checkpoint(r, "queued", "started")
    \/ Checkpoint(r, "started", "planning")
    \/ Plan(r)
    \/ PlanIsEmpty(r)
    \/ PlanRepeats(r)
    \/ StartSteps(r)
    \/ StepCheckpoint(r, "step", "execute")
    \/ ExecuteStep(r)
    \/ PersistApproval(r)
    \/ AfterStep(r)
    \/ TurnEnd(r)
    \/ PlanDone(r)
    \/ Checkpoint(r, "compose", "note")
    \/ WriteNote(r)
    \/ PauseRun(r)
    \/ FinishRead(r, r, "finishRead", "finishWrite")
    \/ FinishWrite(r, r, "finishWrite", "recording")
    \/ Return(r)
    \/ FinishRead(r, r, "errorRead", "errorWrite")
    \/ FinishWrite(r, r, "errorWrite", "done")

\* run() raises (a model client, a locked database): the thread's except
\* branch finishes the run as FAILED, whatever its row says by then.
RunRaises(r) ==
    /\ pc[r] \notin {"new", "errorRead", "errorWrite", "done", "dead"}
    /\ Goto(r, "errorRead")
    /\ verdict' = [verdict EXCEPT ![r] = "failed"]
    /\ UNCHANGED <<runsTable, approvalsTable, workerVars, handlerVars, history,
                   faults>>

-----------------------------------------------------------------------------
(***************************************************************************)
(* The request handlers.  Each first reads the approval (or the run) and   *)
(* answers with an error, changing nothing, unless it is pending (or not   *)
(* yet finished); those refusals are the disabled cases of these actions.  *)
(***************************************************************************)
BecomesBusy(h, r, to) ==
    /\ Move(h, "idle", to)
    /\ target' = [target EXCEPT ![h] = r]

\* approve_pending_action: read the record; the tool input is the one of now.
Approve(h, r) ==
    /\ apprStatus[r] = "pending"
    /\ BecomesBusy(h, r, "approving")
    /\ readInput' = [readInput EXCEPT ![h] = apprInput[r]]
    /\ UNCHANGED <<runsTable, approvalsTable, verdict, workerVars, toolResult,
                   history, faults>>

\* Mutant: the tool's old result is used and the action is not replayed.
ReplaySkipped(h) ==
    /\ Move(h, "approving", "approveRead")
    /\ \E status \in Outcomes("guarded", TRUE) :
         /\ toolResult' = [toolResult EXCEPT ![h] = status]
         /\ verdict' = [verdict EXCEPT ![h] = status]
    /\ UNCHANGED <<runsTable, approvalsTable, workerVars, target, readInput,
                   history, faults>>

\* The replay of the action with approved=True; any status but succeeded
\* finishes the run as FAILED.
ExecuteApproved(h) ==
    /\ Move(h, "approving", "approveRead")
    /\ executions' = [executions EXCEPT ![target[h]] = @ + 1]
    /\ ranInput' = [ranInput EXCEPT ![target[h]] = readInput[h]]
    /\ \E status \in Outcomes("guarded", TRUE) :
         /\ toolResult' = [toolResult EXCEPT ![h] = status]
         /\ verdict' = [verdict EXCEPT ![h] = status]
    /\ UNCHANGED <<runsTable, approvalsTable, workerVars, target, readInput,
                   lateActions, faults>>

\* ApprovalStore.mark_executed: a second read that must still be pending (a
\* ValueError otherwise, after the tool has run) ...
MarkRead(h) ==
    /\ pc[h] = "markRead"
    /\ IF apprStatus[target[h]] = "pending"
       THEN Goto(h, "markWrite") /\ UNCHANGED <<verdict, handlerVars>>
       ELSE Goto(h, "idle") /\ Forget(h)
    /\ UNCHANGED <<runsTable, approvalsTable, workerVars, history, faults>>

\* Mutant: a failed replay leaves the approval open for another attempt.
MarkSucceededOnly(h) ==
    /\ Move(h, "markWrite", "idle")
    /\ apprStatus' = [apprStatus EXCEPT ![target[h]] =
                        IF toolResult[h] = "succeeded" THEN "executed" ELSE @]
    /\ Forget(h)
    /\ UNCHANGED <<runsTable, apprInput, workerVars, history, faults>>

\* ... then an UPDATE with no condition on the status.
MarkWrite(h) ==
    /\ Move(h, "markWrite", "idle")
    /\ apprStatus' = [apprStatus EXCEPT ![target[h]] =
                        IF toolResult[h] = "succeeded" THEN "executed" ELSE "failed"]
    /\ Forget(h)
    /\ UNCHANGED <<runsTable, apprInput, workerVars, history, faults>>

\* Mutant: any approval can be rejected.
RejectAny(h, r) ==
    /\ apprStatus[r] # None
    /\ BecomesBusy(h, r, "rejecting")
    /\ UNCHANGED <<runsTable, approvalsTable, verdict, workerVars, readInput,
                   toolResult, history, faults>>

\* reject_pending_action: ApprovalStore.reject reads the record ...
Reject(h, r) ==
    /\ apprStatus[r] = "pending"
    /\ BecomesBusy(h, r, "rejecting")
    /\ UNCHANGED <<runsTable, approvalsTable, verdict, workerVars, readInput,
                   toolResult, history, faults>>

\* ... and updates it with no condition; then the run is finished as BLOCKED.
RejectWrite(h) ==
    /\ Move(h, "rejecting", "rejectRead")
    /\ apprStatus' = [apprStatus EXCEPT ![target[h]] = "rejected"]
    /\ verdict' = [verdict EXCEPT ![h] = "blocked"]
    /\ UNCHANGED <<runsTable, apprInput, workerVars, handlerVars, history,
                   faults>>

\* Mutant: any approval can be edited.
EditAny(h, r) ==
    /\ apprStatus[r] # None
    /\ BecomesBusy(h, r, "editing")
    /\ UNCHANGED <<runsTable, approvalsTable, verdict, workerVars, readInput,
                   toolResult, history, faults>>

\* update_pending_approval_input: the record is read twice, in runtime.py and
\* in update_tool_input; only the second read decides.
Edit(h, r) ==
    /\ apprStatus[r] = "pending"
    /\ BecomesBusy(h, r, "editing")
    /\ UNCHANGED <<runsTable, approvalsTable, verdict, workerVars, readInput,
                   toolResult, history, faults>>

\* Mutant: the edit writes the whole record it has read.
EditRewrites(h) ==
    /\ Move(h, "editing", "idle")
    /\ \E i \in Inputs : apprInput' = [apprInput EXCEPT ![target[h]] = i]
    /\ apprStatus' = [apprStatus EXCEPT ![target[h]] = "pending"]
    /\ Forget(h)
    /\ UNCHANGED <<runsTable, workerVars, history, faults>>

EditWrite(h) ==
    /\ Move(h, "editing", "idle")
    /\ \E i \in Inputs : apprInput' = [apprInput EXCEPT ![target[h]] = i]
    /\ Forget(h)
    /\ UNCHANGED <<runsTable, apprStatus, workerVars, history, faults>>

\* AuditLog.request_cancel_run: a run that is finished when it is read is left
\* alone ...
Cancel(h, r) ==
    /\ runStatus[r] # None /\ ~finished[r]
    /\ BecomesBusy(h, r, "cancelWrite")
    /\ UNCHANGED <<runsTable, approvalsTable, verdict, workerVars, readInput,
                   toolResult, history, faults>>

\* ... and is otherwise updated with no further condition.
CancelWrite(h) ==
    /\ Move(h, "cancelWrite", "idle")
    /\ runStatus' = [runStatus EXCEPT ![target[h]] = "cancelling"]
    /\ cancelRequested' = [cancelRequested EXCEPT ![target[h]] = TRUE]
    /\ Forget(h)
    /\ UNCHANGED <<finished, approvalsTable, workerVars, history, faults>>

HandlerStep(h) ==
    \/ ExecuteApproved(h)
    \/ FinishRead(h, target[h], "approveRead", "approveWrite")
    \/ FinishWrite(h, target[h], "approveWrite", "markRead")
    \/ MarkRead(h)
    \/ MarkWrite(h)
    \/ RejectWrite(h)
    \/ FinishRead(h, target[h], "rejectRead", "rejectWrite")
    \/ FinishWrite(h, target[h], "rejectWrite", "idle")
    \/ EditWrite(h)
    \/ CancelWrite(h)

Request(h) ==
    \E r \in Runs : Approve(h, r) \/ Reject(h, r) \/ Edit(h, r) \/ Cancel(h, r)

-----------------------------------------------------------------------------
(***************************************************************************)
(* Faults.  A handler's exception (a locked database) is answered with an  *)
(* HTTP error and abandons whatever it had not written yet.  When the      *)
(* process dies its daemon threads die with it; nothing resumes a run.     *)
(***************************************************************************)
Abort(h) ==
    /\ faults < MaxFaults /\ pc[h] # "idle"
    /\ faults' = faults + 1
    /\ Goto(h, "idle")
    /\ Forget(h)
    /\ UNCHANGED <<runsTable, approvalsTable, workerVars, history>>

Crash ==
    /\ faults < MaxFaults
    /\ faults' = faults + 1
    /\ pc' = [p \in Procs |-> IF p \in Handlers THEN "idle"
                              ELSE IF pc[p] \in {"new", "done"} THEN pc[p]
                              ELSE "dead"]
    /\ verdict' = [p \in Procs |-> None]
    /\ turn' = [r \in Runs |-> 0]
    /\ steps' = [r \in Runs |-> 0]
    /\ results' = [r \in Runs |-> {}]
    /\ target' = [h \in Handlers |-> None]
    /\ readInput' = [h \in Handlers |-> None]
    /\ toolResult' = [h \in Handlers |-> None]
    /\ UNCHANGED <<runsTable, approvalsTable, history>>

Next ==
    \/ \E r \in Runs : Submit(r) \/ WorkerStep(r) \/ RunRaises(r)
    \/ \E h \in Handlers : Request(h) \/ HandlerStep(h) \/ Abort(h)
    \/ Crash

Spec == Init /\ [][Next]_vars

\* A started thread keeps executing; nobody has to submit, approve or cancel.
Fairness ==
    /\ \A r \in Runs : WF_vars(WorkerStep(r))
    /\ \A h \in Handlers : WF_vars(HandlerStep(h))

FairSpec == Spec /\ Fairness

-----------------------------------------------------------------------------
(* The type invariant: what each column and each local may hold. *)
TypeOK ==
    /\ runStatus \in [Runs -> RunStatuses \cup {None}]
    /\ finished \in [Runs -> BOOLEAN]
    /\ cancelRequested \in [Runs -> BOOLEAN]
    /\ apprStatus \in [Runs -> {None, "pending"} \cup Decided]
    /\ apprInput \in [Runs -> Inputs \cup {None}]
    /\ pc \in [Procs -> WorkerPCs \cup HandlerPCs]
    /\ \A r \in Runs : pc[r] \in WorkerPCs
    /\ \A h \in Handlers : pc[h] \in HandlerPCs
    /\ verdict \in [Procs -> Verdicts \cup {None}]
    /\ turn \in [Runs -> 0..(MaxTurns - 1)]
    /\ steps \in [Runs -> 0..MaxSteps]
    /\ results \in [Runs -> SUBSET ResultStatuses]
    /\ target \in [Handlers -> Runs \cup {None}]
    /\ \A h \in Handlers : pc[h] # "idle" => target[h] \in Runs
    /\ readInput \in [Handlers -> Inputs \cup {None}]
    /\ toolResult \in [Handlers -> ResultStatuses \cup {None}]
    /\ executions \in [Runs -> Nat]
    /\ ranInput \in [Runs -> Inputs \cup {None}]
    /\ lateActions \in [Runs -> Nat]
    /\ faults \in 0..MaxFaults

(***************************************************************************)
(* Safety, for any number of handlers, with crashes.                       *)
(***************************************************************************)

\* An approval recorded as executed or failed was really performed: the record
\* is written behind the replay, so not even a crash between the two produces
\* a decision without an action (runtime.py, approve_pending_action).
DecisionIsBacked ==
    \A r \in Runs : apprStatus[r] \in {"executed", "failed"} => executions[r] > 0

\* A run that asked for an approval is reported as succeeded only if the
\* guarded action was performed, whoever finishes the run and in whatever
\* order the worker, the approvers and the rejecters write its row.
SuccessIsBacked ==
    \A r \in Runs : runStatus[r] = "succeeded" /\ apprStatus[r] # None
                        => executions[r] > 0

\* What the records say was done was done (runtime.py, orchestrator.py).
RecordsAreBacked == DecisionIsBacked /\ SuccessIsBacked

\* Behind the moment a cancel request is recorded the worker starts at most one
\* more tool: every tool has a checkpoint of its own (orchestrator.py, the
\* _cancel_requested tests of run and _execute_steps).
CancelBoundsWork == \A r \in Runs : lateActions[r] <= 1

\* No step takes a decision back: an edit that read the approval as pending and
\* writes behind the decision changes the input, never the status.
DecisionsNeverReopen ==
    [][\A r \in Runs : apprStatus[r] \in Decided => apprStatus'[r] \in Decided]_vars

DecisionOn(r) ==
    IF apprStatus[r] = None THEN "none"
    ELSE IF apprStatus[r] \in {"executed", "failed"} THEN "done"
    ELSE apprStatus[r]

\* The two tables, with what was really performed, behave as ApprovalContract
\* promises.
Contract == INSTANCE ApprovalContract WITH
    decision  <- [r \in Runs |-> DecisionOn(r)],
    performed <- {r \in Runs : executions[r] > 0},
    reported  <- {r \in Runs : runStatus[r] = "succeeded"}
ImplementsContract == Contract!Spec

(***************************************************************************)
(* Safety that needs the requests to be serialised: with one handler and   *)
(* no fault they hold against the worker; with two handlers they do not.   *)
(***************************************************************************)

\* One approval performs its action at most once.
ApprovedAtMostOnce == \A r \in Runs : executions[r] <= 1

\* An action whose approval is recorded as rejected was never performed.
RejectedNeverRuns ==
    \A r \in Runs : apprStatus[r] = "rejected" => executions[r] = 0

\* The input the approval records is the one the action was performed with.
RecordedInputRan ==
    \A r \in Runs : apprStatus[r] \in {"executed", "failed"}
                        => ranInput[r] = apprInput[r]

\* With serialised requests the approval tells exactly what was done
\* (runtime.py, approve_pending_action; safety/approvals.py).
ApprovalTellsAll == ApprovedAtMostOnce /\ RejectedNeverRuns /\ RecordedInputRan

(***************************************************************************)
(* Liveness, without faults: whoever polls the run sees it settle.         *)
(***************************************************************************)

\* A submitted run does not stay planned: its planning loop is bounded and every
\* way out of run(), an exception included, writes the row.
RunSettles == \A r \in Runs : runStatus[r] = "planned" ~> runStatus[r] # "planned"

\* A cancel recorded while the worker still has a checkpoint ahead of it ends in
\* a finished, cancelled run, even if run() raises or an approver interferes.
CheckpointAhead(r) ==
    pc[r] \in WorkerPCs \ {"new", "note", "noPlan", "pausing", "finishRead",
                           "finishWrite", "recording", "errorRead",
                           "errorWrite", "done", "dead"}
CancelTakesEffect ==
    \A r \in Runs : cancelRequested[r] /\ CheckpointAhead(r)
                        ~> finished[r] /\ runStatus[r] = "cancelled"

(***************************************************************************)
(* What the program's own texts say of it and TLC refutes.                 *)
(***************************************************************************)

\* "Run paused until a required approval is decided.": once it is decided, the
\* run is no longer paused.
PausedRunIsUndecided ==
    \A r \in Runs :
        pc[r] = "done" /\ runStatus[r] = "needs_approval" /\ apprStatus[r] \in Decided
            => \E h \in Handlers : target[h] = r
=============================================================================
