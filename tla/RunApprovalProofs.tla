-------------------------- MODULE RunApprovalProofs --------------------------
(***************************************************************************)
(* Theorems about RunApproval, for any set of runs and handlers, any       *)
(* bounds and any number of faults.                                        *)
(***************************************************************************)
EXTENDS RunApproval, TLAPS

-----------------------------------------------------------------------------
(* What the pure parts return. *)

\* The executor answers with one of the result statuses (executor.py, execute).
LEMMA OutcomesAreStatuses ==
    ASSUME NEW kind, NEW approved
    PROVE  Outcomes(kind, approved) \subseteq ResultStatuses
  BY DEF Outcomes, ResultStatuses

\* A replay with approved=True is past the policy gate: the tool succeeds or
\* fails, it does not ask again.
LEMMA ReplayOutcomes == Outcomes("guarded", TRUE) = {"succeeded", "failed"}
  BY DEF Outcomes

\* The summary note's tool succeeds or fails.
LEMMA NoteOutcomes == Outcomes("open", FALSE) = {"succeeded", "failed"}
  BY DEF Outcomes

\* An executed step has a kind and a result, which decide where the worker
\* goes next (orchestrator.py, _execute_steps).
StepResult(r, kind, status) ==
    /\ results' = [results EXCEPT ![r] = @ \cup {status}]
    /\ steps' = [steps EXCEPT ![r] =
                   IF status = "needs_approval" THEN 0 ELSE @ - 1]
    /\ Goto(r, IF status # "needs_approval" THEN "stepDone"
               ELSE IF kind = "guarded" THEN "persist" ELSE "turnEnd")

LEMMA StepHasResult ==
    ASSUME NEW r \in Runs, ExecuteStep(r)
    PROVE  \E kind \in Kinds, status \in ResultStatuses : StepResult(r, kind, status)
  BY OutcomesAreStatuses, Zenon DEF ExecuteStep, StepResult

-----------------------------------------------------------------------------
(***************************************************************************)
(* Type correctness.  It needs one fact about the control: a worker that   *)
(* is about to execute a step has one, so the count stays a natural.       *)
(***************************************************************************)
StepsAhead == \A r \in Runs : pc[r] \in {"step", "execute"} => steps[r] > 0
TypeInv == TypeOK /\ StepsAhead

\* The initial tables and threads are well typed.
LEMMA TypeInvInit == Init => TypeInv
  BY ConstantTypes, ProcessesAreDistinct
  DEF Init, TypeInv, TypeOK, StepsAhead, Procs, WorkerPCs, HandlerPCs

\* The worker's steps.
LEMMA WorkerTypes ==
    ASSUME TypeInv, NEW r \in Runs, WorkerStep(r)
    PROVE  TypeInv'
<1> USE ConstantTypes, ProcessesAreDistinct
        DEF TypeInv, TypeOK, StepsAhead, Procs, WorkerPCs, Goto, Move,
            runsTable, approvalsTable, workerVars, handlerVars, history
<1>1. ASSUME NEW from, NEW to \in WorkerPCs \ {"step", "execute"},
             Checkpoint(r, from, to)
      PROVE  TypeInv'
  BY <1>1, SMTT(40) DEF Checkpoint, Verdicts
<1>2. ASSUME NEW from, NEW to \in WorkerPCs, StepCheckpoint(r, from, to),
             to \in {"step", "execute"} => steps[r] > 0 \/ cancelRequested[r]
      PROVE  TypeInv'
  BY <1>2 DEF StepCheckpoint
<1>3. CASE Plan(r)
  BY <1>3 DEF Plan
<1>4. CASE PlanIsEmpty(r)
  BY <1>4 DEF PlanIsEmpty
<1>5. CASE PlanRepeats(r)
  BY <1>5 DEF PlanRepeats, NextTurn, ResultStatuses
<1>6. CASE ExecuteStep(r)
  <2>1. PICK kind \in Kinds, status \in ResultStatuses : StepResult(r, kind, status)
    BY <1>6, StepHasResult
  <2>2. lateActions' \in [Runs -> Nat]
    BY <1>6 DEF ExecuteStep, CountLate
  <2>3. /\ pc[r] = "execute"
        /\ UNCHANGED <<runsTable, approvalsTable, verdict, turn, handlerVars,
                       executions, ranInput, faults>>
    BY <1>6 DEF ExecuteStep
  <2>4. steps' \in [Runs -> 0..MaxSteps] /\ results' \in [Runs -> SUBSET ResultStatuses]
    BY <2>1, <2>3 DEF StepResult
  <2>5. \E to \in WorkerPCs \ {"step", "execute"} : Goto(r, to)
    BY <2>1 DEF StepResult
  <2>6. StepsAhead'
    BY <2>1, <2>3, <2>5 DEF StepResult
  <2> QED
    BY <2>2, <2>3, <2>4, <2>5, <2>6
<1>7. CASE PersistApproval(r)
  BY <1>7 DEF PersistApproval
<1>8. CASE TurnEnd(r)
  <2>1. CASE pc[r] = "turnEnd" /\ Goto(r, "planDone") /\ UNCHANGED workerVars
    BY <1>8, <2>1 DEF TurnEnd
  <2>2. CASE pc[r] = "turnEnd" /\ NextTurn(r, {}) /\ UNCHANGED steps
    <3>1. turn' \in [Runs -> 0..(MaxTurns - 1)] /\ results' \in [Runs -> SUBSET ResultStatuses]
      BY <2>2 DEF NextTurn, ResultStatuses
    <3>2. \E to \in WorkerPCs \ {"step", "execute"} : Goto(r, to)
      BY <2>2 DEF NextTurn
    <3> QED
      BY <1>8, <2>2, <3>1, <3>2 DEF TurnEnd
  <2> QED
    BY <1>8, <2>1, <2>2 DEF TurnEnd
<1>9. CASE WriteNote(r)
  <2>1. PICK status \in ResultStatuses :
          results' = [results EXCEPT ![r] = @ \cup {status}]
    BY <1>9, NoteOutcomes DEF WriteNote, ResultStatuses
  <2>2. PICK outcome \in {"needs_approval", "failed", "succeeded"} :
          /\ verdict' = [verdict EXCEPT ![r] = outcome]
          /\ Goto(r, IF outcome = "needs_approval" THEN "pausing"
                     ELSE "finishRead")
    BY <1>9 DEF WriteNote, RunStatus
  <2>3. lateActions' \in [Runs -> Nat]
    BY <1>9 DEF WriteNote, CountLate
  <2>4. UNCHANGED <<runsTable, approvalsTable, turn, steps, handlerVars,
                    executions, ranInput, faults>>
    BY <1>9 DEF WriteNote
  <2>5. /\ verdict' \in [Procs -> Verdicts \cup {None}]
        /\ results' \in [Runs -> SUBSET ResultStatuses]
    BY <2>1, <2>2 DEF Verdicts
  <2>6. \E to \in WorkerPCs \ {"step", "execute"} : Goto(r, to)
    BY <2>2
  <2> QED
    BY <2>3, <2>4, <2>5, <2>6
<1>10. CASE PauseRun(r)
  BY <1>10 DEF PauseRun, RunStatuses
<1>11. CASE Return(r)
  BY <1>11 DEF Return
<1>12. ASSUME NEW from, NEW to \in WorkerPCs \ {"step", "execute"},
              FinishRead(r, r, from, to)
       PROVE  TypeInv'
  BY <1>12 DEF FinishRead, FinishStatus, Verdicts
<1>13. ASSUME NEW from, NEW to \in WorkerPCs \ {"step", "execute", "idle"},
              FinishWrite(r, r, from, to)
       PROVE  TypeInv'
  BY <1>13 DEF FinishWrite, Verdicts, RunStatuses
<1>14. CASE StartSteps(r)
  BY <1>14, <1>2 DEF StartSteps
<1>15. CASE AfterStep(r)
  BY <1>15, <1>2 DEF AfterStep
<1>16. CASE PlanDone(r)
  BY <1>16, <1>1 DEF PlanDone
<1>17. CASE StepCheckpoint(r, "step", "execute")
  BY <1>17, <1>2 DEF StepCheckpoint
<1> QED
  BY <1>1, <1>3, <1>4, <1>5, <1>6, <1>7, <1>8, <1>9, <1>10, <1>11, <1>12,
     <1>13, <1>14, <1>15, <1>16, <1>17
  DEF WorkerStep

\* A worker's exception leads to the error path.
LEMMA RaiseTypes ==
    ASSUME TypeInv, NEW r \in Runs, Submit(r) \/ RunRaises(r)
    PROVE  TypeInv'
<1>1. CASE Submit(r)
  BY <1>1, ProcessesAreDistinct
  DEF TypeInv, TypeOK, StepsAhead, Procs, WorkerPCs, Goto, Move, Submit,
      RunStatuses, Verdicts, runsTable, approvalsTable, workerVars, handlerVars,
      history
<1>2. CASE RunRaises(r)
  BY <1>2, ProcessesAreDistinct
  DEF TypeInv, TypeOK, StepsAhead, Procs, WorkerPCs, Goto, Move, RunRaises,
      RunStatuses, Verdicts, runsTable, approvalsTable, workerVars, handlerVars,
      history
<1> QED
  BY <1>1, <1>2

\* The handlers' steps.
LEMMA HandlerTypes ==
    ASSUME TypeInv, NEW h \in Handlers, Request(h) \/ HandlerStep(h) \/ Abort(h)
    PROVE  TypeInv'
<1> USE ConstantTypes, ProcessesAreDistinct
        DEF TypeInv, TypeOK, StepsAhead, Procs, HandlerPCs, Goto, Move, Forget,
            runsTable, approvalsTable, workerVars, handlerVars, history
<1>1. ASSUME NEW r \in Runs, Approve(h, r)
      PROVE  TypeInv'
  BY <1>1 DEF Approve, BecomesBusy
<1>2. ASSUME NEW r \in Runs, NEW to \in HandlerPCs, BecomesBusy(h, r, to),
             UNCHANGED <<runsTable, approvalsTable, verdict, workerVars,
                         readInput, toolResult, history, faults>>
      PROVE  TypeInv'
  BY <1>2 DEF BecomesBusy
<1>3. CASE ExecuteApproved(h)
  <2>1. PICK status \in {"succeeded", "failed"} :
          /\ toolResult' = [toolResult EXCEPT ![h] = status]
          /\ verdict' = [verdict EXCEPT ![h] = status]
    BY <1>3, ReplayOutcomes DEF ExecuteApproved
  <2>2. /\ Move(h, "approving", "approveRead")
        /\ executions' = [executions EXCEPT ![target[h]] = @ + 1]
        /\ ranInput' = [ranInput EXCEPT ![target[h]] = readInput[h]]
        /\ UNCHANGED <<runsTable, approvalsTable, workerVars, target, readInput,
                       lateActions, faults>>
    BY <1>3 DEF ExecuteApproved
  <2> QED
    BY <2>1, <2>2 DEF ResultStatuses, Verdicts
<1>4. ASSUME NEW from, NEW to \in HandlerPCs, FinishRead(h, target[h], from, to),
             from # "idle"
      PROVE  TypeInv'
  BY <1>4 DEF FinishRead, FinishStatus, Verdicts
<1>5. ASSUME NEW from, NEW to \in HandlerPCs, FinishWrite(h, target[h], from, to),
             from # "idle"
      PROVE  TypeInv'
  <2>1. runStatus' \in [Runs -> RunStatuses \cup {None}]
    BY <1>5 DEF FinishWrite, Verdicts, RunStatuses
  <2>2. finished' \in [Runs -> BOOLEAN]
    BY <1>5 DEF FinishWrite
  <2>3. CASE to = "idle"
    <3>1. /\ Move(h, from, "idle") /\ Forget(h)
          /\ UNCHANGED <<cancelRequested, approvalsTable, workerVars, history,
                         faults>>
      BY <1>5, <2>3 DEF FinishWrite
    <3> QED
      BY <2>1, <2>2, <3>1
  <2>4. CASE to # "idle"
    BY <1>5, <2>1, <2>2, <2>4 DEF FinishWrite
  <2> QED
    BY <2>3, <2>4
<1>6. CASE MarkRead(h)
  <2>1. CASE apprStatus[target[h]] = "pending"
    BY <1>6, <2>1 DEF MarkRead
  <2>2. CASE apprStatus[target[h]] # "pending"
    <3>1. /\ Move(h, "markRead", "idle") /\ Forget(h)
          /\ UNCHANGED <<runsTable, approvalsTable, workerVars, history, faults>>
      BY <1>6, <2>2 DEF MarkRead
    <3> QED
      BY <3>1
  <2> QED
    BY <2>1, <2>2
<1>7. CASE MarkWrite(h)
  BY <1>7 DEF MarkWrite, Decided
<1>8. CASE RejectWrite(h)
  BY <1>8 DEF RejectWrite, Decided, Verdicts
<1>9. CASE EditWrite(h)
  BY <1>9 DEF EditWrite
<1>10. CASE CancelWrite(h)
  BY <1>10 DEF CancelWrite, RunStatuses
<1>11. CASE Abort(h)
  BY <1>11 DEF Abort
<1> QED
  BY <1>1, <1>2, <1>3, <1>4, <1>5, <1>6, <1>7, <1>8, <1>9, <1>10, <1>11
  DEF Request, HandlerStep, Reject, Edit, Cancel

\* The death of the process.
LEMMA CrashTypes == TypeInv /\ Crash => TypeInv'
  BY ConstantTypes, ProcessesAreDistinct
  DEF Crash, TypeInv, TypeOK, StepsAhead, Procs, WorkerPCs, HandlerPCs,
      runsTable, approvalsTable, history

\* Every step keeps the types.
LEMMA TypeInvStep == TypeInv /\ [Next]_vars => TypeInv'
<1> SUFFICES ASSUME TypeInv, [Next]_vars PROVE TypeInv'
  OBVIOUS
<1>1. CASE UNCHANGED vars
  BY <1>1 DEF vars, TypeInv, TypeOK, StepsAhead, runsTable, approvalsTable,
              workerVars, handlerVars, history
<1>2. CASE Next
  BY <1>2, WorkerTypes, RaiseTypes, HandlerTypes, CrashTypes DEF Next
<1> QED
  BY <1>1, <1>2

\* Every row and every local keeps its type, in every reachable state.
THEOREM TypeCorrect == Spec => []TypeOK
<1>1. Spec => []TypeInv
  BY TypeInvInit, TypeInvStep, PTL DEF Spec
<1> QED
  BY <1>1, PTL DEF TypeInv

-----------------------------------------------------------------------------
(***************************************************************************)
(* The records are backed by what was performed.  Neither property is      *)
(* inductive: that a decision is backed rests on where the handlers stand, *)
(* that a success is backed rests on the worker's list of results.         *)
(***************************************************************************)
Asked(r) == apprStatus[r] # None
BeforeAsking == {"new", "queued", "started", "planning", "planned", "step",
                 "execute", "persist", "stepDone"}
Replayed == {"approveRead", "approveWrite", "markRead", "markWrite"}
Rejecting == {"rejecting", "rejectRead", "rejectWrite"}

\* Who decides an approval found one, and who records a replay replayed it.
HandlersAreBacked ==
    \A h \in Handlers :
        /\ pc[h] \in Replayed \cup Rejecting \cup {"approving", "editing"}
              => Asked(target[h])
        /\ pc[h] \in Replayed => executions[target[h]] > 0
        /\ pc[h] \in {"rejectRead", "rejectWrite"} => verdict[h] # "succeeded"

\* A worker that has not asked yet has not reported anything; one that has
\* asked keeps the needs_approval result and never reports a success.
WorkersAreHonest ==
    \A r \in Runs :
        /\ pc[r] \in BeforeAsking => ~Asked(r)
        /\ pc[r] \in BeforeAsking \cup {"turnEnd"} /\ ~Asked(r)
              => runStatus[r] # "succeeded"
        /\ pc[r] = "persist" => "needs_approval" \in results[r]
        /\ pc[r] \in {"turnEnd", "planDone", "compose", "note"} /\ Asked(r)
              => "needs_approval" \in results[r]
        /\ pc[r] \in {"finishRead", "finishWrite"} /\ Asked(r)
              => verdict[r] # "succeeded"
        /\ pc[r] \in {"errorRead", "errorWrite"} => verdict[r] # "succeeded"

BackingInv ==
    TypeInv /\ HandlersAreBacked /\ WorkersAreHonest /\ DecisionIsBacked /\ SuccessIsBacked

\* Nothing was asked, performed or reported yet.
LEMMA BackingInit == Init => BackingInv
  BY TypeInvInit, ProcessesAreDistinct, NoneIsNoValue
  DEF Init, BackingInv, HandlersAreBacked, WorkersAreHonest, DecisionIsBacked,
      SuccessIsBacked, Asked, BeforeAsking, Replayed, Rejecting, Procs,
      RunStatuses, Decided

\* The worker's steps: only PersistApproval asks, and only finish_run reports.
LEMMA BackingWorker ==
    ASSUME BackingInv, TypeInv', NEW r \in Runs,
           Submit(r) \/ WorkerStep(r) \/ RunRaises(r)
    PROVE  BackingInv'
<1> USE ProcessesAreDistinct
        DEF BackingInv, TypeInv, TypeOK, HandlersAreBacked, WorkersAreHonest,
            DecisionIsBacked, SuccessIsBacked, Asked, BeforeAsking, Replayed,
            Rejecting, Procs, Goto, Move, runsTable, approvalsTable, workerVars,
            handlerVars, history
<1>1. CASE Submit(r)
  BY <1>1 DEF Submit
<1>2. CASE Checkpoint(r, "queued", "started") \/ Checkpoint(r, "started", "planning")
  BY <1>2 DEF Checkpoint
<1>3. CASE Plan(r)
  BY <1>3 DEF Plan
<1>4. CASE PlanIsEmpty(r)
  BY <1>4 DEF PlanIsEmpty
<1>5. CASE PlanRepeats(r)
  BY <1>5 DEF PlanRepeats, NextTurn
<1>6. CASE StartSteps(r)
  BY <1>6 DEF StartSteps, StepCheckpoint
<1>7. CASE StepCheckpoint(r, "step", "execute")
  BY <1>7 DEF StepCheckpoint
<1>8. CASE ExecuteStep(r)
  <2>1. PICK kind \in Kinds, status \in ResultStatuses : StepResult(r, kind, status)
    BY <1>8, StepHasResult
  <2>2. /\ pc[r] = "execute"
        /\ UNCHANGED <<runsTable, approvalsTable, verdict, turn, handlerVars,
                       executions, ranInput, faults>>
    BY <1>8 DEF ExecuteStep
  <2> QED
    BY <2>1, <2>2 DEF StepResult
<1>9. CASE PersistApproval(r)
  BY <1>9 DEF PersistApproval
<1>10. CASE AfterStep(r)
  BY <1>10 DEF AfterStep, StepCheckpoint
<1>11. CASE TurnEnd(r)
  BY <1>11 DEF TurnEnd, NextTurn
<1>12. CASE PlanDone(r)
  BY <1>12 DEF PlanDone, Checkpoint
<1>13. CASE Checkpoint(r, "compose", "note")
  BY <1>13 DEF Checkpoint
<1>14. CASE WriteNote(r)
  <2>1. PICK status \in ResultStatuses :
          results' = [results EXCEPT ![r] = @ \cup {status}]
    BY <1>14, NoteOutcomes DEF WriteNote, ResultStatuses
  <2>2. PICK outcome :
          /\ outcome = IF pc[r] = "noPlan" THEN "failed" ELSE RunStatus(results'[r])
          /\ verdict' = [verdict EXCEPT ![r] = outcome]
          /\ Goto(r, IF outcome = "needs_approval" THEN "pausing" ELSE "finishRead")
    BY <1>14 DEF WriteNote
  <2>3. /\ pc[r] \in {"note", "noPlan"}
        /\ UNCHANGED <<runsTable, approvalsTable, handlerVars, executions>>
    BY <1>14 DEF WriteNote
  <2>4. Asked(r) => outcome # "succeeded"
    BY <2>1, <2>2, <2>3 DEF RunStatus
  <2>5. pc[r] \notin BeforeAsking /\ pc'[r] \in {"pausing", "finishRead"}
    BY <2>2, <2>3
  <2>6. WorkersAreHonest'
    BY <2>1, <2>2, <2>3, <2>4, <2>5
  <2>7. HandlersAreBacked'
    BY <2>2, <2>3
  <2> QED
    BY <2>3, <2>6, <2>7
<1>15. CASE PauseRun(r)
  BY <1>15 DEF PauseRun
<1>16. CASE Return(r)
  BY <1>16 DEF Return
<1>17. CASE FinishRead(r, r, "finishRead", "finishWrite")
  BY <1>17 DEF FinishRead, FinishStatus
<1>18. CASE FinishRead(r, r, "errorRead", "errorWrite")
  BY <1>18 DEF FinishRead, FinishStatus
<1>19. CASE FinishWrite(r, r, "finishWrite", "recording")
  BY <1>19 DEF FinishWrite
<1>20. CASE FinishWrite(r, r, "errorWrite", "done")
  BY <1>20 DEF FinishWrite
<1>21. CASE RunRaises(r)
  BY <1>21 DEF RunRaises
<1> QED
  BY <1>1, <1>2, <1>3, <1>4, <1>5, <1>6, <1>7, <1>8, <1>9, <1>10, <1>11, <1>12,
     <1>13, <1>14, <1>15, <1>16, <1>17, <1>18, <1>19, <1>20, <1>21
  DEF WorkerStep

\* The handlers' steps: only a replayed action is recorded as carried out, and
\* a run that asked is reported as succeeded only behind a replay.
LEMMA BackingHandler ==
    ASSUME BackingInv, TypeInv', NEW h \in Handlers,
           Request(h) \/ HandlerStep(h) \/ Abort(h)
    PROVE  BackingInv'
<1> USE ProcessesAreDistinct, NoneIsNoValue
        DEF BackingInv, TypeInv, TypeOK, HandlersAreBacked, WorkersAreHonest,
            DecisionIsBacked, SuccessIsBacked, Asked, BeforeAsking, Replayed,
            Rejecting, Procs, Goto, Move, runsTable, approvalsTable, workerVars,
            handlerVars, history
<1>1. ASSUME NEW r \in Runs, Approve(h, r)
      PROVE  BackingInv'
  BY <1>1 DEF Approve, BecomesBusy
<1>2. ASSUME NEW r \in Runs, Reject(h, r)
      PROVE  BackingInv'
  BY <1>2 DEF Reject, BecomesBusy
<1>3. ASSUME NEW r \in Runs, Edit(h, r)
      PROVE  BackingInv'
  BY <1>3 DEF Edit, BecomesBusy
<1>4. ASSUME NEW r \in Runs, Cancel(h, r)
      PROVE  BackingInv'
  BY <1>4 DEF Cancel, BecomesBusy
<1>5. CASE ExecuteApproved(h)
  <2>1. /\ Move(h, "approving", "approveRead")
        /\ executions' = [executions EXCEPT ![target[h]] = @ + 1]
        /\ verdict' \in [Procs -> Verdicts \cup {None}]
        /\ \A r \in Runs : verdict'[r] = verdict[r]
        /\ \A g \in Handlers \ {h} : verdict'[g] = verdict[g]
        /\ UNCHANGED <<runsTable, approvalsTable, workerVars, target>>
    BY <1>5 DEF ExecuteApproved
  <2> QED
    BY <2>1
<1>6. CASE FinishRead(h, target[h], "approveRead", "approveWrite")
  BY <1>6 DEF FinishRead
<1>7. CASE FinishRead(h, target[h], "rejectRead", "rejectWrite")
  BY <1>7 DEF FinishRead, FinishStatus
<1>8. CASE FinishWrite(h, target[h], "approveWrite", "markRead")
  BY <1>8 DEF FinishWrite
<1>9. CASE FinishWrite(h, target[h], "rejectWrite", "idle")
  BY <1>9 DEF FinishWrite, Forget
<1>10. CASE MarkRead(h)
  <2>1. /\ \/ Goto(h, "idle")
           \/ pc[h] = "markRead" /\ Goto(h, "markWrite") /\ UNCHANGED target
        /\ \A p \in Procs \ {h} : verdict'[p] = verdict[p]
        /\ \A g \in Handlers \ {h} : target'[g] = target[g]
        /\ UNCHANGED <<runsTable, approvalsTable, workerVars, history>>
    BY <1>10 DEF MarkRead, Forget
  <2> QED
    BY <2>1
<1>11. CASE MarkWrite(h)
  BY <1>11 DEF MarkWrite, Forget, Decided
<1>12. CASE RejectWrite(h)
  BY <1>12 DEF RejectWrite, Decided
<1>13. CASE EditWrite(h)
  BY <1>13 DEF EditWrite, Forget
<1>14. CASE CancelWrite(h)
  BY <1>14 DEF CancelWrite, Forget
<1>15. CASE Abort(h)
  BY <1>15 DEF Abort, Forget
<1> QED
  BY <1>1, <1>2, <1>3, <1>4, <1>5, <1>6, <1>7, <1>8, <1>9, <1>10, <1>11, <1>12,
     <1>13, <1>14, <1>15
  DEF Request, HandlerStep

\* Every step, the death of the process included.
LEMMA BackingStep == BackingInv /\ [Next]_vars => BackingInv'
<1> SUFFICES ASSUME BackingInv, [Next]_vars PROVE BackingInv'
  OBVIOUS
<1>1. TypeInv'
  BY TypeInvStep DEF BackingInv
<1>2. CASE UNCHANGED vars
  BY <1>1, <1>2
  DEF vars, BackingInv, HandlersAreBacked, WorkersAreHonest, DecisionIsBacked,
      SuccessIsBacked, Asked, runsTable, approvalsTable, workerVars, handlerVars,
      history
<1>3. CASE Crash
  BY <1>1, <1>3, ProcessesAreDistinct
  DEF Crash, BackingInv, TypeInv, TypeOK, HandlersAreBacked, WorkersAreHonest,
      DecisionIsBacked, SuccessIsBacked, Asked, BeforeAsking, Replayed, Rejecting,
      Procs, runsTable, approvalsTable, history
<1>4. CASE Next
  BY <1>1, <1>3, <1>4, BackingWorker, BackingHandler DEF Next
<1> QED
  BY <1>2, <1>4

LEMMA BackingHolds == Spec => []BackingInv
  BY BackingInit, BackingStep, PTL DEF Spec

\* An approval recorded as executed or failed was really performed, whatever
\* the handlers and the process do (runtime.py, approve_pending_action).
THEOREM DecisionsAreBacked == Spec => []DecisionIsBacked
  BY BackingHolds, PTL DEF BackingInv

\* A run that asked for an approval is reported as succeeded only behind the
\* replay of its action (orchestrator.py, run; runtime.py).
THEOREM SuccessesAreBacked == Spec => []SuccessIsBacked
  BY BackingHolds, PTL DEF BackingInv

\* Both together (runtime.py, orchestrator.py).
THEOREM RecordsHold == Spec => []RecordsAreBacked
  BY DecisionsAreBacked, SuccessesAreBacked, PTL DEF RecordsAreBacked

-----------------------------------------------------------------------------
(***************************************************************************)
(* RunApproval implements ApprovalContract.  Three columns are all that    *)
(* the contract sees; every step changes at most one of them.              *)
(***************************************************************************)
LEMMA ContractStutter ==
    ASSUME UNCHANGED <<apprStatus, executions, runStatus>>
    PROVE  UNCHANGED Contract!vars
  BY DEF Contract!vars, DecisionOn

\* Writing a run's status reports or retracts its success.
LEMMA ContractReports ==
    ASSUME TypeOK, NEW r \in Runs, NEW status,
           runStatus' = [runStatus EXCEPT ![r] = status],
           UNCHANGED <<apprStatus, executions>>,
           status = "succeeded" => ~Asked(r) \/ executions[r] > 0
    PROVE  Contract!Next
<1> USE DEF TypeOK, DecisionOn, Asked
<1>1. CASE status = "succeeded"
  <2> Contract!Report(r)
    BY <1>1 DEF Contract!Report
  <2> QED
    BY DEF Contract!Next
<1>2. CASE status # "succeeded"
  <2> Contract!Retract(r)
    BY <1>2 DEF Contract!Retract
  <2> QED
    BY DEF Contract!Next
<1> QED
  BY <1>1, <1>2

\* The approval's record is the contract's request.
LEMMA ContractAsks ==
    ASSUME BackingInv, NEW r \in Runs, PersistApproval(r)
    PROVE  Contract!Next
<1>1. /\ apprStatus[r] = None /\ runStatus[r] # "succeeded"
      /\ apprStatus \in [Runs -> {None, "pending"} \cup Decided]
  <2>1. pc[r] \in BeforeAsking
    BY DEF PersistApproval, Move, BeforeAsking
  <2> QED
    BY <2>1 DEF BackingInv, TypeInv, TypeOK, WorkersAreHonest, Asked
<1>2. /\ apprStatus' = [apprStatus EXCEPT ![r] = "pending"]
      /\ UNCHANGED <<executions, runStatus>>
  BY DEF PersistApproval, runsTable, history
<1>3. Contract!Ask(r)
  BY <1>1, <1>2, NoneIsNoValue DEF Contract!Ask, DecisionOn
<1> QED
  BY <1>3 DEF Contract!Next

\* The replay performs the action.
LEMMA ContractPerforms ==
    ASSUME BackingInv, NEW h \in Handlers, ExecuteApproved(h)
    PROVE  Contract!Next
<1>1. PICK r \in Runs : r = target[h] /\ apprStatus[r] # None
  BY DEF ExecuteApproved, Move, BackingInv, TypeInv, TypeOK, HandlersAreBacked, Asked
<1>2. /\ executions \in [Runs -> Nat]
      /\ executions' = [executions EXCEPT ![r] = @ + 1]
      /\ UNCHANGED <<apprStatus, runStatus>>
  BY <1>1 DEF ExecuteApproved, runsTable, approvalsTable, BackingInv, TypeInv, TypeOK
<1>3. Contract!Perform(r)
  <2>1. DecisionOn(r) # "none"
    BY <1>1, NoneIsNoValue DEF DecisionOn, Decided, BackingInv, TypeInv, TypeOK
  <2>2. {s \in Runs : executions[s] > 0}' = {s \in Runs : executions[s] > 0} \cup {r}
    BY <1>2
  <2> QED
    BY <1>2, <2>1, <2>2 DEF Contract!Perform, DecisionOn
<1> QED
  BY <1>3 DEF Contract!Next

\* The mark of a replay and the rejection are the contract's decisions.
LEMMA ContractDecides ==
    ASSUME BackingInv, NEW h \in Handlers, MarkWrite(h) \/ RejectWrite(h)
    PROVE  Contract!Next
<1>1. /\ target[h] \in Runs /\ apprStatus[target[h]] # None
      /\ apprStatus \in [Runs -> {None, "pending"} \cup Decided]
      /\ MarkWrite(h) => executions[target[h]] > 0
  BY DEF MarkWrite, RejectWrite, Move, BackingInv, TypeInv, TypeOK,
         HandlersAreBacked, Asked, Replayed, Rejecting
<1>2. PICK status \in Decided :
        /\ apprStatus' = [apprStatus EXCEPT ![target[h]] = status]
        /\ status # "rejected" => MarkWrite(h)
  BY DEF MarkWrite, RejectWrite, Decided
<1>3. UNCHANGED <<executions, runStatus>>
  BY DEF MarkWrite, RejectWrite, runsTable, history
<1>4. Contract!Decide(target[h])
  <2> DEFINE d == IF status = "rejected" THEN "rejected" ELSE "done"
  <2>1. \A r \in Runs : DecisionOn(r)' = IF r = target[h] THEN d ELSE DecisionOn(r)
    BY <1>1, <1>2, NoneIsNoValue DEF DecisionOn, Decided
  <2>2. DecisionOn(target[h]) # "none"
    BY <1>1, NoneIsNoValue DEF DecisionOn, Decided
  <2> QED
    BY <1>1, <1>2, <1>3, <2>1, <2>2 DEF Contract!Decide
<1> QED
  BY <1>1, <1>4 DEF Contract!Next

\* Whoever calls finish_run reports a success only of what was performed or
\* never asked for.
LEMMA ContractFinishes ==
    ASSUME BackingInv,
           \/ \E r \in Runs : \/ FinishWrite(r, r, "finishWrite", "recording")
                             \/ FinishWrite(r, r, "errorWrite", "done")
           \/ \E h \in Handlers : \/ FinishWrite(h, target[h], "approveWrite", "markRead")
                                 \/ FinishWrite(h, target[h], "rejectWrite", "idle")
    PROVE  Contract!Next
<1>1. PICK r \in Runs, p \in Procs :
        /\ runStatus' = [runStatus EXCEPT ![r] = verdict[p]]
        /\ verdict[p] = "succeeded" => ~Asked(r) \/ executions[r] > 0
        /\ UNCHANGED <<apprStatus, executions>>
  BY DEF FinishWrite, Move, BackingInv, TypeInv, TypeOK, HandlersAreBacked,
         WorkersAreHonest, Replayed, Procs, approvalsTable, history
<1> QED
  BY <1>1, ContractReports DEF BackingInv, TypeInv

\* The initial tables are the contract's.
LEMMA ContractInit == Init => Contract!Init
<1> SUFFICES ASSUME Init PROVE Contract!Init
  OBVIOUS
<1>1. \A r \in Runs : DecisionOn(r) = "none"
  BY DEF Init, DecisionOn
<1>2. \A r \in Runs : executions[r] = 0
  BY DEF Init
<1>3. \A r \in Runs : runStatus[r] # "succeeded"
  BY NoneIsNoValue DEF Init, RunStatuses
<1> QED
  BY <1>1, <1>2, <1>3 DEF Contract!Init

\* Every step is a step of the contract or invisible to it.
LEMMA ContractStep ==
    BackingInv /\ [Next]_vars => [Contract!Next]_(Contract!vars)
<1> SUFFICES ASSUME BackingInv, [Next]_vars
             PROVE  Contract!Next \/ UNCHANGED Contract!vars
  BY DEF BackingInv
<1> USE DEF runsTable, approvalsTable, history
<1>1. CASE UNCHANGED vars \/ Crash
  BY <1>1, ContractStutter DEF vars, Crash
<1>2. ASSUME NEW r \in Runs, Submit(r) \/ PauseRun(r)
      PROVE  Contract!Next
  BY <1>2, ContractReports DEF Submit, PauseRun, BackingInv, TypeInv
<1>3. ASSUME NEW r \in Runs, WorkerStep(r) \/ RunRaises(r), ~PauseRun(r)
      PROVE  Contract!Next \/ UNCHANGED Contract!vars
  <2>1. CASE \/ PersistApproval(r)
             \/ FinishWrite(r, r, "finishWrite", "recording")
             \/ FinishWrite(r, r, "errorWrite", "done")
    BY <2>1, ContractAsks, ContractFinishes
  <2>2. CASE ~ \/ PersistApproval(r)
               \/ FinishWrite(r, r, "finishWrite", "recording")
               \/ FinishWrite(r, r, "errorWrite", "done")
    <3> UNCHANGED <<apprStatus, executions, runStatus>>
      BY <1>3, <2>2
      DEF WorkerStep, RunRaises, Checkpoint, StepCheckpoint, Plan, PlanIsEmpty,
          PlanRepeats, StartSteps, ExecuteStep, AfterStep, TurnEnd, PlanDone,
          WriteNote, FinishRead, Return
    <3> QED
      BY ContractStutter
  <2> QED
    BY <2>1, <2>2
<1>4. ASSUME NEW h \in Handlers, Request(h) \/ HandlerStep(h) \/ Abort(h)
      PROVE  Contract!Next \/ UNCHANGED Contract!vars
  <2>1. CASE CancelWrite(h)
    <3>1. target[h] \in Runs
      BY <2>1 DEF CancelWrite, Move, BackingInv, TypeInv, TypeOK
    <3> QED
      BY <2>1, <3>1, ContractReports DEF CancelWrite, BackingInv, TypeInv
  <2>2. CASE \/ ExecuteApproved(h) \/ MarkWrite(h) \/ RejectWrite(h)
             \/ FinishWrite(h, target[h], "approveWrite", "markRead")
             \/ FinishWrite(h, target[h], "rejectWrite", "idle")
    BY <2>2, ContractPerforms, ContractDecides, ContractFinishes
  <2>3. CASE \/ Request(h) \/ Abort(h) \/ MarkRead(h) \/ EditWrite(h)
             \/ FinishRead(h, target[h], "approveRead", "approveWrite")
             \/ FinishRead(h, target[h], "rejectRead", "rejectWrite")
    <3> UNCHANGED <<apprStatus, executions, runStatus>>
      BY <2>3 DEF Request, Approve, Reject, Edit, Cancel, Abort, MarkRead, EditWrite,
                  FinishRead
    <3> QED
      BY ContractStutter
  <2> QED
    BY <1>4, <2>1, <2>2, <2>3 DEF HandlerStep
<1> QED
  BY <1>1, <1>2, <1>3, <1>4 DEF Next

\* The two tables behave as the contract promises, with any number of handlers,
\* crashes and aborted requests.
THEOREM ContractHolds == Spec => ImplementsContract
  BY ContractInit, ContractStep, BackingHolds, PTL
  DEF Spec, ImplementsContract, Contract!Spec

-----------------------------------------------------------------------------
(* Decisions are never taken back: only a worker that has not asked asks. *)

LEMMA DecidedStaysDecided ==
    BackingInv /\ [Next]_vars
        => \A r \in Runs : apprStatus[r] \in Decided => apprStatus'[r] \in Decided
<1> SUFFICES ASSUME BackingInv, [Next]_vars, NEW r \in Runs, apprStatus[r] \in Decided
             PROVE  apprStatus'[r] \in Decided
  OBVIOUS
<1> USE DEF approvalsTable
<1>1. CASE UNCHANGED apprStatus
  BY <1>1
<1>2. ASSUME NEW s \in Runs, PersistApproval(s)
      PROVE  apprStatus'[r] \in Decided
  <2>1. pc[s] \in BeforeAsking
    BY <1>2 DEF PersistApproval, Move, BeforeAsking
  <2>2. r # s
    BY <2>1, NoneIsNoValue DEF BackingInv, WorkersAreHonest, Asked
  <2> QED
    BY <1>2, <2>2 DEF PersistApproval, BackingInv, TypeInv, TypeOK
<1>3. ASSUME NEW h \in Handlers, MarkWrite(h) \/ RejectWrite(h)
      PROVE  apprStatus'[r] \in Decided
  BY <1>3 DEF MarkWrite, RejectWrite, BackingInv, TypeInv, TypeOK, Decided
<1>4. ASSUME NEW s \in Runs, Submit(s) \/ WorkerStep(s) \/ RunRaises(s),
             ~PersistApproval(s)
      PROVE  UNCHANGED apprStatus
  BY <1>4
  DEF Submit, WorkerStep, RunRaises, Checkpoint, StepCheckpoint, Plan, PlanIsEmpty,
      PlanRepeats, StartSteps, ExecuteStep, AfterStep, TurnEnd, PlanDone, WriteNote,
      PauseRun, FinishRead, FinishWrite, Return
<1>5. ASSUME NEW h \in Handlers, Request(h) \/ HandlerStep(h) \/ Abort(h),
             ~(MarkWrite(h) \/ RejectWrite(h))
      PROVE  UNCHANGED apprStatus
  BY <1>5
  DEF Request, HandlerStep, Approve, Reject, Edit, Cancel, Abort, ExecuteApproved,
      MarkRead, EditWrite, CancelWrite, FinishRead, FinishWrite
<1> QED
  BY <1>1, <1>2, <1>3, <1>4, <1>5 DEF Next, Crash, vars

\* No step of anyone takes a recorded decision back to pending (approvals.py).
THEOREM DecisionsStay == Spec => DecisionsNeverReopen
  BY BackingHolds, DecidedStaysDecided, PTL DEF Spec, DecisionsNeverReopen

-----------------------------------------------------------------------------
(***************************************************************************)
(* A recorded cancel lets at most one more tool start.  The invariant says *)
(* where a worker can be that has started it: behind the tool, and in front*)
(* of a checkpoint or past the last tool.                                  *)
(***************************************************************************)
BehindTool == {"persist", "stepDone", "turnEnd", "planDone", "pausing", "finishRead",
               "finishWrite", "recording", "errorRead", "errorWrite", "done", "dead"}

LateInv ==
    \A r \in Runs :
        /\ lateActions[r] <= 1
        /\ lateActions[r] > 0 => cancelRequested[r] /\ pc[r] \in BehindTool

\* No other thread disturbs it: handlers only ever set the request.
LEMMA LateInvElsewhere ==
    ASSUME TypeInv, LateInv,
           \A r \in Runs : cancelRequested[r] => cancelRequested'[r],
           \A r \in Runs : pc'[r] = pc[r] \/ pc'[r] = "dead",
           UNCHANGED lateActions
    PROVE  LateInv'
  BY DEF TypeInv, TypeOK, LateInv, BehindTool

\* The worker's own steps.
LEMMA LateInvWorker ==
    ASSUME TypeInv, LateInv, NEW r \in Runs,
           Submit(r) \/ WorkerStep(r) \/ RunRaises(r)
    PROVE  LateInv'
<1> USE DEF TypeInv, TypeOK, LateInv, BehindTool, Goto, Move, Procs, runsTable, history
<1>1. CASE Submit(r) \/ RunRaises(r)
  BY <1>1 DEF Submit, RunRaises
<1>2. ASSUME NEW from, NEW to, Checkpoint(r, from, to), from \in BehindTool => from = "planDone"
      PROVE  LateInv'
  BY <1>2 DEF Checkpoint
<1>3. ASSUME NEW from, NEW to, StepCheckpoint(r, from, to)
      PROVE  LateInv'
  BY <1>3 DEF StepCheckpoint
<1>4. CASE Plan(r) \/ PlanIsEmpty(r) \/ PlanRepeats(r)
  BY <1>4 DEF Plan, PlanIsEmpty, PlanRepeats, NextTurn
<1>5. CASE ExecuteStep(r)
  <2>1. PICK kind \in Kinds, status \in ResultStatuses : StepResult(r, kind, status)
    BY <1>5, StepHasResult
  <2>2. pc[r] = "execute" /\ CountLate(r) /\ UNCHANGED cancelRequested
    BY <1>5 DEF ExecuteStep
  <2>3. \E to \in BehindTool : Goto(r, to)
    BY <2>1 DEF StepResult
  <2> QED
    BY <2>2, <2>3 DEF CountLate
<1>6. CASE PersistApproval(r)
  BY <1>6 DEF PersistApproval
<1>7. CASE TurnEnd(r)
  <2>1. UNCHANGED <<cancelRequested, lateActions>>
    BY <1>7 DEF TurnEnd
  <2>2. Goto(r, "planDone") \/ (~cancelRequested[r] /\ \E to : Goto(r, to))
    BY <1>7 DEF TurnEnd, NextTurn
  <2> QED
    BY <2>1, <2>2
<1>8. CASE WriteNote(r)
  <2>1. pc[r] \in {"note", "noPlan"} /\ CountLate(r) /\ UNCHANGED cancelRequested
    BY <1>8 DEF WriteNote
  <2>2. \E to \in BehindTool : Goto(r, to)
    BY <1>8 DEF WriteNote
  <2> QED
    BY <2>1, <2>2 DEF CountLate
<1>9. CASE PauseRun(r) \/ Return(r)
  BY <1>9 DEF PauseRun, Return
<1>10. ASSUME NEW from, NEW to \in BehindTool,
             FinishRead(r, r, from, to) \/ FinishWrite(r, r, from, to)
      PROVE  LateInv'
  BY <1>10 DEF FinishRead, FinishWrite
<1> QED
  BY <1>1, <1>2, <1>3, <1>4, <1>5, <1>6, <1>7, <1>8, <1>9, <1>10
  DEF WorkerStep, StartSteps, AfterStep, PlanDone

LEMMA LateInvStep == TypeInv /\ LateInv /\ [Next]_vars => LateInv'
<1> SUFFICES ASSUME TypeInv, LateInv, [Next]_vars PROVE LateInv'
  OBVIOUS
<1> USE ProcessesAreDistinct
        DEF runsTable, history, TypeInv, TypeOK, Procs, Goto, Move
<1>1. CASE UNCHANGED vars
  BY <1>1, LateInvElsewhere DEF vars
<1>2. CASE Crash
  BY <1>2, LateInvElsewhere DEF Crash, LateInv, BehindTool
<1>3. ASSUME NEW h \in Handlers, Request(h) \/ HandlerStep(h) \/ Abort(h)
      PROVE  LateInv'
  <2>1. PICK to : pc' = [pc EXCEPT ![h] = to]
    BY <1>3
    DEF Request, HandlerStep, Approve, Reject, Edit, Cancel, BecomesBusy, Abort,
        ExecuteApproved, MarkRead, MarkWrite, RejectWrite, EditWrite, CancelWrite,
        FinishRead, FinishWrite
  <2>2. UNCHANGED lateActions
    BY <1>3
    DEF Request, HandlerStep, Approve, Reject, Edit, Cancel, Abort,
        ExecuteApproved, MarkRead, MarkWrite, RejectWrite, EditWrite, CancelWrite,
        FinishRead, FinishWrite
  <2>3. \A r \in Runs : cancelRequested[r] => cancelRequested'[r]
    BY <1>3
    DEF Request, HandlerStep, Approve, Reject, Edit, Cancel, Abort,
        ExecuteApproved, MarkRead, MarkWrite, RejectWrite, EditWrite, CancelWrite,
        FinishRead, FinishWrite
  <2>4. \A r \in Runs : pc'[r] = pc[r]
    BY <2>1
  <2> QED
    BY <2>2, <2>3, <2>4, LateInvElsewhere
<1>4. CASE Next
  BY <1>2, <1>3, <1>4, LateInvWorker DEF Next
<1> QED
  BY <1>1, <1>4

\* Behind a recorded cancel the worker starts at most one more tool, whatever
\* the plan's length and the number of turns (orchestrator.py, _cancel_requested).
THEOREM CancelIsBounded == Spec => []CancelBoundsWork
<1>1. Init => LateInv
  <2> SUFFICES ASSUME Init, NEW r \in Runs
               PROVE  lateActions[r] <= 1 /\ ~(lateActions[r] > 0)
    BY DEF LateInv
  <2>1. lateActions[r] = 0
    BY DEF Init
  <2> QED
    BY <2>1
<1>2. Spec => [](TypeInv /\ LateInv)
  BY <1>1, TypeInvInit, TypeInvStep, LateInvStep, PTL DEF Spec
<1>3. LateInv => CancelBoundsWork
  BY DEF LateInv, CancelBoundsWork
<1> QED
  BY <1>2, <1>3, PTL

-----------------------------------------------------------------------------
(***************************************************************************)
(* With the requests serialised - one handler thread, no fault - the       *)
(* approval is what its user takes it for.  The handler's place decides    *)
(* what the approval's row and the action's history look like.             *)
(***************************************************************************)
SerialInv ==
    /\ \A r \in Runs :
         /\ apprStatus[r] \in {None, "rejected"} => executions[r] = 0
         /\ apprStatus[r] = "pending" =>
              \/ executions[r] = 0
              \/ \E h \in Handlers : target[h] = r /\ pc[h] \in Replayed
         /\ apprStatus[r] \in {"executed", "failed"} =>
              executions[r] = 1 /\ ranInput[r] = apprInput[r]
    /\ \A h \in Handlers :
         /\ pc[h] \in Replayed \cup {"approving", "rejecting", "editing"}
              => apprStatus[target[h]] = "pending"
         /\ pc[h] \in {"approving", "rejecting", "editing"}
              => executions[target[h]] = 0
         /\ pc[h] = "approving" => readInput[h] = apprInput[target[h]]
         /\ pc[h] \in Replayed => /\ executions[target[h]] = 1
                                 /\ ranInput[target[h]] = apprInput[target[h]]

LEMMA SerialInit == Init => SerialInv
  BY NoneIsNoValue, ProcessesAreDistinct
  DEF Init, SerialInv, Replayed, Procs, Decided

\* The worker asks once, and until then there is nothing a handler could do.
LEMMA SerialWorker ==
    ASSUME BackingInv, SerialInv, NEW r \in Runs,
           Submit(r) \/ WorkerStep(r) \/ RunRaises(r)
    PROVE  SerialInv'
<1>1. PICK to : pc' = [pc EXCEPT ![r] = to]
  BY DEF Submit, WorkerStep, RunRaises, Checkpoint, StepCheckpoint, Plan, PlanIsEmpty,
         PlanRepeats, NextTurn, StartSteps, ExecuteStep, PersistApproval, AfterStep,
         TurnEnd, PlanDone, WriteNote, PauseRun, FinishRead, FinishWrite, Return,
         Goto, Move
<1>2. \A h \in Handlers : pc'[h] = pc[h]
  BY <1>1, ProcessesAreDistinct DEF BackingInv, TypeInv, TypeOK, Procs
<1>3. UNCHANGED <<executions, ranInput>>
  BY DEF Submit, WorkerStep, RunRaises, Checkpoint, StepCheckpoint, Plan, PlanIsEmpty,
         PlanRepeats, StartSteps, ExecuteStep, PersistApproval, AfterStep,
         TurnEnd, PlanDone, WriteNote, PauseRun, FinishRead, FinishWrite, Return,
         history
<1>4. UNCHANGED <<target, readInput>>
  BY ProcessesAreDistinct
     DEF Submit, WorkerStep, RunRaises, Checkpoint, StepCheckpoint, Plan, PlanIsEmpty,
         PlanRepeats, StartSteps, ExecuteStep, PersistApproval, AfterStep,
         TurnEnd, PlanDone, WriteNote, PauseRun, FinishRead, FinishWrite, Return,
         handlerVars
<1>5. CASE PersistApproval(r)
  <2>1. apprStatus[r] = None
    BY <1>5 DEF PersistApproval, Move, BackingInv, WorkersAreHonest, BeforeAsking, Asked
  <2>2. PICK i \in Inputs : /\ apprStatus' = [apprStatus EXCEPT ![r] = "pending"]
                            /\ apprInput' = [apprInput EXCEPT ![r] = i]
    BY <1>5 DEF PersistApproval
  <2>3. \A h \in Handlers :
          pc[h] \in Replayed \cup {"approving", "rejecting", "editing"} => target[h] # r
    BY <2>1, NoneIsNoValue DEF SerialInv
  <2> QED
    BY <1>2, <1>3, <1>4, <2>1, <2>2, <2>3
    DEF BackingInv, TypeInv, TypeOK, SerialInv, Replayed
<1>6. CASE ~PersistApproval(r)
  <2>1. UNCHANGED <<apprStatus, apprInput>>
    BY <1>6
    DEF Submit, WorkerStep, RunRaises, Checkpoint, StepCheckpoint, Plan, PlanIsEmpty,
        PlanRepeats, StartSteps, ExecuteStep, AfterStep, TurnEnd, PlanDone, WriteNote,
        PauseRun, FinishRead, FinishWrite, Return, approvalsTable
  <2> QED
    BY <1>2, <1>3, <1>4, <2>1 DEF SerialInv
<1> QED
  BY <1>5, <1>6

\* The one handler decides what it has read, because nobody else decides.
LEMMA SerialHandler ==
    ASSUME BackingInv, SerialInv, NEW h \in Handlers, Handlers = {h},
           Request(h) \/ HandlerStep(h)
    PROVE  SerialInv'
<1> USE ProcessesAreDistinct, NoneIsNoValue
        DEF BackingInv, TypeInv, TypeOK, SerialInv, Replayed, Procs, Goto, Move,
            Decided, runsTable, approvalsTable, history, handlerVars
<1>1. ASSUME NEW r \in Runs, Approve(h, r)
      PROVE  SerialInv'
  BY <1>1 DEF Approve, BecomesBusy
<1>2. ASSUME NEW r \in Runs, Reject(h, r)
      PROVE  SerialInv'
  BY <1>2 DEF Reject, BecomesBusy
<1>3. ASSUME NEW r \in Runs, Edit(h, r)
      PROVE  SerialInv'
  BY <1>3 DEF Edit, BecomesBusy
<1>4. ASSUME NEW r \in Runs, Cancel(h, r)
      PROVE  SerialInv'
  BY <1>4 DEF Cancel, BecomesBusy
<1>5. CASE ExecuteApproved(h)
  BY <1>5 DEF ExecuteApproved
<1>6. CASE \/ FinishRead(h, target[h], "approveRead", "approveWrite")
           \/ FinishRead(h, target[h], "rejectRead", "rejectWrite")
  BY <1>6 DEF FinishRead
<1>7. CASE FinishWrite(h, target[h], "approveWrite", "markRead")
  BY <1>7 DEF FinishWrite
<1>8. CASE FinishWrite(h, target[h], "rejectWrite", "idle")
  BY <1>8 DEF FinishWrite, Forget
<1>9. CASE MarkRead(h)
  BY <1>9 DEF MarkRead
<1>10. CASE MarkWrite(h)
  BY <1>10 DEF MarkWrite, Forget
<1>11. CASE RejectWrite(h)
  BY <1>11 DEF RejectWrite
<1>12. CASE EditWrite(h)
  BY <1>12 DEF EditWrite, Forget
<1>13. CASE CancelWrite(h)
  BY <1>13 DEF CancelWrite, Forget
<1> QED
  BY <1>1, <1>2, <1>3, <1>4, <1>5, <1>6, <1>7, <1>8, <1>9, <1>10, <1>11, <1>12, <1>13
  DEF Request, HandlerStep

LEMMA SerialStep ==
    ASSUME MaxFaults = 0, \A g, h \in Handlers : g = h
    PROVE  BackingInv /\ SerialInv /\ [Next]_vars => SerialInv'
<1> SUFFICES ASSUME BackingInv, SerialInv, [Next]_vars PROVE SerialInv'
  OBVIOUS
<1>1. CASE UNCHANGED vars
  BY <1>1 DEF vars, SerialInv, approvalsTable, handlerVars, history
<1>2. CASE Crash \/ \E h \in Handlers : Abort(h)
  BY <1>2 DEF Crash, Abort, BackingInv, TypeInv, TypeOK
<1>3. ASSUME NEW r \in Runs, Submit(r) \/ WorkerStep(r) \/ RunRaises(r)
      PROVE  SerialInv'
  BY <1>3, SerialWorker
<1>4. ASSUME NEW h \in Handlers, Request(h) \/ HandlerStep(h)
      PROVE  SerialInv'
  BY <1>4, SerialHandler
<1> QED
  BY <1>1, <1>2, <1>3, <1>4 DEF Next

\* With one handler thread and no fault an approved action is performed at most
\* once, a rejected one never, and always with the input the approval records
\* (runtime.py and approvals.py).
THEOREM SerialisedDecisions ==
    ASSUME MaxFaults = 0, \A g, h \in Handlers : g = h
    PROVE  Spec => []ApprovalTellsAll
<1>1. Spec => [](BackingInv /\ SerialInv)
  BY BackingInit, BackingStep, SerialInit, SerialStep, PTL DEF Spec
<1>2. BackingInv /\ SerialInv => ApprovalTellsAll
  <2> SUFFICES ASSUME BackingInv, SerialInv, NEW r \in Runs
               PROVE  /\ executions[r] <= 1
                      /\ apprStatus[r] = "rejected" => executions[r] = 0
                      /\ apprStatus[r] \in {"executed", "failed"}
                           => ranInput[r] = apprInput[r]
    BY DEF ApprovalTellsAll, ApprovedAtMostOnce, RejectedNeverRuns, RecordedInputRan
  <2>1. executions[r] \in {0, 1}
    BY DEF BackingInv, TypeInv, TypeOK, SerialInv, Decided
  <2> QED
    BY <2>1 DEF SerialInv
<1> QED
  BY <1>1, <1>2, PTL
=============================================================================
