----------------------------- MODULE ChatMessage -----------------------------
(***************************************************************************)
(* The answer that the desktop shows to a chat message: a row of           *)
(* chat_messages in one database that follows the row of its run in        *)
(* another (desktop_chats.py, api.py _run_chat_background).  The worker of *)
(* the run writes the answer at the end; every request that lists chats    *)
(* copies the state of the run to answers that are not settled; approvals  *)
(* and cancellations move the run meanwhile.                               *)
(*                                                                         *)
(* One answer and its run.  RunApproval has the run in full: here it is    *)
(* its status and its text, and finish_run and request_cancel_run are one  *)
(* step each.                                                              *)
(***************************************************************************)
EXTENDS Naturals

CONSTANTS
    Listers,     \* requests that list chats
    MaxPauses    \* bound: times that the run waits for an approval

ASSUME ChatConstants == MaxPauses \in Nat

VARIABLES
    run,       \* row of runs
    approval,  \* an approval of the run is pending
    answer,    \* row of chat_messages: status and text
    worker,    \* locals of the thread that works on the run
    lister,    \* locals of each listing request
    pauses,
    \* what really happened, for the properties only
    hasty      \* the run has moved behind an outcome that somebody had read already, or
               \* has ended before the worker looked at what it had paused

chatVars == <<run, approval, answer, worker, lister, pauses, hasty>>

Settled == {"succeeded", "failed", "cancelled"}
Active == {"planned", "running", "cancelling", "needs_approval"}
ActiveNoPause == Active \ {"needs_approval"}

Rows == [status |-> "planned", text |-> "none"]
Out == [pc |-> "out", seen |-> Rows, text |-> "none"]

\* The request has inserted run and answer; when its client has hung up, sending the
\* response raises and the worker is never started.
ChatInit ==
    /\ run = [status |-> "planned", text |-> "none", cancelled |-> FALSE, finished |-> FALSE]
    /\ approval = FALSE /\ answer = Rows /\ pauses = 0 /\ hasty = FALSE
    /\ worker \in {[Out EXCEPT !.pc = p] : p \in {"start", "gone"}}
    /\ lister = [s \in Listers |-> Out]

\* finish_run: a run that is to be cancelled ends as cancelled, whatever its outcome.
\* It stays finished even if a pause or a decision moves its status again.
Finish(status, text) ==
    run' = IF run.cancelled
           THEN [run EXCEPT !.status = "cancelled", !.text = "stopped", !.finished = TRUE]
           ELSE [run EXCEPT !.status = status, !.text = text, !.finished = TRUE]

\* Somebody has an outcome of the run in hand, or has written it.
Told ==
    \/ answer.status \in Settled
    \/ worker.pc = "write" /\ worker.seen.status \in Settled
    \/ \E s \in Listers : lister[s].pc \in {"copy", "update"} /\ lister[s].seen.status \in Settled
MovesBehind == run.status \in Settled /\ Told

Outcomes == {<<"succeeded", "done">>, <<"failed", "undone">>}

\* The worker reports that it runs: it writes the text back that it has read.
ReadAnswer ==
    /\ worker.pc = "start"
    /\ worker' = [worker EXCEPT !.pc = "mark", !.text = answer.text]
    /\ UNCHANGED <<run, approval, answer, lister, pauses, hasty>>

MarkRunning ==
    /\ worker.pc = "mark"
    /\ answer' = [status |-> "running", text |-> worker.text]
    /\ worker' = [worker EXCEPT !.pc = "run"]
    /\ UNCHANGED <<run, approval, lister, pauses, hasty>>

\* The run ends, stops because it is cancelled, or needs an approval.
EndRun ==
    /\ worker.pc = "run"
    /\ \/ \E o \in Outcomes :
            Finish(o[1], o[2]) /\ worker' = [worker EXCEPT !.pc = "ended", !.text = o[2]]
       \/ /\ run.cancelled /\ Finish("cancelled", "stopped")
          /\ worker' = [worker EXCEPT !.pc = "ended", !.text = "stopped"]
    /\ UNCHANGED <<approval, answer, lister, pauses, hasty>>

RequestApproval ==
    /\ worker.pc = "run" /\ pauses < MaxPauses
    /\ approval' = TRUE /\ pauses' = pauses + 1
    /\ worker' = [worker EXCEPT !.pc = "pause"]
    /\ UNCHANGED <<run, answer, lister, hasty>>

\* pause_run looks neither at the status nor at a cancellation.
PauseRun ==
    /\ worker.pc = "pause"
    /\ run' = [run EXCEPT !.status = "needs_approval", !.text = "waiting"]
    /\ worker' = [worker EXCEPT !.pc = "ended", !.text = "waiting"]
    /\ hasty' = (hasty \/ MovesBehind)
    /\ UNCHANGED <<approval, answer, lister, pauses>>

\* The status comes from the run, the text from what the worker has in hand.
ReadRun ==
    /\ worker.pc = "ended"
    /\ worker' = [worker EXCEPT !.pc = "write", !.seen = [status |-> run.status, text |-> "none"]]
    /\ UNCHANGED <<run, approval, answer, lister, pauses, hasty>>

WriteAnswer ==
    /\ worker.pc = "write"
    /\ answer' = [status |-> worker.seen.status, text |-> worker.text]
    /\ worker' = [worker EXCEPT !.pc = "gone"]
    /\ UNCHANGED <<run, approval, lister, pauses, hasty>>

\* Something raises: run and answer fail, in this order.
FailRun ==
    /\ worker.pc \in {"run", "pause"}
    /\ Finish("failed", "error")
    /\ worker' = [worker EXCEPT !.pc = "write", !.text = "error",
                                !.seen = [status |-> "failed", text |-> "none"]]
    /\ hasty' = (hasty \/ MovesBehind)
    /\ UNCHANGED <<approval, answer, lister, pauses>>

\* The process dies.
LoseWorker ==
    /\ worker.pc # "gone"
    /\ worker' = [worker EXCEPT !.pc = "gone"]
    /\ UNCHANGED <<run, approval, answer, lister, pauses, hasty>>

\* An approval is decided; what is approved may need another one.
Decide ==
    /\ approval
    /\ \/ /\ \E o \in Outcomes : Finish(o[1], o[2])
          /\ approval' = FALSE /\ UNCHANGED pauses
       \/ /\ pauses < MaxPauses
          /\ run' = [run EXCEPT !.status = "needs_approval", !.text = "waiting"]
          /\ pauses' = pauses + 1 /\ UNCHANGED approval
    /\ hasty' = (hasty \/ MovesBehind \/ (worker.pc = "ended" /\ ~approval'))
    /\ UNCHANGED <<answer, worker, lister>>

CancelRun ==
    /\ ~run.finished
    /\ run' = [run EXCEPT !.status = "cancelling", !.text = "asked", !.cancelled = TRUE]
    /\ UNCHANGED <<approval, answer, worker, lister, pauses, hasty>>

SelectAnswerMissing(s) ==
    /\ lister[s].pc = "out" /\ answer.status \in ActiveNoPause
    /\ lister' = [lister EXCEPT ![s].pc = "get"]
    /\ UNCHANGED <<run, approval, answer, worker, pauses, hasty>>

\* sync_run_messages, step by step: the answers that are not settled, the run of
\* each, the text as it is, the update.
SelectAnswer(s) ==
    /\ lister[s].pc = "out" /\ answer.status \in Active
    /\ lister' = [lister EXCEPT ![s].pc = "get"]
    /\ UNCHANGED <<run, approval, answer, worker, pauses, hasty>>

GetRun(s) ==
    /\ lister[s].pc = "get"
    /\ lister' = [lister EXCEPT ![s].pc = "copy",
                                ![s].seen = [status |-> run.status, text |-> run.text]]
    /\ UNCHANGED <<run, approval, answer, worker, pauses, hasty>>

CopyOldText(s) ==
    /\ lister[s].pc = "copy"
    /\ lister' = [lister EXCEPT ![s].pc = "update", ![s].text = answer.text]
    /\ UNCHANGED <<run, approval, answer, worker, pauses, hasty>>

CopyText(s) ==
    /\ lister[s].pc = "copy"
    /\ lister' = [lister EXCEPT ![s].pc = "update",
                    ![s].text = IF lister[s].seen.status \in Settled THEN lister[s].seen.text
                                ELSE answer.text]
    /\ UNCHANGED <<run, approval, answer, worker, pauses, hasty>>

UpdateUnknown(s) ==
    /\ lister[s].pc = "update"
    /\ answer' = [status |-> "queued", text |-> lister[s].text]
    /\ lister' = [lister EXCEPT ![s] = Out]
    /\ UNCHANGED <<run, approval, worker, pauses, hasty>>

UpdateAnswer(s) ==
    /\ lister[s].pc = "update"
    /\ answer' = [status |-> lister[s].seen.status, text |-> lister[s].text]
    /\ lister' = [lister EXCEPT ![s] = Out]
    /\ UNCHANGED <<run, approval, worker, pauses, hasty>>

WorkerStep == \/ ReadAnswer \/ MarkRunning \/ EndRun \/ RequestApproval \/ PauseRun
              \/ ReadRun \/ WriteAnswer \/ FailRun \/ LoseWorker
Sync(s) == SelectAnswer(s) \/ GetRun(s) \/ CopyText(s) \/ UpdateAnswer(s)

ChatNext == \/ WorkerStep \/ Decide \/ CancelRun
            \/ \E s \in Listers : Sync(s)

\* The desktop lists its chats again and again, and some listing moves on.
ChatFairness == WF_chatVars(\E s \in Listers : Sync(s))

ChatSpec == ChatInit /\ [][ChatNext]_chatVars
-----------------------------------------------------------------------------
(* The type invariant: what the rows and the locals may hold. *)
Texts == {"none", "waiting", "done", "undone", "stopped", "asked", "error"}

ChatTypeOK ==
    /\ run \in [status : Active \cup Settled, text : Texts, cancelled : BOOLEAN,
               finished : BOOLEAN]
    /\ answer \in [status : Active \cup Settled, text : Texts]
    /\ worker.pc \in {"start", "mark", "run", "pause", "ended", "write", "gone"}
    /\ \A s \in Listers : lister[s].pc \in {"out", "get", "copy", "update"}
    /\ approval \in BOOLEAN /\ hasty \in BOOLEAN /\ pauses \in 0..MaxPauses

\* An answer that is settled is never looked at again, so it has to be right: it has
\* the status and the text of its run, whatever listings overlap or come late.
\* Not so when the run moves behind an outcome that somebody has read already, or an
\* approval is carried out between pause_run and the worker's look at the run; and
\* the worker's own words may stand for a run that a cancellation has overtaken.
SettledIsTrue ==
    answer.status \in Settled =>
        \/ answer.status = run.status /\ answer.text = run.text
        \/ run.status = "cancelled" /\ run.cancelled /\ answer.text = worker.text
        \/ hasty

\* A settled run, unless it moves again, shows in the chat in the end: a listing that
\* writes back what it has read before the end is made good by the next one (the
\* statuses that sync_run_messages selects).
OutcomeReachesChat ==
    run.status \in Settled ~> answer.status \in Settled \/ run.status \notin Settled
=============================================================================
