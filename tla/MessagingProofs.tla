---------------------------- MODULE MessagingProofs ---------------------------
(***************************************************************************)
(* Theorems about ChatMessage, for any listing requests and any number of  *)
(* pauses, and about ChannelListener, for any requests in any groups, any  *)
(* identifiers and any number of faults.                                   *)
(***************************************************************************)
EXTENDS MCServices, CollectorTickProofs

-----------------------------------------------------------------------------
(***************************************************************************)
(* ChatMessage: the inductive invariant.                                   *)
(***************************************************************************)

Status == Active \cup Settled

WorkerLocals == [pc : {"start", "mark", "run", "pause", "ended", "write", "gone"},
                 seen : [status : Status, text : Texts], text : Texts]
ListerLocals == [pc : {"out", "get", "copy", "update"},
                 seen : [status : Status, text : Texts], text : Texts]

LocalsTypeOK == ChatTypeOK /\ worker \in WorkerLocals /\ lister \in [Listers -> ListerLocals]

\* What somebody holds of the run, or has written of it, is what the run came to, if
\* it is an outcome at all and the run has not moved behind it.
Honest(status, text) ==
    status \in Settled =>
        \/ status = run.status /\ text = run.text
        \/ run.status = "cancelled" /\ run.cancelled /\ text = worker.text
        \/ hasty

\* An approval is there from the worker's last step on; before that, nobody but the
\* worker can end the run.
ApprovalIsLate == approval => worker.pc \in {"pause", "ended", "write", "gone"}
RunIsOpen == worker.pc \in {"start", "mark", "run"} => run.status \notin Settled

\* Whoever is about to write the answer holds an honest one.
WorkerIsHonest ==
    /\ worker.pc = "ended" => Honest(run.status, worker.text)
    /\ worker.pc = "write" => Honest(worker.seen.status, worker.text)
ListersAreHonest ==
    \A s \in Listers :
        /\ lister[s].pc = "copy" => Honest(lister[s].seen.status, lister[s].seen.text)
        /\ lister[s].pc = "update" => Honest(lister[s].seen.status, lister[s].text)

\* A run that is to be cancelled ends as cancelled.
CancelledEndsSo == run.cancelled /\ run.status \in Settled => run.status = "cancelled"

\* Nobody cancels a run that is settled.
SettledIsFinished == run.status \in Settled => run.finished

ChatInv == /\ LocalsTypeOK /\ ApprovalIsLate /\ RunIsOpen /\ WorkerIsHonest /\ ListersAreHonest
           /\ CancelledEndsSo /\ SettledIsFinished /\ SettledIsTrue

-----------------------------------------------------------------------------
\* The initial states satisfy the invariant.
LEMMA InitInv == ChatInit => ChatInv
<1> SUFFICES ASSUME ChatInit PROVE ChatInv
  OBVIOUS
<1> USE ChatConstants DEF ChatInit
<1>1. LocalsTypeOK
  <2>1. worker \in WorkerLocals /\ worker.pc \in {"start", "gone"}
    <3>1. PICK p \in {"start", "gone"} : worker = [Out EXCEPT !.pc = p]
      OBVIOUS
    <3> QED
      BY <3>1 DEF WorkerLocals, Out, Rows, Status, Active, Settled, Texts
  <2>2. lister \in [Listers -> ListerLocals] /\ \A s \in Listers : lister[s].pc = "out"
    BY DEF ListerLocals, Out, Rows, Status, Active, Settled, Texts
  <2>3. /\ run \in [status : Active \cup Settled, text : Texts, cancelled : BOOLEAN,
                   finished : BOOLEAN]
        /\ answer \in [status : Active \cup Settled, text : Texts]
    BY DEF Rows, Active, Settled, Texts
  <2>4. approval = FALSE /\ hasty = FALSE /\ pauses = 0
    OBVIOUS
  <2>5. approval \in BOOLEAN /\ hasty \in BOOLEAN
    BY <2>4
  <2>6. pauses \in 0..MaxPauses
    BY <2>4
  <2> HIDE DEF ChatInit
  <2> QED
    BY <2>1, <2>2, <2>3, <2>5, <2>6 DEF LocalsTypeOK, ChatTypeOK
<1>2. /\ ApprovalIsLate /\ RunIsOpen /\ WorkerIsHonest /\ CancelledEndsSo
      /\ SettledIsFinished /\ SettledIsTrue
  BY DEF ApprovalIsLate, RunIsOpen, WorkerIsHonest, CancelledEndsSo, SettledIsFinished,
         SettledIsTrue, Out, Rows, Settled
<1>3. ListersAreHonest
  BY DEF ListersAreHonest, Out
<1> QED
  BY <1>1, <1>2, <1>3 DEF ChatInv

\* What finish_run makes of the run.
LEMMA FinishedRun ==
    ASSUME LocalsTypeOK, NEW status \in Settled, NEW text \in Texts, Finish(status, text)
    PROVE  /\ run' \in [status : Status, text : Texts, cancelled : BOOLEAN, finished : BOOLEAN]
           /\ run'.status \in Settled /\ run'.finished /\ run'.cancelled = run.cancelled
           /\ run.cancelled => run'.status = "cancelled"
           /\ ~run.cancelled => run'.status = status /\ run'.text = text
  BY DEF LocalsTypeOK, ChatTypeOK, Finish, Status, Settled, Texts

\* A run that is settled, and the words of its worker, move only before anybody has been
\* told of it, or the property's excuse is there.
LEMMA RunIsMovedOpen ==
    ASSUME ChatInv, ChatNext
    PROVE  /\ hasty => hasty'
           /\ \/ run' = run /\ worker'.text = worker.text
              \/ run.status \notin Settled \/ ~Told \/ hasty'
<1> USE DEF ChatInv, LocalsTypeOK, ChatTypeOK, RunIsOpen
<1>1. CASE WorkerStep
  <2>1. CASE PauseRun \/ FailRun
    BY <2>1 DEF PauseRun, FailRun, MovesBehind
  <2>2. CASE EndRun \/ ReadAnswer
    BY <2>2 DEF EndRun, ReadAnswer
  <2>3. CASE MarkRunning \/ RequestApproval \/ ReadRun \/ WriteAnswer \/ LoseWorker
    BY <2>3 DEF MarkRunning, RequestApproval, ReadRun, WriteAnswer, LoseWorker, WorkerLocals
  <2> QED
    BY <1>1, <2>1, <2>2, <2>3 DEF WorkerStep
<1>2. CASE Decide
  BY <1>2 DEF Decide, MovesBehind
<1>3. CASE CancelRun
  BY <1>3 DEF CancelRun, SettledIsFinished
<1>4. ASSUME NEW s \in Listers, Sync(s) PROVE (hasty => hasty') /\ run' = run /\ worker' = worker
  BY <1>4 DEF Sync, SelectAnswer, GetRun, CopyText, UpdateAnswer
<1> QED
  BY <1>1, <1>2, <1>3, <1>4 DEF ChatNext

\* So an honest outcome stays honest, however late it is written.
LEMMA HonestyLasts ==
    ASSUME ChatInv, ChatNext, NEW status, NEW text, Honest(status, text),
           status \in Settled => Told
    PROVE  Honest(status, text)'
<1>1. CASE run' = run /\ worker'.text = worker.text
  BY <1>1, RunIsMovedOpen DEF Honest
<1>2. CASE run.status \notin Settled \/ ~Told \/ hasty'
  BY <1>2, RunIsMovedOpen DEF Honest, Settled
<1> QED
  BY <1>1, <1>2, RunIsMovedOpen

-----------------------------------------------------------------------------
(***************************************************************************)
(* Each step keeps the invariant.                                          *)
(***************************************************************************)

\* A step that leaves the listings alone keeps them honest; a step that leaves the
\* answer alone keeps it true.
LEMMA OthersStayHonest ==
    ASSUME ChatInv, ChatNext
    PROVE  /\ lister' = lister => ListersAreHonest'
           /\ answer' = answer => SettledIsTrue'
<1>1. ASSUME lister' = lister PROVE ListersAreHonest'
  <2> SUFFICES ASSUME NEW s \in Listers
               PROVE  /\ lister[s].pc = "copy" =>
                            Honest(lister[s].seen.status, lister[s].seen.text)'
                      /\ lister[s].pc = "update" => Honest(lister[s].seen.status, lister[s].text)'
    BY <1>1 DEF ListersAreHonest, Honest
  <2>1. PICK l : l = lister[s]
    OBVIOUS
  <2>2. /\ l.pc = "copy" => Honest(l.seen.status, l.seen.text)
        /\ l.pc = "update" => Honest(l.seen.status, l.text)
    BY <2>1 DEF ChatInv, ListersAreHonest
  <2>3. /\ l.pc = "copy" => Honest(l.seen.status, l.seen.text)'
        /\ l.pc = "update" => Honest(l.seen.status, l.text)'
    <3>1. l.pc \in {"copy", "update"} /\ l.seen.status \in Settled => Told
      BY <2>1 DEF Told
    <3> QED
      BY <2>2, <3>1, HonestyLasts
  <2> QED
    BY <1>1, <2>1, <2>3 DEF Honest
<1>2. ASSUME answer' = answer PROVE SettledIsTrue'
  <2>1. PICK a : a = answer
    OBVIOUS
  <2>2. Honest(a.status, a.text)'
    BY <2>1, HonestyLasts DEF ChatInv, SettledIsTrue, Honest, Told
  <2> QED
    BY <1>2, <2>1, <2>2 DEF SettledIsTrue, Honest
<1> QED
  BY <1>1, <1>2

\* The worker reads the answer and marks it as running.
LEMMA MarkingKeepsInv == ASSUME ChatInv, ReadAnswer \/ MarkRunning PROVE ChatInv'
<1> USE DEF WorkerLocals
<1>1. CASE ReadAnswer
  <2>1. LocalsTypeOK'
    BY <1>1 DEF ReadAnswer, ChatInv, LocalsTypeOK, ChatTypeOK
  <2>2. ListersAreHonest' /\ SettledIsTrue'
    BY <1>1, OthersStayHonest DEF ReadAnswer, ChatNext, WorkerStep
  <2>3. ApprovalIsLate' /\ RunIsOpen' /\ WorkerIsHonest' /\ CancelledEndsSo' /\ SettledIsFinished'
    BY <1>1 DEF ReadAnswer, ChatInv, LocalsTypeOK, ApprovalIsLate, RunIsOpen, WorkerIsHonest,
                CancelledEndsSo, SettledIsFinished
  <2> QED
    BY <2>1, <2>2, <2>3 DEF ChatInv
<1>2. CASE MarkRunning
  <2>1. LocalsTypeOK'
    BY <1>2 DEF MarkRunning, ChatInv, LocalsTypeOK, ChatTypeOK, Active
  <2>2. ListersAreHonest'
    BY <1>2, OthersStayHonest DEF MarkRunning, ChatNext, WorkerStep
  <2>3. /\ ApprovalIsLate' /\ RunIsOpen' /\ WorkerIsHonest' /\ CancelledEndsSo'
        /\ SettledIsFinished' /\ SettledIsTrue'
    BY <1>2 DEF MarkRunning, ChatInv, LocalsTypeOK, ApprovalIsLate, RunIsOpen, WorkerIsHonest,
                CancelledEndsSo, SettledIsFinished, SettledIsTrue, Settled
  <2> QED
    BY <2>1, <2>2, <2>3 DEF ChatInv
<1> QED
  BY <1>1, <1>2

\* The run ends, in whatever way, or stops for an approval.
LEMMA EndingKeepsInv ==
    ASSUME ChatInv, EndRun \/ RequestApproval \/ PauseRun \/ FailRun PROVE ChatInv'
<1> USE DEF WorkerLocals
<1>0. ListersAreHonest' /\ SettledIsTrue'
  BY OthersStayHonest DEF EndRun, RequestApproval, PauseRun, FailRun, ChatNext, WorkerStep, Finish
<1>1. CASE EndRun
  <2>1. PICK status \in Settled, text \in Texts :
           /\ Finish(status, text)
           /\ worker' = [worker EXCEPT !.pc = "ended", !.text = text]
           /\ status = "cancelled" => run.cancelled
    <3>1. CASE \E o \in Outcomes :
                 Finish(o[1], o[2]) /\ worker' = [worker EXCEPT !.pc = "ended", !.text = o[2]]
      <4>1. PICK o \in Outcomes :
              Finish(o[1], o[2]) /\ worker' = [worker EXCEPT !.pc = "ended", !.text = o[2]]
        BY <3>1
      <4>2. o[1] \in Settled \ {"cancelled"} /\ o[2] \in Texts
        BY DEF Outcomes, Settled, Texts
      <4> QED
        BY <4>1, <4>2
    <3>2. CASE run.cancelled /\ Finish("cancelled", "stopped")
               /\ worker' = [worker EXCEPT !.pc = "ended", !.text = "stopped"]
      BY <3>2 DEF Settled, Texts
    <3> QED
      BY <1>1, <3>1, <3>2 DEF EndRun
  <2>2. /\ run' \in [status : Status, text : Texts, cancelled : BOOLEAN, finished : BOOLEAN]
        /\ run'.status \in Settled /\ run'.finished /\ run'.cancelled = run.cancelled
        /\ run.cancelled => run'.status = "cancelled"
        /\ ~run.cancelled => run'.status = status /\ run'.text = text
    BY <2>1, FinishedRun DEF ChatInv
  <2>3. LocalsTypeOK'
    BY <1>1, <2>1, <2>2 DEF EndRun, ChatInv, LocalsTypeOK, ChatTypeOK, Status
  <2>4. worker'.pc = "ended" /\ worker'.text = text
    BY <2>1 DEF ChatInv, LocalsTypeOK
  <2>5. WorkerIsHonest'
    BY <2>2, <2>4, <2>3 DEF WorkerIsHonest, Honest, LocalsTypeOK, ChatTypeOK
  <2>6. ApprovalIsLate' /\ RunIsOpen' /\ CancelledEndsSo' /\ SettledIsFinished'
    BY <2>2, <2>4 DEF ApprovalIsLate, RunIsOpen, CancelledEndsSo, SettledIsFinished
  <2> QED
    BY <1>0, <2>3, <2>5, <2>6 DEF ChatInv
<1>2. CASE RequestApproval
  <2>1. LocalsTypeOK'
    BY <1>2, ChatConstants DEF RequestApproval, ChatInv, LocalsTypeOK, ChatTypeOK
  <2>2. ApprovalIsLate' /\ RunIsOpen' /\ WorkerIsHonest' /\ CancelledEndsSo' /\ SettledIsFinished'
    BY <1>2 DEF RequestApproval, ChatInv, LocalsTypeOK, ApprovalIsLate, RunIsOpen, WorkerIsHonest,
                CancelledEndsSo, SettledIsFinished
  <2> QED
    BY <1>0, <2>1, <2>2 DEF ChatInv
<1>3. CASE PauseRun
  <2>1. LocalsTypeOK'
    BY <1>3 DEF PauseRun, ChatInv, LocalsTypeOK, ChatTypeOK, Active, Texts
  <2>2. /\ worker'.pc = "ended" /\ run'.status = "needs_approval"
    BY <1>3 DEF PauseRun, ChatInv, LocalsTypeOK, ChatTypeOK
  <2>3. ApprovalIsLate' /\ RunIsOpen' /\ WorkerIsHonest' /\ CancelledEndsSo' /\ SettledIsFinished'
    BY <2>2 DEF ApprovalIsLate, RunIsOpen, WorkerIsHonest, Honest, CancelledEndsSo,
                SettledIsFinished, Settled
  <2> QED
    BY <1>0, <2>1, <2>3 DEF ChatInv
<1>4. CASE FailRun
  <2>1. /\ run' \in [status : Status, text : Texts, cancelled : BOOLEAN, finished : BOOLEAN]
        /\ run'.status \in Settled /\ run'.finished /\ run'.cancelled = run.cancelled
        /\ run.cancelled => run'.status = "cancelled"
        /\ ~run.cancelled => run'.status = "failed" /\ run'.text = "error"
    BY <1>4, FinishedRun DEF FailRun, ChatInv, Settled, Texts
  <2>2. LocalsTypeOK'
    <3>1. /\ worker' = [worker EXCEPT !.pc = "write", !.text = "error",
                                      !.seen = [status |-> "failed", text |-> "none"]]
          /\ UNCHANGED <<approval, answer, lister, pauses>> /\ hasty' \in BOOLEAN
      BY <1>4 DEF FailRun, ChatInv, LocalsTypeOK, ChatTypeOK
    <3>2. [status |-> "failed", text |-> "none"] \in [status : Status, text : Texts]
      BY DEF Status, Settled, Texts
    <3>3. worker' \in WorkerLocals
      BY <3>1, <3>2 DEF ChatInv, LocalsTypeOK, Texts
    <3> QED
      BY <2>1, <3>1, <3>3 DEF ChatInv, LocalsTypeOK, ChatTypeOK, Status
  <2>3. worker'.pc = "write" /\ worker'.seen.status = "failed" /\ worker'.text = "error"
    BY <1>4 DEF FailRun, ChatInv, LocalsTypeOK
  <2>4. ApprovalIsLate' /\ RunIsOpen' /\ WorkerIsHonest' /\ CancelledEndsSo' /\ SettledIsFinished'
    BY <2>1, <2>2, <2>3 DEF ApprovalIsLate, RunIsOpen, WorkerIsHonest, Honest, CancelledEndsSo,
                            SettledIsFinished,
                            LocalsTypeOK, ChatTypeOK
  <2> QED
    BY <1>0, <2>2, <2>4 DEF ChatInv
<1> QED
  BY <1>1, <1>2, <1>3, <1>4

\* The worker writes the answer, or is lost.
LEMMA WritingKeepsInv == ASSUME ChatInv, ReadRun \/ WriteAnswer \/ LoseWorker PROVE ChatInv'
<1> USE DEF WorkerLocals
<1>0. ListersAreHonest'
  BY OthersStayHonest DEF ReadRun, WriteAnswer, LoseWorker, ChatNext, WorkerStep
<1>1. CASE ReadRun
  <2>1. SettledIsTrue'
    BY <1>1, OthersStayHonest DEF ReadRun, ChatNext, WorkerStep
  <2>2. LocalsTypeOK'
    <3>1. /\ worker' = [worker EXCEPT !.pc = "write",
                                      !.seen = [status |-> run.status, text |-> "none"]]
          /\ UNCHANGED <<run, approval, answer, lister, pauses, hasty>>
      BY <1>1 DEF ReadRun
    <3>2. [status |-> run.status, text |-> "none"] \in [status : Status, text : Texts]
      BY DEF ChatInv, LocalsTypeOK, ChatTypeOK, Status, Texts
    <3>3. worker' \in WorkerLocals
      BY <3>1, <3>2 DEF ChatInv, LocalsTypeOK
    <3> QED
      BY <3>1, <3>3 DEF ChatInv, LocalsTypeOK, ChatTypeOK
  <2>3. worker'.pc = "write" /\ worker'.seen.status = run.status /\ worker'.text = worker.text
    BY <1>1 DEF ReadRun, ChatInv, LocalsTypeOK
  <2>4. ApprovalIsLate' /\ RunIsOpen' /\ WorkerIsHonest' /\ CancelledEndsSo' /\ SettledIsFinished'
    BY <1>1, <2>3 DEF ReadRun, ChatInv, ApprovalIsLate, RunIsOpen, WorkerIsHonest, Honest,
                      CancelledEndsSo, SettledIsFinished
  <2> QED
    BY <1>0, <2>1, <2>2, <2>4 DEF ChatInv
<1>2. CASE WriteAnswer
  <2>1. LocalsTypeOK'
    BY <1>2 DEF WriteAnswer, ChatInv, LocalsTypeOK, ChatTypeOK, Status
  <2>2. SettledIsTrue'
    BY <1>2 DEF WriteAnswer, ChatInv, WorkerIsHonest, SettledIsTrue, Honest
  <2>3. ApprovalIsLate' /\ RunIsOpen' /\ WorkerIsHonest' /\ CancelledEndsSo' /\ SettledIsFinished'
    BY <1>2 DEF WriteAnswer, ChatInv, LocalsTypeOK, ApprovalIsLate, RunIsOpen, WorkerIsHonest,
                CancelledEndsSo, SettledIsFinished
  <2> QED
    BY <1>0, <2>1, <2>2, <2>3 DEF ChatInv
<1>3. CASE LoseWorker
  <2>1. SettledIsTrue'
    BY <1>3, OthersStayHonest DEF LoseWorker, ChatNext, WorkerStep
  <2>2. LocalsTypeOK'
    BY <1>3 DEF LoseWorker, ChatInv, LocalsTypeOK, ChatTypeOK
  <2>3. ApprovalIsLate' /\ RunIsOpen' /\ WorkerIsHonest' /\ CancelledEndsSo' /\ SettledIsFinished'
    BY <1>3 DEF LoseWorker, ChatInv, LocalsTypeOK, ApprovalIsLate, RunIsOpen, WorkerIsHonest,
                CancelledEndsSo, SettledIsFinished
  <2> QED
    BY <1>0, <2>1, <2>2, <2>3 DEF ChatInv
<1> QED
  BY <1>1, <1>2, <1>3

\* Somebody decides an approval or asks for a cancellation.
LEMMA MovingKeepsInv == ASSUME ChatInv, Decide \/ CancelRun PROVE ChatInv'
<1>0. ListersAreHonest' /\ SettledIsTrue'
  BY OthersStayHonest DEF Decide, CancelRun, ChatNext
<1>1. /\ run' \in [status : Status, text : Texts, cancelled : BOOLEAN, finished : BOOLEAN]
      /\ run'.cancelled /\ run'.status \in Settled => run'.status = "cancelled"
      /\ run'.status \in Settled => run'.finished
  <2>1. CASE \E o \in Outcomes : Finish(o[1], o[2])
    BY <2>1, FinishedRun DEF Outcomes, ChatInv, Settled, Texts
  <2>2. CASE run' = [run EXCEPT !.status = "needs_approval", !.text = "waiting"]
    BY <2>2 DEF ChatInv, LocalsTypeOK, ChatTypeOK, Status, Active, Settled, Texts
  <2>3. CASE CancelRun
    BY <2>3 DEF CancelRun, ChatInv, LocalsTypeOK, ChatTypeOK, Status, Active, Settled, Texts
  <2> QED
    BY <2>1, <2>2, <2>3 DEF Decide
<1>2. /\ worker' = worker /\ lister' = lister /\ answer' = answer /\ approval' \in BOOLEAN
      /\ approval' => approval
      /\ hasty' \in BOOLEAN /\ pauses' \in 0..MaxPauses
  <2>1. CASE Decide
    <3>1. approval' => approval
      BY <2>1 DEF Decide, ChatInv, LocalsTypeOK, ChatTypeOK
    <3>2. approval' \in BOOLEAN
      BY <2>1 DEF Decide, ChatInv, LocalsTypeOK, ChatTypeOK
    <3>3. pauses' \in 0..MaxPauses
      <4>1. pauses' = pauses \/ (pauses < MaxPauses /\ pauses' = pauses + 1)
        BY <2>1 DEF Decide
      <4> QED
        BY <4>1, ChatConstants DEF ChatInv, LocalsTypeOK, ChatTypeOK
    <3> QED
      BY <2>1, <3>1, <3>2, <3>3 DEF Decide
  <2>2. CASE CancelRun
    BY <2>2 DEF CancelRun, ChatInv, LocalsTypeOK, ChatTypeOK
  <2> QED
    BY <2>1, <2>2
<1>3. LocalsTypeOK'
  BY <1>1, <1>2 DEF ChatInv, LocalsTypeOK, ChatTypeOK, Status
<1>4. /\ worker.pc = "ended" => run'.status \notin Settled \/ hasty'
      /\ worker.pc \in {"start", "mark", "run"} => run'.status \notin Settled
  BY DEF Decide, CancelRun, ChatInv, ApprovalIsLate, LocalsTypeOK, ChatTypeOK, Settled
<1>5. worker.pc = "write" => Honest(worker.seen.status, worker.text)'
  <2>1. PICK w : w = worker
    OBVIOUS
  <2>2. w.pc = "write" => Honest(w.seen.status, w.text) /\ (w.seen.status \in Settled => Told)
    BY <2>1 DEF ChatInv, WorkerIsHonest, Told
  <2>3. w.pc = "write" => Honest(w.seen.status, w.text)'
    BY <2>2, HonestyLasts DEF ChatNext
  <2> QED
    BY <1>2, <2>1, <2>3 DEF Honest
<1>6. ApprovalIsLate' /\ RunIsOpen' /\ WorkerIsHonest' /\ CancelledEndsSo' /\ SettledIsFinished'
  BY <1>1, <1>2, <1>4, <1>5 DEF ChatInv, ApprovalIsLate, RunIsOpen, WorkerIsHonest, Honest,
                          CancelledEndsSo, SettledIsFinished
<1> QED
  BY <1>0, <1>3, <1>6 DEF ChatInv

\* A request lists the chats.
LEMMA ListingKeepsInv == ASSUME ChatInv, NEW s \in Listers, Sync(s) PROVE ChatInv'
<1> USE DEF ListerLocals
<1>0. /\ UNCHANGED <<run, approval, worker, hasty, pauses>> /\ ChatNext
      /\ \A r \in Listers \ {s} : lister'[r] = lister[r]
  BY DEF Sync, SelectAnswer, GetRun, CopyText, UpdateAnswer, ChatNext, ChatInv, LocalsTypeOK
<1>1. ApprovalIsLate' /\ RunIsOpen' /\ WorkerIsHonest' /\ CancelledEndsSo' /\ SettledIsFinished'
  BY <1>0 DEF ChatInv, ApprovalIsLate, RunIsOpen, WorkerIsHonest, Honest, CancelledEndsSo,
              SettledIsFinished
<1>2. lister[s] \in ListerLocals
  BY DEF ChatInv, LocalsTypeOK
<1>3. /\ lister' \in [Listers -> ListerLocals]
      /\ answer' \in [status : Status, text : Texts]
  <2> USE DEF ChatInv, LocalsTypeOK, ChatTypeOK, Status
  <2>1. CASE SelectAnswer(s)
    BY <1>2, <2>1 DEF SelectAnswer
  <2>2. CASE GetRun(s)
    BY <1>2, <2>2 DEF GetRun
  <2>3. CASE CopyText(s)
    BY <1>2, <2>3 DEF CopyText
  <2>4. CASE UpdateAnswer(s)
    BY <1>2, <2>4 DEF UpdateAnswer, Out, Rows, Active, Texts
  <2> QED
    BY <2>1, <2>2, <2>3, <2>4 DEF Sync
<1>4. LocalsTypeOK'
  BY <1>0, <1>3 DEF ChatInv, LocalsTypeOK, ChatTypeOK, Status
<1>5. /\ lister'[s].pc = "copy" => Honest(lister'[s].seen.status, lister'[s].seen.text)
      /\ lister'[s].pc = "update" => Honest(lister'[s].seen.status, lister'[s].text)
  <2> USE DEF ChatInv, LocalsTypeOK
  <2>1. CASE SelectAnswer(s)
    BY <1>2, <2>1 DEF SelectAnswer
  <2>2. CASE GetRun(s)
    BY <1>2, <2>2 DEF GetRun, Honest
  <2>3. CASE CopyText(s)
    BY <1>2, <2>3 DEF CopyText, ListersAreHonest, Honest
  <2>4. CASE UpdateAnswer(s)
    BY <1>2, <2>4 DEF UpdateAnswer, Out
  <2> QED
    BY <2>1, <2>2, <2>3, <2>4 DEF Sync
<1>6. ListersAreHonest'
  BY <1>0, <1>5 DEF ChatInv, ListersAreHonest, Honest
<1>7. SettledIsTrue'
  <2>1. CASE UpdateAnswer(s)
    BY <1>0, <1>2, <2>1 DEF UpdateAnswer, ChatInv, ListersAreHonest, Honest, SettledIsTrue
  <2>2. CASE SelectAnswer(s) \/ GetRun(s) \/ CopyText(s)
    BY <1>0, <2>2, OthersStayHonest DEF SelectAnswer, GetRun, CopyText
  <2> QED
    BY <2>1, <2>2 DEF Sync
<1> QED
  BY <1>1, <1>4, <1>6, <1>7 DEF ChatInv

LEMMA NextKeepsInv == ASSUME ChatInv, [ChatNext]_chatVars PROVE ChatInv'
<1>1. CASE WorkerStep
  BY <1>1, MarkingKeepsInv, EndingKeepsInv, WritingKeepsInv DEF WorkerStep
<1>2. CASE Decide \/ CancelRun
  BY <1>2, MovingKeepsInv
<1>3. CASE \E s \in Listers : Sync(s)
  BY <1>3, ListingKeepsInv
<1>4. CASE UNCHANGED chatVars
  BY <1>4 DEF chatVars, ChatInv, LocalsTypeOK, ChatTypeOK, ApprovalIsLate, RunIsOpen,
              WorkerIsHonest, ListersAreHonest, Honest, CancelledEndsSo, SettledIsFinished,
              SettledIsTrue
<1> QED
  BY <1>1, <1>2, <1>3, <1>4 DEF ChatNext

-----------------------------------------------------------------------------
\* The rows of run and answer and the locals hold what they may.
THEOREM ChatTypeCorrect == ChatSpec => []ChatTypeOK
<1>1. ChatInv => ChatTypeOK
  BY DEF ChatInv, LocalsTypeOK
<1> QED
  BY <1>1, InitInv, NextKeepsInv, PTL DEF ChatSpec

\* An answer that is settled, and so never looked at again, has the status and the text
\* of its run, however many listings overlap and however late they write (the worker in
\* api.py, sync_run_messages in desktop_chats.py), with the exceptions that the
\* property names.
THEOREM SettledAnswersAreTrue == ChatSpec => []SettledIsTrue
<1>1. ChatInv => SettledIsTrue
  BY DEF ChatInv
<1> QED
  BY <1>1, InitInv, NextKeepsInv, PTL DEF ChatSpec

-----------------------------------------------------------------------------
(***************************************************************************)
(* ChannelListener: the inductive invariant.                               *)
(***************************************************************************)

PCs == {"idle", "poll", "handle", "run", "merge", "merged", "merging", "save", "saving",
        "absent"}
Slots == [pc : PCs, offset : 0..arrived + 1, next : 1..arrived + 1, last : 0..arrived,
          copy : 0..arrived + 1]

\* All updates below n are handled to the end.
OffsetsSettle(n) == \A i \in Nat \ {0} : i < n => i \in finished

\* What a request knows of offsets is settled, and a tick runs the agent within its batch.
Agrees(c) == /\ OffsetsSettle(caller[c].offset) /\ OffsetsSettle(caller[c].next) /\ OffsetsSettle(caller[c].copy)
             /\ (c \in Ticks /\ caller[c].pc = "run" => caller[c].next <= caller[c].last)
CallersAgree == \A c \in Callers : Agrees(c)

\* The agent has started once for the identifiers that are recorded.
StartsAreRecorded == \A k \in Keys : starts[k] = IF k \in keys THEN 1 ELSE 0

\* What is said of the rest than the locals.
ColumnsFit ==
    /\ arrived \in 0..MaxUpdates /\ confirmed \in 0..arrived
    /\ keyOf \in [Updates -> Keys \cup {Silent}]
    /\ file \in 0..arrived + 1 \cup {Torn} /\ newest \in 0..arrived + 1
    /\ keys \subseteq Keys
    /\ begun \subseteq 1..arrived /\ finished \subseteq 1..arrived
    /\ starts \in [Keys -> Nat]
    /\ disturbed \in BOOLEAN /\ listenerFaults \in 0..MaxFaults
ColumnsAgree == StartsAreRecorded /\ OffsetsSettle(OffsetIn(file)) /\ OffsetsSettle(confirmed + 1)

ListenerInv == /\ ColumnsFit /\ caller \in [Callers -> Slots]
               /\ ColumnsAgree /\ CallersAgree

-----------------------------------------------------------------------------
(***************************************************************************)
(* Types.                                                                  *)
(***************************************************************************)

LEMMA Numbers ==
    ASSUME ListenerInv
    PROVE  /\ arrived \in Nat /\ arrived <= MaxUpdates /\ MaxUpdates \in Nat
           /\ confirmed \in Nat /\ confirmed <= arrived
           /\ OffsetIn(file) \in 0..arrived + 1 /\ newest \in Nat /\ newest <= arrived + 1
BY ListenerConstants DEF ListenerConstants, ListenerInv, ColumnsFit, OffsetIn

LEMMA Local ==
    ASSUME ListenerInv, NEW c \in Callers
    PROVE  /\ caller[c] \in Slots /\ Agrees(c)
           /\ caller[c].pc \in PCs
           /\ caller[c].offset \in Nat /\ caller[c].offset <= arrived + 1
           /\ caller[c].next \in Nat /\ caller[c].next > 0 /\ caller[c].next <= arrived + 1
           /\ caller[c].last \in Nat /\ caller[c].last <= arrived
           /\ caller[c].copy \in Nat /\ caller[c].copy <= arrived + 1
<1>1. caller[c] \in Slots /\ Agrees(c)
  BY DEF ListenerInv, CallersAgree
<1> QED
  BY <1>1, Numbers DEF Slots

LEMMA RestFits ==
    ASSUME ListenerInv
    PROVE  /\ Rest \in Slots
           /\ Rest.pc = "idle" /\ Rest.offset = 0 /\ Rest.next = 1 /\ Rest.last = 0 /\ Rest.copy = 0
<1>1. Rest.pc = "idle" /\ Rest.offset = 0 /\ Rest.next = 1 /\ Rest.last = 0 /\ Rest.copy = 0
  BY DEF Rest
<1>2. Rest \in Slots
  BY Numbers DEF Rest, Slots, PCs
<1> QED
  BY <1>1, <1>2

\* What is settled stays so.
LEMMA StaysSettled ==
    ASSUME finished \subseteq finished', NEW n, OffsetsSettle(n)
    PROVE  OffsetsSettle(n)'
BY DEF OffsetsSettle

LEMMA FirstIsSettled == OffsetsSettle(0) /\ OffsetsSettle(1)
BY DEF OffsetsSettle

\* A step of one request.
LEMMA RequestStep ==
    ASSUME ListenerInv, NEW c \in Callers, arrived' = arrived, finished \subseteq finished',
           caller' \in [Callers -> Slots], \A d \in Callers : d # c => caller'[d] = caller[d],
           Agrees(c)', ColumnsFit', ColumnsAgree'
    PROVE  ListenerInv'
<1>1. ASSUME NEW d \in Callers, d # c PROVE Agrees(d)'
  <2>1. caller'[d] = caller[d] /\ Agrees(d)
    BY <1>1, Local
  <2> QED
    BY <2>1, StaysSettled DEF Agrees, OffsetsSettle
<1>2. CallersAgree'
  BY <1>1 DEF CallersAgree
<1> QED
  BY <1>2 DEF ListenerInv, Slots

LEMMA ListenerInitInv == ListenerInit => ListenerInv
<1> SUFFICES ASSUME ListenerInit PROVE ListenerInv
  OBVIOUS
<1> USE ListenerConstants DEF ListenerConstants, ListenerInit
<1>1. PICK group \in Groups : caller = [c \in Callers |-> IF c \in group THEN Rest ELSE Absent]
  OBVIOUS
<1>2. Rest \in Slots /\ Absent \in Slots
  BY DEF Rest, Absent, Slots, PCs
<1>3. caller \in [Callers -> Slots]
  BY <1>1, <1>2
<1>4. CallersAgree
  <2> SUFFICES ASSUME NEW c \in Callers PROVE Agrees(c)
    BY DEF CallersAgree
  <2>1. /\ caller[c].offset = 0 /\ caller[c].next = 1 /\ caller[c].copy = 0
        /\ caller[c].pc # "run"
    BY <1>1 DEF Rest, Absent
  <2> QED
    BY <2>1, FirstIsSettled DEF Agrees
<1>5. ColumnsFit
  <2>1. keyOf \in [Updates -> Keys \cup {Silent}] /\ starts \in [Keys -> Nat]
    OBVIOUS
  <2>2. arrived \in 0..MaxUpdates /\ confirmed \in 0..arrived /\ newest \in 0..arrived + 1
        /\ file \in 0..arrived + 1 \cup {Torn} /\ listenerFaults \in 0..MaxFaults
    OBVIOUS
  <2>3. /\ keys \subseteq Keys /\ begun \subseteq 1..arrived /\ finished \subseteq 1..arrived
        /\ disturbed \in BOOLEAN
    OBVIOUS
  <2> QED
    BY ONLY <2>1, <2>2, <2>3 DEF ColumnsFit
<1>6. ColumnsAgree
  <2>1. StartsAreRecorded
    BY DEF StartsAreRecorded
  <2>2. OffsetIn(file) = 0 /\ confirmed + 1 = 1
    BY DEF OffsetIn
  <2> QED
    BY <2>1, <2>2, FirstIsSettled DEF ColumnsAgree
<1> QED
  BY <1>3, <1>4, <1>5, <1>6 DEF ListenerInv

-----------------------------------------------------------------------------
(***************************************************************************)
(* One lemma for each kind of step.                                        *)
(***************************************************************************)

LEMMA ArriveInv ==
    ASSUME ListenerInv, Arrive
    PROVE  ListenerInv'
<1> USE ListenerConstants DEF ListenerConstants
<1>1. arrived \in Nat /\ arrived' = arrived + 1 /\ arrived' <= MaxUpdates /\ MaxUpdates \in Nat
  BY Numbers DEF Arrive
<1>2. PICK k \in Keys \cup {Silent} : keyOf' = [keyOf EXCEPT ![arrived + 1] = k]
  BY DEF Arrive
<1>3. /\ UNCHANGED <<confirmed, file, keys, caller>>
      /\ UNCHANGED <<begun, finished, starts, newest, disturbed, listenerFaults>>
  BY DEF Arrive, listenerHistory
<1>4. Slots \subseteq Slots'
  BY <1>1 DEF Slots
<1>5. ColumnsFit'
  <2>1. keyOf' \in [Updates -> Keys \cup {Silent}]
    BY <1>2 DEF ListenerInv, ColumnsFit
  <2> QED
    BY <1>1, <1>3, <2>1 DEF ListenerInv, ColumnsFit
<1>6. ColumnsAgree' /\ CallersAgree'
  BY <1>3 DEF ListenerInv, ColumnsAgree, StartsAreRecorded, OffsetsSettle, OffsetIn, CallersAgree, Agrees
<1> QED
  BY <1>3, <1>4, <1>5, <1>6 DEF ListenerInv

\* What the request c does to its locals alone, with or without a mark of what happened.
LEMMA ColumnsStay ==
    ASSUME ListenerInv, UNCHANGED <<arrived, keyOf, confirmed, file, keys>>,
           UNCHANGED <<begun, finished, starts, newest>>,
           disturbed' \in BOOLEAN, listenerFaults' \in 0..MaxFaults
    PROVE  ColumnsFit' /\ ColumnsAgree' /\ arrived' = arrived /\ finished \subseteq finished'
BY DEF ListenerInv, ColumnsFit, ColumnsAgree, StartsAreRecorded, OffsetsSettle, OffsetIn

\* A request begins, or begins anew.
LEMMA RestInv ==
    ASSUME ListenerInv, NEW c \in Callers,
           UNCHANGED <<arrived, keyOf, confirmed, file, keys>>,
           UNCHANGED <<begun, finished, starts, newest>>,
           disturbed' \in BOOLEAN, listenerFaults' \in 0..MaxFaults,
           NEW j \in Slots, caller' = [caller EXCEPT ![c] = j],
           j.pc # "run", j.offset \in {0, OffsetIn(file)}, j.next = 1, j.copy = 0
    PROVE  ListenerInv'
<1>1. caller' \in [Callers -> Slots] /\ caller'[c] = j
      /\ \A d \in Callers : d # c => caller'[d] = caller[d]
  BY DEF ListenerInv
<1>2. OffsetsSettle(0)' /\ OffsetsSettle(1)' /\ OffsetsSettle(OffsetIn(file))
  BY DEF ListenerInv, ColumnsAgree, OffsetsSettle
<1>3. OffsetsSettle(j.offset)'
  BY <1>2 DEF OffsetsSettle
<1>4. Agrees(c)'
  <2>1. caller'[c].pc # "run" /\ caller'[c].offset = j.offset /\ caller'[c].next = 1
        /\ caller'[c].copy = 0
    BY <1>1
  <2> QED
    BY <1>2, <1>3, <2>1 DEF Agrees
<1> QED
  BY <1>1, <1>4, ColumnsStay, RequestStep

LEMMA LoadInv ==
    ASSUME ListenerInv, NEW t \in Ticks, LoadState(t) \/ LoadOther(t)
    PROVE  ListenerInv'
<1>1. t \in Callers
  BY DEF Callers
<1>2. PICK n : n = OffsetIn(file)
  OBVIOUS
<1>3. PICK p \in {"poll", "save"} : Load(t, p)
  BY DEF LoadState, LoadOther
<1>4. PICK j : j = [Rest EXCEPT !.pc = p, !.offset = n]
  OBVIOUS
<1>5. caller' = [caller EXCEPT ![t] = j]
  BY <1>2, <1>3, <1>4 DEF Load
<1>6. j \in Slots
  <2>1. n \in 0..arrived + 1 /\ 1 \in 1..arrived + 1 /\ 0 \in 0..arrived /\ 0 \in 0..arrived + 1
    BY <1>2, Numbers
  <2> QED
    BY <1>4, <2>1 DEF Slots, PCs, Rest
<1>7. disturbed' \in BOOLEAN
  BY <1>3, Zenon DEF Load
<1>8. listenerFaults' \in 0..MaxFaults
  BY <1>3 DEF Load, ListenerInv, ColumnsFit
<1>9. j.pc # "run" /\ j.offset \in {0, OffsetIn(file)} /\ j.next = 1 /\ j.copy = 0
  BY <1>2, <1>4 DEF Rest
<1> QED
  BY <1>1, <1>3, <1>5, <1>6, <1>7, <1>8, <1>9, RestInv DEF Load

LEMMA GiveUpInv ==
    ASSUME ListenerInv, NEW c \in Callers, Break(c) \/ RefuseUpdate(c)
    PROVE  ListenerInv'
<1>1. caller' = [caller EXCEPT ![c] = Rest]
  BY DEF Break, RefuseUpdate
<1>2. disturbed' \in BOOLEAN
  BY Zenon DEF Break, RefuseUpdate
<1>3. listenerFaults' \in 0..MaxFaults
  BY ListenerConstants DEF ListenerConstants, Break, RefuseUpdate, ListenerInv, ColumnsFit
<1> QED
  BY <1>1, <1>2, <1>3, RestFits, RestInv DEF Break, RefuseUpdate

\* Telegram forgets no more than the tick knows to be handled, and sends what follows.
LEMMA PollInv ==
    ASSUME ListenerInv, NEW c \in Ticks, Poll(c) \/ LosePoll(c)
    PROVE  ListenerInv'
<1> USE ListenerConstants DEF ListenerConstants
<1>0. c \in Callers
  BY DEF Callers
<1>1. /\ UNCHANGED <<arrived, keyOf, file, keys>>
      /\ UNCHANGED <<begun, finished, starts, newest, disturbed>>
      /\ confirmed' = Acknowledged(c)
  BY DEF Poll, LosePoll, listenerHistory
<1>2. listenerFaults' \in 0..MaxFaults
  BY DEF Poll, LosePoll, listenerHistory, ListenerInv, ColumnsFit
<1>3. confirmed' \in 0..arrived /\ OffsetsSettle(confirmed + 1)'
  <2>1. CASE caller[c].offset > confirmed + 1
    <3>1. confirmed' = caller[c].offset - 1
      BY <1>1, <2>1 DEF Acknowledged
    <3>2. confirmed' \in 0..arrived /\ confirmed' + 1 = caller[c].offset
      BY <1>0, <2>1, <3>1, Local, Numbers
    <3>3. OffsetsSettle(caller[c].offset)
      BY <1>0, Local DEF Agrees
    <3> QED
      BY <1>1, <3>2, <3>3 DEF OffsetsSettle
  <2>2. CASE ~(caller[c].offset > confirmed + 1)
    <3>1. confirmed' = confirmed
      BY <1>1, <2>2 DEF Acknowledged
    <3> QED
      BY <1>1, <3>1, Numbers DEF ListenerInv, ColumnsAgree, OffsetsSettle
  <2> QED
    BY <2>1, <2>2
<1>4. ColumnsFit' /\ ColumnsAgree' /\ arrived' = arrived /\ finished \subseteq finished'
  BY <1>1, <1>2, <1>3 DEF ListenerInv, ColumnsFit, ColumnsAgree, StartsAreRecorded, OffsetsSettle, OffsetIn
<1>5. caller \in [Callers -> Slots]
  BY DEF ListenerInv
<1>6. CASE Poll(c)
  <2>1. PICK n, k : k = confirmed' + 1 /\ n = IF arrived = confirmed' THEN 0
                                              ELSE IF arrived < confirmed' + Limit THEN arrived
                                              ELSE confirmed' + Limit
    OBVIOUS
  <2>2. n \in 0..arrived /\ k \in 1..arrived + 1
    <3>1. PICK m : m = confirmed'
      OBVIOUS
    <3>2. m \in Nat /\ m <= arrived /\ Limit \in Nat /\ arrived \in Nat
      BY <1>3, <3>1, Numbers
    <3>3. n = IF arrived = m THEN 0 ELSE IF arrived < m + Limit THEN arrived ELSE m + Limit
      BY <2>1, <3>1
    <3>4. n \in 0..arrived
      BY <3>2, <3>3
    <3>5. k = m + 1
      BY <2>1, <3>1
    <3>6. k \in 1..arrived + 1
      BY <3>2, <3>5
    <3> QED
      BY <3>4, <3>6
  <2>3. caller' = [caller EXCEPT ![c].pc = "handle", ![c].next = k, ![c].last = n]
    BY <1>6, <2>1 DEF Poll
  <2>4. caller' \in [Callers -> Slots]
    <3> DEFINE f == [caller EXCEPT ![c].pc = "handle"]
               g == [f EXCEPT ![c].next = k]
    <3>1. f \in [Callers -> Slots]
      BY ONLY <1>0, <1>5 DEF Slots, PCs
    <3>2. g \in [Callers -> Slots]
      <4> HIDE DEF f
      <4> QED
        BY ONLY <1>0, <2>2, <3>1 DEF Slots
    <3>3. [g EXCEPT ![c].last = n] \in [Callers -> Slots]
      <4> HIDE DEF g
      <4> QED
        BY ONLY <1>0, <2>2, <3>2 DEF Slots
    <3> QED
      BY ONLY <2>3, <3>3
  <2>5. /\ caller'[c].pc = "handle" /\ caller'[c].next = confirmed' + 1
        /\ caller'[c].offset = caller[c].offset /\ caller'[c].copy = caller[c].copy
        /\ \A d \in Callers : d # c => caller'[d] = caller[d]
    BY <1>0, <1>5, <2>1, <2>3 DEF Slots
  <2>6. Agrees(c)'
    BY <1>0, <1>1, <1>3, <2>5, Local DEF Agrees, OffsetsSettle
  <2> QED
    BY <1>0, <1>4, <2>4, <2>5, <2>6, RequestStep
<1>7. CASE LosePoll(c)
  <2>1. caller' = [caller EXCEPT ![c] = Rest]
    BY <1>7 DEF LosePoll
  <2>2. caller' \in [Callers -> Slots] /\ caller'[c] = Rest
        /\ \A d \in Callers : d # c => caller'[d] = caller[d]
    BY <1>0, <1>5, <2>1, RestFits
  <2>3. Agrees(c)'
    BY <2>2, RestFits DEF Agrees, OffsetsSettle
  <2> QED
    BY <1>0, <1>4, <2>2, <2>3, RequestStep
<1> QED
  BY <1>6, <1>7

\* A tick is done with an update.
LEMMA HandledInv ==
    ASSUME ListenerInv, NEW c \in Ticks, SkipUpdate(c) \/ RunAgent(c)
    PROVE  ListenerInv'
<1>0. c \in Callers
  BY DEF Callers
<1>1. /\ UNCHANGED <<arrived, keyOf, confirmed, file, keys>>
      /\ UNCHANGED <<begun, starts, newest, disturbed, listenerFaults>>
      /\ finished' = finished \cup {caller[c].next}
  BY DEF SkipUpdate, RunAgent
<1>2. caller[c].next \in 1..arrived /\ caller[c].next + 1 \in 1..arrived + 1
  <2>1. caller[c].next <= caller[c].last
    BY <1>0, Local DEF SkipUpdate, RunAgent, AtUpdate, Agrees
  <2> QED
    BY <1>0, <2>1, Local, Numbers
<1>3. PICK n : n = caller[c].next + 1
  OBVIOUS
<1>4. caller \in [Callers -> Slots]
  BY DEF ListenerInv
<1>5. \/ caller' = [caller EXCEPT ![c].next = n] /\ caller[c].pc # "run"
      \/ caller' = [caller EXCEPT ![c].pc = "handle", ![c].next = n]
  BY <1>3 DEF SkipUpdate, RunAgent, AtUpdate
<1>6. caller' \in [Callers -> Slots]
  <2>1. n \in 1..arrived + 1
    BY <1>2, <1>3
  <2>2. CASE caller' = [caller EXCEPT ![c].next = n]
    BY ONLY <1>0, <1>4, <2>1, <2>2 DEF Slots
  <2>3. CASE caller' = [caller EXCEPT ![c].pc = "handle", ![c].next = n]
    <3>1. "handle" \in PCs
      BY DEF PCs
    <3> QED
      BY ONLY <1>0, <1>4, <2>1, <2>3, <3>1 DEF Slots
  <2> QED
    BY <1>5, <2>2, <2>3
<1>7. /\ caller'[c].pc # "run" /\ caller'[c].next = n
      /\ caller'[c].offset = caller[c].offset /\ caller'[c].copy = caller[c].copy
      /\ \A d \in Callers : d # c => caller'[d] = caller[d]
  BY <1>0, <1>4, <1>5 DEF Slots
<1>8. OffsetsSettle(n)'
  <2>1. OffsetsSettle(caller[c].next) /\ caller[c].next \in Nat
    BY <1>0, Local DEF Agrees
  <2> QED
    BY <1>1, <1>3, <2>1 DEF OffsetsSettle
<1>9. Agrees(c)'
  BY <1>0, <1>1, <1>7, <1>8, Local DEF Agrees, OffsetsSettle
<1>10. ColumnsFit' /\ ColumnsAgree'
  BY <1>1, <1>2 DEF ListenerInv, ColumnsFit, ColumnsAgree, StartsAreRecorded, OffsetsSettle, OffsetIn
<1> QED
  BY <1>0, <1>1, <1>6, <1>7, <1>9, <1>10, RequestStep

\* A message is recorded, once.
LEMMA RecordFits ==
    ASSUME ListenerInv, NEW k \in Keys, Record(k)
    PROVE  keys' \subseteq Keys /\ starts' \in [Keys -> Nat] /\ StartsAreRecorded'
BY DEF ListenerInv, ColumnsFit, ColumnsAgree, StartsAreRecorded, Record

LEMMA StartInv ==
    ASSUME ListenerInv, NEW c \in Ticks, StartUpdate(c)
    PROVE  ListenerInv'
<1>0. c \in Callers
  BY DEF Callers
<1>1. /\ UNCHANGED <<arrived, keyOf, confirmed, file, finished, newest, disturbed, listenerFaults>>
      /\ begun' = begun \cup {caller[c].next} /\ caller' = [caller EXCEPT ![c].pc = "run"]
      /\ caller[c].next <= caller[c].last
  BY DEF StartUpdate, AtUpdate
<1>2. caller[c].next \in 1..arrived /\ caller[c].next \in Updates
  BY <1>0, <1>1, Local, Numbers DEF Updates
<1>3. keyOf[caller[c].next] \in Keys
  BY <1>2 DEF StartUpdate, ListenerInv, ColumnsFit
<1>4. keys' \subseteq Keys /\ starts' \in [Keys -> Nat] /\ StartsAreRecorded'
  BY <1>3, RecordFits DEF StartUpdate
<1>5. ColumnsFit' /\ ColumnsAgree'
  BY <1>1, <1>2, <1>4 DEF ListenerInv, ColumnsFit, ColumnsAgree, OffsetsSettle, OffsetIn
<1>6. caller \in [Callers -> Slots]
  BY DEF ListenerInv
<1>7. caller' \in [Callers -> Slots]
  BY ONLY <1>0, <1>1, <1>6 DEF Slots, PCs
<1>8. /\ caller'[c].next = caller[c].next /\ caller'[c].last = caller[c].last
      /\ caller'[c].offset = caller[c].offset /\ caller'[c].copy = caller[c].copy
      /\ \A d \in Callers : d # c => caller'[d] = caller[d]
  BY <1>0, <1>1, <1>6 DEF Slots
<1>9. Agrees(c)'
  BY <1>0, <1>1, <1>8, Local DEF Agrees, OffsetsSettle
<1> QED
  BY <1>0, <1>1, <1>5, <1>7, <1>8, <1>9, RequestStep

LEMMA HookInv ==
    ASSUME ListenerInv, NEW c \in Hooks, ReceiveHook(c) \/ RunAgent(c)
    PROVE  ListenerInv'
<1> USE ListenerConstants DEF ListenerConstants
<1>0. c \in Callers /\ c \notin Ticks
  BY DEF Callers
<1>1. /\ UNCHANGED <<arrived, keyOf, confirmed, file, begun, finished, newest, disturbed,
                     listenerFaults>>
  BY <1>0 DEF ReceiveHook, RunAgent
<1>2. keys' \subseteq Keys /\ starts' \in [Keys -> Nat] /\ StartsAreRecorded'
  <2>1. CASE UNCHANGED <<keys, starts>>
    BY <2>1 DEF ListenerInv, ColumnsFit, ColumnsAgree, StartsAreRecorded
  <2>2. CASE \E k \in HookKeys : Record(k)
    BY <2>2, RecordFits
  <2> QED
    BY <2>1, <2>2 DEF ReceiveHook, RunAgent
<1>3. ColumnsFit' /\ ColumnsAgree'
  BY <1>1, <1>2 DEF ListenerInv, ColumnsFit, ColumnsAgree, OffsetsSettle, OffsetIn
<1>4. PICK p \in {"run", "merge"} : caller' = [caller EXCEPT ![c].pc = p]
  BY <1>0 DEF ReceiveHook, RunAgent
<1>5. caller \in [Callers -> Slots]
  BY DEF ListenerInv
<1>6. caller' \in [Callers -> Slots]
  BY ONLY <1>0, <1>4, <1>5 DEF Slots, PCs
<1>7. /\ caller'[c].next = caller[c].next
      /\ caller'[c].offset = caller[c].offset /\ caller'[c].copy = caller[c].copy
      /\ \A d \in Callers : d # c => caller'[d] = caller[d]
  BY <1>0, <1>4, <1>5 DEF Slots
<1>8. Agrees(c)'
  BY <1>0, <1>1, <1>7, Local DEF Agrees, OffsetsSettle
<1> QED
  BY <1>0, <1>1, <1>3, <1>6, <1>7, <1>8, RequestStep

\* The offset moves past the last update when the tick has come past it.
LEMMA PassBatchInv ==
    ASSUME ListenerInv, NEW c \in Ticks, PassBatch(c)
    PROVE  ListenerInv'
<1>0. c \in Callers
  BY DEF Callers
<1>1. PICK n : n = IF caller[c].last >= caller[c].offset /\ caller[c].last > 0
                     THEN caller[c].last + 1 ELSE caller[c].offset
  OBVIOUS
<1>2. n \in 0..arrived + 1 /\ (n = caller[c].offset \/ n <= caller[c].next)
  BY <1>0, <1>1, Local, Numbers DEF PassBatch
<1>3. OffsetsSettle(n)
  <2>1. OffsetsSettle(caller[c].offset) /\ OffsetsSettle(caller[c].next) /\ caller[c].next \in Nat /\ n \in Nat
    BY <1>0, <1>2, Local, Numbers DEF Agrees
  <2> QED
    BY <1>2, <2>1 DEF OffsetsSettle
<1>4. caller' = [caller EXCEPT ![c].pc = "merge", ![c].offset = n]
  BY <1>1 DEF PassBatch
<1>5. caller \in [Callers -> Slots]
  BY DEF ListenerInv
<1>6. caller' \in [Callers -> Slots]
  <2>1. "merge" \in PCs
    BY DEF PCs
  <2> QED
    BY ONLY <1>0, <1>2, <1>4, <1>5, <2>1 DEF Slots
<1>7. /\ caller'[c].pc = "merge" /\ caller'[c].next = caller[c].next
      /\ caller'[c].offset = n /\ caller'[c].copy = caller[c].copy
      /\ \A d \in Callers : d # c => caller'[d] = caller[d]
  BY <1>0, <1>4, <1>5 DEF Slots
<1>8. ColumnsFit' /\ ColumnsAgree' /\ arrived' = arrived /\ finished \subseteq finished'
  BY ColumnsStay DEF PassBatch, listenerHistory, ListenerInv, ColumnsFit
<1>9. Agrees(c)'
  BY <1>0, <1>3, <1>7, Local DEF PassBatch, listenerHistory, Agrees, OffsetsSettle
<1> QED
  BY <1>0, <1>6, <1>7, <1>8, <1>9, RequestStep

LEMMA MergeInv ==
    ASSUME ListenerInv, NEW c \in Callers, MergeEvents(c)
    PROVE  ListenerInv'
<1>1. PICK n : n = OffsetIn(file)
  OBVIOUS
<1>2. n \in 0..arrived + 1 /\ OffsetsSettle(n)
  BY <1>1, Numbers DEF ListenerInv, ColumnsAgree
<1>3. caller' = [caller EXCEPT ![c].pc = "merged", ![c].copy = n]
  BY <1>1 DEF MergeEvents
<1>4. caller \in [Callers -> Slots]
  BY DEF ListenerInv
<1>5. caller' \in [Callers -> Slots]
  <2>1. "merged" \in PCs
    BY DEF PCs
  <2> QED
    BY ONLY <1>2, <1>3, <1>4, <2>1 DEF Slots
<1>6. /\ caller'[c].pc = "merged" /\ caller'[c].next = caller[c].next
      /\ caller'[c].offset = caller[c].offset /\ caller'[c].copy = n
      /\ \A d \in Callers : d # c => caller'[d] = caller[d]
  BY <1>3, <1>4 DEF Slots
<1>7. disturbed' \in BOOLEAN
  BY Zenon DEF MergeEvents
<1>8. ColumnsFit' /\ ColumnsAgree' /\ arrived' = arrived /\ finished \subseteq finished'
  BY <1>7, ColumnsStay DEF MergeEvents, ListenerInv, ColumnsFit
<1>9. Agrees(c)'
  BY <1>2, <1>6, Local DEF MergeEvents, Agrees, OffsetsSettle
<1> QED
  BY <1>5, <1>6, <1>8, <1>9, RequestStep

LEMMA OpenInv ==
    ASSUME ListenerInv, NEW c \in Callers, OpenState(c)
    PROVE  ListenerInv'
<1>1. PICK p \in {"merging", "saving"} : caller' = [caller EXCEPT ![c].pc = p]
  BY DEF OpenState
<1>2. caller \in [Callers -> Slots]
  BY DEF ListenerInv
<1>3. caller' \in [Callers -> Slots]
  BY ONLY <1>1, <1>2 DEF Slots, PCs
<1>4. /\ caller'[c].pc = p /\ caller'[c].next = caller[c].next
      /\ caller'[c].offset = caller[c].offset /\ caller'[c].copy = caller[c].copy
      /\ \A d \in Callers : d # c => caller'[d] = caller[d]
  BY <1>1, <1>2 DEF Slots
<1>5. /\ UNCHANGED <<arrived, keyOf, confirmed, keys>>
      /\ UNCHANGED <<begun, finished, starts, newest, disturbed, listenerFaults>>
      /\ file' = Torn
  BY DEF OpenState, listenerHistory
<1>6. ColumnsFit' /\ ColumnsAgree'
  BY <1>5 DEF ListenerInv, ColumnsFit, ColumnsAgree, StartsAreRecorded, OffsetsSettle, OffsetIn
<1>7. Agrees(c)'
  BY <1>4, <1>5, Local DEF Agrees, OffsetsSettle
<1> QED
  BY <1>3, <1>4, <1>5, <1>6, <1>7, RequestStep

\* Each request saves an offset that it knows to be settled.
LEMMA WriteInv ==
    ASSUME ListenerInv, NEW c \in Callers, WriteState(c)
    PROVE  ListenerInv'
<1>1. PICK n \in {caller[c].copy, caller[c].offset} : WriteOffset(n)
  BY DEF WriteState
<1>2. n \in Nat /\ n <= arrived + 1 /\ OffsetsSettle(n)
  BY <1>1, Local DEF Agrees
<1>3. PICK p : p = "save" /\ (\/ caller' = [caller EXCEPT ![c].pc = p]
                              \/ caller' = [caller EXCEPT ![c] = Rest])
  BY DEF WriteState, ListenerInv
<1>4. caller \in [Callers -> Slots]
  BY DEF ListenerInv
<1>5. caller' \in [Callers -> Slots]
  <2>1. CASE caller' = [caller EXCEPT ![c].pc = p]
    BY ONLY <1>3, <1>4, <2>1 DEF Slots, PCs
  <2>2. CASE caller' = [caller EXCEPT ![c] = Rest]
    BY <1>4, <2>2, RestFits
  <2> QED
    BY <1>3, <2>1, <2>2
<1>6. /\ UNCHANGED <<arrived, keyOf, confirmed, keys, begun, finished, starts, listenerFaults>>
      /\ file' \in {n, Torn}
  BY <1>1 DEF WriteState, WriteOffset
<1>7. disturbed' \in BOOLEAN
  BY <1>1, Zenon DEF WriteOffset
<1>8. newest' \in 0..arrived + 1
  BY <1>1, <1>2, Numbers DEF WriteOffset
<1>9. ColumnsFit'
  <2>1. file' \in 0..arrived + 1 \cup {Torn}
    BY <1>2, <1>6, Numbers
  <2> QED
    BY <1>6, <1>7, <1>8, <2>1 DEF ListenerInv, ColumnsFit
<1>10. ColumnsAgree'
  <2>1. (OffsetsSettle(OffsetIn(file)))'
    BY <1>2, <1>6 DEF OffsetsSettle, OffsetIn
  <2> QED
    BY <1>6, <2>1 DEF ListenerInv, ColumnsAgree, StartsAreRecorded, OffsetsSettle
<1>11. Agrees(c)'
  <2>1. CASE caller' = [caller EXCEPT ![c].pc = p]
    <3>1. /\ caller'[c].pc # "run" /\ caller'[c].next = caller[c].next
          /\ caller'[c].offset = caller[c].offset /\ caller'[c].copy = caller[c].copy
      BY <1>3, <1>4, <2>1 DEF Slots
    <3> QED
      BY <1>6, <3>1, Local DEF Agrees, OffsetsSettle
  <2>2. CASE caller' = [caller EXCEPT ![c] = Rest]
    <3>1. caller'[c] = Rest
      BY <1>4, <2>2
    <3> QED
      BY <3>1, RestFits DEF Agrees, OffsetsSettle
  <2> QED
    BY <1>3, <2>1, <2>2
<1>12. \A d \in Callers : d # c => caller'[d] = caller[d]
  BY <1>3, <1>4
<1> QED
  BY <1>5, <1>6, <1>9, <1>10, <1>11, <1>12, RequestStep

-----------------------------------------------------------------------------
(***************************************************************************)
(* The theorems.                                                           *)
(***************************************************************************)

LEMMA ListenerStepInv == ListenerInv /\ [ListenerNext]_listenerVars => ListenerInv'
<1> SUFFICES ASSUME ListenerInv, [ListenerNext]_listenerVars
             PROVE  ListenerInv'
  OBVIOUS
<1>1. CASE Arrive
  BY <1>1, ArriveInv
<1>2. ASSUME NEW c \in Callers, Finishing(c) \/ Break(c)
      PROVE  ListenerInv'
  <2>1. CASE RunAgent(c)
    BY <2>1, HandledInv, HookInv DEF Callers
  <2>2. CASE MergeEvents(c)
    BY <2>2, MergeInv
  <2>3. CASE OpenState(c)
    BY <2>3, OpenInv
  <2>4. CASE WriteState(c)
    BY <2>4, WriteInv
  <2>5. CASE Break(c)
    BY <2>5, GiveUpInv
  <2> QED
    BY <1>2, <2>1, <2>2, <2>3, <2>4, <2>5 DEF Finishing
<1>3. ASSUME NEW t \in Ticks, LoadState(t) \/ LoadOther(t) \/ LosePoll(t) \/ Working(t)
      PROVE  ListenerInv'
  <2>1. CASE LoadState(t) \/ LoadOther(t)
    BY <2>1, LoadInv
  <2>2. CASE LosePoll(t) \/ Poll(t)
    BY <2>2, PollInv
  <2>3. CASE SkipUpdate(t)
    BY <2>3, HandledInv
  <2>4. CASE StartUpdate(t)
    BY <2>4, StartInv
  <2>5. CASE RefuseUpdate(t)
    BY <2>5, GiveUpInv DEF Callers
  <2>6. CASE PassBatch(t)
    BY <2>6, PassBatchInv
  <2>7. CASE Finishing(t)
    BY <2>7, <1>2 DEF Callers
  <2> QED
    BY <1>3, <2>1, <2>2, <2>3, <2>4, <2>5, <2>6, <2>7 DEF Working
<1>4. ASSUME NEW h \in Hooks, ReceiveHook(h) \/ Finishing(h)
      PROVE  ListenerInv'
  BY <1>2, <1>4, HookInv DEF Callers
<1>5. CASE UNCHANGED listenerVars
  BY <1>5 DEF listenerVars, listenerHistory, ListenerInv, ColumnsFit, Slots, ColumnsAgree,
              StartsAreRecorded, OffsetsSettle, OffsetIn, CallersAgree, Agrees
<1> QED
  BY <1>1, <1>2, <1>3, <1>4, <1>5 DEF ListenerNext

LEMMA ListenerInvariant == ListenerSpec => []ListenerInv
<1> QED
  BY ListenerInitInv, ListenerStepInv, PTL DEF ListenerSpec

\* The file, the table and the locals of the requests hold only what they may.
THEOREM ListenerTypeCorrect == ListenerSpec => []ListenerTypeOK
<1>1. ListenerInv => ListenerTypeOK
  BY DEF ListenerInv, ColumnsFit, Slots, PCs, ListenerTypeOK
<1> QED
  BY <1>1, ListenerInvariant, PTL

\* Whatever overlaps, is lost or dies: no update is forgotten or passed before it has been
\* handled to the end, and the agent starts at most once for an identifier.
THEOREM MessagesHandledOnce == ListenerSpec => []MessagesAreHandledOnce
<1>1. ListenerInv => MessagesAreHandledOnce
  <2> SUFFICES ASSUME ListenerInv PROVE MessagesAreHandledOnce
    OBVIOUS
  <2>1. PassedIsFinished
    <3>1. 1..confirmed \subseteq finished
      BY Numbers DEF ListenerInv, ColumnsAgree, OffsetsSettle
    <3>2. \A i \in 1..arrived : i < OffsetIn(file) => i \in finished
      BY Numbers DEF ListenerInv, ColumnsAgree, OffsetsSettle
    <3> QED
      BY <3>1, <3>2 DEF PassedIsFinished
  <2>2. MessagesStartOnce
    BY DEF MessagesStartOnce, ListenerInv, ColumnsAgree, StartsAreRecorded
  <2> QED
    BY <2>1, <2>2 DEF MessagesAreHandledOnce
<1> QED
  BY <1>1, ListenerInvariant, PTL

-----------------------------------------------------------------------------
(***************************************************************************)
(* An update that blocks the channel.                                      *)
(***************************************************************************)

\* Where the requests and the two offsets stand when update i blocks.
InFront(i, c) == /\ caller[c].offset <= i /\ caller[c].copy <= i /\ caller[c].next <= i
                 /\ ~(c \in Ticks /\ caller[c].pc = "run" /\ caller[c].next = i)

\* A step of one request leaves it blocked, if it stays in front of it itself.
LEMMA StaysBlocked ==
    ASSUME ListenerInv, NEW i \in Updates, Blocked(i), NEW c \in Callers,
           arrived' = arrived, keyOf' = keyOf, keys \subseteq keys',
           confirmed' < i, OffsetIn(file)' <= i, InFront(i, c)',
           \A d \in Callers : d # c => caller'[d] = caller[d]
    PROVE  Blocked(i)'
<1>1. \A d \in Callers : d # c => InFront(i, d)'
  BY DEF InFront, Blocked
<1>2. i \in 1..arrived' /\ keyOf'[i] \in keys'
  BY DEF Blocked
<1> QED
  BY <1>1, <1>2 DEF Blocked, InFront

\* A request whose locals are reset is in front of every update.
LEMMA RestIsInFront ==
    ASSUME ListenerInv, NEW i \in Updates, NEW c \in Callers,
           caller' = [caller EXCEPT ![c] = Rest]
    PROVE  InFront(i, c)' /\ \A d \in Callers : d # c => caller'[d] = caller[d]
<1>1. caller'[c] = Rest /\ \A d \in Callers : d # c => caller'[d] = caller[d]
  BY DEF ListenerInv
<1>2. 0 <= i /\ 1 <= i
  BY DEF Updates
<1> QED
  BY <1>1, <1>2, RestFits DEF InFront

LEMMA BlockedStays ==
    ASSUME ListenerInv, [ListenerNext]_listenerVars, NEW i \in Updates, Blocked(i)
    PROVE  Blocked(i)' /\ \A j \in finished' \ finished : j < i
<1> USE ListenerConstants DEF ListenerConstants
<1>0. /\ i \in Nat /\ i > 0 /\ i \in 1..arrived /\ keyOf[i] \in keys /\ keyOf[i] # Silent
      /\ confirmed < i /\ OffsetIn(file) <= i
      /\ \A c \in Callers : InFront(i, c)
      /\ caller \in [Callers -> Slots]
  BY DEF Blocked, InFront, Updates, ListenerInv, ColumnsFit
<1>1. CASE Arrive
  <2>1. /\ UNCHANGED <<confirmed, file, keys, caller, finished>> /\ arrived' = arrived + 1
        /\ arrived \in Nat
    BY <1>1, Numbers DEF Arrive, listenerHistory
  <2>2. keyOf'[i] = keyOf[i] /\ i \in 1..arrived'
    <3>1. i # arrived + 1 /\ i \in 1..arrived'
      BY <1>0, <2>1
    <3> QED
      BY <1>1, <3>1 DEF Arrive, ListenerInv, ColumnsFit
  <2>3. Blocked(i)'
    BY <1>0, <2>1, <2>2 DEF Blocked, InFront, OffsetIn
  <2> QED
    BY <2>1, <2>3
<1>2. ASSUME NEW c \in Callers, MergeEvents(c)
      PROVE  Blocked(i)' /\ finished' = finished
  <2>1. PICK n : n = OffsetIn(file)
    OBVIOUS
  <2>2. caller' = [caller EXCEPT ![c].pc = "merged", ![c].copy = n]
    BY <1>2, <2>1 DEF MergeEvents
  <2>3. InFront(i, c)' /\ \A d \in Callers : d # c => caller'[d] = caller[d]
    BY <1>0, <2>1, <2>2 DEF InFront, Slots
  <2>4. OffsetIn(file)' <= i
    BY <1>0, <1>2 DEF MergeEvents, OffsetIn
  <2> QED
    BY <1>0, <1>2, <2>3, <2>4, StaysBlocked DEF MergeEvents
<1>3. ASSUME NEW c \in Callers, OpenState(c)
      PROVE  Blocked(i)' /\ finished' = finished
  <2>1. PICK p \in {"merging", "saving"} : caller' = [caller EXCEPT ![c].pc = p]
    BY <1>3 DEF OpenState
  <2>2. InFront(i, c)' /\ \A d \in Callers : d # c => caller'[d] = caller[d]
    BY <1>0, <2>1 DEF InFront, Slots
  <2>3. OffsetIn(file)' <= i
    BY <1>0, <1>3 DEF OpenState, OffsetIn
  <2> QED
    BY <1>0, <1>3, <2>2, <2>3, StaysBlocked DEF OpenState, listenerHistory
<1>4. ASSUME NEW c \in Callers, WriteState(c)
      PROVE  Blocked(i)' /\ finished' = finished
  <2>1. PICK n \in {caller[c].copy, caller[c].offset} : WriteOffset(n)
    BY <1>4 DEF WriteState
  <2>2. n <= i
    BY <1>0, <2>1 DEF InFront
  <2>3. OffsetIn(file)' <= i
    BY <1>0, <2>1, <2>2 DEF WriteOffset, OffsetIn
  <2>4. CASE caller' = [caller EXCEPT ![c] = [@ EXCEPT !.pc = "save"]]
    <3>1. caller' = [caller EXCEPT ![c].pc = "save"]
      BY <2>4, <1>0
    <3>2. InFront(i, c)' /\ \A d \in Callers : d # c => caller'[d] = caller[d]
      BY <1>0, <3>1 DEF InFront, Slots
    <3> QED
      BY <1>0, <1>4, <2>3, <3>2, StaysBlocked DEF WriteState
  <2>5. CASE caller' = [caller EXCEPT ![c] = Rest]
    BY <1>0, <1>4, <2>3, <2>5, RestIsInFront, StaysBlocked DEF WriteState
  <2> QED
    BY <1>0, <1>4, <2>4, <2>5 DEF WriteState
<1>5. ASSUME NEW c \in Callers, Break(c) \/ RefuseUpdate(c)
      PROVE  Blocked(i)' /\ finished' = finished
  <2>1. caller' = [caller EXCEPT ![c] = Rest] /\ UNCHANGED <<arrived, keyOf, confirmed, file, keys, finished>>
    BY <1>5 DEF Break, RefuseUpdate
  <2> QED
    BY <1>0, <2>1, RestIsInFront, StaysBlocked DEF OffsetIn
<1>6. ASSUME NEW c \in Ticks, SkipUpdate(c) \/ RunAgent(c)
      PROVE  Blocked(i)' /\ \A j \in finished' \ finished : j < i
  <2>1. c \in Callers
    BY DEF Callers
  <2>2. caller[c].next # i /\ caller[c].next <= i /\ caller[c].next \in Nat
    BY <1>0, <1>6, <2>1, Local DEF SkipUpdate, RunAgent, AtUpdate, InFront
  <2>3. PICK n : n = caller[c].next + 1
    OBVIOUS
  <2>4. \/ caller' = [caller EXCEPT ![c].next = n] /\ caller[c].pc # "run"
        \/ caller' = [caller EXCEPT ![c].pc = "handle", ![c].next = n]
    BY <1>6, <2>3 DEF SkipUpdate, RunAgent, AtUpdate
  <2>5. n <= i
    BY <1>0, <2>2, <2>3
  <2>6. /\ caller'[c].pc # "run" /\ caller'[c].next = n
        /\ caller'[c].offset = caller[c].offset /\ caller'[c].copy = caller[c].copy
        /\ \A d \in Callers : d # c => caller'[d] = caller[d]
    BY <1>0, <2>1, <2>4 DEF Slots
  <2>7. InFront(i, c)'
    BY <1>0, <2>1, <2>5, <2>6 DEF InFront
  <2>8. /\ UNCHANGED <<arrived, keyOf, confirmed, file, keys>>
        /\ finished' = finished \cup {caller[c].next}
    BY <1>6 DEF SkipUpdate, RunAgent
  <2>9. Blocked(i)'
    BY <1>0, <2>1, <2>6, <2>7, <2>8, StaysBlocked DEF OffsetIn
  <2> QED
    BY <1>0, <2>2, <2>8, <2>9
<1>7. ASSUME NEW c \in Hooks, RunAgent(c) \/ ReceiveHook(c)
      PROVE  Blocked(i)' /\ finished' = finished
  <2>1. c \in Callers /\ c \notin Ticks
    BY DEF Callers
  <2>2. PICK p \in {"run", "merge"} : caller' = [caller EXCEPT ![c].pc = p]
    BY <1>7, <2>1 DEF ReceiveHook, RunAgent
  <2>3. UNCHANGED <<arrived, keyOf, confirmed, file, finished>> /\ keys \subseteq keys'
    BY <1>7, <2>1 DEF ReceiveHook, RunAgent, Record
  <2>4. InFront(i, c)' /\ \A d \in Callers : d # c => caller'[d] = caller[d]
    BY <1>0, <2>1, <2>2 DEF InFront, Slots
  <2> QED
    BY <1>0, <2>1, <2>3, <2>4, StaysBlocked DEF OffsetIn
<1>8. ASSUME NEW c \in Ticks, LoadState(c) \/ LoadOther(c)
      PROVE  Blocked(i)' /\ finished' = finished
  <2>1. c \in Callers
    BY DEF Callers
  <2>2. PICK n : n = OffsetIn(file)
    OBVIOUS
  <2>3. PICK p \in {"poll", "save"} : Load(c, p)
    BY <1>8 DEF LoadState, LoadOther
  <2>4. PICK q : q = [Rest EXCEPT !.pc = p, !.offset = n]
    OBVIOUS
  <2>5. caller' = [caller EXCEPT ![c] = q]
    BY <2>2, <2>3, <2>4 DEF Load
  <2>6. q.pc # "run" /\ q.offset = n /\ q.next = 1 /\ q.copy = 0
    BY <2>3, <2>4 DEF Rest
  <2>7. InFront(i, c)' /\ \A d \in Callers : d # c => caller'[d] = caller[d]
    <3>1. caller'[c] = q /\ \A d \in Callers : d # c => caller'[d] = caller[d]
      BY <1>0, <2>1, <2>5
    <3> QED
      BY <1>0, <2>2, <2>6, <3>1 DEF InFront
  <2> QED
    BY <1>0, <2>1, <2>3, <2>7, StaysBlocked DEF Load, OffsetIn
<1>9. ASSUME NEW c \in Ticks, LosePoll(c) \/ Poll(c)
      PROVE  Blocked(i)' /\ finished' = finished
  <2>1. c \in Callers
    BY DEF Callers
  <2>2. UNCHANGED <<arrived, keyOf, file, keys, finished>> /\ confirmed' = Acknowledged(c)
    BY <1>9 DEF Poll, LosePoll, listenerHistory
  <2>3. confirmed' \in Nat /\ confirmed' < i
    BY <1>0, <2>1, <2>2, Local, Numbers DEF Acknowledged, InFront
  <2>4. CASE LosePoll(c)
    <3>1. caller' = [caller EXCEPT ![c] = Rest]
      BY <2>4 DEF LosePoll
    <3> QED
      BY <1>0, <2>1, <2>2, <2>3, <3>1, RestIsInFront, StaysBlocked DEF OffsetIn
  <2>5. CASE Poll(c)
    <3>1. PICK n, k : /\ k = confirmed' + 1
                      /\ caller' = [caller EXCEPT ![c].pc = "handle", ![c].next = k, ![c].last = n]
      BY <2>5 DEF Poll
    <3>2. k <= i
      BY <1>0, <2>3, <3>1
    <3>3. /\ caller'[c].pc = "handle" /\ caller'[c].next = k
          /\ caller'[c].offset = caller[c].offset /\ caller'[c].copy = caller[c].copy
          /\ \A d \in Callers : d # c => caller'[d] = caller[d]
      BY <1>0, <2>1, <3>1 DEF Slots
    <3>4. InFront(i, c)'
      BY <1>0, <2>1, <3>2, <3>3 DEF InFront
    <3> QED
      BY <1>0, <2>1, <2>2, <2>3, <3>3, <3>4, StaysBlocked DEF OffsetIn
  <2> QED
    BY <1>9, <2>4, <2>5
<1>10. ASSUME NEW c \in Ticks, StartUpdate(c)
       PROVE  Blocked(i)' /\ finished' = finished
  <2>1. c \in Callers
    BY DEF Callers
  <2>2. caller[c].next # i
    BY <1>0, <1>10 DEF StartUpdate, Record
  <2>3. UNCHANGED <<arrived, keyOf, confirmed, file, finished>> /\ keys \subseteq keys'
        /\ caller' = [caller EXCEPT ![c].pc = "run"]
    BY <1>10 DEF StartUpdate, Record
  <2>4. InFront(i, c)' /\ \A d \in Callers : d # c => caller'[d] = caller[d]
    BY <1>0, <2>1, <2>2, <2>3 DEF InFront, Slots
  <2> QED
    BY <1>0, <2>1, <2>3, <2>4, StaysBlocked DEF OffsetIn
<1>11. ASSUME NEW c \in Ticks, PassBatch(c)
       PROVE  Blocked(i)' /\ finished' = finished
  <2>1. c \in Callers
    BY DEF Callers
  <2>2. PICK n : n = IF caller[c].last >= caller[c].offset /\ caller[c].last > 0
                       THEN caller[c].last + 1 ELSE caller[c].offset
    OBVIOUS
  <2>3. n <= i
    BY <1>0, <1>11, <2>1, <2>2, Local DEF PassBatch, InFront
  <2>4. caller' = [caller EXCEPT ![c].pc = "merge", ![c].offset = n]
    BY <1>11, <2>2 DEF PassBatch
  <2>5. /\ caller'[c].pc = "merge" /\ caller'[c].next = caller[c].next
        /\ caller'[c].offset = n /\ caller'[c].copy = caller[c].copy
        /\ \A d \in Callers : d # c => caller'[d] = caller[d]
    BY <1>0, <2>1, <2>4 DEF Slots
  <2>6. InFront(i, c)'
    BY <1>0, <2>1, <2>3, <2>5 DEF InFront
  <2>7. UNCHANGED <<arrived, keyOf, confirmed, file, keys, finished>>
    BY <1>11 DEF PassBatch, listenerHistory
  <2> QED
    BY <1>0, <2>1, <2>5, <2>6, <2>7, StaysBlocked DEF OffsetIn
<1>12. CASE UNCHANGED listenerVars
  BY <1>12, <1>0 DEF listenerVars, listenerHistory, Blocked, InFront, OffsetIn
<1>13. ASSUME NEW t \in Ticks, LoadState(t) \/ LoadOther(t) \/ LosePoll(t) \/ Working(t)
       PROVE  Blocked(i)' /\ \A j \in finished' \ finished : j < i
  <2>1. t \in Callers
    BY DEF Callers
  <2>2. CASE SkipUpdate(t) \/ RunAgent(t)
    BY <2>2, <1>6
  <2>3. CASE ~(SkipUpdate(t) \/ RunAgent(t))
    <3>1. Blocked(i)' /\ finished' = finished
      BY <1>13, <2>1, <2>3, <1>2, <1>3, <1>4, <1>5, <1>8, <1>9, <1>10, <1>11
         DEF Working, Finishing
    <3> QED
      BY <3>1
  <2> QED
    BY <2>2, <2>3
<1>14. ASSUME NEW h \in Hooks, ReceiveHook(h) \/ Finishing(h)
       PROVE  Blocked(i)' /\ finished' = finished
  BY <1>14, <1>2, <1>3, <1>4, <1>7 DEF Finishing, Callers
<1> QED
  BY <1>1, <1>5, <1>12, <1>13, <1>14 DEF ListenerNext

\* An update whose identifier is taken, once nothing works on it or is to save an offset
\* past it, is never passed again, and nothing behind it is ever handled.
THEOREM BlockedUpdatesBlockForGood == ListenerSpec => BlockedForGood
<1>1. ListenerInv /\ [ListenerNext]_listenerVars
        => [\A i \in Updates : Blocked(i) =>
              Blocked(i)' /\ \A j \in finished' \ finished : j < i]_listenerVars
  BY BlockedStays
<1> QED
  BY <1>1, ListenerInvariant, PTL DEF ListenerSpec, BlockedForGood

-----------------------------------------------------------------------------
(***************************************************************************)
(* ChannelListener keeps ChannelContract.                                  *)
(***************************************************************************)

\* A tick runs the agent behind the record of its update, and what has not arrived has
\* no identifier.
RunsAreRecorded ==
    /\ \A t \in Ticks : caller[t].pc = "run" => keyOf[caller[t].next] \in keys
    /\ \A i \in Updates : i > arrived => keyOf[i] = Silent

LEMMA RunStaysRecorded ==
    ASSUME RunsAreRecorded, NEW c \in Callers, UNCHANGED <<arrived, keyOf>>, keys \subseteq keys',
           \A d \in Callers : d # c => caller'[d] = caller[d],
           c \in Ticks /\ caller'[c].pc = "run" => keyOf'[caller'[c].next] \in keys'
    PROVE  RunsAreRecorded'
<1>1. ASSUME NEW t \in Ticks, caller'[t].pc = "run" PROVE keyOf'[caller'[t].next] \in keys'
  <2>1. CASE t = c
    BY <1>1, <2>1
  <2>2. CASE t # c
    BY <1>1, <2>2 DEF RunsAreRecorded, Callers
  <2> QED
    BY <2>1, <2>2
<1> QED
  BY <1>1 DEF RunsAreRecorded

\* The other steps leave the request elsewhere than at the run of the agent.
LEMMA ElsewhereStaysRecorded ==
    ASSUME ListenerInv, RunsAreRecorded, NEW c \in Callers, UNCHANGED <<arrived, keyOf>>,
           keys \subseteq keys', NEW slot, caller' = [caller EXCEPT ![c] = slot],
           slot.pc # "run" \/ c \notin Ticks
    PROVE  RunsAreRecorded'
<1>1. caller'[c] = slot /\ \A d \in Callers : d # c => caller'[d] = caller[d]
  BY DEF ListenerInv
<1> QED
  BY <1>1, RunStaysRecorded

LEMMA RunsStayRecorded ==
    ASSUME ListenerInv, RunsAreRecorded, [ListenerNext]_listenerVars
    PROVE  RunsAreRecorded'
<1>0. caller \in [Callers -> Slots] /\ Rest.pc = "idle"
  BY DEF ListenerInv, Rest
<1>1. CASE Arrive
  <2>1. PICK k \in Keys \cup {Silent} : keyOf' = [keyOf EXCEPT ![arrived + 1] = k]
    BY <1>1 DEF Arrive
  <2>2. /\ arrived' = arrived + 1 /\ UNCHANGED <<caller, keys>> /\ arrived \in Nat
        /\ keyOf \in [Updates -> Keys \cup {Silent}]
    BY <1>1, Numbers DEF Arrive, listenerHistory, ListenerInv, ColumnsFit
  <2>3. ASSUME NEW t \in Ticks, caller'[t].pc = "run" PROVE keyOf'[caller'[t].next] \in keys'
    <3>1. t \in Callers /\ caller[t].next \in Nat /\ caller[t].next <= arrived
      BY <2>2, <2>3, Local, Numbers DEF Callers, Agrees
    <3>2. keyOf'[caller[t].next] = keyOf[caller[t].next]
      BY <2>1, <2>2, <3>1
    <3> QED
      BY <2>2, <2>3, <3>2 DEF RunsAreRecorded
  <2>4. \A i \in Updates : i > arrived' => keyOf'[i] = Silent
    BY <2>1, <2>2 DEF RunsAreRecorded, Updates
  <2> QED
    BY <2>3, <2>4 DEF RunsAreRecorded
<1>2. ASSUME NEW c \in Callers, Finishing(c) \/ Break(c)
      PROVE  RunsAreRecorded'
  <2>1. UNCHANGED <<arrived, keyOf, keys>>
    BY <1>2 DEF Finishing, RunAgent, MergeEvents, OpenState, WriteState, Break, listenerHistory
  <2>2. \A d \in Callers : d # c => caller'[d] = caller[d]
    BY <1>0, <1>2 DEF Finishing, RunAgent, MergeEvents, OpenState, WriteState, Break
  <2>3. caller'[c].pc # "run"
    <3>1. CASE RunAgent(c)
      BY <1>0, <3>1 DEF RunAgent, Slots
    <3>2. CASE MergeEvents(c)
      BY <1>0, <3>2 DEF MergeEvents, Slots
    <3>3. CASE OpenState(c)
      BY <1>0, <3>3 DEF OpenState, Slots
    <3>4. CASE WriteState(c)
      BY <1>0, <3>4 DEF WriteState, Slots
    <3>5. CASE Break(c)
      BY <1>0, <3>5 DEF Break
    <3> QED
      BY <1>2, <3>1, <3>2, <3>3, <3>4, <3>5 DEF Finishing
  <2> QED
    BY <2>1, <2>2, <2>3, RunStaysRecorded
<1>3. ASSUME NEW t \in Ticks, LoadState(t) \/ LoadOther(t) \/ LosePoll(t) \/ Working(t)
      PROVE  RunsAreRecorded'
  <2>0. t \in Callers
    BY DEF Callers
  <2>1. CASE LoadState(t) \/ LoadOther(t)
    <3>1. PICK p \in {"poll", "save"} : Load(t, p)
      BY <2>1 DEF LoadState, LoadOther
    <3>2. [Rest EXCEPT !.pc = p, !.offset = OffsetIn(file)].pc = p
      BY DEF Rest
    <3> QED
      BY <2>0, <3>1, <3>2, ElsewhereStaysRecorded DEF Load
  <2>2. CASE LosePoll(t) \/ RefuseUpdate(t)
    BY <1>0, <2>0, <2>2, ElsewhereStaysRecorded DEF LosePoll, RefuseUpdate, listenerHistory
  <2>3. CASE Poll(t) \/ SkipUpdate(t) \/ PassBatch(t)
    <3>1. UNCHANGED <<arrived, keyOf, keys>>
      BY <2>3 DEF Poll, SkipUpdate, PassBatch
    <3>2. caller'[t].pc \in {"handle", "merge"} /\ \A d \in Callers : d # t => caller'[d] = caller[d]
      <4>1. CASE Poll(t)
        BY <1>0, <2>0, <4>1 DEF Poll, Slots
      <4>2. CASE SkipUpdate(t)
        BY <1>0, <2>0, <4>2 DEF SkipUpdate, AtUpdate, Slots
      <4>3. CASE PassBatch(t)
        BY <1>0, <2>0, <4>3 DEF PassBatch, Slots
      <4> QED
        BY <2>3, <4>1, <4>2, <4>3
    <3> QED
      BY <2>0, <3>1, <3>2, RunStaysRecorded
  <2>4. CASE StartUpdate(t)
    <3>1. /\ UNCHANGED <<arrived, keyOf>> /\ caller' = [caller EXCEPT ![t].pc = "run"]
          /\ keys' = keys \cup {keyOf[caller[t].next]}
      BY <2>4 DEF StartUpdate, Record
    <3>2. caller'[t].next = caller[t].next /\ \A d \in Callers : d # t => caller'[d] = caller[d]
      BY <1>0, <2>0, <3>1 DEF Slots
    <3> QED
      BY <2>0, <3>1, <3>2, RunStaysRecorded
  <2> QED
    BY <1>2, <1>3, <2>0, <2>1, <2>2, <2>3, <2>4 DEF Working
<1>4. ASSUME NEW h \in Hooks, ReceiveHook(h) \/ Finishing(h)
      PROVE  RunsAreRecorded'
  <2>0. h \in Callers /\ h \notin Ticks
    BY ListenerConstants DEF Callers
  <2>1. CASE ReceiveHook(h)
    <3>1. UNCHANGED <<arrived, keyOf>> /\ keys \subseteq keys'
      BY <2>1 DEF ReceiveHook, Record
    <3>2. \A d \in Callers : d # h => caller'[d] = caller[d]
      BY <1>0, <2>1 DEF ReceiveHook
    <3> QED
      BY <2>0, <3>1, <3>2, RunStaysRecorded
  <2> QED
    BY <1>2, <1>4, <2>0, <2>1
<1>5. CASE UNCHANGED listenerVars
  BY <1>5 DEF listenerVars, listenerHistory, RunsAreRecorded
<1> QED
  BY <1>1, <1>2, <1>3, <1>4, <1>5 DEF ListenerNext

\* The steps of the contract that the listener takes.
LEMMA ContractStutter ==
    ASSUME UNCHANGED <<keyOf, starts, finished, confirmed, file>>
    PROVE  UNCHANGED Contract!vars
BY DEF Contract!vars, OffsetIn

LEMMA ContractFinish ==
    ASSUME ListenerInv, RunsAreRecorded, NEW t \in Ticks, SkipUpdate(t) \/ RunAgent(t)
    PROVE  Contract!Next
<1>0. t \in Callers
  BY DEF Callers
<1>1. PICK i : i = caller[t].next
  OBVIOUS
<1>2. /\ UNCHANGED <<keyOf, starts, confirmed, file>> /\ finished' = finished \cup {i}
  BY <1>1 DEF SkipUpdate, RunAgent
<1>3. /\ i \in 1..arrived /\ i \in Updates /\ Contract!Handled(i - 1)
  <2>1. i <= caller[t].last /\ OffsetsSettle(i) /\ i \in Nat
    BY <1>0, <1>1, Local DEF SkipUpdate, RunAgent, AtUpdate, Agrees
  <2>2. i \in 1..arrived
    BY <1>0, <1>1, <2>1, Local, Numbers
  <2> QED
    BY <2>1, <2>2, Numbers DEF OffsetsSettle, Contract!Handled, Updates
<1>4. keyOf[i] # Silent => starts[keyOf[i]] = 1
  <2>1. CASE keyOf[i] = Silent
    BY <2>1
  <2>2. CASE keyOf[i] # Silent
    <3>1. keyOf[i] \in keys
      BY <1>1, <2>2 DEF SkipUpdate, RunAgent, RunsAreRecorded
    <3> QED
      BY <3>1 DEF ListenerInv, ColumnsFit, ColumnsAgree, StartsAreRecorded
  <2> QED
    BY <2>1, <2>2
<1>5. Contract!Finish(i)
  BY <1>2, <1>3, <1>4 DEF Contract!Finish, OffsetIn
<1> QED
  BY <1>3, <1>5 DEF Contract!Next

LEMMA ContractStart ==
    ASSUME ListenerInv, NEW k \in Keys, Record(k), UNCHANGED <<keyOf, finished, confirmed, file>>
    PROVE  Contract!Next
<1>1. starts[k] = 0
  BY DEF Record, ListenerInv, ColumnsAgree, StartsAreRecorded
<1>2. starts' = [starts EXCEPT ![k] = 1]
  BY <1>1 DEF Record, ListenerInv, ColumnsFit
<1>3. Contract!Start(k)
  BY <1>1, <1>2 DEF Contract!Start, OffsetIn
<1> QED
  BY <1>3 DEF Contract!Next

LEMMA ContractForget ==
    ASSUME ListenerInv, NEW t \in Ticks, Poll(t) \/ LosePoll(t)
    PROVE  Contract!Next \/ UNCHANGED Contract!vars
<1>0. t \in Callers
  BY DEF Callers
<1>1. UNCHANGED <<keyOf, starts, finished, file>> /\ confirmed' = Acknowledged(t)
  BY DEF Poll, LosePoll, listenerHistory
<1>2. CASE caller[t].offset > confirmed + 1
  <2>1. PICK n : n = caller[t].offset
    OBVIOUS
  <2>2. n \in Nat /\ confirmed \in Nat /\ OffsetsSettle(n)
    BY <1>0, <2>1, Local, Numbers DEF Agrees
  <2>3. confirmed' = n - 1 /\ n > confirmed + 1
    BY <1>1, <1>2, <2>1 DEF Acknowledged
  <2>4. confirmed' > confirmed /\ 1..confirmed' \subseteq finished
    BY <2>2, <2>3 DEF OffsetsSettle
  <2>5. Contract!Forget
    BY <1>1, <2>4 DEF Contract!Forget, Contract!Handled, OffsetIn
  <2> QED
    BY <2>5 DEF Contract!Next
<1>3. CASE ~(caller[t].offset > confirmed + 1)
  BY <1>1, <1>3, ContractStutter DEF Acknowledged
<1> QED
  BY <1>2, <1>3

LEMMA ContractSave ==
    ASSUME ListenerInv, NEW c \in Callers, OpenState(c) \/ WriteState(c)
    PROVE  Contract!Next
<1>1. UNCHANGED <<keyOf, starts, finished, confirmed>>
  BY DEF OpenState, WriteState, listenerHistory
<1>2. OffsetIn(file)' = 0 \/ Contract!Handled(OffsetIn(file)' - 1)
  <2>1. CASE file' = Torn
    BY <2>1 DEF OffsetIn
  <2>2. CASE file' # Torn
    <3>1. PICK n \in {caller[c].copy, caller[c].offset} : WriteOffset(n)
      BY <2>2 DEF OpenState, WriteState
    <3>2. file' = n /\ n \in Nat /\ OffsetsSettle(n)
      BY <2>2, <3>1, Local DEF WriteOffset, Agrees
    <3>3. 1..(n - 1) \subseteq finished
      BY <3>2 DEF OffsetsSettle
    <3> QED
      BY <2>2, <3>2, <3>3 DEF OffsetIn, Contract!Handled
  <2> QED
    BY <2>1, <2>2
<1>3. Contract!Save
  BY <1>1, <1>2 DEF Contract!Save
<1> QED
  BY <1>3 DEF Contract!Next

LEMMA ContractWrite ==
    ASSUME ListenerInv, RunsAreRecorded, Arrive
    PROVE  Contract!Next \/ UNCHANGED Contract!vars
<1>1. PICK k \in Keys \cup {Silent} : keyOf' = [keyOf EXCEPT ![arrived + 1] = k]
  BY DEF Arrive
<1>2. /\ arrived + 1 \in Updates /\ arrived + 1 \notin finished
      /\ keyOf \in [Updates -> Keys \cup {Silent}]
  BY Numbers DEF Arrive, Updates, ListenerInv, ColumnsFit
<1>3. keyOf[arrived + 1] = Silent
  BY <1>2, Numbers DEF RunsAreRecorded
<1>4. UNCHANGED <<starts, finished, confirmed, file>>
  BY DEF Arrive, listenerHistory
<1>5. CASE k = Silent
  <2>1. keyOf' = keyOf
    BY <1>1, <1>2, <1>3, <1>5
  <2> QED
    BY <1>4, <2>1, ContractStutter
<1>6. CASE k # Silent
  <2>1. Contract!Write(arrived + 1, k)
    BY <1>1, <1>2, <1>3, <1>4 DEF Contract!Write, OffsetIn
  <2> QED
    BY <1>2, <1>6, <2>1 DEF Contract!Next
<1> QED
  BY <1>5, <1>6

LEMMA ContractStep ==
    ListenerInv /\ RunsAreRecorded /\ [ListenerNext]_listenerVars => [Contract!Next]_(Contract!vars)
<1> SUFFICES ASSUME ListenerInv, RunsAreRecorded, [ListenerNext]_listenerVars
             PROVE  Contract!Next \/ UNCHANGED Contract!vars
  OBVIOUS
<1>1. CASE Arrive
  BY <1>1, ContractWrite
<1>2. ASSUME NEW c \in Callers, Finishing(c) \/ Break(c)
      PROVE  Contract!Next \/ UNCHANGED Contract!vars
  <2>1. CASE RunAgent(c)
    <3>1. CASE c \in Ticks
      BY <2>1, <3>1, ContractFinish
    <3>2. CASE c \notin Ticks
      BY <2>1, <3>2, ContractStutter DEF RunAgent
    <3> QED
      BY <3>1, <3>2
  <2>2. CASE MergeEvents(c) \/ Break(c)
    BY <2>2, ContractStutter DEF MergeEvents, Break
  <2>3. CASE OpenState(c) \/ WriteState(c)
    BY <2>3, ContractSave
  <2> QED
    BY <1>2, <2>1, <2>2, <2>3 DEF Finishing
<1>3. ASSUME NEW t \in Ticks, LoadState(t) \/ LoadOther(t) \/ LosePoll(t) \/ Working(t)
      PROVE  Contract!Next \/ UNCHANGED Contract!vars
  <2>1. CASE LoadState(t) \/ LoadOther(t) \/ RefuseUpdate(t) \/ PassBatch(t)
    BY <2>1, ContractStutter DEF LoadState, LoadOther, Load, RefuseUpdate, PassBatch, listenerHistory
  <2>2. CASE LosePoll(t) \/ Poll(t)
    BY <2>2, ContractForget
  <2>3. CASE SkipUpdate(t)
    BY <2>3, ContractFinish
  <2>4. CASE StartUpdate(t)
    <3>1. caller[t].next \in Updates
      BY <2>4, Local, Numbers DEF StartUpdate, AtUpdate, Callers, Updates
    <3>2. keyOf[caller[t].next] \in Keys
      BY <2>4, <3>1 DEF StartUpdate, ListenerInv, ColumnsFit
    <3> QED
      BY <2>4, <3>2, ContractStart DEF StartUpdate
  <2> QED
    BY <1>2, <1>3, <2>1, <2>2, <2>3, <2>4 DEF Working, Callers
<1>4. ASSUME NEW h \in Hooks, ReceiveHook(h) \/ Finishing(h)
      PROVE  Contract!Next \/ UNCHANGED Contract!vars
  <2>1. CASE ReceiveHook(h)
    <3>1. UNCHANGED <<keyOf, finished, confirmed, file>>
      BY <2>1 DEF ReceiveHook
    <3>2. CASE UNCHANGED <<keys, starts>>
      BY <3>1, <3>2, ContractStutter
    <3>3. CASE \E k \in HookKeys : Record(k)
      BY <3>1, <3>3, ContractStart, ListenerConstants
    <3> QED
      BY <2>1, <3>2, <3>3 DEF ReceiveHook
  <2> QED
    BY <1>2, <1>4, <2>1 DEF Callers
<1>5. CASE UNCHANGED listenerVars
  BY <1>5, ContractStutter DEF listenerVars, listenerHistory
<1> QED
  BY <1>1, <1>2, <1>3, <1>4, <1>5 DEF ListenerNext

LEMMA ContractInit == ListenerInit => Contract!Init /\ RunsAreRecorded
<1> SUFFICES ASSUME ListenerInit PROVE Contract!Init /\ RunsAreRecorded
  OBVIOUS
<1>1. Contract!Init
  BY ListenerConstants DEF ListenerInit, Contract!Init, OffsetIn
<1>2. \A t \in Ticks : caller[t].pc # "run"
  BY DEF ListenerInit, Rest, Absent, Callers
<1>3. \A i \in Updates : keyOf[i] = Silent
  BY DEF ListenerInit
<1> QED
  BY <1>1, <1>2, <1>3 DEF RunsAreRecorded

\* Whatever requests overlap, fail or die: the listener handles updates in the order in
\* which they came, behind the start of the agent for their identifier, starts it once
\* for each, and has Telegram forget, and the state file pass, only what is handled to
\* the end (_poll_telegram, event_bus.py).
THEOREM ListenerKeepsContract == ListenerSpec => ImplementsContract
<1>1. ListenerInv /\ RunsAreRecorded /\ [ListenerNext]_listenerVars => RunsAreRecorded'
  BY RunsStayRecorded
<1> QED
  BY <1>1, ContractInit, ContractStep, ListenerInvariant, PTL
  DEF ListenerSpec, ImplementsContract, Contract!Spec

-----------------------------------------------------------------------------
(***************************************************************************)
(* The components side by side, as the run Services has them: what moves   *)
(* one of them leaves the others alone, so that whatever is proved of a    *)
(* component holds of it there.                                            *)
(***************************************************************************)

LEMMA ServicesInitParts == ServicesInit => ListenerInit /\ ChatInit /\ TickInit
  BY DEF ServicesInit

\* A step of the composition is a step of one component and none of the others.
LEMMA ServicesStepParts ==
    [ServicesNext]_servicesVars =>
        [ListenerNext]_listenerVars /\ [ChatNext]_chatVars /\ [TickNext]_tickVars
<1> SUFFICES ASSUME [ServicesNext]_servicesVars
             PROVE  [ListenerNext]_listenerVars /\ [ChatNext]_chatVars /\ [TickNext]_tickVars
  OBVIOUS
<1>1. CASE ListenerNext /\ UNCHANGED <<chatVars, tickVars>>
  BY <1>1
<1>2. CASE ChatNext /\ UNCHANGED <<listenerVars, tickVars>>
  BY <1>2
<1>3. CASE TickNext /\ UNCHANGED <<listenerVars, chatVars>>
  BY <1>3
<1>4. CASE UNCHANGED servicesVars
  BY <1>4 DEF servicesVars
<1> QED
  BY <1>1, <1>2, <1>3, <1>4 DEF ServicesNext

\* The listener, the answer of a chat and the collector tick have no state in common and
\* behave beside each other as each does alone.
THEOREM ServicesHaveParts == ServicesSpec => ListenerSpec /\ ChatSpec /\ TickSpec
  BY ServicesInitParts, ServicesStepParts, PTL
  DEF ServicesSpec, ListenerSpec, ChatSpec, TickSpec

\* Every column, file and local of the three stays in its range, beside the others.
THEOREM ServicesTypeCorrect == ServicesSpec => []ServicesTypeOK
  BY ServicesHaveParts, ListenerTypeCorrect, ChatTypeCorrect, TickTypeCorrect, PTL
  DEF ServicesTypeOK
===============================================================================
