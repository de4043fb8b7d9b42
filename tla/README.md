# Humungousaur: specifications and proofs

TLA+ specifications of Humungousaur, a local personal-assistant runtime in Python
(`src/humungousaur`), model-checked with TLC on small instances and, where it matters
most, proved with TLAPS for every instance.

The program is a FastAPI server, a command line and a handful of daemon threads. They
share no locks and hardly any memory: everything they agree on goes through SQLite
databases and a few JSON files, and every store method opens a connection of its own.
Almost every method is therefore a sequence of separate transactions, and what can go
wrong lies between them: a row that is read, acted upon and updated without a look at
what it has become. The specifications take each transaction as one step.

## 1. The system

### 1.1 Components

| component | state | operations | interacts with |
|---|---|---|---|
| **Runs and approvals** (`orchestrator.py`, `runtime.py`, `executor.py`, `safety/approvals.py`, `safety/audit.py`) | tables `runs` (status, `finished_at`, `cancel_requested_at`) and `approvals` (status, tool input); the worker's turn, plan and results | create a run, plan, execute a step, persist an approval, pause, finish; approve, reject, edit; request a cancel | API routes and CLI (one thread a request), planner, tools |
| **Collector event log and consumers** (`collectors/event_log.py`, `collectors/consumers/*`) | tables of events, consumer offsets, failures, dead letters, consumer state | append, read a batch, acknowledge, retry later, save state, retention | collector tick, ingest routes, memory, Janus, harness |
| **Collector tick** (`collectors/manager.py`, `bridge.py`, `source_gate.py`, `policies/*`) | `collectors_state.json`: spool offsets, signatures, rate windows | collect, gate, append, run the consumers, retention, save | native helpers' spools, event log |
| **Autonomous runtime** (`cognition/autonomous.py`, `queue.py`, `step_boundary.py`, `loop.py`, `automation_daemon.py`, `recorder.py`) | `runtime_events` | push, boundary check, pop, handle a control, request or other event | wakeups, triggers, runs, task graph |
| **Wakeups and triggers** (`cognition/wakeups.py`, `triggers.py`) | status, fire count, due time | schedule, due, mark fired, cancel; create, evaluate, fire | the runtime's queue |
| **Goals, tasks and recovery** (`cognition/goals.py`, `recovery.py`, `reflection.py`, `delegation.py`) | goals, tasks with dependencies and statuses | add, ready tasks, update, terminal test, recovery | autonomous runtime |
| **Janus** (`janus/*`) | activations, memory candidates, promoted knowledge, deep dive requests and results, episodes, routes, muted scopes | route an event, correct, accept, decline; promote, retract; ask for, approve, execute and delete a deep dive | consumer of the log; the planner reads what it promotes; the runtime is woken by it |
| **API server** (`api.py`) | none of its own but threads | the routes and the background workers | everything |
| **Interaction and chats** (`interaction/*`, `desktop_chats.py`) | `chat_messages`, in a database of their own | send, run in the background, copy the run's state when chats are listed | runs |
| **Connectors** (`connectors/*`) | `connector_oauth_states`, `connector_tokens`, `secrets.json` | prepare and complete an authorization, refresh, disconnect | external services, source collectors |
| **Channels and voice** (`integrations/*`) | the listeners' state file | poll, receive a webhook, send | external services, harness |
| **Memory and index, planning, tools, settings, other cognition** | append-only records, model output, files | append, ask, execute | called by the above |

The collector sources and adapters, the native helpers, the desktop applications and the
packaging keep no state of the system's own that anyone else reads back; the browser extension
keeps a queue of the events that it has not delivered yet.

### 1.2 What is hard, and what makes each part correct

- **Runs and approvals.** One worker thread, any number of request threads, and a
  process that may die. A tool that needs approval must be performed only on an
  approval, once, with the input that the approval shows; what the rows say happened
  must have happened; a decision must not be taken back; a cancel must stop the
  worker soon and end in a cancelled run; a run must settle.
- **Event log.** Several ticks run the same consumers at once, any step may raise, and
  the process may die between two. Nothing may be acknowledged that was not processed;
  order is kept across retries; a dead letter is earned; retention deletes only what
  has been read; every event is reached although some fail.
- **Collector tick.** One state file, loaded at the start and saved at the end of
  concurrent ticks: spool offsets must not run ahead of what was appended.
- **Runtime, wakeups and triggers.** Several runtimes (the loop thread, the daemon,
  the API, the CLI) pop one queue: an event must be handled once, a wakeup and a
  limited trigger must fire no more often than they say, a pause must be seen, and
  nothing may be lost by a crash behind the pop.
- **Tasks.** The statuses of tasks with dependencies must agree with the goal's, ready
  tasks must really be ready, every goal must come to an end although tasks fail and
  are repaired.
- **Janus.** What the user refuses must stay refused, although a router thread is still
  waking the agent; what he retracts must not live on as knowledge, although two
  corrections overlap and knowledge is in another database; a deep dive must not run
  without an approval.
- **Connectors.** One file holds the secrets of all providers and each change rewrites it;
  rows and secrets must agree through refreshes that rotate a token and die half-way.
- **Channels.** An update must be neither skipped nor answered twice, though polls are
  lost, ticks overlap and webhooks write the same file.
- **Chats.** An answer that is settled is never looked at again, so it has to be right.

## 2. The modules

| module | what it is |
|---|---|
| `RunApproval` | the worker, the racing request handlers and the process around one run's row and its approval |
| `ApprovalContract` | what the two tables promise a reader, whoever races; `RunApproval` implements it |
| `RunApprovalProofs` | theorems about `RunApproval`, machine-checked |
| `CollectorLog` | the event log with the consumers that concurrent ticks run over it |
| `ConsumerContract` | what the log promises its consumers; `CollectorLog` implements it |
| `CollectorLogProofs` | theorems about `CollectorLog`, machine-checked |
| `RuntimeQueue` | the queue of the autonomous runtime: several runtimes that empty it, the wakeups and triggers that fill it |
| `RuntimeQueueProofs` | theorems about `RuntimeQueue`, machine-checked |
| `TaskGraph` | one goal and its tasks: the tool that writes them, runtimes and requests that work on them, recovery |
| `TaskGraphProofs` | theorems about `TaskGraph`, machine-checked |
| `CollectorTick` | what a tick does before its consumers run: spool, gates, state file |
| `CollectorTickProofs` | theorems about `CollectorTick`, machine-checked |
| `ConnectorVault` | the connections to external applications over tables and secrets file |
| `ConnectorVaultProofs` | theorems about `ConnectorVault`, machine-checked |
| `ChannelListener` | the Telegram poll, the webhooks and the state file they share |
| `ChannelContract` | what the listener promises to those who write; `ChannelListener` implements it |
| `ChatMessage` | the answer of a chat message that follows its run |
| `MessagingProofs` | theorems about `ChatMessage` and `ChannelListener`, machine-checked |
| `JanusMemory` | what users make of one decision of Janus: memory candidates, knowledge, activation |
| `JanusDeepDive` | a deep dive from the request to its deletion |
| `JanusProofs` | theorems about `JanusMemory` and `JanusDeepDive`, machine-checked |
| `MCRunApproval`, `MCCollectorLog`, `MCRuntimeQueue`, `MCTaskGraph` | what TLC needs: definitions that a configuration cannot hold |
| `MCCollectorTicks`, `MCServices`, `MCCognition` | several components in one run (2.11) |

### 2.1 RunApproval

*State.* `runStatus`, `finished` and `cancelRequested` are columns of `runs`;
`apprStatus` and `apprInput` are columns of `approvals`. A run stops at its first
`needs_approval` result, so it has at most one approval, and the token of the approval
is identified with the run. `pc` is where each thread stands; the rest are locals.
`executions`, `ranInput` and `lateActions` record what was really done, for the
properties only.

*The worker* is `AgentOrchestrator.run` as `POST /runs/async` starts it. `Checkpoint` and
`StepCheckpoint` are its `_cancel_requested` tests, `Plan`, `PlanIsEmpty`, `PlanRepeats`,
`TurnEnd` and `NextTurn` the planning loop with its bound and its for-else, `ExecuteStep`
a step through the executor's policy gate (`Outcomes`), `PersistApproval` the insertion of
the approval, `WriteNote` the summary note, which is a tool call of its own, `PauseRun`
the unconditional UPDATE, `FinishRead` and `FinishWrite` the two transactions of
`finish_run`. `RunRaises` is the thread's `except` branch.

*The handlers.* `Approve`, `Reject`, `Edit` and `Cancel` are the reads that decide whether
a request is refused; a refused request changes nothing and is the disabled case. Behind
them come the replay of the action and its records (`ExecuteApproved`, `FinishRead`,
`FinishWrite`, `MarkRead`, `MarkWrite`), the rejection (`RejectWrite` and the two of
`finish_run`), the edit (`EditWrite`) and the cancel (`CancelWrite`). None of the
UPDATEs has a condition on the status that was read before it.

*Faults.* `Abort` is a handler that raises and gives up what it has not written; `Crash`
kills the worker, which nothing resumes, and every handler.

*Left out.* What the tools do, prompts, events and notes as text, read-only routes. The
synchronous `POST /runs` runs the same method in the request's thread; it differs by
not catching what `run` raises.

### 2.2 CollectorLog

*State.* An event is its sequence number. `latest`, `live` and `aged` describe
`collector_events`; `offset`, `attempts` with `waiting`, `dead` and `saved` are the tables of
consumer offsets, failures, dead letters and states; `tick[t]` holds the locals of tick `t`.
`handled`, `failures` and `missed` record what really happened.

*Consumers.* A "mirror" copies each event and acknowledges the batch (memory, semantic
events), the "router" may fail on an event, which is retried (Janus), the "stream" keeps
the newest events in its saved state (the UI stream), "attention" keeps them until it
submits a batch. Their order in a tick is the code's.

*Steps.* `AppendEvent` is any `append` that inserts. A tick runs `ReadOffset` and `ReadEvents`
(`read_batch`: two connections), `Handle`, `Keep` or `HandleFails` for each event,
`RetryRead` with `RetryLater` or `DeadLetter` and `DeadAck` (`retry_later`: up to three),
`AckBatch`, `LoadState`, `Submit` and `SaveState`, then `ReadFloor` and `Delete`
(`enforce_retention`). `GrowOld` makes events too old between ticks, `Elapse` makes a retry
due. `Raise` abandons one tick, `Crash` all.

*Left out.* Contents of events and consumer state, helper health, the read-only methods,
and the collection in front of the consumers (2.5).

### 2.3 RuntimeQueue

*State.* `queue` is `runtime_events` in the order of creation, `consumed` its status,
`recorded` the keys of `cognitive_events`; `wakeup`, `due` and `firedBy` are the columns of
`cognitive_wakeups`, `trigger` and `fireCount` those of `cognitive_triggers`. `cycle[r]` holds
the locals of runtime `r`, `eval[p]` those of an evaluation. `runs` and `overtaken` record
what really happened.

*Steps.* A cycle is `run_once`, one statement on the database a step: `StartCycle` reads the
due wakeups, `PushWakeup` and `MarkWakeup` fire them, `CheckPause` and `CheckPriority` are the
boundary's two reads, `Peek`, `GetEvent` and `Consume` the three statements of a pop, `Observe`
ends a control event's cycle, `Record` inserts the event's key, `Run` and `Finish` are the agent
and the wakeup that its decision may ask for. `Evaluate`, `FireTrigger` and `CountFire` are
`TriggerStore.evaluate`. `RaiseCycle`, `RaiseEval` and `Crash` abandon one or all.

*The race.* `consume` reads the event's status, updates it and does not look at how many
rows it changed, so that two runtimes hold one event. What stops the second is only the
primary key of `cognitive_events`, in `Record`: it raises, and its cycle is over. `RunsOnce`
and `LossIsBounded` say that this is enough. A wakeup is pushed once by each runtime
that read it as due, a trigger by each evaluation that read its count:
`FiringsAreBounded` bounds what the code does not prevent.

*Left out.* What an event says, which stimulus matches a trigger, what the agent run does
(2.1), ready tasks (2.4), the limits of ten due wakeups and twenty triggers.
Events of wakeups and triggers are stimuli, their default type.

### 2.4 TaskGraph

*State.* `created`, `status`, `after` and `repairs` are the rows of `cognitive_tasks` with their
dependencies and `metadata.recovery_task_ids`, `newer` stands for `updated_at`: how many tasks
were updated behind each, up to `Window`, which is the 200 that `ready_tasks` reads (the 1,000
it asks for at `goals.py:211` are clamped at `goals.py:289`). `goal` is the goal's status.
`graph` is what the tool has still to insert, `drawn` the identifiers drawn so far, `job[p]` the
locals of a runtime's cycle or a request. `ever`, `good`, `ran` and `covered` record what
happened.

*Steps.* `WriteGraph` inserts one item of `_write_task_graph`. A cycle without an event is
`ReadPlanned` and `Pick` (`ready_tasks`, which reads the table twice, each time only what is
`InSight`), `Start` (the update to
running, which does not look at the status), `Run`, `Recover` for each repair of
`_apply_proposal`, `Finish` (the status that reflection gives), `Judge` and `Settle`
(`goal_is_terminal` and the update of the goal). A request is `Focus`, `AddRequest`,
`MarkRequest`, `Answer` and `CloseRequest`. `Abandon` is a cycle or a request that raises or
is killed anywhere. `UpdateElsewhere` is work on other goals, as far as this one notices it: the
task updated longest ago goes out of sight. `Closed`, `EffectivelyCompleted`, `Ready` and
`GoalIsTerminal` are the code's functions.

*Left out.* What becomes of other goals, what a task says, delegation (it writes a prompt). What the
agent, reflection and the model's recovery decide is any of `Reflections` and `Repairs`.

### 2.5 CollectorTick

*State.* `written` and `lineOf` are the spool, `half` a last line of which only a part has
reached the file, `stateFile` is `collectors_state.json` with the collector's offset,
signatures and rate count, `logged` the lines in `collector_events`, `runner[r]` a tick.

*Steps.* `AppendLine` and `FinishLine` are the helper. `LoadTick` loads the state (an empty one
if it cannot be parsed), `ReadSpool` reads up to `MaxRead` events and moves the offset in
memory, `RefuseLine`, `StoreLine` and `RejectLine` are the gates in the code's order (privacy,
signature, rate, `max_events_per_tick`) and the append, of which the last raises; `OpenFile`
truncates the state file, `FillFile` writes it. `BreakTick` raises or kills. `Remembered` keeps the
last `MaxKept` signatures of the stimulus type, 256 in `policies/dedupe.py:23`, and forgets the
one remembered first.

*Left out.* Several collectors in one file, dwelling, the force flag.

### 2.6 ConnectorVault

*State.* `states` and `row` are the two tables, `vault` the file, `request[q]` an operation;
`spent`, `issued` and `valid` are the providers' side, which accepts the last refresh token it
issued. `truth` is what the vault would hold had every change been one step.

*Steps.* `PrepareAuthorization`; `SelectState`, `PopState`, `ExchangeCode` and the saving complete
it; `StartRefresh` and `ExchangeRefresh` refresh, `StartDisconnect`, `DropRow` and `Erased`
disconnect. Every change of a secret is `ReadVault`, `OpenVault` (the truncation) and `FillVault`,
and the row is written behind the secrets. `KillRequest` stops one anywhere.

*Left out.* Client credentials, scopes, expiry times, the policy of the actions.

### 2.7 ChannelListener

*State.* `arrived`, `keyOf` and `confirmed` are Telegram's side, `file` the offset in the state
file, `keys` the identifiers in `cognitive_events`, `caller[c]` a tick or a webhook request.

*Steps.* `LoadState`, `Poll` or `LosePoll` (the answer is lost, but Telegram has confirmed), for
each update `SkipUpdate`, `StartUpdate` with `RunAgent`, or `RefuseUpdate` where the identifier
is taken and the loop raises, `PassBatch`; then the merge of the state: `MergeEvents`,
`OpenState` and `WriteState`. `LoadOther` is a tick for other channels, `ReceiveHook` a webhook.
`Break` raises or kills.

*Left out.* The counters and the list of recent events in the file, sending.

### 2.8 ChatMessage

*State.* `run` is the row of the run, reduced to status and text, `answer` the row of
`chat_messages`, `worker` and `lister[s]` the threads.

*Steps.* The worker's `ReadAnswer`, `MarkRunning`, `EndRun` or `RequestApproval` with `PauseRun`,
`ReadRun`, `WriteAnswer`, `FailRun` (its except branch), `LoseWorker`; the listing's `SelectAnswer`,
`GetRun`, `CopyText`, `UpdateAnswer`; `Decide` and `CancelRun` move the run meanwhile.

### 2.9 JanusMemory

*State.* `memory`, `link` and `owner` are columns of `active_memory_candidates` (status,
`promoted_knowledge_id`, `decision_id`), `knowledge` is
`cognitive_knowledge` as far as Janus inserts it, `activation` the status of the decision's
activation, `router` the thread that recorded it and is still waking the agent.

*Steps.* A correction (`CorrectCandidate`, `CorrectDecision`, `Decline`) runs `SetStatus`; then
`LookAtCandidate`, `CheckKnowledge`, `AppendKnowledge` and `MarkPromoted` (promotion) or
`ReadLink` and `ArchiveKnowledge` (retraction); the cascade over the other candidates of the
decision is `ReadCandidates`, `NextCandidate`, `LastCandidate`, and passes over those that have
the status already. Of a correction that named a candidate, `FindDecision` reads whose
candidates those are. `RecordCandidate` is the router with a later decision whose model names a
candidate that is there (`INSERT OR REPLACE`, `store.py:518`): the row is a candidate again,
without its link and under the later decision, wherever the corrections stand. `ReadActivation`,
`SkipActivation`, `DeclineActivation`, `Accept` and `PrepareActivation` move the activation,
`RouterEnds` is the router's own last write. `Stop` raises or kills.

*Left out.* Texts, task contexts, muted scopes, the journal, the deletion of a
decision's rows, the activations of later decisions.

### 2.10 JanusDeepDive

`dive` is the status of the row, `results` counts the rows of the other table. `RequestDive`
(with whatever status the client likes, `service.py:323`), `ApproveDive`, `RejectDive`,
`DeleteDive` and `DeleteInPart` are requests of clients, each one transaction. `DeleteDive`
names the identifier and clears both tables; `DeleteInPart` names a source, an episode or
several fields at once, which the two tables know to different extents (`service.py:718`), so
that it may take the row and leave results, or the reverse. `StartDive`, `RecordResult` and
`CompleteDive` are the three statements of an execution behind `LookAtStatus`. `KillDive` stops
an execution anywhere. What the properties count is in `gathered`, `shared`, `spared` and
`trimmed`.

### 2.11 Composition

What shares state is one module: the runs with their approvals, the queue with its
wakeups and triggers, the goal with its tasks, runtimes and requests. The three modules
`MCCollectorTicks`, `MCServices` and `MCCognition` hold components that share none. A variable
`part` says which of them moves in a behaviour, so that every initial state and every
step of each is explored in one run, but no product of them; the fairness of each holds
in the behaviours that are its own. Some components come in two parts with bounds of
their own, as `TimersSpec` of `MCRuntimeQueue` does for wakeups and triggers: what is not
wanted in a part is over or out of reach from its beginning. That a component behaves in the
joint specification as it does alone is a theorem for each of the three (`TicksHaveParts`,
`ServicesHaveParts`, `CognitionHasParts`), so that what section 4 proves of a component holds there
as well.

### 2.12 Abstract specifications

`ApprovalContract` has, per run, a decision (none, pending, done, rejected), whether the
action was performed and whether the run is reported as succeeded. It promises that
nothing is performed without a request for approval, that a decision never becomes
pending again, and that neither "done" nor "succeeded" is recorded of an action that was
not performed. It does not promise that a rejected action was not performed or that an
action is performed once: with racing requests the code keeps neither.
`RunApproval!ImplementsContract` is the refinement.

`ConsumerContract` has, per consumer, a position, what it has settled and what it has
lost to retention. Positions only advance; a copying consumer settles events one behind
the other and never advances over one it has neither settled nor lost; retention takes
events only up to some consumer's position. `CollectorLog!ImplementsContract` is the
refinement, with "settled" for handled or dead-lettered.

`ChannelContract` has the updates with their identifiers, the agent's starts, what is handled,
what Telegram has forgotten and what the state file says. It promises that updates are
handled one behind the other, each behind the one start of the agent for its identifier,
and that none is forgotten, and no offset saved behind it, before it is handled to the end.
It does not promise that a saved offset never goes back, since an older copy may be written
over it, nor that an update is handled at all, since a clashing identifier blocks the channel.
`ChannelListener!ImplementsContract` is the refinement, with `confirmed` for what is forgotten and
the offset that a tick would read from the file for what is saved.

Where no separate module was worth stating, a history variable plays the abstract
state: `truth` of `ConnectorVault`, `ever` and `good` of `TaskGraph` say what really is, and the
properties compare rows and files with them.

## 3. The runs

Several properties are conjunctions of parts that have names of their own.

| run | instance | shows |
|---|---|---|
| `RunApproval_faults` | 1 run, every kind of tool, 2 handlers, 2 turns of 1 step, 1 fault | `TypeOK`; `RecordsAreBacked`: what the rows say was done was done (`DecisionIsBacked`, `SuccessIsBacked`); `CancelBoundsWork`: a cancel leaves at most one tool to start; the contract |
| `RunApproval_serial` | 1 run, either planned by a model or explicit and preapproved; 2 inputs, 1 handler, 3 turns of 2 steps, fair threads | `ApprovalTellsAll`: with serialised requests an action is performed once, never when rejected, and with the recorded input; every run settles; a cancel in time ends in a cancelled run |
| `RunApproval_late_pause` | violation | the worker pauses a run whose approval is already decided |
| `RunApproval_runs_twice` | violation | two racing approvals perform the action twice |
| `Collector_ticks` | *log*: 1 tick and 1 that only prunes, memory and Janus, 3 events, or 2 and a tick that raises or dies; *race*: 2 ticks over 2 events that run Janus at once; *tick*: 2 overlapping ticks, 2 lines, 1 fault or 1 minute; *turns*: one tick at a time, 3 fit lines, 2 minutes; *vault*: 2 operations at once, 2 providers, 3 operations, 1 killed (1 provider) | `SettlingIsEarned`: nothing is acknowledged that was not handled, order is kept, dead letters are earned; the consumers' contract; `LinesAreAccountedFor`: no line is passed unjudged, no duplicate is refused whose first was not stored; `GatesHold`: no signature again while it is remembered, budgets kept; a refused line blocks the spool for good; `ConnectionsAreTrue`: rows, secrets and provider agree |
| `CollectorLog_serial` | 1 fair tick after the other, all kinds but the mirror, 2 events, 1 fault | `SettledOnceAndKept`: without a fault no event is processed twice or lost behind its acknowledgement; retention takes unread events only from a consumer without an offset; every event is reached, also behind a fault |
| `CollectorLog_unread_deleted` | violation | Janus fails on its first event and retention deletes it before the retry |
| `RuntimeQueue_timers` | 2 runtimes with 1 wakeup, with 2 evaluations and 1 trigger with a limit of 2, or with 1 event of a user; 1 fault | a fired wakeup has its event; `FiringsAreBounded`: wakeups stop, and how far a trigger's limit can be overshot; `LossIsBounded` |
| `Cognition` | *queue*: 2 fair runtimes, 3 events of a request, a pause, an urgent control event and another type; *wakeup*: 2 fair runtimes, 1 wakeup; *memory*: 1 candidate, 2 requests at once, 3 corrections, 1 that stops; *replaced*: the same one request at a time, with a later decision that replaces the candidate; *dive*: 2 executions, 2 requests, 2 approvals, 1 death | an event runs once, at most one overtakes a pause, every event is popped; `KnowledgeFollows`; `RefusalStays`; `DivesAreBacked` |
| `TaskGraph_cycles` | 2 runtimes, or 1 with a request or with other goals; 2 tasks in sight; 4 graphs, also a cyclic one and one with a repeated item; 3 repairs, 1 of which fails half-way; 3 tasks, 1 fault; fair | `TypeOK`; `TasksStartInTurn`: once, behind their dependencies; a recovering task has its repairs; a completed goal is earned; only unfinished or cyclic work, or work out of sight, keeps a task waiting; a goal whose tasks are done is decided |
| `TaskGraph_repaired` | violation | what depends on a repaired task is never ready |
| `Services` | *listener*: 2 ticks or a tick and a webhook, 2 updates, 2 identifiers, 1 fault (2 ticks: none); *chat*: 2 listings, 2 pauses; *tick*: 2 ticks, 2 lines, 1 fault; all fair | the listener's contract: updates in order, none skipped, none answered twice; a clashing identifier blocks its channel for good; `SettledIsTrue`; updates, outcomes and lines are got to in the end |

### 3.1 Bounds

- *Two handlers* are enough for every race between requests: each property of a run
  compares one record with one action, and a third request only repeats what one of the
  two can do behind the other. They take turns without limit, so that three or more
  requests one behind the other, also two overlapping a third, are covered.
- *One run*: runs share no row.
- *Two or three turns of one or two steps*: first, middle and last turn, a step with and
  without a successor.
- *One fault*: behind a crash the worker is gone and the handlers start afresh; a second
  one finds nothing new but aborted handlers. The same holds of ticks, operations,
  corrections and executions, of which each is killed at every step.
- *Two or three events, batches of at most two, two attempts*: an event in front of,
  behind and between failing ones; a batch that is cut off; one retry before the dead
  letter. *Two ticks*: the races are between two reads and writes of one row. Where a mirror copies,
  a second tick only copies again, so *race* begins it behind memory. `MaxEvents` and
  `Retain` of `CollectorLog` are below the number of events, so that retention and the cut of
  a saved state happen.
- *Two runtimes or evaluations* race for one row; a third only repeats what the second
  does, and the bounds that `FiringsAreBounded` states grow with their number. *Three
  submitted events* put a pause in front of and behind two others. The `MaxEvents` of
  `RuntimeQueue` is no lower than what all of them can push, so that no push waits.
- *Three tasks, teams of two*: a chain, a cycle of two, a repeated item, a task with one
  or two repairs, or a request's task behind a graph of two. The proofs are for any graph.
  *Two tasks in sight*: of three tasks one is always out of sight, a planned one or a
  dependency; with other goals, every one may be. `TaskGraph_repaired` has all in sight.
- *Two lines of two signatures or poisoned; read and stored two at a time, one a
  minute*: a duplicate, an exhausted budget and a new minute, a line that raises in front
  of a good one. A tick of `Services` reads one line at a time, so that a tick ends between;
  its lines are also private or no events at all. *One signature remembered*: a second one
  already pushes the first out, and the third line of *turns* comes behind that.
- *Two providers* share one file; *two prepared authorizations and two issued refresh tokens*
  are a rotation and a second authorization.
- *Two updates under two identifiers, one of them a webhook's*: a clash between two updates
  and one with a webhook; a poll that returns both, one or none.
- *Two pauses* let an approval be decided and another be asked for.
- *One candidate, three corrections*: promoted, retracted and promoted again, with every
  overlap of two. *One later decision*: what a replacement does to a correction it
  falls into does not depend on who made it. In *memory* nothing is replaced, in *replaced* nothing
  overlaps; together, and with a second candidate for the cascade, the inductive invariant
  was checked on two candidates and two corrections (2,754,270 states) and on one candidate
  and three corrections (1,614,227 states).
- *Two approvals, two requests for one deep dive*: an approval used up and one not, a row that
  is replaced in front of, between and behind the steps of two executions.

Symmetry is used in two runs without liveness: the ticks of `CollectorTick` in `Collector_ticks`
and the runtimes and evaluations of `RuntimeQueue_timers` are told apart by their names alone.

Deadlock is not checked where the system rests: when every run is over and nobody asks
for anything, when a goal has come to an end, when the bounded number of lines, updates,
operations, corrections or deep dives is used up.

### 3.2 Fairness

Fair is what a thread or loop that was started does next, never what a user or a service may do.

- `RunApproval!Fairness`: a thread that was started goes on executing. Nobody has to submit,
  approve, reject, edit or cancel. The liveness run has no faults: a process that dies
  takes the thread along, and nothing resumes the run.
- `CollectorLog!FairSpec`: `_collector_background_worker` ticks for ever, and time passes, so
  that a retry becomes due. Nothing makes routing succeed, so an event may fail until it
  is dead-lettered. An event that is old enough may be deleted before a consumer without
  an offset has read it; `EventsAreReached` counts that as reached, and the run of
  `NothingUnreadIsDeleted` shows that it happens.
- `TickFairness`: the same worker, here for its collection: some tick takes its next step.
- `RuntimeQueue!FairSpec` and `TaskGraph!FairSpec`: the one-cycle runner is called again and again
  (docs/COGNITIVE_AGENT_ARCHITECTURE.md:196), here by every runtime; a wakeup's time comes; the
  tool finishes its graph and a request in hand is answered. Users push finitely many
  events: in front of an endless row of urgent ones a normal one would never be popped.
  `CognitionFairness` restates it per part.
- `ListenerFairness`: threads finish what they began, and a client keeps asking for a tick:
  strongly fair, because a webhook or a tick for another channel takes its turn in between.
- `ChatFairness`: the desktop lists its chats again and again; the worker may die.

### 3.3 Disagreements with the texts

1. `orchestrator.py:157` tells the user that the run is "paused until a required approval is
   decided". The approval is visible before `pause_run`, an UPDATE without a condition: a
   decision in between is overwritten, and the run is paused for ever
   (`RunApproval_late_pause`).
2. `approvals.py:171` and `runtime.py:26` refuse an approval that is not pending, but the test
   and the mark stand around the tool's execution in separate transactions: two requests
   perform the action twice (`RunApproval_runs_twice`).
3. `docs/JANUS_REFLEX_ARCHITECTURE.md` wants events "replayable, crash-safe, and
   independently consumable" with "retention based on acknowledged offsets". The minimum
   is taken over the offsets that exist, so that a consumer whose first event failed does
   not count, and the event is deleted before its retry (`CollectorLog_unread_deleted`).
4. `docs/COGNITIVE_AGENT_ARCHITECTURE.md:120` says of recovery that it "preserves parent/repair
   task links so goals can continue". A repaired task stays `recovering`, and `ready_tasks`
   (`goals.py:215`) counts only completed dependencies: what depends on it is never ready
   (`TaskGraph_repaired`).

Reading the code for the modules showed more, which the specifications allow and the
properties except by name:

- an approval of a cancelled run can still be approved and performs its action; a cancel
  that read the run before it finished turns a finished run into a cancelling one; a tool
  that answers `needs_approval` itself leaves a paused run without an approval; a process
  that dies leaves its runs planned or running;
- a tick that dies between a consumer's acknowledgement and its save loses what it acknowledged
  (hence `SettledOnceAndKept` speaks of behaviours without faults, and `EventsAreReached`
  excepts such a consumer); a consumer that a profile has switched off keeps its offset and
  holds retention back;
- overlapping ticks overwrite `collectors_state.json` or tear it, yet the gates hold: offset,
  signatures and counts of a state are lost together, and the lines behind the older offset are
  judged again. What lets a signature through twice or exceeds a budget is a line that one tick
  had no budget for, or read before it was written to its end, and another one stores (`Belated`
  in `GatesHold`); a signature also comes again, with one tick at a time and no fault, once 256
  others of its type have been stored behind it (`Forgotten`); `SourceGate` has the same load
  and save around every ingested envelope, so that any overlap stores an event twice;
- a change of one provider's secret can undo another's (`Undone`: the file differs from what
  single steps would have made of it); a later change of the same secret makes it good. Where
  operations on a provider have crossed or died half-way (`crossed`, `killed`), a new
  authorization makes it good if nothing crosses that one and the provider sends a
  refresh token; a second
  authorization without a refresh token leaves the old one in the vault for good
  (`orphaned`); the OAuth state is consumed before the exchange, so that a failed exchange
  means a new authorization;
- a run that moves behind an outcome that a listing or the worker has read already (a second
  decision, a late pause), or is carried out before the worker has looked at what it had
  paused, leaves a settled chat answer as it was (`hasty`);
- `docs/JANUS_REFLEX_ARCHITECTURE.md:674` wants every correction to archive promoted knowledge;
  overlapping or dying corrections leave some, and a cascade does not repair it (`suspect` in
  `InvalidIsRetracted`); two corrections can promote one candidate twice, and one that dies
  behind the record leaves it without a row that names it (`torn`); a later decision whose model
  names a candidate takes it from the decision it belongs to, drops the link to the knowledge it
  was promoted to, which stays and which no correction reaches any more (`dropped`), and makes a
  candidate that was refused one again; deleting Janus's rows does not delete the knowledge
  promoted from them;
- one approval of a deep dive can be executed twice, if two executions look at it in front of
  either's first write (`shared` counts the looks); a result can be recorded behind a deletion, and
  a deletion of a source leaves results of the requests it takes (`spared` counts both); a
  deletion that names other fields takes results and leaves the request completed, and a client
  may ask for a deep dive that is completed from the start (`trimmed`);
- of the tasks of all goals only the 200 updated last are seen: a planned task behind
  them is never started, and a dependency completed in front of them no longer counts
  (`InSight` in `OnlyUnfinishedWorkStalls`).

## 4. The proofs

`RunApprovalProofs` proves, for any sets of runs, handlers, tools and inputs, any bounds
and any number of faults:

| theorem | says |
|---|---|
| `TypeCorrect` | `Spec => []TypeOK` |
| `RecordsHold` | an approval recorded as carried out, and a run with an approval that is reported as succeeded, were performed |
| `DecisionsStay` | no step takes a decision back |
| `CancelIsBounded` | behind a recorded cancel at most one more tool starts |
| `ContractHolds` | `RunApproval` implements `ApprovalContract` |
| `SerialisedDecisions` | with one handler and no fault: performed at most once, never when rejected, with the recorded input |

`RuntimeQueueProofs` proves, for any sets of runtimes, evaluators, wakeups and triggers, any
bounds and any number of faults:

| theorem | says |
|---|---|
| `TypeCorrect` | `Spec => []TypeOK` |
| `EventsRunOnce` | the agent runs at most once for an event |
| `FiringsAreBacked` | a wakeup recorded as fired has its event |
| `PausesComeNext` | at most one other event overtakes a PAUSE in each runtime |
| `FiringsStayBounded` | how often a wakeup is pushed, and by how much a trigger overshoots its limit |
| `LossStaysSmall` | popped requests that nobody records are at most one per runtime and fault |

`TaskGraphProofs` proves, for any runtimes and requests in any teams, any graphs and repairs,
any bounds and any number of faults:

| theorem | says |
|---|---|
| `TypeCorrect` | `Spec => []TypeOK` |
| `StartsAreInTurn` | a runtime starts a task once, and only behind dependencies that were completed |
| `RecoveriesAreBacked` | a task in recovery has repairs, which are in the table and others |
| `CompletionsAreEarned` | a cycle that completes the goal saw only tasks once completed or repaired |

`CollectorLogProofs` proves, for any consumers in any order, any number of ticks at a time, any
limits and any number of faults:

| theorem | says |
|---|---|
| `TypeCorrect` | `Spec => []TypeOK` |
| `SettlingHolds` | nothing is acknowledged that was not settled or deleted, consumers keep the order, dead letters are earned |
| `ContractHolds` | `CollectorLog` implements `ConsumerContract` |
| `EachEventOnce` | with one tick at a time and no fault: no event is processed twice, and what is acknowledged is in the saved state, submitted or pushed out |
| `NewcomersOnlyMiss` | with one tick at a time: retention takes unread events only from a consumer without an offset |

`CollectorTickProofs` proves, for any ticks, signatures, limits and bounds:

| theorem | says |
|---|---|
| `TickTypeCorrect` | `TickSpec => []TickTypeOK` |
| `EveryLineIsAccountedFor` | no line is passed unjudged, none refused as a duplicate of what is not stored |
| `GatesHoldAlways` | no signature again while it is remembered, no budget exceeded, but by way of a belated line |
| `PoisonHolds` | a line that the log refuses blocks the spool for good |

`ConnectorVaultProofs` proves, for any providers, any number of requests at a time and of kills:

| theorem | says |
|---|---|
| `VaultTypeCorrect` | `VaultSpec => []VaultTypeOK` |
| `ConnectionsStayTrue` | rows, secrets and providers agree, with the exceptions the property names |
| `TicksHaveParts` | log, tick and connections behave beside each other in `MCCollectorTicks` as alone |
| `TicksTypeCorrect` | `TicksSpec => []TicksTypeOK` |

`MessagingProofs` proves, for any listings and pauses, and for any requests in any groups, any
identifiers and any number of faults:

| theorem | says |
|---|---|
| `ChatTypeCorrect`, `ListenerTypeCorrect` | the type invariants of `ChatMessage` and `ChannelListener` |
| `SettledAnswersAreTrue` | a settled answer has the status and the text of its run |
| `ListenerKeepsContract` | `ChannelListener` implements `ChannelContract` |
| `MessagesHandledOnce` | the invariant under it: no update is passed over unfinished, no identifier starts the agent twice |
| `BlockedUpdatesBlockForGood` | a clashing identifier blocks the channel for good |
| `ServicesHaveParts` | listener, chat and tick behave beside each other in `MCServices` as alone |
| `ServicesTypeCorrect` | `ServicesSpec => []ServicesTypeOK` |

`JanusProofs` proves, for any candidates, requests, later decisions, executions and invalidating
statuses, any bounds and any number of stops and deaths:

| theorem | says |
|---|---|
| `JanusTypeCorrect`, `DiveTypeCorrect` | the type invariants of `JanusMemory` and `JanusDeepDive` |
| `KnowledgeFollowsTheUser` | what the user retracts is not left as knowledge, and knowledge is what its candidate names, or a later decision replaced that candidate |
| `RefusalsStay` | a refusal that nothing disturbed stays |
| `DivesHold` | deep dives have no more results than approvals and looks at an approval that another execution was looking at; a completed one has its result unless a client took it away or said so; behind a deletion is what it left and what was under way |
| `CognitionHasParts` | queue, candidates and deep dives behave beside each other in `MCCognition` as alone |
| `CognitionTypeCorrect` | `CognitionSpec => []CognitionTypeOK` |

*Assumptions.* The named ASSUMEs of the modules: bounds and limits are naturals, a limit that
must let something through, or is how much is remembered or seen (`MaxKept`, `Window`), is
positive, marks such as `None`, `Torn`, `Private` or `"none"` are none of the values they stand
beside, sets of actors of two kinds are distinct. `QueueConstants` and `LogConstants` add that
runtimes, evaluators and ticks are finitely many, which threads and processes are and which
counting them takes; `LogConstants` that the order of consumers is not empty and every kind is
one of the four the code has; `GraphConstants` that the local identifiers of a graph or a repair
are numbered from 1. Three theorems assume more in their own statements: `SerialisedDecisions`
that there is one handler and the bound on faults is 0, `EachEventOnce` and `NewcomersOnlyMiss`
that there is one tick (`OneTick`). TLC evaluates the ASSUMEs in every run.

*Inductive invariants.* None of the properties is inductive on its own rows, since an
UPDATE without a condition writes what a thread decided long before. The invariants
therefore say what each thread may be about to write:

- `TypeInv` adds that a worker in front of a step has one, so that the count stays natural.
- `BackingInv` adds what a handler and a worker know by their program counters: a handler
  past the replay works on an approval that exists and was performed
  (`HandlersAreBacked`); a rejecter's verdict is not "succeeded"; a worker that has not
  asked yet has no approval, and one that has asked does not have "succeeded" as its
  verdict (`WorkersAreHonest`). With these an unconditional write is harmless to the
  property, whatever it overwrites.
- `LateInv` allows a late tool only to a worker that stands behind the one tool it had
  started, in front of a checkpoint or past the last of them.
- `SerialInv` relates the only handler's place to what the approval says.
- `Inv` of `RuntimeQueueProofs` says what a runtime's locals mean in the tables: behind a look it
  has an event, behind the pop a consumed one, in front of the agent one whose key it has
  inserted and that nobody has run, and no two runtimes are there with the same event
  (`CyclesAgree`, `OneRuns`); what it pops for a pause is a PAUSE, and a runtime that took an
  event in front of a PAUSE looks before it takes another (`PauseIsSeen`).
- `Inv` of `TaskGraphProofs` says of a cycle that it starts a task it has not started, behind
  dependencies that were completed, that the repairs it has made are in the table, and
  that a verdict that completes the goal is about tasks that are done (`LocalsAgree`); of the
  table that what it calls completed was (`TableAgrees`); and that the identifier a request
  is about to insert is nobody else's (`IdentifiersAreFresh`), without which an insertion could
  replace a row and its dependencies.
- `CountInv` of `RuntimeQueueProofs` counts for each wakeup the events pushed and the runtimes that
  have read it as due and may still push (`WakeupIsCounted`), for each trigger the evaluations
  that stand between the event and the count or in front of both (`TriggerIsCounted`). A
  fault moves every runtime or evaluation at most once from one count to the other, hence
  the bounds. What a runtime pops for a pause is a pause (`PausesAreHeld`), so that nothing
  else is dropped.
- `LogInv` says what a tick carries (`Agrees`): its batch holds whatever its consumer has still
  to reach in front of the batch's last event, whatever another tick acknowledges, retries or
  deletes meanwhile, since what is settled or missed stays so; hence what lies in front of
  the last event processed, of a failed event and of a dead letter is settled.
  `AttemptsAreMade` adds to the attempts on record those of ticks that have failed and not
  recorded it, so that two ticks that race in `retry_later` count too low and never too high.
  The same invariant gives the refinement: each step of a tick is one of `ConsumerContract`'s
  `Settle`, `Advance` and `Prune`, or changes none of the three tables the contract sees.
- `SerialInv` of `CollectorLogProofs` holds for a single tick until something raises: what the tick
  has in hand, together with what is settled, contains everything it has passed
  (`KeepsAll`), and nothing ahead of it has been touched (`AheadIsUntouched`). It is needed next to
  `LogInv`, because between the acknowledgement and the save the tables alone do not have the
  events any more.
- `TickInv` says of every state, the one in the file and that of each tick, however old, what it
  knows of the log: each line behind its offset was judged (`Judges`), its signature is
  remembered, or the line was refused, or as many others as are remembered were stored behind it
  (`Remembers`, `Outdone`); what is remembered is in the log, each signature once (`Recalls`);
  and its count of the minute covers the lines of the minute that it has not still before it
  (`Counts`). States are only copied, extended or lost as a whole, so none is ever wrong, only
  old, and an old one stores again what is there, which inserts nothing. The attempt at this
  proof showed that a lost state file needs no exception in `GatesHold`; only belated lines do,
  and the property says so.
- `VaultInv` says of each provider, in three layers, what holds always, while nothing crosses on it
  and if nothing has (`Going`). Always, no refresh token in the file or in a copy of it that
  is about to be written, however old, is later than the last one issued (`Bounded`). While
  operations do not cross, an authorization has stored what it has done with (`Anew`), hence
  the provider is sound when it ends, whatever was before. If none has crossed, the operations
  are in order (`InOrder`: its row and its secrets are what the steps taken so far make of
  them, and at most one refresh token is on its way to the file), no copy has a later token
  than the file ought to have (`NoLaterToken`), and, if no request was killed half-way, row,
  secrets and provider agree up to the steps that are still to be taken (`Whole`). All of it
  is said of `truth`, what single steps would have made of the file, so that it survives the
  writes that undo another's change; the property speaks of the file where the two agree.
- `ChatInv` says that an outcome which somebody holds, or has written, is the run's, unless the run
  moved behind it (`Honest`, for the worker and for each listing); that nobody but the worker
  ends a run that it has not yet left (`RunIsOpen`), and that a settled run is finished and can
  no longer be cancelled (`SettledIsFinished`), which keeps a cancellation from being an exception.
- `ListenerInv` says that every offset anywhere, in a tick, in a copy that a webhook is about to
  write back, in the file and on Telegram's side, has only finished updates behind it
  (`OffsetsSettle`). Old offsets may be written over newer ones; none is ever wrong. The
  refinement takes one fact more, `RunsAreRecorded`: a tick runs the agent behind the record of
  the update's identifier, and what has not arrived has none. Each step of a
  tick, a webhook or Telegram is then a step of `ChannelContract` or leaves what it sees alone.
- `JanusInv` says what holds of the candidates and of the knowledge while a single correction is
  under way, place by place (`Lone`), and that a correction which was not alone has marked
  all candidates as suspect and torn (`Flow`); one that is alone and dies between a record and
  its row marks its own candidate only, and `Lone` goes on to hold of the others. A candidate
  that is replaced under a correction only loses a link: what the correction does next is
  the same, and the knowledge concerned is in `dropped`.
- The joint specifications hold components without common variables. Each action of one leaves
  all variables of the others alone (`TicksStepParts` and its like have one step per part), so
  a joint step is a step or a stutter of each, and no invariant has to be proved again.
- `DiveInv` of `JanusProofs` counts: the results gathered, those still to come and the approval
  that is left in the row are no more than the approvals and the shared looks
  (`ApprovalsSuffice`); an execution that has recorded its result may rely on it unless
  results were deleted (`ExecutorsAgree`); and without a row the results and those to come are
  no more than the deletion spared (`DeletionAccounts`).

Each of these was checked by TLC on a small instance before it was proved. No proof needs what
a recursion or a fold computes: where a least or a next element is taken (`FirstOf` and
`ReadUpTo` of `CollectorTick`), the modules choose it by what it is, and a lemma shows that it
exists, because a set of numbers that is not empty has a least member.

*Only model-checked*: liveness (`RunSettles`, `CancelTakesEffect`, `EventsAreReached`,
`EventsAreTaken`, `OnlyUnfinishedWorkStalls`, `GoalIsDecided`, `UpdatesAreHandled`,
`OutcomeReachesChat`, `LinesAreJudged`), which needs ENABLED. Every other property of a passing
run is a theorem.

## 5. Plan

Done: all modules of section 2, and the theorems of section 4 about each of them. Left, most
important first:

1. The exceptions that are left are each what the code does not prevent, and narrower than the
   history variables they began as. `suspect` of `JanusMemory` still covers all candidates after
   an overlap or a stop; it could be narrowed to those that the corrections reach.
2. An abstract specification of `ConnectorVault`, connections that change in one step. The code
   keeps it only where nothing crosses, dies or undoes another's write: as a contract
   it would be `ConnectionsAreTrue` with its exceptions once more.
3. `JanusRouter`: the records that `handle_event` leaves behind when it fails half-way and is
   retried; episodes, task contexts and muted scopes.

## 6. Not modelled

What a language model decides is an arbitrary choice among the outcomes the code tells
apart. What tools do to a desktop, a browser or files, prompts, wording and logging, the
native helpers, the applications and the packaging are left out: they have no state of
the system's own, or none that a second actor reads (such as the browser extension's queue of
undelivered events). They are most of the source: the
catalogues of collectors, connectors and skills, the tools and the adapters are tables
and one-way translations. Stores that a single caller appends to or overwrites as a whole
(settings, personas, skills, learning records) have no interleaving to check.
`janus/router.py` `handle_event` records a route before it interprets the event and another at
the retry; of what it records only the candidate that replaces another one is modelled
(`RecordCandidate`), which corrections do read. Episodes, task contexts and muted scopes are not:
the properties are about none of them. `ChatMessage` leaves out how a run that has settled may
still move (`api.py:1755-1763` fails a run that succeeded; a worker finishes as cancelled what
waits for an approval, `orchestrator.py:122-147`; a second decision that raced the first,
`runtime.py:55-62`): each falls under `hasty`, which already excuses an answer behind which its
run moved. A webhook brings one message; one with several is several webhooks without the
writes of the file between them. Telegram drops updates that nobody fetches for a day;
`ChannelListener` lets it keep them. `SourceGate`'s ingestion is not modelled
either: it has no property that an overlap
leaves standing.
