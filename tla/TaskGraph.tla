------------------------------ MODULE TaskGraph ------------------------------
(***************************************************************************)
(* One goal and its task graph (cognition/goals.py), and who works on it:  *)
(* the tool that writes the graph, the runtimes that execute its ready     *)
(* tasks and repair those that fail (autonomous.py, recovery.py), and the  *)
(* requests of the user, which join the goal with a task of their own      *)
(* (recorder.py).                                                          *)
(*                                                                         *)
(* Every statement on the shared database is a transaction and a step of   *)
(* its own.  Tasks are numbered as their identifiers are drawn; what a     *)
(* task says and what the agent does with it are left out: a run ends in   *)
(* one of the statuses that reflection gives it.  Of other goals there is  *)
(* only that their tasks are updated too.                                  *)
(***************************************************************************)
EXTENDS Naturals, Sequences, FiniteSets

CONSTANTS
    Runtimes,    \* threads and processes that run cycles
    Requests,    \* requests of users that focus on the goal
    Others,      \* who works on other goals
    Teams,       \* the sets of them that may be there together
    Graphs,      \* the task graphs a tool may write, as sequences of items
    Repairs,     \* the recovery proposals of the model, likewise
    Reflections, \* the reflection statuses a run may be given
    Window,      \* tasks that ready_tasks reads, of all goals those updated last
    MaxTasks,    \* bound: tasks
    MaxFaults,   \* bound: cycles and requests that raise or are killed
    None

Tasks == 1..MaxTasks

\* A task to insert: its identifier and those it depends on.  In Graphs and in
\* Repairs they are local, numbered from 1; a repair without a request is not
\* inserted, but has an identifier that others may depend on.
Items == [id : Tasks, after : SUBSET Tasks]
IdsOf(items) == UNION {{items[i].id} \cup items[i].after : i \in 1..Len(items)}

TaskStatuses == {"planned", "running", "completed", "recovering",
                 "waiting_approval", "failed", "blocked", "cancelled"}
GoalStatuses == {"active", "waiting", "completed", "blocked"}
AllReflections == {"passed", "needs_approval", "failed", "blocked", "inconclusive"}

ASSUME GraphConstants ==
    /\ Runtimes \cap Requests = {} /\ (Runtimes \cup Requests) \cap Others = {}
    /\ Teams \subseteq SUBSET (Runtimes \cup Requests \cup Others)
    /\ Graphs \subseteq Seq(Items) /\ Repairs \subseteq Seq(Items) \ {<<>>}
    /\ \A items \in Graphs \cup Repairs : IdsOf(items) = 1..Cardinality(IdsOf(items))
    /\ Reflections \subseteq AllReflections
    /\ Window \in Nat \ {0}
    /\ MaxTasks \in Nat /\ MaxFaults \in Nat
    /\ None \notin TaskStatuses \cup GoalStatuses \cup AllReflections /\ None \notin Tasks

VARIABLES
    \* tables cognitive_tasks, cognitive_goals
    created,  \* the tasks, in the order of created_at
    status, after,
    repairs,  \* metadata.recovery_task_ids
    newer,    \* updated_at: how many of the tasks were updated since, Window once
              \* that many were, those of other goals among them
    goal,     \* status of the goal
    \* locals
    graph,    \* items the tool has still to insert
    drawn,    \* task identifiers drawn so far
    job,      \* of a runtime's cycle and of a request, see Idle
    \* what really happened, for the properties only
    ever,     \* tasks that have been completed
    good,     \* tasks that have been completed or repaired
    ran,      \* tasks each runtime started
    covered,  \* tasks the cycle saw that last decided about the goal
    faults

table == <<created, status, after, repairs, newer>>
history == <<ever, good, ran, covered, faults>>
vars == <<table, goal, graph, drawn, job, history>>

Idle == [pc      |-> "idle",
         planned |-> {},    \* planned tasks, as read
         task    |-> None,
         result  |-> None,  \* reflection status, or the request's task status
         todo    |-> <<>>,  \* recovery tasks still to insert
         made    |-> {},    \* created_task_ids
         verdict |-> None,  \* goal status to write
         seen    |-> {}]    \* tasks the verdict is about

Over == [Idle EXCEPT !.pc = "done"]  \* it will not come, or not again

Procs == Runtimes \cup Requests \cup Others
Created == {created[i] : i \in 1..Len(created)}

Init ==
    /\ created = <<>>
    /\ status = [t \in Tasks |-> None]
    /\ after = [t \in Tasks |-> {}]
    /\ repairs = [t \in Tasks |-> {}]
    /\ newer = [t \in Tasks |-> Window]
    /\ goal = "active"
    /\ graph \in Graphs
    /\ drawn = Cardinality(IdsOf(graph))
    /\ \E team \in Teams : job = [p \in Procs |-> IF p \in team THEN Idle ELSE Over]
    /\ ever = {} /\ good = {} /\ covered = {}
    /\ ran = [r \in Runtimes |-> {}]
    /\ faults = 0

-----------------------------------------------------------------------------
(***************************************************************************)
(* The store.                                                              *)
(***************************************************************************)
Having(st, S) == {t \in Created : st[t] \in S}

\* A task is effectively completed if it is completed, or if it is in recovery
\* and all its repairs are: the least set closed under these two rules.
Closed(S, st, rep) ==
    \A t \in Tasks :
        \/ st[t] = "completed"
        \/ st[t] = "recovering" /\ rep[t] # {} /\ rep[t] \subseteq S
        => t \in S
EffectivelyCompleted(st, rep) ==
    {t \in Tasks : \A S \in SUBSET Tasks : Closed(S, st, rep) => t \in S}

\* A slip: a task in recovery counts as settled.
TerminalTooSoon ==
    IF Having(status, {"waiting_approval"}) # {} THEN "waiting"
    ELSE IF Having(status, {"planned", "running"}) # {} THEN None
    ELSE IF Having(status, {"blocked", "failed"}) # {} THEN "blocked"
    ELSE "completed"

\* The status a goal gets from its tasks, None for no change.
GoalIsTerminal ==
    IF Having(status, {"waiting_approval"}) # {} THEN "waiting"
    ELSE IF Having(status, {"planned", "running"}) # {} THEN None
    ELSE LET done == EffectivelyCompleted(status, repairs) IN
         IF Having(status, {"recovering"}) \ done # {} THEN None
         ELSE IF Having(status, {"blocked", "failed"}) # {} THEN "blocked"
         ELSE IF Created \subseteq done THEN "completed"
         ELSE None

\* The task n-th from the front is updated: those in front of it move back.
Pushed(n) == [t \in Tasks |-> IF newer[t] < n THEN newer[t] + 1 ELSE newer[t]]
Touch(u) == newer' = [Pushed(newer[u]) EXCEPT ![u] = 0]
InSight == {t \in Tasks : newer[t] < Window}

AddTask(item) ==
    /\ created' = Append(created, item.id)
    /\ status' = [status EXCEPT ![item.id] = "planned"]
    /\ after' = [after EXCEPT ![item.id] = item.after]
    /\ Touch(item.id)
    /\ UNCHANGED <<repairs, ever, good>>

\* update_task; metadata replaces what was there, so that it ends with rep.
UpdateTask(t, st, rep) ==
    /\ status' = [status EXCEPT ![t] = st]
    /\ repairs' = [repairs EXCEPT ![t] = rep]
    /\ Touch(t)
    /\ ever' = IF st = "completed" THEN ever \cup {t} ELSE ever
    /\ good' = good \cup EffectivelyCompleted(status', repairs')
    /\ UNCHANGED <<created, after>>

At(p, pc) == job[p].pc = pc
Goto(p, pc) == job' = [job EXCEPT ![p].pc = pc]
Done(p) == job' = [job EXCEPT ![p] = Idle]

\* So many tasks of other goals are updated that the one at the back is out of sight.
UpdateElsewhere(o) ==
    /\ At(o, "idle")
    /\ \E t \in InSight :
          /\ \A u \in InSight : newer[u] <= newer[t]
          /\ newer' = [newer EXCEPT ![t] = Window]
    /\ UNCHANGED <<created, status, after, repairs, goal, graph, drawn, job, history>>

-----------------------------------------------------------------------------
(***************************************************************************)
(* The tool that writes the graph: the goal is there and open while the    *)
(* tasks come one by one; a second task of one identifier raises.          *)
(***************************************************************************)
\* A slip: a task of an identifier that is there replaces it.
WriteGraphUpserts ==
    /\ graph # <<>>
    /\ graph' = Tail(graph) /\ AddTask(Head(graph))
    /\ UNCHANGED <<goal, drawn, job, ran, covered, faults>>

WriteGraph ==
    /\ graph # <<>>
    /\ IF Head(graph).id \in Created
       THEN graph' = <<>> /\ UNCHANGED <<table, ever, good>>
       ELSE graph' = Tail(graph) /\ AddTask(Head(graph))
    /\ UNCHANGED <<goal, drawn, job, ran, covered, faults>>

-----------------------------------------------------------------------------
(***************************************************************************)
(* A cycle of a runtime that found its queue empty.                        *)
(***************************************************************************)

\* ready_tasks reads the planned tasks first and the completed ones behind, each time
\* only among the tasks updated last.
ReadPlanned(r) ==
    /\ At(r, "idle")
    /\ LET planned == Having(status, {"planned"}) \cap InSight
       IN  planned # {} /\ job' = [job EXCEPT ![r].pc = "pick", ![r].planned = planned]
    /\ UNCHANGED <<table, goal, graph, drawn, history>>

\* A slip: a dependency that is over is taken for completed.
ReadyWhenOver(t) == \A d \in after[t] : status[d] \in {"completed", "recovering", "failed"}

Ready(t) == \A d \in after[t] : status[d] = "completed" /\ d \in InSight

\* A slip: the oldest planned task is taken if it is ready, else nothing.
PickOldest(r) ==
    /\ At(r, "pick")
    /\ \E i \in 1..Len(created) :
          /\ created[i] \in job[r].planned
          /\ \A j \in 1..(i - 1) : created[j] \notin job[r].planned
          /\ IF Ready(created[i])
             THEN job' = [job EXCEPT ![r] = [Idle EXCEPT !.pc = "start", !.task = created[i]]]
             ELSE Done(r)
    /\ UNCHANGED <<table, goal, graph, drawn, history>>

\* The first of those that are ready, or nothing to do.
Pick(r) ==
    /\ At(r, "pick")
    /\ \/ \E i \in 1..Len(created) :
            LET ready == {t \in job[r].planned : Ready(t)} IN
            /\ created[i] \in ready
            /\ \A j \in 1..(i - 1) : created[j] \notin ready
            /\ job' = [job EXCEPT ![r] = [Idle EXCEPT !.pc = "start", !.task = created[i]]]
       \/ (\A t \in job[r].planned : ~Ready(t)) /\ Done(r)
    /\ UNCHANGED <<table, goal, graph, drawn, history>>

\* A slip: the task is not marked before it runs.
StartUnmarked(r) ==
    /\ At(r, "start")
    /\ ran' = [ran EXCEPT ![r] = @ \cup {job[r].task}]
    /\ Goto(r, "run")
    /\ UNCHANGED <<table, goal, graph, drawn, ever, good, covered, faults>>

Start(r) ==
    /\ At(r, "start")
    /\ UpdateTask(job[r].task, "running", repairs[job[r].task])
    /\ ran' = [ran EXCEPT ![r] = @ \cup {job[r].task}]
    /\ Goto(r, "run")
    /\ UNCHANGED <<goal, graph, drawn, covered, faults>>

\* The proposal's local identifiers, drawn afresh.
Fresh(items) ==
    [i \in 1..Len(items) |-> [id |-> drawn + items[i].id,
                              after |-> {drawn + d : d \in items[i].after}]]

\* The run, its reflection, and what the recovery provider proposes: nothing
\* unless the task failed, and nothing without a model.
Run(r) ==
    /\ At(r, "run")
    /\ \E s \in Reflections :
          \/ /\ job' = [job EXCEPT ![r].pc = "finish", ![r].result = s]
             /\ UNCHANGED drawn
          \/ /\ s \notin {"passed", "needs_approval"}
             /\ \E p \in Repairs :
                   /\ drawn + Cardinality(IdsOf(p)) <= MaxTasks
                   /\ drawn' = drawn + Cardinality(IdsOf(p))
                   /\ job' = [job EXCEPT ![r].pc = "recover", ![r].result = s,
                                         ![r].todo = Fresh(p)]
    /\ UNCHANGED <<table, goal, graph, history>>

\* One recovery task is inserted; a second one of an identifier raises, and the
\* recovery is recorded as failed, without the tasks that are there by now.
Recover(r) ==
    /\ At(r, "recover")
    /\ LET item == Head(job[r].todo)
           rest == Tail(job[r].todo)
       IN IF item.id \in Created
          THEN /\ job' = [job EXCEPT ![r].pc = "finish", ![r].todo = <<>>, ![r].made = {}]
               /\ UNCHANGED <<table, ever, good>>
          ELSE /\ AddTask(item)
               /\ job' = [job EXCEPT ![r].pc = IF rest = <<>> THEN "finish" ELSE "recover",
                                     ![r].todo = rest, ![r].made = @ \cup {item.id}]
    /\ UNCHANGED <<goal, graph, drawn, ran, covered, faults>>

TaskStatusFor(s) ==
    CASE s = "passed" -> "completed" [] s = "needs_approval" -> "waiting_approval"
      [] s = "failed" -> "failed"    [] OTHER -> "blocked"

\* A slip: every failure counts as recovering, planned repairs or not.
FinishUnrepaired(r) ==
    /\ At(r, "finish")
    /\ UpdateTask(job[r].task,
                  IF job[r].result = "passed" THEN "completed" ELSE "recovering",
                  job[r].made)
    /\ job' = [job EXCEPT ![r] = [Idle EXCEPT !.pc = "judge"]]
    /\ UNCHANGED <<goal, graph, drawn, ran, covered, faults>>

\* The task's new status: recovering once repairs are planned.
Finish(r) ==
    /\ At(r, "finish")
    /\ UpdateTask(job[r].task,
                  IF job[r].made # {} THEN "recovering" ELSE TaskStatusFor(job[r].result),
                  job[r].made)
    /\ job' = [job EXCEPT ![r] = [Idle EXCEPT !.pc = "judge"]]
    /\ UNCHANGED <<goal, graph, drawn, ran, covered, faults>>

\* A slip: the goal is judged only while other tasks are open.
JudgeSkipped(r) ==
    /\ At(r, "judge")
    /\ IF GoalIsTerminal \in {None, "completed"} THEN Done(r)
       ELSE job' = [job EXCEPT ![r].pc = "settle", ![r].verdict = GoalIsTerminal,
                               ![r].seen = Created]
    /\ UNCHANGED <<table, goal, graph, drawn, history>>

\* goal_is_terminal reads the goal's tasks ...
Judge(r) ==
    /\ At(r, "judge")
    /\ IF GoalIsTerminal = None THEN Done(r)
       ELSE job' = [job EXCEPT ![r].pc = "settle", ![r].verdict = GoalIsTerminal,
                               ![r].seen = Created]
    /\ UNCHANGED <<table, goal, graph, drawn, history>>

\* ... and the goal is updated behind it.
Settle(r) ==
    /\ At(r, "settle")
    /\ goal' = job[r].verdict
    /\ covered' = job[r].seen
    /\ Done(r)
    /\ UNCHANGED <<table, graph, drawn, ever, good, ran, faults>>

-----------------------------------------------------------------------------
(***************************************************************************)
(* A request: begin_stimulus finds the goal open, adds a task for itself   *)
(* and marks it in a second transaction; finish_stimulus closes both.      *)
(***************************************************************************)
Focus(q) ==
    /\ At(q, "idle")
    /\ goal \in {"active", "waiting", "blocked"}
    /\ drawn < MaxTasks
    /\ drawn' = drawn + 1
    /\ job' = [job EXCEPT ![q].pc = "add", ![q].task = drawn + 1]
    /\ UNCHANGED <<table, goal, graph, history>>

AddRequest(q) ==
    /\ At(q, "add")
    /\ AddTask([id |-> job[q].task, after |-> {}])
    /\ Goto(q, "mark")
    /\ UNCHANGED <<goal, graph, drawn, ran, covered, faults>>

MarkRequest(q) ==
    /\ At(q, "mark")
    /\ UpdateTask(job[q].task, "running", repairs[job[q].task])
    /\ Goto(q, "answer")
    /\ UNCHANGED <<goal, graph, drawn, ran, covered, faults>>

\* The agent's run, and the task's status that follows from it.
Answer(q) ==
    /\ At(q, "answer")
    /\ \E s \in {"completed", "waiting_approval", "failed", "blocked", "cancelled"} :
          /\ UpdateTask(job[q].task, s, {})
          /\ job' = [job EXCEPT ![q] = IF s = "cancelled" THEN Over
                                       ELSE [Idle EXCEPT !.pc = "close", !.result = s]]
    /\ UNCHANGED <<goal, graph, drawn, ran, covered, faults>>

\* The goal follows the request's own task; a decision to stay warm keeps it
\* waiting.
CloseRequest(q) ==
    /\ At(q, "close")
    /\ goal' \in CASE job[q].result = "waiting_approval" -> {"waiting"}
                   [] job[q].result \in {"failed", "blocked"} -> {"blocked"}
                   [] OTHER -> {"completed", "waiting"}
    /\ covered' = {}
    /\ job' = [job EXCEPT ![q] = Over]
    /\ UNCHANGED <<table, graph, drawn, ever, good, ran, faults>>

-----------------------------------------------------------------------------
\* An exception leaves a cycle or a request, or its process is killed.
Abandon(p) ==
    /\ faults < MaxFaults
    /\ ~At(p, "idle") /\ ~At(p, "done")
    /\ faults' = faults + 1
    /\ job' = [job EXCEPT ![p] = IF p \in Runtimes THEN Idle ELSE Over]
    /\ UNCHANGED <<table, goal, graph, drawn, ever, good, ran, covered>>

CycleStep(r) ==
    \/ ReadPlanned(r) \/ Pick(r) \/ Start(r) \/ Run(r) \/ Recover(r)
    \/ Finish(r) \/ Judge(r) \/ Settle(r)
RequestStep(q) == AddRequest(q) \/ MarkRequest(q) \/ Answer(q) \/ CloseRequest(q)

Next ==
    \/ WriteGraph
    \/ \E r \in Runtimes : CycleStep(r) \/ Abandon(r)
    \/ \E q \in Requests : Focus(q) \/ RequestStep(q) \/ Abandon(q)
    \/ \E o \in Others : UpdateElsewhere(o)

Spec == Init /\ [][Next]_vars

\* The loop runs cycle after cycle (loop.py); started threads keep executing.
FairSpec ==
    /\ Spec /\ WF_vars(WriteGraph)
    /\ \A r \in Runtimes : WF_vars(CycleStep(r))
    /\ \A q \in Requests : WF_vars(RequestStep(q))
-----------------------------------------------------------------------------
(* The type invariant: what each column and each local may hold. *)
TypeOK ==
    /\ created \in Seq(Tasks)
    /\ \A i, j \in 1..Len(created) : created[i] = created[j] => i = j
    /\ status \in [Tasks -> TaskStatuses \cup {None}]
    /\ \A t \in Tasks : status[t] # None <=> t \in Created
    /\ after \in [Tasks -> SUBSET Tasks]
    /\ repairs \in [Tasks -> SUBSET Tasks]
    /\ newer \in [Tasks -> 0..Window]
    /\ goal \in GoalStatuses
    /\ graph \in Seq(Items)
    /\ drawn \in 0..MaxTasks
    /\ job \in [Procs -> [pc      : {"idle", "pick", "start", "run", "recover", "finish",
                                    "judge", "settle", "add", "mark", "answer", "close",
                                    "done"},
                          planned : SUBSET Tasks,
                          task    : Tasks \cup {None},
                          result  : AllReflections \cup TaskStatuses \cup {None},
                          todo    : Seq(Items),
                          made    : SUBSET Tasks,
                          verdict : GoalStatuses \cup {None},
                          seen    : SUBSET Tasks]]
    /\ ever \subseteq good /\ good \subseteq Tasks /\ covered \subseteq Tasks
    /\ ran \in [Runtimes -> SUBSET Tasks]
    /\ faults \in 0..MaxFaults

(***************************************************************************)
(* Safety, for any number of runtimes and requests, with faults.           *)
(***************************************************************************)

\* A runtime starts a task only when each of its dependencies has been completed,
\* though another runtime may run that dependency once more (goals.py,
\* ready_tasks; autonomous.py, run_once).
DependenciesCameFirst ==
    \A r \in Runtimes : \A t \in ran[r] : after[t] \subseteq ever

\* Two runtimes may both take a task they read as planned, and one may take the
\* task of a request in front of its mark, but no runtime starts a task again,
\* not even one that a fault left behind.
StartsOnce == \A r \in Runtimes : At(r, "start") => job[r].task \notin ran[r]

\* Tasks start once, behind what they depend on (autonomous.py, run_once).
TasksStartInTurn == DependenciesCameFirst /\ StartsOnce

\* A task in recovery has repairs, they are in the table, and they are others':
\* the repairs are inserted in front of the status that relies on them, and a
\* recovery that failed half way is none (recovery.py, _apply_proposal).
RecoveringIsBacked ==
    \A t \in Created : status[t] = "recovering" =>
        repairs[t] # {} /\ repairs[t] \subseteq Created \ {t}

\* A cycle that completes the goal saw only tasks that were once completed or
\* repaired, whatever is written between its reading and its update.
CompletionIsEarned == goal = "completed" => covered \subseteq good

(***************************************************************************)
(* Liveness.                                                               *)
(***************************************************************************)

\* The tasks that t waits for, directly and indirectly.
Ancestors(t) ==
    LET upTo[n \in 0..MaxTasks] ==
            IF n = 0 THEN after[t]
            ELSE upTo[n - 1] \cup UNION {after[d] : d \in upTo[n - 1]}
    IN upTo[MaxTasks]

\* A task stays planned for good only if it or one that it waits for is not among the
\* tasks updated last, or if it waits for one that is missing, that waits for itself, or
\* that was started and is not completed: nothing else, and no order of events, keeps
\* the runtimes from it.
Stalls(t) ==
    \/ t \notin InSight
    \/ \E d \in Ancestors(t) :
          d \notin InSight \/ d \in Ancestors(d) \/ status[d] \notin {"planned", "completed"}
OnlyUnfinishedWorkStalls ==
    \A t \in Tasks : []<>(status[t] = "planned" => Stalls(t))

\* Unless something raises, a goal whose tasks are all completed or repaired does
\* not stay active: whoever writes the last of them judges the goal behind it.
AllDone == Created # {} /\ Created \subseteq EffectivelyCompleted(status, repairs)
GoalIsDecided ==
    AllDone /\ faults = 0 ~> goal # "active" \/ ~AllDone \/ faults > 0

(***************************************************************************)
(* What the program's own texts say of it and TLC refutes.                 *)
(***************************************************************************)

\* "Preserves parent/repair task links so goals can continue": a task goes on
\* once all it depends on are completed or repaired.
GoalsContinue ==
    \A t \in Tasks :
        status[t] = "planned" /\ after[t] \subseteq EffectivelyCompleted(status, repairs)
            ~> status[t] # "planned"
=============================================================================
