----------------------------- MODULE RuntimeQueue -----------------------------
(***************************************************************************)
(* The event queue of the autonomous runtime (cognition/queue.py), and who *)
(* fills and empties it: the runtimes that run one cycle after the other   *)
(* (cognition/autonomous.py, loop.py; an API request, the command line, a  *)
(* tool), the wakeups they turn into events (wakeups.py), and the          *)
(* evaluators of triggers (triggers.py; API requests and tools).           *)
(*                                                                         *)
(* Every statement on the shared database is a transaction and a step of   *)
(* its own.  Events are numbered in the order of their creation.  What an  *)
(* event says is left out; what the agent does with it is one step.        *)
(***************************************************************************)
EXTENDS Naturals, Sequences, FiniteSets

CONSTANTS
    Runtimes,    \* threads and processes that run cycles
    Evaluators,  \* those that evaluate triggers against a stimulus
    Wakeups, Triggers,
    MaxFires,    \* max_fires of each trigger, 0 for no limit
    Pushed,      \* the events that users and tools push: kind and priority
    MaxSubmits,  \* bound: events that users and tools push
    MaxEvents,   \* bound: events pushed
    MaxFaults,   \* bound: cycles and evaluations that raise, and crashes
    None

\* REQUEST_EVENTS, CONTROL_EVENTS with PAUSE apart, and all others.
Kinds == {"request", "control", "pause", "other"}
Priorities == {"critical", "normal"}

ASSUME QueueConstants ==
    /\ Wakeups \cap Triggers = {} /\ None \notin Wakeups \cup Triggers
    /\ None \notin {"scheduled", "fired", "active", "cancelled"}
    /\ IsFiniteSet(Runtimes) /\ IsFiniteSet(Evaluators)
    /\ MaxFires \in [Triggers -> Nat]
    /\ Pushed \subseteq [kind : Kinds, priority : Priorities, from : {None}]
    /\ MaxSubmits \in Nat /\ MaxEvents \in Nat /\ MaxFaults \in Nat

VARIABLES
    \* tables runtime_events, cognitive_events
    queue,     \* the events, in the order of their creation
    consumed,  \* those with status consumed
    recorded,  \* the keys of cognitive_events
    \* tables cognitive_wakeups, cognitive_triggers
    wakeup,    \* status, None before the row exists
    due,       \* the wakeups whose scheduled_for has passed
    firedBy,   \* fired_event_id, 0 without
    trigger,   \* status, None before the row exists
    fireCount, \* fire_count
    \* locals
    cycle,     \* of a runtime's cycle, see NoCycle
    eval,      \* of an evaluation, see NoEval
    \* what really happened, for the properties only
    runs,      \* how often the agent ran for an event
    overtaken, \* other events a runtime took while a PAUSE was queued
    faults

wakeups == <<wakeup, due, firedBy>>
triggers == <<trigger, fireCount>>
vars == <<queue, consumed, recorded, wakeups, triggers, cycle, eval, runs,
          overtaken, faults>>

Events == 1..MaxEvents

NoCycle == [pc     |-> "idle",
            mode   |-> "normal",  \* what the boundary's check answered
            due    |-> {},        \* due wakeups not pushed yet
            wakeup |-> None,      \* the one pushed and not marked yet
            event  |-> 0]         \* the event pushed for it, later the one popped

NoEval == [matching |-> {},       \* triggers that match and have not fired yet
           trigger  |-> None,     \* the one pushed and not marked yet
           event    |-> 0]        \* the event pushed for it

CyclePCs == {"idle", "wakeups", "check", "peek", "get", "consume", "handle",
             "run", "finish"}

Init ==
    /\ queue = <<>> /\ consumed = {} /\ recorded = {}
    /\ wakeup = [w \in Wakeups |-> None]
    /\ due = {}
    /\ firedBy = [w \in Wakeups |-> 0]
    /\ trigger = [t \in Triggers |-> None]
    /\ fireCount = [t \in Triggers |-> 0]
    /\ cycle = [r \in Runtimes |-> NoCycle]
    /\ eval = [p \in Evaluators |-> NoEval]
    /\ runs = [e \in Events |-> 0]
    /\ overtaken = [r \in Runtimes |-> 0]
    /\ faults = 0

Queued == {e \in 1..Len(queue) : e \notin consumed}
QueuedPauses == {e \in Queued : queue[e].kind = "pause"}

\* ORDER BY priority_rank, created_at LIMIT 1.
Before(e, f) == \/ queue[e].priority = "critical" /\ queue[f].priority # "critical"
                \/ queue[e].priority = queue[f].priority /\ e <= f
First(e, set) == e \in set /\ \A f \in set : Before(e, f)

At(r, here) == cycle[r].pc = here
Becomes(r, locals) == cycle' = [cycle EXCEPT ![r] = locals]

\* RuntimeEventQueue.push; an event from a wakeup or a trigger is a stimulus.
Push(event) ==
    /\ Len(queue) < MaxEvents
    /\ queue' = Append(queue, event)
Stimulus(from) == [kind |-> "request", priority |-> "normal", from |-> from]

-----------------------------------------------------------------------------
(***************************************************************************)
(* Users and tools; time.                                                  *)
(***************************************************************************)
PushedFor(x) == {e \in 1..Len(queue) : queue[e].from = x}

\* The PAUSE of a user and the initiative of an idle runtime as well.
Submit ==
    /\ Cardinality(PushedFor(None)) < MaxSubmits
    /\ \E event \in Pushed : Push(event)
    /\ UNCHANGED <<consumed, recorded, wakeups, triggers, cycle, eval, runs,
                   overtaken, faults>>

ScheduleWakeup(w) ==
    /\ wakeup[w] = None
    /\ wakeup' = [wakeup EXCEPT ![w] = "scheduled"]
    /\ UNCHANGED <<queue, consumed, recorded, due, firedBy, triggers, cycle, eval,
                   runs, overtaken, faults>>

ComesDue(w) ==
    /\ wakeup[w] # None /\ w \notin due
    /\ due' = due \cup {w}
    /\ UNCHANGED <<queue, consumed, recorded, wakeup, firedBy, triggers, cycle,
                   eval, runs, overtaken, faults>>

\* The UPDATE has the condition that cancel has read before.
CancelWakeup(w) ==
    /\ wakeup[w] = "scheduled"
    /\ wakeup' = [wakeup EXCEPT ![w] = "cancelled"]
    /\ UNCHANGED <<queue, consumed, recorded, due, firedBy, triggers, cycle, eval,
                   runs, overtaken, faults>>

CreateTrigger(t) ==
    /\ trigger[t] = None
    /\ trigger' = [trigger EXCEPT ![t] = "active"]
    /\ UNCHANGED <<queue, consumed, recorded, wakeups, fireCount, cycle, eval,
                   runs, overtaken, faults>>

CancelTrigger(t) ==
    /\ trigger[t] = "active"
    /\ trigger' = [trigger EXCEPT ![t] = "cancelled"]
    /\ UNCHANGED <<queue, consumed, recorded, wakeups, fireCount, cycle, eval,
                   runs, overtaken, faults>>

-----------------------------------------------------------------------------
(***************************************************************************)
(* A cycle, run_once.                                                      *)
(***************************************************************************)

DueWakeups == {w \in due : wakeup[w] = "scheduled"}

\* _enqueue_due_wakeups reads what is due ...
StartCycle(r) ==
    /\ At(r, "idle")
    /\ Becomes(r, [NoCycle EXCEPT !.pc = "wakeups", !.due = DueWakeups])
    /\ UNCHANGED <<queue, consumed, recorded, wakeups, triggers, eval, runs,
                   overtaken, faults>>

\* Mutant: a wakeup is marked before its event is pushed.
MarkedFirst(r) ==
    /\ At(r, "wakeups") /\ cycle[r].wakeup = None
    /\ \E w \in cycle[r].due :
         /\ Push(Stimulus(w))
         /\ wakeup' = [wakeup EXCEPT ![w] = IF @ = "scheduled" THEN "fired" ELSE @]
         /\ Becomes(r, [cycle[r] EXCEPT !.wakeup = w, !.event = Len(queue')])
    /\ UNCHANGED <<consumed, recorded, due, firedBy, triggers, eval, runs, overtaken,
                   faults>>

\* ... pushes an event for each of them ...
PushWakeup(r) ==
    /\ At(r, "wakeups") /\ cycle[r].wakeup = None
    /\ \E w \in cycle[r].due :
         /\ Push(Stimulus(w))
         /\ Becomes(r, [cycle[r] EXCEPT !.wakeup = w, !.event = Len(queue')])
    /\ UNCHANGED <<consumed, recorded, wakeups, triggers, eval, runs, overtaken,
                   faults>>

\* Mutant: the wakeup stays scheduled.
NeverMarked(r) ==
    /\ At(r, "wakeups") /\ cycle[r].wakeup # None
    /\ Becomes(r, [cycle[r] EXCEPT !.due = @ \ {cycle[r].wakeup}, !.wakeup = None,
                                   !.event = 0])
    /\ UNCHANGED <<queue, consumed, recorded, wakeups, triggers, eval, runs,
                   overtaken, faults>>

\* ... and marks it, if it is still scheduled.
MarkWakeup(r) ==
    LET w == cycle[r].wakeup IN
    /\ At(r, "wakeups") /\ w # None
    /\ IF wakeup[w] = "scheduled"
       THEN /\ wakeup' = [wakeup EXCEPT ![w] = "fired"]
            /\ firedBy' = [firedBy EXCEPT ![w] = cycle[r].event]
       ELSE UNCHANGED <<wakeup, firedBy>>
    /\ Becomes(r, [cycle[r] EXCEPT !.due = @ \ {w}, !.wakeup = None, !.event = 0])
    /\ UNCHANGED <<queue, consumed, recorded, due, triggers, eval, runs, overtaken,
                   faults>>

\* Mutant: the priority is looked at before the PAUSE.
PriorityFirst(r) ==
    /\ At(r, "wakeups") /\ cycle[r].due = {}
    /\ Becomes(r, [cycle[r] EXCEPT
                     !.pc = IF \E e \in Queued : queue[e].priority = "critical" THEN "peek"
                            ELSE IF QueuedPauses # {} THEN "peek" ELSE "check",
                     !.mode = IF \E e \in Queued : queue[e].priority = "critical"
                              THEN "interrupt"
                              ELSE IF QueuedPauses # {} THEN "pause" ELSE @])
    /\ UNCHANGED <<queue, consumed, recorded, wakeups, triggers, eval, runs,
                   overtaken, faults>>

\* Mutant: a PAUSE is looked at and left where it is.
PauseLeft(r) ==
    /\ At(r, "wakeups") /\ cycle[r].due = {}
    /\ Becomes(r, IF QueuedPauses # {} THEN NoCycle ELSE [cycle[r] EXCEPT !.pc = "check"])
    /\ UNCHANGED <<queue, consumed, recorded, wakeups, triggers, eval, runs,
                   overtaken, faults>>

\* AtomicStepBoundary.check: a PAUSE, or else the next event's priority.
CheckPause(r) ==
    /\ At(r, "wakeups") /\ cycle[r].due = {}
    /\ Becomes(r, IF QueuedPauses # {}
                  THEN [cycle[r] EXCEPT !.pc = "peek", !.mode = "pause"]
                  ELSE [cycle[r] EXCEPT !.pc = "check"])
    /\ UNCHANGED <<queue, consumed, recorded, wakeups, triggers, eval, runs,
                   overtaken, faults>>

CheckPriority(r) ==
    /\ At(r, "check")
    /\ Becomes(r, [cycle[r] EXCEPT
                     !.pc = "peek",
                     !.mode = IF \E e \in Queued : queue[e].priority = "critical"
                              THEN "interrupt" ELSE @])
    /\ UNCHANGED <<queue, consumed, recorded, wakeups, triggers, eval, runs,
                   overtaken, faults>>

\* Mutant: the pause pops whatever is next.
PopsNext(r) == Queued

\* What pop_type and pop_next choose from.
Candidates(r) == IF cycle[r].mode = "pause" THEN QueuedPauses ELSE Queued

\* The pop's first SELECT.  Without an event the cycle ends: paused, as a no-op
\* or with a task from the task graph.
Peek(r) ==
    /\ At(r, "peek")
    /\ \/ Candidates(r) = {} /\ Becomes(r, NoCycle)
       \/ \E e \in Candidates(r) :
            /\ First(e, Candidates(r))
            /\ Becomes(r, [cycle[r] EXCEPT !.pc = "get", !.event = e])
    /\ UNCHANGED <<queue, consumed, recorded, wakeups, triggers, eval, runs,
                   overtaken, faults>>

\* Mutant: the event is handled as it was read.
Unconsumed(r) ==
    /\ At(r, "get")
    /\ Becomes(r, [cycle[r] EXCEPT !.pc = "handle"])
    /\ UNCHANGED <<queue, consumed, recorded, wakeups, triggers, eval, runs,
                   overtaken, faults>>

\* consume reads the event again: another runtime may have taken it ...
GetEvent(r) ==
    /\ At(r, "get")
    /\ Becomes(r, IF cycle[r].event \in consumed THEN NoCycle
                  ELSE [cycle[r] EXCEPT !.pc = "consume"])
    /\ UNCHANGED <<queue, consumed, recorded, wakeups, triggers, eval, runs,
                   overtaken, faults>>

\* Mutant: the UPDATE does not name the event.
WholeQueue(r) ==
    /\ At(r, "consume")
    /\ consumed' = consumed \cup Queued
    /\ Becomes(r, [cycle[r] EXCEPT !.pc = "handle"])
    /\ UNCHANGED <<queue, recorded, wakeups, triggers, eval, runs, overtaken, faults>>

\* ... and updates it; how many rows that changed is not looked at.
Consume(r) ==
    LET e == cycle[r].event IN
    /\ At(r, "consume")
    /\ consumed' = consumed \cup {e}
    /\ Becomes(r, [cycle[r] EXCEPT !.pc = "handle"])
    /\ overtaken' = IF QueuedPauses \ {e} = {} THEN [q \in Runtimes |-> 0]
                    ELSE IF queue[e].kind = "pause" THEN overtaken
                    ELSE [overtaken EXCEPT ![r] = @ + 1]
    /\ UNCHANGED <<queue, recorded, wakeups, triggers, eval, runs, faults>>

\* A control event, and any event taken for a PAUSE, is only observed.
Observe(r) ==
    /\ At(r, "handle")
    /\ cycle[r].mode = "pause" \/ queue[cycle[r].event].kind \in {"control", "pause"}
    /\ Becomes(r, NoCycle)
    /\ UNCHANGED <<queue, consumed, recorded, wakeups, triggers, eval, runs,
                   overtaken, faults>>

\* Mutant: the second record of an event is ignored instead of refused.
RecordAgain(r) ==
    LET e == cycle[r].event IN
    /\ At(r, "handle")
    /\ cycle[r].mode # "pause" /\ queue[e].kind \in {"request", "other"}
    /\ recorded' = recorded \cup {e}
    /\ Becomes(r, IF queue[e].kind = "request" THEN [cycle[r] EXCEPT !.pc = "run"]
                  ELSE NoCycle)
    /\ UNCHANGED <<queue, consumed, wakeups, triggers, eval, runs, overtaken, faults>>

\* CognitiveEventBus.append: the event's id is a key, so that the second runtime
\* to get here raises, and its cycle ends.
Record(r) ==
    LET e == cycle[r].event IN
    /\ At(r, "handle")
    /\ cycle[r].mode # "pause" /\ queue[e].kind \in {"request", "other"}
    /\ recorded' = recorded \cup {e}
    /\ Becomes(r, IF queue[e].kind = "request" /\ e \notin recorded
                  THEN [cycle[r] EXCEPT !.pc = "run"] ELSE NoCycle)
    /\ UNCHANGED <<queue, consumed, wakeups, triggers, eval, runs, overtaken, faults>>

\* The decision may let the agent run.
Run(r) ==
    LET e == cycle[r].event IN
    /\ At(r, "run")
    /\ \/ runs' = [runs EXCEPT ![e] = @ + 1]
       \/ UNCHANGED runs
    /\ Becomes(r, [cycle[r] EXCEPT !.pc = "finish"])
    /\ UNCHANGED <<queue, consumed, recorded, wakeups, triggers, eval, overtaken,
                   faults>>

\* _schedule_decision_wakeup: the decision may ask for a wakeup.
Finish(r) ==
    /\ At(r, "finish")
    /\ \/ UNCHANGED wakeup
       \/ \E w \in Wakeups : wakeup[w] = None /\ wakeup' = [wakeup EXCEPT ![w] = "scheduled"]
    /\ Becomes(r, NoCycle)
    /\ UNCHANGED <<queue, consumed, recorded, due, firedBy, triggers, eval, runs,
                   overtaken, faults>>

-----------------------------------------------------------------------------
(***************************************************************************)
(* TriggerStore.evaluate.                                                  *)
(***************************************************************************)

\* Mutant: a trigger may fire once more than its limit.
OffByOne(t) == MaxFires[t] # 0 /\ fireCount[t] > MaxFires[t]

Exhausted(t) == MaxFires[t] # 0 /\ fireCount[t] >= MaxFires[t]

\* The active triggers are read once; the limit is looked at in what was read.
Evaluate(p) ==
    /\ eval[p] = NoEval
    /\ \E set \in SUBSET {t \in Triggers : trigger[t] = "active" /\ ~Exhausted(t)} :
         set # {} /\ eval' = [eval EXCEPT ![p].matching = set]
    /\ UNCHANGED <<queue, consumed, recorded, wakeups, triggers, cycle, runs,
                   overtaken, faults>>

FireTrigger(p) ==
    /\ eval[p].trigger = None
    /\ \E t \in eval[p].matching :
         /\ Push(Stimulus(t))
         /\ eval' = [eval EXCEPT ![p] = [matching |-> @.matching \ {t}, trigger |-> t,
                                         event |-> Len(queue')]]
    /\ UNCHANGED <<consumed, recorded, wakeups, triggers, cycle, runs, overtaken,
                   faults>>

\* mark_fired counts in the UPDATE itself, if the trigger is still active.
CountFire(p) ==
    LET t == eval[p].trigger IN
    /\ t # None
    /\ IF trigger[t] = "active" THEN fireCount' = [fireCount EXCEPT ![t] = @ + 1]
                                ELSE UNCHANGED fireCount
    /\ eval' = [eval EXCEPT ![p] = [NoEval EXCEPT !.matching = eval[p].matching]]
    /\ UNCHANGED <<queue, consumed, recorded, wakeups, trigger, cycle, runs, overtaken,
                   faults>>

-----------------------------------------------------------------------------
(***************************************************************************)
(* A cycle or an evaluation that raises is over; a crash ends them all.    *)
(***************************************************************************)
Abandon(threads) ==
    /\ faults < MaxFaults /\ faults' = faults + 1
    /\ cycle' = [r \in Runtimes |-> IF r \in threads THEN NoCycle ELSE cycle[r]]
    /\ eval' = [p \in Evaluators |-> IF p \in threads THEN NoEval ELSE eval[p]]
    /\ UNCHANGED <<queue, consumed, recorded, wakeups, triggers, runs, overtaken>>

RaiseCycle(r) == ~At(r, "idle") /\ Abandon({r})
RaiseEval(p) == eval[p] # NoEval /\ Abandon({p})
Crash == Abandon(Runtimes \cup Evaluators)

CycleStep(r) ==
    \/ StartCycle(r) \/ PushWakeup(r) \/ MarkWakeup(r) \/ CheckPause(r)
    \/ CheckPriority(r) \/ Peek(r) \/ GetEvent(r) \/ Consume(r)
    \/ Observe(r) \/ Record(r) \/ Run(r) \/ Finish(r)

EvalStep(p) == Evaluate(p) \/ FireTrigger(p) \/ CountFire(p)

Next ==
    \/ Submit \/ Crash
    \/ \E w \in Wakeups : ScheduleWakeup(w) \/ ComesDue(w) \/ CancelWakeup(w)
    \/ \E t \in Triggers : CreateTrigger(t) \/ CancelTrigger(t)
    \/ \E r \in Runtimes : CycleStep(r) \/ RaiseCycle(r)
    \/ \E p \in Evaluators : EvalStep(p) \/ RaiseEval(p)

Spec == Init /\ [][Next]_vars

\* The runner is called again and again (docs/COGNITIVE_AGENT_ARCHITECTURE.md,
\* "repeatedly call the one-cycle runner"), and time goes by.
FairSpec ==
    /\ Spec
    /\ \A r \in Runtimes : WF_vars(CycleStep(r))
    /\ \A w \in Wakeups : WF_vars(ComesDue(w))

-----------------------------------------------------------------------------
(* The type invariant: what each column and each local may hold. *)
TypeOK ==
    /\ queue \in Seq([kind : Kinds, priority : Priorities,
                      from : Wakeups \cup Triggers \cup {None}])
    /\ Len(queue) <= MaxEvents
    /\ recorded \subseteq consumed /\ consumed \subseteq 1..Len(queue)
    /\ wakeup \in [Wakeups -> {None, "scheduled", "fired", "cancelled"}]
    /\ due \subseteq Wakeups
    /\ firedBy \in [Wakeups -> 0..Len(queue)]
    /\ trigger \in [Triggers -> {None, "active", "cancelled"}]
    /\ fireCount \in [Triggers -> Nat]
    /\ cycle \in [Runtimes -> [pc : CyclePCs, mode : {"normal", "pause", "interrupt"},
                               due : SUBSET Wakeups, wakeup : Wakeups \cup {None},
                               event : 0..Len(queue)]]
    /\ eval \in [Evaluators -> [matching : SUBSET Triggers,
                                trigger : Triggers \cup {None}, event : 0..Len(queue)]]
    /\ runs \in [Events -> Nat]
    /\ overtaken \in [Runtimes -> Nat]
    /\ faults \in 0..MaxFaults

(***************************************************************************)
(* Safety.                                                                 *)
(***************************************************************************)
\* The agent runs at most once for an event, although two runtimes can pop the
\* same one: the key of cognitive_events stops the second (recorder.py).
RunsOnce == \A e \in Events : runs[e] <= 1

\* A popped request or other event is recorded, unless its runtime was stopped
\* by a fault in between: nothing else drops one, in particular no pause and no
\* other runtime that popped it as well.  A fault loses one event a runtime.
Held == {cycle[r].event : r \in {q \in Runtimes : At(q, "handle")}}
Dropped == {e \in consumed : queue[e].kind \in {"request", "other"}} \ (recorded \cup Held)
LossIsBounded == Cardinality(Dropped) <= faults * Cardinality(Runtimes)

\* While a PAUSE is queued a runtime takes at most one other event, the one it
\* may have been about to pop, however urgent the others are (step_boundary.py).
PauseBoundsWork == \A r \in Runtimes : overtaken[r] <= 1

\* A wakeup that is recorded as fired names an event that was pushed for it,
\* wherever a fault hits and whoever raced: it is marked behind the push.
FiredIsPushed == \A w \in Wakeups : wakeup[w] = "fired" => firedBy[w] \in PushedFor(w)

\* Runtimes race between reading that a wakeup is due and marking it, and a fault
\* leaves it scheduled, but a cycle pushes it once, and a mark stops the later ones.
WakeupsStop ==
    \A w \in Wakeups : Cardinality(PushedFor(w)) <= Cardinality(Runtimes) * (faults + 1)

\* No trigger counts a fire without an event, and its limit is overshot only by
\* the evaluators that read the count before, and by those that a fault stopped
\* between the event and the count.
FiringIsBounded ==
    \A t \in Triggers :
        LET pushed == Cardinality(PushedFor(t)) IN
        /\ fireCount[t] <= pushed
        /\ MaxFires[t] # 0 =>
              pushed < MaxFires[t] + Cardinality(Evaluators) * (faults + 1)

\* How often whatever fires can fire (autonomous.py, _enqueue_due_wakeups;
\* triggers.py, evaluate).
FiringsAreBounded == WakeupsStop /\ FiringIsBounded

(***************************************************************************)
(* Liveness.                                                               *)
(***************************************************************************)

\* Users and tools push finitely many events: then every event is popped,
\* whatever else is queued, and every wakeup is fired or cancelled.
EventsAreTaken ==
    /\ \A e \in Events : e <= Len(queue) ~> e \in consumed
    /\ \A w \in Wakeups : wakeup[w] = "scheduled" ~> wakeup[w] # "scheduled"
=============================================================================
