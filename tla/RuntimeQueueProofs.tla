-------------------------- MODULE RuntimeQueueProofs --------------------------
(***************************************************************************)
(* Theorems about RuntimeQueue, for any set of runtimes, evaluators,       *)
(* wakeups and triggers, any bounds and any number of faults.              *)
(***************************************************************************)
EXTENDS RuntimeQueue, FiniteSetTheorems, TLAPS

EventRecords == [kind : Kinds, priority : Priorities, from : Wakeups \cup Triggers \cup {None}]
Locals == [pc : CyclePCs, mode : {"normal", "pause", "interrupt"},
           due : SUBSET Wakeups, wakeup : Wakeups \cup {None}, event : 0..Len(queue)]
EvalLocals == [matching : SUBSET Triggers, trigger : Triggers \cup {None},
               event : 0..Len(queue)]

-----------------------------------------------------------------------------
(* What a push does to what was queued before. *)

\* A push appends one event and leaves the earlier ones where they are.
LEMMA PushAppends ==
    ASSUME TypeOK, NEW event \in EventRecords, Push(event)
    PROVE  /\ Len(queue) \in Nat /\ Len(queue') = Len(queue) + 1
           /\ Len(queue') <= MaxEvents
           /\ queue' \in Seq(EventRecords)
           /\ queue'[Len(queue')] = event
           /\ \A e \in 1..Len(queue) : queue'[e] = queue[e]
  BY QueueConstants DEF TypeOK, Push, EventRecords

\* A push leaves everything that points into the queue well typed.
LEMMA PushTypes ==
    ASSUME TypeOK, NEW event \in EventRecords, Push(event)
    PROVE  /\ queue' \in Seq([kind : Kinds, priority : Priorities,
                              from : Wakeups \cup Triggers \cup {None}])
           /\ Len(queue') <= MaxEvents
           /\ consumed \subseteq 1..Len(queue')
           /\ firedBy \in [Wakeups -> 0..Len(queue')]
           /\ Len(queue') \in 0..Len(queue')
           /\ cycle \in [Runtimes -> Locals']
           /\ eval \in [Evaluators -> EvalLocals']
<1>1. 1..Len(queue) \subseteq 1..Len(queue') /\ 0..Len(queue) \subseteq 0..Len(queue')
  BY PushAppends
<1>2. Locals \subseteq Locals'
  BY <1>1 DEF Locals
<1>3. EvalLocals \subseteq EvalLocals'
  BY <1>1 DEF EvalLocals
<1>4. cycle \in [Runtimes -> Locals] /\ eval \in [Evaluators -> EvalLocals]
  BY DEF TypeOK, Locals, EvalLocals
<1>5. firedBy \in [Wakeups -> 0..Len(queue)] /\ consumed \subseteq 1..Len(queue)
  BY DEF TypeOK
<1>6. cycle \in [Runtimes -> Locals'] /\ eval \in [Evaluators -> EvalLocals']
  BY <1>2, <1>3, <1>4
<1>7. firedBy \in [Wakeups -> 0..Len(queue')] /\ consumed \subseteq 1..Len(queue')
  BY <1>1, <1>5
<1>8. /\ queue' \in Seq(EventRecords) /\ Len(queue') <= MaxEvents
      /\ Len(queue') \in 0..Len(queue')
  BY PushAppends
<1> QED
  BY <1>6, <1>7, <1>8 DEF EventRecords

\* What users push and what wakeups and triggers push are events.
LEMMA PushedEvents ==
    /\ Pushed \subseteq EventRecords
    /\ \A x \in Wakeups \cup Triggers : Stimulus(x) \in EventRecords
  BY QueueConstants DEF EventRecords, Stimulus, Kinds, Priorities

\* An event stays pushed for what it was pushed for.
LEMMA PushedForGrows ==
    ASSUME TypeOK, NEW event \in EventRecords, Push(event), NEW x
    PROVE  /\ PushedFor(x) \subseteq PushedFor(x)'
           /\ event.from = x => Len(queue') \in PushedFor(x)'
  BY PushAppends DEF PushedFor

\* A push takes no PAUSE away.
LEMMA PausesGrow ==
    ASSUME TypeOK, NEW event \in EventRecords, Push(event), UNCHANGED consumed
    PROVE  QueuedPauses \subseteq QueuedPauses'
  BY PushAppends DEF QueuedPauses, Queued

-----------------------------------------------------------------------------
(***************************************************************************)
(* The inductive invariant: what the locals of a cycle say of the tables.  *)
(***************************************************************************)
Popping == {"get", "consume"}
Holding == {"handle", "run", "finish"}

\* The locals c of a cycle: behind a look at the queue there is an event, behind
\* the pop a consumed one; a cycle that pauses pops a PAUSE; a wakeup that was
\* pushed has its event.
Agrees(c) ==
    /\ c.pc \in Popping \cup Holding => c.event \in 1..Len(queue)
    /\ c.pc \in Holding => c.event \in consumed
    /\ c.pc \in {"wakeups", "check"} => c.mode = "normal"
    /\ c.pc \in Popping /\ c.mode = "pause" => queue[c.event].kind = "pause"
    /\ c.wakeup # None => /\ c.pc = "wakeups" /\ c.wakeup \in c.due
                          /\ c.event \in PushedFor(c.wakeup)

\* A cycle that runs the agent has recorded the event, and nobody has run it.
CyclesAgree ==
    \A r \in Runtimes :
        /\ Agrees(cycle[r])
        /\ At(r, "run") => cycle[r].event \in recorded /\ runs[cycle[r].event] = 0

\* One runtime runs the agent for an event, behind the record of its key.
OneRuns ==
    /\ \A q, r \in Runtimes :
         At(q, "run") /\ At(r, "run") /\ cycle[q].event = cycle[r].event => q = r
    /\ \A e \in Events : runs[e] <= 1 /\ (e \notin recorded => runs[e] = 0)

\* A runtime that has taken an event in front of a PAUSE looks before the next.
Sees(r, c) == \/ overtaken[r] = 0
              \/ overtaken[r] = 1
                 /\ (c.mode = "pause" \/ c.pc \in {"idle", "wakeups"} \cup Holding)

PauseIsSeen ==
    /\ QueuedPauses = {} => \A r \in Runtimes : overtaken[r] = 0
    /\ \A r \in Runtimes : Sees(r, cycle[r])

Inv == TypeOK /\ CyclesAgree /\ OneRuns /\ PauseIsSeen /\ FiredIsPushed

\* The initial tables satisfy it.
LEMMA InvInit == Init => Inv
<1> SUFFICES ASSUME Init PROVE Inv
  OBVIOUS
<1> USE QueueConstants
<1>1. TypeOK
  BY DEF Init, TypeOK, NoCycle, NoEval, CyclePCs, Events, Kinds, Priorities
<1>2. CyclesAgree
  BY DEF Init, CyclesAgree, Agrees, At, NoCycle, Popping, Holding
<1>3. OneRuns
  BY DEF Init, OneRuns, NoCycle, At, Events
<1>4. PauseIsSeen
  BY DEF Init, PauseIsSeen, Sees
<1>5. FiredIsPushed
  BY DEF Init, FiredIsPushed
<1> QED
  BY <1>1, <1>2, <1>3, <1>4, <1>5 DEF Inv

\* A cycle that is over is well typed.
LEMMA NoCycleIsTyped ==
    ASSUME Len(queue) \in Nat
    PROVE  /\ NoCycle \in Locals
           /\ NoCycle.wakeup = None /\ NoCycle.pc = "idle"
  BY DEF NoCycle, Locals, CyclePCs

\* A step that changes the locals of one cycle and perhaps marks a wakeup, and
\* does not start the agent, keeps the invariant if the new locals agree with
\* the tables and the mark is backed.
LEMMA MarkingStep ==
    ASSUME Inv, NEW r \in Runtimes, NEW c \in Locals, Becomes(r, c),
           Agrees(c), Sees(r, c), c.pc # "run",
           UNCHANGED <<queue, consumed, recorded, due, triggers, eval, runs, overtaken,
                       faults>>,
           wakeup' \in [Wakeups -> {None, "scheduled", "fired", "cancelled"}],
           firedBy' \in [Wakeups -> 0..Len(queue)], FiredIsPushed'
    PROVE  Inv'
<1> USE DEF Inv, Becomes, triggers
<1>1. TypeOK'
  BY DEF TypeOK, Locals
<1>2. /\ cycle'[r] = c
      /\ \A q \in Runtimes \ {r} : cycle'[q] = cycle[q]
  BY DEF TypeOK
<1>3. CyclesAgree'
  BY <1>2 DEF CyclesAgree, Agrees, At, PushedFor
<1>4. OneRuns'
  BY <1>2 DEF OneRuns, At, Events
<1>5. PauseIsSeen'
  BY <1>2 DEF PauseIsSeen, Sees, QueuedPauses, Queued
<1> QED
  BY <1>1, <1>3, <1>4, <1>5

\* The same without a mark.
LEMMA LocalStep ==
    ASSUME Inv, NEW r \in Runtimes, NEW c \in Locals, Becomes(r, c),
           Agrees(c), Sees(r, c), c.pc # "run",
           UNCHANGED <<queue, consumed, recorded, wakeups, triggers, eval, runs,
                       overtaken, faults>>
    PROVE  Inv'
<1>1. /\ wakeup \in [Wakeups -> {None, "scheduled", "fired", "cancelled"}]
      /\ firedBy \in [Wakeups -> 0..Len(queue)]
  BY DEF Inv, TypeOK
<1>2. UNCHANGED <<wakeup, due, firedBy>>
  BY DEF wakeups
<1>3. FiredIsPushed'
  BY <1>2 DEF Inv, FiredIsPushed, PushedFor
<1> QED
  BY <1>1, <1>2, <1>3, MarkingStep

\* The steps of a cycle that read.
LEMMA ReadSteps ==
    ASSUME Inv, NEW r \in Runtimes,
           \/ StartCycle(r) \/ CheckPause(r) \/ CheckPriority(r) \/ Peek(r)
           \/ GetEvent(r) \/ Observe(r)
    PROVE  Inv'
<1> USE DEF At
<1> DEFINE c == cycle[r]
<1>1. /\ c \in Locals /\ Agrees(c) /\ Sees(r, c)
      /\ NoCycle \in Locals /\ Agrees(NoCycle) /\ Sees(r, NoCycle)
  BY QueueConstants
  DEF Inv, TypeOK, CyclesAgree, PauseIsSeen, Locals, Agrees, Sees, NoCycle, CyclePCs,
      Popping, Holding
<1>2. CASE StartCycle(r)
  <2> DEFINE new == [NoCycle EXCEPT !.pc = "wakeups", !.due = DueWakeups]
  <2>1. new \in Locals /\ Agrees(new) /\ Sees(r, new)
    BY <1>1 DEF Inv, TypeOK, Locals, Agrees, Sees, NoCycle, CyclePCs, DueWakeups,
                Popping, Holding
  <2> QED
    BY <1>2, <2>1, LocalStep DEF StartCycle, NoCycle
<1>3. CASE CheckPause(r)
  <2>1. CASE QueuedPauses # {}
    <3> DEFINE new == [c EXCEPT !.pc = "peek", !.mode = "pause"]
    <3>1. new \in Locals /\ Agrees(new) /\ Sees(r, new) /\ new.pc # "run"
      BY <1>1, <1>3 DEF CheckPause, Locals, Agrees, Sees, CyclePCs, Popping, Holding
    <3> QED
      BY <1>3, <2>1, <3>1, LocalStep DEF CheckPause
  <2>2. CASE QueuedPauses = {}
    <3> DEFINE new == [c EXCEPT !.pc = "check"]
    <3>1. overtaken[r] = 0
      BY <2>2 DEF Inv, PauseIsSeen
    <3>2. new \in Locals /\ Agrees(new) /\ Sees(r, new) /\ new.pc # "run"
      BY <1>1, <1>3, <3>1 DEF CheckPause, Locals, Agrees, Sees, CyclePCs, Popping, Holding
    <3> QED
      BY <1>3, <2>2, <3>2, LocalStep DEF CheckPause
  <2> QED
    BY <2>1, <2>2
<1>4. CASE CheckPriority(r)
  <2>1. PICK mode \in {c.mode, "interrupt"} :
          Becomes(r, [c EXCEPT !.pc = "peek", !.mode = mode])
    BY <1>4 DEF CheckPriority
  <2> DEFINE new == [c EXCEPT !.pc = "peek", !.mode = mode]
  <2>2. overtaken[r] = 0
    BY <1>4 DEF CheckPriority, Inv, PauseIsSeen, CyclesAgree, Agrees, Sees, Holding
  <2>3. new \in Locals /\ Agrees(new) /\ Sees(r, new) /\ new.pc # "run"
    BY <1>1, <1>4, <2>2
    DEF CheckPriority, Locals, Agrees, Sees, CyclePCs, Popping, Holding
  <2> QED
    BY <1>4, <2>1, <2>3, LocalStep DEF CheckPriority
<1>5. CASE Peek(r)
  <2>1. CASE Becomes(r, NoCycle)
    BY <1>1, <1>5, <2>1, LocalStep DEF Peek, NoCycle
  <2>2. ASSUME NEW e \in Candidates(r), Becomes(r, [c EXCEPT !.pc = "get", !.event = e])
        PROVE  Inv'
    <3> DEFINE new == [c EXCEPT !.pc = "get", !.event = e]
    <3>1. /\ e \in 1..Len(queue)
          /\ c.mode = "pause" => queue[e].kind = "pause"
      BY <2>2 DEF Candidates, QueuedPauses, Queued
    <3>2. new \in Locals /\ Agrees(new) /\ Sees(r, new) /\ new.pc # "run"
      <4>1. c.pc = "peek" /\ c.wakeup = None
        BY <1>1, <1>5 DEF Peek, Agrees
      <4>2. new \in Locals
        <5>1. queue \in Seq(EventRecords)
          BY DEF Inv, TypeOK, EventRecords
        <5>2. e \in 0..Len(queue)
          BY <3>1, <5>1
        <5> QED
          BY <1>1, <5>2 DEF Locals, CyclePCs
      <4>3. Agrees(new)
        BY <1>1, <3>1, <4>1 DEF Locals, Agrees, Popping, Holding
      <4>4. Sees(r, new)
        BY <1>1, <4>1 DEF Locals, Sees, Holding
      <4> QED
        BY <1>1, <4>2, <4>3, <4>4 DEF Locals
    <3> QED
      BY <1>5, <2>2, <3>2, LocalStep DEF Peek
  <2> QED
    BY <1>5, <2>1, <2>2 DEF Peek
<1>6. CASE GetEvent(r)
  <2> DEFINE new == [c EXCEPT !.pc = "consume"]
  <2>1. new \in Locals /\ Agrees(new) /\ Sees(r, new) /\ new.pc # "run"
    BY <1>1, <1>6 DEF GetEvent, Locals, Agrees, Sees, CyclePCs, Popping, Holding
  <2> QED
    BY <1>1, <1>6, <2>1, LocalStep DEF GetEvent, NoCycle
<1>7. CASE Observe(r)
  BY <1>1, <1>7, LocalStep DEF Observe, NoCycle
<1> QED
  BY <1>2, <1>3, <1>4, <1>5, <1>6, <1>7

\* What pushing wakeup w does to a cycle: it holds w and the event.
Pushes(q, w) ==
    /\ cycle[q].pc = "wakeups" /\ cycle'[q].pc = "wakeups"
    /\ cycle'[q].mode = cycle[q].mode
    /\ cycle'[q].wakeup = w /\ w \in cycle'[q].due
    /\ cycle'[q].event \in PushedFor(w)'

\* A push keeps all of the invariant but the types, which its actions add.
LEMMA PushKeeps ==
    ASSUME Inv, NEW event \in EventRecords, Push(event), NEW w,
           UNCHANGED <<consumed, recorded, wakeups, runs, overtaken>>,
           \A q \in Runtimes : cycle'[q] = cycle[q] \/ Pushes(q, w)
    PROVE  CyclesAgree' /\ OneRuns' /\ PauseIsSeen' /\ FiredIsPushed'
<1> USE DEF Inv
<1>1. CyclesAgree'
  <2> SUFFICES ASSUME NEW q \in Runtimes
               PROVE  /\ Agrees(cycle[q])'
                      /\ At(q, "run")' => /\ cycle'[q].event \in recorded'
                                          /\ runs'[cycle'[q].event] = 0
    BY DEF CyclesAgree
  <2>1. /\ Agrees(cycle[q])
        /\ At(q, "run") => cycle[q].event \in recorded /\ runs[cycle[q].event] = 0
    BY DEF CyclesAgree
  <2>2. CASE Pushes(q, w)
    <3>1. cycle'[q].pc \notin {"run", "check"} \cup Popping \cup Holding
      BY <2>2 DEF Pushes, Popping, Holding
    <3>2. cycle'[q].mode = "normal"
      BY <2>1, <2>2 DEF Pushes, Agrees
    <3> QED
      BY <2>2, <3>1, <3>2 DEF Pushes, Agrees, At
  <2>3. CASE cycle'[q] = cycle[q]
    BY <2>1, <2>3, PushAppends, PushedForGrows DEF Agrees, At
  <2> QED
    BY <2>2, <2>3
<1>2. OneRuns'
  BY DEF OneRuns, At, Pushes, Events
<1>3. PauseIsSeen'
  <2>1. QueuedPauses \subseteq QueuedPauses'
    BY PausesGrow
  <2> QED
    BY <2>1 DEF PauseIsSeen, Pushes, Sees
<1>4. FiredIsPushed'
  BY PushedForGrows DEF FiredIsPushed, wakeups
<1> QED
  BY <1>1, <1>2, <1>3, <1>4

\* Users, tools, runtimes and evaluators push.
LEMMA PushSteps ==
    ASSUME Inv, \/ Submit
                \/ \E r \in Runtimes : PushWakeup(r)
                \/ \E p \in Evaluators : FireTrigger(p)
    PROVE  Inv'
<1> USE DEF Inv
<1>1. CASE Submit
  <2>1. PICK event \in EventRecords : Push(event)
    BY <1>1, PushedEvents DEF Submit
  <2>2. CyclesAgree' /\ OneRuns' /\ PauseIsSeen' /\ FiredIsPushed'
    BY <1>1, <2>1, PushKeeps DEF Submit
  <2>3. TypeOK'
    BY <1>1, <2>1, PushTypes DEF Submit, TypeOK, Locals, EvalLocals, wakeups, triggers
  <2> QED
    BY <2>2, <2>3
<1>2. ASSUME NEW r \in Runtimes, PushWakeup(r)
      PROVE  Inv'
  <2>1. PICK w \in cycle[r].due :
          /\ Push(Stimulus(w))
          /\ Becomes(r, [cycle[r] EXCEPT !.wakeup = w, !.event = Len(queue')])
    BY <1>2 DEF PushWakeup
  <2>2. /\ cycle[r].pc = "wakeups"
        /\ UNCHANGED <<consumed, recorded, wakeups, triggers, eval, runs, overtaken, faults>>
    BY <1>2 DEF PushWakeup, At
  <2>3. w \in Wakeups /\ Stimulus(w) \in EventRecords
    BY <2>1, PushedEvents DEF TypeOK
  <2>4. Pushes(r, w) /\ \A q \in Runtimes \ {r} : cycle'[q] = cycle[q]
    <3>1. Len(queue') \in PushedFor(w)'
      BY <2>1, <2>3, PushedForGrows DEF Stimulus
    <3> QED
      BY <2>2, <2>1, <3>1 DEF Becomes, Pushes, TypeOK
  <2>5. CyclesAgree' /\ OneRuns' /\ PauseIsSeen' /\ FiredIsPushed'
    BY <2>2, <2>1, <2>3, <2>4, PushKeeps
  <2>6. TypeOK'
    <3>1. cycle' \in [Runtimes -> Locals']
      BY <2>1, <2>3, PushTypes DEF Becomes, Locals
    <3> QED
      BY <2>2, <2>1, <2>3, <3>1, PushTypes
      DEF TypeOK, Locals, EvalLocals, wakeups, triggers
  <2> QED
    BY <2>5, <2>6
<1>3. ASSUME NEW p \in Evaluators, FireTrigger(p)
      PROVE  Inv'
  <2>1. PICK t \in eval[p].matching :
          /\ Push(Stimulus(t))
          /\ eval' = [eval EXCEPT ![p] = [matching |-> @.matching \ {t}, trigger |-> t,
                                          event |-> Len(queue')]]
    BY <1>3 DEF FireTrigger
  <2>2. t \in Triggers /\ Stimulus(t) \in EventRecords
    BY <2>1, PushedEvents DEF TypeOK
  <2>3. CyclesAgree' /\ OneRuns' /\ PauseIsSeen' /\ FiredIsPushed'
    BY <1>3, <2>1, <2>2, PushKeeps DEF FireTrigger
  <2>4. TypeOK'
    <3>1. eval' \in [Evaluators -> EvalLocals']
      BY <2>1, <2>2, PushTypes DEF EvalLocals
    <3> QED
      BY <1>3, <2>1, <2>2, <3>1, PushTypes
      DEF FireTrigger, TypeOK, Locals, EvalLocals, wakeups, triggers
  <2> QED
    BY <2>3, <2>4
<1> QED
  BY <1>1, <1>2, <1>3

\* A pop, the record of the key and the run of the agent.
LEMMA TakeSteps ==
    ASSUME Inv, NEW r \in Runtimes, Consume(r) \/ Record(r) \/ Run(r)
    PROVE  Inv'
<1> USE DEF Inv, wakeups, triggers, Becomes, At
<1> DEFINE e == cycle[r].event
<1>1. Agrees(cycle[r]) /\ cycle[r] \in Locals /\ cycle \in [Runtimes -> Locals]
  BY DEF CyclesAgree, TypeOK, Locals
<1>2. /\ Len(queue) \in Nat /\ Len(queue) <= MaxEvents
      /\ 1..Len(queue) \subseteq Events
  BY QueueConstants DEF TypeOK, Events
<1>3. CASE Consume(r)
  <2> DEFINE c == [cycle[r] EXCEPT !.pc = "handle"]
  <2>1. /\ cycle' = [cycle EXCEPT ![r] = c] /\ consumed' = consumed \cup {e}
        /\ UNCHANGED <<queue, recorded, wakeups, triggers, eval, runs, faults>>
        /\ e \in 1..Len(queue) /\ cycle[r].pc = "consume" /\ cycle[r].wakeup = None
    BY <1>1, <1>3 DEF Consume, Agrees, Popping
  <2>2. /\ cycle'[r] = c /\ \A q \in Runtimes \ {r} : cycle'[q] = cycle[q]
        /\ c \in Locals /\ c.pc = "handle" /\ c.event = e /\ c.wakeup = None
    BY <1>1, <2>1 DEF Locals, CyclePCs
  <2>3. CyclesAgree'
    BY <2>1, <2>2 DEF CyclesAgree, Agrees, PushedFor, Popping, Holding
  <2>4. OneRuns'
    BY <2>1, <2>2 DEF OneRuns, Events
  <2>5. QueuedPauses' = QueuedPauses \ {e}
    BY <2>1 DEF QueuedPauses, Queued
  <2>6. /\ overtaken' \in [Runtimes -> Nat]
        /\ PauseIsSeen'
    <3>1. CASE QueuedPauses \ {e} = {}
      BY <1>3, <2>5, <3>1 DEF Consume, PauseIsSeen, Sees
    <3>2. CASE QueuedPauses \ {e} # {} /\ queue[e].kind = "pause"
      BY <1>3, <2>2, <2>5, <3>2 DEF Consume, PauseIsSeen, Sees, TypeOK, Holding
    <3>3. CASE QueuedPauses \ {e} # {} /\ queue[e].kind # "pause"
      <4>1. overtaken' = [overtaken EXCEPT ![r] = @ + 1]
        BY <1>3, <3>3 DEF Consume
      <4>2. overtaken[r] = 0
        BY <1>1, <2>1, <3>3 DEF PauseIsSeen, Sees, Agrees, Popping, Holding
      <4> QED
        BY <2>2, <2>5, <3>3, <4>1, <4>2 DEF PauseIsSeen, Sees, TypeOK, Holding
    <3> QED
      BY <3>1, <3>2, <3>3
  <2>7. FiredIsPushed'
    BY <2>1 DEF FiredIsPushed, PushedFor
  <2>8. TypeOK'
    BY <1>1, <2>1, <2>2, <2>6 DEF TypeOK, Locals
  <2> QED
    BY <2>3, <2>4, <2>6, <2>7, <2>8
<1>4. CASE Record(r)
  <2>1. PICK c \in {NoCycle, [cycle[r] EXCEPT !.pc = "run"]} :
          /\ Becomes(r, c)
          /\ c # NoCycle => e \notin recorded
    BY <1>4 DEF Record
  <2>2. /\ recorded' = recorded \cup {e}
        /\ UNCHANGED <<queue, consumed, wakeups, triggers, eval, runs, overtaken, faults>>
        /\ e \in 1..Len(queue) /\ e \in consumed /\ cycle[r].pc = "handle"
        /\ cycle[r].wakeup = None
    BY <1>1, <1>4 DEF Record, Agrees, Holding
  <2>3. /\ c \in Locals /\ c.wakeup = None
        /\ \/ c = NoCycle
           \/ c.pc = "run" /\ c.event = e /\ e \notin recorded
    <3>1. CASE c = NoCycle
      BY <1>2, <3>1, NoCycleIsTyped
    <3>2. CASE c # NoCycle
      <4>1. c = [cycle[r] EXCEPT !.pc = "run"] /\ e \notin recorded
        BY <2>1, <3>2
      <4> QED
        BY <1>1, <2>2, <4>1 DEF Locals, CyclePCs
    <3> QED
      BY <3>1, <3>2
  <2>4. cycle'[r] = c /\ \A q \in Runtimes \ {r} : cycle'[q] = cycle[q]
    BY <1>1, <2>1
  <2>5. CyclesAgree'
    BY <1>2, <2>2, <2>3, <2>4
    DEF CyclesAgree, OneRuns, Agrees, PushedFor, Popping, Holding, NoCycle
  <2>6. OneRuns'
    <3>1. \A q \in Runtimes \ {r} : cycle[q].pc = "run" => cycle[q].event \in recorded
      BY DEF CyclesAgree
    <3> QED
      BY <2>2, <2>3, <2>4, <3>1 DEF OneRuns, Events, NoCycle
  <2>7. PauseIsSeen'
    BY <2>2, <2>3, <2>4 DEF PauseIsSeen, Sees, QueuedPauses, Queued, Holding, NoCycle
  <2>8. FiredIsPushed'
    BY <2>2 DEF FiredIsPushed, PushedFor
  <2>9. TypeOK'
    BY <1>1, <2>1, <2>2, <2>3 DEF TypeOK, Locals
  <2> QED
    BY <2>5, <2>6, <2>7, <2>8, <2>9
<1>5. CASE Run(r)
  <2> DEFINE c == [cycle[r] EXCEPT !.pc = "finish"]
  <2>1. /\ cycle' = [cycle EXCEPT ![r] = c]
        /\ runs' = [runs EXCEPT ![e] = @ + 1] \/ runs' = runs
        /\ UNCHANGED <<queue, consumed, recorded, wakeups, triggers, eval, overtaken, faults>>
        /\ cycle[r].pc = "run" /\ e \in 1..Len(queue) /\ e \in consumed
        /\ cycle[r].wakeup = None
    BY <1>1, <1>5 DEF Run, Agrees, Holding
  <2>2. /\ cycle'[r] = c /\ \A q \in Runtimes \ {r} : cycle'[q] = cycle[q]
        /\ c \in Locals /\ c.pc = "finish" /\ c.event = e /\ c.wakeup = None
    BY <1>1, <2>1 DEF Locals, CyclePCs
  <2>3. e \in Events /\ e \in recorded /\ runs[e] = 0
    BY <1>2, <2>1 DEF CyclesAgree
  <2>4. runs' \in [Events -> Nat] /\ \A f \in Events \ {e} : runs'[f] = runs[f]
    <3>1. runs \in [Events -> Nat]
      BY DEF TypeOK
    <3>2. CASE runs' = [runs EXCEPT ![e] = @ + 1]
      BY <2>3, <3>1, <3>2
    <3>3. CASE runs' = runs
      BY <3>1, <3>3
    <3> QED
      BY <2>1, <3>2, <3>3
  <2>5. runs'[e] <= 1
    <3>1. runs \in [Events -> Nat]
      BY DEF TypeOK
    <3>2. runs'[e] = runs[e] + 1 \/ runs'[e] = runs[e]
      BY <2>1, <2>3, <3>1
    <3> QED
      BY <2>3, <3>2
  <2>6. CyclesAgree'
    <3>1. \A q \in Runtimes \ {r} :
            cycle[q].pc = "run" => /\ cycle[q].event \in Events
                                   /\ cycle[q].event # e
      BY <1>2, <2>1 DEF CyclesAgree, OneRuns, Agrees, Holding
    <3>2. ASSUME NEW q \in Runtimes
          PROVE  /\ Agrees(cycle[q])'
                 /\ At(q, "run")' => /\ cycle'[q].event \in recorded'
                                     /\ runs'[cycle'[q].event] = 0
      <4>1. CASE q = r
        <5>1. /\ cycle'[q].pc = "finish" /\ cycle'[q].wakeup = None
              /\ cycle'[q].event = e
          BY <2>2, <4>1
        <5>2. e \in 1..Len(queue') /\ e \in consumed'
          BY <2>1
        <5> QED
          BY <5>1, <5>2 DEF Agrees, Popping, Holding
      <4>2. CASE q # r
        <5>1. /\ Agrees(cycle[q])
              /\ At(q, "run") => cycle[q].event \in recorded /\ runs[cycle[q].event] = 0
          BY DEF CyclesAgree
        <5> QED
          BY <2>1, <2>2, <2>4, <3>1, <4>2, <5>1 DEF Agrees, PushedFor
      <4> QED
        BY <4>1, <4>2
    <3> QED
      BY <3>2 DEF CyclesAgree
  <2>7. OneRuns'
    BY <2>1, <2>2, <2>3, <2>4, <2>5 DEF OneRuns
  <2>8. PauseIsSeen'
    BY <2>1, <2>2 DEF PauseIsSeen, Sees, QueuedPauses, Queued, Holding
  <2>9. FiredIsPushed'
    BY <2>1 DEF FiredIsPushed, PushedFor
  <2>10. TypeOK'
    BY <1>1, <2>1, <2>2, <2>4 DEF TypeOK, Locals
  <2> QED
    BY <2>6, <2>7, <2>8, <2>9, <2>10
<1> QED
  BY <1>3, <1>4, <1>5

\* The steps on wakeups: scheduled, due, cancelled, marked.
LEMMA WakeupSteps ==
    ASSUME Inv, \/ \E w \in Wakeups : ScheduleWakeup(w) \/ ComesDue(w) \/ CancelWakeup(w)
                \/ \E r \in Runtimes : MarkWakeup(r) \/ Finish(r)
    PROVE  Inv'
<1> USE DEF Inv, wakeups, triggers
<1>1. ASSUME NEW w \in Wakeups, ScheduleWakeup(w) \/ ComesDue(w) \/ CancelWakeup(w)
      PROVE  Inv'
  <2>1. /\ UNCHANGED <<queue, consumed, recorded, firedBy, triggers, cycle, eval, runs,
                       overtaken, faults>>
        /\ wakeup' = wakeup \/ wakeup' = [wakeup EXCEPT ![w] = "scheduled"]
                            \/ wakeup' = [wakeup EXCEPT ![w] = "cancelled"]
        /\ due' \subseteq Wakeups
    BY <1>1 DEF ScheduleWakeup, ComesDue, CancelWakeup, TypeOK
  <2>2. TypeOK'
    BY <2>1 DEF TypeOK
  <2>3. CyclesAgree' /\ OneRuns' /\ PauseIsSeen'
    BY <2>1 DEF CyclesAgree, Agrees, OneRuns, PauseIsSeen, Sees, At, PushedFor,
                QueuedPauses, Queued
  <2>4. FiredIsPushed'
    BY <2>1 DEF FiredIsPushed, PushedFor, TypeOK
  <2> QED
    BY <2>2, <2>3, <2>4
<1>2. ASSUME NEW r \in Runtimes, MarkWakeup(r)
      PROVE  Inv'
  <2> DEFINE w == cycle[r].wakeup
             c == [cycle[r] EXCEPT !.due = @ \ {w}, !.wakeup = None, !.event = 0]
  <2>1. /\ Agrees(cycle[r]) /\ Sees(r, cycle[r]) /\ cycle[r] \in Locals
        /\ cycle[r].pc = "wakeups" /\ w \in Wakeups
        /\ Len(queue) \in Nat
    <3>1. Agrees(cycle[r]) /\ Sees(r, cycle[r])
      BY DEF CyclesAgree, PauseIsSeen
    <3>2. cycle[r] \in Locals /\ Len(queue) \in Nat
      BY DEF TypeOK, Locals
    <3>3. cycle[r].pc = "wakeups" /\ w # None
      BY <1>2 DEF MarkWakeup, At
    <3> QED
      BY <3>1, <3>2, <3>3 DEF Locals
  <2>2. c \in Locals /\ Agrees(c) /\ Sees(r, c) /\ c.pc # "run"
    <3>1. c \in Locals
      <4>1. cycle[r].due \ {w} \in SUBSET Wakeups /\ 0 \in 0..Len(queue)
        BY <2>1 DEF Locals
      <4> QED
        BY <2>1, <4>1 DEF Locals
    <3>2. c.pc = "wakeups" /\ c.wakeup = None /\ c.mode = cycle[r].mode
      BY <2>1 DEF Locals
    <3>3. Agrees(c)
      BY <2>1, <3>2 DEF Agrees, Popping, Holding
    <3> QED
      BY <2>1, <3>1, <3>2, <3>3 DEF Sees
  <2>3. /\ Becomes(r, c)
        /\ UNCHANGED <<queue, consumed, recorded, due, triggers, eval, runs, overtaken,
                       faults>>
    BY <1>2 DEF MarkWakeup
  <2>4. CASE wakeup[w] = "scheduled"
    <3>1. /\ wakeup' = [wakeup EXCEPT ![w] = "fired"]
          /\ firedBy' = [firedBy EXCEPT ![w] = cycle[r].event]
      BY <1>2, <2>4 DEF MarkWakeup
    <3>2. cycle[r].event \in PushedFor(w) /\ cycle[r].event \in 0..Len(queue)
      BY <1>2, <2>1 DEF MarkWakeup, Agrees, Locals
    <3>3. /\ wakeup' \in [Wakeups -> {None, "scheduled", "fired", "cancelled"}]
          /\ firedBy' \in [Wakeups -> 0..Len(queue)]
      BY <2>1, <3>1, <3>2 DEF TypeOK
    <3>4. FiredIsPushed'
      BY <2>1, <2>3, <3>1, <3>2 DEF FiredIsPushed, PushedFor, TypeOK
    <3> QED
      BY <2>2, <2>3, <3>3, <3>4, MarkingStep
  <2>5. CASE wakeup[w] # "scheduled"
    <3>1. UNCHANGED wakeups
      BY <1>2, <2>3, <2>5 DEF MarkWakeup
    <3> QED
      BY <2>2, <2>3, <3>1, LocalStep
  <2> QED
    BY <2>4, <2>5
<1>3. ASSUME NEW r \in Runtimes, Finish(r)
      PROVE  Inv'
  <2>1. /\ NoCycle \in Locals /\ NoCycle.pc # "run" /\ NoCycle.wakeup = None
        /\ Agrees(NoCycle) /\ Sees(r, NoCycle)
    BY NoCycleIsTyped
    DEF TypeOK, PauseIsSeen, Agrees, Sees, NoCycle, Popping, Holding
  <2>2. /\ Becomes(r, NoCycle)
        /\ UNCHANGED <<queue, consumed, recorded, due, firedBy, triggers, eval, runs,
                       overtaken, faults>>
        /\ \/ wakeup' = wakeup
           \/ \E w \in Wakeups : wakeup' = [wakeup EXCEPT ![w] = "scheduled"]
    BY <1>3 DEF Finish
  <2>3. /\ wakeup' \in [Wakeups -> {None, "scheduled", "fired", "cancelled"}]
        /\ firedBy' \in [Wakeups -> 0..Len(queue)]
    BY <2>2 DEF TypeOK
  <2>4. FiredIsPushed'
    BY <2>2 DEF FiredIsPushed, PushedFor, TypeOK
  <2> QED
    BY <2>1, <2>2, <2>3, <2>4, MarkingStep
<1> QED
  BY <1>1, <1>2, <1>3

\* The steps on triggers.
LEMMA TriggerSteps ==
    ASSUME Inv, \/ \E t \in Triggers : CreateTrigger(t) \/ CancelTrigger(t)
                \/ \E p \in Evaluators : Evaluate(p) \/ CountFire(p)
    PROVE  Inv'
<1> USE DEF Inv, wakeups, triggers
<1>1. UNCHANGED <<queue, consumed, recorded, wakeup, due, firedBy, cycle, runs,
                  overtaken, faults>>
  BY DEF CreateTrigger, CancelTrigger, Evaluate, CountFire
<1>2. CyclesAgree' /\ OneRuns' /\ PauseIsSeen' /\ FiredIsPushed'
  BY <1>1 DEF CyclesAgree, Agrees, OneRuns, PauseIsSeen, Sees, At, PushedFor,
              QueuedPauses, Queued, FiredIsPushed
<1>3. /\ trigger' \in [Triggers -> {None, "active", "cancelled"}]
      /\ fireCount' \in [Triggers -> Nat]
  <2>1. /\ trigger \in [Triggers -> {None, "active", "cancelled"}]
        /\ fireCount \in [Triggers -> Nat]
    BY DEF TypeOK
  <2>2. ASSUME NEW t \in Triggers, CreateTrigger(t) \/ CancelTrigger(t)
        PROVE  /\ UNCHANGED fireCount
               /\ \/ trigger' = [trigger EXCEPT ![t] = "active"]
                  \/ trigger' = [trigger EXCEPT ![t] = "cancelled"]
    BY <2>2 DEF CreateTrigger, CancelTrigger
  <2>3. ASSUME NEW p \in Evaluators, Evaluate(p) \/ CountFire(p)
        PROVE  /\ UNCHANGED trigger
               /\ \/ UNCHANGED fireCount
                  \/ \E t \in Triggers : fireCount' = [fireCount EXCEPT ![t] = @ + 1]
    <3>1. eval[p].trigger # None => eval[p].trigger \in Triggers
      BY DEF TypeOK
    <3> QED
      BY <2>3, <3>1 DEF Evaluate, CountFire
  <2>4. CASE \E t \in Triggers : CreateTrigger(t) \/ CancelTrigger(t)
    BY <2>1, <2>2, <2>4
  <2>5. CASE \E p \in Evaluators : Evaluate(p) \/ CountFire(p)
    <3>1. ASSUME NEW t \in Triggers, fireCount' = [fireCount EXCEPT ![t] = @ + 1]
          PROVE  fireCount' \in [Triggers -> Nat]
      BY <2>1, <3>1
    <3> QED
      BY <2>1, <2>3, <2>5, <3>1
  <2> QED
    BY <2>4, <2>5
<1>4. eval' \in [Evaluators -> EvalLocals]
  <2>1. eval \in [Evaluators -> EvalLocals] /\ Len(queue) \in Nat
    BY DEF TypeOK, EvalLocals
  <2>2. CASE UNCHANGED eval
    BY <2>1, <2>2
  <2>3. ASSUME NEW p \in Evaluators, NEW set \in SUBSET Triggers,
               eval' = [eval EXCEPT ![p].matching = set]
        PROVE  eval' \in [Evaluators -> EvalLocals]
    BY <2>1, <2>3 DEF EvalLocals
  <2>4. ASSUME NEW p \in Evaluators,
               eval' = [eval EXCEPT ![p] = [NoEval EXCEPT !.matching = eval[p].matching]]
        PROVE  eval' \in [Evaluators -> EvalLocals]
    BY <2>1, <2>4 DEF EvalLocals, NoEval
  <2> QED
    BY <2>2, <2>3, <2>4 DEF CreateTrigger, CancelTrigger, Evaluate, CountFire
<1>5. TypeOK'
  BY <1>1, <1>3, <1>4 DEF TypeOK, EvalLocals
<1> QED
  BY <1>2, <1>5

\* A fault ends cycles and evaluations and leaves the tables alone.
LEMMA FaultSteps ==
    ASSUME Inv, NEW threads, Abandon(threads)
    PROVE  Inv'
<1> USE DEF Inv, wakeups, triggers
<1>1. /\ UNCHANGED <<queue, consumed, recorded, wakeup, due, firedBy, trigger, fireCount,
                     runs, overtaken>>
      /\ faults' \in 0..MaxFaults
      /\ cycle' \in [Runtimes -> Locals]
      /\ eval' \in [Evaluators -> EvalLocals]
  <2>1. /\ cycle \in [Runtimes -> Locals] /\ eval \in [Evaluators -> EvalLocals]
        /\ NoCycle \in Locals /\ NoEval \in EvalLocals
    BY NoCycleIsTyped DEF TypeOK, Locals, EvalLocals, NoEval
  <2> QED
    BY <2>1, QueueConstants DEF Abandon, TypeOK
<1>2. TypeOK'
  BY <1>1 DEF TypeOK, Locals, EvalLocals
<1>3. \A q \in Runtimes : cycle'[q] = cycle[q] \/ cycle'[q] = NoCycle
  BY DEF Abandon
<1>4. CyclesAgree' /\ OneRuns' /\ PauseIsSeen' /\ FiredIsPushed'
  BY <1>1, <1>3 DEF CyclesAgree, Agrees, OneRuns, PauseIsSeen, Sees, At, PushedFor,
                    QueuedPauses, Queued, FiredIsPushed, NoCycle, Popping, Holding
<1> QED
  BY <1>2, <1>4

\* Stuttering.
LEMMA Stutter == Inv /\ UNCHANGED vars => Inv'
  BY DEF Inv, vars, wakeups, triggers, TypeOK, CyclesAgree, Agrees, OneRuns, PauseIsSeen,
         Sees, At, PushedFor, QueuedPauses, Queued, FiredIsPushed

\* Every step keeps the invariant.
LEMMA InvStep == Inv /\ [Next]_vars => Inv'
<1> SUFFICES ASSUME Inv, [Next]_vars PROVE Inv'
  OBVIOUS
<1>1. ASSUME NEW r \in Runtimes, CycleStep(r) \/ RaiseCycle(r) PROVE Inv'
  BY <1>1, ReadSteps, PushSteps, WakeupSteps, TakeSteps, FaultSteps
  DEF CycleStep, RaiseCycle
<1>2. ASSUME NEW p \in Evaluators, EvalStep(p) \/ RaiseEval(p) PROVE Inv'
  BY <1>2, PushSteps, TriggerSteps, FaultSteps DEF EvalStep, RaiseEval
<1> QED
  BY <1>1, <1>2, PushSteps, WakeupSteps, TriggerSteps, FaultSteps, Stutter
  DEF Next, Crash

-----------------------------------------------------------------------------
(* The theorems. *)

\* What the locals of every cycle say of the tables is always true.
THEOREM InvHolds == Spec => []Inv
  BY InvInit, InvStep, PTL DEF Spec

\* Every column and every local stays in its range.
THEOREM TypeCorrect == Spec => []TypeOK
  BY InvHolds, PTL DEF Inv

\* Whatever the race of the pops, the agent runs at most once for an event
\* (queue.py, consume; event_bus.py, append).
THEOREM EventsRunOnce == Spec => []RunsOnce
<1>1. Inv => RunsOnce
  BY DEF Inv, OneRuns, RunsOnce
<1> QED
  BY <1>1, InvHolds, PTL

\* A wakeup that is recorded as fired has its event (autonomous.py,
\* _enqueue_due_wakeups).
THEOREM FiringsAreBacked == Spec => []FiredIsPushed
  BY InvHolds, PTL DEF Inv

\* A runtime takes at most one other event while a PAUSE is queued
\* (step_boundary.py, check).
THEOREM PausesComeNext == Spec => []PauseBoundsWork
<1>1. Inv => PauseBoundsWork
  BY DEF Inv, PauseIsSeen, Sees, PauseBoundsWork
<1> QED
  BY <1>1, InvHolds, PTL

-----------------------------------------------------------------------------
(***************************************************************************)
(* What is counted: how many cycles and evaluations can still push, and    *)
(* have pushed and not marked.  Only a fault makes an event that nothing   *)
(* will ever mark, and each fault stops at most all of them.               *)
(***************************************************************************)

\* The cycles that have pushed wakeup w and not marked it, and those that will push it.
Marking(w) == {r \in Runtimes : cycle[r].wakeup = w}
Taking(w) == {r \in Runtimes : w \in cycle[r].due /\ cycle[r].wakeup # w}

\* Until it is marked each push of a wakeup stands for a cycle; no later cycle takes it.
WakeupIsCounted(w) ==
    LET pushed == Cardinality(PushedFor(w))  all == Cardinality(Runtimes) IN
    IF wakeup[w] \in {None, "scheduled"}
    THEN pushed <= Cardinality(Marking(w)) + all * faults
    ELSE pushed + Cardinality(Taking(w)) <= all * faults + all

\* The evaluations that have pushed for trigger t and not counted it, and those that
\* will push.
Counting(t) == {p \in Evaluators : eval[p].trigger = t}
Matching(t) == {p \in Evaluators : t \in eval[p].matching}

\* Each push of a trigger is counted, about to be counted or lost in a fault, and those
\* that will push have read a count below the limit.
TriggerIsCounted(t) ==
    LET pushed == Cardinality(PushedFor(t))  all == Cardinality(Evaluators) IN
    /\ fireCount[t] + Cardinality(Counting(t)) <= pushed
    /\ trigger[t] # "cancelled" => pushed <= fireCount[t] + Cardinality(Counting(t)) + all * faults
    /\ trigger[t] = None => Counting(t) = {} /\ Matching(t) = {}
    /\ Counting(t) \cap Matching(t) = {}
    /\ MaxFires[t] # 0 => pushed + Cardinality(Matching(t)) < MaxFires[t] + all * faults + all

\* A cycle that pauses holds a PAUSE.
PausesAreHeld ==
    \A r \in Runtimes : At(r, "handle") /\ cycle[r].mode = "pause" => queue[cycle[r].event].kind = "pause"

\* A cycle has read what it takes.
TakenExist == \A r \in Runtimes : \A w \in cycle[r].due : wakeup[w] # None

CountInv ==
    /\ Inv
    /\ TakenExist
    /\ \A w \in Wakeups : WakeupIsCounted(w)
    /\ \A t \in Triggers : TriggerIsCounted(t)
    /\ PausesAreHeld
    /\ Cardinality(Dropped) <= faults * Cardinality(Runtimes)

\* Both in a state and in the next one, whatever the step.
LEMMA CountsAreFinite ==
    /\ Cardinality(Runtimes) \in Nat /\ Cardinality(Evaluators) \in Nat
    /\ \A w : /\ IsFiniteSet(Marking(w)) /\ Cardinality(Marking(w)) \in Nat
              /\ IsFiniteSet(Taking(w)) /\ Cardinality(Taking(w)) \in Nat
              /\ IsFiniteSet(Marking(w)') /\ Cardinality(Marking(w)') \in Nat
              /\ IsFiniteSet(Taking(w)') /\ Cardinality(Taking(w)') \in Nat
    /\ \A t : /\ IsFiniteSet(Counting(t)) /\ Cardinality(Counting(t)) \in Nat
              /\ IsFiniteSet(Matching(t)) /\ Cardinality(Matching(t)) \in Nat
              /\ IsFiniteSet(Counting(t)') /\ Cardinality(Counting(t)') \in Nat
              /\ IsFiniteSet(Matching(t)') /\ Cardinality(Matching(t)') \in Nat
<1>1. IsFiniteSet(Runtimes) /\ IsFiniteSet(Evaluators)
  BY QueueConstants
<1>2. \A set \in SUBSET Runtimes : IsFiniteSet(set) /\ Cardinality(set) \in Nat
  BY <1>1, FS_Subset, FS_CardinalityType
<1>3. \A set \in SUBSET Evaluators : IsFiniteSet(set) /\ Cardinality(set) \in Nat
  BY <1>1, FS_Subset, FS_CardinalityType
<1>4. \A w : Marking(w) \in SUBSET Runtimes /\ Taking(w) \in SUBSET Runtimes
             /\ Marking(w)' \in SUBSET Runtimes /\ Taking(w)' \in SUBSET Runtimes
  BY DEF Marking, Taking
<1>5. \A t : Counting(t) \in SUBSET Evaluators /\ Matching(t) \in SUBSET Evaluators
             /\ Counting(t)' \in SUBSET Evaluators /\ Matching(t)' \in SUBSET Evaluators
  BY DEF Counting, Matching
<1> QED
  BY <1>1, <1>2, <1>3, <1>4, <1>5, FS_CardinalityType

LEMMA PushesAreFinite ==
    /\ TypeOK => \A x : IsFiniteSet(PushedFor(x)) /\ Cardinality(PushedFor(x)) \in Nat
    /\ TypeOK' => \A x : IsFiniteSet(PushedFor(x)') /\ Cardinality(PushedFor(x)') \in Nat
<1>1. ASSUME NEW n \in Nat
      PROVE  \A set \in SUBSET (1..n) : IsFiniteSet(set) /\ Cardinality(set) \in Nat
  <2>1. IsFiniteSet(1..n)
    BY FS_Interval
  <2> QED
    BY <2>1, FS_Subset, FS_CardinalityType
<1>2. TypeOK => Len(queue) \in Nat
  BY DEF TypeOK
<1>3. TypeOK' => Len(queue') \in Nat
  BY DEF TypeOK
<1>4. \A x : PushedFor(x) \in SUBSET (1..Len(queue)) /\ PushedFor(x)' \in SUBSET (1..Len(queue'))
  BY DEF PushedFor
<1> QED
  BY <1>1, <1>2, <1>3, <1>4

\* Two parts of a finite set that have nothing in common.
LEMMA PartsAreFewer ==
    ASSUME NEW S, IsFiniteSet(S), NEW A \in SUBSET S, NEW B \in SUBSET S, A \cap B = {}
    PROVE  Cardinality(A) + Cardinality(B) <= Cardinality(S)
<1>1. IsFiniteSet(A) /\ IsFiniteSet(B) /\ A \cup B \in SUBSET S
  BY FS_Subset
<1>2. Cardinality(A \cup B) = Cardinality(A) + Cardinality(B) - Cardinality(A \cap B)
  BY <1>1, FS_Union
<1>3. Cardinality(A \cap B) = 0
  BY FS_EmptySet
<1>4. Cardinality(A \cup B) <= Cardinality(S)
  BY <1>1, FS_Subset
<1>5. Cardinality(A) \in Nat /\ Cardinality(B) \in Nat
  BY <1>1, FS_CardinalityType
<1> QED
  BY <1>2, <1>3, <1>4, <1>5

LEMMA Products ==
    ASSUME NEW a \in Nat, NEW b \in Nat
    PROVE  a * b \in Nat /\ a * (b + 1) = a * b + a /\ b * a = a * b
  OBVIOUS

LEMMA LossIsNat ==
    TypeOK => /\ faults \in Nat
              /\ Cardinality(Runtimes) * faults \in Nat
              /\ Cardinality(Evaluators) * faults \in Nat
<1>1. TypeOK => faults \in Nat
  BY QueueConstants DEF TypeOK
<1> QED
  BY <1>1, CountsAreFinite, Products

\* A push adds its event to those of what it is from, and to no others.
LEMMA PushIsCounted ==
    ASSUME TypeOK, NEW event \in EventRecords, Push(event), NEW x
    PROVE  /\ event.from = x => /\ PushedFor(x)' = PushedFor(x) \cup {Len(queue')}
                                /\ Cardinality(PushedFor(x)') = Cardinality(PushedFor(x)) + 1
           /\ event.from # x => PushedFor(x)' = PushedFor(x)
<1>1. /\ Len(queue) \in Nat /\ Len(queue') = Len(queue) + 1 /\ queue'[Len(queue')] = event
      /\ \A e \in 1..Len(queue) : queue'[e] = queue[e]
  BY PushAppends
<1>2. 1..Len(queue') = 1..Len(queue) \cup {Len(queue')} /\ Len(queue') \notin 1..Len(queue)
  BY <1>1
<1>3. CASE event.from = x
  <2>1. PushedFor(x)' = PushedFor(x) \cup {Len(queue')} /\ Len(queue') \notin PushedFor(x)
    BY <1>1, <1>2, <1>3 DEF PushedFor
  <2>2. Cardinality(PushedFor(x) \cup {Len(queue')}) = Cardinality(PushedFor(x)) + 1
    BY <2>1, FS_AddElement, PushesAreFinite
  <2> QED
    BY <1>3, <2>1, <2>2
<1>4. CASE event.from # x
  BY <1>1, <1>2, <1>4 DEF PushedFor
<1> QED
  BY <1>3, <1>4

-----------------------------------------------------------------------------
(* Wakeups. *)
Open == {None, "scheduled"}

\* Marking and taking at the same time are different cycles.
LEMMA WakeupParts ==
    ASSUME NEW w
    PROVE  Cardinality(Marking(w)) + Cardinality(Taking(w)) <= Cardinality(Runtimes)
<1>1. Marking(w) \in SUBSET Runtimes /\ Taking(w) \in SUBSET Runtimes
      /\ Marking(w) \cap Taking(w) = {}
  BY DEF Marking, Taking
<1> QED
  BY <1>1, PartsAreFewer, QueueConstants

\* Nobody pushes for the wakeup; it may be closed, by its mark or by being cancelled.
LEMMA WakeupFrame ==
    ASSUME CountInv, Inv', NEW w \in Wakeups, PushedFor(w)' = PushedFor(w), UNCHANGED faults,
           wakeup'[w] \in Open => wakeup[w] \in Open /\ Marking(w) \subseteq Marking(w)',
           wakeup'[w] \notin Open => Taking(w)' \subseteq Taking(w)
    PROVE  WakeupIsCounted(w)'
<1> DEFINE pushed == Cardinality(PushedFor(w))
           all == Cardinality(Runtimes)
           lost == all * faults
           M == Cardinality(Marking(w))
           T == Cardinality(Taking(w))
           N == Cardinality(Marking(w)')
           U == Cardinality(Taking(w)')
<1>1. M \in Nat /\ T \in Nat /\ N \in Nat /\ U \in Nat /\ all \in Nat /\ M + T <= all
  BY CountsAreFinite, WakeupParts
<1>2. pushed \in Nat /\ lost \in Nat
  BY PushesAreFinite, CountsAreFinite, LossIsNat DEF CountInv, Inv
<1>3. IF wakeup[w] \in Open THEN pushed <= M + lost ELSE pushed + T <= lost + all
  BY DEF CountInv, WakeupIsCounted, Open
<1>4. (wakeup'[w] \in Open => M <= N) /\ (wakeup'[w] \notin Open => U <= T)
  BY CountsAreFinite, FS_Subset
<1> HIDE DEF M, T, N, U, pushed, lost, all
<1>5. IF wakeup'[w] \in Open THEN pushed <= N + lost ELSE pushed + U <= lost + all
  <2>1. CASE wakeup'[w] \in Open
    BY <1>1, <1>2, <1>3, <1>4, <2>1
  <2>2. CASE wakeup'[w] \notin Open
    BY <1>1, <1>2, <1>3, <1>4, <2>2
  <2> QED
    BY <2>1, <2>2
<1> QED
  BY <1>5 DEF WakeupIsCounted, Open, N, U, pushed, lost, all

\* One cycle that takes it pushes it.
LEMMA WakeupOfPush ==
    ASSUME CountInv, Inv', NEW r \in Runtimes, PushWakeup(r), NEW w \in Wakeups
    PROVE  WakeupIsCounted(w)'
<1>1. PICK v \in cycle[r].due :
        /\ Push(Stimulus(v))
        /\ Becomes(r, [cycle[r] EXCEPT !.wakeup = v, !.event = Len(queue')])
  BY DEF PushWakeup
<1>2. /\ cycle[r].wakeup = None /\ cycle \in [Runtimes -> Locals] /\ v \in Wakeups
      /\ UNCHANGED <<wakeup, faults>>
  BY <1>1 DEF PushWakeup, CountInv, Inv, TypeOK, Locals, wakeups
<1>3. Stimulus(v) \in EventRecords /\ Stimulus(v).from = v
  BY <1>2, PushedEvents DEF Stimulus
<1>4. /\ cycle'[r].wakeup = v /\ cycle'[r].due = cycle[r].due
      /\ \A q \in Runtimes \ {r} : cycle'[q] = cycle[q]
  BY <1>1, <1>2 DEF Becomes, Locals
<1>5. None \notin Wakeups
  BY QueueConstants
<1>6. CASE v # w
  <2>1. PushedFor(w)' = PushedFor(w)
    BY <1>1, <1>3, <1>6, PushIsCounted DEF CountInv, Inv
  <2>2. Marking(w)' = Marking(w) /\ Taking(w)' = Taking(w)
    BY <1>2, <1>4, <1>5, <1>6 DEF Marking, Taking
  <2> QED
    BY <1>2, <2>1, <2>2, WakeupFrame
<1>7. CASE v = w
  <2> DEFINE pushed == Cardinality(PushedFor(w))
             all == Cardinality(Runtimes)
             lost == all * faults
             M == Cardinality(Marking(w))
             T == Cardinality(Taking(w))
  <2>1. Cardinality(PushedFor(w)') = pushed + 1
    BY <1>1, <1>3, <1>7, PushIsCounted DEF CountInv, Inv
  <2>2. /\ Marking(w)' = Marking(w) \cup {r} /\ r \notin Marking(w)
        /\ Taking(w)' = Taking(w) \ {r} /\ r \in Taking(w)
    BY <1>1, <1>2, <1>4, <1>5, <1>7 DEF Marking, Taking
  <2>3. Cardinality(Marking(w)') = M + 1 /\ Cardinality(Taking(w)') = T - 1
    <3>1. Cardinality(Marking(w) \cup {r}) = M + 1
      BY <2>2, CountsAreFinite, FS_AddElement
    <3>2. Cardinality(Taking(w) \ {r}) = T - 1
      BY <2>2, CountsAreFinite, FS_RemoveElement
    <3> QED
      BY <2>2, <3>1, <3>2
  <2>4. M \in Nat /\ T \in Nat /\ all \in Nat /\ pushed \in Nat /\ lost \in Nat
    BY PushesAreFinite, CountsAreFinite, LossIsNat DEF CountInv, Inv
  <2>5. IF wakeup[w] \in Open THEN pushed <= M + lost ELSE pushed + T <= lost + all
    BY DEF CountInv, WakeupIsCounted, Open
  <2> HIDE DEF M, T, pushed, lost, all
  <2>6. IF wakeup[w] \in Open THEN pushed + 1 <= (M + 1) + lost
                              ELSE (pushed + 1) + (T - 1) <= lost + all
    BY <2>4, <2>5
  <2> QED
    BY <1>2, <2>1, <2>3, <2>6 DEF WakeupIsCounted, Open, M, T, pushed, lost, all
<1> QED
  BY <1>6, <1>7

\* A fault stops the cycles that have pushed, all of them at the most.
LEMMA WakeupOfFault ==
    ASSUME CountInv, Inv', NEW threads, Abandon(threads), NEW w \in Wakeups
    PROVE  WakeupIsCounted(w)'
<1> DEFINE pushed == Cardinality(PushedFor(w))
           all == Cardinality(Runtimes)
           lost == all * faults
           M == Cardinality(Marking(w))
           T == Cardinality(Taking(w))
           N == Cardinality(Marking(w)')
           U == Cardinality(Taking(w)')
<1>1. M \in Nat /\ T \in Nat /\ N \in Nat /\ U \in Nat /\ all \in Nat /\ M + T <= all
  BY CountsAreFinite, WakeupParts
<1>2. pushed \in Nat /\ lost \in Nat /\ faults \in Nat
  BY PushesAreFinite, CountsAreFinite, LossIsNat DEF CountInv, Inv
<1>3. IF wakeup[w] \in Open THEN pushed <= M + lost ELSE pushed + T <= lost + all
  BY DEF CountInv, WakeupIsCounted, Open
<1>4. U <= T
  <2>1. \A q \in Runtimes : cycle'[q] = cycle[q] \/ cycle'[q] = NoCycle
    BY DEF Abandon
  <2>2. Taking(w)' \subseteq Taking(w)
    BY <2>1 DEF Taking, NoCycle
  <2> QED
    BY <2>2, CountsAreFinite, FS_Subset
<1>5. UNCHANGED <<queue, wakeup>> /\ faults' = faults + 1
  BY DEF Abandon, wakeups
<1>6. all * faults' = lost + all
  BY <1>1, <1>2, <1>5, Products
<1> HIDE DEF M, T, N, U, pushed, lost, all
<1>7. IF wakeup[w] \in Open THEN pushed <= N + (lost + all)
                            ELSE pushed + U <= (lost + all) + all
  BY <1>1, <1>2, <1>3, <1>4
<1>8. pushed' = pushed
  BY <1>5 DEF pushed, PushedFor
<1> QED
  BY <1>5, <1>6, <1>7, <1>8 DEF WakeupIsCounted, Open, N, U, pushed, lost, all

\* A cycle moves that has pushed no wakeup that it has not marked.
LEMMA WakeupOfMove ==
    ASSUME CountInv, Inv', NEW r \in Runtimes, NEW c \in Locals, Becomes(r, c),
           UNCHANGED <<queue, faults>>, cycle[r].wakeup = None, c.wakeup = None,
           NEW w \in Wakeups, wakeup'[w] \in Open => wakeup[w] \in Open,
           wakeup'[w] \notin Open => (w \in c.due => w \in cycle[r].due)
    PROVE  WakeupIsCounted(w)'
<1>1. /\ cycle'[r] = c /\ \A q \in Runtimes \ {r} : cycle'[q] = cycle[q]
      /\ None \notin Wakeups
  BY QueueConstants DEF Becomes, CountInv, Inv, TypeOK
<1>2. PushedFor(w)' = PushedFor(w) /\ Marking(w)' = Marking(w)
  BY <1>1 DEF PushedFor, Marking
<1>3. wakeup'[w] \notin Open => Taking(w)' \subseteq Taking(w)
  BY <1>1 DEF Taking
<1> QED
  BY <1>2, <1>3, WakeupFrame

\* A cycle that pushes or marks holds what it has taken.
LEMMA CycleIsTyped ==
    ASSUME Inv, NEW r \in Runtimes
    PROVE  /\ cycle[r] \in Locals /\ Agrees(cycle[r]) /\ cycle \in [Runtimes -> Locals]
           /\ NoCycle \in Locals /\ NoCycle.wakeup = None /\ NoCycle.due = {}
<1>1. Len(queue) \in Nat
  BY DEF Inv, TypeOK
<1> QED
  BY <1>1, NoCycleIsTyped DEF Inv, TypeOK, CyclesAgree, Locals, NoCycle

\* The steps of a cycle that look at a wakeup.
LEMMA WakeupOfCycle ==
    ASSUME CountInv, Inv', NEW r \in Runtimes, CycleStep(r), ~PushWakeup(r), NEW w \in Wakeups
    PROVE  WakeupIsCounted(w)'
<1>1. /\ cycle[r] \in Locals /\ Agrees(cycle[r]) /\ cycle \in [Runtimes -> Locals]
      /\ NoCycle \in Locals /\ NoCycle.wakeup = None /\ NoCycle.due = {}
  BY CycleIsTyped DEF CountInv
<1>2. UNCHANGED <<queue, faults>>
  BY DEF CycleStep, StartCycle, PushWakeup, MarkWakeup, CheckPause, CheckPriority, Peek,
         GetEvent, Consume, Observe, Record, Run, Finish
<1>3. CASE StartCycle(r)
  <2>1. PICK c \in Locals : c = [NoCycle EXCEPT !.pc = "wakeups", !.due = DueWakeups]
    <3>1. DueWakeups \in SUBSET Wakeups
      BY DEF DueWakeups, CountInv, Inv, TypeOK
    <3> QED
      BY <1>1, <3>1 DEF Locals, CyclePCs
  <2>2. /\ c.wakeup = None /\ c.due = DueWakeups /\ Becomes(r, c) /\ UNCHANGED wakeup
        /\ cycle[r].wakeup = None
    BY <1>1, <1>3, <2>1 DEF StartCycle, Locals, Agrees, At, wakeups
  <2>3. wakeup'[w] \notin Open => w \notin c.due
    BY <2>2 DEF Open, DueWakeups
  <2> QED
    BY <1>2, <2>2, <2>3, WakeupOfMove
<1>4. CASE MarkWakeup(r)
  <2>1. /\ cycle[r].wakeup \in Wakeups
        /\ cycle' = [cycle EXCEPT ![r] = [cycle[r] EXCEPT !.due = @ \ {cycle[r].wakeup},
                                            !.wakeup = None, !.event = 0]]
    BY <1>1, <1>4 DEF MarkWakeup, Becomes, Locals
  <2>2. /\ cycle'[r].wakeup = None /\ cycle'[r].due = cycle[r].due \ {cycle[r].wakeup}
        /\ \A q \in Runtimes \ {r} : cycle'[q] = cycle[q]
    BY <1>1, <2>1 DEF Locals
  <2>3. Taking(w)' \subseteq Taking(w)
    BY <2>2 DEF Taking
  <2>4. wakeup'[w] \in Open => wakeup[w] \in Open /\ cycle[r].wakeup # w
    <3>1. wakeup[cycle[r].wakeup] # None
      BY <1>1, <2>1, QueueConstants DEF Agrees, CountInv, TakenExist
    <3> QED
      BY <1>4, <2>1, <3>1, QueueConstants DEF MarkWakeup, Open, CountInv, Inv, TypeOK
  <2>5. wakeup'[w] \in Open => Marking(w) \subseteq Marking(w)'
    BY <2>2, <2>4 DEF Marking
  <2>6. PushedFor(w)' = PushedFor(w)
    BY <1>2 DEF PushedFor
  <2> QED
    BY <1>2, <2>3, <2>4, <2>5, <2>6, WakeupFrame
<1>5. ASSUME NEW c, Becomes(r, c), c = NoCycle \/ (c.wakeup = cycle[r].wakeup /\ c.due = cycle[r].due /\ c \in Locals),
             cycle[r].wakeup = None, wakeup'[w] \in Open => wakeup[w] \in Open
      PROVE  WakeupIsCounted(w)'
  <2>1. c \in Locals /\ c.wakeup = None /\ (w \in c.due => w \in cycle[r].due)
    BY <1>1, <1>5
  <2> QED
    BY <1>2, <1>5, <2>1, WakeupOfMove
<1>6. CASE CheckPause(r) \/ CheckPriority(r)
  <2>1. PICK p \in CyclePCs, m \in {"normal", "pause", "interrupt"} :
          Becomes(r, [cycle[r] EXCEPT !.pc = p, !.mode = m])
    <3>1. cycle[r].mode \in {"normal", "pause", "interrupt"}
      BY <1>1 DEF Locals
    <3>2. CASE CheckPause(r)
      <4>1. CASE QueuedPauses # {}
        BY <3>2, <4>1 DEF CheckPause, CyclePCs
      <4>2. CASE QueuedPauses = {}
        <5>1. [cycle[r] EXCEPT !.pc = "check"] = [cycle[r] EXCEPT !.pc = "check", !.mode = cycle[r].mode]
          BY <1>1 DEF Locals
        <5> QED
          BY <3>1, <3>2, <4>2, <5>1 DEF CheckPause, CyclePCs
      <4> QED
        BY <4>1, <4>2
    <3>3. CASE CheckPriority(r)
      BY <3>1, <3>3 DEF CheckPriority, CyclePCs
    <3> QED
      BY <1>6, <3>2, <3>3
  <2>2. PICK c \in Locals : c = [cycle[r] EXCEPT !.pc = p, !.mode = m]
    BY <1>1 DEF Locals
  <2>3. c.wakeup = cycle[r].wakeup /\ c.due = cycle[r].due
    BY <1>1, <2>2 DEF Locals
  <2>4. cycle[r].wakeup = None
    BY <1>1, <1>6 DEF CheckPause, CheckPriority, At, Agrees
  <2>5. UNCHANGED wakeup
    BY <1>6 DEF CheckPause, CheckPriority, wakeups
  <2> QED
    BY <1>5, <2>1, <2>2, <2>3, <2>4, <2>5
<1>7. CASE Peek(r) \/ GetEvent(r) \/ Consume(r) \/ Observe(r) \/ Record(r) \/ Run(r) \/ Finish(r)
  <2>1. cycle[r].wakeup = None
    BY <1>1, <1>7 DEF Peek, GetEvent, Consume, Observe, Record, Run, Finish, At, Agrees
  <2>2. wakeup'[w] \in Open => wakeup[w] \in Open
    BY <1>7 DEF Peek, GetEvent, Consume, Observe, Record, Run, Finish, wakeups, Open,
                CountInv, Inv, TypeOK
  <2>3. ASSUME NEW p \in CyclePCs, Becomes(r, [cycle[r] EXCEPT !.pc = p])
        PROVE  WakeupIsCounted(w)'
    <3>1. PICK c \in Locals : c = [cycle[r] EXCEPT !.pc = p]
      BY <1>1 DEF Locals
    <3>2. c.wakeup = cycle[r].wakeup /\ c.due = cycle[r].due
      BY <1>1, <3>1 DEF Locals
    <3> QED
      BY <1>5, <2>1, <2>2, <2>3, <3>1, <3>2
  <2>4. ASSUME NEW e \in 1..Len(queue), Becomes(r, [cycle[r] EXCEPT !.pc = "get", !.event = e])
        PROVE  WakeupIsCounted(w)'
    <3>1. e \in 0..Len(queue)
      BY DEF CountInv, Inv, TypeOK
    <3>2. PICK c \in Locals : c = [cycle[r] EXCEPT !.pc = "get", !.event = e]
      BY <1>1, <3>1 DEF Locals, CyclePCs
    <3>3. c.wakeup = cycle[r].wakeup /\ c.due = cycle[r].due
      BY <1>1, <3>2 DEF Locals
    <3> QED
      BY <1>5, <2>1, <2>2, <2>4, <3>2, <3>3
  <2>5. ASSUME Becomes(r, NoCycle) PROVE WakeupIsCounted(w)'
    BY <1>5, <2>1, <2>2, <2>5
  <2>6. CASE Peek(r)
    <3>1. \A e \in Candidates(r) : e \in 1..Len(queue)
      BY DEF Candidates, QueuedPauses, Queued
    <3> QED
      BY <2>4, <2>5, <2>6, <3>1 DEF Peek
  <2>7. CASE GetEvent(r) \/ Consume(r) \/ Observe(r) \/ Record(r) \/ Run(r) \/ Finish(r)
    <3>1. {"consume", "handle", "run", "finish"} \subseteq CyclePCs
      BY DEF CyclePCs
    <3>2. \/ Becomes(r, NoCycle)
          \/ \E p \in {"consume", "handle", "run", "finish"} : Becomes(r, [cycle[r] EXCEPT !.pc = p])
      BY <2>7 DEF GetEvent, Consume, Observe, Record, Run, Finish
    <3> QED
      BY <2>3, <2>5, <3>1, <3>2
  <2> QED
    BY <1>7, <2>6, <2>7
<1> QED
  BY <1>3, <1>4, <1>6, <1>7 DEF CycleStep

LEMMA WakeupsStayCounted ==
    ASSUME CountInv, Inv', [Next]_vars, NEW w \in Wakeups
    PROVE  WakeupIsCounted(w)'
<1>1. ASSUME PushedFor(w)' = PushedFor(w), UNCHANGED <<cycle, faults>>,
             wakeup'[w] \in Open => wakeup[w] \in Open
      PROVE  WakeupIsCounted(w)'
  <2>1. Marking(w)' = Marking(w) /\ Taking(w)' = Taking(w)
    BY <1>1 DEF Marking, Taking
  <2> QED
    BY <1>1, <2>1, WakeupFrame
<1>2. ASSUME NEW event \in EventRecords, Push(event), event.from # w, UNCHANGED <<cycle, faults, wakeups>>
      PROVE  WakeupIsCounted(w)'
  <2>1. PushedFor(w)' = PushedFor(w)
    BY <1>2, PushIsCounted DEF CountInv, Inv
  <2> QED
    BY <1>1, <1>2, <2>1 DEF wakeups
<1>3. CASE Submit
  <2>1. PICK event \in Pushed : Push(event)
    BY <1>3 DEF Submit
  <2>2. event \in EventRecords /\ event.from = None /\ w # None
    BY PushedEvents, QueueConstants
  <2> QED
    BY <1>2, <1>3, <2>1, <2>2 DEF Submit
<1>4. ASSUME NEW p \in Evaluators, FireTrigger(p)
      PROVE  WakeupIsCounted(w)'
  <2>1. PICK t \in eval[p].matching : Push(Stimulus(t))
    BY <1>4 DEF FireTrigger
  <2>2. t \in Triggers
    BY <2>1 DEF CountInv, Inv, TypeOK
  <2>3. Stimulus(t) \in EventRecords /\ Stimulus(t).from = t /\ t # w
    BY <2>2, PushedEvents, QueueConstants DEF Stimulus
  <2> QED
    BY <1>2, <1>4, <2>1, <2>3 DEF FireTrigger
<1>5. CASE \/ UNCHANGED vars
           \/ \E v \in Wakeups : ScheduleWakeup(v) \/ ComesDue(v) \/ CancelWakeup(v)
           \/ \E t \in Triggers : CreateTrigger(t) \/ CancelTrigger(t)
           \/ \E p \in Evaluators : Evaluate(p) \/ CountFire(p)
  <2>1. UNCHANGED <<queue, cycle, faults>>
    BY <1>5 DEF vars, ScheduleWakeup, ComesDue, CancelWakeup, CreateTrigger, CancelTrigger,
                Evaluate, CountFire
  <2>2. wakeup'[w] \in Open => wakeup[w] \in Open
    BY <1>5 DEF vars, ScheduleWakeup, ComesDue, CancelWakeup, CreateTrigger, CancelTrigger,
                Evaluate, CountFire, wakeups, Open, CountInv, Inv, TypeOK
  <2> QED
    BY <1>1, <2>1, <2>2 DEF PushedFor
<1>6. CASE Crash \/ (\E r \in Runtimes : RaiseCycle(r)) \/ \E p \in Evaluators : RaiseEval(p)
  BY <1>6, WakeupOfFault DEF Crash, RaiseCycle, RaiseEval
<1>7. ASSUME NEW r \in Runtimes, CycleStep(r) PROVE WakeupIsCounted(w)'
  BY <1>7, WakeupOfPush, WakeupOfCycle
<1> QED
  BY <1>3, <1>4, <1>5, <1>6, <1>7 DEF Next, EvalStep

\* A wakeup that a cycle has read stays: no row is ever taken away.
LEMMA TakenStayThere ==
    ASSUME CountInv, Inv', [Next]_vars PROVE TakenExist'
<1>1. \A w \in Wakeups : wakeup[w] # None => wakeup'[w] # None
  <2>1. \A w \in Wakeups : wakeup'[w] \in {wakeup[w], "scheduled", "fired", "cancelled"}
    <3>1. CASE UNCHANGED wakeups
      BY <3>1 DEF wakeups
    <3>2. CASE \E v \in Wakeups : ScheduleWakeup(v) \/ ComesDue(v) \/ CancelWakeup(v)
      BY <3>2 DEF ScheduleWakeup, ComesDue, CancelWakeup, CountInv, Inv, TypeOK
    <3>3. ASSUME NEW r \in Runtimes, MarkWakeup(r) \/ Finish(r)
          PROVE  \A w \in Wakeups : wakeup'[w] \in {wakeup[w], "scheduled", "fired", "cancelled"}
      BY <3>3 DEF MarkWakeup, Finish, wakeups, CountInv, Inv, TypeOK
    <3>4. \/ UNCHANGED wakeups
          \/ \E v \in Wakeups : ScheduleWakeup(v) \/ ComesDue(v) \/ CancelWakeup(v)
          \/ \E r \in Runtimes : MarkWakeup(r) \/ Finish(r)
      BY DEF Next, vars, Submit, Crash, Abandon, CreateTrigger, CancelTrigger, RaiseCycle, RaiseEval,
             CycleStep, StartCycle, PushWakeup, CheckPause, CheckPriority, Peek, GetEvent,
             Consume, Observe, Record, Run, EvalStep, Evaluate, FireTrigger, CountFire
    <3> QED
      BY <3>1, <3>2, <3>3, <3>4
  <2> QED
    BY <2>1, QueueConstants
<1>2. \A r \in Runtimes : cycle'[r].due \subseteq cycle[r].due \cup DueWakeups
  <2>1. CASE UNCHANGED cycle
    BY <2>1
  <2>2. ASSUME NEW threads, Abandon(threads)
        PROVE  \A r \in Runtimes : cycle'[r].due \subseteq cycle[r].due
    BY <2>2 DEF Abandon, NoCycle
  <2>3. ASSUME NEW q \in Runtimes, CycleStep(q)
        PROVE  \A r \in Runtimes : cycle'[r].due \subseteq cycle[r].due \cup DueWakeups
    <3>1. cycle[q] \in Locals /\ cycle \in [Runtimes -> Locals]
      BY CycleIsTyped DEF CountInv
    <3>2. cycle'[q].due \subseteq cycle[q].due \cup DueWakeups
      <4>1. \A c : Becomes(q, c) => cycle'[q] = c
        BY <3>1 DEF Becomes
      <4>2. NoCycle.due = {}
        BY DEF NoCycle
      <4>3. CASE StartCycle(q)
        BY <4>1, <4>3 DEF StartCycle, NoCycle
      <4>4. CASE PushWakeup(q)
        BY <3>1, <4>1, <4>4 DEF PushWakeup, Locals
      <4>5. CASE MarkWakeup(q)
        <5>1. cycle'[q] = [cycle[q] EXCEPT !.due = @ \ {cycle[q].wakeup}, !.wakeup = None, !.event = 0]
          BY <4>1, <4>5 DEF MarkWakeup
        <5> QED
          BY <3>1, <5>1 DEF Locals
      <4>6. CASE CheckPause(q) \/ CheckPriority(q) \/ Peek(q)
        BY <3>1, <4>1, <4>2, <4>6 DEF CheckPause, CheckPriority, Peek, Locals
      <4>7. CASE GetEvent(q) \/ Consume(q) \/ Observe(q) \/ Record(q) \/ Run(q) \/ Finish(q)
        BY <3>1, <4>1, <4>2, <4>7 DEF GetEvent, Consume, Observe, Record, Run, Finish, Locals
      <4> QED
        BY <2>3, <4>3, <4>4, <4>5, <4>6, <4>7 DEF CycleStep
    <3>3. \A r \in Runtimes \ {q} : cycle'[r] = cycle[r]
      BY <2>3, <3>1 DEF CycleStep, StartCycle, PushWakeup, MarkWakeup, CheckPause, CheckPriority,
             Peek, GetEvent, Consume, Observe, Record, Run, Finish, Becomes
    <3> QED
      BY <3>2, <3>3
  <2>4. \/ UNCHANGED cycle \/ (\E threads : Abandon(threads)) \/ \E q \in Runtimes : CycleStep(q)
    BY DEF Next, vars, Submit, Crash, CreateTrigger, CancelTrigger, RaiseCycle, RaiseEval,
           ScheduleWakeup, ComesDue, CancelWakeup, EvalStep, Evaluate, FireTrigger, CountFire
  <2> QED
    BY <2>1, <2>2, <2>3, <2>4
<1>3. \A r \in Runtimes : cycle[r].due \subseteq Wakeups
  BY DEF CountInv, Inv, TypeOK
<1>4. \A w \in DueWakeups : w \in Wakeups /\ wakeup[w] # None
  BY QueueConstants DEF DueWakeups, CountInv, Inv, TypeOK
<1> QED
  BY <1>1, <1>2, <1>3, <1>4 DEF TakenExist, CountInv

-----------------------------------------------------------------------------
(* Triggers. *)
LEMMA TriggerParts ==
    ASSUME NEW t, Counting(t) \cap Matching(t) = {}
    PROVE  Cardinality(Counting(t)) + Cardinality(Matching(t)) <= Cardinality(Evaluators)
<1>1. Counting(t) \in SUBSET Evaluators /\ Matching(t) \in SUBSET Evaluators
  BY DEF Counting, Matching
<1> QED
  BY <1>1, PartsAreFewer, QueueConstants

\* Nothing happens to the trigger.
LEMMA TriggerFrame ==
    ASSUME CountInv, NEW t \in Triggers, PushedFor(t)' = PushedFor(t), UNCHANGED faults,
           fireCount'[t] = fireCount[t], Counting(t)' = Counting(t), Matching(t)' \subseteq Matching(t),
           trigger'[t] = trigger[t] \/ (trigger[t] = None /\ trigger'[t] = "active")
                                    \/ (trigger[t] # None /\ trigger'[t] = "cancelled")
    PROVE  TriggerIsCounted(t)'
<1> DEFINE pushed == Cardinality(PushedFor(t))
           all == Cardinality(Evaluators)
           lost == all * faults
           C == Cardinality(Counting(t))
           M == Cardinality(Matching(t))
           U == Cardinality(Matching(t)')
<1>1. /\ pushed \in Nat /\ all \in Nat /\ lost \in Nat /\ C \in Nat /\ M \in Nat /\ U \in Nat
      /\ MaxFires[t] \in Nat
  BY PushesAreFinite, CountsAreFinite, LossIsNat, QueueConstants DEF CountInv, Inv
<1>2. U <= M
  BY CountsAreFinite, FS_Subset
<1>3. TriggerIsCounted(t)
  BY DEF CountInv
<1> HIDE DEF pushed, all, lost, C, M, U
<1>4. MaxFires[t] # 0 => pushed + U < MaxFires[t] + lost + all
  BY <1>1, <1>2, <1>3 DEF TriggerIsCounted, pushed, all, lost, M
<1>5. /\ fireCount'[t] + C <= pushed
      /\ trigger'[t] # "cancelled" => pushed <= fireCount'[t] + C + lost
  BY <1>3, QueueConstants DEF TriggerIsCounted, pushed, all, lost, C
<1>6. /\ trigger'[t] = None => Counting(t)' = {} /\ Matching(t)' = {}
      /\ Counting(t)' \cap Matching(t)' = {}
  BY <1>3, QueueConstants DEF TriggerIsCounted
<1> QED
  BY <1>4, <1>5, <1>6 DEF TriggerIsCounted, pushed, all, lost, C, U

\* An evaluation reads a trigger whose limit is not reached.
LEMMA TriggerOfEvaluate ==
    ASSUME CountInv, NEW p \in Evaluators, Evaluate(p), NEW t \in Triggers
    PROVE  TriggerIsCounted(t)'
<1>1. PICK set \in SUBSET {x \in Triggers : trigger[x] = "active" /\ ~Exhausted(x)} :
        eval' = [eval EXCEPT ![p].matching = set]
  BY DEF Evaluate
<1>2. eval[p] = NoEval /\ eval \in [Evaluators -> EvalLocals]
  BY DEF Evaluate, CountInv, Inv, TypeOK, EvalLocals
<1>3. /\ eval'[p].matching = set /\ eval'[p].trigger = None
      /\ \A q \in Evaluators \ {p} : eval'[q] = eval[q]
  BY <1>1, <1>2 DEF EvalLocals, NoEval
<1>4. UNCHANGED <<queue, faults, trigger, fireCount>>
  BY DEF Evaluate, triggers
<1>5. PushedFor(t)' = PushedFor(t)
  BY <1>4 DEF PushedFor
<1>6. Counting(t)' = Counting(t) /\ p \notin Counting(t) /\ p \notin Matching(t)
  BY <1>2, <1>3, QueueConstants DEF Counting, Matching, NoEval
<1>7. CASE t \notin set
  <2>1. Matching(t)' \subseteq Matching(t)
    BY <1>3, <1>7 DEF Matching
  <2> QED
    BY <1>4, <1>5, <1>6, <2>1, TriggerFrame
<1>8. CASE t \in set
  <2>1. trigger[t] = "active" /\ ~Exhausted(t) /\ trigger[t] # None /\ trigger[t] # "cancelled"
    BY <1>8, QueueConstants
  <2>2. Matching(t)' = Matching(t) \cup {p}
    BY <1>3, <1>8 DEF Matching
  <2> DEFINE pushed == Cardinality(PushedFor(t))
             all == Cardinality(Evaluators)
             lost == all * faults
             C == Cardinality(Counting(t))
             U == Cardinality(Matching(t)')
  <2>3. TriggerIsCounted(t)
    BY DEF CountInv
  <2>4. Counting(t)' \cap Matching(t)' = {}
    BY <1>6, <2>2, <2>3 DEF TriggerIsCounted
  <2>5. C + U <= all
    <3>1. Counting(t) \in SUBSET Evaluators /\ Matching(t)' \in SUBSET Evaluators
      BY DEF Counting, Matching
    <3> QED
      BY <1>6, <2>4, <3>1, PartsAreFewer, QueueConstants
  <2>6. /\ pushed \in Nat /\ all \in Nat /\ lost \in Nat /\ C \in Nat /\ U \in Nat
        /\ MaxFires[t] \in Nat /\ fireCount[t] \in Nat
    BY PushesAreFinite, CountsAreFinite, LossIsNat, QueueConstants DEF CountInv, Inv, TypeOK
  <2>7. MaxFires[t] # 0 => fireCount[t] < MaxFires[t]
    BY <2>1, <2>6 DEF Exhausted
  <2>8. fireCount[t] + C <= pushed /\ pushed <= fireCount[t] + C + lost
    BY <2>1, <2>3 DEF TriggerIsCounted
  <2> HIDE DEF pushed, all, lost, C, U
  <2>9. MaxFires[t] # 0 => pushed + U < MaxFires[t] + lost + all
    BY <2>5, <2>6, <2>7, <2>8
  <2> QED
    BY <1>4, <1>5, <1>6, <2>1, <2>4, <2>8, <2>9 DEF TriggerIsCounted, pushed, all, lost, C, U
<1> QED
  BY <1>7, <1>8

\* One evaluation that matches pushes.
LEMMA TriggerOfFire ==
    ASSUME CountInv, NEW p \in Evaluators, FireTrigger(p), NEW t \in Triggers
    PROVE  TriggerIsCounted(t)'
<1>1. PICK x \in eval[p].matching :
        /\ Push(Stimulus(x))
        /\ eval' = [eval EXCEPT ![p] = [matching |-> @.matching \ {x}, trigger |-> x,
                                        event |-> Len(queue')]]
  BY DEF FireTrigger
<1>2. eval[p].trigger = None /\ eval \in [Evaluators -> EvalLocals] /\ x \in Triggers
  BY <1>1 DEF FireTrigger, CountInv, Inv, TypeOK, EvalLocals
<1>3. /\ eval'[p].matching = eval[p].matching \ {x} /\ eval'[p].trigger = x
      /\ \A q \in Evaluators \ {p} : eval'[q] = eval[q]
  BY <1>1, <1>2
<1>4. UNCHANGED <<faults, trigger, fireCount>>
  BY DEF FireTrigger, triggers
<1>5. Stimulus(x) \in EventRecords /\ Stimulus(x).from = x
  BY <1>2, PushedEvents DEF Stimulus
<1>6. None \notin Triggers
  BY QueueConstants
<1>7. CASE x # t
  <2>1. PushedFor(t)' = PushedFor(t)
    BY <1>1, <1>5, <1>7, PushIsCounted DEF CountInv, Inv
  <2>2. Counting(t)' = Counting(t) /\ Matching(t)' = Matching(t)
    BY <1>2, <1>3, <1>6, <1>7 DEF Counting, Matching
  <2> QED
    BY <1>4, <2>1, <2>2, TriggerFrame
<1>8. CASE x = t
  <2> DEFINE pushed == Cardinality(PushedFor(t))
             all == Cardinality(Evaluators)
             lost == all * faults
             C == Cardinality(Counting(t))
             M == Cardinality(Matching(t))
  <2>1. Cardinality(PushedFor(t)') = pushed + 1
    BY <1>1, <1>5, <1>8, PushIsCounted DEF CountInv, Inv
  <2>2. /\ Counting(t)' = Counting(t) \cup {p} /\ p \notin Counting(t)
        /\ Matching(t)' = Matching(t) \ {p} /\ p \in Matching(t)
    BY <1>1, <1>2, <1>3, <1>6, <1>8 DEF Counting, Matching
  <2>3. Cardinality(Counting(t)') = C + 1 /\ Cardinality(Matching(t)') = M - 1
    <3>1. Cardinality(Counting(t) \cup {p}) = C + 1
      BY <2>2, CountsAreFinite, FS_AddElement
    <3>2. Cardinality(Matching(t) \ {p}) = M - 1
      BY <2>2, CountsAreFinite, FS_RemoveElement
    <3> QED
      BY <2>2, <3>1, <3>2
  <2>4. /\ pushed \in Nat /\ all \in Nat /\ lost \in Nat /\ C \in Nat /\ M \in Nat
        /\ MaxFires[t] \in Nat /\ fireCount[t] \in Nat
    BY PushesAreFinite, CountsAreFinite, LossIsNat, QueueConstants DEF CountInv, Inv, TypeOK
  <2>5. TriggerIsCounted(t)
    BY DEF CountInv
  <2>6. /\ fireCount[t] + C <= pushed
        /\ trigger[t] # "cancelled" => pushed <= fireCount[t] + C + lost
        /\ MaxFires[t] # 0 => pushed + M < MaxFires[t] + lost + all
    BY <2>5 DEF TriggerIsCounted
  <2>7. trigger[t] # None /\ Counting(t)' \cap Matching(t)' = {}
    BY <2>2, <2>5 DEF TriggerIsCounted
  <2> HIDE DEF pushed, all, lost, C, M
  <2>8. /\ fireCount[t] + (C + 1) <= pushed + 1
        /\ trigger[t] # "cancelled" => pushed + 1 <= fireCount[t] + (C + 1) + lost
        /\ MaxFires[t] # 0 => (pushed + 1) + (M - 1) < MaxFires[t] + lost + all
    BY <2>4, <2>6
  <2> QED
    BY <1>4, <2>1, <2>3, <2>7, <2>8 DEF TriggerIsCounted, pushed, all, lost, C, M
<1> QED
  BY <1>7, <1>8

\* It is counted, or was cancelled in between.
LEMMA TriggerOfCount ==
    ASSUME CountInv, NEW p \in Evaluators, CountFire(p), NEW t \in Triggers
    PROVE  TriggerIsCounted(t)'
<1> DEFINE x == eval[p].trigger
<1>1. x \in Triggers /\ eval \in [Evaluators -> EvalLocals] /\ fireCount \in [Triggers -> Nat]
  BY DEF CountFire, CountInv, Inv, TypeOK, EvalLocals
<1>2. /\ eval'[p].matching = eval[p].matching /\ eval'[p].trigger = None
      /\ \A q \in Evaluators \ {p} : eval'[q] = eval[q]
  BY <1>1 DEF CountFire, NoEval
<1>3. UNCHANGED <<queue, faults, trigger>>
  BY DEF CountFire
<1>4. PushedFor(t)' = PushedFor(t) /\ Matching(t)' = Matching(t)
  BY <1>2, <1>3 DEF PushedFor, Matching
<1>5. None \notin Triggers
  BY QueueConstants
<1>6. CASE x # t
  <2>1. Counting(t)' = Counting(t)
    BY <1>1, <1>2, <1>5, <1>6 DEF Counting
  <2>2. fireCount'[t] = fireCount[t]
    BY <1>1, <1>6 DEF CountFire
  <2> QED
    BY <1>3, <1>4, <2>1, <2>2, TriggerFrame
<1>7. CASE x = t
  <2> DEFINE pushed == Cardinality(PushedFor(t))
             all == Cardinality(Evaluators)
             lost == all * faults
             C == Cardinality(Counting(t))
             M == Cardinality(Matching(t))
  <2>1. Counting(t)' = Counting(t) \ {p} /\ p \in Counting(t)
    BY <1>2, <1>5, <1>7 DEF Counting
  <2>2. Cardinality(Counting(t)') = C - 1
    <3>1. Cardinality(Counting(t) \ {p}) = C - 1
      BY <2>1, CountsAreFinite, FS_RemoveElement
    <3> QED
      BY <2>1, <3>1
  <2>3. /\ pushed \in Nat /\ all \in Nat /\ lost \in Nat /\ C \in Nat /\ M \in Nat
        /\ MaxFires[t] \in Nat /\ fireCount[t] \in Nat
    BY PushesAreFinite, CountsAreFinite, LossIsNat, QueueConstants DEF CountInv, Inv, TypeOK
  <2>4. TriggerIsCounted(t)
    BY DEF CountInv
  <2>5. /\ fireCount[t] + C <= pushed
        /\ trigger[t] # "cancelled" => pushed <= fireCount[t] + C + lost
        /\ MaxFires[t] # 0 => pushed + M < MaxFires[t] + lost + all
    BY <2>4 DEF TriggerIsCounted
  <2>6. trigger[t] # None /\ Counting(t)' \cap Matching(t)' = {}
    BY <1>4, <2>1, <2>4 DEF TriggerIsCounted
  <2>7. trigger[t] \in {"active", "cancelled"}
    BY <2>6 DEF CountInv, Inv, TypeOK
  <2>8. fireCount'[t] = IF trigger[t] = "active" THEN fireCount[t] + 1 ELSE fireCount[t]
    BY <1>1, <1>7 DEF CountFire
  <2> HIDE DEF x, pushed, all, lost, C, M
  <2>9. /\ fireCount'[t] + (C - 1) <= pushed
        /\ trigger[t] # "cancelled" => pushed <= fireCount'[t] + (C - 1) + lost
    <3>1. CASE trigger[t] = "active"
      BY <2>3, <2>5, <2>8, <3>1
    <3>2. CASE trigger[t] = "cancelled"
      BY <2>3, <2>5, <2>8, <3>2
    <3> QED
      BY <2>7, <3>1, <3>2
  <2> QED
    BY <1>3, <1>4, <2>2, <2>5, <2>6, <2>9 DEF TriggerIsCounted, pushed, all, lost, C, M
<1> QED
  BY <1>6, <1>7

\* A fault stops the evaluations that have pushed, all of them at the most.
LEMMA TriggerOfFault ==
    ASSUME CountInv, NEW threads, Abandon(threads), NEW t \in Triggers
    PROVE  TriggerIsCounted(t)'
<1> DEFINE pushed == Cardinality(PushedFor(t))
           all == Cardinality(Evaluators)
           lost == all * faults
           C == Cardinality(Counting(t))
           M == Cardinality(Matching(t))
           D == Cardinality(Counting(t)')
           U == Cardinality(Matching(t)')
<1>1. UNCHANGED <<queue, trigger, fireCount>> /\ faults' = faults + 1
  BY DEF Abandon, triggers
<1>2. Counting(t)' \subseteq Counting(t) /\ Matching(t)' \subseteq Matching(t)
  <2>1. \A q \in Evaluators : eval'[q] = eval[q] \/ eval'[q] = NoEval
    BY DEF Abandon
  <2> QED
    BY <2>1, QueueConstants DEF Counting, Matching, NoEval
<1>3. D <= C /\ U <= M /\ C <= all
  <2>1. Counting(t) \in SUBSET Evaluators
    BY DEF Counting
  <2> QED
    BY <1>2, <2>1, CountsAreFinite, FS_Subset, QueueConstants
<1>4. /\ pushed \in Nat /\ all \in Nat /\ lost \in Nat /\ C \in Nat /\ M \in Nat
      /\ D \in Nat /\ U \in Nat /\ faults \in Nat
      /\ MaxFires[t] \in Nat /\ fireCount[t] \in Nat
  BY PushesAreFinite, CountsAreFinite, LossIsNat, QueueConstants DEF CountInv, Inv, TypeOK
<1>5. TriggerIsCounted(t)
  BY DEF CountInv
<1>6. /\ fireCount[t] + C <= pushed
      /\ trigger[t] # "cancelled" => pushed <= fireCount[t] + C + lost
      /\ MaxFires[t] # 0 => pushed + M < MaxFires[t] + lost + all
  BY <1>5 DEF TriggerIsCounted
<1>7. all * faults' = lost + all
  BY <1>1, <1>4, Products
<1>8. /\ trigger[t] = None => Counting(t)' = {} /\ Matching(t)' = {}
      /\ Counting(t)' \cap Matching(t)' = {}
  BY <1>2, <1>5 DEF TriggerIsCounted
<1>9. pushed' = pushed
  BY <1>1 DEF PushedFor
<1> HIDE DEF pushed, all, lost, C, M, D, U
<1>10. /\ fireCount[t] + D <= pushed
       /\ trigger[t] # "cancelled" => pushed <= fireCount[t] + D + (lost + all)
       /\ MaxFires[t] # 0 => pushed + U < MaxFires[t] + (lost + all) + all
  BY <1>3, <1>4, <1>6
<1>11. Cardinality(PushedFor(t)') = pushed
  BY <1>9 DEF pushed
<1> QED
  BY <1>1, <1>7, <1>8, <1>10, <1>11 DEF TriggerIsCounted, all, lost, D, U

LEMMA TriggersStayCounted ==
    ASSUME CountInv, [Next]_vars, NEW t \in Triggers
    PROVE  TriggerIsCounted(t)'
<1>1. ASSUME PushedFor(t)' = PushedFor(t), UNCHANGED <<eval, faults, triggers>>
      PROVE  TriggerIsCounted(t)'
  <2>1. Counting(t)' = Counting(t) /\ Matching(t)' = Matching(t)
    BY <1>1 DEF Counting, Matching
  <2> QED
    BY <1>1, <2>1, TriggerFrame DEF triggers
<1>2. ASSUME NEW event \in EventRecords, Push(event), event.from # t, UNCHANGED <<eval, faults, triggers>>
      PROVE  TriggerIsCounted(t)'
  <2>1. PushedFor(t)' = PushedFor(t)
    BY <1>2, PushIsCounted DEF CountInv, Inv
  <2> QED
    BY <1>1, <1>2, <2>1
<1>3. CASE Submit
  <2>1. PICK event \in Pushed : Push(event)
    BY <1>3 DEF Submit
  <2>2. event \in EventRecords /\ event.from = None /\ t # None
    BY PushedEvents, QueueConstants
  <2> QED
    BY <1>2, <1>3, <2>1, <2>2 DEF Submit
<1>4. ASSUME NEW r \in Runtimes, PushWakeup(r)
      PROVE  TriggerIsCounted(t)'
  <2>1. PICK w \in cycle[r].due : Push(Stimulus(w))
    BY <1>4 DEF PushWakeup
  <2>2. w \in Wakeups
    BY <2>1 DEF CountInv, Inv, TypeOK
  <2>3. Stimulus(w) \in EventRecords /\ Stimulus(w).from = w /\ t # w
    BY <2>2, PushedEvents, QueueConstants DEF Stimulus
  <2> QED
    BY <1>2, <1>4, <2>1, <2>3 DEF PushWakeup
<1>5. ASSUME NEW r \in Runtimes, CycleStep(r), ~PushWakeup(r)
      PROVE  TriggerIsCounted(t)'
  <2>1. UNCHANGED <<queue, eval, faults, triggers>>
    BY <1>5 DEF CycleStep, StartCycle, MarkWakeup, CheckPause, CheckPriority, Peek, GetEvent,
                Consume, Observe, Record, Run, Finish
  <2> QED
    BY <1>1, <2>1 DEF PushedFor
<1>6. CASE UNCHANGED vars \/ \E v \in Wakeups : ScheduleWakeup(v) \/ ComesDue(v) \/ CancelWakeup(v)
  <2>1. UNCHANGED <<queue, eval, faults, triggers>>
    BY <1>6 DEF vars, ScheduleWakeup, ComesDue, CancelWakeup
  <2> QED
    BY <1>1, <2>1 DEF PushedFor
<1>7. CASE \E x \in Triggers : CreateTrigger(x) \/ CancelTrigger(x)
  <2>1. UNCHANGED <<queue, eval, faults, fireCount>>
    BY <1>7 DEF CreateTrigger, CancelTrigger
  <2>2. trigger'[t] = trigger[t] \/ (trigger[t] = None /\ trigger'[t] = "active")
                                 \/ (trigger[t] # None /\ trigger'[t] = "cancelled")
    BY <1>7, QueueConstants DEF CreateTrigger, CancelTrigger, CountInv, Inv, TypeOK
  <2>3. PushedFor(t)' = PushedFor(t) /\ Counting(t)' = Counting(t) /\ Matching(t)' = Matching(t)
    BY <2>1 DEF PushedFor, Counting, Matching
  <2> QED
    BY <2>1, <2>2, <2>3, TriggerFrame
<1>8. CASE Crash \/ (\E r \in Runtimes : RaiseCycle(r)) \/ \E p \in Evaluators : RaiseEval(p)
  BY <1>8, TriggerOfFault DEF Crash, RaiseCycle, RaiseEval
<1>9. CASE \E p \in Evaluators : EvalStep(p)
  BY <1>9, TriggerOfEvaluate, TriggerOfFire, TriggerOfCount DEF EvalStep
<1> QED
  BY <1>3, <1>4, <1>5, <1>6, <1>7, <1>8, <1>9 DEF Next

-----------------------------------------------------------------------------
(* Events. *)

\* What a step may do to the queue and to the cycles, as far as events are held.
QueueGrows == \A e \in 1..Len(queue) : queue'[e] = queue[e]

LEMMA NextAppends == ASSUME Inv, [Next]_vars PROVE QueueGrows
<1>1. CASE UNCHANGED queue
  BY <1>1 DEF QueueGrows
<1>2. ASSUME NEW event \in EventRecords, Push(event) PROVE QueueGrows
  BY <1>2, PushAppends DEF Inv, QueueGrows
<1>3. CASE Submit
  BY <1>2, <1>3, PushedEvents DEF Submit
<1>4. ASSUME NEW r \in Runtimes, PushWakeup(r) PROVE QueueGrows
  <2>1. PICK w \in Wakeups : Push(Stimulus(w))
    BY <1>4 DEF PushWakeup, Inv, TypeOK
  <2> QED
    BY <1>2, <2>1, PushedEvents
<1>5. ASSUME NEW p \in Evaluators, FireTrigger(p) PROVE QueueGrows
  <2>1. PICK t \in Triggers : Push(Stimulus(t))
    BY <1>5 DEF FireTrigger, Inv, TypeOK
  <2> QED
    BY <1>2, <2>1, PushedEvents
<1>6. \/ UNCHANGED queue \/ Submit
      \/ (\E r \in Runtimes : PushWakeup(r)) \/ \E p \in Evaluators : FireTrigger(p)
  BY DEF Next, vars, Crash, Abandon, CreateTrigger, CancelTrigger, RaiseCycle, RaiseEval,
         ScheduleWakeup, ComesDue, CancelWakeup, CycleStep, StartCycle, MarkWakeup, CheckPause,
         CheckPriority, Peek, GetEvent, Consume, Observe, Record, Run, Finish, EvalStep,
         Evaluate, CountFire
<1> QED
  BY <1>1, <1>3, <1>4, <1>5, <1>6

\* The steps between which a cycle holds an event that nobody else knows of.
Takes(r) == Consume(r)
Releases(r) == Observe(r) \/ Record(r)

LEMMA OtherSteps ==
    ASSUME CountInv, [Next]_vars, ~ \E r \in Runtimes : Takes(r) \/ Releases(r),
           ~ \E threads : Abandon(threads)
    PROVE  /\ UNCHANGED <<consumed, recorded>>
           /\ \A r \in Runtimes : At(r, "handle")' => cycle'[r] = cycle[r]
           /\ \A r \in Runtimes : At(r, "handle") => cycle'[r] = cycle[r]
<1>1. CASE UNCHANGED <<cycle, consumed, recorded>>
  BY <1>1
<1>2. ASSUME NEW q \in Runtimes,
             \/ StartCycle(q) \/ PushWakeup(q) \/ MarkWakeup(q) \/ CheckPause(q)
             \/ CheckPriority(q) \/ Peek(q) \/ GetEvent(q) \/ Run(q) \/ Finish(q)
      PROVE  /\ UNCHANGED <<consumed, recorded>>
             /\ \A r \in Runtimes : At(r, "handle")' => cycle'[r] = cycle[r]
             /\ \A r \in Runtimes : At(r, "handle") => cycle'[r] = cycle[r]
  <2>1. cycle[q] \in Locals /\ cycle \in [Runtimes -> Locals]
    BY CycleIsTyped DEF CountInv
  <2>2. \A c : Becomes(q, c) => cycle'[q] = c /\ \A r \in Runtimes \ {q} : cycle'[r] = cycle[r]
    BY <2>1 DEF Becomes
  <2>3. UNCHANGED <<consumed, recorded>> /\ ~At(q, "handle") /\ \E c : Becomes(q, c)
    BY <1>2 DEF StartCycle, PushWakeup, MarkWakeup, CheckPause, CheckPriority, Peek, GetEvent,
                Run, Finish, At
  <2>4. NoCycle.pc = "idle"
    BY DEF NoCycle
  <2>5. ~At(q, "handle")'
    <3>1. CASE StartCycle(q)
      <4>1. cycle'[q] = [NoCycle EXCEPT !.pc = "wakeups", !.due = DueWakeups]
        BY <2>2, <3>1 DEF StartCycle
      <4> QED
        BY <4>1 DEF At, NoCycle
    <3>2. CASE PushWakeup(q)
      <4>1. PICK w \in cycle[q].due : cycle'[q] = [cycle[q] EXCEPT !.wakeup = w, !.event = Len(queue')]
        BY <2>2, <3>2 DEF PushWakeup
      <4>2. cycle[q].pc = "wakeups"
        BY <3>2 DEF PushWakeup, At
      <4> QED
        BY <2>1, <4>1, <4>2 DEF At, Locals
    <3>6. CASE CheckPause(q) \/ CheckPriority(q)
      <4>1. PICK p \in {"peek", "check"} :
              \/ \E m : cycle'[q] = [cycle[q] EXCEPT !.pc = p, !.mode = m]
              \/ cycle'[q] = [cycle[q] EXCEPT !.pc = p]
        BY <2>2, <3>6 DEF CheckPause, CheckPriority
      <4> QED
        BY <2>1, <4>1 DEF At, Locals
    <3>3. CASE MarkWakeup(q)
      <4>1. cycle'[q] = [cycle[q] EXCEPT !.due = @ \ {cycle[q].wakeup}, !.wakeup = None, !.event = 0]
        BY <2>2, <3>3 DEF MarkWakeup
      <4>2. cycle[q].pc = "wakeups"
        BY <3>3 DEF MarkWakeup, At
      <4> QED
        BY <2>1, <4>1, <4>2 DEF At, Locals
    <3>4. CASE Peek(q)
      <4>1. ASSUME NEW e, Becomes(q, [cycle[q] EXCEPT !.pc = "get", !.event = e])
            PROVE  ~At(q, "handle")'
        <5>1. cycle'[q] = [cycle[q] EXCEPT !.pc = "get", !.event = e]
          BY <2>2, <4>1
        <5> QED
          BY <2>1, <5>1 DEF At, Locals
      <4> QED
        BY <2>2, <2>4, <3>4, <4>1 DEF Peek, At
    <3>5. CASE GetEvent(q) \/ Run(q) \/ Finish(q)
      BY <2>1, <2>2, <2>4, <3>5 DEF GetEvent, Run, Finish, At, Locals
    <3> QED
      BY <1>2, <3>1, <3>2, <3>3, <3>4, <3>5, <3>6
  <2> QED
    BY <2>2, <2>3, <2>5 DEF At
<1>3. \/ UNCHANGED <<cycle, consumed, recorded>>
      \/ \E q \in Runtimes :
             \/ StartCycle(q) \/ PushWakeup(q) \/ MarkWakeup(q) \/ CheckPause(q)
             \/ CheckPriority(q) \/ Peek(q) \/ GetEvent(q) \/ Run(q) \/ Finish(q)
  <2>1. CASE \E r \in Runtimes : CycleStep(r) \/ RaiseCycle(r)
    BY <2>1 DEF CycleStep, RaiseCycle, Takes, Releases
  <2>2. CASE ~ \E r \in Runtimes : CycleStep(r) \/ RaiseCycle(r)
    BY <2>2 DEF Next, vars, Submit, Crash, CreateTrigger, CancelTrigger, RaiseEval,
         ScheduleWakeup, ComesDue, CancelWakeup, EvalStep, Evaluate, FireTrigger, CountFire
  <2> QED
    BY <2>1, <2>2
<1> QED
  BY <1>1, <1>2, <1>3

\* A cycle that pauses holds a PAUSE: the kind was looked at before.
LEMMA PausesStayHeld ==
    ASSUME CountInv, Inv', [Next]_vars
    PROVE  PausesAreHeld'
<1>1. QueueGrows
  BY NextAppends DEF CountInv
<1>2. ASSUME NEW r \in Runtimes, At(r, "handle"), cycle[r].mode = "pause"
      PROVE  queue'[cycle[r].event].kind = "pause"
  <2>1. queue[cycle[r].event].kind = "pause" /\ cycle[r].event \in 1..Len(queue)
    BY <1>2, CycleIsTyped DEF CountInv, PausesAreHeld, At, Agrees, Holding
  <2> QED
    BY <1>1, <2>1 DEF QueueGrows
<1>3. ASSUME NEW r \in Runtimes, At(r, "handle")', cycle'[r].mode = "pause", cycle'[r] # cycle[r]
      PROVE  queue'[cycle'[r].event].kind = "pause"
  <2>1. CASE \E threads : Abandon(threads)
    BY <1>3, <2>1 DEF Abandon, NoCycle, At
  <2>2. ASSUME NEW q \in Runtimes, Takes(q)
        PROVE  queue'[cycle'[r].event].kind = "pause"
    <3>1. cycle[q] \in Locals /\ cycle \in [Runtimes -> Locals] /\ Agrees(cycle[q])
      BY CycleIsTyped DEF CountInv
    <3>2. q = r /\ cycle'[r] = [cycle[r] EXCEPT !.pc = "handle"] /\ cycle[r].pc = "consume"
      BY <1>3, <2>2, <3>1 DEF Takes, Consume, Becomes, At
    <3>3. cycle'[r].event = cycle[r].event /\ cycle[r].mode = "pause"
      BY <1>3, <3>1, <3>2 DEF Locals
    <3>4. queue[cycle[r].event].kind = "pause" /\ UNCHANGED queue
      BY <2>2, <3>1, <3>2, <3>3 DEF Agrees, Popping, Takes, Consume
    <3> QED
      BY <3>3, <3>4
  <2>3. ASSUME NEW q \in Runtimes, Releases(q)
        PROVE  queue'[cycle'[r].event].kind = "pause"
    <3>1. cycle[q] \in Locals /\ cycle \in [Runtimes -> Locals]
      BY CycleIsTyped DEF CountInv
    <3>2. \A c : Becomes(q, c) => cycle'[q] = c /\ \A x \in Runtimes \ {q} : cycle'[x] = cycle[x]
      BY <3>1 DEF Becomes
    <3>3. q = r
      BY <1>3, <2>3, <3>2 DEF Releases, Observe, Record
    <3>4. cycle'[q].pc # "handle"
      <4>1. cycle'[q] = NoCycle \/ cycle'[q] = [cycle[q] EXCEPT !.pc = "run"]
        BY <2>3, <3>2 DEF Releases, Observe, Record
      <4> QED
        BY <3>1, <4>1 DEF NoCycle, Locals
    <3> QED
      BY <1>3, <3>3, <3>4 DEF At
  <2> QED
    BY <1>3, <2>1, <2>2, <2>3, OtherSteps
<1>4. ASSUME NEW r \in Runtimes, At(r, "handle")', cycle'[r].mode = "pause"
      PROVE  queue'[cycle'[r].event].kind = "pause"
  <2>1. CASE cycle'[r] = cycle[r]
    <3>1. At(r, "handle") /\ cycle[r].mode = "pause"
      BY <1>4, <2>1 DEF At
    <3> QED
      BY <1>2, <2>1, <3>1
  <2> QED
    BY <1>3, <1>4, <2>1
<1> QED
  BY <1>4 DEF PausesAreHeld

\* A set of what each runtime holds is no larger than the runtimes.
LEMMA HeldAreFew ==
    ASSUME NEW Q \in SUBSET Runtimes
    PROVE  LET held == {cycle[r].event : r \in Q} IN
           IsFiniteSet(held) /\ Cardinality(held) <= Cardinality(Runtimes)
<1> DEFINE held == {cycle[r].event : r \in Q}
           f == [r \in Q |-> cycle[r].event]
<1>1. IsFiniteSet(Q) /\ Cardinality(Q) <= Cardinality(Runtimes) /\ Cardinality(Q) \in Nat
  BY FS_Subset, FS_CardinalityType, QueueConstants
<1>2. f \in Surjection(Q, held)
  BY DEF Surjection
<1>3. IsFiniteSet(held) /\ Cardinality(held) <= Cardinality(Q)
  BY <1>1, <1>2, FS_Surjection
<1>4. Cardinality(held) \in Nat
  BY <1>3, FS_CardinalityType
<1> QED
  BY <1>1, <1>3, <1>4, CountsAreFinite

LEMMA DroppedAreFinite ==
    /\ TypeOK => IsFiniteSet(Dropped) /\ Cardinality(Dropped) \in Nat
    /\ TypeOK' => IsFiniteSet(Dropped') /\ Cardinality(Dropped') \in Nat
<1>1. ASSUME NEW n \in Nat
      PROVE  \A set \in SUBSET (1..n) : IsFiniteSet(set) /\ Cardinality(set) \in Nat
  <2>1. IsFiniteSet(1..n)
    BY FS_Interval
  <2> QED
    BY <2>1, FS_Subset, FS_CardinalityType
<1>2. TypeOK => Len(queue) \in Nat /\ consumed \subseteq 1..Len(queue)
  BY DEF TypeOK
<1>3. TypeOK' => Len(queue') \in Nat /\ consumed' \subseteq 1..Len(queue')
  BY DEF TypeOK
<1>4. Dropped \subseteq consumed /\ Dropped' \subseteq consumed'
  BY DEF Dropped
<1> QED
  BY <1>1, <1>2, <1>3, <1>4

LEMMA LossStaysBounded ==
    ASSUME CountInv, Inv', [Next]_vars
    PROVE  (Cardinality(Dropped) <= faults * Cardinality(Runtimes))'
<1> DEFINE all == Cardinality(Runtimes)
<1>1. QueueGrows /\ consumed \subseteq 1..Len(queue)
  BY NextAppends DEF CountInv, Inv, TypeOK
<1>2. /\ faults \in Nat /\ all \in Nat /\ faults * all \in Nat
      /\ Cardinality(Dropped) <= faults * all
      /\ IsFiniteSet(Dropped) /\ Cardinality(Dropped) \in Nat /\ Cardinality(Dropped') \in Nat
  BY LossIsNat, CountsAreFinite, Products, DroppedAreFinite DEF CountInv, Inv
<1>3. CASE \E threads : Abandon(threads)
  <2> DEFINE held == {cycle[r].event : r \in {q \in Runtimes : At(q, "handle")}}
  <2>1. UNCHANGED <<queue, consumed, recorded>> /\ faults' = faults + 1
    BY <1>3 DEF Abandon
  <2>2. Dropped' \subseteq Dropped \cup held
    BY <2>1 DEF Dropped, Held
  <2>3. IsFiniteSet(held) /\ Cardinality(held) <= all /\ Cardinality(held) \in Nat
    <3>1. {q \in Runtimes : At(q, "handle")} \in SUBSET Runtimes
      OBVIOUS
    <3>2. IsFiniteSet(held) /\ Cardinality(held) <= all
      BY <3>1, HeldAreFew
    <3> QED
      BY <3>2, FS_CardinalityType
  <2> HIDE DEF held
  <2>4. /\ IsFiniteSet(Dropped \cup held)
        /\ Cardinality(Dropped \cup held) = Cardinality(Dropped) + Cardinality(held) - Cardinality(Dropped \cap held)
    BY <1>2, <2>3, FS_Union
  <2>5. Cardinality(Dropped \cap held) \in Nat /\ Cardinality(Dropped \cup held) \in Nat
    BY <1>2, <2>4, FS_Intersection, FS_CardinalityType
  <2>6. Cardinality(Dropped') <= Cardinality(Dropped \cup held)
    BY <2>2, <2>4, FS_Subset
  <2>7. faults' * all = faults * all + all
    BY <1>2, <2>1, Products
  <2> HIDE DEF all
  <2>8. Cardinality(Dropped') <= faults * all + all
    BY <1>2, <2>3, <2>4, <2>5, <2>6
  <2> QED
    BY <2>7, <2>8 DEF all
<1>4. ASSUME Dropped' \subseteq Dropped, UNCHANGED faults
      PROVE  Cardinality(Dropped') <= faults' * all
  <2>1. Cardinality(Dropped') <= Cardinality(Dropped)
    BY <1>2, <1>4, FS_Subset
  <2> HIDE DEF all
  <2> QED
    BY <1>2, <1>4, <2>1
<1>5. \A e \in consumed : queue'[e] = queue[e]
  BY <1>1 DEF QueueGrows
<1>6. ASSUME NEW r \in Runtimes, Takes(r)
      PROVE  Dropped' \subseteq Dropped
  <2>1. cycle[r] \in Locals /\ cycle \in [Runtimes -> Locals]
    BY CycleIsTyped DEF CountInv
  <2>2. /\ cycle'[r] = [cycle[r] EXCEPT !.pc = "handle"] /\ cycle[r].pc = "consume"
        /\ \A q \in Runtimes \ {r} : cycle'[q] = cycle[q]
        /\ consumed' = consumed \cup {cycle[r].event} /\ UNCHANGED <<queue, recorded>>
    BY <1>6, <2>1 DEF Takes, Consume, Becomes, At
  <2>3. cycle'[r].event = cycle[r].event /\ At(r, "handle")'
    BY <2>1, <2>2 DEF Locals, At
  <2>4. Held \subseteq Held' /\ cycle[r].event \in Held'
    <3>1. \A q \in Runtimes : At(q, "handle") => At(q, "handle")' /\ cycle'[q].event = cycle[q].event
      BY <2>2, <2>3 DEF At
    <3> QED
      BY <2>3, <3>1 DEF Held
  <2> QED
    BY <2>2, <2>4 DEF Dropped
<1>7. ASSUME NEW r \in Runtimes, Releases(r)
      PROVE  Dropped' \subseteq Dropped
  <2>1. cycle[r] \in Locals /\ cycle \in [Runtimes -> Locals]
    BY CycleIsTyped DEF CountInv
  <2>2. \A q \in Runtimes \ {r} : cycle'[q] = cycle[q]
    BY <1>7, <2>1 DEF Releases, Observe, Record, Becomes
  <2>3. Held \subseteq Held' \cup {cycle[r].event}
    BY <2>2 DEF Held, At
  <2>4. UNCHANGED <<queue, consumed>> /\ recorded \subseteq recorded'
    BY <1>7 DEF Releases, Observe, Record
  <2>5. CASE Record(r)
    BY <2>3, <2>4, <2>5 DEF Dropped, Record
  <2>6. CASE Observe(r)
    <3>1. queue[cycle[r].event].kind \notin {"request", "other"}
      BY <2>6 DEF Observe, CountInv, PausesAreHeld
    <3> QED
      BY <2>3, <2>4, <3>1 DEF Dropped
  <2> QED
    BY <1>7, <2>5, <2>6 DEF Releases
<1>8. ASSUME ~ \E r \in Runtimes : Takes(r) \/ Releases(r), ~ \E threads : Abandon(threads)
      PROVE  Dropped' \subseteq Dropped
  <2>1. /\ UNCHANGED <<consumed, recorded>>
        /\ \A r \in Runtimes : At(r, "handle") => cycle'[r] = cycle[r]
    BY <1>8, OtherSteps
  <2>2. Held \subseteq Held'
    BY <2>1 DEF Held, At
  <2> QED
    BY <1>5, <2>1, <2>2 DEF Dropped
<1>9. CASE ~ \E threads : Abandon(threads)
  <2>1. UNCHANGED faults
    BY <1>9 DEF Next, vars, Submit, Crash, CreateTrigger, CancelTrigger, RaiseCycle, RaiseEval,
         ScheduleWakeup, ComesDue, CancelWakeup, CycleStep, StartCycle, PushWakeup, MarkWakeup,
         CheckPause, CheckPriority, Peek, GetEvent, Consume, Observe, Record, Run, Finish, EvalStep,
         Evaluate, FireTrigger, CountFire
  <2>2. Dropped' \subseteq Dropped
    BY <1>6, <1>7, <1>8, <1>9
  <2> QED
    BY <1>4, <2>1, <2>2
<1> QED
  BY <1>3, <1>9

LEMMA CountInit == Init => CountInv
<1> SUFFICES ASSUME Init PROVE CountInv
  OBVIOUS
<1>1. Inv
  BY InvInit
<1>2. /\ \A r \in Runtimes : cycle[r] = NoCycle
      /\ \A p \in Evaluators : eval[p] = NoEval
      /\ queue = <<>> /\ consumed = {} /\ faults = 0
      /\ \A t \in Triggers : trigger[t] = None /\ fireCount[t] = 0
      /\ \A w \in Wakeups : wakeup[w] = None
  BY DEF Init
<1>3. \A x : PushedFor(x) = {} /\ Cardinality(PushedFor(x)) = 0
  BY <1>2, FS_EmptySet DEF PushedFor
<1>4. Cardinality(Runtimes) * faults = 0 /\ faults * Cardinality(Runtimes) = 0
      /\ Cardinality(Evaluators) * faults = 0
  BY <1>2, CountsAreFinite
<1>5. ASSUME NEW w \in Wakeups PROVE WakeupIsCounted(w)
  BY <1>2, <1>3, <1>4, CountsAreFinite DEF WakeupIsCounted
<1>6. ASSUME NEW t \in Triggers PROVE TriggerIsCounted(t)
  <2>1. Counting(t) = {} /\ Matching(t) = {}
    BY <1>2, QueueConstants DEF Counting, Matching, NoEval
  <2>2. Cardinality(Counting(t)) = 0 /\ Cardinality(Matching(t)) = 0
    BY <2>1, FS_EmptySet
  <2>3. MaxFires[t] \in Nat /\ Cardinality(Evaluators) \in Nat
    BY CountsAreFinite, QueueConstants
  <2> QED
    BY <1>2, <1>3, <1>4, <2>1, <2>2, <2>3 DEF TriggerIsCounted
<1>7. TakenExist /\ PausesAreHeld
  BY <1>2 DEF TakenExist, PausesAreHeld, At, NoCycle
<1>8. Cardinality(Dropped) <= faults * Cardinality(Runtimes)
  <2>1. Dropped = {}
    BY <1>2 DEF Dropped
  <2> QED
    BY <1>4, <2>1, FS_EmptySet
<1> QED
  BY <1>1, <1>5, <1>6, <1>7, <1>8 DEF CountInv

LEMMA CountStep == CountInv /\ [Next]_vars => CountInv'
<1> SUFFICES ASSUME CountInv, [Next]_vars PROVE CountInv'
  OBVIOUS
<1>1. Inv'
  BY InvStep DEF CountInv
<1>2. (\A w \in Wakeups : WakeupIsCounted(w))' /\ (\A t \in Triggers : TriggerIsCounted(t))'
  BY <1>1, WakeupsStayCounted, TriggersStayCounted
<1>3. TakenExist' /\ PausesAreHeld' /\ (Cardinality(Dropped) <= faults * Cardinality(Runtimes))'
  BY <1>1, TakenStayThere, PausesStayHeld, LossStaysBounded
<1> QED
  BY <1>1, <1>2, <1>3 DEF CountInv

LEMMA CountHolds == Spec => []CountInv
  BY CountInit, CountStep, PTL DEF Spec

\* Runtimes that read the same due wakeup before one of them marks it, and faults between
\* the push and the mark, push it a bounded number of times, and evaluations that read the
\* same count overshoot the limit of a trigger by less than their number, once for each fault
\* (autonomous.py, _enqueue_due_wakeups; triggers.py, evaluate).
THEOREM FiringsStayBounded == Spec => []FiringsAreBounded
<1>1. CountInv => WakeupsStop
  <2> SUFFICES ASSUME CountInv, NEW w \in Wakeups
               PROVE  Cardinality(PushedFor(w)) <= Cardinality(Runtimes) * (faults + 1)
    BY DEF WakeupsStop
  <2> DEFINE pushed == Cardinality(PushedFor(w))
             all == Cardinality(Runtimes)
             lost == all * faults
             M == Cardinality(Marking(w))
             T == Cardinality(Taking(w))
  <2>1. /\ M \in Nat /\ T \in Nat /\ all \in Nat /\ M + T <= all
        /\ pushed \in Nat /\ lost \in Nat /\ faults \in Nat
    BY CountsAreFinite, WakeupParts, PushesAreFinite, LossIsNat DEF CountInv, Inv
  <2>2. IF wakeup[w] \in Open THEN pushed <= M + lost ELSE pushed + T <= lost + all
    BY DEF CountInv, WakeupIsCounted, Open
  <2>3. all * (faults + 1) = lost + all
    BY <2>1, Products
  <2> HIDE DEF pushed, all, lost, M, T
  <2>4. pushed <= lost + all
    BY <2>1, <2>2
  <2> QED
    BY <2>3, <2>4 DEF pushed, all
<1>2. CountInv => FiringIsBounded
  <2> SUFFICES ASSUME CountInv, NEW t \in Triggers
               PROVE  /\ fireCount[t] <= Cardinality(PushedFor(t))
                      /\ MaxFires[t] # 0 =>
                           Cardinality(PushedFor(t))
                             < MaxFires[t] + Cardinality(Evaluators) * (faults + 1)
    BY DEF FiringIsBounded
  <2> DEFINE pushed == Cardinality(PushedFor(t))
             all == Cardinality(Evaluators)
             lost == all * faults
             C == Cardinality(Counting(t))
             M == Cardinality(Matching(t))
  <2>1. /\ pushed \in Nat /\ all \in Nat /\ lost \in Nat /\ C \in Nat /\ M \in Nat
        /\ faults \in Nat /\ MaxFires[t] \in Nat /\ fireCount[t] \in Nat
    BY PushesAreFinite, CountsAreFinite, LossIsNat, QueueConstants DEF CountInv, Inv, TypeOK
  <2>2. /\ fireCount[t] + C <= pushed
        /\ MaxFires[t] # 0 => pushed + M < MaxFires[t] + lost + all
    BY DEF CountInv, TriggerIsCounted
  <2>3. all * (faults + 1) = lost + all
    BY <2>1, Products
  <2> HIDE DEF pushed, all, lost, C, M
  <2>4. fireCount[t] <= pushed /\ (MaxFires[t] # 0 => pushed < MaxFires[t] + (lost + all))
    BY <2>1, <2>2
  <2> QED
    BY <2>3, <2>4 DEF pushed, all
<1> QED
  BY <1>1, <1>2, CountHolds, PTL DEF FiringsAreBounded

\* A popped request or other event is recorded, or its runtime was stopped by a fault in
\* between, of which each loses at most one event a runtime: no pause and no other runtime
\* that popped it as well drops it (queue.py, pop_next, pop_type, consume).
THEOREM LossStaysSmall == Spec => []LossIsBounded
<1>1. CountInv => LossIsBounded
  BY DEF CountInv, LossIsBounded
<1> QED
  BY <1>1, CountHolds, PTL
===============================================================================
