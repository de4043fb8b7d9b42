--------------------------- MODULE TaskGraphProofs ---------------------------
(***************************************************************************)
(* Theorems about TaskGraph, for any runtimes, requests, graphs and        *)
(* repairs, any work on other goals, any bounds and any number of faults.  *)
(***************************************************************************)
EXTENDS TaskGraph, FiniteSetTheorems, TLAPS

JobPCs == {"idle", "pick", "start", "run", "recover", "finish", "judge", "settle",
           "add", "mark", "answer", "close", "done"}
Jobs == [pc : JobPCs, planned : SUBSET Tasks, task : Tasks \cup {None},
         result : AllReflections \cup TaskStatuses \cup {None}, todo : Seq(Items),
         made : SUBSET Tasks, verdict : GoalStatuses \cup {None}, seen : SUBSET Tasks]

-----------------------------------------------------------------------------
(***************************************************************************)
(* The inductive invariant.                                                *)
(***************************************************************************)

\* What the locals j of process p say of the tables: it works on a task that is
\* there, a runtime is about to start one that it has not started and whose
\* dependencies have been completed, the repairs it made are there and others,
\* and a verdict that completes the goal is about tasks that are done.
Agrees(p, j) ==
    /\ j.pc \in {"start", "run", "recover", "finish", "mark", "answer"} => j.task \in Created
    /\ j.pc \in {"start", "run", "recover", "finish"} => j.made \subseteq Created \ {j.task}
    /\ j.pc = "recover" => j.todo # <<>>
    /\ j.pc \in {"recover", "finish"} => j.result \in AllReflections
    /\ j.pc = "add" => j.task \in Tasks
    /\ j.pc = "pick" => j.planned \subseteq Created
    /\ j.pc = "start" => after[j.task] \subseteq ever
    /\ j.pc = "settle" => /\ j.verdict \in GoalStatuses
                          /\ j.verdict = "completed" => j.seen \subseteq good
    /\ p \in Runtimes => /\ j.pc = "pick" => j.planned \cap ran[p] = {}
                         /\ j.pc = "start" => j.task \notin ran[p]

LocalsAgree == \A p \in Procs : Agrees(p, job[p])

\* What the table says of what happened: "completed" tasks were completed, those
\* that count as completed were completed or repaired, and what was started is no
\* longer planned.
TableAgrees ==
    /\ \A t \in Tasks : status[t] = "completed" => t \in ever
    /\ EffectivelyCompleted(status, repairs) \subseteq good
    /\ \A r \in Runtimes : /\ ran[r] \subseteq Created
                           /\ \A t \in ran[r] : status[t] # "planned"

\* The identifiers a process may still insert.
Reserved(j) == IF j.pc = "add" THEN {j.task}
               ELSE IF j.pc = "recover" THEN IdsOf(j.todo) ELSE {}

\* A request's identifier is nobody else's.
IdentifiersAreFresh ==
    /\ Created \subseteq 1..drawn /\ IdsOf(graph) \subseteq 1..drawn
    /\ \A p \in Procs : Reserved(job[p]) \subseteq 1..drawn
    /\ \A q \in Procs : At(q, "add") =>
          /\ job[q].task \notin Created \cup IdsOf(graph)
          /\ \A p \in Procs \ {q} : job[q].task \notin Reserved(job[p])

Inv == /\ TypeOK /\ LocalsAgree /\ TableAgrees /\ IdentifiersAreFresh
       /\ DependenciesCameFirst /\ RecoveringIsBacked /\ CompletionIsEarned

-----------------------------------------------------------------------------
(* Items and identifiers. *)

\* The identifiers of a sequence of items, of its head and of its tail.
LEMMA IdsOfItems ==
    ASSUME NEW s \in Seq(Items)
    PROVE  /\ IdsOf(s) \subseteq Tasks
           /\ s # <<>> => /\ Head(s) \in Items /\ Tail(s) \in Seq(Items)
                          /\ Head(s).id \in IdsOf(s)
                          /\ IdsOf(Tail(s)) \subseteq IdsOf(s)
<1>0. \A i \in 1..Len(s) : s[i] \in Items
  OBVIOUS
<1>1. IdsOf(s) \subseteq Tasks
  <2> SUFFICES ASSUME NEW x \in IdsOf(s) PROVE x \in Tasks
    OBVIOUS
  <2>1. PICK i \in 1..Len(s) : x \in {s[i].id} \cup s[i].after
    BY DEF IdsOf
  <2> QED
    BY <2>1, <1>0 DEF Items
<1>2. ASSUME s # <<>>
      PROVE  /\ Head(s) \in Items /\ Tail(s) \in Seq(Items)
             /\ Head(s).id \in IdsOf(s)
             /\ IdsOf(Tail(s)) \subseteq IdsOf(s)
  <2>1. Len(s) \in Nat \ {0} /\ Head(s) = s[1] /\ 1 \in 1..Len(s)
    BY <1>2
  <2>2. Head(s).id \in IdsOf(s)
    BY <2>1 DEF IdsOf
  <2>3. Len(Tail(s)) = Len(s) - 1 /\ \A i \in 1..Len(Tail(s)) : Tail(s)[i] = s[i + 1]
    BY <1>2, <2>1
  <2>4. IdsOf(Tail(s)) \subseteq IdsOf(s)
    <3> SUFFICES ASSUME NEW x \in IdsOf(Tail(s)) PROVE x \in IdsOf(s)
      OBVIOUS
    <3>1. PICK i \in 1..Len(Tail(s)) : x \in {Tail(s)[i].id} \cup Tail(s)[i].after
      BY DEF IdsOf
    <3>2. i + 1 \in 1..Len(s) /\ x \in {s[i + 1].id} \cup s[i + 1].after
      BY <3>1, <2>1, <2>3
    <3> QED
      BY <3>2 DEF IdsOf
  <2> QED
    BY <1>2, <1>0, <2>1, <2>2, <2>4
<1> QED
  BY <1>1, <1>2

\* There are finitely many, and the identifiers of a graph or of a proposal are
\* numbered from 1.
LEMMA IdsAreNumbered ==
    ASSUME NEW s \in Graphs \cup Repairs
    PROVE  /\ s \in Seq(Items) /\ Cardinality(IdsOf(s)) \in Nat
           /\ IdsOf(s) = 1..Cardinality(IdsOf(s))
<1>1. s \in Seq(Items)
  BY GraphConstants
<1>2. IsFiniteSet(Tasks)
  BY GraphConstants, FS_Interval DEF Tasks
<1>3. IsFiniteSet(IdsOf(s))
  BY <1>1, <1>2, IdsOfItems, FS_Subset
<1> QED
  BY <1>1, <1>3, FS_CardinalityType, GraphConstants

\* A proposal's tasks, their identifiers drawn behind those that are drawn.
LEMMA FreshItems ==
    ASSUME TypeOK, NEW p \in Repairs, drawn + Cardinality(IdsOf(p)) <= MaxTasks
    PROVE  /\ Fresh(p) \in Seq(Items) /\ Fresh(p) # <<>>
           /\ Cardinality(IdsOf(p)) \in Nat
           /\ IdsOf(Fresh(p)) \subseteq (drawn + 1)..(drawn + Cardinality(IdsOf(p)))
<1> DEFINE n == Cardinality(IdsOf(p))
<1>1. p \in Seq(Items) /\ p # <<>> /\ n \in Nat /\ IdsOf(p) = 1..n
  BY IdsAreNumbered, GraphConstants
<1>2. drawn \in Nat /\ drawn + n <= MaxTasks /\ MaxTasks \in Nat
  BY GraphConstants DEF TypeOK
<1>3. \A i \in 1..Len(p) : p[i] \in Items /\ p[i].id \in 1..n /\ p[i].after \subseteq 1..n
  <2> SUFFICES ASSUME NEW i \in 1..Len(p)
               PROVE  p[i] \in Items /\ p[i].id \in 1..n /\ p[i].after \subseteq 1..n
    OBVIOUS
  <2>1. {p[i].id} \cup p[i].after \subseteq IdsOf(p)
    BY DEF IdsOf
  <2>2. p[i] \in Items
    BY <1>1
  <2> QED
    BY <1>1, <2>1, <2>2
<1>4. \A i \in 1..Len(p) :
         /\ drawn + p[i].id \in (drawn + 1)..(drawn + n)
         /\ {drawn + d : d \in p[i].after} \subseteq (drawn + 1)..(drawn + n)
  BY <1>1, <1>2, <1>3
<1>5. (drawn + 1)..(drawn + n) \subseteq Tasks
  BY <1>1, <1>2 DEF Tasks
<1>6. \A i \in 1..Len(p) : Fresh(p)[i] \in Items
  BY <1>4, <1>5 DEF Fresh, Items
<1>7. Len(p) \in Nat \ {0} /\ Len(Fresh(p)) = Len(p)
  BY <1>1 DEF Fresh
<1>8. Fresh(p) \in Seq(Items) /\ Fresh(p) # <<>>
  BY <1>6, <1>7 DEF Fresh
<1>9. IdsOf(Fresh(p)) \subseteq (drawn + 1)..(drawn + n)
  <2> SUFFICES ASSUME NEW x \in IdsOf(Fresh(p)) PROVE x \in (drawn + 1)..(drawn + n)
    OBVIOUS
  <2>1. PICK i \in 1..Len(p) : x \in {Fresh(p)[i].id} \cup Fresh(p)[i].after
    BY <1>7 DEF IdsOf
  <2>2. /\ Fresh(p)[i].id = drawn + p[i].id
        /\ Fresh(p)[i].after = {drawn + d : d \in p[i].after}
    BY DEF Fresh
  <2> QED
    BY <2>1, <2>2, <1>4
<1> QED
  BY <1>1, <1>8, <1>9
-----------------------------------------------------------------------------
(* What the store's operations do to the tables. *)

\* What a process knows of the tables stays true.
Grows == /\ Created \subseteq Created' /\ ever \subseteq ever' /\ good \subseteq good'
         /\ \A t \in Created : after'[t] = after[t]

\* The part of the invariant that the two operations of the store touch.
Stored == /\ created \in Seq(Tasks)
          /\ \A i, j \in 1..Len(created) : created[i] = created[j] => i = j
          /\ status \in [Tasks -> TaskStatuses \cup {None}]
          /\ \A t \in Tasks : status[t] # None <=> t \in Created
          /\ after \in [Tasks -> SUBSET Tasks]
          /\ repairs \in [Tasks -> SUBSET Tasks]
          /\ newer \in [Tasks -> 0..Window]
          /\ ever \subseteq good /\ good \subseteq Tasks
          /\ \A t \in Tasks : status[t] = "completed" => t \in ever
          /\ EffectivelyCompleted(status, repairs) \subseteq good
          /\ RecoveringIsBacked

\* A completed task counts as completed.
LEMMA CompletedCounts ==
    ASSUME NEW st, NEW rep, NEW t \in Tasks, st[t] = "completed"
    PROVE  t \in EffectivelyCompleted(st, rep)
  BY DEF EffectivelyCompleted, Closed

\* No task is further behind than out of sight.
LEMMA Touching ==
    ASSUME newer \in [Tasks -> 0..Window], NEW u \in Tasks, Touch(u)
    PROVE  newer' \in [Tasks -> 0..Window]
<1>1. newer[u] \in 0..Window /\ Window \in Nat \ {0}
  BY GraphConstants
<1>2. Pushed(newer[u]) \in [Tasks -> 0..Window]
  BY <1>1 DEF Pushed
<1> QED
  BY <1>1, <1>2 DEF Touch

\* An insertion adds a planned task and nothing to what counts as completed.
LEMMA Insertion ==
    ASSUME Stored, NEW item \in Items, item.id \notin Created, AddTask(item)
    PROVE  /\ Stored' /\ Grows /\ Created' = Created \cup {item.id}
           /\ status' = [status EXCEPT ![item.id] = "planned"]
<1> USE DEF Stored, AddTask
<1>1. item.id \in Tasks /\ item.after \subseteq Tasks
  BY DEF Items
<1>2. /\ created' \in Seq(Tasks) /\ Len(created') = Len(created) + 1 /\ Len(created) \in Nat
      /\ created'[Len(created')] = item.id
      /\ \A i \in 1..Len(created) : created'[i] = created[i]
  BY <1>1
<1>3. Created' = Created \cup {item.id}
  BY <1>2 DEF Created
<1>4. \A i, j \in 1..Len(created') : created'[i] = created'[j] => i = j
  <2>1. \A i \in 1..Len(created) : created[i] # item.id
    BY DEF Created
  <2> QED
    BY <1>2, <2>1
<1>5. /\ status' \in [Tasks -> TaskStatuses \cup {None}]
      /\ after' \in [Tasks -> SUBSET Tasks] /\ repairs' \in [Tasks -> SUBSET Tasks]
  BY <1>1 DEF TaskStatuses
<1>6. \A t \in Tasks : status'[t] # None <=> t \in Created'
  BY <1>1, <1>3, GraphConstants DEF TaskStatuses
<1>7. Grows
  BY <1>1, <1>3 DEF Grows
<1>8. \A t \in Tasks : t # item.id => status'[t] = status[t]
  BY <1>1
<1>9. status'[item.id] = "planned" /\ status[item.id] = None /\ repairs' = repairs
  BY <1>1, GraphConstants
<1>10. EffectivelyCompleted(status', repairs') \subseteq EffectivelyCompleted(status, repairs)
  <2>1. \A S \in SUBSET Tasks : Closed(S, status, repairs) => Closed(S, status', repairs')
    BY <1>8, <1>9 DEF Closed
  <2> QED
    BY <2>1 DEF EffectivelyCompleted
<1>11. RecoveringIsBacked'
  <2> SUFFICES ASSUME NEW t \in Created', status'[t] = "recovering"
               PROVE  repairs'[t] # {} /\ repairs'[t] \subseteq Created' \ {t}
    BY DEF RecoveringIsBacked
  <2>1. t # item.id /\ t \in Created /\ t \in Tasks
    BY <1>3, <1>9, <1>1, <1>2 DEF Created
  <2>2. status[t] = "recovering"
    BY <2>1, <1>8
  <2> QED
    BY <2>1, <2>2, <1>3, <1>9 DEF RecoveringIsBacked
<1>12. \A t \in Tasks : status'[t] = "completed" => t \in ever'
  BY <1>8, <1>9
<1>13. newer' \in [Tasks -> 0..Window]
  BY <1>1, Touching
<1> QED
  BY <1>2, <1>3, <1>4, <1>5, <1>6, <1>7, <1>10, <1>11, <1>12, <1>13

\* An update of a task that is there, backed if it says that the task recovers.
LEMMA Update ==
    ASSUME Stored, NEW t \in Created, NEW st \in TaskStatuses, NEW rep \in SUBSET Tasks,
           st = "recovering" => rep # {} /\ rep \subseteq Created \ {t},
           UpdateTask(t, st, rep)
    PROVE  /\ Stored' /\ Grows /\ Created' = Created
           /\ status' = [status EXCEPT ![t] = st]
<1> USE DEF Stored, UpdateTask
<1>1. t \in Tasks /\ Created \subseteq Tasks
  BY DEF Created
<1>2. Created' = Created
  BY DEF Created
<1>3. /\ status' \in [Tasks -> TaskStatuses \cup {None}]
      /\ repairs' \in [Tasks -> SUBSET Tasks]
      /\ \A u \in Tasks : status'[u] # None <=> u \in Created'
  BY <1>1, <1>2, GraphConstants
<1>4. EffectivelyCompleted(status', repairs') \subseteq Tasks
  BY DEF EffectivelyCompleted
<1>5. st = "completed" => t \in EffectivelyCompleted(status', repairs')
  <2>1. st = "completed" => status'[t] = "completed"
    BY <1>1, <1>3
  <2> QED
    BY <1>1, <2>1, CompletedCounts
<1>6. ever' \subseteq good' /\ good' \subseteq Tasks
  BY <1>1, <1>4, <1>5
<1>7. \A u \in Tasks : status'[u] = "completed" => u \in ever'
  BY <1>1
<1>8. RecoveringIsBacked'
  BY <1>1, <1>2 DEF RecoveringIsBacked
<1>9. Grows
  BY <1>2 DEF Grows
<1>10. newer' \in [Tasks -> 0..Window]
  BY <1>1, Touching
<1> QED
  BY <1>2, <1>3, <1>6, <1>7, <1>8, <1>9, <1>10
-----------------------------------------------------------------------------
(* What keeps the invariant. *)

\* What was started: it is there, behind its dependencies and no longer planned.
RanAgrees == \A r \in Runtimes :
    /\ ran[r] \subseteq Created
    /\ \A t \in ran[r] : status[t] # "planned" /\ after[t] \subseteq ever

\* The invariant speaks of the stored tables and of what was started.
LEMMA InvStores == Inv => Stored /\ RanAgrees
  BY DEF Inv, TypeOK, TableAgrees, Stored, RanAgrees, DependenciesCameFirst

\* A step that starts nothing and plans nothing anew keeps what was started.
LEMMA RanStays ==
    ASSUME Inv, Grows, UNCHANGED ran,
           \A t \in Created : status'[t] = "planned" => status[t] = "planned"
    PROVE  RanAgrees' /\ ran' \in [Runtimes -> SUBSET Tasks]
<1>1. RanAgrees /\ ran \in [Runtimes -> SUBSET Tasks]
  BY InvStores DEF Inv, TypeOK
<1> QED
  BY <1>1 DEF RanAgrees, Grows

\* What a process knows stays true while others work.
LEMMA OthersAgree ==
    ASSUME Inv, Grows, NEW p \in Procs, Agrees(p, job[p])',
           \A q \in Procs \ {p} : job'[q] = job[q],
           \A r \in Runtimes \ {p} : ran'[r] = ran[r]
    PROVE  LocalsAgree'
<1> SUFFICES ASSUME NEW q \in Procs, q # p PROVE Agrees(q, job[q])'
  BY DEF LocalsAgree, Procs
<1>1. job'[q] = job[q] /\ (q \in Runtimes => ran'[q] = ran[q])
  OBVIOUS
<1>2. Agrees(q, job[q])
  BY DEF Inv, LocalsAgree
<1> QED
  BY <1>1, <1>2 DEF Agrees, Grows

\* Identifiers stay fresh if a process inserts those it has reserved and reserves
\* those it draws.
LEMMA FreshStep ==
    ASSUME Inv, NEW p \in Procs, NEW j \in Jobs, job' = [job EXCEPT ![p] = j],
           UNCHANGED graph, drawn' \in drawn..MaxTasks,
           Reserved(j) \subseteq Reserved(job[p]) \cup ((drawn + 1)..drawn'),
           j.pc = "add" => j.task \in (drawn + 1)..drawn',
           Created' \subseteq Created \cup Reserved(job[p])
    PROVE  IdentifiersAreFresh'
<1> USE DEF IdentifiersAreFresh, At
<1>1. job \in [Procs -> Jobs] /\ drawn \in Nat /\ IdentifiersAreFresh /\ drawn' \in Nat
  BY GraphConstants DEF Inv, TypeOK, Jobs, JobPCs
<1>2. /\ job'[p] = j
      /\ \A q \in Procs \ {p} : job'[q] = job[q]
  BY <1>1
<1>3. Reserved(job[p]) \subseteq 1..drawn /\ Created' \subseteq 1..drawn
  BY <1>1
<1>4. IdsOf(graph') = IdsOf(graph) /\ IdsOf(graph) \subseteq 1..drawn
  BY <1>1
<1>5. \A q \in Procs : Reserved(job'[q]) \subseteq 1..drawn'
  <2> SUFFICES ASSUME NEW q \in Procs PROVE Reserved(job'[q]) \subseteq 1..drawn'
    OBVIOUS
  <2>1. CASE q = p
    BY <2>1, <1>1, <1>2, <1>3
  <2>2. CASE q # p
    <3>1. Reserved(job[q]) \subseteq 1..drawn /\ job'[q] = job[q]
      BY <1>1, <1>2, <2>2
    <3> QED
      BY <3>1, <1>1
  <2> QED
    BY <2>1, <2>2
<1>6. \A q \in Procs \ {p} : Reserved(job'[q]) \subseteq 1..drawn
  BY <1>1, <1>2
<1>7. ASSUME NEW q \in Procs, job'[q].pc = "add"
      PROVE  /\ job'[q].task \notin Created' \cup IdsOf(graph')
             /\ \A o \in Procs \ {q} : job'[q].task \notin Reserved(job'[o])
  <2>1. CASE q = p
    <3>1. job'[q].task \in (drawn + 1)..drawn'
      BY <1>2, <1>7, <2>1
    <3>2. job'[q].task \notin 1..drawn
      BY <3>1, <1>1
    <3> QED
      BY <3>2, <1>3, <1>4, <1>6, <2>1
  <2>2. CASE q # p
    <3> DEFINE t == job[q].task
    <3>1. job'[q] = job[q] /\ job[q].pc = "add"
      BY <1>2, <1>7, <2>2
    <3>2. t \in 1..drawn
      BY <3>1, <1>1 DEF Reserved
    <3>3. /\ t \notin Created \cup IdsOf(graph)
          /\ \A o \in Procs \ {q} : t \notin Reserved(job[o])
      BY <3>1, <1>1
    <3>4. t \notin Reserved(job[p]) /\ t \notin (drawn + 1)..drawn'
      BY <3>2, <3>3, <2>2, <1>1
    <3>5. t \notin Created' /\ t \notin Reserved(j)
      BY <3>3, <3>4
    <3>6. \A o \in Procs \ {q} : t \notin Reserved(job'[o])
      BY <1>2, <3>3, <3>5
    <3> QED
      BY <3>1, <3>3, <3>5, <3>6, <1>4
  <2> QED
    BY <2>1, <2>2
<1>8. Created' \subseteq 1..drawn' /\ IdsOf(graph') \subseteq 1..drawn'
  BY <1>1, <1>3, <1>4
<1> QED
  BY <1>5, <1>7, <1>8

\* A step of one process keeps the invariant if the store's part is kept and the
\* process knows afterwards what its place needs.
LEMMA ProcessStep ==
    ASSUME Inv, NEW p \in Procs, NEW j \in Jobs, job' = [job EXCEPT ![p] = j],
           Agrees(p, job[p])', Stored', Grows,
           ran' \in [Runtimes -> SUBSET Tasks], RanAgrees',
           \A r \in Runtimes \ {p} : ran'[r] = ran[r],
           UNCHANGED graph, drawn' \in drawn..MaxTasks,
           Reserved(j) \subseteq Reserved(job[p]) \cup ((drawn + 1)..drawn'),
           j.pc = "add" => j.task \in (drawn + 1)..drawn',
           Created' \subseteq Created \cup Reserved(job[p]),
           goal' \in GoalStatuses, covered' \subseteq Tasks,
           goal' = "completed" => covered' \subseteq good',
           faults' \in 0..MaxFaults
    PROVE  Inv'
<1>1. job \in [Procs -> Jobs] /\ drawn \in 0..MaxTasks /\ graph \in Seq(Items)
  BY DEF Inv, TypeOK, Jobs, JobPCs
<1>2. job' \in [Procs -> Jobs] /\ \A q \in Procs \ {p} : job'[q] = job[q]
  BY <1>1
<1>3. drawn' \in 0..MaxTasks
  BY <1>1, GraphConstants
<1>4. TypeOK'
  BY <1>1, <1>2, <1>3 DEF TypeOK, Stored, Jobs, JobPCs
<1>5. LocalsAgree'
  BY <1>2, OthersAgree
<1>6. TableAgrees' /\ DependenciesCameFirst' /\ RecoveringIsBacked' /\ CompletionIsEarned'
  BY DEF TableAgrees, DependenciesCameFirst, CompletionIsEarned, RanAgrees, Stored
<1>7. IdentifiersAreFresh'
  BY FreshStep
<1> QED
  BY <1>4, <1>5, <1>6, <1>7 DEF Inv
\* A step that leaves the tasks alone.
LEMMA QuietStep ==
    ASSUME Inv, NEW p \in Procs, NEW j \in Jobs, job' = [job EXCEPT ![p] = j],
           Agrees(p, j), UNCHANGED <<table, ever, good, ran, graph>>,
           drawn' \in drawn..MaxTasks,
           Reserved(j) \subseteq Reserved(job[p]) \cup ((drawn + 1)..drawn'),
           j.pc = "add" => j.task \in (drawn + 1)..drawn',
           goal' \in GoalStatuses, covered' \subseteq Tasks,
           goal' = "completed" => covered' \subseteq good,
           faults' \in 0..MaxFaults
    PROVE  Inv'
<1>1. UNCHANGED <<created, status, after, repairs, newer, ever, good, ran, graph>>
  BY DEF table
<1>2. Created' = Created
  BY <1>1 DEF Created
<1>3. job'[p] = j
  BY DEF Inv, TypeOK
<1>4. Agrees(p, job[p])'
  BY <1>1, <1>2, <1>3 DEF Agrees
<1>5. Stored'
  <2>1. Stored
    BY InvStores
  <2> QED
    BY <1>1, <1>2, <2>1 DEF Stored, EffectivelyCompleted, Closed, RecoveringIsBacked
<1>6. Grows
  BY <1>1, <1>2 DEF Grows
<1>7. RanAgrees' /\ ran' \in [Runtimes -> SUBSET Tasks]
  BY <1>1, <1>6, RanStays
<1>8. Created' \subseteq Created \cup Reserved(job[p])
  BY <1>2
<1> QED
  BY <1>1, <1>4, <1>5, <1>6, <1>7, <1>8, ProcessStep

\* The locals of a process, and those of an idle one.
LEMMA LocalsAreTyped ==
    ASSUME Inv, NEW p \in Procs
    PROVE  /\ job[p] \in Jobs /\ Agrees(p, job[p])
           /\ Idle \in Jobs /\ Agrees(p, Idle) /\ Reserved(Idle) = {}
           /\ Over \in Jobs /\ Agrees(p, Over) /\ Reserved(Over) = {}
           /\ drawn \in drawn..MaxTasks /\ goal \in GoalStatuses /\ covered \subseteq Tasks
           /\ (goal = "completed" => covered \subseteq good) /\ faults \in 0..MaxFaults
<1>1. job[p] \in Jobs /\ Agrees(p, job[p])
  BY DEF Inv, TypeOK, LocalsAgree, Jobs, JobPCs
<1>2. <<>> \in Seq(Items)
  OBVIOUS
<1>3. /\ Idle \in Jobs /\ Agrees(p, Idle) /\ Reserved(Idle) = {}
      /\ Over \in Jobs /\ Agrees(p, Over) /\ Reserved(Over) = {}
  BY <1>2 DEF Idle, Over, Jobs, JobPCs, Agrees, Reserved
<1>4. /\ drawn \in drawn..MaxTasks /\ goal \in GoalStatuses /\ covered \subseteq Tasks
      /\ (goal = "completed" => covered \subseteq good) /\ faults \in 0..MaxFaults
  BY GraphConstants DEF Inv, TypeOK, CompletionIsEarned
<1> QED
  BY <1>1, <1>3, <1>4

\* The steps of a cycle that choose a task.
LEMMA ChoosingSteps ==
    ASSUME Inv, NEW r \in Runtimes, ReadPlanned(r) \/ Pick(r)
    PROVE  Inv'
<1> USE DEF At
<1>0. r \in Procs
  BY DEF Procs
<1>1. CASE ReadPlanned(r)
  <2> DEFINE planned == Having(status, {"planned"}) \cap InSight
             j == [job[r] EXCEPT !.pc = "pick", !.planned = planned]
  <2>1. planned \subseteq Created /\ Created \subseteq Tasks
    BY DEF Having, Inv, TypeOK, Created
  <2>2. planned \cap ran[r] = {}
    BY InvStores DEF RanAgrees, Having
  <2>3. j \in Jobs
    <3>1. job[r] \in Jobs /\ "pick" \in JobPCs
      BY <1>0, LocalsAreTyped DEF JobPCs
    <3>2. planned \in SUBSET Tasks
      BY <2>1
    <3> QED
      BY ONLY <3>1, <3>2 DEF Jobs
  <2>4. Agrees(r, j) /\ Reserved(j) = {}
    BY <1>0, <2>1, <2>2, <2>3, LocalsAreTyped DEF Agrees, Reserved, Jobs
  <2>5. job' = [job EXCEPT ![r] = j]
    BY <1>1 DEF ReadPlanned
  <2>6. UNCHANGED <<table, goal, graph, drawn, ever, good, ran, covered, faults>>
    BY <1>1 DEF ReadPlanned, history
  <2>7. j.pc # "add"
    BY <1>0, LocalsAreTyped DEF Jobs
  <2> HIDE DEF j
  <2> QED
    BY <1>0, <2>3, <2>4, <2>5, <2>6, <2>7, LocalsAreTyped, QuietStep
<1>2. CASE Pick(r)
  <2>1. UNCHANGED <<table, goal, graph, drawn, ever, good, ran, covered, faults>>
    BY <1>2 DEF Pick, history
  <2>2. CASE Done(r)
    BY <1>0, <2>1, <2>2, LocalsAreTyped, QuietStep DEF Done, Idle
  <2>3. CASE ~Done(r)
    <3>1. PICK i \in 1..Len(created) :
             /\ created[i] \in job[r].planned /\ Ready(created[i])
             /\ job' = [job EXCEPT ![r] = [Idle EXCEPT !.pc = "start", !.task = created[i]]]
      BY <1>2, <2>3 DEF Pick
    <3> DEFINE t == created[i]
               j == [Idle EXCEPT !.pc = "start", !.task = t]
    <3>2. t \in Created /\ t \in Tasks
      BY DEF Inv, TypeOK, Created
    <3>3. t \notin ran[r]
      BY <1>0, <1>2, <3>1, LocalsAreTyped DEF Agrees, Pick
    <3>4. after[t] \subseteq ever
      BY <3>1, <3>2 DEF Inv, TypeOK, TableAgrees, Ready
    <3>5. j \in Jobs /\ j.pc = "start" /\ j.task = t /\ j.made = {}
      BY <1>0, <3>2, LocalsAreTyped DEF Idle, Jobs, JobPCs
    <3>6. Agrees(r, j) /\ Reserved(j) = {}
      BY <3>2, <3>3, <3>4, <3>5 DEF Agrees, Reserved
    <3> QED
      BY <1>0, <2>1, <3>1, <3>5, <3>6, LocalsAreTyped, QuietStep
  <2> QED
    BY <2>2, <2>3
<1> QED
  BY <1>1, <1>2
\* The run draws the identifiers of the repairs.
LEMMA RunStep ==
    ASSUME Inv, NEW r \in Runtimes, Run(r)
    PROVE  Inv'
<1> USE DEF At
<1>0. /\ r \in Procs /\ job[r].pc = "run"
      /\ UNCHANGED <<table, goal, graph, ever, good, ran, covered, faults>>
  BY DEF Procs, Run, history
<1>1. PICK s \in Reflections :
        \/ /\ job' = [job EXCEPT ![r].pc = "finish", ![r].result = s]
           /\ UNCHANGED drawn
        \/ /\ s \notin {"passed", "needs_approval"}
           /\ \E p \in Repairs :
                 /\ drawn + Cardinality(IdsOf(p)) <= MaxTasks
                 /\ drawn' = drawn + Cardinality(IdsOf(p))
                 /\ job' = [job EXCEPT ![r].pc = "recover", ![r].result = s,
                                       ![r].todo = Fresh(p)]
  BY DEF Run
<1>2. s \in AllReflections
  BY GraphConstants
<1>3. job[r] \in Jobs /\ Agrees(r, job[r])
  BY <1>0, LocalsAreTyped
<1>4. CASE job' = [job EXCEPT ![r].pc = "finish", ![r].result = s] /\ UNCHANGED drawn
  <2> DEFINE j == [job[r] EXCEPT !.pc = "finish", !.result = s]
  <2>1. j \in Jobs
    BY <1>2, <1>3 DEF Jobs, JobPCs
  <2>2. Agrees(r, j) /\ Reserved(j) = {} /\ j.pc # "add"
    BY <1>0, <1>2, <1>3, <2>1 DEF Agrees, Reserved, Jobs
  <2>3. job' = [job EXCEPT ![r] = j]
    BY <1>4
  <2> HIDE DEF j
  <2> QED
    BY <1>0, <1>4, <2>1, <2>2, <2>3, LocalsAreTyped, QuietStep
<1>5. ASSUME NEW p \in Repairs,
             drawn + Cardinality(IdsOf(p)) <= MaxTasks,
             drawn' = drawn + Cardinality(IdsOf(p)),
             job' = [job EXCEPT ![r].pc = "recover", ![r].result = s,
                                ![r].todo = Fresh(p)]
      PROVE  Inv'
  <2> DEFINE j == [job[r] EXCEPT !.pc = "recover", !.result = s, !.todo = Fresh(p)]
  <2>1. /\ Fresh(p) \in Seq(Items) /\ Fresh(p) # <<>>
        /\ Cardinality(IdsOf(p)) \in Nat
        /\ IdsOf(Fresh(p)) \subseteq (drawn + 1)..drawn'
    BY <1>5, FreshItems DEF Inv
  <2>2. j \in Jobs
    BY <1>2, <1>3, <2>1 DEF Jobs, JobPCs
  <2>3. Agrees(r, j) /\ Reserved(j) = IdsOf(Fresh(p)) /\ j.pc # "add"
    BY <1>0, <1>2, <1>3, <2>1, <2>2 DEF Agrees, Reserved, Jobs
  <2>4. job' = [job EXCEPT ![r] = j]
    BY <1>5
  <2>5. drawn' \in drawn..MaxTasks
    BY <1>5, <2>1, GraphConstants DEF Inv, TypeOK
  <2> HIDE DEF j
  <2> QED
    BY <1>0, <2>1, <2>2, <2>3, <2>4, <2>5, LocalsAreTyped, QuietStep
<1> QED
  BY <1>1, <1>4, <1>5

\* The steps that decide about the goal.
LEMMA GoalSteps ==
    ASSUME Inv, NEW r \in Runtimes, Judge(r) \/ Settle(r)
    PROVE  Inv'
<1> USE DEF At
<1>0. r \in Procs /\ job[r] \in Jobs /\ Agrees(r, job[r])
  BY LocalsAreTyped DEF Procs
<1>1. CASE Judge(r)
  <2>1. /\ UNCHANGED <<table, goal, graph, drawn, ever, good, ran, covered, faults>>
        /\ job[r].pc = "judge"
    BY <1>1 DEF Judge, history
  <2>2. CASE GoalIsTerminal = None
    <3>1. job' = [job EXCEPT ![r] = Idle]
      BY <1>1, <2>2 DEF Judge, Done
    <3> QED
      BY <1>0, <2>1, <3>1, LocalsAreTyped, QuietStep DEF Idle
  <2>3. CASE GoalIsTerminal # None
    <3> DEFINE j == [job[r] EXCEPT !.pc = "settle", !.verdict = GoalIsTerminal,
                                   !.seen = Created]
    <3>1. GoalIsTerminal \in GoalStatuses
      BY <2>3 DEF GoalIsTerminal, GoalStatuses
    <3>2. GoalIsTerminal = "completed" => Created \subseteq good
      BY GraphConstants DEF GoalIsTerminal, Inv, TableAgrees, GoalStatuses
    <3>. Created \subseteq Tasks
      BY DEF Inv, TypeOK, Created
    <3>3. j \in Jobs
      BY <1>0, <3>1 DEF Jobs, JobPCs
    <3>4. Agrees(r, j) /\ Reserved(j) = {} /\ j.pc # "add"
      BY <1>0, <2>1, <3>1, <3>2, <3>3 DEF Agrees, Reserved, Jobs
    <3>5. job' = [job EXCEPT ![r] = j]
      BY <1>1, <2>3 DEF Judge
    <3> HIDE DEF j
    <3> QED
      BY <1>0, <2>1, <3>3, <3>4, <3>5, LocalsAreTyped, QuietStep
  <2> QED
    BY <2>2, <2>3
<1>2. CASE Settle(r)
  <2>1. /\ UNCHANGED <<table, graph, drawn, ever, good, ran, faults>>
        /\ job[r].pc = "settle" /\ goal' = job[r].verdict /\ covered' = job[r].seen
        /\ job' = [job EXCEPT ![r] = Idle]
    BY <1>2 DEF Settle, Done
  <2>2. /\ goal' \in GoalStatuses /\ covered' \subseteq Tasks
        /\ (goal' = "completed" => covered' \subseteq good)
    BY <1>0, <2>1 DEF Agrees, Jobs
  <2> QED
    BY <1>0, <2>1, <2>2, LocalsAreTyped, QuietStep DEF Idle
<1> QED
  BY <1>1, <1>2
\* The steps of a cycle that write a task.
LEMMA StartStep ==
    ASSUME Inv, NEW r \in Runtimes, Start(r)
    PROVE  Inv'
<1> USE DEF At
<1>0. r \in Procs /\ job[r] \in Jobs /\ Agrees(r, job[r]) /\ job[r].pc = "start"
  BY LocalsAreTyped DEF Procs, Start
<1> DEFINE t == job[r].task
           j == [job[r] EXCEPT !.pc = "run"]
<1>1. /\ t \in Created /\ t \in Tasks /\ t \notin ran[r] /\ after[t] \subseteq ever
      /\ job[r].made \subseteq Created \ {t}
  BY <1>0 DEF Agrees, Inv, TypeOK, Created
<1>2. /\ UpdateTask(t, "running", repairs[t])
      /\ ran' = [ran EXCEPT ![r] = @ \cup {t}]
      /\ job' = [job EXCEPT ![r] = j]
      /\ UNCHANGED <<goal, graph, drawn, covered, faults>>
  BY DEF Start, Goto
<1>3. repairs[t] \in SUBSET Tasks /\ ran \in [Runtimes -> SUBSET Tasks]
  BY <1>1 DEF Inv, TypeOK
<1>4. /\ Stored' /\ Grows /\ Created' = Created
      /\ status' = [status EXCEPT ![t] = "running"]
  BY <1>1, <1>2, <1>3, InvStores, Update DEF TaskStatuses
<1>5. ran' \in [Runtimes -> SUBSET Tasks] /\ \A p \in Runtimes \ {r} : ran'[p] = ran[p]
  BY <1>1, <1>2, <1>3
<1>6. RanAgrees'
  <2>1. RanAgrees /\ status \in [Tasks -> TaskStatuses \cup {None}]
    BY InvStores DEF Inv, TypeOK
  <2>2. \A p \in Runtimes : ran'[p] \subseteq ran[p] \cup {t}
    BY <1>2, <1>3
  <2>3. \A u \in Created : u = t \/ status'[u] = status[u]
    BY <1>4, <2>1
  <2>4. status'[t] = "running"
    BY <1>1, <1>4, <2>1
  <2> QED
    BY <1>1, <1>4, <2>1, <2>2, <2>3, <2>4 DEF RanAgrees, Grows
<1>7. j \in Jobs /\ Reserved(j) = {} /\ j.pc = "run"
  BY <1>0 DEF Jobs, JobPCs, Reserved
<1>8. Agrees(r, job[r])'
  <2>1. job'[r] = j
    BY <1>0, <1>2 DEF Inv, TypeOK
  <2> QED
    BY <1>1, <1>4, <1>7, <2>1, <1>0 DEF Agrees, Jobs
<1> HIDE DEF j
<1> QED
  BY <1>0, <1>2, <1>4, <1>5, <1>6, <1>7, <1>8, LocalsAreTyped, ProcessStep DEF Grows
\* A process that only updates its task, behind the start.
LEMMA UpdatingStep ==
    ASSUME Inv, NEW p \in Procs, NEW j \in Jobs, job' = [job EXCEPT ![p] = j],
           NEW t \in Created, NEW st \in TaskStatuses \ {"planned"},
           NEW rep \in SUBSET Tasks,
           st = "recovering" => rep # {} /\ rep \subseteq Created \ {t},
           UpdateTask(t, st, rep),
           UNCHANGED <<goal, graph, drawn, ran, covered, faults>>,
           j.pc \in {"judge", "done", "answer", "close"},
           j.pc = "answer" => j.task = t
    PROVE  Inv'
<1>1. /\ Stored' /\ Grows /\ Created' = Created
      /\ status' = [status EXCEPT ![t] = st]
  BY InvStores, Update
<1>2. status \in [Tasks -> TaskStatuses \cup {None}]
  BY DEF Inv, TypeOK
<1>3. \A u \in Created : status'[u] = "planned" => status[u] = "planned"
  BY <1>1, <1>2
<1>4. RanAgrees' /\ ran' \in [Runtimes -> SUBSET Tasks]
  BY <1>1, <1>3, RanStays
<1>5. job'[p] = j /\ Reserved(j) = {}
  BY DEF Inv, TypeOK, Reserved
<1>6. Agrees(p, job[p])'
  BY <1>1, <1>5 DEF Agrees
<1>7. goal' = "completed" => covered' \subseteq good'
  BY <1>1, LocalsAreTyped DEF Grows
<1> QED
  BY <1>1, <1>4, <1>5, <1>6, <1>7, LocalsAreTyped, ProcessStep

\* The end of a task, and the two updates of a request.
LEMMA UpdateSteps ==
    /\ \A r \in Runtimes : Inv /\ Finish(r) => Inv'
    /\ \A q \in Requests : Inv /\ (MarkRequest(q) \/ Answer(q)) => Inv'
<1> USE DEF At
<1>0. ASSUME Inv, NEW p \in Procs
      PROVE  /\ job[p] \in Jobs /\ Agrees(p, job[p]) /\ Created \subseteq Tasks
             /\ repairs \in [Tasks -> SUBSET Tasks]
  <2>1. Created \subseteq Tasks /\ repairs \in [Tasks -> SUBSET Tasks]
    BY <1>0 DEF Inv, TypeOK, Created
  <2> QED
    BY <1>0, <2>1, LocalsAreTyped
<1>1. ASSUME Inv, NEW r \in Runtimes, Finish(r) PROVE Inv'
  <2> DEFINE t == job[r].task
             rep == job[r].made
             st == IF rep # {} THEN "recovering" ELSE TaskStatusFor(job[r].result)
             j == [Idle EXCEPT !.pc = "judge"]
  <2>1. r \in Procs /\ job[r].pc = "finish"
    BY <1>1 DEF Procs, Finish
  <2>2. /\ t \in Created /\ rep \subseteq Created \ {t} /\ rep \in SUBSET Tasks
        /\ job[r].result \in AllReflections
    BY <1>0, <1>1, <2>1 DEF Agrees, Jobs
  <2>3. TaskStatusFor(job[r].result) \in TaskStatuses \ {"planned", "recovering"}
    BY <2>2 DEF AllReflections, TaskStatusFor, TaskStatuses
  <2>4. /\ st \in TaskStatuses \ {"planned"}
        /\ st = "recovering" => rep # {} /\ rep \subseteq Created \ {t}
    BY <2>2, <2>3 DEF TaskStatuses
  <2>5. j \in Jobs /\ j.pc = "judge"
    BY <1>1, <2>1, LocalsAreTyped DEF Idle, Jobs, JobPCs
  <2>6. /\ UpdateTask(t, st, rep) /\ job' = [job EXCEPT ![r] = j]
        /\ UNCHANGED <<goal, graph, drawn, ran, covered, faults>>
    BY <1>1 DEF Finish
  <2> HIDE DEF st, j
  <2> QED
    BY <1>1, <2>1, <2>2, <2>4, <2>5, <2>6, UpdatingStep
<1>2. ASSUME Inv, NEW q \in Requests, MarkRequest(q) PROVE Inv'
  <2> DEFINE t == job[q].task
             j == [job[q] EXCEPT !.pc = "answer"]
  <2>1. q \in Procs /\ job[q].pc = "mark"
    BY <1>2 DEF Procs, MarkRequest
  <2>2. t \in Created /\ repairs[t] \in SUBSET Tasks
    BY <1>0, <1>2, <2>1 DEF Agrees
  <2>3. j \in Jobs /\ j.pc = "answer" /\ j.task = t
    BY <1>0, <1>2, <2>1 DEF Jobs, JobPCs
  <2>4. /\ UpdateTask(t, "running", repairs[t]) /\ job' = [job EXCEPT ![q] = j]
        /\ UNCHANGED <<goal, graph, drawn, ran, covered, faults>>
    BY <1>2 DEF MarkRequest, Goto
  <2>5. "running" \in TaskStatuses \ {"planned"}
    BY DEF TaskStatuses
  <2> HIDE DEF j
  <2> QED
    BY <1>2, <2>1, <2>2, <2>3, <2>4, <2>5, UpdatingStep
<1>3. ASSUME Inv, NEW q \in Requests, Answer(q) PROVE Inv'
  <2>1. q \in Procs /\ job[q].pc = "answer"
    BY <1>3 DEF Procs, Answer
  <2>2. job[q].task \in Created
    BY <1>0, <1>3, <2>1 DEF Agrees
  <2>3. PICK s \in {"completed", "waiting_approval", "failed", "blocked", "cancelled"} :
          /\ UpdateTask(job[q].task, s, {})
          /\ job' = [job EXCEPT ![q] = IF s = "cancelled" THEN Over
                                       ELSE [Idle EXCEPT !.pc = "close", !.result = s]]
    BY <1>3 DEF Answer
  <2> DEFINE j == IF s = "cancelled" THEN Over
                  ELSE [Idle EXCEPT !.pc = "close", !.result = s]
  <2>4. s \in TaskStatuses \ {"planned"} /\ s # "recovering"
    BY DEF TaskStatuses
  <2>5. Over \in Jobs /\ Over.pc = "done"
    BY <1>3, <2>1, LocalsAreTyped DEF Over, Idle
  <2>6. /\ [Idle EXCEPT !.pc = "close", !.result = s] \in Jobs
        /\ [Idle EXCEPT !.pc = "close", !.result = s].pc = "close"
    BY <1>3, <2>1, <2>4, LocalsAreTyped DEF Idle, Jobs, JobPCs
  <2>7. j \in Jobs /\ j.pc \in {"done", "close"}
    BY <2>5, <2>6
  <2>8. UNCHANGED <<goal, graph, drawn, ran, covered, faults>>
    BY <1>3 DEF Answer
  <2>9. job' = [job EXCEPT ![q] = j]
    BY <2>3
  <2>10. {} \in SUBSET Tasks /\ j.pc \in {"judge", "done", "answer", "close"} /\ j.pc # "answer"
    BY <2>7
  <2> HIDE DEF j
  <2> DEFINE none == {}
  <2>11. none \in SUBSET Tasks /\ UpdateTask(job[q].task, s, none)
    BY <2>3
  <2> HIDE DEF none
  <2> QED
    BY <1>3, <2>1, <2>2, <2>4, <2>7, <2>8, <2>9, <2>10, <2>11, UpdatingStep
<1> QED
  BY <1>1, <1>2, <1>3
\* An insertion plans a task that nobody has started.
LEMMA InsertionKeepsRan ==
    ASSUME Inv, NEW item \in Items, item.id \notin Created, AddTask(item), UNCHANGED ran
    PROVE  /\ Stored' /\ Grows /\ Created' = Created \cup {item.id}
           /\ RanAgrees' /\ ran' \in [Runtimes -> SUBSET Tasks]
<1>1. /\ Stored' /\ Grows /\ Created' = Created \cup {item.id}
      /\ status' = [status EXCEPT ![item.id] = "planned"]
  BY InvStores, Insertion
<1>2. status \in [Tasks -> TaskStatuses \cup {None}] /\ item.id \in Tasks
  BY DEF Inv, TypeOK, Items
<1>3. \A u \in Created : status'[u] = "planned" => status[u] = "planned"
  BY <1>1, <1>2
<1> QED
  BY <1>1, <1>3, RanStays

\* A process that inserts an identifier it has reserved.
LEMMA InsertingStep ==
    ASSUME Inv, NEW p \in Procs, NEW j \in Jobs, job' = [job EXCEPT ![p] = j],
           NEW item \in Items, item.id \notin Created, item.id \in Reserved(job[p]),
           AddTask(item), UNCHANGED <<goal, graph, drawn, ran, covered, faults>>,
           j.pc # "add", Reserved(j) \subseteq Reserved(job[p]), Agrees(p, job[p])'
    PROVE  Inv'
<1>1. /\ Stored' /\ Grows /\ Created' = Created \cup {item.id}
      /\ RanAgrees' /\ ran' \in [Runtimes -> SUBSET Tasks]
  BY InsertionKeepsRan
<1>2. goal' = "completed" => covered' \subseteq good'
  BY <1>1, LocalsAreTyped DEF Grows
<1> QED
  BY <1>1, <1>2, LocalsAreTyped, ProcessStep

\* The insertion of a repair.
LEMMA RecoverStep ==
    ASSUME Inv, NEW r \in Runtimes, Recover(r)
    PROVE  Inv'
<1> DEFINE item == Head(job[r].todo)
           rest == Tail(job[r].todo)
<1>0. /\ r \in Procs /\ job[r] \in Jobs /\ Agrees(r, job[r]) /\ job[r].pc = "recover"
      /\ UNCHANGED <<goal, graph, drawn, ran, covered, faults>>
  BY LocalsAreTyped DEF Procs, Recover, At
<1>1. /\ item \in Items /\ rest \in Seq(Items)
      /\ item.id \in IdsOf(job[r].todo) /\ IdsOf(rest) \subseteq IdsOf(job[r].todo)
  <2>1. job[r].todo \in Seq(Items) /\ job[r].todo # <<>>
    BY <1>0 DEF Agrees, Jobs
  <2> QED
    BY <2>1, IdsOfItems
<1>2. /\ job[r].task \in Created /\ job[r].made \subseteq Created \ {job[r].task}
      /\ Created \subseteq Tasks
  BY <1>0 DEF Agrees, Inv, TypeOK, Created
<1>3. CASE item.id \in Created
  <2> DEFINE j == [job[r] EXCEPT !.pc = "finish", !.todo = <<>>, !.made = {}]
  <2>1. job' = [job EXCEPT ![r] = j] /\ UNCHANGED <<table, ever, good>>
    BY <1>3 DEF Recover
  <2>2. <<>> \in Seq(Items)
    OBVIOUS
  <2>3. j \in Jobs
    BY <1>0, <2>2 DEF Jobs, JobPCs
  <2>4. Agrees(r, j) /\ Reserved(j) = {} /\ j.pc # "add"
    BY <1>0, <1>2, <2>3 DEF Agrees, Reserved, Jobs
  <2> HIDE DEF j
  <2> QED
    BY <1>0, <2>1, <2>3, <2>4, LocalsAreTyped, QuietStep
<1>4. CASE item.id \notin Created
  <2> DEFINE j == [job[r] EXCEPT !.pc = IF rest = <<>> THEN "finish" ELSE "recover",
                                 !.todo = rest, !.made = @ \cup {item.id}]
  <2>1. job' = [job EXCEPT ![r] = j] /\ AddTask(item)
    BY <1>4 DEF Recover
  <2>2. item.id \in Tasks
    BY <1>1 DEF Items
  <2>3. /\ j \in Jobs /\ j.pc \in {"finish", "recover"} /\ (j.pc = "recover" => rest # <<>>)
        /\ j.todo = rest /\ j.made = job[r].made \cup {item.id} /\ j.task = job[r].task
        /\ j.result = job[r].result
    BY <1>0, <1>1, <2>2 DEF Jobs, JobPCs
  <2>4. Created' = Created \cup {item.id}
    BY <1>0, <1>1, <1>4, <2>1, InsertionKeepsRan
  <2>5. Agrees(r, job[r])'
    <3>1. job'[r] = j
      BY <1>0, <2>1 DEF Inv, TypeOK
    <3>2. job[r].result \in AllReflections
      BY <1>0 DEF Agrees
    <3> HIDE DEF j
    <3> QED
      BY <1>2, <1>4, <2>3, <2>4, <3>1, <3>2 DEF Agrees
  <2>6. Reserved(job[r]) = IdsOf(job[r].todo) /\ Reserved(j) \subseteq IdsOf(rest)
    BY <1>0, <2>3 DEF Reserved
  <2>7. item.id \in Reserved(job[r]) /\ Reserved(j) \subseteq Reserved(job[r])
    BY <1>1, <2>6
  <2> HIDE DEF j
  <2> QED
    BY <1>0, <1>1, <1>4, <2>1, <2>3, <2>5, <2>7, InsertingStep
<1> QED
  BY <1>3, <1>4

\* A request draws an identifier, inserts its task and, at the end, closes the goal.
LEMMA RequestSteps ==
    ASSUME Inv, NEW q \in Requests, Focus(q) \/ AddRequest(q) \/ CloseRequest(q)
    PROVE  Inv'
<1> USE DEF At
<1>0. q \in Procs /\ job[q] \in Jobs /\ Agrees(q, job[q])
  BY LocalsAreTyped DEF Procs
<1>1. CASE Focus(q)
  <2> DEFINE j == [job[q] EXCEPT !.pc = "add", !.task = drawn + 1]
  <2>1. /\ UNCHANGED <<table, goal, graph, ever, good, ran, covered, faults>>
        /\ drawn' = drawn + 1 /\ drawn < MaxTasks /\ job[q].pc = "idle"
        /\ job' = [job EXCEPT ![q] = j]
    BY <1>1 DEF Focus, history
  <2>2. /\ drawn + 1 \in Tasks /\ drawn' \in drawn..MaxTasks
        /\ drawn + 1 \in (drawn + 1)..drawn'
    BY <2>1, GraphConstants DEF Inv, TypeOK, Tasks
  <2>3. j \in Jobs /\ j.pc = "add" /\ j.task = drawn + 1
    BY <1>0, <2>2 DEF Jobs, JobPCs
  <2>4. Agrees(q, j) /\ Reserved(j) = {drawn + 1}
    BY <2>2, <2>3 DEF Agrees, Reserved
  <2> HIDE DEF j
  <2> QED
    BY <1>0, <2>1, <2>2, <2>3, <2>4, LocalsAreTyped, QuietStep
<1>2. CASE AddRequest(q)
  <2> DEFINE item == [id |-> job[q].task, after |-> {}]
             j == [job[q] EXCEPT !.pc = "mark"]
  <2>1. /\ AddTask(item) /\ job' = [job EXCEPT ![q] = j] /\ job[q].pc = "add"
        /\ UNCHANGED <<goal, graph, drawn, ran, covered, faults>>
    BY <1>2 DEF AddRequest, Goto
  <2>2. item \in Items /\ item.id = job[q].task
    BY <1>0, <2>1 DEF Items, Agrees
  <2>3. item.id \notin Created /\ item.id \in Reserved(job[q])
    BY <1>0, <2>1, <2>2 DEF Inv, IdentifiersAreFresh, Reserved
  <2>4. j \in Jobs /\ j.pc = "mark" /\ j.task = job[q].task /\ Reserved(j) = {}
    BY <1>0 DEF Jobs, JobPCs, Reserved
  <2>5. Created' = Created \cup {item.id}
    BY <2>1, <2>2, <2>3, InsertionKeepsRan
  <2>6. Agrees(q, job[q])'
    <3>1. job'[q] = j
      BY <1>0, <2>1 DEF Inv, TypeOK
    <3> HIDE DEF j
    <3> QED
      BY <2>2, <2>4, <2>5, <3>1 DEF Agrees
  <2> HIDE DEF j, item
  <2> QED
    BY <1>0, <2>1, <2>2, <2>3, <2>4, <2>6, InsertingStep
<1>3. CASE CloseRequest(q)
  <2>1. /\ UNCHANGED <<table, graph, drawn, ever, good, ran, faults>>
        /\ covered' = {} /\ job' = [job EXCEPT ![q] = Over]
    BY <1>3 DEF CloseRequest
  <2>2. goal' \in GoalStatuses
    BY <1>3 DEF CloseRequest, GoalStatuses
  <2> QED
    BY <1>0, <2>1, <2>2, LocalsAreTyped, QuietStep DEF Over, Idle
<1> QED
  BY <1>1, <1>2, <1>3
\* An exception, or the death of a process.
LEMMA FaultStep ==
    ASSUME Inv, NEW p \in Procs, Abandon(p)
    PROVE  Inv'
<1> DEFINE j == IF p \in Runtimes THEN Idle ELSE Over
<1>1. /\ UNCHANGED <<table, goal, graph, drawn, ever, good, ran, covered>>
      /\ faults < MaxFaults /\ faults' = faults + 1 /\ job' = [job EXCEPT ![p] = j]
  BY DEF Abandon
<1>2. faults' \in 0..MaxFaults
  BY <1>1, GraphConstants DEF Inv, TypeOK
<1>3. j \in Jobs /\ Agrees(p, j) /\ Reserved(j) = {} /\ j.pc # "add"
  BY LocalsAreTyped DEF Idle, Over
<1> HIDE DEF j
<1> QED
  BY <1>1, <1>2, <1>3, LocalsAreTyped, QuietStep

\* Work on other goals, which only puts a task out of sight.
LEMMA ElsewhereStep ==
    ASSUME Inv, NEW o \in Others, UpdateElsewhere(o)
    PROVE  Inv'
<1>1. /\ UNCHANGED <<created, status, after, repairs, goal, graph, drawn, job>>
      /\ UNCHANGED <<ever, good, ran, covered, faults>>
  BY DEF UpdateElsewhere, history
<1>2. Created' = Created
  BY <1>1 DEF Created
<1>3. newer' \in [Tasks -> 0..Window]
  <2>1. PICK t \in InSight : newer' = [newer EXCEPT ![t] = Window]
    BY DEF UpdateElsewhere
  <2>2. Window \in 0..Window /\ newer \in [Tasks -> 0..Window]
    BY GraphConstants DEF Inv, TypeOK
  <2> QED
    BY <2>1, <2>2
<1>4. TypeOK'
  BY <1>1, <1>2, <1>3 DEF Inv, TypeOK
<1>5. LocalsAgree' /\ IdentifiersAreFresh'
  BY <1>1, <1>2 DEF Inv, LocalsAgree, Agrees, IdentifiersAreFresh, At
<1>6. TableAgrees' /\ DependenciesCameFirst' /\ RecoveringIsBacked' /\ CompletionIsEarned'
  BY <1>1, <1>2
  DEF Inv, TableAgrees, DependenciesCameFirst, RecoveringIsBacked, CompletionIsEarned,
      EffectivelyCompleted, Closed
<1> QED
  BY <1>4, <1>5, <1>6 DEF Inv

\* The tool inserts an item, or one that is there already and raises.
LEMMA WritingStep ==
    ASSUME Inv, WriteGraph
    PROVE  Inv'
<1> DEFINE item == Head(graph)
<1>1. /\ item \in Items /\ Tail(graph) \in Seq(Items)
      /\ item.id \in IdsOf(graph) /\ IdsOf(Tail(graph)) \subseteq IdsOf(graph)
  BY IdsOfItems DEF Inv, TypeOK, WriteGraph
<1>2. /\ UNCHANGED <<goal, drawn, job, ran, covered, faults>>
      /\ IdsOf(graph) \subseteq 1..drawn
      /\ goal = "completed" => covered \subseteq good
  BY LocalsAreTyped DEF WriteGraph, Inv, IdentifiersAreFresh, CompletionIsEarned
<1>3. CASE item.id \in Created
  <2>1. graph' = <<>> /\ UNCHANGED <<created, status, after, repairs, newer, ever, good>>
    BY <1>3 DEF WriteGraph, table
  <2>2. Created' = Created /\ IdsOf(graph') = {} /\ graph' \in Seq(Items)
    BY <2>1 DEF Created, IdsOf
  <2>3. TypeOK'
    BY <1>2, <2>1, <2>2 DEF Inv, TypeOK
  <2>4. LocalsAgree'
    BY <1>2, <2>1, <2>2 DEF Inv, LocalsAgree, Agrees
  <2>5. TableAgrees' /\ DependenciesCameFirst' /\ RecoveringIsBacked' /\ CompletionIsEarned'
    BY <1>2, <2>1, <2>2
    DEF Inv, TableAgrees, DependenciesCameFirst, RecoveringIsBacked, CompletionIsEarned,
        EffectivelyCompleted, Closed
  <2>6. IdentifiersAreFresh'
    BY <1>2, <2>2 DEF Inv, IdentifiersAreFresh, At
  <2> QED
    BY <2>3, <2>4, <2>5, <2>6 DEF Inv
<1>4. CASE item.id \notin Created
  <2>1. graph' = Tail(graph) /\ AddTask(item)
    BY <1>4 DEF WriteGraph
  <2>2. /\ Stored' /\ Grows /\ Created' = Created \cup {item.id}
        /\ RanAgrees' /\ ran' \in [Runtimes -> SUBSET Tasks]
    BY <1>1, <1>2, <1>4, <2>1, InsertionKeepsRan
  <2>3. TypeOK'
    BY <1>1, <1>2, <2>1, <2>2 DEF Inv, TypeOK, Stored
  <2>4. LocalsAgree'
    <3> SUFFICES ASSUME NEW p \in Procs PROVE Agrees(p, job[p])'
      BY DEF LocalsAgree, Procs
    <3>1. Agrees(p, job[p]) /\ job'[p] = job[p] /\ ran' = ran
      BY <1>2 DEF Inv, LocalsAgree
    <3> QED
      BY <2>2, <3>1 DEF Agrees, Grows
  <2>5. TableAgrees' /\ DependenciesCameFirst' /\ RecoveringIsBacked' /\ CompletionIsEarned'
    BY <1>2, <2>2 DEF TableAgrees, DependenciesCameFirst, CompletionIsEarned, RanAgrees,
                      Stored, Grows
  <2>6. IdentifiersAreFresh'
    <3>1. Created' \subseteq 1..drawn /\ Created' \subseteq Created \cup IdsOf(graph)
      BY <1>1, <1>2, <2>2 DEF Inv, IdentifiersAreFresh
    <3>2. IdsOf(graph') \subseteq IdsOf(graph) /\ drawn' = drawn /\ job' = job
      BY <1>1, <1>2, <2>1
    <3> QED
      BY <1>2, <3>1, <3>2 DEF Inv, IdentifiersAreFresh, At
  <2> QED
    BY <2>3, <2>4, <2>5, <2>6 DEF Inv, Stored
<1> QED
  BY <1>3, <1>4

-----------------------------------------------------------------------------
\* The initial tables satisfy the invariant.
LEMMA InvInit == Init => Inv
<1> SUFFICES ASSUME Init PROVE Inv
  OBVIOUS
<1>1. /\ created = <<>> /\ status = [t \in Tasks |-> None] /\ ran = [r \in Runtimes |-> {}]
      /\ after = [t \in Tasks |-> {}] /\ repairs = [t \in Tasks |-> {}]
      /\ newer = [t \in Tasks |-> Window]
      /\ goal = "active" /\ ever = {} /\ good = {} /\ covered = {} /\ faults = 0
      /\ graph \in Graphs /\ drawn = Cardinality(IdsOf(graph))
  BY DEF Init
<1>2. Created = {}
  BY <1>1 DEF Created
<1>3. /\ graph \in Seq(Items) /\ drawn \in Nat /\ IdsOf(graph) = 1..drawn
      /\ IdsOf(graph) \subseteq Tasks
  BY <1>1, IdsAreNumbered, IdsOfItems
<1>4. drawn \in 0..MaxTasks
  BY <1>3, GraphConstants DEF Tasks
<1>5. PICK team \in Teams : job = [p \in Procs |-> IF p \in team THEN Idle ELSE Over]
  BY DEF Init
<1>6. \A p \in Procs : job[p] = Idle \/ job[p] = Over
  BY <1>5
<1>7. <<>> \in Seq(Items) /\ <<>> \in Seq(Tasks)
  OBVIOUS
<1>8. Idle \in Jobs /\ Over \in Jobs
  BY <1>7 DEF Idle, Over, Jobs, JobPCs
<1>9. job \in [Procs -> Jobs]
  BY <1>5, <1>8
<1>10. TypeOK
  BY <1>1, <1>2, <1>3, <1>4, <1>7, <1>9, GraphConstants DEF TypeOK, GoalStatuses, Jobs, JobPCs
<1>11. LocalsAgree
  BY <1>6 DEF LocalsAgree, Agrees, Idle, Over
<1>12. EffectivelyCompleted(status, repairs) = {}
  <2>1. \A t \in Tasks : status[t] # "completed" /\ status[t] # "recovering"
    BY <1>1, GraphConstants DEF TaskStatuses
  <2>2. Closed({}, status, repairs)
    BY <2>1 DEF Closed
  <2> QED
    BY <2>2 DEF EffectivelyCompleted
<1>13. TableAgrees
  BY <1>1, <1>12, GraphConstants DEF TableAgrees, TaskStatuses
<1>14. IdentifiersAreFresh
  BY <1>2, <1>3, <1>6 DEF IdentifiersAreFresh, Reserved, At, Idle, Over
<1>15. DependenciesCameFirst /\ RecoveringIsBacked /\ CompletionIsEarned
  BY <1>1, <1>2 DEF DependenciesCameFirst, RecoveringIsBacked, CompletionIsEarned
<1> QED
  BY <1>10, <1>11, <1>13, <1>14, <1>15 DEF Inv

\* Stuttering.
LEMMA Stutter == Inv /\ UNCHANGED vars => Inv'
<1> SUFFICES ASSUME Inv, UNCHANGED vars PROVE Inv'
  OBVIOUS
<1>1. /\ UNCHANGED <<created, status, after, repairs, newer, goal, graph, drawn, job>>
      /\ UNCHANGED <<ever, good, ran, covered, faults>>
  BY DEF vars, table, history
<1>2. Created' = Created
  BY <1>1 DEF Created
<1>3. TypeOK' /\ LocalsAgree' /\ IdentifiersAreFresh'
  BY <1>1, <1>2 DEF Inv, TypeOK, LocalsAgree, Agrees, IdentifiersAreFresh, At
<1>4. TableAgrees' /\ DependenciesCameFirst' /\ RecoveringIsBacked' /\ CompletionIsEarned'
  BY <1>1, <1>2
  DEF Inv, TableAgrees, DependenciesCameFirst, RecoveringIsBacked, CompletionIsEarned,
      EffectivelyCompleted, Closed
<1> QED
  BY <1>3, <1>4 DEF Inv

\* Every step keeps the invariant.
LEMMA InvStep == Inv /\ [Next]_vars => Inv'
<1> SUFFICES ASSUME Inv, [Next]_vars PROVE Inv'
  OBVIOUS
<1>1. ASSUME NEW r \in Runtimes, CycleStep(r) \/ Abandon(r) PROVE Inv'
  BY <1>1, ChoosingSteps, StartStep, RunStep, RecoverStep, UpdateSteps, GoalSteps, FaultStep
  DEF CycleStep, Procs
<1>2. ASSUME NEW q \in Requests, Focus(q) \/ RequestStep(q) \/ Abandon(q) PROVE Inv'
  BY <1>2, RequestSteps, UpdateSteps, FaultStep DEF RequestStep, Procs
<1> QED
  BY <1>1, <1>2, WritingStep, ElsewhereStep, Stutter DEF Next

-----------------------------------------------------------------------------
(* The theorems. *)

\* What every process believes of the tables is always true.
THEOREM InvHolds == Spec => []Inv
  BY InvInit, InvStep, PTL DEF Spec

\* Every column and every local stays in its range.
THEOREM TypeCorrect == Spec => []TypeOK
  BY InvHolds, PTL DEF Inv

\* However many runtimes and requests race, a task is started only behind the
\* completion of its dependencies (goals.py, ready_tasks).
THEOREM DependenciesFirst == Spec => []DependenciesCameFirst
  BY InvHolds, PTL DEF Inv

\* No runtime starts a task twice (autonomous.py, _execute_task).
THEOREM TasksStartOnce == Spec => []StartsOnce
<1>1. Inv => StartsOnce
  BY DEF Inv, LocalsAgree, Agrees, StartsOnce, At, Procs
<1> QED
  BY <1>1, InvHolds, PTL

\* Both together (autonomous.py, run_once).
THEOREM StartsAreInTurn == Spec => []TasksStartInTurn
  BY DependenciesFirst, TasksStartOnce, PTL DEF TasksStartInTurn

\* A task in recovery has repairs, and they are in the table (recovery.py,
\* _apply_proposal; autonomous.py, _execute_task).
THEOREM RecoveriesAreBacked == Spec => []RecoveringIsBacked
  BY InvHolds, PTL DEF Inv

\* A cycle completes the goal only over tasks that were completed or repaired
\* (goals.py, goal_is_terminal).
THEOREM CompletionsAreEarned == Spec => []CompletionIsEarned
  BY InvHolds, PTL DEF Inv
=============================================================================
