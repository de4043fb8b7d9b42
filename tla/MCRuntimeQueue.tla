---------------------------- MODULE MCRuntimeQueue ----------------------------
(* RuntimeQueue with the constants TLC needs. *)
EXTENDS RuntimeQueue, TLC

Event(kind, priority) == [kind |-> kind, priority |-> priority, from |-> None]

\* A request of a user, a PAUSE, an urgent control event and one of another type.
UserEvents == {Event("request", "normal"), Event("pause", "normal"),
               Event("control", "critical"), Event("other", "normal")}

TwiceEach == [t \in Triggers |-> 2]

\* The wakeups or the triggers or both have been cancelled, so that a behaviour is about
\* the others, or about one event that a user pushes: they meet in the queue alone.
\* Beside the others the user's event is over.
TimersInit ==
    LET scheduled == wakeup = [w \in Wakeups |-> None]
        withdrawn == wakeup = [w \in Wakeups |-> "cancelled"]
        created   == trigger = [t \in Triggers |-> None]
        removed   == trigger = [t \in Triggers |-> "cancelled"]
    IN
    /\ \/ /\ queue = <<>> /\ consumed = {} /\ withdrawn /\ removed
       \/ /\ queue = <<Event("control", "critical")>> /\ consumed = {1}
          /\ \/ scheduled /\ removed
             \/ withdrawn /\ created
    /\ recorded = {} /\ due = {}
    /\ firedBy = [w \in Wakeups |-> 0] /\ fireCount = [t \in Triggers |-> 0]
    /\ cycle = [r \in Runtimes |-> NoCycle] /\ eval = [p \in Evaluators |-> NoEval]
    /\ runs = [e \in Events |-> 0] /\ overtaken = [r \in Runtimes |-> 0] /\ faults = 0
TimersSpec == TimersInit /\ [][Next]_vars

\* Runtimes and evaluations are told apart by their names alone.
Symmetric == Permutations(Runtimes) \cup Permutations(Evaluators)
===============================================================================
