----------------------------- MODULE MCTaskGraph -----------------------------
(* TaskGraph with the constants TLC needs. *)
EXTENDS TaskGraph

\* Two runtimes; or one (it does not matter which) and a request or other goals.
Pairs == LET some == CHOOSE r \in Runtimes : TRUE
         IN  {Runtimes} \cup {{some, p} : p \in Requests \cup Others}
All == {Runtimes \cup Requests}

Item(id, deps) == [id |-> id, after |-> deps]

\* A task; a chain; a pair that waits for one another; an identifier that comes
\* twice.
ManyGraphs == {<<Item(1, {})>>,
               <<Item(1, {}), Item(2, {1})>>,
               <<Item(1, {2}), Item(2, {1})>>,
               <<Item(1, {}), Item(1, {}), Item(2, {1})>>}
Chain == {<<Item(1, {}), Item(2, {1})>>}

\* One repair; two, the first of which waits for the second; one that waits for
\* another that is not inserted, given twice.
ManyRepairs == {<<Item(1, {})>>, <<Item(1, {2}), Item(2, {})>>, <<Item(1, {2}), Item(1, {})>>}
OneRepair == {<<Item(1, {})>>}
=============================================================================
