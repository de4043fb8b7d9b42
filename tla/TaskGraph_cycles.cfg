SPECIFICATION FairSpec
CONSTANTS
  Runtimes = {r1, r2}
  Requests = {q1}
  Others = {others}
  Teams <- Pairs
  Graphs <- ManyGraphs
  Repairs <- ManyRepairs
  Reflections = {"passed", "failed"}
  Window = 2
  MaxTasks = 3
  MaxFaults = 1
  None = None
INVARIANTS
  TypeOK
  TasksStartInTurn
  RecoveringIsBacked
  CompletionIsEarned
PROPERTIES
  OnlyUnfinishedWorkStalls
  GoalIsDecided
CHECK_DEADLOCK FALSE
