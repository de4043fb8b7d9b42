SPECIFICATION FairSpec
CONSTANTS
  Runtimes = {r1}
  Requests = {}
  Others = {}
  Teams <- All
  Graphs <- Chain
  Repairs <- OneRepair
  Reflections = {"passed", "failed"}
  Window = 3
  MaxTasks = 3
  MaxFaults = 0
  None = None
PROPERTIES
  GoalsContinue
CHECK_DEADLOCK FALSE
