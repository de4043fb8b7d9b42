SPECIFICATION Spec
CONSTANTS
  Runs = {r1}
  Handlers = {h1, h2}
  Preapproved = {}
  ModelPlanned = {r1}
  Kinds = {"open", "guarded"}
  Inputs = {i1}
  MaxRuns = 1
  MaxTurns = 2
  MaxSteps = 2
  MaxFaults = 0
  None = None
INVARIANTS
  ApprovedAtMostOnce
CHECK_DEADLOCK FALSE
