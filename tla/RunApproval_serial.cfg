SPECIFICATION FairSpec
CONSTANTS
  Runs = {r1, r2}
  Handlers = {h1}
  Preapproved = {r2}
  ModelPlanned = {r1}
  Kinds = {"open", "guarded"}
  Inputs = {i1, i2}
  MaxRuns = 1
  MaxTurns = 3
  MaxSteps = 2
  MaxFaults = 0
  None = None
INVARIANTS
  ApprovalTellsAll
PROPERTIES
  RunSettles
  CancelTakesEffect
CHECK_DEADLOCK FALSE
