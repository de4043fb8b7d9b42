SPECIFICATION Spec
CONSTANTS
  Runs = {r1}
  Handlers = {h1, h2}
  Preapproved = {}
  ModelPlanned = {r1}
  Kinds = {"open", "guarded", "selfGated", "blocked", "broken"}
  Inputs = {i1}
  MaxRuns = 1
  MaxTurns = 2
  MaxSteps = 1
  MaxFaults = 1
  None = None
INVARIANTS
  TypeOK
  RecordsAreBacked
  CancelBoundsWork
PROPERTIES
  ImplementsContract
CHECK_DEADLOCK FALSE
