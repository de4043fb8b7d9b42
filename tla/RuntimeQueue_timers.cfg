SPECIFICATION TimersSpec
CONSTANTS
  Runtimes = {r1, r2}
  Evaluators = {p1, p2}
  Wakeups = {w1}
  Triggers = {x1}
  MaxFires <- TwiceEach
  Pushed <- UserEvents
  MaxSubmits = 1
  MaxEvents = 8
  MaxFaults = 1
  None = None
INVARIANTS
  FiredIsPushed
  FiringsAreBounded
  LossIsBounded
SYMMETRY Symmetric
