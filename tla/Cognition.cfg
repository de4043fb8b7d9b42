SPECIFICATION CognitionSpec
CONSTANTS
  Runtimes = {r1, r2}
  Evaluators = {}
  Wakeups = {w1}
  Triggers = {}
  MaxFires <- TwiceEach
  Pushed <- UserEvents
  MaxSubmits = 3
  MaxEvents = 4
  MaxFaults = 0
  None = None
  Correctors = {q1, q2}
  Memories = {c1}
  Later = {"later"}
  Invalid = {"private", "archived"}
  MaxCorrections = 3
  MaxStops = 1
  Executors = {e1, e2}
  MaxAsked = 2
  MaxApproved = 2
  MaxDeaths = 1
INVARIANTS
  CognitionTypeOK
  RunsOnce
  PauseBoundsWork
  KnowledgeFollows
  RefusalStays
  DivesAreBacked
PROPERTIES
  EventsAreTaken
CHECK_DEADLOCK FALSE
