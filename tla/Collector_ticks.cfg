SPECIFICATION TicksSpec
CONSTANTS
  Consumers = {"memory", "janus"}
  Kind <- CopyingKind
  Order <- CopyingOrder
  Optional = {}
  t1 = t1
  t2 = t2
  t3 = t3
  Ticks = {t1, t2, t3}
  Bare = {t3}
  MaxAttempts = 2
  BatchLimit = 2
  Retain = 1
  MaxEvents = 2
  MaxSequence = 3
  MaxFaults = 1
  Runners = {r1, r2}
  Sigs = {s1, s2}
  Junk = Junk
  Private = Private
  Poison = Poison
  Contents = {s1, s2, Poison}
  Broken = Broken
  MaxRead = 2
  MaxStored = 2
  RateLimit = 1
  MaxKept = 1
  MaxLines = 3
  MaxMinutes = 2
  MaxBreaks = 1
  Requests = {q1, q2}
  Providers = {p1, p2}
  Spoilt = Spoilt
  MaxPrepared = 2
  MaxIssued = 2
  MaxCalls = 3
  MaxKills = 1
INVARIANTS
  TicksTypeOK
  SettlingIsEarned
  LinesAreAccountedFor
  GatesHold
  ConnectionsAreTrue
PROPERTIES
  PoisonHoldsForGood
  ImplementsContract
CHECK_DEADLOCK FALSE
SYMMETRY Symmetric
