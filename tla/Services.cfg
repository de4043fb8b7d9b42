SPECIFICATION ServicesSpec
CONSTANTS
  t1 = t1
  t2 = t2
  h1 = h1
  Ticks = {t1, t2}
  Hooks = {h1}
  Groups <- AllGroups
  Keys = {k1, k2}
  HookKeys = {k2}
  Silent = Silent
  Torn = Torn
  Limit = 2
  MaxUpdates = 2
  MaxFaults = 1
  Listers = {l1, l2}
  MaxPauses = 2
  Runners = {r1, r2}
  Sigs = {s1}
  Junk = Junk
  Private = Private
  Poison = Poison
  Contents = {s1, Junk, Private, Poison}
  Broken = Broken
  MaxRead = 1
  MaxStored = 1
  RateLimit = 1
  MaxKept = 1
  MaxLines = 2
  MaxMinutes = 0
  MaxBreaks = 1
INVARIANTS
  ServicesTypeOK
  SettledIsTrue
PROPERTIES
  ImplementsContract
  BlockedForGood
  UpdatesAreHandled
  OutcomeReachesChat
  LinesAreJudged
CHECK_DEADLOCK FALSE
