SPECIFICATION FairSpec
CONSTANTS
  Consumers = {"ui_stream", "janus", "attention_batch"}
  Kind <- OtherKinds
  Order <- OtherOrder
  Optional = {"attention_batch"}
  Ticks = {t1}
  Bare = {}
  MaxAttempts = 2
  BatchLimit = 2
  Retain = 1
  MaxEvents = 1
  MaxSequence = 2
  MaxFaults = 1
INVARIANTS
  SettledOnceAndKept
PROPERTIES
  OnlyNewcomersMiss
  EventsAreReached
