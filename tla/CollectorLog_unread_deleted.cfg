SPECIFICATION Spec
CONSTANTS
  Consumers = {"ui_stream", "janus", "attention_batch"}
  Kind <- OtherKinds
  Order <- OtherOrder
  Optional = {"attention_batch"}
  Ticks = {t1}
  Bare = {}
  MaxAttempts = 2
  BatchLimit = 2
  Retain = 2
  MaxEvents = 3
  MaxSequence = 3
  MaxFaults = 0
INVARIANTS
  NothingUnreadIsDeleted
