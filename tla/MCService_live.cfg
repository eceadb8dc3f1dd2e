SPECIFICATION LiveSpec
CONSTANTS
  Exercised = {"queue", "recovery", "schedules", "transactions", "quota", "fresh",
               "edited"}
  MaxRows = 2
  Worker = {"w1", "w2"}
  Entrypoint = {"chunk", "artifact", "unknown"}
  Registered = {"chunk", "artifact"}
  Priority <- QueuePriority
  SlotLimit <- QueueSlots
  Request <- QueueRequests
  BatchSize = 2
  MaxAttempts = 2
  RequeueLimit = 1
  RecoveryJob = "chunk"
  MaxCycles = 3
  MaxRequeues = 1
  MaxCrashes = 1
  MaxStalls = 0
  SlotKey = "k1"
  Users = {"u1", "u2"}
  System = System
  MeteredCalls = {"c1", "c2", "c3"}
  UserOf <- QuotaUser
  ClassOf <- QuotaClass
  Cost <- QuotaCost
  Total <- QuotaTotal
  PerUser <- QuotaPerUser
  NoLimit = NoLimit
  Attempts = 2
  Months = 1
  Tasks = {"t1", "t2"}
  Connections = {"k1", "k2"}
  Callers = {"ada", "ben"}
  MaxDepth = 2
  Null = Null
PROPERTIES Settles PassesRecur ServiceProceeds
CHECK_DEADLOCK FALSE
