SPECIFICATION Spec
CONSTANTS
  Exercised = {"share"}
  Nil = Nil
  converter = converter
  rechunk = rechunk
  Content = {"r1"}
  Worker = {"w1", "w2"}
  Text = {"x1", "x2"}
  Blob = {"b1"}
  BlobOf <- ArtifactBlob
  SweepPolicy = {"web"}
  Matches <- ArtifactMatches
  DefaultPolicy = converter
  RechunkSweep = rechunk
  NoValue = Nil
  MaxAttempts = 2
  MaxFaults = 1
  Key = {"k1", "k2", "k3"}
  BlobRow = {"b1"}
  Compactor = {"p1", "p2"}
  Collector = {"g1"}
  Reader = {"q1"}
  NoKey = Nil
  MaxLevel = 2
  MaxStoreFaults = 1
  MaxSlow = 1
  Grants = {"g1", "g2", "g3"}
  Puts = {"p1", "p2"}
  Uris = {}
  Users = {"u1", "u2"}
  Scopes = {"s1"}
  Owner <- UploadOwners
  Target <- UploadScope
  Size <- UploadSizes
  Cap = 1
  Ttl = 1
  Limit = 3
  LastTick = 2
  Transactions = {"t1", "t2", "t3", "t4"}
  LockKey <- LockKeys
  Rank <- LockRank
  Calls <- LockCalls
PROPERTIES NewerStands
CHECK_DEADLOCK FALSE
