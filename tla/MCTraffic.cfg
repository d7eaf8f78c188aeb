SPECIFICATION Spec
CONSTANTS
  Caller = {c1, c2}
  Interval = 2
  MaxU64 = 7
  MaxTime = 4
  Requester = {q1, q2}
  Host = {h1, h2}
  MaxRedirects = 1
  MaxEntries = 1
  CacheModes = {"off", "ttl", "forever"}
  Recorder = {u1, u2}
  Metric = {m1, m2}
  Tag = {t1}
  NumShards = 2
  QueueCap = 1
  MaxSeries = 1
  RingCap = 2
  MaxBatch = 2
  Batches = 1
  MaxDen = 5
  MaxSegments = 3
  MaxArrivals = 6
  MaxWork = 7
  Peer = {a1, a2, a3}
  NumAgents = 2
  Iterations = {1}
  TokenHolders = {{a1, a2}}
  MaxProgress = 1
  MaxFrames = 1
  NoPeer = noPeer
INVARIANTS TrafficTypeOK SlotsSpaced CacheBounded ChainIsBounded ResultsAreWhole
  StreamAccounted StripesPartition SharesSum MergedIsWhole FinalShipped
PROPERTIES RunFinishes ControllerEnds
CHECK_DEADLOCK FALSE
