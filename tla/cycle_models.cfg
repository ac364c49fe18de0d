SPECIFICATION Spec
CONSTANTS
  NP = 7
  NB = 3
  Coordinates = {}
  Points <- MCPoints
  Buckets <- MCBuckets
  Inf <- MCInf
  Clouds <- AllLines
  Reload <- ReloadSame
  BucketOf <- MCBucketOf
  LastBucket <- MCLastBucket
  Dist <- MCDist
  Gap <- MCGap
  Setups <- ModelsFor
  SampleCounts = {1, 6}
  FirstSamples = {3}
  CD_LATENCY = 2
  ISSUE_II = 2
  DECISION_DEPTH = 2
  MERGE_CAP = 2
  GENERATOR_CAP = 1
  READ_LATENCY = 1
  WRITE_LATENCY = 2
  CHUNK_POINTS = 1
  BUCKET_DEPTH = 1
  FAR_DEPTH = 1
  COORD_BASE = 0
  DIST_BASE = 24
  COORD_BYTES = 3
  DIST_BYTES = 1
  DMA_CHANNELS = 2
  DMA_COMMAND = 1
  OUTSTANDING = 2
  BUFFER_READ = 1
  BUFFER_WRITE = 2
  PE_ROWS = 4
  PE_COLS = 4
  MERGE_LOAD = 1
  ROW_LATENCY = 4
  OVERHEAD = 2
  TRANSACTION = 4
  CHANNELS = 1
  BANKS = 2
  ROW_BYTES = 8
  QUEUE_DEPTH = 3
  T_RCD = 2
  T_CL = 2
  T_RP = 1
  T_BURST = 1
  WRITE_RECOVERY = 1
  READ_ROOM = 2
  WRITE_ROOM = 1
  PERIOD = 2
  TCK = 3
PROPERTIES NothingLost ImplementsClosedLoop RunEnds ExactSampling
