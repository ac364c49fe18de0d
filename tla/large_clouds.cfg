SPECIFICATION Spec
CONSTANTS
  NP = 9
  Points <- MCPoints
  Buckets <- MCBuckets
  Inf <- MCInf
  Inputs <- MCInputs
  Targets <- MCTargets
  Clouds <- MCClouds
  BucketOf <- MCBucketOf
  LastBucket <- MCLastBucket
  Dist <- MCDist
  Gap <- MCGap
  Buffering <- MCBuffering
  SampleCounts = {1, 7}
  FirstSamples = {0, 5}
  NUMP_W = 4
  PIDX_W = 2
  CD_LATENCY = 2
  READ_LATENCY = 1
  WRITE_LATENCY = 2
  FIFO_DEPTH = 1
  MERGE_CAP = 2
  CHUNK_POINTS = 1
  PE_ROWS = 4
  PE_COLS = 2
  PE_CELL = 1
  MERGE_LOAD = 1
  OVERHEAD = 1
  IO_PIPELINE = 1
  COORD_BYTES = 3
  DIST_BYTES = 1
  COORD_BASE = 0
  DIST_BASE = 27
  MAX_CYCLES = 600
  DMA_CHANNELS = 2
  DMA_COMMAND = 1
  TRANSACTION = 4
  CHANNELS = 1
  BANKS = 2
  ROW_BYTES = 8
  BURST_BYTES = 4
  T_RCD = 2
  T_CL = 2
  T_RP = 1
  T_BURST = 1
  WRITE_RECOVERY = 1
  READ_TO_WRITE = 2
  WRITE_TO_READ = 1
  ReadScale <- MCReadScale
  WriteScale <- MCWriteScale
INVARIANT EveryImageLoads
