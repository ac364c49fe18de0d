SPECIFICATION Spec
CONSTANTS
  NP = 7
  NB = 3
  Coordinates = {}
  Points <- MCPoints
  Buckets <- MCBuckets
  Inf <- MCInf
  Clouds <- AllLines
  Reload <- ReloadSame
  BucketOf <- MCBucketOf
  LastBucket <- MCLastBucket
  Dist <- MCDist
  Gap <- MCGap
  SampleCounts = {1, 6}
  FirstSamples = {3}
  CD_LATENCY = 2
  ISSUE_II = 2
  DECISION_DEPTH = 2
  MERGE_CAP = 2
  READ_LATENCY = 2
  WRITE_LATENCY = 5
  CHUNK_POINTS = 1
  BUCKET_DEPTH = 1
  FAR_DEPTH = 1
INVARIANTS OutstandingExact DecisionsStand FarPointsExact
PROPERTIES RunEnds ExactSampling
