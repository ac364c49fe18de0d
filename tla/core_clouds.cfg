SPECIFICATION Spec
CONSTANTS
  NP = 4
  NB = 2
  Coordinates = {0, 4, 7, 9}
  Points <- MCPoints
  Buckets <- MCBuckets
  Origin <- MCOrigin
  Inf <- MCInf
  Clouds <- AllClouds
  Reload <- ReloadSame
  BucketOf <- MCBucketOf
  LastBucket <- MCLastBucket
  Dist <- MCDist
  Gap <- MCGap
  SampleCounts = {4}
  FirstPoints = {0}
  MB_CAP = 1
  FIFO_DEPTH = 1
  L = 1
INVARIANTS TypeOK SummariesExact
PROPERTIES ExactSampling
