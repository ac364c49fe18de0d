SPECIFICATION Spec
CONSTANTS
  NP = 7
  NB = 3
  Coordinates = {}
  Points <- MCPoints
  Buckets <- MCBuckets
  Origin <- MCOrigin
  Inf <- MCInf
  Clouds <- JobClouds
  Reload <- ReloadMixed
  BucketOf <- MCBucketOf
  LastBucket <- MCLastBucket
  Dist <- MCDist
  Gap <- MCGap
  SampleCounts = {0, 1, 2, 6}
  FirstPoints = {0}
  MB_CAP = 2
  FIFO_DEPTH = 1
  L = 2
INVARIANTS FrozenReferences QuietWhenNotBusy ReturnsMatchIssues MergeNeverOverflows
PROPERTIES JobCompletes ExactSampling
