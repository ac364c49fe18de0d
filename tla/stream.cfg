SPECIFICATION Spec
CONSTANTS
  PointCounts = {0, 3, 9}
  Bases = {6}
  CHUNK_POINTS = 4
  COORD_BYTES = 3
  DIST_BYTES = 1
  PAGE = 8
  BUS_BYTES = 2
  MAX_BURST_BEATS = 3
  MAX_MISTAKES = 1
  DistAddresses = {2, 3, 4, 5, 6, 7, 8, 9, 10, 11, 12, 13, 14, 15, 16, 17, 18, 19, 20}
  Requests <- MCRequests
INVARIANTS ComputesItsChunk EachDistanceUpdatedOnce BurstsFit FaultsFlagged
PROPERTIES ControllerContract BucketFinishes
