SPECIFICATION Spec
CONSTANTS
  PointCounts = {0, 1, 4, 5, 8}
  CHUNK_POINTS = 2
  COORD_BYTES = 3
  DIST_BYTES = 1
  Requests <- MCRequests
INVARIANTS TypeOK ChunksInOrder
PROPERTIES ImplementsStream
