SPECIFICATION Spec
CONSTANTS
  L = 4
  R = 4
  PE_STAGES = 5
  LOCAL_INDICES = 16
  DEPTH = 17
  Counts = {0, 1, 3, 4, 5, 9, 16}
  MAX_AGE = 100
  Workloads <- MCWorkloads
  Reloads <- MCReloads
  Origin <- MCOrigin
  NoRef <- MCNoRef
  Dist <- MCDist
  Inf <- MCInf
  MERGE_LOAD = 4
  PE_CELL = 5
  OVERHEAD = 2
  IO_PIPELINE = 1
INVARIANTS
  DistancesExact
  ReturnExact
  LatencyAsModelled
PROPERTY
  TaskAnswered
