SPECIFICATION Spec
CONSTANTS
  EXP_BITS = 3
  FRAC_BITS = 2
  Coordinates <- MCCoordinates
  Queries <- MCQueries
INVARIANTS
  PruningExact
CHECK_DEADLOCK FALSE
