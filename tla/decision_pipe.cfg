SPECIFICATION Spec
CONSTANTS
  Items <- MCItems
  Bubble = Bubble
  FIFO_DEPTH = 4
INVARIANTS CreditExact
PROPERTIES ImplementsQueue Unblocked
