SPECIFICATION Spec
CONSTANTS
  Data = {w1, w2, w3}
  DEPTH = 4
PROPERTIES ImplementsQueue
