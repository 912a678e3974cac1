SPECIFICATION Spec
CONSTANTS
  Size = 4
  MaxSample = 7
  Forced = TRUE
  Masked = TRUE
PROPERTIES PopTakesOne ImplementsQueue
