SPECIFICATION Spec
CONSTANTS
  Size = 4
  MaxSample = 7
  Forced = FALSE
  Masked = FALSE
INVARIANTS TypeOK HoldsNewest FreshInOrder NoLoss
PROPERTIES PopTakesOne ImplementsQueue
