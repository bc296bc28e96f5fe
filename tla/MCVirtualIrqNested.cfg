CONSTANTS
  Setups <- NestingSetups
  MaxRaises = 1
SPECIFICATION Spec
INVARIANTS NotOursIsEnded
