CONSTANTS
  Setups <- OneSetup
  MaxRaises = 0
SPECIFICATION Spec
INVARIANTS RoutingRestored
