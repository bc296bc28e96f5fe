CONSTANTS
  Setups <- WorkingSetups
  MaxRaises = 2
SPECIFICATION Spec
INVARIANTS VirtualIrqTypeOK ServiceIsHandlers ServedAlone Restored ClientReached
PROPERTIES CardServed ClientSeesItsLine
