SPECIFICATION DspSpec
CONSTANTS
  DSPVER = 1024
  IRQ = 7
  DMA = 1
  HDMA = 5
  MixerIdx <- TransferRegs
  FixTC = FALSE
  Writes <- ProtocolWrites
  ClientRegs <- NoRegs
  MixerVals <- NoRegs
  MaxSamples = 1
  MaxFetch = 2
  CopyrightLen = 2
  MaxDirect = 1
  DetectLimit = 1
INVARIANTS
  DspTypeOK
  CommandPhase
