SPECIFICATION DspSpec
CONSTANTS
  DSPVER = 1024
  IRQ = 7
  DMA = 1
  HDMA = 5
  MixerIdx <- MixerRegsKept
  FixTC = FALSE
  Writes <- RateWrites
  ClientRegs <- MixerClientRegs
  MixerVals <- MixerClientVals
  MaxSamples = 0
  MaxFetch = 1
  CopyrightLen = 1
  MaxDirect = 0
  DetectLimit = 1
INVARIANTS
  HighSpeedRate
PROPERTIES
  SidesIndependent
