SPECIFICATION DspSpec
CONSTANTS
  DSPVER = 770
  IRQ = 7
  DMA = 1
  HDMA = 1
  MixerIdx <- TransferRegs
  FixTC = FALSE
  Writes <- TransferWrites
  ClientRegs <- StereoSwitch
  MixerVals <- StereoVals
  MaxSamples = 2
  MaxFetch = 2
  CopyrightLen = 1
  MaxDirect = 0
  DetectLimit = 2
INVARIANTS
  HighSpeedSafe
PROPERTIES
  StartRewinds
