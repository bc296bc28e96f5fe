SPECIFICATION IsrSpec
CONSTANTS
  DSPVER = 1024
  IRQ = 7
  DMA = 1
  HDMA = 5
  MixerIdx <- IsrRegs
  FixTC = FALSE
  Writes <- IsrWrites
  ClientRegs <- Nothing
  MixerVals <- Nothing
  MaxSamples = 65535
  MaxFetch = 200
  CopyrightLen = 44
  MaxDirect = 4
  DetectLimit = 3
  Base = 256
  Channels = {1, 5}
  Drivers <- PlayingDrivers
  Spaces = {0, 10, 25, 50}
  DetectBytes = 32
INVARIANTS
  IsrTypeOK
  InStep
  FetchInBuffer
  BlockExact
  PassAdvances
PROPERTIES
  WellProgrammed
  BlockEnds
  TriggerServed
