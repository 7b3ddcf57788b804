SPECIFICATION FairSpec
CONSTANTS
  hifi = hifi
  headset = headset
  exotic = exotic
  Devices = {hifi, headset, exotic}
  Rate <- Rates
  Base = 3
  Exotic = {exotic}
  FrameSamples = 2
  ChunkFrames = 2
  MaxBlock = 3
  MaxSamples = 20
  MaxChanges = 4
  NoDevice = none
PROPERTY Reopens
CHECK_DEADLOCK FALSE
