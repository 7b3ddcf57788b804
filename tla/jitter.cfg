SPECIFICATION FairSpec
CONSTANTS
  Cushion = 3
  MaxConceal = 2
  MaxQueued = 4
  CueChunks = 2
  MaxFrames = 6
  MaxFlight = 3
  MaxCues = 1
  MaxLosses = 1
  MaxOvertakes = 1
INVARIANTS TypeOK NoSmear
PROPERTIES InOrder FallsSilent NothingStuck CuePlayed
