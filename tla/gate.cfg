SPECIFICATION GateFairSpec
CONSTANTS
  Frequencies = {f1, f2}
  Hangover = 2
  MaxCalls = 5
INVARIANTS GateTypeOK NoHotMic LastQueuedWins
PROPERTY BlockEndsTalkspurt
