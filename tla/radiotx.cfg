SPECIFICATION FairSpec
CONSTANTS
  Channels = {c1, c2}
  Refresh = 8
  Expiry = 23
  InactiveRepeats = 2
  MaxChanges = 3
  MaxFaults = 2
INVARIANTS TypeOK TalkingBounded
PROPERTIES NoDropout CueAtStart Agreement
