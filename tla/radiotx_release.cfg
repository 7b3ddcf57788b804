SPECIFICATION FairSpec
CONSTANTS
  Channels = {c1}
  Refresh = 8
  Expiry = 23
  InactiveRepeats = 2
  MaxChanges = 2
  MaxFaults = 0
PROPERTY ReleaseIsCrisp
