SPECIFICATION FairSpec
CONSTANTS
  Me = Me
  Off = Off
  a = a
  b = b
  Others = {a, b}
  Reports <- MCReports
  Transmissions <- MCTransmissions
  Tunings <- MCTunings
  SpeakerLists <- MCSpeakerLists
  Towers = {"mast"}
  Configs <- MCConfigs
  Classes = {"backpack"}
  ClientExpiry = 2
  TxExpiry = 1
  MaxCalls = 5
INVARIANTS
  TypeOK
PROPERTIES
  DuckingFollows
  FallsQuiet
