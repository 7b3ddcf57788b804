SPECIFICATION FairSpec
CONSTANTS
  Keys <- Address
  Values = {v1, v2}
  NoValue = none
  AskAgain = 2
  Grace = 3
  MaxEvents = 3
INVARIANT TypeOK
PROPERTIES SettingsConverge HintMeansDown
