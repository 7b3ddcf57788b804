SPECIFICATION FairSpec
CONSTANTS
  People = {a}
  MaxSession = 3
  MaxQueue = 2
  MaxEvents = 4
INVARIANTS TypeOK OnlySnapshotAudible RosterHasSources SourcesFollowRelay
PROPERTY PeersFound
