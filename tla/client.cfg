SPECIFICATION FairSpec
CONSTANTS
  Sockets = {1, 2}
  Uids = {"nickname", "steam"}
  HandshakeRetries = 2
  HandshakeTimeout = 1
  PingInterval = 1
  ServerTimeout = 2
  RelayTimeout = 3
  MaxPacketsPerPump = 2
  MaxPlaces = 2
  Slots = {1, 2, 3, 4}
  Wishes <- SomeSettings
  MaxDisturbances = 2
INVARIANTS TypeOK ConnectedMeansAccepted
PROPERTIES KeepsPinging LeftoversGo Converges
