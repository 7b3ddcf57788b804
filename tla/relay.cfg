SPECIFICATION Spec
CONSTANTS
  Uids = {u1, u2, u3}
  EndPoints = {e1, e2}
  MaxClients = 2
  Timeout = 1
  MaxSessionId = 3
SYMMETRY Symmetry
INVARIANTS TypeOK CapacityBound IndexesSound PeersAnnounced
PROPERTIES RegistryContract SweepLeavesNoStale
