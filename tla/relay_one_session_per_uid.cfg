SPECIFICATION Spec
CONSTANTS
  Uids = {u1, u2}
  EndPoints = {e1, e2}
  MaxClients = 2
  Timeout = 1
  MaxSessionId = 4
INVARIANT OneSessionPerUid
