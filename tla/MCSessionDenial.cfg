\* Two concurrent handlers of one user, and an organization.
SPECIFICATION FairControlSpec
CONSTANTS
  Users = {u1}
  Fids = {f1}
  Devices = {d1}
  Orgs = {o1}
  Txs = {p1, p2}
  None = None
  MaxActive = 1
  IdleTimeout = 1
  SessionTTL = 1
  FamilyTTL = 1
  AccessTTL = 2
  MaxTime = 1
  MaxLag = 0
  MaxTokens = 2
  MaxJti = 3
  MaxLogins = 1
  MaxFailures = 0
INVARIANTS
  DeadTokensAreDenied
PROPERTIES
  RevocationReachesGateway
CHECK_DEADLOCK FALSE
