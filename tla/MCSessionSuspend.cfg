\* A creation and a suspension of one user.
SPECIFICATION ControlSpec
CONSTANTS
  Users = {u1}
  Fids = {f1}
  Devices = {d1}
  Orgs = {}
  Txs = {p1, p2}
  None = None
  MaxActive = 1
  IdleTimeout = 1
  SessionTTL = 1
  FamilyTTL = 1
  AccessTTL = 1
  MaxTime = 0
  MaxLag = 0
  MaxTokens = 2
  MaxJti = 2
  MaxLogins = 1
  MaxFailures = 0
INVARIANTS
  SuspendedIsLockedOut
CHECK_DEADLOCK FALSE
