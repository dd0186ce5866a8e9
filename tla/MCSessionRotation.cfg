\* One family through all its lifetimes: deep rotation, every expiry reached.
SPECIFICATION Spec
CONSTANTS
  Users = {u1}
  Fids = {f1}
  Devices = {d1, d2}
  Orgs = {o1}
  Txs = {t1}
  None = None
  MaxActive = 1
  IdleTimeout = 2
  SessionTTL = 3
  FamilyTTL = 3
  MaxTime = 4
  MaxLag = 1
  MaxTokens = 4
  MaxJti = 5
INVARIANTS
  TypeOK
  RotationChain
  FamilyDiesWhole
  FamilyCeiling
PROPERTIES
  RevocationIsFinal
CHECK_DEADLOCK FALSE
