\* Overlapping creations, more families than the cap and the overlap allow.
SPECIFICATION Spec
CONSTANTS
  Users = {u1}
  Fids = {f1, f2, f3, f4}
  Devices = {d1}
  Orgs = {o1}
  Txs = {t1, t2}
  None = None
  MaxActive = 2
  IdleTimeout = 1
  SessionTTL = 2
  FamilyTTL = 2
  MaxTime = 1
  MaxLag = 0
  MaxTokens = 1
  MaxJti = 1
INVARIANTS
  SessionCap
PROPERTIES
  EvictsOldest
SYMMETRY Symmetry
CHECK_DEADLOCK FALSE
