\* Two sessions of one user under the cap, an organization, and two concurrent handlers, one
\* of which may fail between any two steps.
SPECIFICATION ControlSpec
CONSTANTS
  Users = {u1}
  Fids = {f1, f2}
  Devices = {d1}
  Orgs = {o1}
  Txs = {p1, p2}
  None = None
  MaxActive = 1
  IdleTimeout = 1
  SessionTTL = 1
  FamilyTTL = 1
  AccessTTL = 1
  MaxTime = 0
  MaxLag = 0
  MaxTokens = 2
  MaxJti = 2
  MaxLogins = 2
  MaxFailures = 1
INVARIANTS
  DeadTokensAreDenied
  NoFalseDenial
SYMMETRY Symmetry
CHECK_DEADLOCK FALSE
