\* One account recovered with links and reset by staff, one of whom holds both roles; or its
\* address changed through two requests.
SPECIFICATION Spec
CONSTANTS
  Users = {u1}
  L2 = {s1, s2}
  L3 = {s2}
  Contacts = {c1, c2}
  Passwords = {a, b, c}
  Links = {l1, l2, l3}
  Changes = {x1, x2}
  Resets = {g1, g2}
  Txs = {t1, t2}
  None = None
  HistoryLimit = 3
  LinkTTL = 1
  ChangeTTL = 1
  Delay = 1
  MaxTime = 1
  MaxVersion = 4
INVARIANTS
  PendingIsCurrent
  LiveLinksBounded
  KeptPasswordsDiffer
  FourEyes
  OneResetPerVersion
PROPERTIES
  SuspendedKeepsFactors
  StaleNeverRuns
CONSTRAINT OnePart
SYMMETRY Symmetry
CHECK_DEADLOCK FALSE
