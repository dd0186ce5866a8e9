SPECIFICATION MfaSpec
CONSTANTS
  u1 = u1
  Users = {u1}
  Clients = {c1, c2}
  Subjects = {s1}
  Workloads <- Colliding
  None = None
  FailureLimit = 2
  OtpAttempts = 2
  OtpRequests = 2
  BackupCount = 1
  MaxLogins = 2
  MaxFactors = 4
  MaxFails = 3
  MaxFresh = 4
  MaxStep = 3
  MaxCount = 2
INVARIANT ProvenBeforeLinked
SYMMETRY Symmetry
CHECK_DEADLOCK FALSE
