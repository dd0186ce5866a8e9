SPECIFICATION PrivacySpec
CONSTANTS
  Clients = {c1, c2}
  Keys = {k1, k2}
  Workloads <- Together
  None = None
  PageSize = 2
  MaxRequests = 3
  MaxLogins = 2
  MaxRows = 5
  MaxTime = 1
INVARIANTS
  OneWorker
  ErasedUnlessRaced
  AnswersAreTrue
  PagesMeetOnce
PROPERTY
  RequestsSettle
CHECK_DEADLOCK FALSE
