SPECIFICATION RegistrationSpec
CONSTANTS
  m1 = m1
  m2 = m2
  p1 = p1
  Clients = {c1, c2}
  Mails = {m1, m2}
  Phones = {p1}
  Workloads <- Together
  None = None
  Limit <- TwoEach
  OtpAttempts = 2
  MaxUsers = 3
  MaxLinks = 3
  MaxReferrals = 2
  MaxCodes = 3
INVARIANTS
  OneOpenUnlessRaced
PROPERTY
  LifeHolds
SYMMETRY Symmetry
CHECK_DEADLOCK FALSE
