SPECIFICATION LoginSpec
CONSTANTS
  m1 = m1
  i1 = i1
  i2 = i2
  Clients = {c1, c2}
  Mails = {m1}
  Addresses = {i1, i2}
  Devices = {d1}
  Subjects = {s1, s2}
  MailOf <- OneMail
  Workloads <- Together
  None = None
  AttemptLimit = 2
  SendLimit = 2
  OtpAttempts = 2
  MaxPassword = 2
  MaxCodes = 3
  MaxStates = 3
  MaxLogins = 3
  MaxAccounts = 2
INVARIANTS
  AttemptsBounded
  PasswordUnlessRaced
  FirstSightOnce
  SocialLogins
  KeysExpireUnlessCut
SYMMETRY Symmetry
CHECK_DEADLOCK FALSE
