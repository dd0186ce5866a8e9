\* Two overlapping requests on two accounts and two addresses; an account may have none.
SPECIFICATION Spec
CONSTANTS
  Users = {u1, u2}
  Emails = {e1, e2}
  PlainRoles = {member}
  Invitations = {i1, i2}
  Txs = {t1, t2}
  None = None
  InviteTTL = 1
  MaxTime = 1
  MaxRows = 3
INVARIANTS
  MembershipTypeOK
  OwnerUnlessRaced
  OneRoleUnlessRaced
  AcceptedOnce
  OutsidersUnlessRaced
CONSTRAINT MemberRaceAlone
SYMMETRY Symmetry
CHECK_DEADLOCK FALSE
