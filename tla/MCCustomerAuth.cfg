\* Three overlapping requests on one account, with two backup codes and two time steps.
SPECIFICATION Spec
CONSTANTS
  Requests = {r1, r2, r3}
  Before = Before
  NoOne = NoOne
  Limit = 2
  CodeCount = 2
  MaxStep = 2
SYMMETRY MCSymmetry
INVARIANTS TypeOK CredentialsAreCurrent
PROPERTIES ChangeSignsOut ImplementsAuthority UsedOnce
CHECK_DEADLOCK FALSE
