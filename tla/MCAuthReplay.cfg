\* Four overlapping requests on one account: two changes of the authenticator with one code,
\* and between them the setup of another authenticator.
SPECIFICATION Spec
CONSTANTS
  Requests = {r1, r2, r3, r4}
  Before = Before
  NoOne = NoOne
  Limit = 0
  CodeCount = 0
  MaxStep = 2
SYMMETRY MCSymmetry
PROPERTIES NoReplay
CHECK_DEADLOCK FALSE
