\* Four overlapping calls on one account, with two months, plan changes, random key
\* ids that collide, repeated tokens and charges of one credit or of four.
SPECIFICATION Spec
CONSTANTS
  small = small
  large = large
  Accounts = {account}
  Keys = {k1, k2, k3}
  Nothing = Nothing
  Plans <- MCPlans
  KeyLimit <- MCKeyLimit
  Credits <- MCCredits
  Tokens = {t1, t2}
  Charges = {1, 4}
  MaxMonth = 1
  Calls = {c1, c2, c3, c4}
SYMMETRY MCSymmetry
INVARIANTS TypeOK KeyCount KeysWithinPlans LedgerSum ConsumedOnce OverQuotaOnlyAtFirst
PROPERTIES KeysAreFinal
CHECK_DEADLOCK FALSE
