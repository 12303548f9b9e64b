\* An unpaid subscription is closed while the checkout that replaces it is pending.
SPECIFICATION Spec
CONSTANTS
  lapsed = lapsed
  paid = paid
  again = again
  closed = closed
  other = other
  Events = {lapsed, closed}
  NoEvent = NoEvent
  Created <- MCCreated
  Status <- MCStatus
  Plan <- MCPlan
  Sub <- MCSub
  Requests = {r1, r2}
  NoRequest = NoRequest
  Calls = {c1, c2}
  NoCall = NoCall
  MaxFaults = 0
PROPERTIES ReservationHolds
CHECK_DEADLOCK FALSE
