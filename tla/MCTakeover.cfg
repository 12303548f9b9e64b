\* The first events of two subscriptions are delivered at the same time.
SPECIFICATION Spec
CONSTANTS
  lapsed = lapsed
  paid = paid
  again = again
  closed = closed
  other = other
  Events = {paid, other}
  NoEvent = NoEvent
  Created <- MCCreated
  Status <- MCStatus
  Plan <- MCPlan
  Sub <- MCSub
  Requests = {r1}
  NoRequest = NoRequest
  Calls = {c1, c2}
  NoCall = NoCall
  MaxFaults = 0
PROPERTIES NoTakeover
CHECK_DEADLOCK FALSE
