\* Two overlapping deliveries of four events of two subscriptions, with one fault; two of
\* the events have the same order.
SPECIFICATION FairSpec
CONSTANTS
  lapsed = lapsed
  paid = paid
  again = again
  closed = closed
  other = other
  Events = {paid, again, closed, other}
  NoEvent = NoEvent
  Created <- MCCreated
  Status <- MCStatus
  Plan <- MCPlan
  Sub <- MCSub
  Requests = {r1}
  NoRequest = NoRequest
  Calls = {c1, c2}
  NoCall = NoCall
  MaxFaults = 1
INVARIANTS TypeOK SettledIsAccounted PaidIsNormalized NoCheckoutOverSubscription
PROPERTIES ClaimIsFenced ImplementsProjection EverySettled
CHECK_DEADLOCK FALSE
