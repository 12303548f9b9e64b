\* Two payments of one scan; the events are those of the gateway in stripe.ts, which
\* leaves the receipt address out.
SPECIFICATION FairSpec
CONSTANTS
  NoOne = NoOne
  Intents = {p1, p2}
  Scans = {scan}
  ScanOf <- MCScanOf
  EmailInEvent = FALSE
  MaxDeliveries = 1
  MaxRuns = 4
  RunTicks = 1
  LeaseTicks = 3
  HiddenTicks = 1
  MaxReceives = 2
PROPERTIES PaidIsEntitled
CHECK_DEADLOCK FALSE
