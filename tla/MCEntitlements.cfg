\* Two payments of one scan, one redelivered stream record, two receives.  The visibility
\* timeout is shorter than the lease, so that a receive may find the lease held.
SPECIFICATION FairSpec
CONSTANTS
  NoOne = NoOne
  Intents = {p1, p2}
  Scans = {scan}
  ScanOf <- MCScanOf
  EmailInEvent = TRUE
  MaxDeliveries = 1
  MaxRuns = 4
  RunTicks = 1
  LeaseTicks = 3
  HiddenTicks = 1
  MaxReceives = 2
INVARIANTS TypeOK NoLostConfirmation MailerHoldsLease
PROPERTIES SentIsFinal ImplementsPromise EveryPaymentConfirmed
CHECK_DEADLOCK FALSE
