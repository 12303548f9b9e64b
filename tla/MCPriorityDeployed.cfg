\* One audit with the deployed timing in ticks of 30 seconds (lease 60, visibility
\* timeout 90, function timeout 30), three receives, and one redelivered stream record.
SPECIFICATION FairSpec
CONSTANTS
  NoOne = NoOne
  Jobs = {audit}
  Audits = {audit}
  Sources = {source}
  SourceOf <- MCSourceOf
  Groups = {group}
  GroupOf <- MCGroupOf
  MaxInvocations = 6
  LeaseTicks = 2
  HiddenTicks = 3
  RunTicks = 1
  MaxReceives = 3
  MaxDeliveries = 2
INVARIANTS ReceiveFindsFreeLease
PROPERTIES EveryJobSettles
CHECK_DEADLOCK FALSE
