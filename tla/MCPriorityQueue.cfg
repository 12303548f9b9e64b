\* One canary and one audit share a FIFO group. The lease is as long as the
\* visibility timeout and shorter than the run time, so that stale workers overlap
\* with their successors.
SPECIFICATION Spec
CONSTANTS
  NoOne = NoOne
  Jobs = {canary, audit}
  Audits = {audit}
  Sources = {source}
  SourceOf <- MCSourceOf
  Groups = {group}
  GroupOf <- MCGroupOf
  MaxInvocations = 3
  LeaseTicks = 1
  HiddenTicks = 1
  RunTicks = 2
  MaxReceives = 2
  MaxDeliveries = 1
INVARIANTS TypeOK NoLostJob
PROPERTIES TerminalIsFinal LeaseIsExclusive ImplementsLifecycle
CHECK_DEADLOCK FALSE
