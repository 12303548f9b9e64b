\* Every graph of three files with at most two import statements each, before and
\* after an earlier run, with seven steps and calls nested three deep.
SPECIFICATION Spec
CONSTANTS
  entry = entry
  a = a
  b = b
  Modules <- MCModules
  Entry = entry
  MaxImports = 2
  MaxSteps = 7
  MaxDepth = 3
INVARIANTS TypeOK NeverRejected LoadsWhatIsImported CycleIsReal ImportsAreLive
PROPERTIES EpochIsAtomic CallsAreTransactions Terminates
CHECK_DEADLOCK FALSE
