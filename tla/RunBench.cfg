SPECIFICATION FairSpec
CONSTANTS
  N = 3
  Concurrencies <- MCConcurrencies
  NoWorker = NoWorker
INVARIANTS
  TypeOK
  BoundedProbes
  ResultsComplete
  ProgressCounts
PROPERTIES
  Returns
