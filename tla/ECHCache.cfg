SPECIFICATION FairSpec
CONSTANTS
  Handlers = {h1, h2}
  Bufs = {b1, b2}
  NoBuf = NoBuf
  NotRead = NotRead
  Words = 2
  MaxConfigs = 2
  Answers <- MCAnswers
INVARIANTS
  TypeOK
  OneWholeConfig
  FreshAndComplete
PROPERTIES
  ImplementsRegister
  KeepsRefreshing
  RefresherStops
  QueryReturns
