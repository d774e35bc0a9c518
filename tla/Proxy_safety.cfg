SPECIFICATION Spec
CONSTANTS
  Handlers = {h1, h2}
  Fetcher = Fetcher
  IDs = {1, 2}
  HasFallback = TRUE
  DoQ = {1}
SYMMETRY Symmetry
INVARIANTS
  TypeOK
  ReplyMatchesQuery
  DrainedBeforeClose
  FailureNeedsEveryUpstream
