SPECIFICATION FairSpec
CONSTANTS
  Handlers = {h1}
  Fetcher = Fetcher
  IDs = {1}
  HasFallback = TRUE
  DoQ = {1}
PROPERTIES
  BindFailureEnds
