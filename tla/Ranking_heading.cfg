SPECIFICATION Spec
CONSTANTS
  NTargets = 3
  Durations = {1, 2, 4}
  Short = 5
  MaxSamples = 22
  AllStats <- AllStatsDef
  SortKeys = {"median", "avg", "p95", "min", "score"}
  Tops = {0, 1, 2}
  NoURL = NoURL
  NoFilter = NoFilter
  NoHosts = {"ip", ""}
  MaxRows = 3
INVARIANTS
  HeadingCountsSuccesses
