SPECIFICATION TimedFairSpec
CONSTANTS
  Calls = {c1, c2}
  Conns = {k1}
  NoCall = NoCall
  NoConn = NoConn
  Timeout = 1
  MaxSlow = 1
  Closer = Closer
INVARIANTS
  OverrunBounded
PROPERTIES
  ExchangeReturns
  CloseReturns
