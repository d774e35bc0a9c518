SPECIFICATION TimedSpec
CONSTANTS
  Calls = {c1, c2}
  Conns = {k1}
  NoCall = NoCall
  NoConn = NoConn
  Timeout = 1
  MaxSlow = 0
  Closer = Closer
INVARIANTS
  TimeoutBoundsExchange
