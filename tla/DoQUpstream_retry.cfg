SPECIFICATION Spec
CONSTANTS
  Calls = {c1}
  Conns = {k1, k2}
  NoCall = NoCall
  NoConn = NoConn
PROPERTIES
  RetryUsesNewConnection
