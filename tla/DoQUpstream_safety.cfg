SPECIFICATION Spec
CONSTANTS
  Calls = {c1, c2, c3}
  Conns = {k1, k2}
  NoCall = NoCall
  NoConn = NoConn
SYMMETRY Symmetry
INVARIANTS
  TypeOK
  NoConnectionLeak
  ClosedForGood
PROPERTIES
  FailureNeedsTwoFaults
  SharedLinkSurvives
  ImplementsUpstream
