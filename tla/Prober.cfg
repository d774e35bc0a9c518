SPECIFICATION ProberFairSpec
CONSTANTS
  Count = 2
  NoError = NoError
  Cold = Cold
  MaxSize = 1
INVARIANTS
  ProberTypeOK
  CountersAgree
  NothingLeftOpen
  AnswersAreWhole
  FailedStreamsReleased
PROPERTIES
  MeasurementEnds
