CONSTANTS
  MaxReconnectAttempts = 3
  Clicks = 5
SPECIFICATION FairSpec
INVARIANTS
  TypeOK
  StatusHonest
  OneLoginUnderWay
PROPERTIES
  LoginAnsweredOnline
  BackoffEnds
CHECK_DEADLOCK FALSE
