SPECIFICATION FairSpec
CONSTANTS
  MaxConns = 2
  MaxQueue = 1
CHECK_DEADLOCK FALSE
INVARIANTS TypeOK OneSocket OwnPackets
PROPERTIES IsLink LossIsNoticed StopsForGood
