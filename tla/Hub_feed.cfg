CONSTANTS
  k1 = k1
  k2 = k2
  Clients = {k1, k2}
  Early = {k1}
  Nobody = Nobody
  Info = 1
  LevelOf <- InfoThenWarn
  Wanted <- OneWantsWarn
  MaxMsgs <- TwoLinesOneExchange
  ChanCap = 1
  BatchMax = 2
  MaxFaults = 1
SPECIFICATION FairSpec
INVARIANTS TypeOK OneWriter FeedInOrder
PROPERTIES BatchDelivered PusherReturns ClosedIsForgotten
CHECK_DEADLOCK FALSE
