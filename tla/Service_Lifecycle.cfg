SPECIFICATION FairSpec
CONSTANTS
  good = good
  text = text
  other = other
  list = list
  Message = {good, text}
  Kind <- MessageKind
  MaxConnections = 2
  MaxDeliveries = 3
  MaxFailures = 1
  MaxLosses = 1
CHECK_DEADLOCK FALSE
INVARIANTS
  ServiceTypeOK
  OneClient
  SettledAsHandled
  NothingLeftOpen
PROPERTIES
  EventuallySettled
