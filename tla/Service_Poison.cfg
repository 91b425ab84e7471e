SPECIFICATION Spec
CONSTANTS
  good = good
  text = text
  other = other
  list = list
  Message = {other, text, list}
  Kind <- MessageKind
  MaxConnections = 2
  MaxDeliveries = 3
  MaxFailures = 1
  MaxLosses = 0
CHECK_DEADLOCK FALSE
INVARIANTS
  InvalidRejected
