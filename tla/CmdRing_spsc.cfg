CONSTANTS
  p1 = p1
  p2 = p2
  c1 = c1
  c2 = c2
  Producers = {p1}
  Consumers = {c1}
  N = 3
  MaxItems = 6
  MaxInFlight = 3

SPECIFICATION Spec
INVARIANT TypeOK
INVARIANT ReadsWhatWasWritten
PROPERTY AllDelivered
CHECK_DEADLOCK FALSE
