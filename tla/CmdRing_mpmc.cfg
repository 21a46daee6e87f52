\* fake_ca runs io_step on four CA threads: two producers and two consumers
CONSTANTS
  p1 = p1
  p2 = p2
  c1 = c1
  c2 = c2
  Producers = {p1, p2}
  Consumers = {c1, c2}
  N = 3
  MaxItems = 4
  MaxInFlight = 3

SPECIFICATION Spec
INVARIANT ReadsWhatWasWritten
CHECK_DEADLOCK FALSE
