CONSTANTS
  Addrs = {a1, a2}
  Pattern <- SC
  MaxSessions = 2
  Reaps = FALSE
  MaxPending = 2
  ReadyCap = 1
  MaxHandshakes = 2
  Closes = TRUE
  Vanishing = {}
SPECIFICATION Spec
INVARIANT CloseShutsAll
CHECK_DEADLOCK FALSE
