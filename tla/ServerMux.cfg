CONSTANTS
  Addrs = {a1, a2, a3}
  Pattern <- CSC
  MaxSessions = 2
  Reaps = FALSE
  MaxPending = 2
  ReadyCap = 1
  MaxHandshakes = 3
  Closes = FALSE
  Vanishing = {}
SPECIFICATION Spec
SYMMETRY AddrSymmetry
INVARIANTS
  TablesSound
  OpenSessionsRouted
  ReadLoopNeverWaits
PROPERTIES
  ImplementsSessionTable
