CONSTANTS
  Addrs = {a1}
  Pattern <- CSC
  MaxSessions = 1
  Reaps = TRUE
  MaxPending = 1
  ReadyCap = 1
  MaxHandshakes = 2
  Closes = TRUE
  Vanishing = {a1}
  DefaultKeepalive = 8
  Configured <- Intervals
  IdleTimeouts <- Timeouts
  Horizon = 40
  Second = 4
  MaxDecoyPerSec = 2
  Sizes <- FrameSizes
  Noises <- NoiseSettings
  Asked <- Requests
SPECIFICATION FairSpec
INVARIANTS
  IdleSessionKept
  ChaffBounded
PROPERTIES
  SilentClientsForgotten
  SessionsReachApplication
CHECK_DEADLOCK FALSE
