CONSTANTS
  Muxes = {m1}
  Clients = {c1, c2}
  Window = 1
  ServerFirst = {}
  RotationEnabled = TRUE
  TransportLists <- NoStreams
  Configured = "silent"
  Bursts = {}
  MaxScore = 0
  MaxGen = 3
  Seeds = {1}
  Starts = {0}
  Conns = {1}
  Calls <- NoCallers
  MaxPending = 1
  StreamDecoyMaxPending = 1
SPECIFICATION Spec
INVARIANT OneStaleReconnects
CHECK_DEADLOCK FALSE
