CONSTANTS
  Muxes = {}
  Clients = {}
  Window = 1
  ServerFirst = {}
  RotationEnabled = FALSE
  TransportLists <- StreamsOnly
  Configured = "silent"
  Bursts <- OneProbing
  MaxScore = 10
  MaxGen = 1
  Seeds = {1}
  Starts = {0}
  Conns = {1}
  Calls <- NoCallers
  MaxPending = 1
  StreamDecoyMaxPending = 1
SPECIFICATION FairSpec
PROPERTY Deescalates
CHECK_DEADLOCK FALSE
