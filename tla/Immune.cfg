CONSTANTS
  Muxes = {m1, m2}
  Clients = {c1}
  Window = 1
  ServerFirst = {1}
  RotationEnabled = TRUE
  TransportLists <- StreamsOrBoth
  Configured = "silent"
  Bursts <- EveryLevel
  MaxScore = 200
  MaxGen = 2
  Seeds = {1, 2}
  Starts = {0, 1}
  Conns = {1, 2, 3}
  Calls <- Callers
  MaxPending = 1
  StreamDecoyMaxPending = 1
SPECIFICATION FairSpec
INVARIANTS
  ClientsBehindServer
  ListenersSound
  DefenceMatchesThreat
  StreamDoorsKept
PROPERTIES
  NeverRotatesBack
  RotationReleases
