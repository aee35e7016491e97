CONSTANTS
  s1 = s1
  s2 = s2
  alice = alice
  NoLease = NoLease
  NoSession = NoSession
  Sessions = {s1, s2}
  Setups <- SetupsTried
  HostOf <- OneHost
  HttpRemote = "http-remote"
  Outside = {alice}
  Backlog = 1
  MaxSessions = 1
  PoolSize = 2
SPECIFICATION FairSpec
INVARIANTS
  ListensOnAll
  RoutesSound
PROPERTIES
  ImplementsLeases
  LeaseLostOnlyClosed
  TimeoutSparesSession
  ClosedForgotten
  Answered
CHECK_DEADLOCK FALSE
