SPECIFICATION Spec
CONSTANTS
  BasePort = 12
  Spread = 4
  LowPort = 10
  HighPort = 14
  MaxDraws = 4
  Draw <- MCDraw
  Setups <- MCSetups
  Ids = {1, 2, 3, 4}
  Window = 2
  ServerFirst = {1, 2}
  CoverLen <- MCCoverLen
  MaxAttempts = 1
  MaxRefusals = 1
  Words <- MCWords
  ServerFiles <- MCServerFiles
  MaxLong = 100
  MaxExact = 64
  Texts <- MCTexts
  Profiles <- MCProfiles
  Hosts <- MCHosts
  Everywhere <- MCEverywhere
  Halves <- MCHalves
  PrivateBypass <- MCPrivateBypass
  TunSubnet <- MCTunSubnet
  Chnroute <- MCChnroute
  Loopback <- MCLoopback
INVARIANTS LeavesNothing DialsItsServer ServedAsWritten InvitedAlike BypassedRight
PROPERTY SessionsClosed Reconnects
CHECK_DEADLOCK FALSE
