CONSTANTS
  Keys = {c1, c2}
  Muxes = {m1, m2}
  CacheMax = 1
  TTL = 1
  MaxTime = 1
  Patterns <- PatternTable
  MaxHandshakes = 2
  MaxRestarts = 1
  Transports <- AllTransports
  MaxQueue = 2
  Layouts <- SmallLayouts
  Payloads <- SmallPayloads
  Pads = {0, 5, 256}
  PrefixedSizes = {1, 2, 256}
  MaxRest = 16
  MTU = 1400
  Samples <- PacketSizes
  Lengths = {24, 32}
  Marks <- ProbeMarks
  Frames <- Encrypted
  WordBits = 9
  BlockLen = 3
  ReadSizes = {0, 1, 2, 3, 7}
  SampleWords = {0, 1, 6, 7, 11, 12, 15, 29, 511}
SPECIFICATION Spec
SYMMETRY Symmetry
INVARIANTS
  KeysAgree
  AdmittedOnce
  StreamsSound
  MessagesReadBack
  TrafficShaped
PROPERTIES
  RestartRemembers
  StrandedFails
CHECK_DEADLOCK FALSE
