CONSTANTS
  Window = 3
  SkipSpan = 2
  AckEvery = 2
  Keepalives = {"server"}
  RateLimited = TRUE
  Duplicates = TRUE
  Payloads = {"data", "quiet"}
  WriteErrors = TRUE
  ClientSenders = 0
  ServerSenders = 2
  ClientFrames = 2
  ServerFrames = 5
  Losable <- AllLosable
  Senders <- MCSenders
  MaxFrames <- MCMaxFrames
SPECIFICATION Spec
INVARIANTS
  TypeOK
  WindowBehindSender
  BeliefOnlyAheadBySkip
PROPERTIES
  WedgeIsPermanent
  ImplementsDatagram
CHECK_DEADLOCK FALSE
