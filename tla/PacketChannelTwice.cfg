CONSTANTS
  Window = 4
  SkipSpan = 3
  AckEvery = 2
  Keepalives = {}
  RateLimited = FALSE
  Duplicates = TRUE
  Payloads = {"data"}
  WriteErrors = FALSE
  ClientSenders = 0
  ServerSenders = 1
  ClientFrames = 2
  ServerFrames = 6
  Losable <- NothingLosable
  Senders <- MCSenders
  MaxFrames <- MCMaxFrames
SPECIFICATION Spec
INVARIANT AtMostOnce
CHECK_DEADLOCK FALSE
