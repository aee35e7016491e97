CONSTANTS
  Window = 8
  SkipSpan = 6
  AckEvery = 4
  Keepalives = {}
  RateLimited = FALSE
  Duplicates = FALSE
  Payloads = {"data"}
  WriteErrors = FALSE
  ClientSenders = 0
  ServerSenders = 1
  ClientFrames = 2
  ServerFrames = 9
  Losable <- FirstAndSkipLosable
  Senders <- MCSenders
  MaxFrames <- MCMaxFrames
SPECIFICATION Spec
INVARIANT NeverWedged
CHECK_DEADLOCK FALSE
