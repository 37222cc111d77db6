SPECIFICATION FairSearchSpec
CONSTANTS
  a = a
  b = b
  game = game
  Servers = {a, b, game}
  Lists <- MCLists
  Weight <- MCWeight
  Transport <- MCTransport
  Preferred = "redstone"
  Persistent = TRUE
  Accepting <- MCAccepting
  MaxFailures = 2
INVARIANTS
  NobodyIsPassedOver
PROPERTIES
  RanksHealthyFirst
  FindsServer
  StopEnds
CHECK_DEADLOCK FALSE
