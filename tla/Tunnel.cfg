SPECIFICATION FairSpec
CONSTANTS
  Kinds = {"tls", "camouflage", "reality", "quic", "uquic", "redstone", "masque", "mirage", "webrtc"}
  MaxSent = 1
  Cap = 1
INVARIANTS
  RelaysWithoutDeadline
  SomebodySpeaks
  Understood
  WholeRequest
  WholeResponse
PROPERTIES
  EndReachesTarget
  EndReachesApp
  TunnelEnds
CHECK_DEADLOCK FALSE
