SPECIFICATION FairAdmission
CONSTANTS
  c1 = c1
  c2 = c2
  d1 = d1
  d2 = d2
  host = host
  Callers <- MCCallers
  Data <- MCData
  Positions = {1, 2}
  Bits <- MCBits
  None = None
  Addresses = {host}
  Address <- MCAddress
  Lag <- MCLag
  Limit = 2
  Minute = 2
  Deadline = 1
INVARIANTS
  Forgotten
  RateIsBounded
PROPERTIES
  Timely
  KeepsWindow
  GetsIn
