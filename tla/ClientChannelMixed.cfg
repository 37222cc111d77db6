SPECIFICATION FairSpec
CONSTANTS
  Callers = {c1, c2}
  Loops = {l1, l2}
  Links = {k1, k2}
  Candidates = {"tls", "quic"}
  Sessions = {q1}
  Inboxes = {h1}
  MaxAssocID = 1
  Persistent = FALSE
  Main = main
  Stopper = stopper
  None = None
PROPERTIES
  LossReachesReceivers
CHECK_DEADLOCK FALSE
