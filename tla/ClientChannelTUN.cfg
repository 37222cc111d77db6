SPECIFICATION Spec
CONSTANTS
  Callers = {c1}
  Loops = {l1, l2}
  Links = {k1, k2}
  Candidates = {"quic"}
  Sessions = {q1}
  Inboxes = {h1, h2}
  MaxAssocID = 2
  Persistent = TRUE
  Main = main
  Stopper = stopper
  None = None
INVARIANTS
  NothingIsForgotten
SYMMETRY Symmetry
CHECK_DEADLOCK FALSE
