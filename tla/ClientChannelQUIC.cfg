SPECIFICATION Spec
CONSTANTS
  Callers = {c1, c2}
  Loops = {l1, l2}
  Links = {k1, k2}
  Candidates = {"quic"}
  Sessions = {q1}
  Inboxes = {h1, h2}
  MaxAssocID = 2
  Persistent = FALSE
  Main = main
  Stopper = stopper
  None = None
INVARIANTS
  NoPanic
  HandlersAreServed
  NoInboxIsForgotten
  NoLinkIsForgotten
  ReaderIsCurrent
PROPERTIES
  DropsItsOwnChannel
SYMMETRY Symmetry
CHECK_DEADLOCK FALSE
