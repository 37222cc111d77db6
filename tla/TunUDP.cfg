SPECIFICATION Spec
CONSTANTS
  Handlers = {h1, h2, h3}
  IDs = {i1, i2}
  Sockets = {s1, s2, s3, s4}
  None = None
SYMMETRY Symmetry
INVARIANTS
  NoSocketForgotten
  SendsFromTheAssociation
  MappedIsRelayed
CHECK_DEADLOCK FALSE
