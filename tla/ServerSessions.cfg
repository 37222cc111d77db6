SPECIFICATION Spec
CONSTANTS
  Handlers = {h1, h2, h3}
  Users = {u1, u2}
  Cells = {n1, n2, n3}
  Limit = 2
  Kinds = {"direct", "stream", "tun", "connect"}
  None = None
SYMMETRY Symmetry
INVARIANTS
  CountsAreExact
  SessionsAreExact
