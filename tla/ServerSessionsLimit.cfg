SPECIFICATION Spec
CONSTANTS
  Handlers = {h1, h2}
  Users = {u1}
  Cells = {n1}
  Limit = 1
  Kinds = {"direct", "stream"}
  None = None
INVARIANT
  LimitHolds
