SPECIFICATION Spec
CONSTANTS
  Id = {i1, i2}
  Owner = {k1, k2}
  NoOwner = NoOwner
  FirstId = i1
  Token = {t1}
  FirstToken = t1
  Request = {r1, r2}
  MaxRevision = 2
SYMMETRY Symmetry
INVARIANT IInv
PROPERTIES ImplementsTable
CHECK_DEADLOCK FALSE
