SPECIFICATION SmallSpec
CONSTANTS
  q1 = q1
  q2 = q2
  x1 = x1
  x2 = x2
  x3 = x3
  i1 = i1
  i2 = i2
  k1 = k1
  k2 = k2
  m1 = m1
  None = None
  Keys = {k1, k2}
  Strangers = {x1, x2}
  Instances = {i1}
  Requests = {q1, q2}
  Managers = {m1}
  TTL = 1
  StoreTimeout = 1
  MaxUnknown = 2
  MaxTime = 3
INVARIANTS
  ServedRecently
  ActiveNeverRefused
  UnknownInOrder
PROPERTIES
  EnforcedUnlessRaced
SYMMETRY Renaming
