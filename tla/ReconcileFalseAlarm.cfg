\* Trade alone makes the reconciliation report a mismatch.
SPECIFICATION Spec
CONSTANTS
  p1 = p1  u1 = u1  u2 = u2  w1 = w1  w2 = w2  None = None
  Products = {p1}
  Staff = {u1}
  Workers = {w1}
  MaxStock = 2
  MaxQueued = 1
  MaxRetries = 1
  MaxFaults = 0
  MaxPatches = 0
INVARIANTS NoFalseAlarm
