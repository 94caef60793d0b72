\* The periodic tasks beside the trade, with faults, in one process or two.
SPECIFICATION FairSpec
CONSTANTS
  p1 = p1  u1 = u1  u2 = u2  w1 = w1  w2 = w2  None = None
  Products = {p1}
  Staff = {u1}
  Workers = {w1, w2}
  MaxStock = 1
  MaxQueued = 1
  MaxRetries = 1
  MaxFaults = 2
  MaxPatches = 1
CONSTRAINT Scope
INVARIANTS TypeOK SweepRepeatsBounded
PROPERTIES LowStockAlerted MismatchReported
