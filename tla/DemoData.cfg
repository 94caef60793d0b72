\* A seeding, flushes and resets beside the shop's requests.
SPECIFICATION Spec
CONSTANTS
  demo1 = demo1  contended = contended  o1 = o1  o2 = o2  None = None
  Demo = {demo1}
  Real = {}
  LoadTest = contended
  OrderIds = {o1, o2}
  Baskets <- SmallBaskets
  Levels = {1}
  NumOrders = 1
  MaxStock = 1
SYMMETRY Symmetry
CONSTRAINT FewReturns
ACTION_CONSTRAINT QuietBuild
INVARIANTS TypeOK Explained ResetCounted GateSound
PROPERTIES OthersKept
