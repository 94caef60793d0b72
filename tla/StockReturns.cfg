\* One sale with two returns filed against it, a purchase, and write-offs.
SPECIFICATION Spec
CONSTANTS
  w1 = w1  w2 = w2  po = po  so1 = so1  so2 = so2  ret = ret  ret2 = ret2  None = None
  Workers = {w1, w2}
  Products <- OneProduct
  PurchaseOrders = {po}
  SalesOrders = {so1}
  Returns = {ret, ret2}
  Baskets <- OneBasket
  ReturnQuantities = {0, 1, 2}
  WriteOffs = {1, 2}
  Opening <- Opens1
  Threshold <- Low1
  LockingEnabled = TRUE
INVARIANTS NoOversell ReturnsCoveredBySale PostedExactlyOnce LowStockReported
