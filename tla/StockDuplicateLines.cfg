\* Orders that name a product on two lines.
SPECIFICATION Spec
CONSTANTS
  w1 = w1  w2 = w2  po = po  so1 = so1  so2 = so2  ret = ret  ret2 = ret2  None = None
  Workers = {w1}
  Products <- OneProduct
  PurchaseOrders = {po}
  SalesOrders = {so1}
  Returns = {ret}
  Baskets <- MixedBaskets
  ReturnQuantities = {1}
  WriteOffs = {1}
  Opening <- Opens1
  Threshold <- Low1
  LockingEnabled = TRUE
INVARIANTS StockMatchesLedger
