\* A sale updated while it is completed.
SPECIFICATION EditSpec
CONSTANTS
  w1 = w1  w2 = w2  e1 = e1  e2 = e2  po = po  so1 = so1  ret = ret  None = None
  Workers = {w1}
  Editors = {e1}
  Products <- OneProduct
  PurchaseOrders = {}
  SalesOrders = {so1}
  Returns = {}
  Baskets <- TwoSizes
  ReturnQuantities = {1}
  WriteOffs = {2}
  Opening <- Opens
  Threshold <- Low
  LockingEnabled = TRUE
CONSTRAINT Bounded
PROPERTIES SettledFinal
