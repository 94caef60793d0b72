\* A purchase, a sale and its return, edited and deleted while a worker
\* serves them.
SPECIFICATION EditSpec
CONSTANTS
  w1 = w1  w2 = w2  e1 = e1  e2 = e2  po = po  so1 = so1  ret = ret  None = None
  Workers = {w1}
  Editors = {e1, e2}
  Products <- OneProduct
  PurchaseOrders = {po}
  SalesOrders = {so1}
  Returns = {ret}
  Baskets <- OneSize
  ReturnQuantities = {1}
  WriteOffs = {2}
  Opening <- Opens
  Threshold <- Low
  LockingEnabled = TRUE
CONSTRAINT Bounded
SYMMETRY EditorsAlike
INVARIANTS EditTypeOK EditLedgerInv SaleLinesWhole
PROPERTIES ReceiptFinal
