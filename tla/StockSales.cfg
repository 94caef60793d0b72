\* Two sales and a purchase over two products that the baskets name in
\* opposite orders; a write-off only the purchase can make possible.
SPECIFICATION FairSpec
CONSTANTS
  w1 = w1  w2 = w2  po = po  so1 = so1  so2 = so2  ret = ret  ret2 = ret2  None = None
  Workers = {w1, w2}
  Products <- TwoProducts
  PurchaseOrders = {po}
  SalesOrders = {so1, so2}
  Returns = {}
  Baskets <- CrossedBaskets
  ReturnQuantities = {}
  WriteOffs = {4}
  Opening <- Opens2
  Threshold <- Low2
  LockingEnabled = TRUE
INVARIANTS TypeOK LedgerInv StockMatchesLedger PostedExactlyOnce NoLockCycle
PROPERTIES IsAtomic RequestsAnswered
