\* Two requests for an invoice, two processes, a sale that may be reopened.
SPECIFICATION FairSpec
CONSTANTS
  t1 = t1  t2 = t2  w1 = w1  w2 = w2  x1 = x1  x2 = x2  None = None
  Tasks = {t1, t2}
  Workers = {w1, w2}
  RequestIds = {x1, x2}
  RequestId <- OneEach
  MaxRetries = 1
  MaxInvoices = 2
  MaxFaults = 2
INVARIANTS TypeOK FailureExplained TornTended Traced
PROPERTIES Answered
CHECK_DEADLOCK FALSE
