SPECIFICATION MCSpec
CONSTANTS
  Clients = {c1, c2}
  Observing = {"receipts"}
  NestedExec = {TRUE, FALSE}
  Expected = 2
  Tolerance = 0
  Required = 1
  Amounts = {1, 2}
  MaxTransfers = 2
  Hashes = {1, 2}
  TrueReports = TRUE
  MayExpire = TRUE
  AddInvoice = TRUE
  MaxFaults = 1
  Viewers = {v1}
SYMMETRY Callees

INVARIANTS
  TypeOK
  SessionFollowsIntent
  PaidIsToldOnce
  ReceivedIsOnChain
  PaidIsConfirmedOnChain
  ViewIsTrue
