SPECIFICATION Spec
CONSTANTS
  Clients = {c1, c2}
  Observing = {}
  NestedExec = {TRUE}
  Expected = 2
  Tolerance = 0
  Required = 1
  Amounts = {1, 2}
  MaxTransfers = 2
  Hashes = {1, 2}
  TrueReports = TRUE
  MayExpire = FALSE
  AddInvoice = FALSE
  MaxFaults = 0
INVARIANTS
  ReceivedIsAggregate
