SPECIFICATION Spec
CONSTANTS
  Clients = {c1}
  Observing = {}
  NestedExec = {TRUE}
  Expected = 2
  Tolerance = 0
  Required = 1
  Amounts = {2}
  MaxTransfers = 1
  Hashes = {1}
  TrueReports = TRUE
  MayExpire = FALSE
  AddInvoice = FALSE
  MaxFaults = 0
PROPERTIES
  SettledIsFinal
