SPECIFICATION FairSpec
CONSTANTS
  Clients = {}
  Observing = {"receipts", "deposits"}
  NestedExec = {FALSE}
  Expected = 2
  Tolerance = 0
  Required = 1
  Amounts = {1, 2}
  MaxTransfers = 1
  Hashes = {1}
  TrueReports = TRUE
  MayExpire = TRUE
  AddInvoice = FALSE
  MaxFaults = 1
PROPERTIES
  OverdueIsExpired
