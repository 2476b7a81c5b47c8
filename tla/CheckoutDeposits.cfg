SPECIFICATION FairSpec

CONSTANTS
  Clients = {}
  Observing = {"receipts", "deposits"}
  NestedExec = {TRUE, FALSE}
  Expected = 2
  Tolerance = 0
  Required = 1
  Amounts = {1, 2, 3}
  MaxTransfers = 2
  Hashes = {1, 2}
  TrueReports = TRUE
  MayExpire = TRUE
  AddInvoice = FALSE
  MaxFaults = 2

INVARIANTS
  ReceivedIsOnChain

PROPERTIES
  ExactTransferIsPaid
