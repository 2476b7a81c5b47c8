SPECIFICATION FairSpec
CONSTANTS
  Clients = {c1}
  Observing = {"receipts", "deposits"}
  NestedExec = {TRUE, FALSE}
  Expected = 2
  Tolerance = 0
  Required = 2
  Amounts = {1, 2}
  MaxTransfers = 1
  Hashes = {1}
  TrueReports = TRUE
  MayExpire = FALSE
  AddInvoice = TRUE
  MaxFaults = 1
INVARIANTS
  PaidIsConfirmedOnChain
PROPERTIES
  ExactTransferIsPaid
