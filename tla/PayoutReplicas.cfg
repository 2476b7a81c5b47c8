SPECIFICATION Spec
CONSTANTS
  i1 = i1
  i2 = i2
  Intents = {i1}
  Groups <- SingleGroup
  Payouts = {p1, p2}
  Workers = {w1, w2}
  None = None
  NestedExec = {TRUE, FALSE}
  Contended = TRUE
  Assessments = {"partial", "confirmed"}
  TrueReports = FALSE
  MaxAmount = 1
  FaultKinds = {"crash", "rpc", "persist"}
  MaxFaults = 1
SYMMETRY Replicas

INVARIANTS
  SettlementIsReal
PROPERTIES
  ImplementsLedger
