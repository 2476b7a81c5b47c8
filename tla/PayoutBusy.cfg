SPECIFICATION Spec
CONSTANTS
  i1 = i1
  i2 = i2
  Intents = {i1}
  Groups <- SingleGroup
  Payouts = {p1}
  Workers = {w1}
  None = None
  NestedExec = {FALSE}
  Contended = FALSE
  Assessments = {"confirmed"}
  TrueReports = TRUE
  MaxAmount = 1
  FaultKinds = {}
  MaxFaults = 0
INVARIANT CompletedPayoutPaysTotal
