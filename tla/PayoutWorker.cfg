SPECIFICATION FairSpec
CONSTANTS
  i1 = i1
  i2 = i2
  Intents = {i1, i2}
  Groups <- OneGroup
  Payouts = {p1, p2}
  Workers = {w1}
  None = None
  NestedExec = {TRUE, FALSE}
  Contended = FALSE
  Assessments = {"partial", "confirmed"}
  TrueReports = TRUE
  MaxAmount = 1
  FaultKinds = {"crash", "db", "prepare", "rpc", "lost_reply", "persist"}
  MaxFaults = 1

INVARIANTS
  TypeOK
  CompletedPayoutPaysItems
  ResendsBoundedByFaults
PROPERTIES
  SettledIsSweptNoMore
  ScheduledIsSwept
