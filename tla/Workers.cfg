SPECIFICATION FairSpec
CONSTANTS
  OutboxEvents <- MCOutboxEvents
  Relays = {r1, r2}
  BatchLimit = 2
  MaxOutboxFaults = 1
  Events <- MCEvents
  Dispatchers = {w1, w2}
  p1 = p1
  Endpoints <- MCEndpoints
  Messages = {1}
  Wants <- MCWants
  MaxRetries = 3
  MaxWebhookFaults = 2
  Mailers = {m1}
  Recipients <- MCRecipients
  PollLimit = 1
  MaxMailPublications = 1
  MaxMailFaults = 1
  Requests <- MCEvents
  ExpectedAmount = 2
  RequiredDepth = 1
  TransferRequests <- MCTransferRequests
  MaxTransferPublications = 2
  MaxTransferFaults = 1
  Subs = {s1, s2}
  Schedulers = {k1, k2}
  Plans <- MCPlans
  MaxCycles = 3
  MaxSubFaults = 1

INVARIANTS
  TypesOK
  PublicationsAreCounted
  AttemptsBounded
  StatusIsTrue
  MailsAreCounted
  RequestsAreRecorded
  BillingIsExact

PROPERTIES
  OvertakesOnlyBackoff
  ImplementsDelivery
  ScheduledEnds
  CommittedIsReserved

CHECK_DEADLOCK FALSE
