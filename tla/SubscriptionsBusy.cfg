SPECIFICATION FairSubSpec
CONSTANTS
  OutboxEvents = {}
  Relays = {}
  BatchLimit = 1
  MaxOutboxFaults = 0
  Events = {}
  Dispatchers = {w1}
  p1 = p1
  Endpoints = {}
  Messages = {}
  Wants = {}
  MaxRetries = 1
  MaxWebhookFaults = 0
  Mailers = {}
  Recipients = {}
  PollLimit = 1
  MaxMailPublications = 0
  MaxMailFaults = 0
  Requests = {}
  ExpectedAmount = 2
  RequiredDepth = 1
  TransferRequests = {}
  MaxTransferPublications = 0
  MaxTransferFaults = 0
  Subs = {s1}
  Schedulers = {k1}
  Plans <- MCPlans
  MaxCycles = 2
  MaxSubFaults = 0

PROPERTIES
  DueIsProcessed

CHECK_DEADLOCK FALSE
