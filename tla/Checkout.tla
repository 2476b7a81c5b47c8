------------------------------ MODULE Checkout ------------------------------
(***************************************************************************)
(* One checkout session: its payment intent, the chain transactions that   *)
(* were recorded for it, and everyone who assesses them concurrently: the  *)
(* callers of ConfirmCheckoutSession (merchant API, public checkout, mock  *)
(* transfer indexer), the two loops of the chain observer, the customer    *)
(* who cancels and the payout worker that settles.                         *)
(*                                                                         *)
(* Transactions run under READ COMMITTED: the aggregate that a confirm     *)
(* computes sees its own row and the rows committed before it, and its     *)
(* updates overwrite what others committed meanwhile.                      *)
(***************************************************************************)
EXTENDS Pricing, Sequences, FiniteSetsExt

CONSTANTS
  Clients,      \* concurrent callers of ConfirmCheckoutSession
  Observing,    \* the observer loops that have an RPC client
  NestedExec,   \* outcomes of a statement run on a tx whose rows are open
  Expected,     \* expected_amount
  Tolerance,    \* tolerance_percent, in basis points
  Required,     \* required_confirmations
  Amounts,      \* amounts a customer may transfer at once
  MaxTransfers, \* bound: transfers to the deposit address
  Hashes,       \* bound: transaction hashes, 1 the oldest transfer's
  TrueReports,  \* whether clients only report transfers that happened
  MayExpire,    \* whether expires_at may pass
  AddInvoice,   \* link option add_invoice_pdf
  MaxFaults     \* bound: failed transactions and RPC calls

ASSUME CheckoutAssumption ==
  /\ {"receipts", "deposits"} \cap Clients = {}
  /\ Observing \subseteq {"receipts", "deposits"}
  /\ NestedExec \in (SUBSET BOOLEAN) \ {{}}
  /\ Expected \in Nat /\ Tolerance \in Nat
  /\ Required \in Nat \ {0}
  /\ Amounts \subseteq Nat \ {0}
  /\ MaxTransfers \in Nat /\ MaxFaults \in Nat
  /\ 1..MaxTransfers \subseteq Hashes /\ Hashes \subseteq Nat \ {0}
  /\ {TrueReports, MayExpire, AddInvoice} \subseteq BOOLEAN

VARIABLES
  intent,       \* payment_intents: status, received, confirmations, confirmedAt
  session,      \* checkout_sessions.status
  ledger,       \* chain_transactions: amount and confirmations by hash
  outbox,       \* the types of the events enqueued so far
  invoice,      \* whether the invoices row exists
  invoiceEvents,\* number of invoice.created events
  credited,     \* history: whether the deposit loop has counted what it found
  overdue,      \* whether expires_at has passed
  chain,        \* transfers to the deposit address, oldest first
  pc,           \* where a caller or a loop is
  request,      \* the request of an open confirm transaction
  verdict,      \* what its aggregate query computed
  polling,      \* recorded transactions the receipt loop has still to look up
  latest,       \* the chain at the block number its pass has cached, if any
  balance,      \* balance the deposit loop has read
  faults        \* failures so far

rows == <<intent, session, ledger, outbox, invoice, invoiceEvents, credited>>
calls == <<pc, request, verdict>>
loops == <<polling, latest, balance>>
vars == <<rows, overdue, chain, calls, loops, faults>>

Callers == Clients \cup {"receipts", "deposits"}
Pending == {"awaiting_funds", "partial"}
IntentStatus == Pending \cup {"confirmed", "overpaid", "expired", "settled"}
SessionStatus == {"awaiting_funds", "paid", "expired", "canceled"}
Depths == 0..Required
Requests == [hash : Hashes, amount : Nat, confirmations : Depths]
Verdicts == [status : IntentStatus, received : Nat, confirmations : Depths, paid : BOOLEAN]
CallPoint == {"idle", "open", "invoice", "announce"}
LoopPoint == CallPoint \cup {"polling", "observe", "balance", "observed", "logs"}

NoRequest == [hash |-> 0, amount |-> 0, confirmations |-> 0]
NoVerdict == [status |-> "awaiting_funds", received |-> 0, confirmations |-> 0, paid |-> FALSE]

\* TypeOK: statuses the CHECK constraints allow, one ledger row per hash, and
\* a caller that has a request in hand exactly while its transaction is open.
TypeOK ==
  /\ intent \in [status : IntentStatus, received : Nat, confirmations : Depths,
                 confirmedAt : BOOLEAN]
  /\ session \in SessionStatus
  /\ DOMAIN ledger \subseteq Hashes
  /\ \A h \in DOMAIN ledger : ledger[h] \in [amount : Nat, confirmations : Depths]
  /\ outbox \subseteq {"payment.detected", "payment.confirmed", "payment.expired"}
  /\ invoice \in BOOLEAN
  /\ invoiceEvents \in Nat
  /\ {overdue, credited} \subseteq BOOLEAN
  /\ \A t \in {chain, latest} : /\ t \in Seq([amount : Amounts, depth : Depths])
                               /\ Len(t) <= MaxTransfers
  /\ pc \in [Callers -> LoopPoint] /\ \A c \in Clients : pc[c] \in CallPoint
  /\ \A c \in Callers : /\ request[c] \in Requests \cup {NoRequest}
                        /\ request[c] # NoRequest <=> pc[c] = "open"
                        /\ verdict[c] \in Verdicts
  /\ polling \subseteq [hash : Hashes, amount : Nat]
  /\ balance \in Nat
  /\ faults \in 0..MaxFaults

\* createSession has committed the session, its intent and deposit address.
Init ==
  /\ intent = [status |-> "awaiting_funds", received |-> 0, confirmations |-> 0,
               confirmedAt |-> FALSE]
  /\ session = "awaiting_funds"
  /\ ledger = <<>>
  /\ outbox = {}
  /\ invoice = FALSE
  /\ invoiceEvents = 0
  /\ credited = FALSE
  /\ overdue = FALSE
  /\ chain = <<>>
  /\ pc = [c \in Callers |-> "idle"]
  /\ request = [c \in Callers |-> NoRequest]
  /\ verdict = [c \in Callers |-> NoVerdict]
  /\ polling = {}
  /\ latest = <<>>
  /\ balance = 0
  /\ faults = 0

\* A transaction or an RPC call fails: one of at most MaxFaults.
Fault == faults < MaxFaults /\ faults' = faults + 1

-----------------------------------------------------------------------------
(* ConfirmCheckoutSession *)

\* The amounts of rows S of ledger l.
Sum(l, S) == MapThenSumSet(LAMBDA h : l[h].amount, S)

\* Seeded fault: a conflict adds to the amount of the row.
UpsertAdds(l, r) ==
  [h \in DOMAIN l \cup {r.hash} |->
     IF h # r.hash THEN l[h]
     ELSE [amount |-> r.amount + (IF h \in DOMAIN l THEN l[h].amount ELSE 0),
           confirmations |-> r.confirmations]]

\* INSERT ... ON CONFLICT (chain, tx_hash, payment_intent_id) DO UPDATE.
Upsert(l, r) ==
  [h \in DOMAIN l \cup {r.hash} |->
     IF h = r.hash THEN [amount |-> r.amount, confirmations |-> r.confirmations] ELSE l[h]]

\* What the aggregate over the rows of l says of the intent.
Assess(l) ==
  LET total == Sum(l, DOMAIN l)
      confirmed == Sum(l, {h \in DOMAIN l : l[h].confirmations >= Required})
      least == Min({l[h].confirmations : h \in DOMAIN l})
      confirmedStatus == ResolveIntentStatus(Expected, confirmed, Tolerance, Required, Required)
      paid == IntentStatusIsPaid(confirmedStatus)
  IN  [status |-> IF paid THEN confirmedStatus
                  ELSE ResolveIntentStatus(Expected, total, Tolerance, least, Required),
       received |-> total, confirmations |-> least, paid |-> paid]

\* The transaction writes its row and aggregates.  The row of a hash that
\* another open transaction has written is locked.
BeginConfirm(c, r) ==
  /\ \A d \in Callers : pc[d] = "open" => request[d].hash # r.hash
  /\ request' = [request EXCEPT ![c] = r]
  /\ verdict' = [verdict EXCEPT ![c] = Assess(Upsert(ledger, r))]
  /\ pc' = [pc EXCEPT ![c] = "open"]

\* Seeded faults: the session takes the status of the intent, or is paid
\* whenever the intent's status is a paid one, confirmed or not.
WriteVerdictVerbatim(v) ==
  /\ intent' = [status |-> v.status, received |-> v.received,
                confirmations |-> v.confirmations,
                confirmedAt |-> intent.confirmedAt \/ v.paid]
  /\ session' = v.status
  /\ outbox' = outbox \cup {"payment.detected"}
                      \cup (IF v.paid THEN {"payment.confirmed"} ELSE {})
WriteVerdictByStatus(v) ==
  /\ intent' = [status |-> v.status, received |-> v.received,
                confirmations |-> v.confirmations,
                confirmedAt |-> intent.confirmedAt \/ v.paid]
  /\ session' = IF IntentStatusIsPaid(v.status) THEN "paid" ELSE "awaiting_funds"
  /\ outbox' = outbox \cup {"payment.detected"}
                      \cup (IF v.paid THEN {"payment.confirmed"} ELSE {})

\* Update of intent and session, with the events, in one transaction.
WriteVerdict(v) ==
  /\ intent' = [status |-> v.status, received |-> v.received,
                confirmations |-> v.confirmations,
                confirmedAt |-> intent.confirmedAt \/ v.paid]
  /\ session' = IF v.paid THEN "paid" ELSE "awaiting_funds"
  /\ outbox' = outbox \cup {"payment.detected"}
                      \cup (IF v.paid THEN {"payment.confirmed"} ELSE {})

\* Where a caller goes on after its call: the receipt loop to its next row.
AfterCall(c) == IF c = "receipts" THEN "polling" ELSE "idle"

CloseCall(c, next) ==
  /\ pc' = [pc EXCEPT ![c] = next]
  /\ request' = [request EXCEPT ![c] = NoRequest]
  /\ verdict' = [verdict EXCEPT ![c] = NoVerdict]

CommitConfirm(c) ==
  /\ pc[c] = "open"
  /\ ledger' = Upsert(ledger, request[c])
  /\ WriteVerdict(verdict[c])
  /\ credited' = (credited \/ c = "deposits")
  /\ CloseCall(c, IF verdict[c].paid /\ AddInvoice THEN "invoice" ELSE AfterCall(c))
  /\ UNCHANGED <<invoice, invoiceEvents, overdue, chain, loops, faults>>

\* Seeded fault: whether the row was inserted is not looked at.
InsertInvoiceAgain(c) ==
  /\ pc[c] = "invoice"
  /\ invoice' = TRUE
  /\ pc' = [pc EXCEPT ![c] = "announce"]
  /\ UNCHANGED <<intent, session, ledger, outbox, invoiceEvents, credited, overdue, chain,
                 request, verdict, loops, faults>>

\* After the commit: the invoice row (ON CONFLICT DO NOTHING) ...
InsertInvoice(c) ==
  /\ pc[c] = "invoice"
  /\ invoice' = TRUE
  /\ pc' = [pc EXCEPT ![c] = IF invoice THEN AfterCall(c) ELSE "announce"]
  /\ UNCHANGED <<intent, session, ledger, outbox, invoiceEvents, credited, overdue, chain,
                 request, verdict, loops, faults>>

\* ... and, for who inserted it, the event, each in a transaction of its own.
EnqueueInvoice(c) ==
  /\ pc[c] = "announce"
  /\ invoiceEvents' = invoiceEvents + 1
  /\ pc' = [pc EXCEPT ![c] = AfterCall(c)]
  /\ UNCHANGED <<intent, session, ledger, outbox, invoice, credited, overdue, chain, request,
                 verdict, loops, faults>>

\* The call fails or its process dies: the open transaction rolls back, what
\* was to follow the commit does not happen.
AbortConfirm(c) ==
  /\ pc[c] \in {"open", "invoice", "announce"}
  /\ Fault
  /\ CloseCall(c, AfterCall(c))
  /\ UNCHANGED <<rows, overdue, chain, loops>>

\* A client reports a transaction: a transfer that happened, with the depth it
\* has now or had earlier, or anything at all.
Reports ==
  IF TrueReports
  THEN UNION {[hash : {h}, amount : {chain[h].amount}, confirmations : 0..chain[h].depth] :
                h \in DOMAIN chain}
  ELSE [hash : Hashes, amount : Amounts, confirmations : Depths]

ReportTransfer(c) ==
  /\ pc[c] = "idle"
  /\ \E r \in Reports : BeginConfirm(c, r)
  /\ UNCHANGED <<rows, overdue, chain, loops, faults>>

-----------------------------------------------------------------------------
(* The loop of the chain observer that follows recorded transactions *)

\* Seeded fault: only partly paid intents are followed.
SelectRecordedPartial ==
  /\ "receipts" \in Observing
  /\ pc["receipts"] = "idle"
  /\ intent.status = "partial"
  /\ polling' = {[hash |-> h, amount |-> ledger[h].amount] :
                   h \in {g \in DOMAIN ledger : ledger[g].confirmations < Required}}
  /\ polling' # {}
  /\ pc' = [pc EXCEPT !["receipts"] = "polling"]
  /\ UNCHANGED <<rows, overdue, chain, request, verdict, latest, balance, faults>>

SelectRecorded ==
  /\ "receipts" \in Observing
  /\ pc["receipts"] = "idle"
  /\ intent.status \in Pending
  /\ polling' = {[hash |-> h, amount |-> ledger[h].amount] :
                   h \in {g \in DOMAIN ledger : ledger[g].confirmations < Required}}
  /\ polling' # {}
  /\ pc' = [pc EXCEPT !["receipts"] = "polling"]
  /\ UNCHANGED <<rows, overdue, chain, request, verdict, latest, balance, faults>>

\* The block number is read once in a pass, for whichever row comes first.
ReadLatestBlock ==
  /\ pc["receipts"] = "polling"
  /\ polling # {} /\ latest = <<>> /\ chain # <<>>
  /\ latest' = chain
  /\ UNCHANGED <<rows, overdue, chain, calls, polling, balance, faults>>

\* Transfer h is in a block of chain t.
Lies(t, h) == h \in DOMAIN t /\ t[h].depth > 0
Mined(h) == Lies(chain, h)

\* Seeded fault: the block of the transfer itself is counted twice.
OneConfirmationMore(t, h) == IF t[h].depth < Required THEN t[h].depth + 1 ELSE Required

\* latest - receiptBlock + 1.
Confirmations(t, h) == t[h].depth

\* A row of the selection that has a receipt is confirmed, though the intent
\* may have changed since: with its depth under the cached block number, unless
\* it was mined after that.
PollReceipt(x) ==
  /\ pc["receipts"] = "polling"
  /\ x \in polling
  /\ polling' = polling \ {x}
  /\ \/ /\ Lies(latest, x.hash)
        /\ BeginConfirm("receipts", [hash |-> x.hash, amount |-> x.amount,
                                     confirmations |-> Confirmations(latest, x.hash)])
        /\ UNCHANGED faults
     \/ /\ ~Mined(x.hash) \/ (latest # <<>> /\ ~Lies(latest, x.hash))
        /\ UNCHANGED <<calls, faults>>
     \/ Fault /\ UNCHANGED calls
  /\ UNCHANGED <<rows, overdue, chain, latest, balance>>

EndPolling ==
  /\ pc["receipts"] = "polling"
  /\ polling = {}
  /\ pc' = [pc EXCEPT !["receipts"] = "idle"]
  /\ latest' = <<>>
  /\ UNCHANGED <<rows, overdue, chain, request, verdict, polling, balance, faults>>

-----------------------------------------------------------------------------
(* The loop that expires intents and looks for deposits *)

\* The foreign key of a first insert holds the intent's row.
Locked == \E c \in Callers : pc[c] = "open" /\ request[c].hash \notin DOMAIN ledger

\* Intent, session and event are written while the selected rows are open.
ExpireOldIntents ==
  /\ pc["deposits"] = "idle"
  /\ pc' = [pc EXCEPT !["deposits"] = "observe"]
  /\ \E updated \in NestedExec :
       IF overdue /\ intent.status \in Pending /\ ~Locked /\ updated
       THEN /\ intent' = [intent EXCEPT !.status = "expired"]
            /\ session' = "expired"
            /\ outbox' = outbox \cup {"payment.expired"}
       ELSE UNCHANGED <<intent, session, outbox>>
  /\ UNCHANGED <<ledger, invoice, invoiceEvents, credited, overdue, chain, request, verdict,
                 loops, faults>>

\* Seeded faults: intents that received something are observed again, or
\* expired ones no more.
SelectDepositAgain ==
  /\ pc["deposits"] = "observe"
  /\ pc' = [pc EXCEPT !["deposits"] =
              IF "deposits" \in Observing /\ intent.status \in Pending \cup {"expired"}
              THEN "balance" ELSE "idle"]
  /\ UNCHANGED <<rows, overdue, chain, request, verdict, loops, faults>>
SelectDepositInTime ==
  /\ pc["deposits"] = "observe"
  /\ pc' = [pc EXCEPT !["deposits"] =
              IF "deposits" \in Observing /\ intent.status \in Pending /\ intent.received = 0
              THEN "balance" ELSE "idle"]
  /\ UNCHANGED <<rows, overdue, chain, request, verdict, loops, faults>>

\* Intents that received nothing yet, expired ones included.
SelectDeposit ==
  /\ pc["deposits"] = "observe"
  /\ pc' = [pc EXCEPT !["deposits"] =
              IF /\ "deposits" \in Observing
                 /\ intent.status \in Pending \cup {"expired"}
                 /\ intent.received = 0
              THEN "balance" ELSE "idle"]
  /\ UNCHANGED <<rows, overdue, chain, request, verdict, loops, faults>>

\* The amounts of the transfers at least d deep.
OnChain(d) == Sum(chain, {h \in DOMAIN chain : chain[h].depth >= d})

ReadBalance ==
  /\ pc["deposits"] = "balance"
  /\ \/ balance' = OnChain(1) /\ UNCHANGED faults
     \/ balance' = 0 /\ Fault
  /\ pc' = [pc EXCEPT !["deposits"] = IF balance' > 0 THEN "observed" ELSE "logs"]
  /\ UNCHANGED <<rows, overdue, chain, request, verdict, polling, latest>>

\* The balance counts as confirmed whatever its depth; no transaction is
\* recorded for it.  A transaction that fails may have committed.
ConfirmObservedBalance ==
  /\ pc["deposits"] = "observed"
  /\ LET status == ResolveIntentStatus(Expected, balance, Tolerance, Required, Required)
         paid == IntentStatusIsPaid(status)
     IN  \/ /\ WriteVerdict([status |-> status, received |-> balance,
                             confirmations |-> Required, paid |-> paid])
            /\ credited' = TRUE
            /\ \/ /\ pc' = [pc EXCEPT !["deposits"] = IF paid THEN "idle" ELSE "logs"]
                  /\ UNCHANGED faults
               \/ Fault /\ pc' = [pc EXCEPT !["deposits"] = "logs"]
         \/ /\ Fault
            /\ pc' = [pc EXCEPT !["deposits"] = "logs"]
            /\ UNCHANGED <<intent, session, outbox, credited>>
  /\ balance' = 0
  /\ UNCHANGED <<ledger, invoice, invoiceEvents, overdue, chain, request, verdict, polling,
                 latest>>

\* The total of the transfer logs is reported as one transaction, under the
\* hash of the last of them and with the depth of the shallowest.
ScanLogs ==
  /\ pc["deposits"] = "logs"
  /\ LET mined == {h \in DOMAIN chain : Mined(h)}
     IN  \/ /\ mined # {}
            /\ BeginConfirm("deposits", [hash |-> Max(mined), amount |-> OnChain(1),
                                         confirmations |-> Min({chain[h].depth : h \in mined})])
            /\ UNCHANGED faults
         \/ /\ \/ mined = {} /\ UNCHANGED faults
               \/ Fault
            /\ pc' = [pc EXCEPT !["deposits"] = "idle"]
            /\ UNCHANGED <<request, verdict>>
  /\ UNCHANGED <<rows, overdue, chain, loops>>

-----------------------------------------------------------------------------
(* Everyone else *)

\* Seeded fault: nothing keeps a paid session from being canceled.
CancelAnySession ==
  /\ session' = "canceled"
  /\ UNCHANGED <<intent, ledger, outbox, invoice, invoiceEvents, credited, overdue, chain,
                 calls, loops, faults>>

\* The customer leaves: checkout_canceled.
CancelSession ==
  /\ session # "paid"
  /\ ~IntentStatusIsPaid(intent.status)
  /\ session' = "canceled"
  /\ UNCHANGED <<intent, ledger, outbox, invoice, invoiceEvents, credited, overdue, chain,
                 calls, loops, faults>>

\* The payout worker's completePayoutItem.
Settle ==
  /\ intent.status \in {"confirmed", "overpaid"}
  /\ intent' = [intent EXCEPT !.status = "settled"]
  /\ UNCHANGED <<session, ledger, outbox, invoice, invoiceEvents, credited, overdue, chain,
                 calls, loops, faults>>

\* The customer broadcasts a transfer to the deposit address.
Transfer ==
  /\ Len(chain) < MaxTransfers
  /\ \E a \in Amounts : chain' = Append(chain, [amount |-> a, depth |-> 0])
  /\ UNCHANGED <<rows, overdue, calls, loops, faults>>

\* A block: every transfer gets one confirmation more (counted up to Required).
Block ==
  /\ \E h \in DOMAIN chain : chain[h].depth < Required
  /\ chain' = [h \in DOMAIN chain |->
                 [chain[h] EXCEPT !.depth = IF @ < Required THEN @ + 1 ELSE @]]
  /\ UNCHANGED <<rows, overdue, calls, loops, faults>>

\* expires_at passes.
TimePasses ==
  /\ MayExpire
  /\ ~overdue
  /\ overdue' = TRUE
  /\ UNCHANGED <<rows, chain, calls, loops, faults>>

-----------------------------------------------------------------------------

\* The rest of a call, once its request is in hand.
FinishCall(c) == CommitConfirm(c) \/ InsertInvoice(c) \/ EnqueueInvoice(c)

ReceiptLoop ==
  \/ SelectRecorded \/ ReadLatestBlock \/ (\E x \in polling : PollReceipt(x)) \/ EndPolling
  \/ FinishCall("receipts")

DepositLoop ==
  \/ ExpireOldIntents \/ SelectDeposit \/ ReadBalance \/ ConfirmObservedBalance \/ ScanLogs
  \/ FinishCall("deposits")

Next ==
  \/ ReceiptLoop
  \/ DepositLoop
  \/ \E c \in Clients : ReportTransfer(c) \/ FinishCall(c)
  \/ \E c \in Callers : AbortConfirm(c)
  \/ CancelSession
  \/ Settle
  \/ Transfer
  \/ Block
  \/ TimePasses

Spec == Init /\ [][Next]_vars

\* The loops are restarted by their tickers and get the locked row of a hash
\* in turn, calls in progress end, and the chain goes on.
FairSpec ==
  /\ Spec
  /\ SF_vars(ReceiptLoop)
  /\ SF_vars(DepositLoop)
  /\ \A c \in Clients : WF_vars(FinishCall(c))
  /\ WF_vars(Block)

-----------------------------------------------------------------------------
(* Properties *)

\* Intent and session agree however calls, expiry, cancellation and settlement
\* interleave: a paid session has a paid intent, a confirmed intent a paid
\* session, and an expired intent a session that is over.
SessionFollowsIntent ==
  /\ session = "paid" => IntentStatusIsPaid(intent.status)
  /\ intent.status = "confirmed" => session = "paid"
  /\ intent.status = "expired" => session \in {"expired", "canceled"}

\* A paid session was announced: confirmed_at is set exactly when
\* payment.confirmed was enqueued, and payment.detected came with it.
PaidIsAnnounced ==
  /\ intent.confirmedAt <=> "payment.confirmed" \in outbox
  /\ session = "paid" => intent.confirmedAt
  /\ "payment.confirmed" \in outbox => "payment.detected" \in outbox

\* However often and by however many callers a session is confirmed, at most
\* one invoice is announced, and only for a payment that was confirmed.
OneInvoice ==
  /\ invoiceEvents <= 1
  /\ invoiceEvents = 1 => invoice
  /\ invoice => intent.confirmedAt

\* A payment is announced when it is confirmed, and invoiced once, whichever
\* callers meet between the commit and the invoice.
PaidIsToldOnce == PaidIsAnnounced /\ OneInvoice

\* An intent never counts more money than was sent to its deposit address.
ReceivedIsOnChain == intent.received <= OnChain(0)

\* However stale the verdict that is written, a session is only paid by
\* transfers that reached the required depth, until the deposit loop counts
\* what it found, a balance of any depth as confirmed.  Where nobody else
\* reports, even that is covered by transfers that are mined.
PaidIsConfirmedOnChain ==
  session = "paid" =>
    /\ ~credited => OnChain(Required) >= ComputeBounds(Expected, Tolerance).min
    /\ Clients = {} => OnChain(1) >= ComputeBounds(Expected, Tolerance).min

\* The amount of an intent is the sum of the transactions recorded for it.
ReceivedIsAggregate == intent.received = Sum(ledger, DOMAIN ledger)

\* A settled intent stays settled.
SettledIsFinal == [][intent.status = "settled" => intent'.status = "settled"]_vars

\* A first transfer of the expected amount eventually makes the session paid.
ExactTransferIsPaid ==
  (chain # <<>> /\ chain[1].amount = Expected) ~> session = "paid"

\* Stale pending intents are expired, or assessed otherwise (README.md:83).
OverdueIsExpired ==
  (overdue /\ intent.status \in Pending) ~> intent.status \notin Pending
=============================================================================
