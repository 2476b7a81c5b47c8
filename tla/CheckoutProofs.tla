--------------------------- MODULE CheckoutProofs ---------------------------
(***************************************************************************)
(* Proofs about Checkout and CheckoutViews, for any number of callers and  *)
(* pages, any price, tolerance and depth, any transfers and reports, and   *)
(* any interleaving.                                                       *)
(***************************************************************************)
EXTENDS CheckoutViews, FiniteSetTheorems, TLAPS

\* What the proofs need to know of the types of the control state.
ShapeOK ==
  /\ pc \in [Callers -> LoopPoint]
  /\ DOMAIN verdict = Callers
  /\ verdict = [c \in Callers |-> verdict[c]]
  /\ \A c \in Callers : verdict[c].paid \in BOOLEAN
  /\ intent.confirmedAt \in BOOLEAN
  /\ invoice \in BOOLEAN
  /\ invoiceEvents \in Nat

\* The invoice of a call in progress is the invoice of a confirmed payment,
\* and only the call that inserted it announces it, which nobody did before.
InvoicesOK ==
  /\ invoice => intent.confirmedAt
  /\ \A c \in Callers :
       /\ pc[c] = "invoice" => intent.confirmedAt
       /\ pc[c] = "announce" => invoice /\ invoiceEvents = 0
       /\ \A d \in Callers : pc[c] = "announce" /\ pc[d] = "announce" => c = d
  /\ invoiceEvents <= 1
  /\ invoiceEvents = 1 => invoice

AnnounceInv == ShapeOK /\ InvoicesOK /\ PaidIsAnnounced

USE DEF Callers, CallPoint, LoopPoint

-----------------------------------------------------------------------------

\* Nothing is announced or invoiced when the session is created.
LEMMA InitAnnounceInv == Init => AnnounceInv
  <1> SUFFICES ASSUME Init PROVE AnnounceInv
    OBVIOUS
  <1>1. NoVerdict.paid = FALSE /\ intent.confirmedAt = FALSE
    BY DEF Init, NoVerdict
  <1>2. ShapeOK
    BY <1>1 DEF Init, ShapeOK
  <1>3. InvoicesOK
    BY DEF Init, InvoicesOK
  <1>4. PaidIsAnnounced
    BY <1>1 DEF Init, PaidIsAnnounced
  <1>5. QED
    BY <1>2, <1>3, <1>4 DEF AnnounceInv

\* Paid is a condition on statuses.
LEMMA AssessPaidIsBoolean == ASSUME NEW l PROVE Assess(l).paid \in BOOLEAN
  BY DEF Assess, IntentStatusIsPaid

\* Opening a transaction changes neither what is announced nor invoiced.
LEMMA BeginKeepsShape ==
  ASSUME AnnounceInv, NEW c \in Callers, NEW r, BeginConfirm(c, r),
         UNCHANGED <<intent, session, outbox, invoice, invoiceEvents>>
  PROVE  AnnounceInv'
  <1> USE DEF AnnounceInv
  <1>1. /\ DOMAIN verdict' = Callers
        /\ verdict' = [d \in Callers |-> verdict'[d]]
        /\ \A d \in Callers : verdict'[d].paid \in BOOLEAN
    BY AssessPaidIsBoolean DEF ShapeOK, BeginConfirm
  <1>2. pc' = [pc EXCEPT ![c] = "open"]
    BY DEF BeginConfirm
  <1>3. ShapeOK'
    BY <1>1, <1>2 DEF ShapeOK
  <1>4. InvoicesOK' /\ PaidIsAnnounced'
    BY <1>2 DEF ShapeOK, InvoicesOK, PaidIsAnnounced
  <1>5. QED
    BY <1>3, <1>4

\* A verdict that is written keeps session, confirmed_at and events together.
LEMMA WriteKeepsAnnounced ==
  ASSUME PaidIsAnnounced, intent.confirmedAt \in BOOLEAN, NEW v, v.paid \in BOOLEAN,
         WriteVerdict(v)
  PROVE  /\ PaidIsAnnounced'
         /\ intent.confirmedAt => intent'.confirmedAt
         /\ v.paid => intent'.confirmedAt
         /\ intent'.confirmedAt \in BOOLEAN
  <1>1. intent'.confirmedAt = (intent.confirmedAt \/ v.paid)
    BY DEF WriteVerdict
  <1>2. CASE v.paid
    BY <1>1, <1>2 DEF WriteVerdict, PaidIsAnnounced
  <1>3. CASE ~v.paid
    BY <1>1, <1>3 DEF WriteVerdict, PaidIsAnnounced
  <1>4. QED
    BY <1>2, <1>3

\* The end of a call, whatever it leaves behind, keeps the shape.
LEMMA CloseKeepsShape ==
  ASSUME ShapeOK, NEW c \in Callers, NEW next \in LoopPoint, CloseCall(c, next)
  PROVE  /\ pc' = [pc EXCEPT ![c] = next]
         /\ pc' \in [Callers -> LoopPoint]
         /\ DOMAIN verdict' = Callers
         /\ verdict' = [d \in Callers |-> verdict'[d]]
         /\ \A d \in Callers : verdict'[d].paid \in BOOLEAN
  <1>1. NoVerdict.paid \in BOOLEAN
    BY DEF NoVerdict
  <1>2. QED
    BY <1>1 DEF ShapeOK, CloseCall

\* A commit announces what its verdict says, and hands the invoice to one caller.
LEMMA CommitKeepsAnnounced ==
  ASSUME AnnounceInv, NEW c \in Callers, CommitConfirm(c)
  PROVE  AnnounceInv'
  <1> DEFINE next == IF verdict[c].paid /\ AddInvoice THEN "invoice" ELSE AfterCall(c)
  <1>1. next \in LoopPoint \ {"announce"} /\ (next = "invoice" => verdict[c].paid)
    BY DEF AfterCall
  <1>2. CloseCall(c, next) /\ WriteVerdict(verdict[c])
    BY DEF CommitConfirm
  <1>3. UNCHANGED <<invoice, invoiceEvents>>
    BY DEF CommitConfirm
  <1> HIDE DEF next
  <1>4. /\ pc' = [pc EXCEPT ![c] = next]
        /\ pc' \in [Callers -> LoopPoint]
        /\ DOMAIN verdict' = Callers
        /\ verdict' = [d \in Callers |-> verdict'[d]]
        /\ \A d \in Callers : verdict'[d].paid \in BOOLEAN
    BY <1>1, <1>2, CloseKeepsShape DEF AnnounceInv
  <1>5. /\ PaidIsAnnounced'
        /\ intent.confirmedAt => intent'.confirmedAt
        /\ verdict[c].paid => intent'.confirmedAt
        /\ intent'.confirmedAt \in BOOLEAN
    BY <1>2, WriteKeepsAnnounced DEF AnnounceInv, ShapeOK
  <1>6. ShapeOK'
    BY <1>3, <1>4, <1>5 DEF AnnounceInv, ShapeOK
  <1>7. InvoicesOK'
    BY <1>1, <1>3, <1>4, <1>5 DEF AnnounceInv, ShapeOK, InvoicesOK
  <1>8. QED
    BY <1>5, <1>6, <1>7 DEF AnnounceInv

\* Only the caller that finds no invoice goes on to announce one.
LEMMA InsertKeepsInvoices ==
  ASSUME AnnounceInv, NEW c \in Callers, InsertInvoice(c)
  PROVE  AnnounceInv'
  <1> USE DEF AnnounceInv
  <1>1. pc[c] = "invoice" /\ invoice' = TRUE /\ UNCHANGED <<intent, session, outbox, invoiceEvents,
                                                            verdict>>
    BY DEF InsertInvoice
  <1>2. CASE invoice
    <2>1. pc' = [pc EXCEPT ![c] = AfterCall(c)] /\ AfterCall(c) \in {"idle", "polling"}
      BY <1>2 DEF InsertInvoice, AfterCall
    <2>2. QED
      BY <1>1, <1>2, <2>1 DEF ShapeOK, InvoicesOK, PaidIsAnnounced
  <1>3. CASE ~invoice
    <2>1. pc' = [pc EXCEPT ![c] = "announce"]
      BY <1>3 DEF InsertInvoice
    <2>2. invoiceEvents = 0 /\ \A d \in Callers : pc[d] # "announce"
      BY <1>3 DEF ShapeOK, InvoicesOK
    <2>3. QED
      BY <1>1, <2>1, <2>2 DEF ShapeOK, InvoicesOK, PaidIsAnnounced
  <1>4. QED
    BY <1>2, <1>3

\* The caller that announces the invoice is the one that inserted it.
LEMMA EnqueueKeepsInvoices ==
  ASSUME AnnounceInv, NEW c \in Callers, EnqueueInvoice(c)
  PROVE  AnnounceInv'
  <1> USE DEF AnnounceInv
  <1>1. /\ pc[c] = "announce" /\ invoiceEvents' = invoiceEvents + 1
        /\ UNCHANGED <<intent, session, outbox, invoice, verdict>>
    BY DEF EnqueueInvoice
  <1>2. pc' = [pc EXCEPT ![c] = AfterCall(c)] /\ AfterCall(c) \in {"idle", "polling"}
    BY DEF EnqueueInvoice, AfterCall
  <1>3. invoice /\ invoiceEvents = 0 /\ \A d \in Callers : pc[d] = "announce" => d = c
    BY <1>1 DEF ShapeOK, InvoicesOK
  <1>4. ShapeOK' /\ InvoicesOK'
    BY <1>1, <1>2, <1>3 DEF ShapeOK, InvoicesOK
  <1>5. PaidIsAnnounced'
    BY <1>1 DEF PaidIsAnnounced
  <1>6. QED
    BY <1>4, <1>5

\* A failed call leaves what was announced as it is.
LEMMA AbortKeepsAnnounced ==
  ASSUME AnnounceInv, NEW c \in Callers, AbortConfirm(c)
  PROVE  AnnounceInv'
  <1> USE DEF AnnounceInv
  <1>1. CloseCall(c, AfterCall(c)) /\ UNCHANGED rows
    BY DEF AbortConfirm
  <1>2. AfterCall(c) \in {"idle", "polling"}
    BY DEF AfterCall
  <1>3. /\ pc' = [pc EXCEPT ![c] = AfterCall(c)]
        /\ ShapeOK'
    BY <1>1, <1>2, CloseKeepsShape DEF ShapeOK, rows
  <1>4. InvoicesOK' /\ PaidIsAnnounced'
    BY <1>1, <1>2, <1>3 DEF ShapeOK, InvoicesOK, PaidIsAnnounced, rows
  <1>5. QED
    BY <1>3, <1>4

\* A caller that moves between points outside of a call.
LEMMA MoveKeepsAnnounced ==
  ASSUME AnnounceInv, NEW c \in Callers, NEW next \in LoopPoint \ {"invoice", "announce"},
         pc' = [pc EXCEPT ![c] = next],
         UNCHANGED <<intent, session, outbox, invoice, invoiceEvents, verdict>>
  PROVE  AnnounceInv'
  BY DEF AnnounceInv, ShapeOK, InvoicesOK, PaidIsAnnounced

\* So does a step that touches no row of the invariant.
LEMMA StandKeepsAnnounced ==
  ASSUME AnnounceInv,
         UNCHANGED <<intent, session, outbox, invoice, invoiceEvents, verdict, pc>>
  PROVE  AnnounceInv'
  BY DEF AnnounceInv, ShapeOK, InvoicesOK, PaidIsAnnounced

\* The invariant under each step of the receipt loop.
LEMMA ReceiptLoopKeepsAnnounced ==
  ASSUME AnnounceInv, ReceiptLoop
  PROVE  AnnounceInv'
  <1>1. CASE SelectRecorded
    BY <1>1, MoveKeepsAnnounced DEF SelectRecorded, rows
  <1>5. CASE ReadLatestBlock
    BY <1>5, StandKeepsAnnounced DEF ReadLatestBlock, rows, calls
  <1>2. ASSUME NEW x \in polling, PollReceipt(x) PROVE AnnounceInv'
    <2>1. UNCHANGED rows
      BY <1>2 DEF PollReceipt
    <2>2. CASE UNCHANGED calls
      BY <2>1, <2>2, StandKeepsAnnounced DEF rows, calls
    <2>3. CASE BeginConfirm("receipts", [hash |-> x.hash, amount |-> x.amount,
                                         confirmations |-> Confirmations(latest, x.hash)])
      BY <2>1, <2>3, BeginKeepsShape DEF rows
    <2>4. QED
      BY <1>2, <2>2, <2>3 DEF PollReceipt
  <1>3. CASE EndPolling
    BY <1>3, MoveKeepsAnnounced DEF EndPolling, rows
  <1>4. CASE FinishCall("receipts")
    BY <1>4, CommitKeepsAnnounced, InsertKeepsInvoices, EnqueueKeepsInvoices DEF FinishCall
  <1>6. QED
    BY <1>1, <1>2, <1>3, <1>4, <1>5 DEF ReceiptLoop

\* The invariant under each step of the deposit loop.
LEMMA DepositLoopKeepsAnnounced ==
  ASSUME AnnounceInv, DepositLoop
  PROVE  AnnounceInv'
  <1>1. CASE ExpireOldIntents
    <2>1. /\ pc' = [pc EXCEPT !["deposits"] = "observe"]
          /\ UNCHANGED <<invoice, invoiceEvents, verdict>>
      BY <1>1 DEF ExpireOldIntents
    <2>2. CASE UNCHANGED <<intent, session, outbox>>
      BY <2>1, <2>2, MoveKeepsAnnounced
    <2>3. CASE /\ intent' = [intent EXCEPT !.status = "expired"]
               /\ session' = "expired"
               /\ outbox' = outbox \cup {"payment.expired"}
      <3>1. intent'.confirmedAt = intent.confirmedAt
        BY <2>3
      <3>2. QED
        BY <2>1, <2>3, <3>1 DEF AnnounceInv, ShapeOK, InvoicesOK, PaidIsAnnounced
    <2>4. QED
      BY <1>1, <2>2, <2>3 DEF ExpireOldIntents
  <1>2. CASE SelectDeposit
    BY <1>2, MoveKeepsAnnounced DEF SelectDeposit, rows
  <1>3. CASE ReadBalance
    <2>1. UNCHANGED <<intent, session, outbox, invoice, invoiceEvents, verdict>>
      BY <1>3 DEF ReadBalance, rows
    <2>2. QED
      BY <1>3, <2>1, MoveKeepsAnnounced DEF ReadBalance
  <1>4. CASE ConfirmObservedBalance
    <2> DEFINE status == ResolveIntentStatus(Expected, balance, Tolerance, Required, Required)
               paid == IntentStatusIsPaid(status)
               v == [status |-> status, received |-> balance,
                     confirmations |-> Required, paid |-> paid]
    <2>1. UNCHANGED <<invoice, invoiceEvents, verdict>>
      BY <1>4 DEF ConfirmObservedBalance
    <2>2. CASE /\ WriteVerdict(v)
               /\ \E next \in {"idle", "logs"} : pc' = [pc EXCEPT !["deposits"] = next]
      <3>1. v.paid \in BOOLEAN
        BY DEF IntentStatusIsPaid
      <3>2. WriteVerdict(v)
        BY <2>2
      <3> HIDE DEF v
      <3>3. /\ PaidIsAnnounced'
            /\ intent.confirmedAt => intent'.confirmedAt
            /\ intent'.confirmedAt \in BOOLEAN
        BY <3>1, <3>2, WriteKeepsAnnounced DEF AnnounceInv, ShapeOK
      <3>4. QED
        BY <2>1, <2>2, <3>3 DEF AnnounceInv, ShapeOK, InvoicesOK
    <2>3. CASE /\ UNCHANGED <<intent, session, outbox>>
               /\ pc' = [pc EXCEPT !["deposits"] = "logs"]
      BY <2>1, <2>3, MoveKeepsAnnounced
    <2>4. QED
      BY <1>4, <2>2, <2>3 DEF ConfirmObservedBalance
  <1>5. CASE ScanLogs
    <2>1. UNCHANGED rows
      BY <1>5 DEF ScanLogs
    <2>2. CASE pc' = [pc EXCEPT !["deposits"] = "idle"] /\ UNCHANGED <<request, verdict>>
      BY <2>1, <2>2, MoveKeepsAnnounced DEF rows
    <2>3. CASE \E r : BeginConfirm("deposits", r)
      BY <2>1, <2>3, BeginKeepsShape DEF rows
    <2>4. QED
      BY <1>5, <2>2, <2>3 DEF ScanLogs
  <1>6. CASE FinishCall("deposits")
    BY <1>6, CommitKeepsAnnounced, InsertKeepsInvoices, EnqueueKeepsInvoices DEF FinishCall
  <1>7. QED
    BY <1>1, <1>2, <1>3, <1>4, <1>5, <1>6 DEF DepositLoop

\* The invariant under every step, one case per disjunct of Next.
LEMMA StepKeepsAnnounced == AnnounceInv /\ [Next]_vars => AnnounceInv'
  <1> SUFFICES ASSUME AnnounceInv, [Next]_vars PROVE AnnounceInv'
    OBVIOUS
  <1>1. CASE ReceiptLoop
    BY <1>1, ReceiptLoopKeepsAnnounced
  <1>2. CASE DepositLoop
    BY <1>2, DepositLoopKeepsAnnounced
  <1>3. ASSUME NEW c \in Clients, ReportTransfer(c) \/ FinishCall(c) PROVE AnnounceInv'
    <2>1. CASE ReportTransfer(c)
      BY <2>1, BeginKeepsShape DEF ReportTransfer, rows
    <2>2. CASE FinishCall(c)
      BY <2>2, CommitKeepsAnnounced, InsertKeepsInvoices, EnqueueKeepsInvoices DEF FinishCall
    <2>3. QED
      BY <1>3, <2>1, <2>2
  <1>4. ASSUME NEW c \in Callers, AbortConfirm(c) PROVE AnnounceInv'
    BY <1>4, AbortKeepsAnnounced
  <1>5. CASE CancelSession
    BY <1>5 DEF CancelSession, calls, AnnounceInv, ShapeOK, InvoicesOK, PaidIsAnnounced
  <1>6. CASE Settle
    <2>1. intent'.confirmedAt = intent.confirmedAt
      BY <1>6 DEF Settle
    <2>2. QED
      BY <1>6, <2>1 DEF Settle, calls, AnnounceInv, ShapeOK, InvoicesOK, PaidIsAnnounced
  <1>7. CASE Transfer \/ Block \/ TimePasses \/ UNCHANGED vars
    BY <1>7, StandKeepsAnnounced DEF Transfer, Block, TimePasses, vars, rows, calls
  <1>8. QED
    BY <1>1, <1>2, <1>3, <1>4, <1>5, <1>6, <1>7 DEF Next

\* AnnounceInv is an inductive invariant of the specification.
LEMMA AnnouncementsAreInvariant == Spec => []AnnounceInv
  BY InitAnnounceInv, StepKeepsAnnounced, PTL DEF Spec

\* However many callers confirm a session, and whatever fails, at most one
\* invoice is announced.
THEOREM InvoicedOnce == Spec => []OneInvoice
  <1>1. AnnounceInv => OneInvoice
    BY DEF AnnounceInv, InvoicesOK, OneInvoice
  <1>2. QED
    BY <1>1, AnnouncementsAreInvariant, PTL

\* A session that is paid was announced: the events in the outbox agree with
\* confirmed_at in every interleaving.
THEOREM PaymentIsAnnounced == Spec => []PaidIsAnnounced
  <1>1. AnnounceInv => PaidIsAnnounced
    BY DEF AnnounceInv
  <1>2. QED
    BY <1>1, AnnouncementsAreInvariant, PTL

-----------------------------------------------------------------------------
(* Session and intent *)

\* A verdict that keeps session and intent together when it is written.
Coherent(v) ==
  /\ v.paid \in BOOLEAN
  /\ v.paid => IntentStatusIsPaid(v.status)
  /\ v.status = "confirmed" => v.paid
  /\ v.status # "expired"

\* All depths are numbers, so that they have a least one.
DepthsOK ==
  /\ \A h \in DOMAIN ledger : ledger[h].confirmations \in Nat
  /\ \A c \in Callers : request[c].confirmations \in Nat
  /\ \A h \in DOMAIN chain : chain[h].depth \in Nat

\* So are those of the block that the receipt loop has cached.
LatestOK == \A h \in DOMAIN latest : latest[h].depth \in Nat

TablesOK ==
  /\ request = [c \in Callers |-> request[c]]
  /\ verdict = [c \in Callers |-> verdict[c]]
  /\ chain \in Seq([amount : Amounts, depth : Nat])

FollowInv ==
  /\ TablesOK
  /\ DepthsOK
  /\ \A c \in Callers : Coherent(verdict[c])
  /\ SessionFollowsIntent

\* A set of numbers has a least one, and that is what Min picks.
LEMMA MinIsLeast ==
  ASSUME NEW S \in SUBSET Nat, S # {}
  PROVE  Min(S) \in S /\ \A n \in S : Min(S) <= n
  <1>1. \E m \in S : \A n \in S : ~(<<n, m>> \in OpToRel(<, Nat))
    BY NatLessThanWellFounded, WFMin
  <1>2. PICK m \in S : \A n \in S : ~(<<n, m>> \in OpToRel(<, Nat))
    BY <1>1
  <1>3. \A n \in S : m <= n
    <2> SUFFICES ASSUME NEW n \in S PROVE m <= n
      OBVIOUS
    <2>1. ~(n < m)
      BY <1>2 DEF OpToRel
    <2>2. QED
      BY <2>1
  <1>4. QED
    BY <1>3 DEF Min

\* Whatever was received, the pricing rules never expire an intent, and call
\* an amount confirmed at some depth only if they do so at the required one.
LEMMA ResolveIsCoherent ==
  ASSUME NEW e, NEW t, NEW r, NEW c \in Nat
  PROVE  /\ ResolveIntentStatus(e, r, t, c, Required) # "expired"
         /\ ResolveIntentStatus(e, r, t, c, Required) = "confirmed"
              => /\ c >= Required
                 /\ ResolveIntentStatus(e, r, t, Required, Required) = "confirmed"
  <1> DEFINE b == ComputeBounds(e, t)
             s == ResolveIntentStatus(e, r, t, c, Required)
             u == ResolveIntentStatus(e, r, t, Required, Required)
             none == r <= 0
             few == r > 0 /\ r < b.min
             many == r > 0 /\ r > b.max
  <1>1. s = CASE none -> "awaiting_funds" [] few -> "partial" [] many -> "overpaid"
              [] OTHER -> IF c < Required THEN "awaiting_funds" ELSE "confirmed"
    BY DEF ResolveIntentStatus
  <1>2. u = CASE none -> "awaiting_funds" [] few -> "partial" [] many -> "overpaid"
              [] OTHER -> IF Required < Required THEN "awaiting_funds" ELSE "confirmed"
    BY DEF ResolveIntentStatus
  <1> HIDE DEF s, u, none, few, many
  <1>3. s # "expired" /\ (s = "confirmed" => ~none /\ ~few /\ ~many /\ ~(c < Required))
    BY <1>1
  <1>4. Required \in Nat
    BY CheckoutAssumption
  <1>5. ~none /\ ~few /\ ~many => u = "confirmed"
    BY <1>2, <1>4
  <1>6. s # "expired" /\ (s = "confirmed" => c >= Required /\ u = "confirmed")
    BY <1>3, <1>4, <1>5
  <1>7. QED
    BY <1>6 DEF s, u

\* What the aggregate says is coherent, for any rows.
LEMMA AssessIsCoherent ==
  ASSUME NEW l, DOMAIN l # {}, \A h \in DOMAIN l : l[h].confirmations \in Nat
  PROVE  Coherent(Assess(l))
  <1> DEFINE deep == {h \in DOMAIN l : l[h].confirmations >= Required}
             depths == {l[h].confirmations : h \in DOMAIN l}
             least == Min(depths)
             sure == ResolveIntentStatus(Expected, Sum(l, deep), Tolerance, Required, Required)
             now == ResolveIntentStatus(Expected, Sum(l, DOMAIN l), Tolerance, least, Required)
             paid == IntentStatusIsPaid(sure)
  <1>1. Assess(l) = [status |-> IF paid THEN sure ELSE now, received |-> Sum(l, DOMAIN l),
                     confirmations |-> least, paid |-> paid]
    BY DEF Assess
  <1>2. least \in Nat /\ \A h \in DOMAIN l : least <= l[h].confirmations
    <2>1. depths \in SUBSET Nat /\ depths # {}
      OBVIOUS
    <2> HIDE DEF depths
    <2>2. least \in depths /\ \A n \in depths : least <= n
      BY <2>1, MinIsLeast
    <2>3. QED
      BY <2>1, <2>2 DEF depths
  <1> HIDE DEF least
  <1>3. Required \in Nat
    BY CheckoutAssumption
  <1>4. sure # "expired" /\ now # "expired"
    BY <1>2, <1>3, ResolveIsCoherent
  <1>5. now = "confirmed" => paid
    <2> SUFFICES ASSUME now = "confirmed" PROVE paid
      OBVIOUS
    <2>1. /\ least >= Required
          /\ ResolveIntentStatus(Expected, Sum(l, DOMAIN l), Tolerance, Required, Required)
               = "confirmed"
      BY <1>2, ResolveIsCoherent
    <2>2. \A h \in DOMAIN l : l[h].confirmations >= Required
      BY <1>2, <1>3, <2>1
    <2>3. deep = DOMAIN l
      BY <2>2
    <2>4. sure = "confirmed"
      BY <2>1, <2>3
    <2>5. QED
      BY <2>4 DEF IntentStatusIsPaid
  <1>6. paid \in BOOLEAN
    BY DEF IntentStatusIsPaid
  <1> HIDE DEF sure, now
  <1>7. CASE paid
    BY <1>1, <1>4, <1>6, <1>7 DEF Coherent
  <1>8. CASE ~paid
    BY <1>1, <1>4, <1>5, <1>6, <1>8 DEF Coherent
  <1>9. QED
    BY <1>6, <1>7, <1>8

\* A new session awaits funds, as its intent does.
LEMMA InitFollowInv == Init => FollowInv
  <1> SUFFICES ASSUME Init PROVE FollowInv
    OBVIOUS
  <1>1. Coherent(NoVerdict) /\ NoRequest.confirmations \in Nat
    BY DEF Coherent, NoVerdict, NoRequest
  <1>2. TablesOK /\ DepthsOK
    BY <1>1 DEF Init, TablesOK, DepthsOK
  <1>3. \A c \in Callers : Coherent(verdict[c])
    BY <1>1 DEF Init
  <1>4. SessionFollowsIntent
    BY DEF Init, SessionFollowsIntent
  <1>5. QED
    BY <1>2, <1>3, <1>4 DEF FollowInv

\* An upsert keeps the depths of the table within the natural numbers.
LEMMA UpsertHasDepths ==
  ASSUME NEW l, \A h \in DOMAIN l : l[h].confirmations \in Nat,
         NEW r, r.confirmations \in Nat
  PROVE  /\ DOMAIN Upsert(l, r) # {}
         /\ \A h \in DOMAIN Upsert(l, r) : Upsert(l, r)[h].confirmations \in Nat
  BY DEF Upsert

\* A transaction opens with a coherent verdict and changes no row.
LEMMA BeginKeepsFollowing ==
  ASSUME FollowInv, NEW c \in Callers, NEW r, r.confirmations \in Nat, BeginConfirm(c, r),
         UNCHANGED <<intent, session, ledger, chain>>
  PROVE  FollowInv'
  <1>1. Coherent(Assess(Upsert(ledger, r)))
    BY UpsertHasDepths, AssessIsCoherent DEF FollowInv, DepthsOK
  <1>2. /\ request' = [request EXCEPT ![c] = r]
        /\ verdict' = [verdict EXCEPT ![c] = Assess(Upsert(ledger, r))]
    BY DEF BeginConfirm
  <1>3. TablesOK' /\ DepthsOK'
    BY <1>2 DEF FollowInv, TablesOK, DepthsOK
  <1>4. \A d \in Callers : Coherent(verdict'[d])
    BY <1>1, <1>2 DEF FollowInv, TablesOK
  <1>5. SessionFollowsIntent'
    BY DEF FollowInv, SessionFollowsIntent
  <1>6. QED
    BY <1>3, <1>4, <1>5 DEF FollowInv

\* A coherent verdict that is written makes session and intent agree.
LEMMA WriteFollows ==
  ASSUME NEW v, Coherent(v), WriteVerdict(v)
  PROVE  SessionFollowsIntent'
  <1>1. intent'.status = v.status
    BY DEF WriteVerdict
  <1>2. session' = IF v.paid THEN "paid" ELSE "awaiting_funds"
    BY DEF WriteVerdict
  <1>3. QED
    BY <1>1, <1>2 DEF Coherent, SessionFollowsIntent

\* The end of a call keeps tables and verdicts.
LEMMA CloseKeepsFollowing ==
  ASSUME FollowInv, NEW c \in Callers, NEW next, CloseCall(c, next)
  PROVE  /\ request' = [d \in Callers |-> request'[d]]
         /\ verdict' = [d \in Callers |-> verdict'[d]]
         /\ \A d \in Callers : request'[d].confirmations \in Nat /\ Coherent(verdict'[d])
  <1>1. Coherent(NoVerdict) /\ NoRequest.confirmations \in Nat
    BY DEF Coherent, NoVerdict, NoRequest
  <1>2. /\ request' = [request EXCEPT ![c] = NoRequest]
        /\ verdict' = [verdict EXCEPT ![c] = NoVerdict]
    BY DEF CloseCall
  <1>3. QED
    BY <1>1, <1>2 DEF FollowInv, TablesOK, DepthsOK

\* A commit writes its verdict: the session follows the intent.
LEMMA CommitKeepsFollowing ==
  ASSUME FollowInv, NEW c \in Callers, CommitConfirm(c)
  PROVE  FollowInv'
  <1> DEFINE next == IF verdict[c].paid /\ AddInvoice THEN "invoice" ELSE AfterCall(c)
  <1>1. CloseCall(c, next) /\ WriteVerdict(verdict[c])
    BY DEF CommitConfirm
  <1> HIDE DEF next
  <1>2. ledger' = Upsert(ledger, request[c]) /\ chain' = chain
    BY DEF CommitConfirm
  <1>3. \A h \in DOMAIN ledger' : ledger'[h].confirmations \in Nat
    BY <1>2, UpsertHasDepths DEF FollowInv, DepthsOK
  <1>4. /\ request' = [d \in Callers |-> request'[d]]
        /\ verdict' = [d \in Callers |-> verdict'[d]]
        /\ \A d \in Callers : request'[d].confirmations \in Nat /\ Coherent(verdict'[d])
    BY <1>1, CloseKeepsFollowing
  <1>5. SessionFollowsIntent'
    BY <1>1, WriteFollows DEF FollowInv
  <1>6. QED
    BY <1>2, <1>3, <1>4, <1>5 DEF FollowInv, TablesOK, DepthsOK

\* The rest of a call, the invoice included.
LEMMA FinishKeepsFollowing ==
  ASSUME FollowInv, NEW c \in Callers, FinishCall(c)
  PROVE  FollowInv'
  <1>1. CASE CommitConfirm(c)
    BY <1>1, CommitKeepsFollowing
  <1>2. CASE InsertInvoice(c) \/ EnqueueInvoice(c)
    <2>1. UNCHANGED <<intent, session, ledger, chain, request, verdict>>
      BY <1>2 DEF InsertInvoice, EnqueueInvoice
    <2>2. QED
      BY <2>1 DEF FollowInv, TablesOK, DepthsOK, SessionFollowsIntent
  <1>3. QED
    BY <1>1, <1>2 DEF FinishCall

\* A step that touches neither tables nor calls.
LEMMA StandKeepsFollowing ==
  ASSUME FollowInv, UNCHANGED <<intent, session, ledger, chain, request, verdict>>
  PROVE  FollowInv'
  BY DEF FollowInv, TablesOK, DepthsOK, SessionFollowsIntent

\* The cached block is kept, read anew or forgotten.
LEMMA LatestMoves ==
  ASSUME [Next]_vars
  PROVE  latest' = latest \/ latest' = chain \/ latest' = <<>>
  <1>1. CASE ReceiptLoop
    BY <1>1 DEF ReceiptLoop, SelectRecorded, ReadLatestBlock, PollReceipt, EndPolling, FinishCall,
                CommitConfirm, InsertInvoice, EnqueueInvoice, loops
  <1>2. CASE DepositLoop
    BY <1>2 DEF DepositLoop, ExpireOldIntents, SelectDeposit, ReadBalance, ConfirmObservedBalance,
                ScanLogs, FinishCall, CommitConfirm, InsertInvoice, EnqueueInvoice, loops
  <1>3. CASE \/ \E c \in Clients : ReportTransfer(c) \/ FinishCall(c)
             \/ \E c \in Callers : AbortConfirm(c)
    BY <1>3 DEF ReportTransfer, FinishCall, CommitConfirm, InsertInvoice, EnqueueInvoice,
                AbortConfirm, loops
  <1>4. CASE CancelSession \/ Settle \/ Transfer \/ Block \/ TimePasses \/ UNCHANGED vars
    BY <1>4 DEF CancelSession, Settle, Transfer, Block, TimePasses, vars, loops
  <1>5. QED
    BY <1>1, <1>2, <1>3, <1>4 DEF Next

\* The invariant under each step of the receipt loop.
LEMMA ReceiptLoopKeepsFollowing ==
  ASSUME FollowInv, LatestOK, ReceiptLoop
  PROVE  FollowInv'
  <1>1. CASE SelectRecorded \/ ReadLatestBlock \/ EndPolling
    BY <1>1, StandKeepsFollowing DEF SelectRecorded, ReadLatestBlock, EndPolling, rows, calls
  <1>2. ASSUME NEW x \in polling, PollReceipt(x) PROVE FollowInv'
    <2> DEFINE r == [hash |-> x.hash, amount |-> x.amount,
                     confirmations |-> Confirmations(latest, x.hash)]
    <2>1. UNCHANGED rows /\ UNCHANGED chain
      BY <1>2 DEF PollReceipt
    <2>2. CASE UNCHANGED calls
      BY <2>1, <2>2, StandKeepsFollowing DEF rows, calls
    <2>3. CASE Lies(latest, x.hash) /\ BeginConfirm("receipts", r)
      <3>1. r.confirmations \in Nat
        BY <2>3 DEF Lies, LatestOK, Confirmations
      <3> HIDE DEF r
      <3>2. QED
        BY <2>1, <2>3, <3>1, BeginKeepsFollowing DEF rows
    <2>4. QED
      BY <1>2, <2>2, <2>3 DEF PollReceipt
  <1>3. CASE FinishCall("receipts")
    BY <1>3, FinishKeepsFollowing
  <1>4. QED
    BY <1>1, <1>2, <1>3 DEF ReceiptLoop

\* The invariant under each step of the deposit loop.
LEMMA DepositLoopKeepsFollowing ==
  ASSUME FollowInv, DepositLoop
  PROVE  FollowInv'
  <1>1. CASE ExpireOldIntents
    <2>1. UNCHANGED <<ledger, chain, request, verdict>>
      BY <1>1 DEF ExpireOldIntents
    <2>2. CASE UNCHANGED <<intent, session, outbox>>
      BY <2>1, <2>2, StandKeepsFollowing
    <2>3. CASE /\ intent' = [intent EXCEPT !.status = "expired"]
               /\ session' = "expired"
      <3>1. SessionFollowsIntent'
        <4>1. intent'.status = "expired" \/ intent'.status = intent.status
          BY <2>3
        <4>2. CASE intent'.status = "expired"
          BY <2>3, <4>2 DEF SessionFollowsIntent
        <4>3. CASE intent'.status # "expired"
          BY <2>3, <4>3 DEF SessionFollowsIntent
        <4>4. QED
          BY <4>2, <4>3
      <3>2. QED
        BY <2>1, <3>1 DEF FollowInv, TablesOK, DepthsOK
    <2>4. QED
      BY <1>1, <2>2, <2>3 DEF ExpireOldIntents
  <1>2. CASE SelectDeposit \/ ReadBalance
    BY <1>2, StandKeepsFollowing DEF SelectDeposit, ReadBalance, rows
  <1>3. CASE ConfirmObservedBalance
    <2> DEFINE status == ResolveIntentStatus(Expected, balance, Tolerance, Required, Required)
               paid == IntentStatusIsPaid(status)
               v == [status |-> status, received |-> balance,
                     confirmations |-> Required, paid |-> paid]
    <2>1. UNCHANGED <<ledger, chain, request, verdict>>
      BY <1>3 DEF ConfirmObservedBalance
    <2>2. CASE WriteVerdict(v)
      <3>1. status # "expired"
        BY CheckoutAssumption, ResolveIsCoherent
      <3> HIDE DEF status
      <3>2. paid \in BOOLEAN /\ (status = "confirmed" => paid)
        BY DEF IntentStatusIsPaid
      <3>3. Coherent(v)
        <4>1. CASE paid
          BY <3>1, <4>1 DEF Coherent
        <4>2. CASE ~paid
          BY <3>1, <3>2, <4>2 DEF Coherent
        <4>3. QED
          BY <4>1, <4>2
      <3> HIDE DEF v
      <3>4. SessionFollowsIntent'
        BY <2>2, <3>3, WriteFollows
      <3>5. QED
        BY <2>1, <3>4 DEF FollowInv, TablesOK, DepthsOK
    <2>3. CASE UNCHANGED <<intent, session, outbox>>
      BY <2>1, <2>3, StandKeepsFollowing
    <2>4. QED
      BY <1>3, <2>2, <2>3 DEF ConfirmObservedBalance
  <1>4. CASE ScanLogs
    <2> DEFINE mined == {h \in DOMAIN chain : Mined(h)}
               depths == {chain[h].depth : h \in mined}
               r == [hash |-> Max(mined), amount |-> OnChain(1), confirmations |-> Min(depths)]
    <2>1. UNCHANGED rows /\ UNCHANGED chain
      BY <1>4 DEF ScanLogs
    <2>2. CASE UNCHANGED <<request, verdict>>
      BY <2>1, <2>2, StandKeepsFollowing DEF rows
    <2>3. CASE mined # {} /\ BeginConfirm("deposits", r)
      <3>1. depths \in SUBSET Nat /\ depths # {}
        BY <2>3 DEF FollowInv, DepthsOK
      <3> HIDE DEF depths
      <3>2. Min(depths) \in Nat
        BY <3>1, MinIsLeast
      <3>3. r.confirmations \in Nat
        BY <3>2
      <3> HIDE DEF r
      <3>4. QED
        BY <2>1, <2>3, <3>3, BeginKeepsFollowing DEF rows
    <2>4. QED
      BY <1>4, <2>2, <2>3 DEF ScanLogs
  <1>5. CASE FinishCall("deposits")
    BY <1>5, FinishKeepsFollowing
  <1>6. QED
    BY <1>1, <1>2, <1>3, <1>4, <1>5 DEF DepositLoop

\* An element of a sequence over S is in S.
LEMMA SeqElement ==
  ASSUME NEW T, NEW s \in Seq(T)
  PROVE  DOMAIN s = 1..Len(s) /\ \A h \in DOMAIN s : s[h] \in T
  OBVIOUS

\* The customer, the payout worker, the chain and the clock.
LEMMA OthersKeepFollowing ==
  ASSUME FollowInv, CancelSession \/ Settle \/ Transfer \/ Block \/ TimePasses \/ UNCHANGED vars
  PROVE  FollowInv'
  <1>1. CASE CancelSession
    BY <1>1 DEF CancelSession, calls, FollowInv, TablesOK, DepthsOK, SessionFollowsIntent,
                IntentStatusIsPaid
  <1>2. CASE Settle
    <2>1. /\ intent.status \in {"confirmed", "overpaid"}
          /\ UNCHANGED <<session, ledger, chain, request, verdict>>
          /\ intent' = [intent EXCEPT !.status = "settled"]
      BY <1>2 DEF Settle, calls
    <2>2. intent'.status = "settled" \/ intent'.status = intent.status
      BY <2>1
    <2>3. SessionFollowsIntent'
      BY <2>1, <2>2 DEF FollowInv, SessionFollowsIntent, IntentStatusIsPaid
    <2>4. QED
      BY <2>1, <2>3 DEF FollowInv, TablesOK, DepthsOK
  <1>3. CASE Transfer \/ Block
    <2>1. UNCHANGED <<intent, session, ledger, request, verdict>>
      BY <1>3 DEF Transfer, Block, rows, calls
    <2>2. chain \in Seq([amount : Amounts, depth : Nat])
      BY DEF FollowInv, TablesOK
    <2>3. chain' \in Seq([amount : Amounts, depth : Nat])
      <3>1. CASE Transfer
        BY <2>2, <3>1 DEF Transfer
      <3>2. CASE Block
        <4> DEFINE deeper(h) == [chain[h] EXCEPT !.depth = IF @ < Required THEN @ + 1 ELSE @]
        <4>1. chain' = [h \in 1..Len(chain) |-> deeper(h)]
          BY <2>2, <3>2 DEF Block
        <4>2. ASSUME NEW h \in 1..Len(chain)
              PROVE  deeper(h) \in [amount : Amounts, depth : Nat]
          <5>1. chain[h] \in [amount : Amounts, depth : Nat]
            BY <2>2, SeqElement
          <5>2. QED
            BY <5>1
        <4> HIDE DEF deeper
        <4>3. QED
          BY <2>2, <4>1, <4>2
      <3>3. QED
        BY <1>3, <3>1, <3>2
    <2>4. \A h \in DOMAIN chain' : chain'[h].depth \in Nat
      <3> SUFFICES ASSUME NEW h \in DOMAIN chain' PROVE chain'[h].depth \in Nat
        OBVIOUS
      <3>1. chain'[h] \in [amount : Amounts, depth : Nat]
        BY <2>3, SeqElement
      <3>2. QED
        BY <3>1
    <2>5. QED
      BY <2>1, <2>3, <2>4 DEF FollowInv, TablesOK, DepthsOK, SessionFollowsIntent
  <1>4. CASE TimePasses \/ UNCHANGED vars
    BY <1>4, StandKeepsFollowing DEF TimePasses, vars, rows, calls
  <1>5. QED
    BY <1>1, <1>2, <1>3, <1>4

\* The invariant under every step, one case per disjunct of Next.
LEMMA StepKeepsFollowing ==
  ASSUME FollowInv, LatestOK, [Next]_vars
  PROVE  FollowInv' /\ LatestOK'
  <1>5. LatestOK'
    BY LatestMoves DEF LatestOK, FollowInv, DepthsOK
  <1>1. ASSUME NEW c \in Clients, ReportTransfer(c) PROVE FollowInv'
    <2>1. PICK r \in Reports : BeginConfirm(c, r)
      BY <1>1 DEF ReportTransfer
    <2>2. r.confirmations \in Nat
      <3>1. CASE TrueReports
        BY <3>1 DEF Reports, FollowInv, DepthsOK
      <3>2. CASE ~TrueReports
        BY <3>2, CheckoutAssumption DEF Reports, Depths
      <3>3. QED
        BY <3>1, <3>2
    <2>3. QED
      BY <1>1, <2>1, <2>2, BeginKeepsFollowing DEF ReportTransfer, rows
  <1>2. ASSUME NEW c \in Clients, FinishCall(c) PROVE FollowInv'
    BY <1>2, FinishKeepsFollowing
  <1>3. ASSUME NEW c \in Callers, AbortConfirm(c) PROVE FollowInv'
    <2>1. /\ request' = [d \in Callers |-> request'[d]]
          /\ verdict' = [d \in Callers |-> verdict'[d]]
          /\ \A d \in Callers : request'[d].confirmations \in Nat /\ Coherent(verdict'[d])
      BY <1>3, CloseKeepsFollowing DEF AbortConfirm
    <2>2. UNCHANGED <<intent, session, ledger, chain>>
      BY <1>3 DEF AbortConfirm, rows
    <2>3. QED
      BY <2>1, <2>2 DEF FollowInv, TablesOK, DepthsOK, SessionFollowsIntent
  <1>4. QED
    BY <1>1, <1>2, <1>3, <1>5, ReceiptLoopKeepsFollowing, DepositLoopKeepsFollowing,
       OthersKeepFollowing DEF Next

\* Session and intent agree in every interleaving of confirmations, expiry,
\* cancellation and settlement, whatever is reported and at whatever depth.
THEOREM SessionAndIntentAgree == Spec => []SessionFollowsIntent
  <1>1. FollowInv => SessionFollowsIntent
    BY DEF FollowInv
  <1>2. QED
    <2>1. Init => FollowInv /\ LatestOK
      BY InitFollowInv DEF Init, LatestOK
    <2>2. FollowInv /\ LatestOK /\ [Next]_vars => (FollowInv /\ LatestOK)'
      BY StepKeepsFollowing
    <2>3. QED
      BY <1>1, <2>1, <2>2, PTL DEF Spec

-----------------------------------------------------------------------------
(* The views *)

\* Who looks on takes no part: the tables are those of Checkout.
LEMMA ViewsAreCheckouts == ViewSpec => Spec
  <1>1. ViewInit => Init
    BY DEF ViewInit
  <1>2. [ViewNext]_viewVars => [Next]_vars
    BY DEF ViewNext, viewVars, ReadSession, HandleGetPublicCheckoutSession
  <1>3. QED
    BY <1>1, <1>2, PTL DEF ViewSpec, Spec

\* A step that assesses the intent keeps confirmed_at, another one does not
\* touch it.
LEMMA IntentChanges ==
  ASSUME [Next]_vars
  PROVE  \/ intent' = intent
         \/ \E v : WriteVerdict(v)
         \/ \E s : intent' = [intent EXCEPT !.status = s]
  <1> DEFINE Goal == \/ intent' = intent
                     \/ \E v : WriteVerdict(v)
                     \/ \E s : intent' = [intent EXCEPT !.status = s]
  <1>1. ASSUME NEW c \in Callers, FinishCall(c) \/ AbortConfirm(c) PROVE Goal
    BY <1>1 DEF FinishCall, CommitConfirm, InsertInvoice, EnqueueInvoice, AbortConfirm, rows
  <1>2. CASE ReceiptLoop
    BY <1>1, <1>2 DEF ReceiptLoop, SelectRecorded, ReadLatestBlock, PollReceipt, EndPolling, rows
  <1>3. CASE DepositLoop
    <2>1. CASE ExpireOldIntents
      BY <2>1 DEF ExpireOldIntents
    <2>2. CASE ConfirmObservedBalance
      BY <2>2 DEF ConfirmObservedBalance
    <2>3. CASE SelectDeposit \/ ReadBalance \/ ScanLogs
      BY <2>3 DEF SelectDeposit, ReadBalance, ScanLogs, rows
    <2>4. QED
      BY <1>1, <1>3, <2>1, <2>2, <2>3 DEF DepositLoop
  <1>4. ASSUME NEW c \in Clients, ReportTransfer(c) PROVE Goal
    BY <1>4 DEF ReportTransfer, rows
  <1>5. CASE CancelSession \/ Settle
    BY <1>5 DEF CancelSession, Settle
  <1>6. CASE Transfer \/ Block \/ TimePasses \/ UNCHANGED vars
    BY <1>6 DEF Transfer, Block, TimePasses, vars, rows
  <1>7. QED
    BY <1>1, <1>2, <1>3, <1>4, <1>5, <1>6 DEF Next

\* GetPaymentIntent never takes confirmed_at back, whatever is reported later.
THEOREM ConfirmedStays == ViewSpec => ConfirmedStaysShown
  <1>1. ShapeOK /\ [Next]_vars /\ intent.confirmedAt => intent'.confirmedAt
    <2> SUFFICES ASSUME ShapeOK, [Next]_vars, intent.confirmedAt PROVE intent'.confirmedAt
      OBVIOUS
    <2>1. ASSUME NEW v, WriteVerdict(v) PROVE intent'.confirmedAt
      BY <2>1 DEF WriteVerdict
    <2>2. ASSUME NEW s, intent' = [intent EXCEPT !.status = s] PROVE intent'.confirmedAt
      BY <2>2
    <2>3. QED
      BY <2>1, <2>2, IntentChanges
  <1>2. AnnounceInv => ShapeOK
    BY DEF AnnounceInv
  <1>3. ShapeOK /\ [Next]_vars =>
          [HandleGetPaymentIntent.confirmedAt => (HandleGetPaymentIntent.confirmedAt)']_viewVars
    BY <1>1 DEF HandleGetPaymentIntent, GetPaymentIntent
  <1>4. QED
    BY <1>2, <1>3, ViewsAreCheckouts, AnnouncementsAreInvariant, PTL
         DEF Spec, ConfirmedStaysShown

\* What a page has read of session and intent agrees.
ReadTogether ==
  /\ view = [v \in Viewers |-> view[v]]
  /\ \A v \in Viewers : view[v].session = "paid" => IntentStatusIsPaid(view[v].status)

\* No page shows a paid session with an intent that is not paid, as both come
\* from one statement.
THEOREM PaidIsShownPaid == ViewSpec => []ViewIsConsistent
  <1>1. ViewInit => ReadTogether
    BY DEF ViewInit, NoView, ReadTogether
  <1>2. SessionFollowsIntent /\ ReadTogether /\ [ViewNext]_viewVars => ReadTogether'
    <2> SUFFICES ASSUME SessionFollowsIntent, ReadTogether, [ViewNext]_viewVars
                 PROVE  ReadTogether'
      OBVIOUS
    <2>1. ASSUME NEW v \in Viewers, ReadSession(v) PROVE ReadTogether'
      <3>1. view' = [view EXCEPT ![v] = GetCheckoutSession]
        BY <2>1 DEF ReadSession
      <3>2. /\ GetCheckoutSession.session = session
            /\ GetCheckoutSession.status = intent.status
        BY DEF GetCheckoutSession
      <3>3. session = "paid" => IntentStatusIsPaid(intent.status)
        BY DEF SessionFollowsIntent
      <3>4. QED
        BY <3>1, <3>2, <3>3 DEF ReadTogether, IntentStatusIsPaid
    <2>2. ASSUME NEW v \in Viewers, HandleGetPublicCheckoutSession(v) PROVE ReadTogether'
      BY <2>2 DEF HandleGetPublicCheckoutSession, NoView, ReadTogether, IntentStatusIsPaid
    <2>3. CASE UNCHANGED view
      BY <2>3 DEF ReadTogether, IntentStatusIsPaid
    <2>4. QED
      BY <2>1, <2>2, <2>3 DEF ViewNext, viewVars
  <1>3. ReadTogether => ViewIsConsistent
    BY DEF ReadTogether, ViewIsConsistent, PublicView
  <1>4. QED
    BY <1>1, <1>2, <1>3, ViewsAreCheckouts, SessionAndIntentAgree, PTL DEF ViewSpec

\* Whoever confirms a session: what becomes confirmed is announced with it and
\* invoiced once.
THEOREM PaymentIsToldOnce == Spec => []PaidIsToldOnce
  BY PaymentIsAnnounced, InvoicedOnce, PTL DEF PaidIsToldOnce

-----------------------------------------------------------------------------
(* Sums of rows *)

\* f sums the amounts of l over every subset of S, one chosen row at a time.
IsSum(l, S, f) ==
  f = [s \in SUBSET S |->
         IF s = {} THEN 0
         ELSE l[CHOOSE x \in s : TRUE].amount + f[s \ {CHOOSE x \in s : TRUE}]]

\* Sum is a choice among the functions that add up.
LEMMA SumIsChosen == ASSUME NEW l, NEW S PROVE Sum(l, S) = (CHOOSE f : IsSum(l, S, f))[S]
  BY DEF Sum, MapThenSumSet, MapThenFoldSet, IsSum

\* A set of finite sets that has an element has a least one.
LEMMA LeastSet ==
  ASSUME NEW S, IsFiniteSet(S), NEW W \in SUBSET SUBSET S, W # {}
  PROVE  \E T \in W : IsFiniteSet(T) /\ \A U \in SUBSET T : U # T => U \notin W
  <1>1. SUBSET S = FiniteSubsetsOf(S)
    BY FS_FiniteSubsetsOfFinite
  <1>2. IsWellFoundedOn(StrictSubsetOrdering(S), SUBSET S)
    BY <1>1, FS_StrictSubsetOrderingWellFounded
  <1>3. PICK T \in W : \A U \in W : ~(<<U, T>> \in StrictSubsetOrdering(S))
    BY <1>2, WFMin
  <1>4. \A U \in SUBSET T : U # T => U \notin W
    BY <1>3 DEF StrictSubsetOrdering
  <1>5. QED
    BY <1>3, <1>4, FS_Subset

\* Two functions that add up agree on every finite set.
LEMMA SumsAgree ==
  ASSUME NEW l, NEW S, NEW T, IsFiniteSet(S), IsFiniteSet(T), NEW f, NEW g,
         IsSum(l, S, f), IsSum(l, T, g)
  PROVE  \A U \in SUBSET (S \cap T) : f[U] = g[U]
  <1> DEFINE W == {U \in SUBSET (S \cap T) : f[U] # g[U]}
  <1> SUFFICES ASSUME W # {} PROVE FALSE
    OBVIOUS
  <1>1. IsFiniteSet(S \cap T)
    BY FS_Intersection
  <1>2. PICK U \in W : \A V \in SUBSET U : V # U => V \notin W
    <2>1. W \in SUBSET SUBSET (S \cap T)
      OBVIOUS
    <2> HIDE DEF W
    <2>2. QED
      BY <1>1, <2>1, LeastSet
  <1>3. U \in SUBSET S /\ U \in SUBSET T
    OBVIOUS
  <1>4. CASE U = {}
    BY <1>3, <1>4 DEF IsSum
  <1>5. CASE U # {}
    <2> DEFINE x == CHOOSE x \in U : TRUE
    <2>1. x \in U
      BY <1>5
    <2>2. f[U] = l[x].amount + f[U \ {x}] /\ g[U] = l[x].amount + g[U \ {x}]
      BY <1>3, <1>5 DEF IsSum
    <2>3. f[U \ {x}] = g[U \ {x}]
      BY <1>2, <2>1
    <2>4. QED
      BY <2>2, <2>3
  <1>6. QED
    BY <1>4, <1>5

\* There is one.
LEMMA SumExists ==
  ASSUME NEW l, NEW S, IsFiniteSet(S)
  PROVE  \E f : IsSum(l, S, f)
  <1> DEFINE W == {T \in SUBSET S : ~ \E f : IsSum(l, T, f)}
  <1> SUFFICES ASSUME W # {} PROVE FALSE
    OBVIOUS
  <1>1. PICK T \in W : IsFiniteSet(T) /\ \A U \in SUBSET T : U # T => U \notin W
    <2>1. W \in SUBSET SUBSET S
      OBVIOUS
    <2> HIDE DEF W
    <2>2. QED
      BY <2>1, LeastSet
  <1>2. \A U \in SUBSET T : U # T => \E f : IsSum(l, U, f)
    BY <1>1
  <1> DEFINE F(U) == CHOOSE f : IsSum(l, U, f)
             x(U) == CHOOSE x \in U : TRUE
             step(U) == l[x(U)].amount + F(U \ {x(U)})[U \ {x(U)}]
             f == [U \in SUBSET T |-> IF U = {} THEN 0 ELSE step(U)]
  <1>3. \A U \in SUBSET T : U # T => IsSum(l, U, F(U))
    BY <1>2
  <1>4. ASSUME NEW U \in SUBSET T, U # T PROVE F(U)[U] = f[U]
    <2>1. IsSum(l, U, F(U))
      BY <1>3, <1>4
    <2>2. CASE U = {}
      BY <2>1, <2>2 DEF IsSum
    <2>3. CASE U # {}
      <3>1. x(U) \in U
        BY <2>3
      <3>2. U \ {x(U)} \in SUBSET T /\ U \ {x(U)} # T
        BY <1>4
      <3>3. IsSum(l, U \ {x(U)}, F(U \ {x(U)}))
        BY <1>3, <3>2
      <3>4. IsFiniteSet(U) /\ IsFiniteSet(U \ {x(U)})
        BY <1>1, FS_Subset
      <3>5. F(U)[U \ {x(U)}] = F(U \ {x(U)})[U \ {x(U)}]
        <4>1. U \ {x(U)} \in SUBSET (U \cap (U \ {x(U)}))
          OBVIOUS
        <4> HIDE DEF F, x
        <4>2. QED
          BY <2>1, <3>3, <3>4, <4>1, SumsAgree
      <3>6. F(U)[U] = l[x(U)].amount + F(U)[U \ {x(U)}]
        <4> HIDE DEF F
        <4>1. QED
          BY <2>1, <2>3 DEF IsSum
      <3>7. QED
        <4> HIDE DEF F, x
        <4>1. QED
          BY <2>3, <3>5, <3>6
    <2>4. QED
      BY <2>2, <2>3
  <1>5. \A U \in SUBSET T : U # {} => f[U] = l[x(U)].amount + f[U \ {x(U)}]
    <2> SUFFICES ASSUME NEW U \in SUBSET T, U # {}
                 PROVE  f[U] = l[x(U)].amount + f[U \ {x(U)}]
      OBVIOUS
    <2>1. x(U) \in U
      OBVIOUS
    <2>2. U \ {x(U)} \in SUBSET T /\ U \ {x(U)} # T
      BY <2>1
    <2>3. F(U \ {x(U)})[U \ {x(U)}] = f[U \ {x(U)}]
      BY <1>4, <2>2
    <2> HIDE DEF F, x
    <2>4. QED
      BY <2>3
  <1>6. f[{}] = 0
    OBVIOUS
  <1>7. f = [U \in SUBSET T |-> IF U = {} THEN 0 ELSE l[x(U)].amount + f[U \ {x(U)}]]
    <2>1. \A U \in SUBSET T : f[U] = IF U = {} THEN 0 ELSE l[x(U)].amount + f[U \ {x(U)}]
      <3> HIDE DEF f, x
      <3>1. QED
        BY <1>5, <1>6
    <2>2. f = [U \in SUBSET T |-> f[U]]
      OBVIOUS
    <2> HIDE DEF f, x
    <2>3. QED
      BY <2>1, <2>2
  <1>8. IsSum(l, T, f)
    BY <1>7 DEF IsSum
  <1>9. QED
    BY <1>1, <1>8

\* The sum over a finite set, one chosen row split off.
LEMMA SumSplits ==
  ASSUME NEW l, NEW S, IsFiniteSet(S)
  PROVE  /\ S = {} => Sum(l, S) = 0
         /\ S # {} => LET x == CHOOSE x \in S : TRUE IN Sum(l, S) = l[x].amount + Sum(l, S \ {x})
  <1> DEFINE F(U) == CHOOSE f : IsSum(l, U, f)
             x == CHOOSE x \in S : TRUE
  <1>1. IsFiniteSet(S \ {x})
    BY FS_Subset
  <1>2. IsSum(l, S, F(S)) /\ IsSum(l, S \ {x}, F(S \ {x}))
    BY <1>1, SumExists
  <1>3. Sum(l, S) = F(S)[S] /\ Sum(l, S \ {x}) = F(S \ {x})[S \ {x}]
    BY SumIsChosen
  <1> HIDE DEF F
  <1>4. CASE S = {}
    BY <1>2, <1>3, <1>4 DEF IsSum
  <1>5. CASE S # {}
    <2>1. F(S)[S] = l[x].amount + F(S)[S \ {x}]
      BY <1>2, <1>5 DEF IsSum
    <2>2. S \ {x} \in SUBSET (S \cap (S \ {x}))
      OBVIOUS
    <2> HIDE DEF x
    <2>3. F(S)[S \ {x}] = F(S \ {x})[S \ {x}]
      BY <1>1, <1>2, <2>2, SumsAgree
    <2>4. Sum(l, S) = l[x].amount + Sum(l, S \ {x})
      BY <1>3, <2>1, <2>3
    <2>5. QED
      BY <1>5, <2>4 DEF x
  <1>6. QED
    BY <1>4, <1>5

\* The amounts of the rows S are numbers.
Counted(l, S) == \A h \in S : l[h].amount \in Nat

\* A sum of amounts is a number.
LEMMA SumIsNat ==
  ASSUME NEW l, NEW S, IsFiniteSet(S), Counted(l, S)
  PROVE  Sum(l, S) \in Nat
  <1> DEFINE W == {T \in SUBSET S : Sum(l, T) \notin Nat}
  <1> SUFFICES ASSUME W # {} PROVE FALSE
    OBVIOUS
  <1>1. PICK T \in W : IsFiniteSet(T) /\ \A U \in SUBSET T : U # T => U \notin W
    <2>1. W \in SUBSET SUBSET S
      OBVIOUS
    <2> HIDE DEF W
    <2>2. QED
      BY <2>1, LeastSet
  <1> DEFINE x == CHOOSE x \in T : TRUE
  <1>2. T # {} /\ Sum(l, T) = l[x].amount + Sum(l, T \ {x})
    <2>1. T # {}
      <3>1. Sum(l, T) # 0
        BY <1>1
      <3>2. QED
        BY <1>1, <3>1, SumSplits
    <2>2. QED
      BY <1>1, <2>1, SumSplits
  <1>3. x \in T
    BY <1>2
  <1> HIDE DEF x
  <1>4. Sum(l, T \ {x}) \in Nat
    BY <1>1, <1>3
  <1>5. l[x].amount \in Nat
    BY <1>3 DEF Counted
  <1>6. Sum(l, T) \in Nat
    BY <1>2, <1>4, <1>5
  <1>7. QED
    BY <1>6

\* Whichever row is split off: the order of the rows does not matter.
LEMMA SumAdds ==
  ASSUME NEW l, NEW S, IsFiniteSet(S), Counted(l, S), NEW y \in S
  PROVE  Sum(l, S) = l[y].amount + Sum(l, S \ {y})
  <1> DEFINE W == {T \in SUBSET S : \E z \in T : Sum(l, T) # l[z].amount + Sum(l, T \ {z})}
  <1> SUFFICES ASSUME W # {} PROVE FALSE
    OBVIOUS
  <1>1. PICK T \in W : IsFiniteSet(T) /\ \A U \in SUBSET T : U # T => U \notin W
    <2>1. W \in SUBSET SUBSET S
      OBVIOUS
    <2> HIDE DEF W
    <2>2. QED
      BY <2>1, LeastSet
  <1>2. PICK z \in T : Sum(l, T) # l[z].amount + Sum(l, T \ {z})
    OBVIOUS
  <1> DEFINE x == CHOOSE x \in T : TRUE
  <1>3. Sum(l, T) = l[x].amount + Sum(l, T \ {x}) /\ x \in T
    BY <1>1, SumSplits
  <1> HIDE DEF x
  <1>4. x # z
    BY <1>2, <1>3
  <1>5. Sum(l, T \ {x}) = l[z].amount + Sum(l, (T \ {x}) \ {z})
    BY <1>1, <1>3, <1>4
  <1>6. Sum(l, T \ {z}) = l[x].amount + Sum(l, (T \ {z}) \ {x})
    BY <1>1, <1>3, <1>4
  <1>7. (T \ {x}) \ {z} = (T \ {z}) \ {x}
    OBVIOUS
  <1>8. l[x].amount \in Nat /\ l[z].amount \in Nat
    BY <1>3 DEF Counted
  <1>9. Sum(l, (T \ {x}) \ {z}) \in Nat
    <2>1. IsFiniteSet((T \ {x}) \ {z}) /\ Counted(l, (T \ {x}) \ {z})
      BY <1>1, FS_Subset DEF Counted
    <2>2. QED
      BY <2>1, SumIsNat
  <1> HIDE DEF W
  <1>10. Sum(l, T) = l[x].amount + (l[z].amount + Sum(l, (T \ {x}) \ {z}))
    BY <1>3, <1>5
  <1>11. Sum(l, T \ {z}) = l[x].amount + Sum(l, (T \ {x}) \ {z})
    BY <1>6, <1>7
  <1>12. \A a, b, c \in Nat : a + (b + c) = b + (a + c)
    OBVIOUS
  <1>13. Sum(l, T) = l[z].amount + (l[x].amount + Sum(l, (T \ {x}) \ {z}))
    BY <1>8, <1>9, <1>10, <1>12
  <1>14. QED
    BY <1>2, <1>11, <1>13

\* More rows, and none with less in it, are no less.
LEMMA SumGrows ==
  ASSUME NEW l, NEW m, NEW T, IsFiniteSet(T), NEW S \in SUBSET T, Counted(l, S), Counted(m, T),
         \A h \in S : l[h].amount <= m[h].amount
  PROVE  Sum(l, S) <= Sum(m, T)
  <1> DEFINE W == {U \in SUBSET T : ~(Sum(l, U \cap S) <= Sum(m, U))}
  <1> SUFFICES ASSUME W # {} PROVE FALSE
    <2>1. T \in SUBSET T /\ T \cap S = S
      OBVIOUS
    <2>2. QED
      BY <2>1
  <1>1. PICK U \in W : IsFiniteSet(U) /\ \A V \in SUBSET U : V # U => V \notin W
    <2>1. W \in SUBSET SUBSET T
      OBVIOUS
    <2> HIDE DEF W
    <2>2. QED
      BY <2>1, LeastSet
  <1>2. IsFiniteSet(U \cap S) /\ Counted(l, U \cap S) /\ Counted(m, U)
    BY <1>1, FS_Subset DEF Counted
  <1>3. CASE U = {}
    <2>1. U \cap S = {}
      BY <1>3
    <2>2. Sum(l, U \cap S) = 0 /\ Sum(m, U) = 0
      BY <1>1, <1>2, <1>3, <2>1, SumSplits
    <2>3. QED
      BY <1>1, <2>2
  <1>4. ASSUME NEW y \in U PROVE FALSE
    <2>0. ~(Sum(l, U \cap S) <= Sum(m, U))
      BY <1>1
    <2>1. Sum(m, U) = m[y].amount + Sum(m, U \ {y})
      BY <1>1, <1>2, SumAdds
    <2>2. Sum(l, (U \ {y}) \cap S) <= Sum(m, U \ {y})
      BY <1>1
    <2>3. m[y].amount \in Nat /\ Sum(m, U \ {y}) \in Nat
      <3>1. IsFiniteSet(U \ {y}) /\ Counted(m, U \ {y})
        BY <1>1, <1>2, FS_Subset DEF Counted
      <3>2. QED
        BY <1>2, <3>1, SumIsNat DEF Counted
    <2>4. IsFiniteSet((U \ {y}) \cap S) /\ Counted(l, (U \ {y}) \cap S)
      BY <1>1, <1>2, FS_Subset DEF Counted
    <2>5. Sum(l, (U \ {y}) \cap S) \in Nat
      BY <2>4, SumIsNat
    <2>6. CASE y \in S
      <3>1. Sum(l, U \cap S) = l[y].amount + Sum(l, (U \cap S) \ {y})
        BY <1>2, <2>6, SumAdds
      <3>2. (U \cap S) \ {y} = (U \ {y}) \cap S
        OBVIOUS
      <3>3. l[y].amount \in Nat /\ l[y].amount <= m[y].amount
        BY <2>6 DEF Counted
      <3>4. Sum(l, U \cap S) = l[y].amount + Sum(l, (U \ {y}) \cap S)
        BY <3>1, <3>2
      <3>5. \A a, b, c, d \in Nat : a <= b /\ c <= d => a + c <= b + d
        OBVIOUS
      <3>6. l[y].amount + Sum(l, (U \ {y}) \cap S) <= m[y].amount + Sum(m, U \ {y})
        BY <2>2, <2>3, <2>5, <3>3, <3>5
      <3>7. QED
        BY <2>0, <2>1, <3>4, <3>6
    <2>7. CASE y \notin S
      <3>1. U \cap S = (U \ {y}) \cap S
        BY <2>7
      <3>2. \A a, b, c \in Nat : a <= b => a <= c + b
        OBVIOUS
      <3>3. Sum(l, (U \ {y}) \cap S) <= m[y].amount + Sum(m, U \ {y})
        BY <2>2, <2>3, <2>5, <3>2
      <3>4. QED
        BY <2>0, <2>1, <3>1, <3>3
    <2>8. QED
      BY <2>6, <2>7
  <1>5. QED
    BY <1>3, <1>4

\* It depends on the entries alone.
LEMMA SumIsSame ==
  ASSUME NEW l, NEW m, NEW S, IsFiniteSet(S), Counted(l, S),
         \A h \in S : l[h].amount = m[h].amount
  PROVE  Sum(l, S) = Sum(m, S)
  <1>1. Counted(m, S) /\ \A h \in S : l[h].amount <= m[h].amount /\ m[h].amount <= l[h].amount
    BY DEF Counted
  <1>2. Sum(l, S) <= Sum(m, S) /\ Sum(m, S) <= Sum(l, S)
    BY <1>1, SumGrows
  <1>3. Sum(l, S) \in Nat /\ Sum(m, S) \in Nat
    BY <1>1, SumIsNat
  <1>4. QED
    BY <1>2, <1>3

-----------------------------------------------------------------------------
(* Types *)

IntentTyped ==
  /\ intent \in [status : IntentStatus, received : Nat, confirmations : Depths,
                 confirmedAt : BOOLEAN]
  /\ session \in SessionStatus
  /\ outbox \subseteq {"payment.detected", "payment.confirmed", "payment.expired"}

InvoiceTyped == {invoice, credited} \subseteq BOOLEAN /\ invoiceEvents \in Nat

\* Finitely many rows, so that they have a sum.
LedgerTyped ==
  /\ DOMAIN ledger \subseteq Hashes /\ IsFiniteSet(DOMAIN ledger)
  /\ \A h \in DOMAIN ledger : ledger[h] \in [amount : Nat, confirmations : Depths]

ChainTyped ==
  /\ overdue \in BOOLEAN
  /\ chain \in Seq([amount : Amounts, depth : Depths]) /\ Len(chain) <= MaxTransfers

CallsTyped ==
  /\ pc \in [Callers -> LoopPoint] /\ \A c \in Clients : pc[c] \in CallPoint
  /\ request = [c \in Callers |-> request[c]]
  /\ verdict = [c \in Callers |-> verdict[c]]
  /\ \A c \in Callers : /\ request[c] \in Requests \cup {NoRequest}
                        /\ request[c] # NoRequest <=> pc[c] = "open"
                        /\ verdict[c] \in Verdicts

LoopsTyped ==
  /\ polling \subseteq [hash : Hashes, amount : Nat]
  /\ latest \in Seq([amount : Amounts, depth : Depths]) /\ Len(latest) <= MaxTransfers
  /\ balance \in Nat

FaultsTyped == faults \in 0..MaxFaults

\* TypeOK in parts, with the tables that are functions and the finite ledger.
TypeInv ==
  /\ IntentTyped /\ InvoiceTyped /\ LedgerTyped /\ ChainTyped /\ CallsTyped /\ LoopsTyped
  /\ FaultsTyped

\* The parts make up the type invariant.
LEMMA TypeInvIsTypeOK == TypeInv => TypeOK
  BY DEF TypeInv, TypeOK, IntentTyped, InvoiceTyped, LedgerTyped, ChainTyped, CallsTyped,
         LoopsTyped, FaultsTyped

\* At first everything has its type.
LEMMA InitTypeInv == Init => TypeInv
  <1> SUFFICES ASSUME Init PROVE TypeInv
    OBVIOUS
  <1>1. 0 \in Depths /\ MaxFaults \in Nat /\ MaxTransfers \in Nat
    BY CheckoutAssumption DEF Depths
  <1>2. NoVerdict \in Verdicts
    BY <1>1 DEF NoVerdict, Verdicts, IntentStatus, Pending
  <1>3. IntentTyped
    BY <1>1 DEF Init, IntentTyped, IntentStatus, Pending, SessionStatus
  <1>4. LedgerTyped
    BY FS_EmptySet DEF Init, LedgerTyped
  <1>5. CallsTyped
    BY <1>2 DEF Init, CallsTyped
  <1>6. ChainTyped
    <2>1. chain = <<>> /\ overdue = FALSE
      BY DEF Init
    <2>2. chain \in Seq([amount : Amounts, depth : Depths]) /\ Len(chain) = 0
      BY <2>1
    <2>3. Len(chain) <= MaxTransfers
      BY <1>1, <2>2
    <2>4. QED
      BY <2>1, <2>2, <2>3 DEF ChainTyped
  <1>7. InvoiceTyped /\ LoopsTyped
    <2>1. latest = <<>> /\ polling = {} /\ balance = 0
      BY DEF Init
    <2>2. latest \in Seq([amount : Amounts, depth : Depths]) /\ Len(latest) = 0
      BY <2>1
    <2>3. Len(latest) <= MaxTransfers
      BY <1>1, <2>2
    <2>4. InvoiceTyped
      BY DEF Init, InvoiceTyped
    <2>5. QED
      BY <2>1, <2>2, <2>3, <2>4 DEF LoopsTyped
  <1>8. FaultsTyped
    BY <1>1 DEF Init, FaultsTyped
  <1>9. QED
    BY <1>3, <1>4, <1>5, <1>6, <1>7, <1>8 DEF TypeInv

\* What the pricing rules say is a status of an intent.
LEMMA ResolveIsStatus ==
  ASSUME NEW e, NEW r, NEW t, NEW c, NEW q
  PROVE  ResolveIntentStatus(e, r, t, c, q) \in IntentStatus
  BY DEF ResolveIntentStatus, IntentStatus, Pending

\* An aggregate of well-typed rows is a verdict.
LEMMA AssessIsVerdict ==
  ASSUME NEW l, IsFiniteSet(DOMAIN l), DOMAIN l # {},
         \A h \in DOMAIN l : l[h] \in [amount : Nat, confirmations : Depths]
  PROVE  Assess(l) \in Verdicts
  <1> DEFINE deep == {h \in DOMAIN l : l[h].confirmations >= Required}
             depths == {l[h].confirmations : h \in DOMAIN l}
             least == Min(depths)
             sure == ResolveIntentStatus(Expected, Sum(l, deep), Tolerance, Required, Required)
             now == ResolveIntentStatus(Expected, Sum(l, DOMAIN l), Tolerance, least, Required)
             paid == IntentStatusIsPaid(sure)
  <1>1. Assess(l) = [status |-> IF paid THEN sure ELSE now, received |-> Sum(l, DOMAIN l),
                     confirmations |-> least, paid |-> paid]
    BY DEF Assess
  <1>2. least \in Depths
    <2>1. depths \in SUBSET Depths /\ depths # {} /\ Depths \in SUBSET Nat
      BY CheckoutAssumption DEF Depths
    <2> HIDE DEF depths
    <2>2. QED
      BY <2>1, MinIsLeast
  <1>3. Sum(l, DOMAIN l) \in Nat
    BY SumIsNat DEF Counted
  <1>4. sure \in IntentStatus /\ now \in IntentStatus /\ paid \in BOOLEAN
    BY ResolveIsStatus DEF IntentStatusIsPaid
  <1> HIDE DEF sure, now, paid, least
  <1>5. QED
    BY <1>1, <1>2, <1>3, <1>4 DEF Verdicts

\* The rows after an upsert.
LEMMA UpsertIsTyped ==
  ASSUME LedgerTyped, NEW r \in Requests
  PROVE  LET l == Upsert(ledger, r)
         IN  /\ DOMAIN l = DOMAIN ledger \cup {r.hash}
             /\ DOMAIN l \subseteq Hashes /\ IsFiniteSet(DOMAIN l) /\ DOMAIN l # {}
             /\ \A h \in DOMAIN l : l[h] \in [amount : Nat, confirmations : Depths]
             /\ l[r.hash] = [amount |-> r.amount, confirmations |-> r.confirmations]
             /\ \A h \in DOMAIN ledger \ {r.hash} : l[h] = ledger[h]
  <1> DEFINE l == Upsert(ledger, r)
  <1>1. l = [h \in DOMAIN ledger \cup {r.hash} |->
               IF h = r.hash THEN [amount |-> r.amount, confirmations |-> r.confirmations]
               ELSE ledger[h]]
    BY DEF Upsert
  <1>2. r.hash \in Hashes /\ r.amount \in Nat /\ r.confirmations \in Depths
    BY DEF Requests
  <1>3. IsFiniteSet(DOMAIN ledger \cup {r.hash})
    BY FS_AddElement DEF LedgerTyped
  <1> HIDE DEF l
  <1>4. QED
    BY <1>1, <1>2, <1>3 DEF LedgerTyped, l

\* A transaction that opens has a request in hand and a verdict.
LEMMA BeginIsTyped ==
  ASSUME CallsTyped, LedgerTyped, NEW c \in Callers, NEW r \in Requests, BeginConfirm(c, r)
  PROVE  CallsTyped'
  <1>1. Assess(Upsert(ledger, r)) \in Verdicts
    BY UpsertIsTyped, AssessIsVerdict
  <1>2. r # NoRequest
    BY CheckoutAssumption DEF Requests, NoRequest
  <1>3. /\ request' = [request EXCEPT ![c] = r]
        /\ verdict' = [verdict EXCEPT ![c] = Assess(Upsert(ledger, r))]
        /\ pc' = [pc EXCEPT ![c] = "open"]
    BY DEF BeginConfirm
  <1>4. QED
    BY <1>1, <1>2, <1>3 DEF CallsTyped

\* A call that ends has none.
LEMMA CloseIsTyped ==
  ASSUME CallsTyped, NEW c \in Callers, NEW next \in LoopPoint \ {"open"},
         c \in Clients => next \in CallPoint, CloseCall(c, next)
  PROVE  CallsTyped'
  <1>1. NoVerdict \in Verdicts
    BY CheckoutAssumption DEF NoVerdict, Verdicts, IntentStatus, Pending, Depths
  <1>2. /\ request' = [request EXCEPT ![c] = NoRequest]
        /\ verdict' = [verdict EXCEPT ![c] = NoVerdict]
        /\ pc' = [pc EXCEPT ![c] = next]
    BY DEF CloseCall
  <1>3. QED
    BY <1>1, <1>2 DEF CallsTyped

\* A caller that moves on without a transaction.
LEMMA MoveIsTyped ==
  ASSUME CallsTyped, NEW c \in Callers, pc[c] # "open", NEW next \in LoopPoint \ {"open"},
         c \in Clients => next \in CallPoint,
         pc' = [pc EXCEPT ![c] = next], UNCHANGED <<request, verdict>>
  PROVE  CallsTyped'
  BY DEF CallsTyped

\* A call that is over has its type.
LEMMA AfterCallIsTyped ==
  ASSUME NEW c \in Callers
  PROVE  AfterCall(c) \in {"idle", "polling"} /\ (c \in Clients => AfterCall(c) = "idle")
  BY CheckoutAssumption DEF AfterCall

\* A verdict that is written gives the intent its columns.
LEMMA WriteIsTyped ==
  ASSUME IntentTyped, NEW v \in Verdicts, WriteVerdict(v)
  PROVE  IntentTyped'
  <1>1. intent.confirmedAt \in BOOLEAN
    BY DEF IntentTyped
  <1>2. /\ v.status \in IntentStatus /\ v.received \in Nat /\ v.confirmations \in Depths
        /\ v.paid \in BOOLEAN
    BY DEF Verdicts
  <1>3. (intent.confirmedAt \/ v.paid) \in BOOLEAN
    OBVIOUS
  <1>4. intent' \in [status : IntentStatus, received : Nat, confirmations : Depths,
                     confirmedAt : BOOLEAN]
    BY <1>2, <1>3 DEF WriteVerdict
  <1>5. session' \in SessionStatus
    BY DEF WriteVerdict, SessionStatus
  <1>6. outbox' \subseteq {"payment.detected", "payment.confirmed", "payment.expired"}
    BY DEF WriteVerdict, IntentTyped
  <1>7. QED
    BY <1>4, <1>5, <1>6 DEF IntentTyped

\* An intent that changes its status only.
LEMMA StatusIsTyped ==
  ASSUME IntentTyped, NEW s \in IntentStatus, intent' = [intent EXCEPT !.status = s]
  PROVE  intent' \in [status : IntentStatus, received : Nat, confirmations : Depths,
                      confirmedAt : BOOLEAN]
  BY DEF IntentTyped

\* A fault is one of MaxFaults.
LEMMA FaultIsTyped ==
  ASSUME FaultsTyped, Fault \/ UNCHANGED faults
  PROVE  FaultsTyped'
  BY CheckoutAssumption DEF FaultsTyped, Fault

\* An open transaction belongs to a call.
LEMMA OpenHasRequest ==
  ASSUME CallsTyped, NEW c \in Callers, pc[c] = "open"
  PROVE  request[c] \in Requests /\ verdict[c] \in Verdicts
  BY DEF CallsTyped

\* What is committed has its type.
LEMMA CommitIsTyped ==
  ASSUME TypeInv, NEW c \in Callers, CommitConfirm(c)
  PROVE  TypeInv'
  <1> DEFINE next == IF verdict[c].paid /\ AddInvoice THEN "invoice" ELSE AfterCall(c)
  <1>1. next \in LoopPoint \ {"open"} /\ (c \in Clients => next \in CallPoint)
    BY AfterCallIsTyped
  <1>2. /\ pc[c] = "open" /\ CloseCall(c, next) /\ WriteVerdict(verdict[c])
        /\ ledger' = Upsert(ledger, request[c])
        /\ credited' = (credited \/ c = "deposits")
        /\ UNCHANGED <<invoice, invoiceEvents, overdue, chain, polling, latest, balance, faults>>
    BY DEF CommitConfirm, loops
  <1> HIDE DEF next
  <1>3. request[c] \in Requests /\ verdict[c] \in Verdicts
    BY <1>2, OpenHasRequest DEF TypeInv
  <1>4. CallsTyped'
    BY <1>1, <1>2, CloseIsTyped DEF TypeInv
  <1>5. IntentTyped'
    BY <1>2, <1>3, WriteIsTyped DEF TypeInv
  <1>6. LedgerTyped'
    BY <1>2, <1>3, UpsertIsTyped DEF TypeInv, LedgerTyped
  <1>7. InvoiceTyped' /\ ChainTyped' /\ LoopsTyped' /\ FaultsTyped'
    BY <1>2 DEF TypeInv, InvoiceTyped, ChainTyped, LoopsTyped, FaultsTyped
  <1>8. QED
    BY <1>4, <1>5, <1>6, <1>7 DEF TypeInv

\* The rest of a call, its failure included.
LEMMA FinishIsTyped ==
  ASSUME TypeInv, NEW c \in Callers, FinishCall(c) \/ AbortConfirm(c)
  PROVE  TypeInv'
  <1>1. CASE CommitConfirm(c)
    BY <1>1, CommitIsTyped
  <1>2. CASE InsertInvoice(c) \/ EnqueueInvoice(c)
    <2>1. \E next \in {"announce", "idle", "polling"} :
            pc' = [pc EXCEPT ![c] = next] /\ (c \in Clients => next \in CallPoint)
      BY <1>2, AfterCallIsTyped DEF InsertInvoice, EnqueueInvoice
    <2>2. /\ pc[c] # "open"
          /\ UNCHANGED <<intent, session, ledger, outbox, credited, overdue, chain, request,
                         verdict,
                         polling, latest, balance, faults>>
      BY <1>2 DEF InsertInvoice, EnqueueInvoice, loops
    <2>3. CallsTyped'
      BY <2>1, <2>2, MoveIsTyped DEF TypeInv
    <2>4. InvoiceTyped'
      <3>1. /\ invoice' \in {TRUE, invoice}
            /\ invoiceEvents' \in {invoiceEvents, invoiceEvents + 1}
        BY <1>2 DEF InsertInvoice, EnqueueInvoice
      <3>2. {invoice, credited} \subseteq BOOLEAN /\ invoiceEvents \in Nat
        BY DEF TypeInv, InvoiceTyped
      <3>3. {invoice', credited'} \subseteq BOOLEAN
        BY <2>2, <3>1, <3>2
      <3>4. invoiceEvents' \in Nat
        BY <3>1, <3>2
      <3>5. QED
        BY <3>3, <3>4 DEF InvoiceTyped
    <2>5. IntentTyped' /\ LedgerTyped' /\ ChainTyped' /\ LoopsTyped' /\ FaultsTyped'
      BY <2>2 DEF TypeInv, IntentTyped, LedgerTyped, ChainTyped, LoopsTyped, FaultsTyped
    <2>6. QED
      BY <2>3, <2>4, <2>5 DEF TypeInv
  <1>3. CASE AbortConfirm(c)
    <2>1. /\ CloseCall(c, AfterCall(c)) /\ Fault
          /\ UNCHANGED <<intent, session, ledger, outbox, invoice, invoiceEvents, credited,
                         overdue, chain,
                         polling, latest, balance>>
      BY <1>3 DEF AbortConfirm, rows, loops
    <2>2. CallsTyped' /\ FaultsTyped'
      BY <2>1, AfterCallIsTyped, CloseIsTyped, FaultIsTyped DEF TypeInv
    <2>3. IntentTyped' /\ InvoiceTyped' /\ LedgerTyped' /\ ChainTyped' /\ LoopsTyped'
      BY <2>1 DEF TypeInv, IntentTyped, InvoiceTyped, LedgerTyped, ChainTyped, LoopsTyped
    <2>4. QED
      BY <2>2, <2>3 DEF TypeInv
  <1>4. QED
    BY <1>1, <1>2, <1>3 DEF FinishCall

\* The invariant under each step of the receipt loop.
LEMMA ReceiptLoopIsTyped ==
  ASSUME TypeInv, ReceiptLoop
  PROVE  TypeInv'
  <1>1. CASE SelectRecorded
    <2>1. /\ pc["receipts"] = "idle"
          /\ polling' = {[hash |-> h, amount |-> ledger[h].amount] :
                           h \in {g \in DOMAIN ledger : ledger[g].confirmations < Required}}
          /\ pc' = [pc EXCEPT !["receipts"] = "polling"]
          /\ UNCHANGED <<intent, session, ledger, outbox, invoice, invoiceEvents, credited,
                         overdue, chain,
                         request, verdict, latest, balance, faults>>
      BY <1>1 DEF SelectRecorded, rows
    <2>2. CallsTyped'
      BY <2>1, MoveIsTyped, CheckoutAssumption DEF TypeInv
    <2>3. \A h \in DOMAIN ledger : h \in Hashes /\ ledger[h].amount \in Nat
      BY DEF TypeInv, LedgerTyped
    <2>4. polling' \subseteq [hash : Hashes, amount : Nat]
      BY <2>1, <2>3
    <2>5. LoopsTyped'
      BY <2>1, <2>4 DEF TypeInv, LoopsTyped
    <2>6. IntentTyped' /\ InvoiceTyped' /\ LedgerTyped' /\ ChainTyped' /\ FaultsTyped'
      BY <2>1 DEF TypeInv, IntentTyped, InvoiceTyped, LedgerTyped, ChainTyped, FaultsTyped
    <2>7. QED
      BY <2>2, <2>5, <2>6 DEF TypeInv
  <1>5. CASE ReadLatestBlock
    BY <1>5 DEF ReadLatestBlock, rows, calls, TypeInv, IntentTyped, InvoiceTyped, LedgerTyped,
                ChainTyped, CallsTyped, LoopsTyped, FaultsTyped
  <1>2. ASSUME NEW x \in polling, PollReceipt(x) PROVE TypeInv'
    <2> DEFINE r == [hash |-> x.hash, amount |-> x.amount,
                     confirmations |-> Confirmations(latest, x.hash)]
    <2>1. /\ polling' = polling \ {x}
          /\ UNCHANGED <<intent, session, ledger, outbox, invoice, invoiceEvents, credited,
                         overdue, chain,
                         latest, balance>>
          /\ Fault \/ UNCHANGED faults
      BY <1>2 DEF PollReceipt, rows
    <2>2. CallsTyped'
      <3>1. CASE UNCHANGED calls
        BY <3>1 DEF TypeInv, CallsTyped, calls
      <3>2. CASE Lies(latest, x.hash) /\ BeginConfirm("receipts", r)
        <4>1. x.hash \in Hashes /\ x.amount \in Nat
          BY DEF TypeInv, LoopsTyped
        <4>2. Confirmations(latest, x.hash) \in Depths
          <5>1. /\ latest \in Seq([amount : Amounts, depth : Depths])
                /\ x.hash \in DOMAIN latest
            BY <3>2 DEF Lies, TypeInv, LoopsTyped
          <5>2. latest[x.hash] \in [amount : Amounts, depth : Depths]
            BY <5>1, SeqElement
          <5>3. QED
            BY <5>2 DEF Confirmations
        <4>3. r \in Requests
          BY <4>1, <4>2 DEF Requests
        <4> HIDE DEF r
        <4>4. QED
          BY <3>2, <4>3, BeginIsTyped DEF TypeInv
      <3>3. QED
        BY <1>2, <3>1, <3>2 DEF PollReceipt
    <2>3. FaultsTyped'
      BY <2>1, FaultIsTyped DEF TypeInv
    <2>4. IntentTyped' /\ InvoiceTyped' /\ LedgerTyped' /\ ChainTyped' /\ LoopsTyped'
      BY <2>1 DEF TypeInv, IntentTyped, InvoiceTyped, LedgerTyped, ChainTyped, LoopsTyped
    <2>5. QED
      BY <2>2, <2>3, <2>4 DEF TypeInv
  <1>3. CASE EndPolling
    <2>1. /\ pc["receipts"] = "polling"
          /\ pc' = [pc EXCEPT !["receipts"] = "idle"]
          /\ UNCHANGED <<intent, session, ledger, outbox, invoice, invoiceEvents, credited,
                         overdue, chain,
                         request, verdict, polling, balance, faults>>
          /\ latest' = <<>>
      BY <1>3 DEF EndPolling, rows
    <2>2. CallsTyped'
      BY <2>1, MoveIsTyped DEF TypeInv
    <2>4. /\ latest' \in Seq([amount : Amounts, depth : Depths])
          /\ Len(latest') <= MaxTransfers
      BY <2>1, CheckoutAssumption
    <2>3. QED
      BY <2>1, <2>2, <2>4 DEF TypeInv, IntentTyped, InvoiceTyped, LedgerTyped, ChainTyped, LoopsTyped,
                        FaultsTyped
  <1>4. CASE FinishCall("receipts")
    BY <1>4, FinishIsTyped
  <1>6. QED
    BY <1>1, <1>2, <1>3, <1>4, <1>5 DEF ReceiptLoop

\* What is on chain at some depth is an amount, of finitely many transfers.
LEMMA OnChainIsNat ==
  ASSUME ChainTyped, NEW d
  PROVE  OnChain(d) \in Nat
  <1> DEFINE S == {h \in DOMAIN chain : chain[h].depth >= d}
  <1>1. /\ chain \in Seq([amount : Amounts, depth : Depths]) /\ Len(chain) \in Nat
    BY DEF ChainTyped
  <1>2. DOMAIN chain = 1..Len(chain) /\ \A h \in DOMAIN chain : chain[h].amount \in Nat
    <2>1. /\ DOMAIN chain = 1..Len(chain)
          /\ \A h \in DOMAIN chain : chain[h] \in [amount : Amounts, depth : Depths]
      BY <1>1, SeqElement
    <2>2. Amounts \subseteq Nat
      BY CheckoutAssumption
    <2>3. QED
      BY <2>1, <2>2
  <1>3. IsFiniteSet(DOMAIN chain)
    BY <1>1, <1>2, FS_Interval
  <1>4. IsFiniteSet(S)
    BY <1>3, FS_Subset
  <1>5. Counted(chain, S)
    BY <1>2 DEF Counted
  <1>6. QED
    BY <1>4, <1>5, SumIsNat DEF OnChain

\* A finite set of numbers has a greatest one, and that is what Max picks.
LEMMA MaxIsGreatest ==
  ASSUME NEW n \in Nat, NEW S \in SUBSET (1..n), S # {}
  PROVE  Max(S) \in S
  <1> DEFINE from(m) == n - m
             R == {from(m) : m \in S}
  <1>1. R \in SUBSET Nat /\ R # {}
    <2>1. \A m \in S : m \in 1..n /\ from(m) \in Nat
      OBVIOUS
    <2> HIDE DEF from
    <2>2. QED
      BY <2>1
  <1>2. Min(R) \in R /\ \A k \in R : Min(R) <= k
    <2> HIDE DEF R
    <2>1. QED
      BY <1>1, MinIsLeast
  <1>3. PICK m \in S : from(m) = Min(R)
    BY <1>2
  <1>4. \A k \in S : m >= k
    <2> SUFFICES ASSUME NEW k \in S PROVE m >= k
      OBVIOUS
    <2>1. from(m) <= from(k)
      BY <1>2, <1>3
    <2>2. QED
      BY <2>1
  <1>5. QED
    BY <1>4 DEF Max

\* The chain is a table whose rows are numbered.
LEMMA ChainIsTable ==
  ASSUME ChainTyped
  PROVE  /\ Len(chain) \in Nat /\ DOMAIN chain = 1..Len(chain)
         /\ DOMAIN chain \subseteq 1..MaxTransfers /\ DOMAIN chain \subseteq Hashes
         /\ \A h \in DOMAIN chain : chain[h] \in [amount : Amounts, depth : Depths]
  <1>1. /\ chain \in Seq([amount : Amounts, depth : Depths]) /\ Len(chain) <= MaxTransfers
        /\ Len(chain) \in Nat
    BY DEF ChainTyped
  <1>2. /\ DOMAIN chain = 1..Len(chain)
        /\ \A h \in DOMAIN chain : chain[h] \in [amount : Amounts, depth : Depths]
    BY <1>1, SeqElement
  <1>3. MaxTransfers \in Nat /\ 1..MaxTransfers \subseteq Hashes
    BY CheckoutAssumption
  <1>4. QED
    BY <1>1, <1>2, <1>3

\* The invariant under each step of the deposit loop.
LEMMA DepositLoopIsTyped ==
  ASSUME TypeInv, DepositLoop
  PROVE  TypeInv'
  <1>1. CASE ExpireOldIntents
    <2>1. /\ pc["deposits"] = "idle"
          /\ pc' = [pc EXCEPT !["deposits"] = "observe"]
          /\ UNCHANGED <<ledger, invoice, invoiceEvents, credited, overdue, chain, request,
                         verdict, polling,
                         latest, balance, faults>>
      BY <1>1 DEF ExpireOldIntents, loops
    <2>2. CallsTyped'
      BY <2>1, MoveIsTyped, CheckoutAssumption DEF TypeInv
    <2>3. IntentTyped'
      <3>1. CASE UNCHANGED <<intent, session, outbox>>
        BY <3>1 DEF TypeInv, IntentTyped
      <3>2. CASE /\ intent' = [intent EXCEPT !.status = "expired"]
                 /\ session' = "expired"
                 /\ outbox' = outbox \cup {"payment.expired"}
        <4>1. "expired" \in IntentStatus /\ "expired" \in SessionStatus
          BY DEF IntentStatus, SessionStatus
        <4>2. QED
          BY <3>2, <4>1, StatusIsTyped DEF TypeInv, IntentTyped
      <3>3. QED
        BY <1>1, <3>1, <3>2 DEF ExpireOldIntents
    <2>4. InvoiceTyped' /\ LedgerTyped' /\ ChainTyped' /\ LoopsTyped' /\ FaultsTyped'
      BY <2>1 DEF TypeInv, InvoiceTyped, LedgerTyped, ChainTyped, LoopsTyped, FaultsTyped
    <2>5. QED
      BY <2>2, <2>3, <2>4 DEF TypeInv
  <1>2. CASE SelectDeposit
    <2>1. /\ pc["deposits"] = "observe"
          /\ \E next \in {"balance", "idle"} : pc' = [pc EXCEPT !["deposits"] = next]
          /\ UNCHANGED <<intent, session, ledger, outbox, invoice, invoiceEvents, credited,
                         overdue, chain,
                         request, verdict, polling, latest, balance, faults>>
      BY <1>2 DEF SelectDeposit, rows, loops
    <2>2. CallsTyped'
      BY <2>1, MoveIsTyped, CheckoutAssumption DEF TypeInv
    <2>3. QED
      BY <2>1, <2>2 DEF TypeInv, IntentTyped, InvoiceTyped, LedgerTyped, ChainTyped, LoopsTyped,
                        FaultsTyped
  <1>3. CASE ReadBalance
    <2>1. /\ pc["deposits"] = "balance"
          /\ \E next \in {"observed", "logs"} : pc' = [pc EXCEPT !["deposits"] = next]
          /\ UNCHANGED <<intent, session, ledger, outbox, invoice, invoiceEvents, credited,
                         overdue, chain,
                         request, verdict, polling,
                         latest>>
          /\ Fault \/ UNCHANGED faults
          /\ balance' = OnChain(1) \/ balance' = 0
      BY <1>3 DEF ReadBalance, rows
    <2>2. CallsTyped'
      BY <2>1, MoveIsTyped, CheckoutAssumption DEF TypeInv
    <2>3. balance' \in Nat
      BY <2>1, OnChainIsNat DEF TypeInv
    <2>4. LoopsTyped' /\ FaultsTyped'
      BY <2>1, <2>3, FaultIsTyped DEF TypeInv, LoopsTyped
    <2>5. QED
      BY <2>1, <2>2, <2>4 DEF TypeInv, IntentTyped, InvoiceTyped, LedgerTyped, ChainTyped
  <1>4. CASE ConfirmObservedBalance
    <2> DEFINE status == ResolveIntentStatus(Expected, balance, Tolerance, Required, Required)
               paid == IntentStatusIsPaid(status)
               v == [status |-> status, received |-> balance,
                     confirmations |-> Required, paid |-> paid]
    <2>1. /\ pc["deposits"] = "observed" /\ balance' = 0
          /\ \E next \in {"idle", "logs"} : pc' = [pc EXCEPT !["deposits"] = next]
          /\ credited' \in {TRUE, credited}
          /\ UNCHANGED <<ledger, invoice, invoiceEvents, overdue, chain, request, verdict, polling,
                         latest>>
          /\ Fault \/ UNCHANGED faults
      BY <1>4 DEF ConfirmObservedBalance
    <2>2. CallsTyped'
      BY <2>1, MoveIsTyped, CheckoutAssumption DEF TypeInv
    <2>3. LoopsTyped' /\ FaultsTyped'
      BY <2>1, FaultIsTyped DEF TypeInv, LoopsTyped
    <2>4. IntentTyped'
      <3>1. CASE WriteVerdict(v)
        <4>1. status \in IntentStatus /\ paid \in BOOLEAN
          BY ResolveIsStatus DEF IntentStatusIsPaid
        <4>2. balance \in Nat /\ Required \in Depths
          BY CheckoutAssumption DEF TypeInv, LoopsTyped, Depths
        <4> HIDE DEF status, paid
        <4>3. v \in Verdicts
          BY <4>1, <4>2 DEF Verdicts
        <4> HIDE DEF v
        <4>4. QED
          BY <3>1, <4>3, WriteIsTyped DEF TypeInv
      <3>2. CASE UNCHANGED <<intent, session, outbox>>
        BY <3>2 DEF TypeInv, IntentTyped
      <3>3. QED
        BY <1>4, <3>1, <3>2 DEF ConfirmObservedBalance
    <2>5. InvoiceTyped' /\ LedgerTyped' /\ ChainTyped'
      BY <2>1 DEF TypeInv, InvoiceTyped, LedgerTyped, ChainTyped
    <2>6. QED
      BY <2>2, <2>3, <2>4, <2>5 DEF TypeInv
  <1>5. CASE ScanLogs
    <2> DEFINE mined == {h \in DOMAIN chain : Mined(h)}
               depths == {chain[h].depth : h \in mined}
               r == [hash |-> Max(mined), amount |-> OnChain(1), confirmations |-> Min(depths)]
    <2>1. /\ pc["deposits"] = "logs"
          /\ UNCHANGED <<intent, session, ledger, outbox, invoice, invoiceEvents, credited,
                         overdue, chain,
                         polling, latest, balance>>
          /\ Fault \/ UNCHANGED faults
      BY <1>5 DEF ScanLogs, rows, loops
    <2>2. CallsTyped'
      <3>1. CASE pc' = [pc EXCEPT !["deposits"] = "idle"] /\ UNCHANGED <<request, verdict>>
        BY <2>1, <3>1, MoveIsTyped, CheckoutAssumption DEF TypeInv
      <3>2. CASE mined # {} /\ BeginConfirm("deposits", r)
        <4>1. /\ Len(chain) \in Nat /\ DOMAIN chain = 1..Len(chain)
              /\ DOMAIN chain \subseteq Hashes
              /\ \A h \in DOMAIN chain : chain[h] \in [amount : Amounts, depth : Depths]
          BY ChainIsTable DEF TypeInv
        <4>2. mined \in SUBSET (1..Len(chain)) /\ mined # {}
          BY <3>2, <4>1
        <4>3. \A h \in mined : chain[h].depth \in Depths
          BY <4>1
        <4> HIDE DEF mined
        <4>4. Max(mined) \in Hashes
          BY <4>1, <4>2, MaxIsGreatest
        <4>5. depths \in SUBSET Depths /\ Depths \in SUBSET Nat /\ depths # {}
          <5>1. depths \in SUBSET Depths
            BY <4>3
          <5>2. depths # {}
            BY <4>2
          <5>3. Depths \in SUBSET Nat
            BY CheckoutAssumption DEF Depths
          <5>4. QED
            BY <5>1, <5>2, <5>3
        <4> HIDE DEF depths
        <4>6. Min(depths) \in Depths
          BY <4>5, MinIsLeast
        <4>7. OnChain(1) \in Nat
          BY OnChainIsNat DEF TypeInv
        <4>8. r \in Requests
          BY <4>4, <4>6, <4>7 DEF Requests
        <4> HIDE DEF r
        <4>9. QED
          BY <3>2, <4>8, BeginIsTyped DEF TypeInv
      <3>3. QED
        BY <1>5, <3>1, <3>2 DEF ScanLogs
    <2>3. FaultsTyped'
      BY <2>1, FaultIsTyped DEF TypeInv
    <2>4. QED
      BY <2>1, <2>2, <2>3 DEF TypeInv, IntentTyped, InvoiceTyped, LedgerTyped, ChainTyped,
                              LoopsTyped
  <1>6. CASE FinishCall("deposits")
    BY <1>6, FinishIsTyped
  <1>7. QED
    BY <1>1, <1>2, <1>3, <1>4, <1>5, <1>6 DEF DepositLoop

\* Appending to a sequence of values of a set.
LEMMA AppendIsSeq ==
  ASSUME NEW T, NEW s \in Seq(T), NEW x \in T
  PROVE  /\ Append(s, x) \in Seq(T) /\ Len(Append(s, x)) = Len(s) + 1
         /\ DOMAIN Append(s, x) = 1..(Len(s) + 1)
         /\ \A h \in 1..Len(s) : Append(s, x)[h] = s[h]
  OBVIOUS

\* The chain only grows, in length and in depth.
LEMMA ChainGrows ==
  ASSUME ChainTyped, Transfer \/ Block \/ UNCHANGED chain
  PROVE  /\ DOMAIN chain \subseteq DOMAIN chain'
         /\ \A h \in DOMAIN chain : /\ chain'[h].amount = chain[h].amount
                                    /\ chain[h].depth <= chain'[h].depth
         /\ chain' \in Seq([amount : Amounts, depth : Depths]) /\ Len(chain') <= MaxTransfers
  <1>1. /\ chain \in Seq([amount : Amounts, depth : Depths]) /\ Len(chain) <= MaxTransfers
        /\ Len(chain) \in Nat /\ DOMAIN chain = 1..Len(chain)
        /\ \A h \in DOMAIN chain : chain[h] \in [amount : Amounts, depth : Depths]
    BY ChainIsTable DEF ChainTyped
  <1>2. Required \in Nat /\ MaxTransfers \in Nat /\ Depths = 0..Required
    BY CheckoutAssumption DEF Depths
  <1>3. CASE Transfer
    <2>1. PICK a \in Amounts : chain' = Append(chain, [amount |-> a, depth |-> 0])
      BY <1>3 DEF Transfer
    <2>2. Len(chain) < MaxTransfers
      BY <1>3 DEF Transfer
    <2> DEFINE x == [amount |-> a, depth |-> 0]
    <2>3. x \in [amount : Amounts, depth : Depths]
      BY <1>2
    <2>4. chain' = Append(chain, x)
      BY <2>1
    <2> HIDE DEF x
    <2>5. /\ chain' \in Seq([amount : Amounts, depth : Depths])
          /\ Len(chain') = Len(chain) + 1
          /\ DOMAIN chain' = 1..(Len(chain) + 1)
          /\ \A h \in 1..Len(chain) : chain'[h] = chain[h]
      <3>1. chain \in Seq([amount : Amounts, depth : Depths])
        BY <1>1
      <3>2. /\ Append(chain, x) \in Seq([amount : Amounts, depth : Depths])
            /\ Len(Append(chain, x)) = Len(chain) + 1
            /\ DOMAIN Append(chain, x) = 1..(Len(chain) + 1)
            /\ \A h \in 1..Len(chain) : Append(chain, x)[h] = chain[h]
        BY <2>3, <3>1, AppendIsSeq
      <3>3. QED
        BY <2>4, <3>2
    <2>6. \A h \in DOMAIN chain : chain[h].depth \in Nat
      BY <1>1, <1>2
    <2>7. Len(chain') <= MaxTransfers
      BY <1>1, <1>2, <2>2, <2>5
    <2>8. QED
      BY <1>1, <2>5, <2>6, <2>7
  <1>4. CASE Block
    <2> DEFINE deeper(h) == [chain[h] EXCEPT !.depth = IF @ < Required THEN @ + 1 ELSE @]
    <2>1. chain' = [h \in 1..Len(chain) |-> deeper(h)]
      BY <1>1, <1>4 DEF Block
    <2>2. ASSUME NEW h \in 1..Len(chain)
          PROVE  /\ deeper(h) \in [amount : Amounts, depth : Depths]
                 /\ deeper(h).amount = chain[h].amount /\ chain[h].depth <= deeper(h).depth
      <3>1. chain[h] \in [amount : Amounts, depth : 0..Required]
        BY <1>1, <1>2
      <3>2. QED
        BY <1>2, <3>1
    <2> HIDE DEF deeper
    <2>3. chain' \in Seq([amount : Amounts, depth : Depths]) /\ Len(chain') = Len(chain)
      BY <1>1, <2>1, <2>2
    <2>4. QED
      BY <1>1, <2>1, <2>2, <2>3
  <1>5. CASE UNCHANGED chain
    <2>1. \A h \in DOMAIN chain : chain[h].depth \in Nat
      BY <1>1, <1>2
    <2>2. QED
      BY <1>1, <1>5, <2>1
  <1>6. QED
    BY <1>3, <1>4, <1>5

\* The invariant under every step, one case per disjunct of Next.
LEMMA StepIsTyped == TypeInv /\ [Next]_vars => TypeInv'
  <1> SUFFICES ASSUME TypeInv, [Next]_vars PROVE TypeInv'
    OBVIOUS
  <1>1. ASSUME NEW c \in Clients, ReportTransfer(c) PROVE TypeInv'
    <2>1. PICK r \in Reports : BeginConfirm(c, r)
      BY <1>1 DEF ReportTransfer
    <2>2. r \in Requests
      <3>1. CASE TrueReports
        <4>1. PICK h \in DOMAIN chain :
                r \in [hash : {h}, amount : {chain[h].amount}, confirmations : 0..chain[h].depth]
          BY <3>1 DEF Reports
        <4>2. h \in Hashes /\ chain[h] \in [amount : Amounts, depth : Depths]
          BY ChainIsTable DEF TypeInv
        <4>3. Amounts \subseteq Nat /\ Required \in Nat
          BY CheckoutAssumption
        <4>4. r.hash = h /\ r.amount = chain[h].amount /\ r.confirmations \in 0..chain[h].depth
          BY <4>1
        <4>5. r = [hash |-> r.hash, amount |-> r.amount, confirmations |-> r.confirmations]
          BY <4>1
        <4>6. r.confirmations \in Depths
          BY <4>2, <4>3, <4>4 DEF Depths
        <4>7. r.hash \in Hashes /\ r.amount \in Nat
          BY <4>2, <4>3, <4>4
        <4>8. QED
          BY <4>5, <4>6, <4>7 DEF Requests
      <3>2. CASE ~TrueReports
        BY <3>2, CheckoutAssumption DEF Reports, Requests
      <3>3. QED
        BY <3>1, <3>2
    <2>3. CallsTyped'
      BY <2>1, <2>2, BeginIsTyped DEF TypeInv
    <2>4. UNCHANGED <<intent, session, ledger, outbox, invoice, invoiceEvents, credited, overdue,
                      chain,
                      polling, latest, balance, faults>>
      BY <1>1 DEF ReportTransfer, rows, loops
    <2>5. QED
      BY <2>3, <2>4 DEF TypeInv, IntentTyped, InvoiceTyped, LedgerTyped, ChainTyped, LoopsTyped,
                        FaultsTyped
  <1>2. ASSUME NEW c \in Clients, FinishCall(c) PROVE TypeInv'
    BY <1>2, FinishIsTyped
  <1>3. ASSUME NEW c \in Callers, AbortConfirm(c) PROVE TypeInv'
    BY <1>3, FinishIsTyped
  <1>4. CASE CancelSession
    BY <1>4 DEF CancelSession, calls, loops, TypeInv, IntentTyped, InvoiceTyped, LedgerTyped,
                ChainTyped, CallsTyped, LoopsTyped, FaultsTyped, SessionStatus
  <1>5. CASE Settle
    <2>1. /\ intent' = [intent EXCEPT !.status = "settled"]
          /\ UNCHANGED <<session, ledger, outbox, invoice, invoiceEvents, credited, overdue, chain,
                         pc,
                         request, verdict, polling, latest, balance, faults>>
      BY <1>5 DEF Settle, calls, loops
    <2>2. IntentTyped'
      <3>1. "settled" \in IntentStatus
        BY DEF IntentStatus
      <3>2. QED
        BY <2>1, <3>1, StatusIsTyped DEF TypeInv, IntentTyped
    <2>3. QED
      BY <2>1, <2>2 DEF TypeInv, InvoiceTyped, LedgerTyped, ChainTyped, CallsTyped, LoopsTyped,
                        FaultsTyped
  <1>6. CASE Transfer \/ Block
    <2>1. UNCHANGED <<intent, session, ledger, outbox, invoice, invoiceEvents, credited, overdue,
                      pc,
                      request, verdict, polling, latest, balance, faults>>
      BY <1>6 DEF Transfer, Block, rows, calls, loops
    <2>2. ChainTyped'
      BY <1>6, <2>1, ChainGrows DEF TypeInv, ChainTyped
    <2>3. QED
      BY <2>1, <2>2 DEF TypeInv, IntentTyped, InvoiceTyped, LedgerTyped, CallsTyped, LoopsTyped,
                        FaultsTyped
  <1>7. CASE TimePasses \/ UNCHANGED vars
    BY <1>7 DEF TimePasses, vars, rows, calls, loops, TypeInv, IntentTyped, InvoiceTyped,
                LedgerTyped, ChainTyped, CallsTyped, LoopsTyped, FaultsTyped
  <1>8. QED
    BY <1>1, <1>2, <1>3, <1>4, <1>5, <1>6, <1>7, ReceiptLoopIsTyped, DepositLoopIsTyped DEF Next

\* The types hold in every behaviour.
LEMMA TypesAreInvariant == Spec => []TypeInv
  BY InitTypeInv, StepIsTyped, PTL DEF Spec

\* Every verdict that is computed and every column that is written has its
\* type, sums and depths included, for any number of callers and rows.
THEOREM CheckoutTypes == Spec => []TypeOK
  BY TypesAreInvariant, TypeInvIsTypeOK, PTL

-----------------------------------------------------------------------------
(* Money *)

\* A recorded or reported transaction is a transfer of chain t, no deeper than
\* it lies.
Happened(t, h, amount, confirmations) ==
  h \in DOMAIN t /\ amount = t[h].amount /\ confirmations <= t[h].depth

\* The least amount that pays the session.
Least == ComputeBounds(Expected, Tolerance).min

\* Who reports transfers one by one.
Reporters == Callers \ {"deposits"}

\* With true reports every row, request and selected row is a transfer; what was
\* received is covered by the transfers that are recorded or about to be, and
\* whatever is paid by the deep ones.  So it is until the deposit loop commits
\* what it found.
MoneyInv ==
  /\ \A h \in DOMAIN ledger : Happened(chain, h, ledger[h].amount, ledger[h].confirmations)
  /\ \A c \in Reporters : pc[c] = "open" =>
       /\ Happened(chain, request[c].hash, request[c].amount, request[c].confirmations)
       /\ verdict[c].received <= Sum(chain, DOMAIN ledger \cup {request[c].hash})
  /\ \A c \in Reporters : verdict[c].paid => Least <= OnChain(Required)
  /\ \A x \in polling : x.hash \in DOMAIN chain /\ x.amount = chain[x.hash].amount
  /\ intent.received <= Sum(chain, DOMAIN ledger)
  /\ session = "paid" => Least <= OnChain(Required)

CountedInv == credited \/ MoneyInv

\* The cached block is one of the chain.
LatestInv == \A h \in DOMAIN latest : h \in DOMAIN chain /\ latest[h].depth <= chain[h].depth

\* The transfers of a set of rows of the chain have a sum.
LEMMA TransfersAreCounted ==
  ASSUME ChainTyped, NEW S \in SUBSET DOMAIN chain
  PROVE  IsFiniteSet(S) /\ Counted(chain, S) /\ Sum(chain, S) \in Nat
  <1>1. /\ Len(chain) \in Nat /\ DOMAIN chain = 1..Len(chain)
        /\ \A h \in DOMAIN chain : chain[h] \in [amount : Amounts, depth : Depths]
    BY ChainIsTable
  <1>2. IsFiniteSet(DOMAIN chain)
    BY <1>1, FS_Interval
  <1>3. IsFiniteSet(S)
    BY <1>2, FS_Subset
  <1>4. Counted(chain, S)
    <2>1. Amounts \subseteq Nat
      BY CheckoutAssumption
    <2>2. QED
      BY <1>1, <2>1 DEF Counted
  <1>5. QED
    BY <1>3, <1>4, SumIsNat

\* Whatever happens to the chain, the transfers of a larger set are no less.
LEMMA TransfersOnlyGrow ==
  ASSUME ChainTyped, Transfer \/ Block \/ UNCHANGED chain,
         NEW S \in SUBSET DOMAIN chain, NEW T \in SUBSET DOMAIN chain', S \subseteq T
  PROVE  /\ Sum(chain, S) \in Nat /\ Sum(chain', T) \in Nat
         /\ Sum(chain, S) <= Sum(chain', T)
  <1>1. /\ \A h \in DOMAIN chain : chain'[h].amount = chain[h].amount
        /\ chain' \in Seq([amount : Amounts, depth : Depths])
    BY ChainGrows
  <1>2. /\ DOMAIN chain' = 1..Len(chain') /\ Len(chain') \in Nat
        /\ \A h \in DOMAIN chain' : chain'[h] \in [amount : Amounts, depth : Depths]
    <2>1. chain' \in Seq([amount : Amounts, depth : Depths])
      BY <1>1
    <2>2. Len(chain') \in Nat
      BY <2>1
    <2>3. QED
      BY <2>1, <2>2, SeqElement
  <1>3. IsFiniteSet(DOMAIN chain')
    BY <1>2, FS_Interval
  <1>4. IsFiniteSet(T)
    BY <1>3, FS_Subset
  <1>5. Amounts \subseteq Nat
    BY CheckoutAssumption
  <1>6. Counted(chain', T)
    BY <1>2, <1>5 DEF Counted
  <1>7. Counted(chain, S) /\ Sum(chain, S) \in Nat
    BY TransfersAreCounted
  <1>8. \A h \in S : chain[h].amount <= chain'[h].amount
    BY <1>1, <1>7 DEF Counted
  <1>9. QED
    BY <1>4, <1>6, <1>7, <1>8, SumGrows, SumIsNat

\* So is what lies at some depth.
LEMMA OnChainGrows ==
  ASSUME ChainTyped, Transfer \/ Block \/ UNCHANGED chain, NEW d \in Nat
  PROVE  /\ OnChain(d) \in Nat /\ OnChain(d)' \in Nat
         /\ OnChain(d) <= OnChain(d)'
  <1> DEFINE S == {h \in DOMAIN chain : chain[h].depth >= d}
             T == {h \in DOMAIN chain' : chain'[h].depth >= d}
  <1>1. /\ DOMAIN chain \subseteq DOMAIN chain'
        /\ \A h \in DOMAIN chain : chain[h].depth <= chain'[h].depth
        /\ chain' \in Seq([amount : Amounts, depth : Depths])
    BY ChainGrows
  <1>2. /\ \A h \in DOMAIN chain : chain[h].depth \in Nat
        /\ \A h \in DOMAIN chain' : chain'[h].depth \in Nat
    <2>1. Depths \subseteq Nat
      BY CheckoutAssumption DEF Depths
    <2>2. \A h \in DOMAIN chain : chain[h] \in [amount : Amounts, depth : Depths]
      BY ChainIsTable
    <2>3. \A h \in DOMAIN chain' : chain'[h] \in [amount : Amounts, depth : Depths]
      BY <1>1, SeqElement
    <2>4. QED
      BY <2>1, <2>2, <2>3
  <1>3. S \subseteq T
    <2> SUFFICES ASSUME NEW h \in S PROVE h \in T
      OBVIOUS
    <2>1. h \in DOMAIN chain /\ h \in DOMAIN chain' /\ chain[h].depth >= d
      BY <1>1
    <2>2. chain'[h].depth >= d
      BY <1>1, <1>2, <2>1
    <2>3. QED
      BY <2>1, <2>2
  <1>4. Sum(chain, S) \in Nat /\ Sum(chain', T) \in Nat /\ Sum(chain, S) <= Sum(chain', T)
    <2>1. S \in SUBSET DOMAIN chain /\ T \in SUBSET DOMAIN chain'
      OBVIOUS
    <2> HIDE DEF S, T
    <2>2. QED
      BY <1>3, <2>1, TransfersOnlyGrow
  <1>5. OnChain(d) = Sum(chain, S) /\ OnChain(d)' = Sum(chain', T)
    BY DEF OnChain
  <1>6. QED
    BY <1>4, <1>5

\* The tolerated minimum is at most the tolerated maximum.
LEMMA RoundingKeepsOrder ==
  ASSUME NEW m \in Nat, NEW n \in Nat, m <= n
  PROVE  Rounded(m, 10000) \in Nat /\ Rounded(n, 10000) \in Nat
         /\ Rounded(m, 10000) <= Rounded(n, 10000)
  BY DEF Rounded

\* The bounds of what counts as paid are ordered.
LEMMA BoundsAreOrdered ==
  LET b == ComputeBounds(Expected, Tolerance)
  IN  b.min \in Nat /\ b.max \in Nat /\ b.min <= b.max
  <1> DEFINE e == Expected
             t == Tolerance
             low == AtLeastZero(e * (10000 - t))
             high == e * (10000 + t)
  <1>1. e \in Nat /\ t \in Nat
    BY CheckoutAssumption
  <1>2. e * t \in Nat /\ e * 10000 \in Nat
    BY <1>1
  <1>3. e * (10000 - t) = e * 10000 - e * t /\ e * (10000 + t) = e * 10000 + e * t
    BY <1>1
  <1>4. low \in Nat /\ high \in Nat /\ low <= high
    <2> HIDE DEF e, t
    <2>1. QED
      BY <1>2, <1>3 DEF AtLeastZero
  <1>5. ComputeBounds(Expected, Tolerance) = [min |-> Rounded(low, 10000),
                                              max |-> Rounded(high, 10000)]
    BY <1>1 DEF ComputeBounds, AtLeastZero
  <1> HIDE DEF low, high
  <1>6. QED
    BY <1>4, <1>5, RoundingKeepsOrder

\* Only an amount that reaches the minimum is paid.
LEMMA PaidReachesLeast ==
  ASSUME NEW r \in Nat,
         IntentStatusIsPaid(ResolveIntentStatus(Expected, r, Tolerance, Required, Required))
  PROVE  Least <= r
  <1> DEFINE b == ComputeBounds(Expected, Tolerance)
             s == ResolveIntentStatus(Expected, r, Tolerance, Required, Required)
             none == r <= 0
             few == r > 0 /\ r < b.min
             many == r > 0 /\ r > b.max
  <1>1. s = CASE none -> "awaiting_funds" [] few -> "partial" [] many -> "overpaid"
              [] OTHER -> IF Required < Required THEN "awaiting_funds" ELSE "confirmed"
    BY DEF ResolveIntentStatus
  <1>2. b.min \in Nat /\ b.max \in Nat /\ b.min <= b.max
    BY BoundsAreOrdered
  <1>3. s \in {"confirmed", "overpaid", "settled"}
    BY DEF IntentStatusIsPaid
  <1>4. ~(none /\ few) /\ ~(none /\ many)
    OBVIOUS
  <1>5. ~(few /\ many)
    BY <1>2
  <1> HIDE DEF s, none, few, many
  <1>6. ~none /\ ~few
    BY <1>1, <1>3, <1>4, <1>5
  <1> HIDE DEF b
  <1>7. b.min <= r
    BY <1>2, <1>6 DEF none, few
  <1>8. QED
    BY <1>7 DEF Least, b

\* An aggregate of rows that happened counts no more than the transfers, and is
\* paid by the deep ones.
LEMMA AssessIsCovered ==
  ASSUME ChainTyped, NEW l, IsFiniteSet(DOMAIN l),
         \A h \in DOMAIN l : /\ l[h] \in [amount : Nat, confirmations : Depths]
                             /\ Happened(chain, h, l[h].amount, l[h].confirmations)
  PROVE  /\ Sum(l, DOMAIN l) = Sum(chain, DOMAIN l)
         /\ Assess(l).received = Sum(chain, DOMAIN l)
         /\ Assess(l).paid => Least <= OnChain(Required)
  <1> DEFINE deep == {h \in DOMAIN l : l[h].confirmations >= Required}
             lying == {h \in DOMAIN chain : chain[h].depth >= Required}
             sure == ResolveIntentStatus(Expected, Sum(l, deep), Tolerance, Required, Required)
  <1>1. /\ DOMAIN l \in SUBSET DOMAIN chain
        /\ \A h \in DOMAIN l : /\ l[h].amount = chain[h].amount /\ l[h].amount \in Nat
                               /\ l[h].confirmations <= chain[h].depth
                               /\ l[h].confirmations \in Depths
    BY DEF Happened
  <1>2. Counted(l, DOMAIN l)
    BY <1>1 DEF Counted
  <1>3. Sum(l, DOMAIN l) = Sum(chain, DOMAIN l)
    BY <1>1, <1>2, SumIsSame
  <1>4. Assess(l).received = Sum(l, DOMAIN l) /\ Assess(l).paid = IntentStatusIsPaid(sure)
    BY DEF Assess
  <1>5. deep \in SUBSET DOMAIN l /\ IsFiniteSet(deep) /\ Counted(l, deep)
    BY <1>2, FS_Subset DEF Counted
  <1>6. deep \subseteq lying /\ lying \in SUBSET DOMAIN chain
    <2> SUFFICES ASSUME NEW h \in deep PROVE h \in lying
      OBVIOUS
    <2>1. chain[h] \in [amount : Amounts, depth : Depths] /\ h \in DOMAIN chain
      BY <1>1, ChainIsTable
    <2>2. Required \in Nat /\ Depths \subseteq Nat
      BY CheckoutAssumption DEF Depths
    <2>3. l[h].confirmations \in Nat /\ chain[h].depth \in Nat /\ l[h].confirmations >= Required
          /\ l[h].confirmations <= chain[h].depth
      BY <1>1, <2>1, <2>2
    <2>4. chain[h].depth >= Required
      BY <2>2, <2>3
    <2>5. QED
      BY <2>1, <2>4
  <1>7. OnChain(Required) = Sum(chain, lying)
    BY DEF OnChain
  <1>8. Sum(l, deep) \in Nat
    BY <1>5, SumIsNat
  <1> HIDE DEF lying
  <1>9. Sum(l, deep) <= Sum(chain, lying) /\ Sum(chain, lying) \in Nat
    <2>1. IsFiniteSet(lying) /\ Counted(chain, lying) /\ Sum(chain, lying) \in Nat
      BY <1>6, TransfersAreCounted
    <2>2. \A h \in deep : l[h].amount <= chain[h].amount
      BY <1>1
    <2> HIDE DEF deep
    <2>3. QED
      BY <1>5, <1>6, <2>1, <2>2, SumGrows
  <1>10. Least \in Nat
    BY BoundsAreOrdered DEF Least
  <1>11. Assess(l).paid => Least <= OnChain(Required)
    <2> SUFFICES ASSUME Assess(l).paid PROVE Least <= OnChain(Required)
      OBVIOUS
    <2>1. Least <= Sum(l, deep)
      <3>1. IntentStatusIsPaid(sure)
        BY <1>4
      <3> HIDE DEF deep
      <3>2. QED
        BY <1>8, <3>1, PaidReachesLeast
    <2> HIDE DEF deep
    <2>2. QED
      BY <1>7, <1>8, <1>9, <1>10, <2>1
  <1>12. QED
    BY <1>3, <1>4, <1>11

\* At first there is no money.
LEMMA InitMoneyInv == Init => MoneyInv
  <1> SUFFICES ASSUME Init PROVE MoneyInv
    OBVIOUS
  <1>1. DOMAIN ledger = {} /\ chain = <<>> /\ polling = {} /\ session = "awaiting_funds"
        /\ intent.received = 0 /\ pc = [c \in Callers |-> "idle"]
        /\ verdict = [c \in Callers |-> NoVerdict]
    BY DEF Init
  <1>2. Sum(chain, DOMAIN ledger) = 0
    BY <1>1, FS_EmptySet, SumSplits
  <1>3. intent.received <= Sum(chain, DOMAIN ledger)
    BY <1>1, <1>2
  <1>4. \A c \in Callers : pc[c] # "open" /\ ~verdict[c].paid
    BY <1>1 DEF NoVerdict
  <1>5. QED
    BY <1>1, <1>3, <1>4 DEF MoneyInv, Reporters

\* A step that records nothing and opens no transaction, whatever the chain does.
LEMMA StandKeepsMoney ==
  ASSUME TypeInv, TypeInv', MoneyInv, Transfer \/ Block \/ UNCHANGED chain, UNCHANGED ledger,
         \A c \in Reporters :
           /\ pc'[c] = "open" => pc[c] = "open" /\ UNCHANGED <<request[c], verdict[c]>>
           /\ verdict'[c].paid => verdict[c].paid,
         \A x \in polling' :
           x \in polling \/ (x.hash \in DOMAIN ledger /\ x.amount = ledger[x.hash].amount),
         intent'.received = intent.received, session' = "paid" => session = "paid"
  PROVE  MoneyInv'
  <1>1. /\ DOMAIN chain \subseteq DOMAIN chain'
        /\ \A h \in DOMAIN chain : /\ chain'[h].amount = chain[h].amount
                                   /\ chain[h].depth <= chain'[h].depth
        /\ \A h \in DOMAIN chain : chain[h].depth \in Nat /\ chain'[h].depth \in Nat
    <2>1. Depths \subseteq Nat
      BY CheckoutAssumption DEF Depths
    <2>2. ChainTyped /\ ChainTyped'
      BY DEF TypeInv
    <2>3. /\ DOMAIN chain \subseteq DOMAIN chain'
          /\ \A h \in DOMAIN chain : /\ chain'[h].amount = chain[h].amount
                                     /\ chain[h].depth <= chain'[h].depth
      BY <2>2, ChainGrows
    <2>4. /\ \A h \in DOMAIN chain : chain[h] \in [amount : Amounts, depth : Depths]
          /\ \A h \in DOMAIN chain' : chain'[h] \in [amount : Amounts, depth : Depths]
      <3>1. chain \in Seq([amount : Amounts, depth : Depths])
            /\ chain' \in Seq([amount : Amounts, depth : Depths])
        BY <2>2 DEF ChainTyped
      <3>2. QED
        BY <3>1, SeqElement
    <2>5. QED
      BY <2>1, <2>3, <2>4
  <1>2. ASSUME NEW h, NEW a, NEW d \in Nat, Happened(chain, h, a, d) PROVE Happened(chain', h, a, d)
    <2>1. h \in DOMAIN chain /\ a = chain[h].amount /\ d <= chain[h].depth
      BY <1>2 DEF Happened
    <2>2. h \in DOMAIN chain' /\ a = chain'[h].amount /\ d <= chain'[h].depth
      BY <1>1, <2>1
    <2>3. QED
      BY <2>2 DEF Happened
  <1>3. ASSUME NEW S \in SUBSET DOMAIN chain, NEW n \in Nat, n <= Sum(chain, S)
        PROVE  n <= Sum(chain', S)
    <2>1. S \in SUBSET DOMAIN chain'
      BY <1>1
    <2>2. /\ Sum(chain, S) \in Nat /\ Sum(chain', S) \in Nat
          /\ Sum(chain, S) <= Sum(chain', S)
      BY <2>1, TransfersOnlyGrow DEF TypeInv
    <2>3. QED
      BY <1>3, <2>2
  <1>4. Least <= OnChain(Required) => Least <= OnChain(Required)'
    <2>1. /\ OnChain(Required) \in Nat /\ OnChain(Required)' \in Nat
          /\ OnChain(Required) <= OnChain(Required)'
      BY OnChainGrows, CheckoutAssumption DEF TypeInv
    <2>2. Least \in Nat
      BY BoundsAreOrdered DEF Least
    <2>3. QED
      BY <2>1, <2>2
  <1>5. DOMAIN ledger \in SUBSET DOMAIN chain
    BY DEF MoneyInv, Happened
  <1>6. \A h \in DOMAIN ledger' : Happened(chain', h, ledger'[h].amount, ledger'[h].confirmations)
    <2> SUFFICES ASSUME NEW h \in DOMAIN ledger
                 PROVE  Happened(chain', h, ledger[h].amount, ledger[h].confirmations)
      OBVIOUS
    <2>1. ledger[h].confirmations \in Nat
      BY CheckoutAssumption DEF TypeInv, LedgerTyped, Depths
    <2>2. Happened(chain, h, ledger[h].amount, ledger[h].confirmations)
      BY DEF MoneyInv
    <2>3. QED
      BY <1>2, <2>1, <2>2
  <1>7. ASSUME NEW c \in Reporters, pc'[c] = "open"
        PROVE  /\ Happened(chain', request'[c].hash, request'[c].amount, request'[c].confirmations)
               /\ verdict'[c].received <= Sum(chain', DOMAIN ledger \cup {request'[c].hash})
    <2>1. pc[c] = "open" /\ request'[c] = request[c] /\ verdict'[c] = verdict[c]
      BY <1>7
    <2>2. /\ Happened(chain, request[c].hash, request[c].amount, request[c].confirmations)
          /\ verdict[c].received <= Sum(chain, DOMAIN ledger \cup {request[c].hash})
      BY <2>1 DEF MoneyInv
    <2>3. request[c] \in Requests /\ verdict[c] \in Verdicts
      BY <2>1, OpenHasRequest DEF TypeInv, Reporters
    <2>4. request[c].confirmations \in Nat /\ verdict[c].received \in Nat
      BY <2>3, CheckoutAssumption DEF Requests, Verdicts, Depths
    <2>5. DOMAIN ledger \cup {request[c].hash} \in SUBSET DOMAIN chain
      BY <1>5, <2>2 DEF Happened
    <2>6. verdict[c].received <= Sum(chain', DOMAIN ledger \cup {request[c].hash})
      BY <1>3, <2>2, <2>4, <2>5
    <2>7. Happened(chain', request[c].hash, request[c].amount, request[c].confirmations)
      BY <1>2, <2>2, <2>4
    <2>8. QED
      BY <2>1, <2>6, <2>7
  <1>8. \A c \in Reporters : verdict'[c].paid => Least <= OnChain(Required)'
    BY <1>4 DEF MoneyInv
  <1>9. \A x \in polling' : x.hash \in DOMAIN chain' /\ x.amount = chain'[x.hash].amount
    <2> SUFFICES ASSUME NEW x \in polling'
                 PROVE  x.hash \in DOMAIN chain' /\ x.amount = chain'[x.hash].amount
      OBVIOUS
    <2>1. x.hash \in DOMAIN chain /\ x.amount = chain[x.hash].amount
      BY DEF MoneyInv, Happened
    <2>2. QED
      BY <1>1, <2>1
  <1>10. intent'.received <= Sum(chain', DOMAIN ledger')
    <2>1. intent.received \in Nat
      BY DEF TypeInv, IntentTyped
    <2>2. QED
      BY <1>3, <1>5, <2>1 DEF MoneyInv
  <1>11. session' = "paid" => Least <= OnChain(Required)'
    BY <1>4 DEF MoneyInv
  <1>12. QED
    BY <1>6, <1>7, <1>8, <1>9, <1>10, <1>11 DEF MoneyInv, Least

\* A transaction that opens for a transfer that happened.
LEMMA BeginKeepsMoney ==
  ASSUME TypeInv, MoneyInv, NEW c \in Reporters, NEW r \in Requests,
         Happened(chain, r.hash, r.amount, r.confirmations), BeginConfirm(c, r),
         UNCHANGED <<intent, session, ledger, chain>>, polling' \subseteq polling
  PROVE  MoneyInv'
  <1> DEFINE l == Upsert(ledger, r)
  <1>1. /\ request' = [request EXCEPT ![c] = r]
        /\ verdict' = [verdict EXCEPT ![c] = Assess(l)]
        /\ pc' = [pc EXCEPT ![c] = "open"]
    BY DEF BeginConfirm
  <1>2. /\ DOMAIN l = DOMAIN ledger \cup {r.hash} /\ IsFiniteSet(DOMAIN l)
        /\ \A h \in DOMAIN l : l[h] \in [amount : Nat, confirmations : Depths]
        /\ l[r.hash] = [amount |-> r.amount, confirmations |-> r.confirmations]
        /\ \A h \in DOMAIN ledger \ {r.hash} : l[h] = ledger[h]
    BY UpsertIsTyped DEF TypeInv
  <1> HIDE DEF l
  <1>3. \A h \in DOMAIN l : Happened(chain, h, l[h].amount, l[h].confirmations)
    BY <1>2 DEF MoneyInv
  <1>4. /\ Assess(l).received = Sum(chain, DOMAIN l)
        /\ Assess(l).paid => Least <= OnChain(Required)
    BY <1>2, <1>3, AssessIsCovered DEF TypeInv
  <1>5. /\ Sum(chain, DOMAIN l) \in Nat
    <2>1. DOMAIN l \in SUBSET DOMAIN chain
      BY <1>3 DEF Happened
    <2>2. QED
      BY <2>1, TransfersAreCounted DEF TypeInv
  <1>6. /\ request = [d \in Callers |-> request[d]] /\ verdict = [d \in Callers |-> verdict[d]]
        /\ pc \in [Callers -> LoopPoint]
    BY DEF TypeInv, CallsTyped
  <1>7. /\ request'[c] = r /\ verdict'[c] = Assess(l) /\ pc'[c] = "open"
        /\ \A d \in Callers \ {c} : /\ request'[d] = request[d] /\ verdict'[d] = verdict[d]
                                    /\ pc'[d] = pc[d]
    BY <1>1, <1>6 DEF Reporters
  <1>8. OnChain(Required)' = OnChain(Required)
    BY DEF OnChain
  <1>9. ASSUME NEW d \in Reporters, pc'[d] = "open"
        PROVE  /\ Happened(chain', request'[d].hash, request'[d].amount, request'[d].confirmations)
               /\ verdict'[d].received <= Sum(chain', DOMAIN ledger' \cup {request'[d].hash})
    <2>1. CASE d = c
      BY <1>2, <1>4, <1>5, <1>7, <2>1 DEF Happened
    <2>2. CASE d # c
      BY <1>7, <1>9, <2>2 DEF MoneyInv, Happened, Reporters
    <2>3. QED
      BY <2>1, <2>2
  <1>10. \A d \in Reporters : verdict'[d].paid => Least <= OnChain(Required)'
    BY <1>4, <1>7, <1>8 DEF MoneyInv, Reporters
  <1>12. \A h \in DOMAIN ledger' : Happened(chain', h, ledger'[h].amount, ledger'[h].confirmations)
    BY DEF MoneyInv, Happened
  <1>13. QED
    BY <1>8, <1>9, <1>10, <1>12 DEF MoneyInv, Least

\* A commit records its transfer, which covers what it writes.
LEMMA CommitKeepsMoney ==
  ASSUME TypeInv, MoneyInv, NEW c \in Reporters, CommitConfirm(c)
  PROVE  MoneyInv'
  <1> DEFINE r == request[c]
             v == verdict[c]
             next == IF v.paid /\ AddInvoice THEN "invoice" ELSE AfterCall(c)
  <1>1. /\ pc[c] = "open" /\ CloseCall(c, next) /\ WriteVerdict(v)
        /\ ledger' = Upsert(ledger, r) /\ UNCHANGED <<chain, polling>>
    BY DEF CommitConfirm, loops
  <1>2. next # "open"
    BY AfterCallIsTyped DEF Reporters
  <1>3. r \in Requests /\ v \in Verdicts
    BY <1>1, OpenHasRequest DEF TypeInv, Reporters
  <1>4. /\ Happened(chain, r.hash, r.amount, r.confirmations)
        /\ v.received <= Sum(chain, DOMAIN ledger \cup {r.hash})
        /\ v.paid => Least <= OnChain(Required)
    BY <1>1 DEF MoneyInv
  <1> HIDE DEF r, v, next
  <1>6. /\ DOMAIN ledger' = DOMAIN ledger \cup {r.hash} /\ IsFiniteSet(DOMAIN ledger')
        /\ ledger'[r.hash] = [amount |-> r.amount, confirmations |-> r.confirmations]
        /\ \A h \in DOMAIN ledger \ {r.hash} : ledger'[h] = ledger[h]
    BY <1>1, <1>3, UpsertIsTyped DEF TypeInv
  <1>7. \A h \in DOMAIN ledger' : Happened(chain', h, ledger'[h].amount, ledger'[h].confirmations)
    BY <1>1, <1>4, <1>6 DEF MoneyInv, Happened
  <1>8. intent'.received = v.received /\ (session' = "paid" => v.paid)
    BY <1>1 DEF WriteVerdict
  <1>9. intent'.received <= Sum(chain', DOMAIN ledger')
    BY <1>1, <1>4, <1>6, <1>8
  <1>10. OnChain(Required)' = OnChain(Required)
    BY <1>1 DEF OnChain
  <1>11. /\ request = [d \in Callers |-> request[d]] /\ verdict = [d \in Callers |-> verdict[d]]
         /\ pc \in [Callers -> LoopPoint]
    BY DEF TypeInv, CallsTyped
  <1>12. /\ pc'[c] # "open" /\ verdict'[c].paid = FALSE
         /\ \A d \in Callers \ {c} : /\ request'[d] = request[d] /\ verdict'[d] = verdict[d]
                                     /\ pc'[d] = pc[d]
    BY <1>1, <1>2, <1>11 DEF CloseCall, NoVerdict, Reporters
  <1>13. ASSUME NEW d \in Reporters, pc'[d] = "open"
         PROVE  /\ Happened(chain', request'[d].hash, request'[d].amount, request'[d].confirmations)
                /\ verdict'[d].received <= Sum(chain', DOMAIN ledger' \cup {request'[d].hash})
    <2>1. d # c /\ pc[d] = "open" /\ request'[d] = request[d] /\ verdict'[d] = verdict[d]
      BY <1>12, <1>13 DEF Reporters
    <2>2. /\ Happened(chain, request[d].hash, request[d].amount, request[d].confirmations)
          /\ verdict[d].received <= Sum(chain, DOMAIN ledger \cup {request[d].hash})
      BY <2>1 DEF MoneyInv
    <2>3. verdict[d].received \in Nat
      <3>1. verdict[d] \in Verdicts
        BY <2>1, OpenHasRequest DEF TypeInv, Reporters
      <3>2. QED
        BY <3>1 DEF Verdicts
    <2> DEFINE S == DOMAIN ledger \cup {request[d].hash}
               T == DOMAIN ledger' \cup {request[d].hash}
    <2>4. S \in SUBSET DOMAIN chain /\ T \in SUBSET DOMAIN chain' /\ S \subseteq T
      BY <1>1, <1>4, <1>6, <2>2 DEF MoneyInv, Happened
    <2> HIDE DEF S, T
    <2>5. /\ Sum(chain, S) \in Nat /\ Sum(chain', T) \in Nat
          /\ Sum(chain, S) <= Sum(chain', T)
      BY <1>1, <2>4, TransfersOnlyGrow DEF TypeInv
    <2>6. verdict[d].received <= Sum(chain, S)
      BY <2>2 DEF S
    <2>7. verdict[d].received <= Sum(chain', T)
      BY <2>3, <2>5, <2>6
    <2>8. Happened(chain', request[d].hash, request[d].amount, request[d].confirmations)
      BY <1>1, <2>2 DEF Happened
    <2>9. QED
      BY <2>1, <2>7, <2>8 DEF T
  <1>14. \A d \in Reporters : verdict'[d].paid => Least <= OnChain(Required)'
    BY <1>10, <1>12 DEF MoneyInv, Reporters
  <1>16. \A x \in polling' : x.hash \in DOMAIN chain' /\ x.amount = chain'[x.hash].amount
    BY <1>1 DEF MoneyInv
  <1>17. session' = "paid" => Least <= OnChain(Required)'
    BY <1>4, <1>8, <1>10
  <1>18. QED
    BY <1>7, <1>9, <1>13, <1>14, <1>16, <1>17 DEF MoneyInv, Least

\* The chain changes by transfers and blocks alone.
LEMMA ChainMoves ==
  ASSUME [Next]_vars
  PROVE  Transfer \/ Block \/ UNCHANGED chain
  BY DEF Next, ReceiptLoop, DepositLoop, FinishCall, SelectRecorded, ReadLatestBlock, PollReceipt,
         EndPolling, ExpireOldIntents, SelectDeposit, ReadBalance, ConfirmObservedBalance,
         ScanLogs, CommitConfirm, InsertInvoice, EnqueueInvoice, AbortConfirm, ReportTransfer,
         CancelSession, Settle, TimePasses, vars

\* Assess adds up the recorded amounts.
LEMMA AssessSums == ASSUME NEW l PROVE Assess(l).received = Sum(l, DOMAIN l)
  BY DEF Assess

\* What a transaction that opens changes.
LEMMA BeginIsLocal ==
  ASSUME CallsTyped, NEW c \in Callers, NEW r, BeginConfirm(c, r)
  PROVE  /\ request'[c] = r /\ pc'[c] = "open"
         /\ verdict'[c].received = Sum(Upsert(ledger, r), DOMAIN Upsert(ledger, r))
         /\ \A d \in Callers \ {c} : /\ request'[d] = request[d] /\ verdict'[d] = verdict[d]
                                     /\ pc'[d] = pc[d]
  <1>1. /\ request' = [request EXCEPT ![c] = r]
        /\ verdict' = [verdict EXCEPT ![c] = Assess(Upsert(ledger, r))]
        /\ pc' = [pc EXCEPT ![c] = "open"]
    BY DEF BeginConfirm
  <1>2. /\ request = [d \in Callers |-> request[d]] /\ verdict = [d \in Callers |-> verdict[d]]
        /\ pc \in [Callers -> LoopPoint]
    BY DEF CallsTyped
  <1>3. Assess(Upsert(ledger, r)).received = Sum(Upsert(ledger, r), DOMAIN Upsert(ledger, r))
    BY AssessSums
  <1>4. /\ request'[c] = r /\ pc'[c] = "open" /\ verdict'[c] = Assess(Upsert(ledger, r))
        /\ \A d \in Callers \ {c} : /\ request'[d] = request[d] /\ verdict'[d] = verdict[d]
                                    /\ pc'[d] = pc[d]
    BY <1>1, <1>2
  <1>5. QED
    BY <1>3, <1>4

\* The cached block stays one of the chain.
LEMMA StepKeepsLatest ==
  ASSUME TypeInv, LatestInv, [Next]_vars
  PROVE  LatestInv'
  <1>1. latest' = latest \/ latest' = chain \/ latest' = <<>>
    BY LatestMoves
  <1>2. Transfer \/ Block \/ UNCHANGED chain
    BY ChainMoves
  <1>3. /\ DOMAIN chain \subseteq DOMAIN chain'
        /\ \A h \in DOMAIN chain : chain[h].depth <= chain'[h].depth
        /\ chain' \in Seq([amount : Amounts, depth : Depths])
    BY <1>2, ChainGrows DEF TypeInv
  <1>4. /\ \A h \in DOMAIN latest : latest[h].depth \in Nat
        /\ \A h \in DOMAIN chain : chain[h].depth \in Nat
        /\ \A h \in DOMAIN chain' : chain'[h].depth \in Nat
    <2>1. Depths \subseteq Nat
      BY CheckoutAssumption DEF Depths
    <2>2. chain \in Seq([amount : Amounts, depth : Depths])
          /\ latest \in Seq([amount : Amounts, depth : Depths])
      BY DEF TypeInv, ChainTyped, LoopsTyped
    <2>3. /\ \A h \in DOMAIN latest : latest[h] \in [amount : Amounts, depth : Depths]
          /\ \A h \in DOMAIN chain : chain[h] \in [amount : Amounts, depth : Depths]
          /\ \A h \in DOMAIN chain' : chain'[h] \in [amount : Amounts, depth : Depths]
      BY <1>3, <2>2, SeqElement
    <2>4. QED
      BY <2>1, <2>3
  <1>5. CASE latest' = latest
    <2> SUFFICES ASSUME NEW h \in DOMAIN latest
                 PROVE  h \in DOMAIN chain' /\ latest[h].depth <= chain'[h].depth
      BY <1>5 DEF LatestInv
    <2>1. h \in DOMAIN chain /\ h \in DOMAIN chain' /\ latest[h].depth <= chain[h].depth
      BY <1>3 DEF LatestInv
    <2>2. QED
      BY <1>3, <1>4, <2>1
  <1>6. CASE latest' = chain
    BY <1>3, <1>6 DEF LatestInv
  <1>7. CASE latest' = <<>>
    BY <1>7 DEF LatestInv
  <1>8. QED
    BY <1>1, <1>5, <1>6, <1>7

\* The invariant under every step, when clients report what happened and the
\* deposit loop has committed nothing yet.
LEMMA StepKeepsMoney ==
  ASSUME TrueReports, TypeInv, TypeInv', LatestInv, MoneyInv, ~credited', [Next]_vars
  PROVE  MoneyInv'
  <1>1. /\ "receipts" # "deposits" /\ "deposits" \notin Clients
        /\ Reporters = Clients \cup {"receipts"}
    BY CheckoutAssumption DEF Reporters
  <1>2. pc \in [Callers -> LoopPoint]
    BY DEF TypeInv, CallsTyped
  <1>3. ASSUME NEW c \in Callers, FinishCall(c) \/ AbortConfirm(c) PROVE MoneyInv'
    <2>1. CASE CommitConfirm(c)
      BY <2>1, CommitKeepsMoney DEF CommitConfirm, Reporters
    <2>2. CASE InsertInvoice(c) \/ EnqueueInvoice(c) \/ AbortConfirm(c)
      <3>1. UNCHANGED <<intent, session, ledger, chain, polling>>
        BY <2>2 DEF InsertInvoice, EnqueueInvoice, AbortConfirm, rows, loops
      <3>2. PICK next \in LoopPoint \ {"open"} : pc' = [pc EXCEPT ![c] = next]
        BY <2>2, AfterCallIsTyped DEF InsertInvoice, EnqueueInvoice, AbortConfirm, CloseCall
      <3>3. \/ UNCHANGED <<request, verdict>>
            \/ /\ request' = [request EXCEPT ![c] = NoRequest]
               /\ verdict' = [verdict EXCEPT ![c] = NoVerdict]
        BY <2>2 DEF InsertInvoice, EnqueueInvoice, AbortConfirm, CloseCall
      <3>4. NoVerdict.paid = FALSE
        BY DEF NoVerdict
      <3>5. /\ request = [d \in Callers |-> request[d]]
            /\ verdict = [d \in Callers |-> verdict[d]]
        BY DEF TypeInv, CallsTyped
      <3>6. \A d \in Reporters :
              /\ pc'[d] = "open" => pc[d] = "open" /\ UNCHANGED <<request[d], verdict[d]>>
              /\ verdict'[d].paid => verdict[d].paid
        BY <1>2, <3>2, <3>3, <3>4, <3>5 DEF Reporters
      <3>7. /\ Transfer \/ Block \/ UNCHANGED chain
            /\ intent'.received = intent.received /\ (session' = "paid" => session = "paid")
            /\ \A x \in polling' : x \in polling
        BY <3>1
      <3>8. QED
        BY <3>1, <3>6, <3>7, StandKeepsMoney
    <2>3. QED
      BY <1>3, <2>1, <2>2 DEF FinishCall
  <1>4. CASE ReceiptLoop
    <2>5. CASE ReadLatestBlock
      <3>1. UNCHANGED <<intent, session, ledger, chain, request, verdict, pc, polling>>
        BY <2>5 DEF ReadLatestBlock, rows, calls
      <3>2. QED
        BY <3>1, StandKeepsMoney
    <2>1. CASE SelectRecorded \/ EndPolling
      <3>1. /\ UNCHANGED <<intent, session, ledger, chain, request, verdict>>
            /\ \E next \in {"idle", "polling"} : pc' = [pc EXCEPT !["receipts"] = next]
        BY <2>1 DEF SelectRecorded, EndPolling, rows
      <3>2. \A x \in polling' :
              x \in polling \/ (x.hash \in DOMAIN ledger /\ x.amount = ledger[x.hash].amount)
        <4>1. CASE SelectRecorded
          BY <4>1 DEF SelectRecorded
        <4>2. CASE EndPolling
          BY <4>2 DEF EndPolling
        <4>3. QED
          BY <2>1, <4>1, <4>2
      <3>3. \A c \in Reporters : pc'[c] = "open" => pc[c] = "open"
        BY <1>1, <1>2, <3>1
      <3>4. QED
        BY <3>1, <3>2, <3>3, StandKeepsMoney
    <2>2. ASSUME NEW x \in polling, PollReceipt(x) PROVE MoneyInv'
      <3> DEFINE r == [hash |-> x.hash, amount |-> x.amount,
                       confirmations |-> Confirmations(latest, x.hash)]
      <3>1. UNCHANGED <<intent, session, ledger, chain>> /\ polling' \subseteq polling
        BY <2>2 DEF PollReceipt, rows
      <3>2. CASE UNCHANGED calls
        BY <3>1, <3>2, StandKeepsMoney DEF calls
      <3>3. CASE Lies(latest, x.hash) /\ BeginConfirm("receipts", r)
        <4>1. x.hash \in DOMAIN chain /\ x.amount = chain[x.hash].amount
          BY DEF MoneyInv
        <4>2. x.hash \in Hashes /\ x.amount \in Nat
          BY DEF TypeInv, LoopsTyped
        <4>3. latest[x.hash].depth \in Depths
          <5>1. /\ latest \in Seq([amount : Amounts, depth : Depths])
                /\ x.hash \in DOMAIN latest
            BY <3>3 DEF Lies, TypeInv, LoopsTyped
          <5>2. latest[x.hash] \in [amount : Amounts, depth : Depths]
            BY <5>1, SeqElement
          <5>3. QED
            BY <5>2
        <4>4. latest[x.hash].depth <= chain[x.hash].depth
          BY <3>3 DEF Lies, LatestInv
        <4>5. r \in Requests
          BY <4>2, <4>3 DEF Requests, Confirmations
        <4>6. Happened(chain, r.hash, r.amount, r.confirmations)
          BY <4>1, <4>4 DEF Happened, Confirmations
        <4> HIDE DEF r
        <4>7. QED
          BY <1>1, <3>1, <3>3, <4>5, <4>6, BeginKeepsMoney
      <3>4. QED
        BY <2>2, <3>2, <3>3 DEF PollReceipt
    <2>3. CASE FinishCall("receipts")
      BY <1>3, <2>3
    <2>4. QED
      BY <1>4, <2>1, <2>2, <2>3, <2>5 DEF ReceiptLoop
  <1>5. CASE DepositLoop
    <2>1. CASE ExpireOldIntents
      <3>1. /\ pc' = [pc EXCEPT !["deposits"] = "observe"]
            /\ UNCHANGED <<ledger, chain, request, verdict, polling>>
        BY <2>1 DEF ExpireOldIntents, loops
      <3>2. intent'.received = intent.received /\ session' \in {session, "expired"}
        <4>1. \/ UNCHANGED <<intent, session>>
              \/ intent' = [intent EXCEPT !.status = "expired"] /\ session' = "expired"
          BY <2>1 DEF ExpireOldIntents
        <4>2. QED
          BY <4>1 DEF TypeInv, IntentTyped
      <3>3. \A c \in Reporters : pc'[c] = pc[c]
        BY <1>1, <1>2, <3>1
      <3>5. QED
        BY <3>1, <3>2, <3>3, StandKeepsMoney
    <2>2. CASE SelectDeposit \/ ReadBalance \/ ConfirmObservedBalance
      <3>1. /\ \E next : pc' = [pc EXCEPT !["deposits"] = next]
            /\ UNCHANGED <<ledger, chain, request, verdict, polling>>
        BY <2>2 DEF SelectDeposit, ReadBalance, ConfirmObservedBalance, rows, loops
      <3>2. UNCHANGED <<intent, session>>
        BY <2>2 DEF SelectDeposit, ReadBalance, ConfirmObservedBalance, rows
      <3>3. \A c \in Reporters : pc'[c] = pc[c]
        BY <1>1, <1>2, <3>1
      <3>4. QED
        BY <3>1, <3>2, <3>3, StandKeepsMoney
    <2>3. CASE ScanLogs
      <3>1. UNCHANGED <<intent, session, ledger, chain, polling>>
        BY <2>3 DEF ScanLogs, rows, loops
      <3>2. \A c \in Reporters : UNCHANGED <<pc[c], request[c], verdict[c]>>
        <4>1. CASE \E r : BeginConfirm("deposits", r)
          <5>1. PICK r : BeginConfirm("deposits", r)
            BY <4>1
          <5>2. QED
            BY <1>1, <5>1, BeginIsLocal DEF TypeInv
        <4>2. CASE pc' = [pc EXCEPT !["deposits"] = "idle"] /\ UNCHANGED <<request, verdict>>
          BY <1>1, <1>2, <4>2
        <4>3. QED
          BY <2>3, <4>1, <4>2 DEF ScanLogs
      <3>3. QED
        BY <3>1, <3>2, StandKeepsMoney
    <2>4. CASE FinishCall("deposits")
      BY <1>3, <2>4
    <2>5. QED
      BY <1>5, <2>1, <2>2, <2>3, <2>4 DEF DepositLoop
  <1>6. ASSUME NEW c \in Clients, ReportTransfer(c) PROVE MoneyInv'
    <2>1. PICK r \in Reports : BeginConfirm(c, r)
      BY <1>6 DEF ReportTransfer
    <2>2. UNCHANGED <<intent, session, ledger, chain, polling>>
      BY <1>6 DEF ReportTransfer, rows, loops
    <2>3. PICK h \in DOMAIN chain :
            r \in [hash : {h}, amount : {chain[h].amount}, confirmations : 0..chain[h].depth]
      BY DEF Reports
    <2>4. chain[h] \in [amount : Amounts, depth : Depths] /\ h \in Hashes
      BY ChainIsTable DEF TypeInv
    <2>5. Amounts \subseteq Nat /\ Required \in Nat /\ Depths = 0..Required
      BY CheckoutAssumption DEF Depths
    <2>6. /\ r.hash = h /\ r.amount = chain[h].amount /\ r.confirmations \in 0..chain[h].depth
          /\ r = [hash |-> r.hash, amount |-> r.amount, confirmations |-> r.confirmations]
      BY <2>3
    <2>7. r.confirmations \in Depths /\ r.confirmations <= chain[h].depth
      BY <2>4, <2>5, <2>6
    <2>8. r \in Requests
      BY <2>4, <2>5, <2>6, <2>7 DEF Requests
    <2>9. Happened(chain, r.hash, r.amount, r.confirmations)
      BY <2>6, <2>7 DEF Happened
    <2>10. QED
      BY <1>1, <2>1, <2>2, <2>8, <2>9, BeginKeepsMoney
  <1>7. CASE CancelSession \/ Settle
    <2>1. /\ UNCHANGED <<ledger, chain, pc, request, verdict, polling>>
          /\ session' \in {session, "canceled"}
          /\ intent' = intent \/ intent' = [intent EXCEPT !.status = "settled"]
      BY <1>7 DEF CancelSession, Settle, calls, loops
    <2>2. intent'.received = intent.received
      BY <2>1 DEF TypeInv, IntentTyped
    <2>3. QED
      BY <2>1, <2>2, StandKeepsMoney
  <1>8. CASE Transfer \/ Block \/ TimePasses \/ UNCHANGED vars
    <2>1. /\ UNCHANGED <<intent, session, ledger, pc, request, verdict, polling>>
          /\ Transfer \/ Block \/ UNCHANGED chain
      BY <1>8 DEF Transfer, Block, TimePasses, vars, rows, calls, loops
    <2>2. QED
      BY <2>1, StandKeepsMoney
  <1>9. QED
    BY <1>3, <1>4, <1>5, <1>6, <1>7, <1>8 DEF Next

\* What the deposit loop has counted, it has counted.
LEMMA CreditStays ==
  ASSUME TypeInv, credited, [Next]_vars
  PROVE  credited'
  BY DEF Next, ReceiptLoop, DepositLoop, FinishCall, SelectRecorded, ReadLatestBlock, PollReceipt,
         EndPolling, ExpireOldIntents, SelectDeposit, ReadBalance, ConfirmObservedBalance,
         ScanLogs, CommitConfirm, InsertInvoice, EnqueueInvoice, AbortConfirm, ReportTransfer,
         CancelSession, Settle, Transfer, Block, TimePasses, vars, rows

\* Where reports are true, the money is accounted for.
LEMMA MoneyIsInvariant ==
  ASSUME TrueReports
  PROVE  Spec => [](TypeInv /\ LatestInv /\ CountedInv)
  <1>1. Init => TypeInv /\ LatestInv /\ CountedInv
    BY InitTypeInv, InitMoneyInv DEF Init, LatestInv, CountedInv
  <1>2. TypeInv /\ LatestInv /\ CountedInv /\ [Next]_vars => (TypeInv /\ LatestInv /\ CountedInv)'
    BY StepIsTyped, StepKeepsLatest, StepKeepsMoney, CreditStays DEF CountedInv
  <1>3. QED
    BY <1>1, <1>2, PTL DEF Spec

\* What is recorded lies on chain.
LEMMA RecordedIsOnChain ==
  ASSUME TypeInv, MoneyInv
  PROVE  /\ Sum(chain, DOMAIN ledger) \in Nat /\ OnChain(0) \in Nat
         /\ Sum(chain, DOMAIN ledger) <= OnChain(0)
         /\ Sum(ledger, DOMAIN ledger) = Sum(chain, DOMAIN ledger)
  <1> DEFINE lying == {h \in DOMAIN chain : chain[h].depth >= 0}
  <1>1. DOMAIN ledger \in SUBSET DOMAIN chain
    BY DEF MoneyInv, Happened
  <1>2. DOMAIN ledger \subseteq lying /\ lying \in SUBSET DOMAIN chain
    <2>1. \A h \in DOMAIN chain : chain[h] \in [amount : Amounts, depth : Depths]
      BY ChainIsTable DEF TypeInv
    <2>2. Depths \subseteq Nat
      BY CheckoutAssumption DEF Depths
    <2>3. \A h \in DOMAIN chain : chain[h].depth \in Nat
      BY <2>1, <2>2
    <2>4. lying = DOMAIN chain
      BY <2>3
    <2>5. QED
      BY <1>1, <2>4
  <1>3. OnChain(0) = Sum(chain, lying)
    BY DEF OnChain
  <1> HIDE DEF lying
  <1>4. /\ IsFiniteSet(lying) /\ Counted(chain, lying) /\ Sum(chain, lying) \in Nat
        /\ Counted(chain, DOMAIN ledger) /\ Sum(chain, DOMAIN ledger) \in Nat
    BY <1>1, <1>2, TransfersAreCounted DEF TypeInv
  <1>5. \A h \in DOMAIN ledger : chain[h].amount <= chain[h].amount
    BY <1>4 DEF Counted
  <1>6. Sum(chain, DOMAIN ledger) <= Sum(chain, lying)
    BY <1>2, <1>4, <1>5, SumGrows
  <1>7. Sum(ledger, DOMAIN ledger) = Sum(chain, DOMAIN ledger)
    <2>1. IsFiniteSet(DOMAIN ledger) /\ Counted(ledger, DOMAIN ledger)
      BY DEF TypeInv, LedgerTyped, Counted
    <2>2. \A h \in DOMAIN ledger : ledger[h].amount = chain[h].amount
      BY DEF MoneyInv, Happened
    <2>3. QED
      BY <2>1, <2>2, SumIsSame
  <1>8. QED
    BY <1>3, <1>4, <1>6, <1>7

\* However many callers report the same or different transfers, at old or new
\* depths, and in whatever order their transactions commit, an intent counts no
\* more than was sent, until the deposit loop has counted what it found (which
\* may be in the rows already: chain_observer.go:457).
THEOREM NeverMoreThanSent ==
  ASSUME TrueReports
  PROVE  Spec => [](credited \/ ReceivedIsOnChain)
  <1>1. TypeInv /\ CountedInv => credited \/ ReceivedIsOnChain
    <2> SUFFICES ASSUME TypeInv, MoneyInv PROVE ReceivedIsOnChain
      BY DEF CountedInv
    <2>1. /\ Sum(chain, DOMAIN ledger) \in Nat /\ OnChain(0) \in Nat
          /\ Sum(chain, DOMAIN ledger) <= OnChain(0)
      BY RecordedIsOnChain
    <2>2. intent.received <= Sum(chain, DOMAIN ledger) /\ intent.received \in Nat
      BY DEF MoneyInv, TypeInv, IntentTyped
    <2>3. QED
      BY <2>1, <2>2 DEF ReceivedIsOnChain
  <1>2. QED
    BY <1>1, MoneyIsInvariant, PTL

\* What a page has read was covered by the rows, which are never taken back.
ViewMoney ==
  /\ view = [v \in Viewers |-> view[v]]
  /\ \A v \in Viewers : view[v].received \in Nat /\ view[v].received <= Sum(ledger, DOMAIN ledger)
PageInv == credited \/ ViewMoney

\* What the ledger adds up to never falls: rows stay, with their amounts.
LEMMA RecordedOnlyGrows ==
  ASSUME TypeInv, MoneyInv, MoneyInv', TypeInv', [Next]_vars
  PROVE  /\ Sum(ledger, DOMAIN ledger) \in Nat /\ Sum(ledger, DOMAIN ledger)' \in Nat
         /\ Sum(ledger, DOMAIN ledger) <= Sum(ledger, DOMAIN ledger)'
  <1>1. Transfer \/ Block \/ UNCHANGED chain
    BY ChainMoves
  <1>2. DOMAIN ledger \subseteq DOMAIN ledger'
    <2>1. CASE UNCHANGED ledger
      BY <2>1
    <2>2. ASSUME NEW r, ledger' = Upsert(ledger, r) PROVE DOMAIN ledger \subseteq DOMAIN ledger'
      BY <2>2 DEF Upsert
    <2>3. \/ UNCHANGED ledger
          \/ \E r : ledger' = Upsert(ledger, r)
      BY DEF Next, ReceiptLoop, DepositLoop, FinishCall, SelectRecorded, ReadLatestBlock,
             PollReceipt, EndPolling, ExpireOldIntents, SelectDeposit, ReadBalance,
             ConfirmObservedBalance, ScanLogs, CommitConfirm, InsertInvoice, EnqueueInvoice,
             AbortConfirm, ReportTransfer, CancelSession, Settle, Transfer, Block, TimePasses, vars, rows
    <2>4. QED
      BY <2>1, <2>2, <2>3
  <1>3. DOMAIN ledger \in SUBSET DOMAIN chain /\ DOMAIN ledger' \in SUBSET DOMAIN chain'
    BY DEF MoneyInv, Happened
  <1>4. /\ Sum(chain, DOMAIN ledger) \in Nat /\ Sum(chain', DOMAIN ledger') \in Nat
        /\ Sum(chain, DOMAIN ledger) <= Sum(chain', DOMAIN ledger')
    BY <1>1, <1>2, <1>3, TransfersOnlyGrow DEF TypeInv
  <1>5. Sum(ledger, DOMAIN ledger) = Sum(chain, DOMAIN ledger)
    BY RecordedIsOnChain
  <1>6. Sum(ledger', DOMAIN ledger') = Sum(chain', DOMAIN ledger')
    <2>1. IsFiniteSet(DOMAIN ledger') /\ Counted(ledger', DOMAIN ledger')
      BY DEF TypeInv, LedgerTyped, Counted
    <2>2. \A h \in DOMAIN ledger' : ledger'[h].amount = chain'[h].amount
      BY DEF MoneyInv, Happened
    <2>3. QED
      BY <2>1, <2>2, SumIsSame
  <1>7. QED
    BY <1>4, <1>5, <1>6

\* Whoever commits between the two statements of the public page, it shows
\* transactions for all that it says was received, and paid only with an intent
\* that is paid, until the deposit loop counts a balance (which has no rows).
THEOREM PageAddsUp ==
  ASSUME TrueReports
  PROVE  ViewSpec => [](credited \/ ViewIsTrue)
  <1>1. ViewInit /\ TypeInv => ViewMoney
    <2> SUFFICES ASSUME ViewInit, TypeInv PROVE ViewMoney
      OBVIOUS
    <2>1. Sum(ledger, DOMAIN ledger) = 0
      <3>1. DOMAIN ledger = {}
        BY DEF ViewInit, Init
      <3>2. QED
        BY <3>1, FS_EmptySet, SumSplits
    <2>2. NoView.received = 0 /\ view = [v \in Viewers |-> NoView]
      BY DEF ViewInit, NoView
    <2>3. QED
      BY <2>1, <2>2 DEF ViewMoney
  <1>2. TypeInv /\ MoneyInv /\ ViewMoney /\ (TypeInv /\ MoneyInv)' /\ [ViewNext]_viewVars
          => ViewMoney'
    <2> SUFFICES ASSUME TypeInv, MoneyInv, ViewMoney, TypeInv', MoneyInv', [ViewNext]_viewVars
                 PROVE  ViewMoney'
      OBVIOUS
    <2>1. CASE [Next]_vars /\ UNCHANGED view
      <3>1. /\ Sum(ledger, DOMAIN ledger) \in Nat /\ Sum(ledger, DOMAIN ledger)' \in Nat
            /\ Sum(ledger, DOMAIN ledger) <= Sum(ledger, DOMAIN ledger)'
        BY <2>1, RecordedOnlyGrows
      <3>2. \A v \in Viewers : /\ view'[v].received \in Nat
                               /\ view'[v].received <= Sum(ledger, DOMAIN ledger)'
        BY <2>1, <3>1 DEF ViewMoney
      <3>3. QED
        BY <2>1, <3>2 DEF ViewMoney
    <2>2. ASSUME NEW v \in Viewers, ReadSession(v) PROVE ViewMoney'
      <3>1. view' = [view EXCEPT ![v] = GetCheckoutSession] /\ UNCHANGED ledger
        BY <2>2 DEF ReadSession, vars, rows
      <3>2. GetCheckoutSession.received = intent.received /\ intent.received \in Nat
        BY DEF GetCheckoutSession, TypeInv, IntentTyped
      <3>3. intent.received <= Sum(ledger, DOMAIN ledger)
        BY RecordedIsOnChain DEF MoneyInv
      <3>4. QED
        BY <3>1, <3>2, <3>3 DEF ViewMoney
    <2>3. ASSUME NEW v \in Viewers, HandleGetPublicCheckoutSession(v) PROVE ViewMoney'
      <3>1. view' = [view EXCEPT ![v] = NoView] /\ UNCHANGED ledger
        BY <2>3 DEF HandleGetPublicCheckoutSession, vars, rows
      <3>2. NoView.received = 0 /\ Sum(ledger, DOMAIN ledger) \in Nat
        BY RecordedIsOnChain DEF NoView
      <3>3. QED
        BY <3>1, <3>2 DEF ViewMoney
    <2>4. QED
      BY <2>1, <2>2, <2>3 DEF ViewNext, viewVars
  <1>3. TypeInv /\ LatestInv /\ CountedInv /\ PageInv
          /\ (TypeInv /\ LatestInv /\ CountedInv)' /\ [ViewNext]_viewVars
          => PageInv'
    <2>1. [ViewNext]_viewVars => [Next]_vars
      BY DEF ViewNext, viewVars, ReadSession, HandleGetPublicCheckoutSession
    <2>2. ASSUME TypeInv, [ViewNext]_viewVars, credited PROVE credited'
      BY <2>1, <2>2, CreditStays
    <2> SUFFICES ASSUME TypeInv, CountedInv, PageInv, TypeInv', CountedInv', [ViewNext]_viewVars
                 PROVE  PageInv'
      OBVIOUS
    <2>3. CASE credited'
      BY <2>3 DEF PageInv
    <2>4. CASE ~credited'
      <3>1. MoneyInv /\ ViewMoney /\ MoneyInv'
        BY <2>2, <2>4 DEF CountedInv, PageInv
      <3>2. ViewMoney'
        BY <1>2, <3>1
      <3>3. QED
        BY <3>2 DEF PageInv
    <2>5. QED
      BY <2>3, <2>4
  <1>4. PageInv => credited \/ ViewIsCovered
    BY DEF PageInv, ViewMoney, ViewIsCovered, PublicView, CheckoutTransactions
  <1>5. ViewSpec => [](TypeInv /\ LatestInv /\ CountedInv)
    BY ViewsAreCheckouts, MoneyIsInvariant, PTL
  <1>6. ViewInit /\ TypeInv => PageInv
    BY <1>1 DEF PageInv
  <1>7. QED
    BY <1>3, <1>4, <1>5, <1>6, PaidIsShownPaid, PTL DEF ViewSpec, ViewIsTrue

-----------------------------------------------------------------------------
(* Money that is only observed *)

\* Without clients the two loops record one transaction at most, and only while
\* nothing was received; the receipt loop repeats its amount.  All that is
\* counted is mined, and a session is paid by nothing else.
ObservedInv ==
  /\ intent.received <= OnChain(1) /\ balance <= OnChain(1)
  /\ Sum(ledger, DOMAIN ledger) <= OnChain(1)
  /\ session = "paid" => Least <= OnChain(1)
  /\ \A c \in Callers : verdict[c].paid => Least <= OnChain(1)
  /\ DOMAIN ledger # {} =>
       /\ 0 < intent.received /\ 0 < Sum(ledger, DOMAIN ledger)
       /\ pc["deposits"] \notin {"balance", "observed", "logs", "open"}
  /\ \A x \in polling : x.hash \in DOMAIN ledger /\ x.amount = ledger[x.hash].amount
  /\ pc["receipts"] = "open" =>
       /\ request["receipts"].hash \in DOMAIN ledger
       /\ request["receipts"].amount = ledger[request["receipts"].hash].amount
       /\ verdict["receipts"].received = Sum(ledger, DOMAIN ledger)
  /\ pc["deposits"] = "open" =>
       /\ 0 < request["deposits"].amount /\ request["deposits"].amount <= OnChain(1)
       /\ verdict["deposits"].received = request["deposits"].amount

\* At first nothing was observed.
LEMMA InitObservedInv == Init => ObservedInv
  <1> SUFFICES ASSUME Init PROVE ObservedInv
    OBVIOUS
  <1>1. TypeInv
    BY InitTypeInv
  <1>2. DOMAIN ledger = {} /\ polling = {} /\ intent.received = 0 /\ balance = 0
        /\ pc = [c \in Callers |-> "idle"] /\ session # "paid"
        /\ \A c \in Callers : ~verdict[c].paid
    BY DEF Init, NoVerdict
  <1>3. Sum(ledger, DOMAIN ledger) = 0
    BY <1>2, FS_EmptySet, SumSplits
  <1>4. OnChain(1) \in Nat
    BY <1>1, OnChainIsNat DEF TypeInv
  <1>5. pc["receipts"] = "idle" /\ pc["deposits"] = "idle"
    BY <1>2
  <1>6. QED
    BY <1>2, <1>3, <1>4, <1>5 DEF ObservedInv

\* A step that records nothing and opens no transaction, whatever the chain does.
LEMMA StandKeepsObserved ==
  ASSUME TypeInv, TypeInv', ObservedInv, Transfer \/ Block \/ UNCHANGED chain, UNCHANGED ledger,
         \A c \in {"receipts", "deposits"} :
           pc'[c] = "open" => pc[c] = "open" /\ UNCHANGED <<request[c], verdict[c]>>,
         \A x \in polling' :
           x \in polling \/ (x.hash \in DOMAIN ledger /\ x.amount = ledger[x.hash].amount),
         balance' <= OnChain(1)', intent'.received <= OnChain(1)',
         session' = "paid" => session = "paid" \/ Least <= OnChain(1)',
         \A c \in Callers : verdict'[c].paid => verdict[c].paid,
         DOMAIN ledger # {} =>
           /\ intent'.received = intent.received
           /\ pc'["deposits"] \notin {"balance", "observed", "logs", "open"}
  PROVE  ObservedInv'
  <1>1. OnChain(1) \in Nat /\ OnChain(1)' \in Nat /\ OnChain(1) <= OnChain(1)'
    BY OnChainGrows DEF TypeInv
  <1>2. Sum(ledger, DOMAIN ledger) \in Nat
    BY SumIsNat DEF Counted, TypeInv, LedgerTyped
  <1>3. Sum(ledger', DOMAIN ledger') = Sum(ledger, DOMAIN ledger)
    OBVIOUS
  <1>4. Sum(ledger, DOMAIN ledger) <= OnChain(1)'
    BY <1>1, <1>2 DEF ObservedInv
  <1>5. ASSUME pc'["receipts"] = "open"
        PROVE  /\ request'["receipts"].hash \in DOMAIN ledger'
               /\ request'["receipts"].amount = ledger'[request'["receipts"].hash].amount
               /\ verdict'["receipts"].received = Sum(ledger', DOMAIN ledger')
    BY <1>3, <1>5 DEF ObservedInv
  <1>6. ASSUME pc'["deposits"] = "open"
        PROVE  /\ 0 < request'["deposits"].amount /\ request'["deposits"].amount <= OnChain(1)'
               /\ verdict'["deposits"].received = request'["deposits"].amount
    <2>1. /\ pc["deposits"] = "open" /\ request'["deposits"] = request["deposits"]
          /\ verdict'["deposits"] = verdict["deposits"]
      BY <1>6
    <2>2. request["deposits"].amount \in Nat
      BY <2>1, OpenHasRequest DEF TypeInv, Requests
    <2>3. 0 < request["deposits"].amount /\ request["deposits"].amount <= OnChain(1)
          /\ verdict["deposits"].received = request["deposits"].amount
      BY <2>1 DEF ObservedInv
    <2>4. request["deposits"].amount <= OnChain(1)'
      BY <1>1, <2>2, <2>3
    <2>5. QED
      BY <2>1, <2>3, <2>4
  <1>7. \A x \in polling' : x.hash \in DOMAIN ledger' /\ x.amount = ledger'[x.hash].amount
    BY DEF ObservedInv
  <1>8. DOMAIN ledger' # {} =>
          /\ 0 < intent'.received /\ 0 < Sum(ledger', DOMAIN ledger')
          /\ pc'["deposits"] \notin {"balance", "observed", "logs", "open"}
    BY <1>3 DEF ObservedInv
  <1>9. Sum(ledger', DOMAIN ledger') <= OnChain(1)'
    BY <1>3, <1>4
  <1>10. Least <= OnChain(1) => Least <= OnChain(1)'
    BY <1>1, BoundsAreOrdered DEF Least
  <1>11. session' = "paid" => Least <= OnChain(1)'
    BY <1>10 DEF ObservedInv
  <1>12. \A c \in Callers : verdict'[c].paid => Least <= OnChain(1)'
    BY <1>10 DEF ObservedInv
  <1>13. QED
    BY <1>5, <1>6, <1>7, <1>8, <1>9, <1>11, <1>12 DEF ObservedInv, Least

\* An aggregate is only paid by what its rows add up to.
LEMMA PaidIsCounted ==
  ASSUME NEW l, IsFiniteSet(DOMAIN l), Counted(l, DOMAIN l), Assess(l).paid
  PROVE  Least <= Sum(l, DOMAIN l)
  <1> DEFINE deep == {h \in DOMAIN l : l[h].confirmations >= Required}
             sure == ResolveIntentStatus(Expected, Sum(l, deep), Tolerance, Required, Required)
  <1>1. IntentStatusIsPaid(sure)
    BY DEF Assess
  <1>2. deep \in SUBSET DOMAIN l /\ IsFiniteSet(deep) /\ Counted(l, deep)
    BY FS_Subset DEF Counted
  <1>3. \A h \in deep : l[h].amount <= l[h].amount
    BY <1>2 DEF Counted
  <1> HIDE DEF deep
  <1>4. /\ Sum(l, deep) \in Nat /\ Sum(l, DOMAIN l) \in Nat
        /\ Sum(l, deep) <= Sum(l, DOMAIN l)
    BY <1>2, <1>3, SumIsNat, SumGrows
  <1>5. Least <= Sum(l, deep)
    BY <1>1, <1>4, PaidReachesLeast
  <1>6. Least \in Nat
    BY BoundsAreOrdered DEF Least
  <1>7. QED
    BY <1>4, <1>5, <1>6

\* An upsert of a row that is there with its amount leaves the sum.
LEMMA RepeatKeepsSum ==
  ASSUME LedgerTyped, NEW r \in Requests, r.hash \in DOMAIN ledger,
         r.amount = ledger[r.hash].amount
  PROVE  /\ DOMAIN Upsert(ledger, r) = DOMAIN ledger
         /\ \A h \in DOMAIN ledger : Upsert(ledger, r)[h].amount = ledger[h].amount
         /\ Sum(Upsert(ledger, r), DOMAIN ledger) = Sum(ledger, DOMAIN ledger)
  <1> DEFINE l == Upsert(ledger, r)
  <1>1. /\ DOMAIN l = DOMAIN ledger \cup {r.hash} /\ IsFiniteSet(DOMAIN l)
        /\ \A h \in DOMAIN l : l[h] \in [amount : Nat, confirmations : Depths]
        /\ l[r.hash] = [amount |-> r.amount, confirmations |-> r.confirmations]
        /\ \A h \in DOMAIN ledger \ {r.hash} : l[h] = ledger[h]
    BY UpsertIsTyped
  <1> HIDE DEF l
  <1>2. DOMAIN l = DOMAIN ledger /\ \A h \in DOMAIN l : l[h].amount = ledger[h].amount
    BY <1>1
  <1>3. Counted(l, DOMAIN l)
    BY <1>1 DEF Counted
  <1>4. Sum(l, DOMAIN l) = Sum(ledger, DOMAIN l)
    BY <1>1, <1>2, <1>3, SumIsSame
  <1>5. QED
    BY <1>2, <1>4 DEF l

\* The first row of a ledger is its sum.
LEMMA FirstIsSum ==
  ASSUME LedgerTyped, NEW r \in Requests, DOMAIN ledger = {}
  PROVE  /\ DOMAIN Upsert(ledger, r) = {r.hash}
         /\ Sum(Upsert(ledger, r), DOMAIN Upsert(ledger, r)) = r.amount
  <1> DEFINE l == Upsert(ledger, r)
  <1>1. /\ DOMAIN l = {r.hash} /\ IsFiniteSet(DOMAIN l)
        /\ \A h \in DOMAIN l : l[h] \in [amount : Nat, confirmations : Depths]
        /\ l[r.hash] = [amount |-> r.amount, confirmations |-> r.confirmations]
    BY UpsertIsTyped
  <1> HIDE DEF l
  <1>2. Counted(l, DOMAIN l) /\ r.hash \in DOMAIN l
    BY <1>1 DEF Counted
  <1>3. Sum(l, DOMAIN l) = l[r.hash].amount + Sum(l, DOMAIN l \ {r.hash})
    BY <1>1, <1>2, SumAdds
  <1>4. DOMAIN l \ {r.hash} = {}
    BY <1>1
  <1>5. Sum(l, DOMAIN l \ {r.hash}) = 0
    BY <1>4, FS_EmptySet, SumSplits
  <1>6. l[r.hash].amount = r.amount /\ r.amount \in Nat
    BY <1>1 DEF Requests
  <1>7. QED
    BY <1>1, <1>3, <1>5, <1>6 DEF l

\* Every transfer that is mined counts for something, and so do all of them.
LEMMA MinedIsPositive ==
  ASSUME ChainTyped, NEW g \in DOMAIN chain, Mined(g)
  PROVE  /\ OnChain(1) \in Nat /\ OnChain(0) \in Nat
         /\ 0 < OnChain(1) /\ OnChain(1) <= OnChain(0)
  <1> DEFINE S == {h \in DOMAIN chain : chain[h].depth >= 1}
             T == {h \in DOMAIN chain : chain[h].depth >= 0}
  <1>1. \A h \in DOMAIN chain : chain[h].depth \in Nat /\ chain[h].amount \in Nat \ {0}
    <2>1. \A h \in DOMAIN chain : chain[h] \in [amount : Amounts, depth : Depths]
      BY ChainIsTable
    <2>2. Depths \subseteq Nat /\ Amounts \subseteq Nat \ {0}
      BY CheckoutAssumption DEF Depths
    <2>3. QED
      BY <2>1, <2>2
  <1>2. S \subseteq T /\ S \in SUBSET DOMAIN chain /\ T \in SUBSET DOMAIN chain
    BY <1>1
  <1>3. g \in S
    BY <1>1 DEF Mined, Lies
  <1>4. OnChain(1) = Sum(chain, S) /\ OnChain(0) = Sum(chain, T)
    BY DEF OnChain
  <1> HIDE DEF S, T
  <1>5. /\ IsFiniteSet(S) /\ Counted(chain, S) /\ Sum(chain, S) \in Nat
        /\ IsFiniteSet(T) /\ Counted(chain, T) /\ Sum(chain, T) \in Nat
    BY <1>2, TransfersAreCounted
  <1>6. Sum(chain, S) = chain[g].amount + Sum(chain, S \ {g})
    BY <1>3, <1>5, SumAdds
  <1>7. Sum(chain, S \ {g}) \in Nat
    <2>1. S \ {g} \in SUBSET DOMAIN chain
      BY <1>2
    <2>2. QED
      BY <2>1, TransfersAreCounted
  <1>8. 0 < Sum(chain, S)
    <2>1. chain[g].amount \in Nat \ {0}
      BY <1>1
    <2>2. \A a \in Nat \ {0} : \A b \in Nat : 0 < a + b
      OBVIOUS
    <2>3. QED
      BY <1>6, <1>7, <2>1, <2>2
  <1>9. Sum(chain, S) <= Sum(chain, T)
    <2>1. \A h \in S : chain[h].amount <= chain[h].amount
      BY <1>5 DEF Counted
    <2>2. QED
      BY <1>2, <1>5, <2>1, SumGrows
  <1>10. QED
    BY <1>4, <1>5, <1>8, <1>9

\* The balance is among what was sent.
LEMMA BalanceIsOnChain ==
  ASSUME ChainTyped
  PROVE  OnChain(1) \in Nat /\ OnChain(0) \in Nat /\ OnChain(1) <= OnChain(0)
  <1>1. OnChain(1) \in Nat /\ OnChain(0) \in Nat
    BY OnChainIsNat
  <1>2. CASE \E g \in DOMAIN chain : Mined(g)
    BY <1>2, MinedIsPositive
  <1>3. CASE \A g \in DOMAIN chain : ~Mined(g)
    <2> DEFINE S == {h \in DOMAIN chain : chain[h].depth >= 1}
    <2>1. \A h \in DOMAIN chain : chain[h].depth \in Nat
      <3>1. \A h \in DOMAIN chain : chain[h] \in [amount : Amounts, depth : Depths]
        BY ChainIsTable
      <3>2. Depths \subseteq Nat
        BY CheckoutAssumption DEF Depths
      <3>3. QED
        BY <3>1, <3>2
    <2>2. S = {}
      BY <1>3, <2>1 DEF Mined, Lies
    <2>3. OnChain(1) = Sum(chain, S)
      BY DEF OnChain
    <2>4. Sum(chain, S) = 0
      BY <2>2, FS_EmptySet, SumSplits
    <2>5. QED
      BY <1>1, <2>3, <2>4
  <1>4. QED
    BY <1>1, <1>2, <1>3

\* A transaction that opens over rows that add up to no more than is mined is
\* only paid by what is mined.
LEMMA UpsertPaysLittle ==
  ASSUME CallsTyped, LedgerTyped, ChainTyped, NEW c \in Callers, NEW r \in Requests,
         BeginConfirm(c, r), Sum(Upsert(ledger, r), DOMAIN Upsert(ledger, r)) <= OnChain(1)
  PROVE  verdict'[c].paid => Least <= OnChain(1)
  <1> DEFINE l == Upsert(ledger, r)
  <1>1. /\ IsFiniteSet(DOMAIN l)
        /\ \A h \in DOMAIN l : l[h] \in [amount : Nat, confirmations : Depths]
    BY UpsertIsTyped
  <1>2. verdict' = [verdict EXCEPT ![c] = Assess(l)] /\ verdict = [d \in Callers |-> verdict[d]]
    BY DEF BeginConfirm, CallsTyped
  <1> HIDE DEF l
  <1>3. verdict'[c] = Assess(l)
    BY <1>2
  <1>4. Counted(l, DOMAIN l)
    BY <1>1 DEF Counted
  <1>5. Sum(l, DOMAIN l) \in Nat /\ OnChain(1) \in Nat /\ Least \in Nat
    BY <1>1, <1>4, SumIsNat, OnChainIsNat, BoundsAreOrdered DEF Least
  <1>6. Assess(l).paid => Least <= Sum(l, DOMAIN l)
    BY <1>1, <1>4, PaidIsCounted
  <1>7. Sum(l, DOMAIN l) <= OnChain(1)
    BY DEF l
  <1>8. QED
    BY <1>3, <1>5, <1>6, <1>7

\* The receipt loop opens a transaction for a row it has selected.
LEMMA PollKeepsObserved ==
  ASSUME TypeInv, ObservedInv, NEW r \in Requests, BeginConfirm("receipts", r),
         r.hash \in DOMAIN ledger, r.amount = ledger[r.hash].amount,
         UNCHANGED <<intent, session, ledger, chain, balance>>, polling' \subseteq polling
  PROVE  ObservedInv'
  <1> DEFINE l == Upsert(ledger, r)
  <1>1. /\ request'["receipts"] = r /\ verdict'["receipts"].received = Sum(l, DOMAIN l)
        /\ request'["deposits"] = request["deposits"] /\ pc'["deposits"] = pc["deposits"]
        /\ verdict'["deposits"] = verdict["deposits"]
        /\ \A d \in Callers \ {"receipts"} : verdict'[d] = verdict[d]
    BY BeginIsLocal DEF TypeInv
  <1>2. Sum(l, DOMAIN l) = Sum(ledger, DOMAIN ledger)
    BY RepeatKeepsSum DEF TypeInv
  <1>3. OnChain(1)' = OnChain(1)
    BY DEF OnChain
  <1>4. verdict'["receipts"].paid => Least <= OnChain(1)
    BY <1>2, UpsertPaysLittle DEF TypeInv, ObservedInv
  <1>5. \A d \in Callers : verdict'[d].paid => Least <= OnChain(1)
    BY <1>1, <1>4 DEF ObservedInv
  <1> HIDE DEF l
  <1>6. QED
    BY <1>1, <1>2, <1>3, <1>5 DEF ObservedInv, Least

\* The deposit loop opens one for all that is mined, with an empty ledger.
LEMMA ScanKeepsObserved ==
  ASSUME TypeInv, ObservedInv, NEW r \in Requests, BeginConfirm("deposits", r),
         pc["deposits"] = "logs", 0 < r.amount, r.amount <= OnChain(1),
         UNCHANGED <<intent, session, ledger, chain, balance, polling>>
  PROVE  ObservedInv'
  <1> DEFINE l == Upsert(ledger, r)
  <1>1. DOMAIN ledger = {}
    BY DEF ObservedInv
  <1>2. /\ request'["deposits"] = r /\ verdict'["deposits"].received = Sum(l, DOMAIN l)
        /\ request'["receipts"] = request["receipts"] /\ pc'["receipts"] = pc["receipts"]
        /\ verdict'["receipts"] = verdict["receipts"]
        /\ \A d \in Callers \ {"deposits"} : verdict'[d] = verdict[d]
    BY BeginIsLocal DEF TypeInv
  <1>3. Sum(l, DOMAIN l) = r.amount
    BY <1>1, FirstIsSum DEF TypeInv
  <1>4. OnChain(1)' = OnChain(1)
    BY DEF OnChain
  <1>5. verdict'["deposits"].paid => Least <= OnChain(1)
    BY <1>3, UpsertPaysLittle DEF TypeInv
  <1>6. \A d \in Callers : verdict'[d].paid => Least <= OnChain(1)
    BY <1>2, <1>5 DEF ObservedInv
  <1> HIDE DEF l
  <1>7. QED
    BY <1>1, <1>2, <1>3, <1>4, <1>6 DEF ObservedInv, Least

\* What a call that ends changes.
LEMMA CloseIsLocal ==
  ASSUME CallsTyped, NEW c \in Callers, NEW next, CloseCall(c, next)
  PROVE  /\ pc'[c] = next
         /\ \A d \in Callers \ {c} : /\ request'[d] = request[d] /\ verdict'[d] = verdict[d]
                                     /\ pc'[d] = pc[d]
  BY DEF CallsTyped, CloseCall

\* A commit of the receipt loop repeats its row, one of the deposit loop is the
\* first row.
LEMMA CommitKeepsObserved ==
  ASSUME TypeInv, ObservedInv, NEW c \in {"receipts", "deposits"}, CommitConfirm(c)
  PROVE  ObservedInv'
  <1> DEFINE r == request[c]
             v == verdict[c]
             next == IF v.paid /\ AddInvoice THEN "invoice" ELSE AfterCall(c)
  <1>1. /\ pc[c] = "open" /\ CloseCall(c, next) /\ WriteVerdict(v)
        /\ ledger' = Upsert(ledger, r) /\ UNCHANGED <<chain, polling, balance>>
    BY DEF CommitConfirm, loops
  <1>2. next \in {"invoice", "idle", "polling"}
    BY AfterCallIsTyped
  <1>3. r \in Requests /\ intent'.received = v.received /\ (session' = "paid" => v.paid)
    BY <1>1, OpenHasRequest DEF TypeInv, WriteVerdict
  <1> HIDE DEF next
  <1>4. /\ pc'[c] = next
        /\ \A d \in Callers \ {c} : /\ request'[d] = request[d] /\ verdict'[d] = verdict[d]
                                    /\ pc'[d] = pc[d]
    BY <1>1, CloseIsLocal DEF TypeInv
  <1>5. OnChain(1)' = OnChain(1)
    BY <1>1 DEF OnChain
  <1>6. /\ session' = "paid" => Least <= OnChain(1)
        /\ \A d \in Callers : verdict'[d].paid => Least <= OnChain(1)
    <2>1. verdict' = [verdict EXCEPT ![c] = NoVerdict] /\ verdict = [d \in Callers |-> verdict[d]]
      BY <1>1 DEF CloseCall, TypeInv, CallsTyped
    <2>2. verdict'[c].paid = FALSE /\ \A d \in Callers \ {c} : verdict'[d] = verdict[d]
      BY <2>1 DEF NoVerdict
    <2>3. \A d \in Callers : verdict[d].paid => Least <= OnChain(1)
      BY DEF ObservedInv
    <2>4. QED
      BY <1>3, <2>2, <2>3
  <1>7. CASE c = "receipts"
    <2>1. /\ r.hash \in DOMAIN ledger /\ r.amount = ledger[r.hash].amount
          /\ v.received = Sum(ledger, DOMAIN ledger)
      BY <1>1, <1>7 DEF ObservedInv
    <2>2. /\ DOMAIN ledger' = DOMAIN ledger
          /\ \A h \in DOMAIN ledger : ledger'[h].amount = ledger[h].amount
          /\ Sum(ledger', DOMAIN ledger) = Sum(ledger, DOMAIN ledger)
      BY <1>1, <1>3, <2>1, RepeatKeepsSum DEF TypeInv
    <2>3. pc'["receipts"] # "open" /\ pc'["deposits"] = pc["deposits"]
      BY <1>2, <1>4, <1>7
    <2>4. DOMAIN ledger # {} /\ pc["deposits"] \notin {"balance", "observed", "logs", "open"}
          /\ 0 < Sum(ledger, DOMAIN ledger) /\ Sum(ledger, DOMAIN ledger) <= OnChain(1)
      BY <2>1 DEF ObservedInv
    <2>5. \A x \in polling' : x.hash \in DOMAIN ledger' /\ x.amount = ledger'[x.hash].amount
      BY <1>1, <2>2 DEF ObservedInv
    <2> HIDE DEF r, v
    <2>6. QED
      BY <1>1, <1>3, <1>5, <1>6, <2>1, <2>2, <2>3, <2>4, <2>5 DEF ObservedInv, Least
  <1>8. CASE c = "deposits"
    <2>1. /\ 0 < r.amount /\ r.amount <= OnChain(1) /\ v.received = r.amount
          /\ DOMAIN ledger = {}
      BY <1>1, <1>8 DEF ObservedInv
    <2>2. DOMAIN ledger' = {r.hash} /\ Sum(ledger', DOMAIN ledger') = r.amount
      BY <1>1, <1>3, <2>1, FirstIsSum DEF TypeInv
    <2>3. pc["receipts"] # "open" /\ pc'["receipts"] # "open"
      BY <1>4, <1>8, <2>1 DEF ObservedInv
    <2>4. pc'["deposits"] \notin {"balance", "observed", "logs", "open"}
      BY <1>2, <1>4, <1>8
    <2>5. polling' = {}
      BY <1>1, <2>1 DEF ObservedInv
    <2> HIDE DEF r, v
    <2>6. QED
      BY <1>1, <1>3, <1>5, <1>6, <2>1, <2>2, <2>3, <2>4, <2>5 DEF ObservedInv, Least
  <1>9. QED
    BY <1>7, <1>8

\* The invariant under every step when nobody but the two loops confirms.
LEMMA StepKeepsObserved ==
  ASSUME Clients = {}, TypeInv, TypeInv', ObservedInv, [Next]_vars
  PROVE  ObservedInv'
  <1>1. Callers = {"receipts", "deposits"}
    OBVIOUS
  <1>2. pc \in [Callers -> LoopPoint]
    BY DEF TypeInv, CallsTyped
  <1>3. /\ OnChain(1) \in Nat /\ intent.received \in Nat /\ balance \in Nat
        /\ intent.received <= OnChain(1) /\ balance <= OnChain(1)
    BY OnChainIsNat DEF TypeInv, IntentTyped, LoopsTyped, ObservedInv
  <1>4. UNCHANGED chain => OnChain(1)' = OnChain(1)
    BY DEF OnChain
  <1>5. ASSUME NEW c \in Callers, FinishCall(c) \/ AbortConfirm(c) PROVE ObservedInv'
    <2>1. CASE CommitConfirm(c)
      BY <1>1, <2>1, CommitKeepsObserved
    <2>2. CASE InsertInvoice(c) \/ EnqueueInvoice(c) \/ AbortConfirm(c)
      <3>1. UNCHANGED <<intent, session, ledger, chain, polling, balance>>
        BY <2>2 DEF InsertInvoice, EnqueueInvoice, AbortConfirm, rows, loops
      <3>2. PICK next \in {"announce", "idle", "polling"} : pc' = [pc EXCEPT ![c] = next]
        BY <2>2, AfterCallIsTyped DEF InsertInvoice, EnqueueInvoice, AbortConfirm, CloseCall
      <3>3. \/ UNCHANGED <<request, verdict>>
            \/ /\ request' = [request EXCEPT ![c] = NoRequest]
               /\ verdict' = [verdict EXCEPT ![c] = NoVerdict]
        BY <2>2 DEF InsertInvoice, EnqueueInvoice, AbortConfirm, CloseCall
      <3>4. /\ request = [d \in Callers |-> request[d]]
            /\ verdict = [d \in Callers |-> verdict[d]]
        BY DEF TypeInv, CallsTyped
      <3>5. \A d \in Callers : pc'[d] = "open" => pc[d] = "open"
                                                  /\ UNCHANGED <<request[d], verdict[d]>>
        BY <1>2, <3>2, <3>3, <3>4
      <3>6. pc'["deposits"] \in {pc["deposits"], "announce", "idle", "polling"}
        BY <1>2, <3>2
      <3>7. DOMAIN ledger # {} => pc'["deposits"] \notin {"balance", "observed", "logs", "open"}
        BY <3>6 DEF ObservedInv
      <3>8. \A d \in Callers : verdict'[d].paid => verdict[d].paid
        BY <3>3, <3>4 DEF NoVerdict
      <3>9. QED
        BY <1>1, <1>3, <1>4, <3>1, <3>5, <3>7, <3>8, StandKeepsObserved
    <2>3. QED
      BY <1>5, <2>1, <2>2 DEF FinishCall
  <1>6. CASE ReceiptLoop
    <2>1. CASE SelectRecorded \/ EndPolling
      <3>1. /\ UNCHANGED <<intent, session, ledger, chain, request, verdict, balance>>
            /\ \E next \in {"idle", "polling"} : pc' = [pc EXCEPT !["receipts"] = next]
        BY <2>1 DEF SelectRecorded, EndPolling, rows
      <3>2. \A x \in polling' :
              x \in polling \/ (x.hash \in DOMAIN ledger /\ x.amount = ledger[x.hash].amount)
        <4>1. CASE SelectRecorded
          BY <4>1 DEF SelectRecorded
        <4>2. CASE EndPolling
          BY <4>2 DEF EndPolling
        <4>3. QED
          BY <2>1, <4>1, <4>2
      <3>3. /\ \A c \in Callers : pc'[c] = "open" => pc[c] = "open"
            /\ pc'["deposits"] = pc["deposits"]
        BY <1>2, <3>1
      <3>4. QED
        BY <1>1, <1>3, <1>4, <3>1, <3>2, <3>3, StandKeepsObserved DEF ObservedInv
    <2>2. ASSUME NEW x \in polling, PollReceipt(x) PROVE ObservedInv'
      <3> DEFINE r == [hash |-> x.hash, amount |-> x.amount,
                       confirmations |-> Confirmations(latest, x.hash)]
      <3>1. /\ UNCHANGED <<intent, session, ledger, chain, balance>>
            /\ polling' \subseteq polling
        BY <2>2 DEF PollReceipt, rows
      <3>2. CASE UNCHANGED calls
        BY <1>1, <1>3, <1>4, <3>1, <3>2, StandKeepsObserved DEF calls, ObservedInv
      <3>3. CASE Lies(latest, x.hash) /\ BeginConfirm("receipts", r)
        <4>1. x.hash \in DOMAIN ledger /\ x.amount = ledger[x.hash].amount
          BY DEF ObservedInv
        <4>2. x.hash \in Hashes /\ x.amount \in Nat
          BY DEF TypeInv, LoopsTyped
        <4>3. latest[x.hash] \in [amount : Amounts, depth : Depths]
          BY <3>3, SeqElement DEF TypeInv, LoopsTyped, Lies
        <4>4. r \in Requests
          BY <4>2, <4>3 DEF Requests, Confirmations
        <4>5. r.hash = x.hash /\ r.amount = x.amount
          OBVIOUS
        <4> HIDE DEF r
        <4>6. QED
          BY <3>1, <3>3, <4>1, <4>4, <4>5, PollKeepsObserved
      <3>4. QED
        BY <2>2, <3>2, <3>3 DEF PollReceipt
    <2>3. CASE FinishCall("receipts")
      BY <1>1, <1>5, <2>3
    <2>4. CASE ReadLatestBlock
      <3>1. UNCHANGED <<intent, session, ledger, chain, request, verdict, pc, polling, balance>>
        BY <2>4 DEF ReadLatestBlock, rows, calls
      <3>2. QED
        BY <1>1, <1>3, <1>4, <3>1, StandKeepsObserved DEF ObservedInv
    <2>5. QED
      BY <1>6, <2>1, <2>2, <2>3, <2>4 DEF ReceiptLoop
  <1>7. CASE DepositLoop
    <2>1. CASE ExpireOldIntents
      <3>1. /\ pc' = [pc EXCEPT !["deposits"] = "observe"]
            /\ UNCHANGED <<ledger, chain, request, verdict, polling, balance>>
            /\ intent' = intent \/ intent' = [intent EXCEPT !.status = "expired"]
            /\ session' \in {session, "expired"}
        BY <2>1 DEF ExpireOldIntents, loops
      <3>2. intent'.received = intent.received
        BY <3>1 DEF TypeInv, IntentTyped
      <3>3. /\ \A c \in Callers : pc'[c] = "open" => pc[c] = "open"
            /\ pc'["deposits"] = "observe"
        BY <1>1, <1>2, <3>1
      <3>4. QED
        BY <1>1, <1>3, <1>4, <3>1, <3>2, <3>3, StandKeepsObserved
    <2>2. CASE SelectDeposit
      <3>1. /\ UNCHANGED <<intent, session, ledger, chain, request, verdict, polling, balance>>
            /\ \E next \in {"balance", "idle"} :
                 /\ pc' = [pc EXCEPT !["deposits"] = next]
                 /\ intent.received # 0 => next = "idle"
        BY <2>2 DEF SelectDeposit, rows, loops
      <3>2. /\ \A c \in Callers : pc'[c] = "open" => pc[c] = "open"
            /\ intent.received # 0 => pc'["deposits"] = "idle"
        BY <1>1, <1>2, <3>1
      <3>3. DOMAIN ledger # {} => intent.received # 0
        BY <1>3 DEF ObservedInv
      <3>4. QED
        BY <1>1, <1>3, <1>4, <3>1, <3>2, <3>3, StandKeepsObserved
    <2>3. CASE ReadBalance
      <3>1. /\ pc["deposits"] = "balance"
            /\ UNCHANGED <<intent, session, ledger, chain, request, verdict, polling>>
            /\ \E next \in {"observed", "logs"} : pc' = [pc EXCEPT !["deposits"] = next]
            /\ balance' \in {OnChain(1), 0}
        BY <2>3 DEF ReadBalance, rows
      <3>2. DOMAIN ledger = {}
        BY <3>1 DEF ObservedInv
      <3>3. \A c \in Callers : pc'[c] = "open" => pc[c] = "open"
        BY <1>1, <1>2, <3>1
      <3>4. balance' <= OnChain(1)'
        BY <1>3, <1>4, <3>1
      <3>5. QED
        BY <1>1, <1>3, <1>4, <3>1, <3>2, <3>3, <3>4, StandKeepsObserved
    <2>4. CASE ConfirmObservedBalance
      <3>1. /\ pc["deposits"] = "observed"
            /\ UNCHANGED <<ledger, chain, request, verdict, polling>>
            /\ \E next \in {"idle", "logs"} : pc' = [pc EXCEPT !["deposits"] = next]
            /\ balance' = 0
        BY <2>4 DEF ConfirmObservedBalance
      <3>2. intent'.received \in {intent.received, balance}
        BY <2>4 DEF ConfirmObservedBalance, WriteVerdict
      <3>3. DOMAIN ledger = {}
        BY <3>1 DEF ObservedInv
      <3>4. \A c \in Callers : pc'[c] = "open" => pc[c] = "open"
        BY <1>1, <1>2, <3>1
      <3>5. balance' <= OnChain(1)' /\ intent'.received <= OnChain(1)'
        BY <1>3, <1>4, <3>1, <3>2
      <3>6. session' = "paid" => session = "paid" \/ Least <= OnChain(1)'
        <4> DEFINE status == ResolveIntentStatus(Expected, balance, Tolerance, Required, Required)
        <4>1. session' = "paid" => session = "paid" \/ IntentStatusIsPaid(status)
          BY <2>4 DEF ConfirmObservedBalance, WriteVerdict
        <4>2. IntentStatusIsPaid(status) => Least <= balance
          BY <1>3, PaidReachesLeast
        <4>3. Least \in Nat
          BY BoundsAreOrdered DEF Least
        <4> HIDE DEF status
        <4>4. QED
          BY <1>3, <1>4, <3>1, <4>1, <4>2, <4>3
      <3>7. QED
        BY <1>1, <3>1, <3>3, <3>4, <3>5, <3>6, StandKeepsObserved
    <2>5. CASE ScanLogs
      <3> DEFINE mined == {h \in DOMAIN chain : Mined(h)}
                 r == [hash |-> Max(mined), amount |-> OnChain(1),
                       confirmations |-> Min({chain[h].depth : h \in mined})]
      <3>1. /\ pc["deposits"] = "logs"
            /\ UNCHANGED <<intent, session, ledger, chain, polling, balance>>
        BY <2>5 DEF ScanLogs, rows, loops
      <3>2. DOMAIN ledger = {}
        BY <3>1 DEF ObservedInv
      <3>3. CASE pc' = [pc EXCEPT !["deposits"] = "idle"] /\ UNCHANGED <<request, verdict>>
        <4>1. \A c \in Callers : pc'[c] = "open" => pc[c] = "open"
          BY <1>1, <1>2, <3>3
        <4>2. QED
          BY <1>1, <1>3, <1>4, <3>1, <3>2, <3>3, <4>1, StandKeepsObserved
      <3>4. CASE mined # {} /\ BeginConfirm("deposits", r)
        <4>1. 0 < OnChain(1)
          BY <3>4, MinedIsPositive DEF TypeInv
        <4>2. request'["deposits"] = r /\ pc'["deposits"] = "open"
          BY <3>4, BeginIsLocal DEF TypeInv
        <4>3. r \in Requests
          BY <4>2, OpenHasRequest DEF TypeInv, CallsTyped
        <4>4. r.amount = OnChain(1)
          OBVIOUS
        <4> HIDE DEF r
        <4>5. QED
          BY <1>3, <3>1, <3>4, <4>1, <4>3, <4>4, ScanKeepsObserved
      <3>5. QED
        BY <2>5, <3>3, <3>4 DEF ScanLogs
    <2>6. CASE FinishCall("deposits")
      BY <1>1, <1>5, <2>6
    <2>7. QED
      BY <1>7, <2>1, <2>2, <2>3, <2>4, <2>5, <2>6 DEF DepositLoop
  <1>8. CASE CancelSession \/ Settle
    <2>1. /\ UNCHANGED <<ledger, chain, pc, request, verdict, polling, balance>>
          /\ intent' = intent \/ intent' = [intent EXCEPT !.status = "settled"]
          /\ session' \in {session, "canceled"}
      BY <1>8 DEF CancelSession, Settle, calls, loops
    <2>2. intent'.received = intent.received
      BY <2>1 DEF TypeInv, IntentTyped
    <2>3. QED
      BY <1>1, <1>3, <1>4, <2>1, <2>2, StandKeepsObserved DEF ObservedInv
  <1>9. CASE Transfer \/ Block \/ TimePasses \/ UNCHANGED vars
    <2>1. /\ UNCHANGED <<intent, session, ledger, pc, request, verdict, polling, balance>>
          /\ Transfer \/ Block \/ UNCHANGED chain
      BY <1>9 DEF Transfer, Block, TimePasses, vars, rows, calls, loops
    <2>2. OnChain(1)' \in Nat /\ OnChain(1) <= OnChain(1)'
      BY <2>1, OnChainGrows DEF TypeInv
    <2>3. balance' <= OnChain(1)' /\ intent'.received <= OnChain(1)'
      BY <1>3, <2>1, <2>2
    <2>4. QED
      BY <1>1, <2>1, <2>3, StandKeepsObserved DEF ObservedInv
  <1>10. QED
    BY <1>5, <1>6, <1>7, <1>8, <1>9 DEF Next

\* Without clients, what the two loops count is mined.
LEMMA ObservedIsInvariant ==
  ASSUME Clients = {}
  PROVE  Spec => [](TypeInv /\ ObservedInv)
  <1>1. Init => TypeInv /\ ObservedInv
    BY InitTypeInv, InitObservedInv
  <1>2. TypeInv /\ ObservedInv /\ [Next]_vars => (TypeInv /\ ObservedInv)'
    BY StepIsTyped, StepKeepsObserved
  <1>3. QED
    BY <1>1, <1>2, PTL DEF Spec

\* Neither does the observer count more than was sent, though it takes a balance
\* for confirmed and then records the transfers behind it.
THEOREM ObservedIsOnChain ==
  ASSUME Clients = {}
  PROVE  Spec => []ReceivedIsOnChain
  <1>1. TypeInv /\ ObservedInv => ReceivedIsOnChain
    <2> SUFFICES ASSUME TypeInv, ObservedInv PROVE ReceivedIsOnChain
      OBVIOUS
    <2>1. OnChain(1) \in Nat /\ OnChain(0) \in Nat /\ OnChain(1) <= OnChain(0)
      BY BalanceIsOnChain DEF TypeInv
    <2>2. intent.received \in Nat /\ intent.received <= OnChain(1)
      BY DEF TypeInv, IntentTyped, ObservedInv
    <2>3. QED
      BY <2>1, <2>2 DEF ReceivedIsOnChain
  <1>2. QED
    BY <1>1, ObservedIsInvariant, PTL

\* However stale the verdict that is written, with any clients and either loop
\* at work: until the deposit loop counts what it found, a session is only paid
\* while transfers of at least the tolerated minimum lie at the required depth.
\* Where nobody but the loops reports, they are mined even then.
THEOREM PaidByDeepTransfers ==
  ASSUME TrueReports
  PROVE  Spec => []PaidIsConfirmedOnChain
  <1> DEFINE Deep == session = "paid" /\ ~credited => Least <= OnChain(Required)
             Seen == session = "paid" /\ Clients = {} => Least <= OnChain(1)
  <1>1. CountedInv => Deep
    BY DEF CountedInv, MoneyInv
  <1>2. Spec => []Deep
    BY <1>1, MoneyIsInvariant, PTL
  <1>3. Spec => []Seen
    <2>1. CASE Clients = {}
      <3>1. ObservedInv => Seen
        BY DEF ObservedInv
      <3>2. QED
        BY <2>1, <3>1, ObservedIsInvariant, PTL
    <2>2. CASE Clients # {}
      <3>1. Seen
        BY <2>2
      <3>2. QED
        BY <3>1, PTL
    <2>3. QED
      BY <2>1, <2>2
  <1>4. TypeInv /\ Deep /\ Seen => PaidIsConfirmedOnChain
    <2> SUFFICES ASSUME TypeInv, Deep, Seen PROVE PaidIsConfirmedOnChain
      OBVIOUS
    <2>1. Least \in Nat /\ OnChain(Required) \in Nat /\ OnChain(1) \in Nat
      BY BoundsAreOrdered, OnChainIsNat, CheckoutAssumption DEF Least, TypeInv
    <2>2. QED
      BY <2>1 DEF PaidIsConfirmedOnChain, Least
  <1> HIDE DEF Deep, Seen
  <1>5. QED
    BY <1>2, <1>3, <1>4, TypesAreInvariant, PTL
====
