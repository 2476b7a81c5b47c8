-------------------------- MODULE PayoutScheduler --------------------------
(***************************************************************************)
(* The payout worker: it groups paid intents into payouts, sweeps the      *)
(* deposit address of every item with one broadcast transaction, records   *)
(* the result, and closes the payout.  Several replicas may run; any of    *)
(* them may crash between two database transactions.                       *)
(*                                                                         *)
(* A payout's total_amount is represented by the set of intents whose      *)
(* amounts were added to it (counted), an item by the intent it pays out   *)
(* (payout_items.payment_intent_id is UNIQUE), and a (merchant, chain,     *)
(* token) group by the set of its intents.                                 *)
(***************************************************************************)
EXTENDS Naturals

CONSTANTS
  Intents,      \* payment intents (each with its own deposit address)
  Groups,       \* the (merchant, chain, token) groups, as sets of intents
  Payouts,      \* pool of payout ids (bound)
  Workers,      \* replicas of the payout worker
  None,         \* no payout / no intent
  NestedExec,   \* outcomes of a statement run on a tx whose rows are open
  Contended,    \* whether other transactions may hold rows locked
  Assessments,  \* statuses the observers may write into an intent
  TrueReports,  \* whether reported amounts are covered by deposits on chain
  MaxAmount,    \* bound: largest amount reported or deposited per intent
  FaultKinds,   \* the kinds of failure that may happen
  MaxFaults     \* bound: number of failures in a behaviour

PaidStatus == {"confirmed", "overpaid"}
Resolvable == {"awaiting_funds", "partial"} \cup PaidStatus
IntentStatus == Resolvable \cup {"expired", "settled"}
PayoutStatus == {"scheduled", "processing", "completed"}
ItemStatus == {"pending", "processing", "failed", "completed"}
Faults == {"crash", "db", "prepare", "rpc", "lost_reply", "persist"}

ASSUME ConstantsAssumption ==
  /\ Groups \subseteq SUBSET Intents
  /\ \A g, h \in Groups : g # h => g \cap h = {}
  /\ None \notin Intents \cup Payouts
  /\ NestedExec \in (SUBSET BOOLEAN) \ {{}}
  /\ Contended \in BOOLEAN
  /\ Assessments \subseteq Resolvable
  /\ TrueReports \in BOOLEAN
  /\ MaxAmount \in Nat \ {0}
  /\ FaultKinds \subseteq Faults
  /\ MaxFaults \in Nat

VARIABLES
  intent,       \* payment_intents.status
  received,     \* payment_intents.received_amount
  address,      \* deposit_addresses.status
  payout,       \* payouts.status, "none" for an id not used yet
  counted,      \* payouts.total_amount, as the set of intents added up
  events,       \* payout.completed events in the outbox, per payout
  item,         \* payout_items.status, "none" when there is no item
  itemPayout,   \* payout_items.payout_id
  amount,       \* payout_items.amount
  deposited,    \* tokens ever sent to the deposit address
  withdrawn,    \* tokens swept from it by mined transactions
  mempool,      \* sweep transactions broadcast and not mined yet
  sent,         \* sweep transactions ever broadcast
  pc,           \* where a worker is in its pass
  groups,       \* groups it still has to turn into payouts
  batch,        \* payouts it still has to process
  current,      \* the payout it is processing
  todo,         \* items of it that were loaded and are not handled yet
  active,       \* the item it is handling
  hadFailure,   \* whether an item of the current payout failed
  faults        \* failures so far

rows == <<intent, received, address, payout, counted, events, item, itemPayout, amount>>
chain == <<deposited, withdrawn, mempool, sent>>
local == <<pc, groups, batch, current, todo, active, hadFailure>>
vars == <<rows, chain, local, faults>>

PassPoint == {"idle", "schedule", "process", "items", "execute", "persist", "fail", "retry"}

\* TypeOK: every column holds a value its CHECK constraint allows, the
\* worker's locals range over rows that can exist, and the chain never pays
\* out more than was deposited.
TypeOK ==
  /\ intent \in [Intents -> IntentStatus]
  /\ received \in [Intents -> 0..MaxAmount]
  /\ address \in [Intents -> {"active", "swept"}]
  /\ payout \in [Payouts -> PayoutStatus \cup {"none"}]
  /\ counted \in [Payouts -> SUBSET Intents]
  /\ events \in [Payouts -> Nat]
  /\ item \in [Intents -> ItemStatus \cup {"none"}]
  /\ itemPayout \in [Intents -> Payouts \cup {None}]
  /\ amount \in [Intents -> 0..MaxAmount]
  /\ deposited \in [Intents -> 0..MaxAmount]
  /\ withdrawn \in [Intents -> 0..MaxAmount]
  /\ \A i \in Intents : withdrawn[i] <= deposited[i]
  /\ mempool \in [Intents -> Nat]
  /\ sent \in [Intents -> Nat]
  /\ pc \in [Workers -> PassPoint]
  /\ groups \in [Workers -> SUBSET Groups]
  /\ batch \in [Workers -> SUBSET Payouts]
  /\ current \in [Workers -> Payouts \cup {None}]
  /\ todo \in [Workers -> SUBSET Intents]
  /\ active \in [Workers -> Intents \cup {None}]
  /\ hadFailure \in [Workers -> BOOLEAN]
  /\ faults \in 0..MaxFaults

Init ==
  /\ intent = [i \in Intents |-> "awaiting_funds"]
  /\ received = [i \in Intents |-> 0]
  /\ address = [i \in Intents |-> "active"]
  /\ payout = [p \in Payouts |-> "none"]
  /\ counted = [p \in Payouts |-> {}]
  /\ events = [p \in Payouts |-> 0]
  /\ item = [i \in Intents |-> "none"]
  /\ itemPayout = [i \in Intents |-> None]
  /\ amount = [i \in Intents |-> 0]
  /\ deposited = [i \in Intents |-> 0]
  /\ withdrawn = [i \in Intents |-> 0]
  /\ mempool = [i \in Intents |-> 0]
  /\ sent = [i \in Intents |-> 0]
  /\ pc = [w \in Workers |-> "idle"]
  /\ groups = [w \in Workers |-> {}]
  /\ batch = [w \in Workers |-> {}]
  /\ current = [w \in Workers |-> None]
  /\ todo = [w \in Workers |-> {}]
  /\ active = [w \in Workers |-> None]
  /\ hadFailure = [w \in Workers |-> FALSE]
  /\ faults = 0

\* A failure of kind k happens: one of at most MaxFaults.
Fault(k) ==
  /\ k \in FaultKinds
  /\ faults < MaxFaults
  /\ faults' = faults + 1

\* The rows of S that FOR UPDATE SKIP LOCKED leaves out: any of them while
\* other transactions hold locks.
Skipped(S) == IF Contended THEN SUBSET S ELSE {{}}

-----------------------------------------------------------------------------
(* schedulePayouts *)

\* Seeded fault: the query has lost its NOT IN.
CandidatesAgain(g) == {i \in g : intent[i] \in PaidStatus}

\* Paid intents of group g that no payout item pays out yet.
Candidates(g) == {i \in g : intent[i] \in PaidStatus /\ item[i] = "none"}

\* The pass starts: the query that lists the groups with candidates.  When it
\* fails nothing is scheduled and the pass goes on to the due payouts.
ListGroups(w) ==
  /\ pc[w] = "idle"
  /\ \/ /\ groups' = [groups EXCEPT ![w] = {g \in Groups : Candidates(g) # {}}]
        /\ UNCHANGED faults
     \/ /\ Fault("db")
        /\ UNCHANGED groups
  /\ pc' = [pc EXCEPT ![w] = "schedule"]
  /\ UNCHANGED <<rows, chain, batch, current, todo, active, hadFailure>>

\* What the transaction of a group writes: the payout, an item for every intent
\* taken, and their total.  The items are inserted while the rows they are
\* read from are open, the total after those are closed.
InsertPayout(p, taken, inserted) ==
  /\ payout[p] = "none"
  /\ payout' = [payout EXCEPT ![p] = "scheduled"]
  /\ counted' = [counted EXCEPT ![p] = taken]
  /\ IF inserted
     THEN /\ item' = [i \in Intents |-> IF i \in taken THEN "pending" ELSE item[i]]
          /\ itemPayout' = [i \in Intents |-> IF i \in taken THEN p ELSE itemPayout[i]]
          /\ amount' = [i \in Intents |-> IF i \in taken THEN received[i] ELSE amount[i]]
     ELSE UNCHANGED <<item, itemPayout, amount>>

SchedulePayout(w, g) ==
  /\ pc[w] = "schedule"
  /\ g \in groups[w]
  /\ \E p \in Payouts, locked \in Skipped(Candidates(g)), inserted \in NestedExec :
       InsertPayout(p, Candidates(g) \ locked, inserted)
  /\ groups' = [groups EXCEPT ![w] = @ \ {g}]
  /\ UNCHANGED <<intent, received, address, events, chain, pc, batch, current, todo,
                 active, hadFailure, faults>>

\* The transaction of one group rolls back, or the pool of ids is used up.
SkipGroup(w, g) ==
  /\ pc[w] = "schedule"
  /\ g \in groups[w]
  /\ \/ Fault("db")
     \/ /\ \A p \in Payouts : payout[p] # "none"
        /\ UNCHANGED faults
  /\ groups' = [groups EXCEPT ![w] = @ \ {g}]
  /\ UNCHANGED <<rows, chain, pc, batch, current, todo, active, hadFailure>>

-----------------------------------------------------------------------------
(* completeDuePayouts *)

Due == {p \in Payouts : payout[p] \in {"scheduled", "processing"}}

\* Where a worker goes once it has taken or handled a payout: to the next one
\* of its batch, or to sleep.
AfterBatch(rest) == IF rest = {} THEN "idle" ELSE "process"

\* The updates of the payouts due, made while their rows are open.
MarkProcessing(due) ==
  \E updated \in NestedExec :
    payout' = [p \in Payouts |-> IF updated /\ p \in due THEN "processing" ELSE payout[p]]

\* The due payouts are locked, marked processing and remembered; the commit
\* releases the locks before any is processed.
CompleteDuePayouts(w) ==
  /\ pc[w] = "schedule"
  /\ groups[w] = {}
  /\ \E locked \in Skipped(Due) :
       LET due == Due \ locked
       IN  /\ MarkProcessing(due)
           /\ batch' = [batch EXCEPT ![w] = due]
           /\ pc' = [pc EXCEPT ![w] = AfterBatch(due)]
  /\ UNCHANGED <<intent, received, address, counted, events, item, itemPayout, amount, chain,
                 groups, current, todo, active, hadFailure, faults>>

\* The transaction returns an error, rolled back or committed with its reply
\* lost: nothing is processed in this pass.
DueQueryFails(w) ==
  /\ pc[w] = "schedule"
  /\ groups[w] = {}
  /\ Fault("db")
  /\ \/ UNCHANGED payout
     \/ \E locked \in Skipped(Due) : MarkProcessing(Due \ locked)
  /\ pc' = [pc EXCEPT ![w] = "idle"]
  /\ UNCHANGED <<intent, received, address, counted, events, item, itemPayout, amount, chain,
                 groups, batch, current, todo, active, hadFailure>>

-----------------------------------------------------------------------------
(* processPayout *)

\* Seeded faults: the items query has lost its condition on the intent's status, on
\* the item's status, or the retry of failed items.
EligibleUnpaid(p) ==
  {i \in Intents : itemPayout[i] = p /\ item[i] \in {"pending", "processing", "failed"}}
EligibleAgain(p) == {i \in Intents : itemPayout[i] = p /\ intent[i] \in PaidStatus}
EligibleOnce(p) ==
  {i \in Intents : /\ itemPayout[i] = p
                   /\ item[i] \in {"pending", "processing"}
                   /\ intent[i] \in PaidStatus}

Eligible(p) ==
  {i \in Intents : /\ itemPayout[i] = p
                   /\ item[i] \in {"pending", "processing", "failed"}
                   /\ intent[i] \in PaidStatus}

LoadItems(w, p) ==
  /\ pc[w] = "process"
  /\ p \in batch[w]
  /\ current' = [current EXCEPT ![w] = p]
  /\ \/ /\ todo' = [todo EXCEPT ![w] = Eligible(p)]
        /\ pc' = [pc EXCEPT ![w] = "items"]
        /\ UNCHANGED faults
     \/ /\ Fault("db")
        /\ pc' = [pc EXCEPT ![w] = "retry"]
        /\ UNCHANGED todo
  /\ hadFailure' = [hadFailure EXCEPT ![w] = FALSE]
  /\ UNCHANGED <<rows, chain, groups, batch, active>>

\* An item whose merchant has a settlement address and whose key decrypts is
\* marked processing.
StartItem(w, i) ==
  /\ pc[w] = "items"
  /\ i \in todo[w]
  /\ active' = [active EXCEPT ![w] = i]
  /\ pc' = [pc EXCEPT ![w] = "execute"]
  /\ item' = IF item[i] = "completed" THEN item ELSE [item EXCEPT ![i] = "processing"]
  /\ UNCHANGED <<intent, received, address, payout, counted, events, itemPayout, amount, chain,
                 groups, batch, current, todo, hadFailure, faults>>

\* No settlement address, or the deposit key does not decrypt.
PrepareFails(w, i) ==
  /\ pc[w] = "items"
  /\ i \in todo[w]
  /\ Fault("prepare")
  /\ active' = [active EXCEPT ![w] = i]
  /\ pc' = [pc EXCEPT ![w] = "fail"]
  /\ UNCHANGED <<rows, chain, groups, batch, current, todo, hadFailure>>

Balance(i) == deposited[i] - withdrawn[i]

\* The executor broadcasts the sweep and returns its hash without waiting for
\* a receipt.  The gas estimate only succeeds while the balance covers it.
Broadcast(i) ==
  /\ Balance(i) >= amount[i]
  /\ mempool' = [mempool EXCEPT ![i] = @ + 1]
  /\ sent' = [sent EXCEPT ![i] = @ + 1]
  /\ UNCHANGED <<deposited, withdrawn>>

ExecutePayout(w) ==
  /\ pc[w] = "execute"
  /\ Broadcast(active[w])
  /\ pc' = [pc EXCEPT ![w] = "persist"]
  /\ UNCHANGED <<rows, groups, batch, current, todo, active, hadFailure, faults>>

\* The executor returns an error: the estimate is refused, an RPC call fails,
\* or the broadcast was accepted and its reply was lost.
ExecuteFails(w) ==
  /\ pc[w] = "execute"
  /\ \/ /\ Balance(active[w]) < amount[active[w]]
        /\ UNCHANGED <<chain, faults>>
     \/ Fault("rpc") /\ UNCHANGED chain
     \/ Fault("lost_reply") /\ Broadcast(active[w])
  /\ pc' = [pc EXCEPT ![w] = "fail"]
  /\ UNCHANGED <<rows, groups, batch, current, todo, active, hadFailure>>

\* Seeded fault: the status of the intent is written into the item.
RecordSweepAsSettled(i) ==
  /\ item' = [item EXCEPT ![i] = "settled"]
  /\ intent' = IF intent[i] \in PaidStatus THEN [intent EXCEPT ![i] = "settled"] ELSE intent
  /\ address' = [address EXCEPT ![i] = "swept"]
  /\ UNCHANGED <<received, payout, counted, events, itemPayout, amount>>

\* completePayoutItem: item, intent and deposit address in one transaction.
RecordSweep(i) ==
  /\ item' = [item EXCEPT ![i] = "completed"]
  /\ intent' = IF intent[i] \in PaidStatus THEN [intent EXCEPT ![i] = "settled"] ELSE intent
  /\ address' = [address EXCEPT ![i] = "swept"]
  /\ UNCHANGED <<received, payout, counted, events, itemPayout, amount>>

CompletePayoutItem(w) ==
  /\ pc[w] = "persist"
  /\ RecordSweep(active[w])
  /\ todo' = [todo EXCEPT ![w] = @ \ {active[w]}]
  /\ active' = [active EXCEPT ![w] = None]
  /\ pc' = [pc EXCEPT ![w] = "items"]
  /\ UNCHANGED <<chain, groups, batch, current, hadFailure, faults>>

\* It returns an error: rolled back, or committed and the reply was lost.
PersistFails(w) ==
  /\ pc[w] = "persist"
  /\ Fault("persist")
  /\ RecordSweep(active[w]) \/ UNCHANGED rows
  /\ pc' = [pc EXCEPT ![w] = "fail"]
  /\ UNCHANGED <<chain, groups, batch, current, todo, active, hadFailure>>

\* The update has no condition on the item's status.
MarkItemFailed(w) ==
  /\ pc[w] = "fail"
  /\ item' = [item EXCEPT ![active[w]] = "failed"]
  /\ hadFailure' = [hadFailure EXCEPT ![w] = TRUE]
  /\ todo' = [todo EXCEPT ![w] = @ \ {active[w]}]
  /\ active' = [active EXCEPT ![w] = None]
  /\ pc' = [pc EXCEPT ![w] = "items"]
  /\ UNCHANGED <<intent, received, address, payout, counted, events, itemPayout, amount, chain,
                 groups, batch, current, faults>>

\* The connection breaks while the items are read: the rest is left for later.
LoseItems(w) ==
  /\ pc[w] = "items"
  /\ todo[w] # {}
  /\ Fault("db")
  /\ todo' = [todo EXCEPT ![w] = {}]
  /\ hadFailure' = [hadFailure EXCEPT ![w] = TRUE]
  /\ UNCHANGED <<rows, chain, pc, groups, batch, current, active>>

\* Seeded fault: failed items do not keep their payout open.
RemainingOpen(p) == {i \in Intents : itemPayout[i] = p /\ item[i] \in {"pending", "processing"}}

\* Items of payout p that are not completed.
Remaining(p) == {i \in Intents : itemPayout[i] = p /\ item[i] # "completed"}

\* The worker is done with its current payout.
NextPayout(w) ==
  /\ batch' = [batch EXCEPT ![w] = @ \ {current[w]}]
  /\ pc' = [pc EXCEPT ![w] = AfterBatch(batch[w] \ {current[w]})]
  /\ current' = [current EXCEPT ![w] = None]

\* Seeded fault: the update that closes the payout has no guard.
ClosePayoutAgain(p) ==
  IF Remaining(p) = {}
  THEN /\ payout' = [payout EXCEPT ![p] = "completed"]
       /\ events' = [events EXCEPT ![p] = @ + 1]
  ELSE UNCHANGED <<payout, events>>

\* The payout is closed, and payout.completed enqueued with it, when no item
\* remains; the guarded update makes the event conditional on the transition.
ClosePayout(p) ==
  IF Remaining(p) = {} /\ payout[p] # "completed"
  THEN /\ payout' = [payout EXCEPT ![p] = "completed"]
       /\ events' = [events EXCEPT ![p] = @ + 1]
  ELSE UNCHANGED <<payout, events>>

FinishPayoutIfComplete(w) ==
  /\ pc[w] = "items"
  /\ todo[w] = {}
  /\ ClosePayout(current[w])
  /\ IF hadFailure[w]
     THEN /\ pc' = [pc EXCEPT ![w] = "retry"]
          /\ UNCHANGED <<batch, current>>
     ELSE NextPayout(w)
  /\ UNCHANGED <<intent, received, address, counted, item, itemPayout, amount, chain,
                 groups, todo, active, hadFailure, faults>>

\* It returns an error: rolled back, or committed and the reply was lost.
FinishFails(w) ==
  /\ pc[w] = "items"
  /\ todo[w] = {}
  /\ Fault("db")
  /\ ClosePayout(current[w]) \/ UNCHANGED <<payout, events>>
  /\ pc' = [pc EXCEPT ![w] = "retry"]
  /\ UNCHANGED <<intent, received, address, counted, item, itemPayout, amount, chain,
                 groups, batch, current, todo, active, hadFailure>>

MarkPayoutRetry(w) ==
  /\ pc[w] = "retry"
  /\ payout' = IF payout[current[w]] = "completed" THEN payout
               ELSE [payout EXCEPT ![current[w]] = "scheduled"]
  /\ NextPayout(w)
  /\ UNCHANGED <<intent, received, address, counted, events, item, itemPayout, amount, chain,
                 groups, todo, active, hadFailure, faults>>

\* The process dies and restarts: its locals are lost, its rows stay.
Crash(w) ==
  /\ pc[w] # "idle"
  /\ Fault("crash")
  /\ pc' = [pc EXCEPT ![w] = "idle"]
  /\ groups' = [groups EXCEPT ![w] = {}]
  /\ batch' = [batch EXCEPT ![w] = {}]
  /\ current' = [current EXCEPT ![w] = None]
  /\ todo' = [todo EXCEPT ![w] = {}]
  /\ active' = [active EXCEPT ![w] = None]
  /\ hadFailure' = [hadFailure EXCEPT ![w] = FALSE]
  /\ UNCHANGED <<rows, chain>>

-----------------------------------------------------------------------------
(* The rest of the system, as far as the payout worker can see it. *)

\* The customer's tokens arrive at the deposit address.
Deposit(i) ==
  /\ deposited[i] < MaxAmount
  /\ deposited' = [deposited EXCEPT ![i] = @ + 1]
  /\ UNCHANGED <<rows, withdrawn, mempool, sent, local, faults>>

\* The chain executes a broadcast sweep; it reverts without enough balance.
Mine(i) ==
  /\ mempool[i] > 0
  /\ mempool' = [mempool EXCEPT ![i] = @ - 1]
  /\ withdrawn' = IF Balance(i) >= amount[i]
                  THEN [withdrawn EXCEPT ![i] = @ + amount[i]]
                  ELSE withdrawn
  /\ UNCHANGED <<rows, deposited, sent, local, faults>>

\* ConfirmCheckoutSession and confirmObservedBalance write the status and the
\* amount without a condition on the old status.
AssessIntent(i) ==
  /\ \E s \in Assessments, r \in 1..(IF TrueReports THEN deposited[i] ELSE MaxAmount) :
       /\ intent' = [intent EXCEPT ![i] = s]
       /\ received' = [received EXCEPT ![i] = r]
  /\ UNCHANGED <<address, payout, counted, events, item, itemPayout, amount, chain, local, faults>>

ExpireIntent(i) ==
  /\ intent[i] \in {"awaiting_funds", "partial"}
  /\ intent' = [intent EXCEPT ![i] = "expired"]
  /\ UNCHANGED <<received, address, payout, counted, events, item, itemPayout, amount, chain,
                 local, faults>>

-----------------------------------------------------------------------------

\* What a worker does next when nothing fails.
Work(w) ==
  \/ ListGroups(w)
  \/ \E g \in Groups : SchedulePayout(w, g) \/ SkipGroup(w, g)
  \/ CompleteDuePayouts(w)
  \/ \E p \in Payouts : LoadItems(w, p)
  \/ \E i \in Intents : StartItem(w, i)
  \/ ExecutePayout(w)
  \/ ExecuteFails(w)
  \/ CompletePayoutItem(w)
  \/ MarkItemFailed(w)
  \/ FinishPayoutIfComplete(w)
  \/ MarkPayoutRetry(w)

\* What may fail instead.
Fail(w) ==
  \/ DueQueryFails(w)
  \/ \E i \in Intents : PrepareFails(w, i)
  \/ PersistFails(w)
  \/ LoseItems(w)
  \/ FinishFails(w)
  \/ Crash(w)

Environment == \E i \in Intents : Deposit(i) \/ Mine(i) \/ AssessIntent(i) \/ ExpireIntent(i)

Next == (\E w \in Workers : Work(w) \/ Fail(w)) \/ Environment

Spec == Init /\ [][Next]_vars

\* The ticker restarts every pass, and a broadcast transaction is mined.
FairSpec ==
  /\ Spec
  /\ \A w \in Workers : WF_vars(Work(w))
  /\ \A i \in Intents : WF_vars(Mine(i))

-----------------------------------------------------------------------------
(* Properties *)

\* An intent is settled, and its item completed, only after a sweep of its
\* deposit address was broadcast: no crash, retry, lost reply or second worker
\* lets completePayoutItem run for money that never moved.
SettledWasSwept ==
  \A i \in Intents :
    /\ intent[i] = "settled" => sent[i] > 0 /\ address[i] = "swept"
    /\ item[i] = "completed" => sent[i] > 0

\* The items of a payout: what was inserted into payout_items for it.
Owed == [p \in Payouts |-> {i \in Intents : itemPayout[i] = p}]

\* A completed payout swept every item it has, and these are all of the intents
\* in its total, or none.  None is the case of an insert that is refused because
\* the rows it is fed from are still open (payout_scheduler.go:127, conn busy):
\* the property holds whichever of the two the driver does.
CompletedPayoutPaysItems ==
  \A p \in Payouts : payout[p] = "completed" =>
    /\ \A i \in Owed[p] : sent[i] > 0
    /\ Owed[p] \in {counted[p], {}}

\* What the total of payout.completed says: a sweep was broadcast for every intent
\* whose amount is in it.  Where the driver refuses the inserts this is false.
CompletedPayoutPaysTotal ==
  \A p \in Payouts : payout[p] = "completed" => \A i \in counted[p] : sent[i] > 0

\* payout.completed is enqueued exactly once per payout, with its completion,
\* although several workers and retries may finish the same payout.
OneCompletionEvent ==
  \A p \in Payouts : events[p] = IF payout[p] = "completed" THEN 1 ELSE 0

\* What the settlement says has happened: sweeps of what is settled, and the
\* end of a payout once.
SettlementIsReal == SettledWasSwept /\ OneCompletionEvent

\* With one worker, a sweep is broadcast again only after a failure: n
\* failures cause at most n extra broadcasts for a deposit address.
ResendsBoundedByFaults ==
  \A i \in Intents : sent[i] <= 1 + faults

\* With one worker, nothing is swept from the address of a settled intent, also
\* when completePayoutItem committed, returned an error, and markItemFailed took
\* the item back to failed (payout_scheduler.go:272).
SettledIsSweptNoMore ==
  [][\A i \in Intents : sent'[i] > sent[i] => intent[i] # "settled"]_vars

Swept == {i \in Intents : sent[i] > 0}
Settled == {i \in Intents : intent[i] = "settled"}

\* Any number of replicas, with retries and crashes, keep the ledger that merchants
\* are told about: an intent gets one item at most, also when a late assessment
\* has made it confirmed again, is swept only if it has one and settled only if
\* swept, and a payout is announced once, when all it owes was swept.  The driver
\* may refuse the items of a payout, which then owes nothing of its total.
Ledger == INSTANCE PayoutLedger
            WITH total <- counted, owed <- Owed, announced <- events,
                 swept <- Swept, settled <- Settled
ImplementsLedger == Ledger!LedgerSpec

\* An intent that has an item and is paid is eventually swept, unless it stops
\* being paid, through crashes, lost replies and failed statements.  Whether it
\* gets its item depends on the driver, and is not promised here.
ScheduledIsSwept ==
  \A i \in Intents :
    item[i] # "none" /\ intent[i] \in PaidStatus ~> sent[i] > 0 \/ intent[i] \notin PaidStatus
=============================================================================
