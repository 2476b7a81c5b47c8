----------------------- MODULE PayoutSchedulerProofs -----------------------
(***************************************************************************)
(* Proofs about PayoutScheduler, for any number of intents, payouts and    *)
(* workers, any failures and any interleaving.                             *)
(***************************************************************************)
EXTENDS PayoutScheduler, TLAPS

\* While a worker processes a payout it remembers it, and while it handles an
\* item it remembers that: what the typing of the updates rests on.
LocalsOK ==
  \A w \in Workers :
    /\ pc[w] \in {"items", "execute", "persist", "fail", "retry"} => current[w] \in Payouts
    /\ pc[w] \in {"execute", "persist", "fail"} => active[w] \in Intents

TypeInv == TypeOK /\ LocalsOK

USE DEF PaidStatus, Resolvable, IntentStatus, PayoutStatus, ItemStatus, PassPoint

-----------------------------------------------------------------------------
(* Type correctness *)

\* The tables are empty and every worker sleeps.
LEMMA InitTypeInv == Init => TypeInv
  BY ConstantsAssumption DEF Init, TypeInv, TypeOK, LocalsOK

\* A step leaves the failure counter alone or counts one failure.
LEMMA FaultTyped ==
  ASSUME faults \in 0..MaxFaults, NEW k, Fault(k) PROVE faults' \in 0..MaxFaults
  BY ConstantsAssumption DEF Fault

\* A transaction of the scheduling phase keeps the types.
LEMMA ScheduleTypeInv ==
  ASSUME TypeInv, NEW w \in Workers,
         \/ ListGroups(w)
         \/ \E g \in Groups : SchedulePayout(w, g) \/ SkipGroup(w, g)
         \/ CompleteDuePayouts(w)
         \/ DueQueryFails(w)
  PROVE  TypeInv'
  <1> USE FaultTyped DEF TypeInv, TypeOK, LocalsOK, rows, chain
  <1>1. CASE ListGroups(w)
    BY <1>1 DEF ListGroups
  <1>2. ASSUME NEW g \in Groups, SchedulePayout(w, g) PROVE TypeInv'
    <2>1. PICK p \in Payouts, locked \in Skipped(Candidates(g)), inserted \in NestedExec :
                 InsertPayout(p, Candidates(g) \ locked, inserted)
      BY <1>2 DEF SchedulePayout
    <2>2. Candidates(g) \ locked \in SUBSET Intents
      BY ConstantsAssumption DEF Candidates
    <2>3. UNCHANGED <<intent, received, address, events, chain, pc, batch, current, todo,
                      active, hadFailure, faults>>
      BY <1>2 DEF SchedulePayout
    <2>4. groups' \in [Workers -> SUBSET Groups]
      BY <1>2 DEF SchedulePayout
    <2>5. /\ payout' \in [Payouts -> PayoutStatus \cup {"none"}]
          /\ counted' \in [Payouts -> SUBSET Intents]
      BY <2>1, <2>2 DEF InsertPayout
    <2>6. /\ item' \in [Intents -> ItemStatus \cup {"none"}]
          /\ itemPayout' \in [Intents -> Payouts \cup {None}]
          /\ amount' \in [Intents -> 0..MaxAmount]
      <3>1. CASE inserted
        BY <2>1, <3>1 DEF InsertPayout
      <3>2. CASE ~inserted
        BY <2>1, <3>2 DEF InsertPayout
      <3>3. QED
        BY <3>1, <3>2
    <2>7. QED
      BY <2>3, <2>4, <2>5, <2>6
  <1>3. ASSUME NEW g \in Groups, SkipGroup(w, g) PROVE TypeInv'
    BY <1>3 DEF SkipGroup
  <1>4. CASE CompleteDuePayouts(w)
    BY <1>4 DEF CompleteDuePayouts, MarkProcessing, AfterBatch, Due
  <1>5. CASE DueQueryFails(w)
    <2>1. CASE UNCHANGED payout
      BY <1>5, <2>1 DEF DueQueryFails
    <2>2. CASE \E locked \in Skipped(Due) : MarkProcessing(Due \ locked)
      BY <1>5, <2>2 DEF DueQueryFails, MarkProcessing, Due
    <2>3. QED
      BY <1>5, <2>1, <2>2 DEF DueQueryFails
  <1>6. QED
    BY <1>1, <1>2, <1>3, <1>4, <1>5

\* A step of processPayout keeps the types.
LEMMA ProcessTypeInv ==
  ASSUME TypeInv, NEW w \in Workers,
         \/ \E p \in Payouts : LoadItems(w, p)
         \/ \E i \in Intents : StartItem(w, i) \/ PrepareFails(w, i)
         \/ ExecutePayout(w)
         \/ ExecuteFails(w)
         \/ CompletePayoutItem(w)
         \/ PersistFails(w)
         \/ MarkItemFailed(w)
         \/ LoseItems(w)
         \/ FinishPayoutIfComplete(w)
         \/ FinishFails(w)
         \/ MarkPayoutRetry(w)
  PROVE  TypeInv'
  <1> USE FaultTyped DEF TypeInv, TypeOK, LocalsOK, rows, chain
  <1>1. ASSUME NEW p \in Payouts, LoadItems(w, p) PROVE TypeInv'
    <2>1. Eligible(p) \subseteq Intents
      BY DEF Eligible
    <2>2. TypeOK'
      BY <1>1, <2>1 DEF LoadItems
    <2>3. LocalsOK'
      BY <1>1 DEF LoadItems
    <2>4. QED
      BY <2>2, <2>3
  <1>2. ASSUME NEW i \in Intents, StartItem(w, i) PROVE TypeInv'
    BY <1>2 DEF StartItem
  <1>3. ASSUME NEW i \in Intents, PrepareFails(w, i) PROVE TypeInv'
    BY <1>3 DEF PrepareFails
  <1>4. CASE ExecutePayout(w)
    BY <1>4 DEF ExecutePayout, Broadcast
  <1>5. CASE ExecuteFails(w)
    BY <1>5 DEF ExecuteFails, Broadcast
  <1>6. CASE CompletePayoutItem(w)
    BY <1>6 DEF CompletePayoutItem, RecordSweep
  <1>7. CASE PersistFails(w)
    <2>1. CASE RecordSweep(active[w])
      BY <1>7, <2>1 DEF PersistFails, RecordSweep
    <2>2. CASE UNCHANGED rows
      BY <1>7, <2>2 DEF PersistFails
    <2>3. QED
      BY <1>7, <2>1, <2>2 DEF PersistFails
  <1>8. CASE MarkItemFailed(w)
    BY <1>8 DEF MarkItemFailed
  <1>9. CASE LoseItems(w)
    BY <1>9 DEF LoseItems
  <1>10. CASE FinishPayoutIfComplete(w)
    <2>1. /\ payout' \in [Payouts -> PayoutStatus \cup {"none"}]
          /\ events' \in [Payouts -> Nat]
      BY <1>10 DEF FinishPayoutIfComplete, ClosePayout
    <2>2. /\ pc' \in [Workers -> PassPoint]
          /\ batch' \in [Workers -> SUBSET Payouts]
          /\ current' \in [Workers -> Payouts \cup {None}]
      <3>1. CASE hadFailure[w]
        BY <1>10, <3>1 DEF FinishPayoutIfComplete
      <3>2. CASE ~hadFailure[w]
        <4>1. NextPayout(w)
          BY <1>10, <3>2 DEF FinishPayoutIfComplete
        <4>2. QED
          BY <4>1 DEF NextPayout, AfterBatch
      <3>3. QED
        BY <3>1, <3>2
    <2>3. UNCHANGED <<intent, received, address, counted, item, itemPayout, amount, chain,
                      groups, todo, active, hadFailure, faults>>
      BY <1>10 DEF FinishPayoutIfComplete
    <2>4. CASE hadFailure[w]
      <3>1. pc' = [pc EXCEPT ![w] = "retry"] /\ UNCHANGED current
        BY <1>10, <2>4 DEF FinishPayoutIfComplete
      <3>2. pc[w] = "items"
        BY <1>10 DEF FinishPayoutIfComplete
      <3>3. TypeOK'
        BY <2>1, <2>2, <2>3
      <3>4. LocalsOK'
        BY <2>3, <3>1, <3>2
      <3>5. QED
        BY <3>3, <3>4
    <2>5. CASE ~hadFailure[w]
      <3>1. NextPayout(w)
        BY <1>10, <2>5 DEF FinishPayoutIfComplete
      <3>2. LocalsOK'
        BY <2>3, <3>1 DEF NextPayout, AfterBatch
      <3>3. TypeOK'
        BY <2>1, <2>2, <2>3
      <3>4. QED
        BY <3>2, <3>3
    <2>6. QED
      BY <2>4, <2>5
  <1>11. CASE FinishFails(w)
    BY <1>11 DEF FinishFails, ClosePayout
  <1>12. CASE MarkPayoutRetry(w)
    BY <1>12 DEF MarkPayoutRetry, NextPayout, AfterBatch
  <1>13. QED
    BY <1>1, <1>2, <1>3, <1>4, <1>5, <1>6, <1>7, <1>8, <1>9, <1>10, <1>11, <1>12

\* A step of the environment keeps the types: the chain never withdraws more
\* than was deposited.
LEMMA EnvironmentTypeInv ==
  ASSUME TypeInv, Environment PROVE TypeInv'
  <1> USE DEF TypeInv, TypeOK, LocalsOK, rows, chain, local
  <1>1. ASSUME NEW i \in Intents, Deposit(i) PROVE TypeInv'
    BY <1>1, ConstantsAssumption DEF Deposit
  <1>2. ASSUME NEW i \in Intents, Mine(i) PROVE TypeInv'
    BY <1>2, ConstantsAssumption DEF Mine, Balance
  <1>3. ASSUME NEW i \in Intents, AssessIntent(i) PROVE TypeInv'
    BY <1>3, ConstantsAssumption DEF AssessIntent
  <1>4. ASSUME NEW i \in Intents, ExpireIntent(i) PROVE TypeInv'
    BY <1>4 DEF ExpireIntent
  <1>5. QED
    BY <1>1, <1>2, <1>3, <1>4 DEF Environment

\* The types are kept by every step, one case per disjunct of Next.
LEMMA NextTypeInv == TypeInv /\ [Next]_vars => TypeInv'
  <1> SUFFICES ASSUME TypeInv, [Next]_vars PROVE TypeInv'
    OBVIOUS
  <1>1. ASSUME NEW w \in Workers, Crash(w) PROVE TypeInv'
    BY <1>1, FaultTyped DEF Crash, TypeInv, TypeOK, LocalsOK, rows, chain
  <1>2. CASE UNCHANGED vars
    BY <1>2 DEF vars, rows, chain, local, TypeInv, TypeOK, LocalsOK
  <1>3. QED
    BY <1>1, <1>2, ScheduleTypeInv, ProcessTypeInv, EnvironmentTypeInv DEF Next, Work, Fail

\* Every reachable state is well typed, whatever fails and however many workers
\* run.
THEOREM TypeCorrect == Spec => []TypeOK
  <1>1. Spec => []TypeInv
    BY InitTypeInv, NextTypeInv, PTL DEF Spec
  <1>2. QED
    BY <1>1, PTL DEF TypeInv
-----------------------------------------------------------------------------
(* Settled money moved: the inductive invariant behind the safety theorems. *)

\* A worker only processes payouts whose row was inserted.
BatchesExist ==
  \A w \in Workers :
    /\ \A p \in batch[w] : payout[p] # "none"
    /\ pc[w] \in {"items", "execute", "persist", "fail", "retry"} => payout[current[w]] # "none"

\* Every row of payout_items belongs to a payout that was inserted with it.
ItemsBelong ==
  \A i \in Intents :
    itemPayout[i] \in Payouts => item[i] # "none" /\ payout[itemPayout[i]] # "none"

\* A worker about to record a sweep has broadcast it.
RecordedWasSent ==
  \A w \in Workers : pc[w] = "persist" => sent[active[w]] > 0

\* Every item of a completed payout was swept, also one marked failed since.
CompletedItemsSent ==
  \A i \in Intents :
    itemPayout[i] \in Payouts /\ payout[itemPayout[i]] = "completed" => sent[i] > 0

SafeInv ==
  /\ TypeInv
  /\ BatchesExist
  /\ ItemsBelong
  /\ RecordedWasSent
  /\ CompletedItemsSent
  /\ SettledWasSwept
  /\ OneCompletionEvent

\* Nothing was scheduled or swept yet.
LEMMA InitSafeInv == Init => SafeInv
  <1> SUFFICES ASSUME Init PROVE SafeInv
    OBVIOUS
  <1>1. TypeInv
    BY InitTypeInv
  <1>2. QED
    BY <1>1, ConstantsAssumption DEF Init, SafeInv, BatchesExist, ItemsBelong, RecordedWasSent,
       CompletedItemsSent, SettledWasSwept, OneCompletionEvent

\* The invariant under the steps that schedule payouts and take due ones.
LEMMA ScheduleSafeInv ==
  ASSUME SafeInv, TypeInv', NEW w \in Workers,
         \/ ListGroups(w)
         \/ \E g \in Groups : SchedulePayout(w, g) \/ SkipGroup(w, g)
         \/ CompleteDuePayouts(w)
         \/ DueQueryFails(w)
  PROVE  SafeInv'
  <1> USE DEF SafeInv, TypeInv, TypeOK, LocalsOK, rows, chain
  <1> USE DEF BatchesExist, ItemsBelong, RecordedWasSent, CompletedItemsSent, SettledWasSwept,
              OneCompletionEvent
  <1>1. CASE ListGroups(w)
    BY <1>1 DEF ListGroups
  <1>2. ASSUME NEW g \in Groups, SchedulePayout(w, g) PROVE SafeInv'
    BY <1>2 DEF SchedulePayout, InsertPayout, Candidates
  <1>3. ASSUME NEW g \in Groups, SkipGroup(w, g) PROVE SafeInv'
    BY <1>3 DEF SkipGroup
  <1>4. CASE CompleteDuePayouts(w)
    BY <1>4 DEF CompleteDuePayouts, MarkProcessing, AfterBatch, Due
  <1>5. CASE DueQueryFails(w)
    <2>1. CASE UNCHANGED payout
      BY <1>5, <2>1 DEF DueQueryFails
    <2>2. CASE \E locked \in Skipped(Due) : MarkProcessing(Due \ locked)
      BY <1>5, <2>2 DEF DueQueryFails, MarkProcessing, Due
    <2>3. QED
      BY <1>5, <2>1, <2>2 DEF DueQueryFails
  <1>6. QED
    BY <1>1, <1>2, <1>3, <1>4, <1>5

\* The invariant under the steps that process a payout and its items.
LEMMA ProcessSafeInv ==
  ASSUME SafeInv, TypeInv', NEW w \in Workers,
         \/ \E p \in Payouts : LoadItems(w, p)
         \/ \E i \in Intents : StartItem(w, i) \/ PrepareFails(w, i)
         \/ ExecutePayout(w)
         \/ ExecuteFails(w)
         \/ CompletePayoutItem(w)
         \/ PersistFails(w)
         \/ MarkItemFailed(w)
         \/ LoseItems(w)
         \/ FinishPayoutIfComplete(w)
         \/ FinishFails(w)
         \/ MarkPayoutRetry(w)
  PROVE  SafeInv'
  <1> USE DEF SafeInv, TypeInv, TypeOK, LocalsOK, rows, chain
  <1> USE DEF BatchesExist, ItemsBelong, RecordedWasSent, CompletedItemsSent, SettledWasSwept,
              OneCompletionEvent
  <1>1. ASSUME NEW p \in Payouts, LoadItems(w, p) PROVE SafeInv'
    BY <1>1 DEF LoadItems
  <1>2. ASSUME NEW i \in Intents, StartItem(w, i) PROVE SafeInv'
    BY <1>2 DEF StartItem
  <1>3. ASSUME NEW i \in Intents, PrepareFails(w, i) PROVE SafeInv'
    BY <1>3 DEF PrepareFails
  <1>4. CASE ExecutePayout(w)
    BY <1>4 DEF ExecutePayout, Broadcast
  <1>5. CASE ExecuteFails(w)
    <2>1. /\ UNCHANGED <<rows, batch, current>>
          /\ pc[w] = "execute" /\ pc' = [pc EXCEPT ![w] = "fail"]
          /\ UNCHANGED active
      BY <1>5 DEF ExecuteFails
    <2>2. \A i \in Intents : sent[i] > 0 => sent'[i] > 0
      BY <1>5 DEF ExecuteFails, Broadcast
    <2>3. QED
      BY <2>1, <2>2
  <1>6. CASE CompletePayoutItem(w)
    BY <1>6 DEF CompletePayoutItem, RecordSweep
  <1>7. CASE PersistFails(w)
    BY <1>7 DEF PersistFails, RecordSweep
  <1>8. CASE MarkItemFailed(w)
    BY <1>8 DEF MarkItemFailed
  <1>9. CASE LoseItems(w)
    BY <1>9 DEF LoseItems
  <1>10. CASE FinishPayoutIfComplete(w)
    BY <1>10 DEF FinishPayoutIfComplete, ClosePayout, NextPayout, AfterBatch, Remaining
  <1>11. CASE FinishFails(w)
    BY <1>11 DEF FinishFails, ClosePayout, Remaining
  <1>12. CASE MarkPayoutRetry(w)
    BY <1>12 DEF MarkPayoutRetry, NextPayout, AfterBatch
  <1>13. QED
    BY <1>1, <1>2, <1>3, <1>4, <1>5, <1>6, <1>7, <1>8, <1>9, <1>10, <1>11, <1>12

\* The invariant under the steps of customers, the chain and the observers.
LEMMA EnvironmentSafeInv ==
  ASSUME SafeInv, TypeInv', Environment PROVE SafeInv'
  <1> USE DEF SafeInv, TypeInv, TypeOK, LocalsOK, rows, chain, local
  <1> USE DEF BatchesExist, ItemsBelong, RecordedWasSent, CompletedItemsSent, SettledWasSwept,
              OneCompletionEvent
  <1>1. ASSUME NEW i \in Intents, Deposit(i) PROVE SafeInv'
    BY <1>1 DEF Deposit
  <1>2. ASSUME NEW i \in Intents, Mine(i) PROVE SafeInv'
    BY <1>2 DEF Mine
  <1>3. ASSUME NEW i \in Intents, AssessIntent(i) PROVE SafeInv'
    BY <1>3, ConstantsAssumption DEF AssessIntent
  <1>4. ASSUME NEW i \in Intents, ExpireIntent(i) PROVE SafeInv'
    BY <1>4 DEF ExpireIntent
  <1>5. QED
    BY <1>1, <1>2, <1>3, <1>4 DEF Environment

\* No step, failure or crash breaks the safety invariant.
LEMMA NextSafeInv == SafeInv /\ [Next]_vars => SafeInv'
  <1> SUFFICES ASSUME SafeInv, [Next]_vars PROVE SafeInv'
    OBVIOUS
  <1> USE DEF BatchesExist, ItemsBelong, RecordedWasSent, CompletedItemsSent, SettledWasSwept,
              OneCompletionEvent
  <1>1. TypeInv'
    BY NextTypeInv DEF SafeInv
  <1>2. ASSUME NEW w \in Workers, Crash(w) PROVE SafeInv'
    BY <1>1, <1>2 DEF Crash, SafeInv, TypeInv, TypeOK, rows, chain
  <1>3. CASE UNCHANGED vars
    BY <1>1, <1>3 DEF vars, rows, chain, local, SafeInv
  <1>4. QED
    BY <1>1, <1>2, <1>3, ScheduleSafeInv, ProcessSafeInv, EnvironmentSafeInv DEF Next, Work, Fail

\* SafeInv is an inductive invariant of the specification.
LEMMA SafeInvInvariant == Spec => []SafeInv
  <1>1. Init => SafeInv
    BY InitSafeInv
  <1>2. SafeInv /\ [Next]_vars => SafeInv'
    BY NextSafeInv
  <1>3. QED
    BY <1>1, <1>2, PTL DEF Spec

\* completePayoutItem never settles an intent whose address was not swept,
\* for any number of replicas and failures.
THEOREM SettlementIsBacked == Spec => []SettledWasSwept
  BY SafeInvInvariant, PTL DEF SafeInv

\* payout.completed is enqueued once per payout, however many replicas and
\* retries reach finishPayoutIfComplete.
THEOREM CompletionIsAnnouncedOnce == Spec => []OneCompletionEvent
  BY SafeInvInvariant, PTL DEF SafeInv

-----------------------------------------------------------------------------
(* The ledger: what merchants are told about items, sweeps and payouts,    *)
(* whether or not the driver takes the inserts of schedulePayouts.         *)

\* A payout has the items of its total or none, unused payouts have no total, and
\* workers only sweep what has an item.
LedgerInv ==
  /\ \A p \in Payouts : Owed[p] \in {counted[p], {}}
  /\ \A p \in Payouts : payout[p] = "none" => counted[p] = {}
  /\ \A w \in Workers :
       /\ \A i \in todo[w] : itemPayout[i] \in Payouts
       /\ pc[w] \in {"execute", "persist", "fail"} => itemPayout[active[w]] \in Payouts

\* The intents of a new payout are owed by no other one.
LEMMA SchedulingBills ==
  ASSUME SafeInv, LedgerInv, NEW w \in Workers, NEW g \in Groups, SchedulePayout(w, g)
  PROVE  /\ LedgerInv'
         /\ \E p \in Payouts, S, T \in SUBSET Intents : Ledger!Bill(p, S, T)
  <1> USE DEF SafeInv, TypeInv, TypeOK
  <1>1. PICK p \in Payouts, locked \in Skipped(Candidates(g)), inserted \in NestedExec :
               InsertPayout(p, Candidates(g) \ locked, inserted)
    BY DEF SchedulePayout
  <1>2. PICK S : S = Candidates(g) \ locked
    OBVIOUS
  <1>3. PICK T : T = IF inserted THEN S ELSE {}
    OBVIOUS
  <1>4. S \subseteq Intents /\ \A i \in S : item[i] = "none"
    BY <1>2, ConstantsAssumption DEF Candidates
  <1>5. T \subseteq S /\ T \in {S, {}}
    BY <1>3
  <1>6. /\ payout[p] = "none" /\ payout' = [payout EXCEPT ![p] = "scheduled"]
        /\ counted' = [counted EXCEPT ![p] = S]
    BY <1>1, <1>2 DEF InsertPayout
  <1>7. \A i \in Intents : itemPayout'[i] = IF i \in T THEN p ELSE itemPayout[i]
    BY <1>1, <1>2, <1>3 DEF InsertPayout
  <1>8. /\ Owed[p] = {}
        /\ \A q \in Payouts : S \cap Owed[q] = {}
    BY <1>4, <1>6 DEF Owed, ItemsBelong
  <1>9. Owed' = [Owed EXCEPT ![p] = T]
    <2>1. \A i \in T : i \in Intents /\ itemPayout[i] \notin Payouts
      BY <1>4, <1>5 DEF ItemsBelong
    <2>2. \A q \in Payouts : {i \in Intents : itemPayout'[i] = q} = IF q = p THEN T ELSE Owed[q]
      BY <1>7, <1>8, <2>1 DEF Owed
    <2>3. QED
      BY <2>2 DEF Owed
  <1>10. Ledger!Bill(p, S, T)
    <2>1. counted[p] = {} /\ events[p] = 0
      BY <1>6 DEF LedgerInv, OneCompletionEvent
    <2>2. S \cap Ledger!OwedAnywhere = {}
      BY <1>8 DEF Ledger!OwedAnywhere
    <2>3. UNCHANGED <<Swept, Settled, events>>
      BY DEF SchedulePayout, chain, Swept, Settled
    <2>4. QED
      BY <1>5, <1>6, <1>8, <1>9, <2>1, <2>2, <2>3 DEF Ledger!Bill
  <1>11. LedgerInv'
    <2>1. \A q \in Payouts : Owed'[q] \in {counted'[q], {}}
      BY <1>5, <1>6, <1>9 DEF LedgerInv, Owed
    <2>2. \A q \in Payouts : payout'[q] = "none" => counted'[q] = {}
      BY <1>6 DEF LedgerInv
    <2>3. \A v \in Workers :
            /\ \A i \in todo'[v] : itemPayout'[i] \in Payouts
            /\ pc'[v] \in {"execute", "persist", "fail"} => itemPayout'[active'[v]] \in Payouts
      BY <1>7 DEF LedgerInv, SchedulePayout, LocalsOK
    <2>4. QED
      BY <2>1, <2>2, <2>3 DEF LedgerInv
  <1>12. QED
    BY <1>4, <1>5, <1>10, <1>11

\* Steps that leave items and totals alone keep the invariant.
LEMMA OthersKeepLedger ==
  ASSUME LedgerInv, UNCHANGED <<counted, itemPayout>>,
         \A p \in Payouts : payout'[p] = "none" => payout[p] = "none",
         \A w \in Workers :
           /\ \A i \in todo'[w] : itemPayout[i] \in Payouts
           /\ pc'[w] \in {"execute", "persist", "fail"} => itemPayout[active'[w]] \in Payouts
  PROVE  LedgerInv'
  BY DEF LedgerInv, Owed

\* Every step keeps the invariant.
LEMMA NextLedgerInv ==
  ASSUME SafeInv, LedgerInv, [Next]_vars PROVE LedgerInv'
  <1> USE DEF SafeInv, TypeInv, TypeOK, LocalsOK, rows, chain, local
  <1>2. ASSUME NEW w \in Workers, NEW g \in Groups, SchedulePayout(w, g) PROVE LedgerInv'
    BY <1>2, SchedulingBills
  <1>3. ASSUME NEW w \in Workers, CompleteDuePayouts(w) PROVE LedgerInv'
    <2>1. /\ UNCHANGED <<counted, itemPayout, todo, active>>
          /\ \A v \in Workers : pc'[v] \in {"execute", "persist", "fail"} => pc'[v] = pc[v]
          /\ \A p \in Payouts : payout'[p] = "none" => payout[p] = "none"
      BY <1>3 DEF CompleteDuePayouts, MarkProcessing, AfterBatch, Due
    <2>2. QED
      BY <2>1, OthersKeepLedger DEF LedgerInv
  <1>4. ASSUME NEW w \in Workers, \E p \in Payouts : LoadItems(w, p) PROVE LedgerInv'
    <2>1. PICK p \in Payouts : LoadItems(w, p)
      BY <1>4
    <2>2. /\ UNCHANGED <<counted, itemPayout, payout, active>>
          /\ \A v \in Workers : \A i \in todo'[v] : i \in todo[v] \/ itemPayout[i] = p
          /\ \A v \in Workers : pc'[v] \in {"execute", "persist", "fail"} => pc'[v] = pc[v]
      BY <2>1 DEF LoadItems, Eligible
    <2>3. QED
      BY <2>2, OthersKeepLedger DEF LedgerInv
  <1>5. ASSUME NEW w \in Workers, NEW i \in Intents, StartItem(w, i) \/ PrepareFails(w, i)
        PROVE  LedgerInv'
    <2>1. /\ UNCHANGED <<counted, itemPayout, payout, todo>>
          /\ i \in todo[w] /\ active' = [active EXCEPT ![w] = i]
          /\ \A v \in Workers \ {w} : pc'[v] = pc[v]
      BY <1>5 DEF StartItem, PrepareFails
    <2>2. QED
      BY <2>1, OthersKeepLedger DEF LedgerInv
  <1>6. ASSUME NEW w \in Workers, UNCHANGED <<counted, itemPayout>>,
               \A p \in Payouts : payout'[p] = "none" => payout[p] = "none",
               \A v \in Workers : /\ todo'[v] \subseteq todo[v]
                                  /\ pc'[v] \in {"execute", "persist", "fail"} =>
                                       /\ pc[v] \in {"execute", "persist", "fail"}
                                       /\ active'[v] = active[v]
        PROVE  LedgerInv'
    BY <1>6, OthersKeepLedger DEF LedgerInv
  <1>7. ASSUME NEW w \in Workers,
               \/ ListGroups(w) \/ \E g \in Groups : SkipGroup(w, g)
               \/ DueQueryFails(w) \/ LoseItems(w) \/ Crash(w)
        PROVE  LedgerInv'
    <2>1. /\ UNCHANGED <<counted, itemPayout>>
          /\ \A p \in Payouts : payout'[p] = "none" => payout[p] = "none"
          /\ \A v \in Workers : /\ todo'[v] \subseteq todo[v]
                                /\ pc'[v] \in {"execute", "persist", "fail"} =>
                                     pc'[v] = pc[v] /\ active'[v] = active[v]
      BY <1>7 DEF ListGroups, SkipGroup, DueQueryFails, MarkProcessing, LoseItems, Crash
    <2>2. QED
      BY <1>6, <2>1
  <1>8. ASSUME NEW w \in Workers,
               \/ ExecutePayout(w) \/ ExecuteFails(w) \/ CompletePayoutItem(w)
               \/ PersistFails(w) \/ MarkItemFailed(w)
        PROVE  LedgerInv'
    <2>1. /\ UNCHANGED <<counted, itemPayout, payout>>
          /\ \A v \in Workers : /\ todo'[v] \subseteq todo[v]
                                /\ v # w => pc'[v] = pc[v] /\ active'[v] = active[v]
          /\ pc'[w] \in {"execute", "persist", "fail"} =>
               pc[w] \in {"execute", "persist", "fail"} /\ active'[w] = active[w]
      BY <1>8 DEF ExecutePayout, ExecuteFails, CompletePayoutItem, PersistFails, RecordSweep,
                  MarkItemFailed
    <2>2. QED
      BY <1>6, <2>1
  <1>9. ASSUME NEW w \in Workers, FinishPayoutIfComplete(w) \/ FinishFails(w) \/ MarkPayoutRetry(w)
        PROVE  LedgerInv'
    <2>1. payout[current[w]] # "none" /\ current[w] \in Payouts
      BY <1>9 DEF FinishPayoutIfComplete, FinishFails, MarkPayoutRetry, BatchesExist
    <2>2. /\ UNCHANGED <<counted, itemPayout, todo, active>>
          /\ \A p \in Payouts : payout'[p] = "none" => payout[p] = "none"
          /\ \A v \in Workers : pc'[v] \in {"execute", "persist", "fail"} => pc'[v] = pc[v]
      BY <1>9, <2>1 DEF FinishPayoutIfComplete, FinishFails, ClosePayout, MarkPayoutRetry, NextPayout,
                        AfterBatch
    <2>3. QED
      BY <1>6, <2>2
  <1>10. CASE Environment \/ UNCHANGED vars
    <2>1. UNCHANGED <<counted, itemPayout, payout, todo, pc, active>>
      BY <1>10 DEF Environment, Deposit, Mine, AssessIntent, ExpireIntent, vars
    <2>2. QED
      BY <2>1, OthersKeepLedger DEF LedgerInv
  <1>11. QED
    BY <1>2, <1>3, <1>4, <1>5, <1>7, <1>8, <1>9, <1>10 DEF Next, Work, Fail

\* A broadcast is a first sweep of what is owed, or repeats one.
LEMMA BroadcastSweeps ==
  ASSUME SafeInv, LedgerInv, NEW w \in Workers, pc[w] = "execute", Broadcast(active[w]),
         UNCHANGED <<counted, itemPayout, events, intent>>
  PROVE  \E i \in Intents : Ledger!Sweep(i)
  <1>1. active[w] \in Intents /\ sent \in [Intents -> Nat]
    BY DEF SafeInv, TypeInv, TypeOK, LocalsOK
  <1>2. active[w] \in Ledger!OwedAnywhere
    BY <1>1 DEF LedgerInv, Owed, Ledger!OwedAnywhere
  <1>3. Swept' = Swept \cup {active[w]}
    BY <1>1 DEF Broadcast, Swept
  <1>4. UNCHANGED <<counted, Owed, events, Settled>>
    BY DEF Settled, Owed
  <1>5. QED
    BY <1>1, <1>2, <1>3, <1>4 DEF Ledger!Sweep

\* completePayoutItem settles what was swept.
LEMMA RecordingSettles ==
  ASSUME SafeInv, NEW w \in Workers, pc[w] = "persist", RecordSweep(active[w]), UNCHANGED sent
  PROVE  \/ \E i \in Intents : Ledger!Settle(i)
         \/ UNCHANGED <<counted, Owed, Swept, Settled, events>>
  <1>1. active[w] \in Intents /\ intent \in [Intents -> IntentStatus]
    BY DEF SafeInv, TypeInv, TypeOK, LocalsOK
  <1>2. active[w] \in Swept
    BY <1>1 DEF SafeInv, RecordedWasSent, Swept
  <1>3. UNCHANGED <<counted, Owed, Swept, events>>
    BY DEF RecordSweep, Owed, Swept
  <1>4. Settled' = Settled \cup {active[w]} \/ UNCHANGED Settled
    BY <1>1 DEF RecordSweep, Settled, PaidStatus
  <1>5. QED
    BY <1>1, <1>2, <1>3, <1>4 DEF Ledger!Settle

\* finishPayoutIfComplete announces a payout once, when all its items were swept.
LEMMA ClosingAnnounces ==
  ASSUME SafeInv, SafeInv', NEW p \in Payouts, ClosePayout(p),
         UNCHANGED <<counted, itemPayout, intent, sent>>
  PROVE  Ledger!Announce(p) \/ UNCHANGED <<counted, Owed, Swept, Settled, events>>
  <1>1. payout \in [Payouts -> PayoutStatus \cup {"none"}] /\ events \in [Payouts -> Nat]
    BY DEF SafeInv, TypeInv, TypeOK
  <1>2. UNCHANGED <<counted, Owed, Swept, Settled>>
    BY DEF Owed, Swept, Settled
  <1>3. CASE UNCHANGED events
    BY <1>2, <1>3
  <1>4. CASE /\ payout[p] # "completed" /\ payout' = [payout EXCEPT ![p] = "completed"]
             /\ events' = [events EXCEPT ![p] = @ + 1]
    <2>1. events[p] = 0
      BY <1>1, <1>4 DEF SafeInv, OneCompletionEvent
    <2>2. payout'[p] = "completed"
      BY <1>1, <1>4
    <2>3. Owed[p] \subseteq Swept
      BY <2>2 DEF SafeInv, CompletedItemsSent, Owed, Swept
    <2>4. events' = [events EXCEPT ![p] = 1]
      BY <1>1, <1>4, <2>1
    <2>5. QED
      BY <1>2, <2>1, <2>3, <2>4 DEF Ledger!Announce
  <1>5. QED
    BY <1>3, <1>4 DEF ClosePayout

\* Whatever writes a status makes nothing settled, and at most one intent
\* unsettled.
LEMMA AssessingReopens ==
  ASSUME SafeInv, Environment
  PROVE  \/ \E i \in Intents : Ledger!Reopen(i)
         \/ UNCHANGED <<counted, Owed, Swept, Settled, events>>
  <1>1. intent \in [Intents -> IntentStatus]
    BY DEF SafeInv, TypeInv, TypeOK
  <1>2. UNCHANGED <<counted, Owed, Swept, events>>
    BY DEF Environment, Deposit, Mine, AssessIntent, ExpireIntent, rows, chain, Owed, Swept
  <1>3. CASE \E i \in Intents : Deposit(i) \/ Mine(i)
    BY <1>2, <1>3 DEF Deposit, Mine, rows, Settled
  <1>4. ASSUME NEW i \in Intents, AssessIntent(i) \/ ExpireIntent(i) PROVE Ledger!Reopen(i)
    <2>1. PICK s \in IntentStatus \ {"settled"} : intent' = [intent EXCEPT ![i] = s]
      BY <1>4, ConstantsAssumption
      DEF AssessIntent, ExpireIntent, IntentStatus, Resolvable, PaidStatus
    <2>2. Settled' = Settled \ {i}
      BY <1>1, <2>1 DEF Settled
    <2>3. QED
      BY <1>2, <2>2 DEF Ledger!Reopen
  <1>5. QED
    BY <1>3, <1>4 DEF Environment

\* Every step of the workers and of those around them is one of the ledger, or
\* none.
LEMMA StepKeepsLedger ==
  ASSUME SafeInv, LedgerInv, SafeInv', [Next]_vars
  PROVE  [Ledger!LedgerNext]_(Ledger!ledgerVars)
  <1> SUFFICES Ledger!LedgerNext \/ UNCHANGED <<counted, Owed, Swept, Settled, events>>
    BY DEF Ledger!ledgerVars
  <1> USE DEF Ledger!LedgerNext
  <1>1. ASSUME UNCHANGED <<counted, itemPayout, sent, intent, events>>
        PROVE  UNCHANGED <<counted, Owed, Swept, Settled, events>>
    BY <1>1 DEF Owed, Swept, Settled
  <1>2. ASSUME NEW w \in Workers, NEW g \in Groups, SchedulePayout(w, g) PROVE Ledger!LedgerNext
    BY <1>2, SchedulingBills
  <1>3. ASSUME NEW w \in Workers,
               \/ ListGroups(w) \/ \E g \in Groups : SkipGroup(w, g)
               \/ CompleteDuePayouts(w) \/ DueQueryFails(w) \/ \E p \in Payouts : LoadItems(w, p)
               \/ \E i \in Intents : StartItem(w, i) \/ PrepareFails(w, i)
               \/ MarkItemFailed(w) \/ LoseItems(w) \/ MarkPayoutRetry(w) \/ Crash(w)
        PROVE  UNCHANGED <<counted, itemPayout, sent, intent, events>>
    BY <1>3 DEF ListGroups, SkipGroup, CompleteDuePayouts, DueQueryFails, LoadItems, StartItem,
                PrepareFails, MarkItemFailed, LoseItems, MarkPayoutRetry, Crash, rows, chain
  <1>4. ASSUME NEW w \in Workers, ExecutePayout(w) \/ ExecuteFails(w)
        PROVE  Ledger!LedgerNext \/ UNCHANGED <<counted, itemPayout, sent, intent, events>>
    <2>1. CASE Broadcast(active[w])
      BY <1>4, <2>1, BroadcastSweeps DEF ExecutePayout, ExecuteFails, rows
    <2>2. CASE ~Broadcast(active[w])
      BY <1>4, <2>2 DEF ExecutePayout, ExecuteFails, rows, chain
    <2>3. QED
      BY <2>1, <2>2
  <1>5. ASSUME NEW w \in Workers, CompletePayoutItem(w) \/ PersistFails(w)
        PROVE  Ledger!LedgerNext \/ UNCHANGED <<counted, Owed, Swept, Settled, events>>
    <2>1. CASE RecordSweep(active[w])
      BY <1>5, <2>1, RecordingSettles DEF CompletePayoutItem, PersistFails, chain
    <2>2. CASE ~RecordSweep(active[w])
      BY <1>1, <1>5, <2>2 DEF CompletePayoutItem, PersistFails, rows, chain
    <2>3. QED
      BY <2>1, <2>2
  <1>6. ASSUME NEW w \in Workers, FinishPayoutIfComplete(w) \/ FinishFails(w)
        PROVE  Ledger!LedgerNext \/ UNCHANGED <<counted, Owed, Swept, Settled, events>>
    <2>1. current[w] \in Payouts
      BY <1>6 DEF FinishPayoutIfComplete, FinishFails, SafeInv, TypeInv, LocalsOK
    <2>2. UNCHANGED <<counted, itemPayout, intent, sent>>
      BY <1>6 DEF FinishPayoutIfComplete, FinishFails, chain
    <2>3. CASE ClosePayout(current[w])
      BY <2>1, <2>2, <2>3, ClosingAnnounces
    <2>4. CASE UNCHANGED events
      BY <1>1, <2>2, <2>4
    <2>5. QED
      BY <1>6, <2>3, <2>4 DEF FinishPayoutIfComplete, FinishFails
  <1>7. CASE Environment
    BY <1>7, AssessingReopens
  <1>8. CASE UNCHANGED vars
    BY <1>1, <1>8 DEF vars, rows, chain
  <1>9. QED
    BY <1>1, <1>2, <1>3, <1>4, <1>5, <1>6, <1>7, <1>8 DEF Next, Work, Fail

\* LedgerInv holds from the empty tables on.
LEMMA LedgerInvInvariant == Spec => []LedgerInv
  <1>1. Init => LedgerInv
    BY ConstantsAssumption DEF Init, LedgerInv, Owed
  <1>2. SafeInv /\ LedgerInv /\ [Next]_vars => LedgerInv'
    BY NextLedgerInv
  <1>3. QED
    BY <1>1, <1>2, SafeInvInvariant, PTL DEF Spec

\* Whether or not the driver takes the inserts: a completed payout has swept all
\* its items, which are those of the total that payout.completed announces, or none.
THEOREM CompletedPayoutIsPaid == Spec => []CompletedPayoutPaysItems
  <1>1. SafeInv /\ LedgerInv => CompletedPayoutPaysItems
    BY DEF SafeInv, CompletedItemsSent, LedgerInv, CompletedPayoutPaysItems, Owed
  <1>2. QED
    BY <1>1, SafeInvInvariant, LedgerInvInvariant, PTL

\* Any number of replicas, with crashes, retries and late assessments, and
\* whatever the driver does with the inserts, keep the ledger: no intent is owed
\* twice, swept unowed or settled unswept, and no payout is announced twice or
\* before all it owes was swept.
THEOREM LedgerIsKept == Spec => ImplementsLedger
  <1>1. Init => Ledger!LedgerInit
    BY ConstantsAssumption DEF Init, Ledger!LedgerInit, Owed, Swept, Settled
  <1>2. SafeInv /\ LedgerInv /\ SafeInv' /\ [Next]_vars => [Ledger!LedgerNext]_(Ledger!ledgerVars)
    BY StepKeepsLedger
  <1>3. QED
    BY <1>1, <1>2, SafeInvInvariant, LedgerInvInvariant, PTL DEF Spec, ImplementsLedger, Ledger!LedgerSpec

-----------------------------------------------------------------------------
(* With a single replica, every extra broadcast is paid for by a failure.  *)

\* Worker w has broadcast a sweep of i and is about to record it.
Unrecorded(w, i) == pc[w] = "persist" /\ active[w] = i

\* The sweep of i is recorded, and the worker is not about to mark it failed.
Recorded(w, i) == item[i] = "completed" /\ ~(pc[w] = "fail" /\ active[w] = i)

\* An item being handled, or still to be handled, is not recorded; a broadcast
\* in excess of the one recorded, or about to be, was followed by a failure.
ResendInv(w, i) ==
  /\ i \in todo[w] => ~Recorded(w, i)
  /\ pc[w] \in {"execute", "persist"} => active[w] \in todo[w]
  /\ pc[w] \in {"idle", "schedule", "process", "retry"} => todo[w] = {}
  /\ sent[i] <= faults + (IF Recorded(w, i) \/ Unrecorded(w, i) THEN 1 ELSE 0)

\* The phases that broadcast nothing keep the balance of broadcasts and failures.
LEMMA QuietResendInv ==
  ASSUME NEW w \in Workers, NEW i \in Intents, TypeInv, TypeInv', ResendInv(w, i),
         \/ ListGroups(w)
         \/ \E g \in Groups : SchedulePayout(w, g) \/ SkipGroup(w, g)
         \/ CompleteDuePayouts(w)
         \/ DueQueryFails(w)
         \/ \E p \in Payouts : LoadItems(w, p)
         \/ LoseItems(w)
         \/ FinishPayoutIfComplete(w)
         \/ FinishFails(w)
         \/ MarkPayoutRetry(w)
         \/ Crash(w)
  PROVE  ResendInv(w, i)'
  <1> USE DEF TypeInv, TypeOK, LocalsOK, rows, chain, ResendInv, Recorded, Unrecorded, Fault
  <1>1. CASE ListGroups(w)
    BY <1>1 DEF ListGroups
  <1>2. ASSUME NEW g \in Groups, SchedulePayout(w, g) PROVE ResendInv(w, i)'
    <2>1. item'[i] = item[i] \/ (item[i] = "none" /\ item'[i] = "pending")
      BY <1>2 DEF SchedulePayout, InsertPayout, Candidates
    <2>2. pc[w] = "schedule" /\ UNCHANGED <<pc, todo, active, sent, faults>>
      BY <1>2 DEF SchedulePayout
    <2>3. QED
      BY <2>1, <2>2
  <1>3. ASSUME NEW g \in Groups, SkipGroup(w, g) PROVE ResendInv(w, i)'
    BY <1>3 DEF SkipGroup
  <1>4. CASE CompleteDuePayouts(w)
    BY <1>4 DEF CompleteDuePayouts, AfterBatch
  <1>5. CASE DueQueryFails(w)
    BY <1>5 DEF DueQueryFails
  <1>6. ASSUME NEW p \in Payouts, LoadItems(w, p) PROVE ResendInv(w, i)'
    <2>1. pc[w] = "process" /\ todo[w] = {} /\ UNCHANGED <<item, sent, active>>
      BY <1>6 DEF LoadItems
    <2>2. CASE pc' = [pc EXCEPT ![w] = "items"] /\ todo' = [todo EXCEPT ![w] = Eligible(p)]
      <3>1. UNCHANGED faults /\ (i \in todo'[w] => item[i] # "completed")
        BY <1>6, <2>2 DEF LoadItems, Eligible
      <3>2. QED
        BY <2>1, <2>2, <3>1
    <2>3. CASE pc' = [pc EXCEPT ![w] = "retry"] /\ UNCHANGED todo
      <3>1. faults' = faults + 1
        BY <1>6, <2>3 DEF LoadItems
      <3>2. QED
        BY <2>1, <2>3, <3>1
    <2>4. QED
      BY <1>6, <2>2, <2>3 DEF LoadItems
  <1>7. CASE LoseItems(w)
    BY <1>7 DEF LoseItems
  <1>8. CASE FinishPayoutIfComplete(w)
    <2>1. pc[w] = "items" /\ todo[w] = {} /\ UNCHANGED <<item, todo, active, sent, faults>>
      BY <1>8 DEF FinishPayoutIfComplete
    <2>2. pc'[w] \in {"retry", "idle", "process"}
      BY <1>8 DEF FinishPayoutIfComplete, NextPayout, AfterBatch
    <2>3. QED
      BY <2>1, <2>2
  <1>9. CASE FinishFails(w)
    BY <1>9 DEF FinishFails
  <1>10. CASE MarkPayoutRetry(w)
    BY <1>10 DEF MarkPayoutRetry, NextPayout, AfterBatch
  <1>11. CASE Crash(w)
    BY <1>11 DEF Crash
  <1>12. QED
    BY <1>1, <1>2, <1>3, <1>4, <1>5, <1>6, <1>7, <1>8, <1>9, <1>10, <1>11

\* Broadcasting, recording and failing an item keep the balance.
LEMMA ItemResendInv ==
  ASSUME NEW w \in Workers, NEW i \in Intents, TypeInv, TypeInv',
         \A j \in Intents : ResendInv(w, j),
         \/ \E j \in Intents : StartItem(w, j) \/ PrepareFails(w, j)
         \/ ExecutePayout(w)
         \/ ExecuteFails(w)
         \/ CompletePayoutItem(w)
         \/ PersistFails(w)
         \/ MarkItemFailed(w)
  PROVE  ResendInv(w, i)'
  <1> USE DEF TypeInv, TypeOK, LocalsOK, rows, chain, ResendInv, Recorded, Unrecorded, Fault
  <1>1. ASSUME NEW j \in Intents, StartItem(w, j) PROVE ResendInv(w, i)'
    BY <1>1 DEF StartItem
  <1>2. ASSUME NEW j \in Intents, PrepareFails(w, j) PROVE ResendInv(w, i)'
    BY <1>2 DEF PrepareFails
  <1>3. CASE ExecutePayout(w)
    BY <1>3 DEF ExecutePayout, Broadcast
  <1>4. CASE ExecuteFails(w)
    BY <1>4 DEF ExecuteFails, Broadcast
  <1>5. CASE CompletePayoutItem(w)
    BY <1>5 DEF CompletePayoutItem, RecordSweep
  <1>6. CASE PersistFails(w)
    BY <1>6 DEF PersistFails, RecordSweep
  <1>7. CASE MarkItemFailed(w)
    BY <1>7 DEF MarkItemFailed
  <1>8. QED
    BY <1>1, <1>2, <1>3, <1>4, <1>5, <1>6, <1>7

OneWorkerInv(w) == TypeInv /\ \A i \in Intents : ResendInv(w, i)

\* The tables are empty and the only worker sleeps.
LEMMA InitOneWorkerInv == ASSUME NEW w \in Workers, Init PROVE OneWorkerInv(w)
  BY InitTypeInv, ConstantsAssumption DEF Init, OneWorkerInv, ResendInv, Recorded, Unrecorded

\* Every step of the only worker, and of the others, keeps its balance.
LEMMA NextOneWorkerInv ==
  ASSUME NEW w, Workers = {w}, OneWorkerInv(w), [Next]_vars PROVE OneWorkerInv(w)'
  <1>1. TypeInv'
    BY NextTypeInv DEF OneWorkerInv
  <1>2. ASSUME NEW i \in Intents PROVE ResendInv(w, i)'
    <2>1. CASE Environment
      <3>1. UNCHANGED <<item, sent, local, faults>>
        BY <2>1 DEF Environment, Deposit, Mine, AssessIntent, ExpireIntent, rows, chain
      <3>2. QED
        BY <3>1 DEF local, OneWorkerInv, ResendInv, Recorded, Unrecorded
    <2>2. CASE Work(w) \/ Fail(w)
      BY <1>1, <2>2, QuietResendInv, ItemResendInv DEF Work, Fail, OneWorkerInv
    <2>3. CASE UNCHANGED vars
      BY <2>3 DEF vars, rows, chain, local, OneWorkerInv, ResendInv, Recorded, Unrecorded
    <2>4. QED
      BY <2>1, <2>2, <2>3 DEF Next
  <1>3. QED
    BY <1>1, <1>2 DEF OneWorkerInv

\* With one replica of the worker, n failures cause at most n extra sweeps of
\* a deposit address.
THEOREM OneWorkerRarelyResends ==
  ASSUME NEW w, Workers = {w} PROVE Spec => []ResendsBoundedByFaults
  <1>1. Init => OneWorkerInv(w)
    BY InitOneWorkerInv
  <1>2. OneWorkerInv(w) /\ [Next]_vars => OneWorkerInv(w)'
    BY NextOneWorkerInv
  <1>3. OneWorkerInv(w) => ResendsBoundedByFaults
    <2> SUFFICES ASSUME OneWorkerInv(w), NEW i \in Intents PROVE sent[i] <= 1 + faults
      BY DEF ResendsBoundedByFaults
    <2>1. sent[i] <= faults + (IF Recorded(w, i) \/ Unrecorded(w, i) THEN 1 ELSE 0)
      BY DEF OneWorkerInv, ResendInv
    <2>2. sent[i] \in Nat /\ faults \in Nat
      BY ConstantsAssumption DEF OneWorkerInv, TypeInv, TypeOK
    <2>3. QED
      BY <2>1, <2>2
  <1>4. QED
    BY <1>1, <1>2, <1>3, PTL DEF Spec

-----------------------------------------------------------------------------
(* With a single replica, what is settled is swept no more, whatever fails. *)

\* Of the items still to be handled, only one that is about to be marked failed, as
\* its commit returned an error, may belong to a settled intent.
TodoUnsettled(w) ==
  \A i \in todo[w] : intent[i] = "settled" => pc[w] = "fail" /\ active[w] = i

\* Every step of the only worker, and of those around it, keeps that.
LEMMA NextTodoUnsettled ==
  ASSUME NEW w, Workers = {w}, OneWorkerInv(w), TodoUnsettled(w), [Next]_vars
  PROVE  TodoUnsettled(w)'
  <1> USE DEF TodoUnsettled
  <1>1. /\ intent \in [Intents -> IntentStatus] /\ pc \in [Workers -> PassPoint]
        /\ active \in [Workers -> Intents \cup {None}] /\ todo \in [Workers -> SUBSET Intents]
        /\ pc[w] \in {"execute", "persist", "fail"} => active[w] \in Intents
    BY DEF OneWorkerInv, TypeInv, TypeOK, LocalsOK
  <1>2. ASSUME NEW p \in Payouts, LoadItems(w, p) PROVE TodoUnsettled(w)'
    <2>1. todo'[w] = Eligible(p) \/ UNCHANGED todo
      BY <1>1, <1>2 DEF LoadItems
    <2>2. pc[w] = "process" /\ UNCHANGED intent
      BY <1>2 DEF LoadItems, rows
    <2>3. QED
      BY <2>1, <2>2 DEF Eligible
  <1>3. CASE CompletePayoutItem(w)
    BY <1>1, <1>3 DEF CompletePayoutItem, RecordSweep
  <1>4. CASE PersistFails(w)
    BY <1>1, <1>4 DEF PersistFails, RecordSweep, rows
  <1>5. CASE MarkItemFailed(w)
    BY <1>1, <1>5 DEF MarkItemFailed
  <1>6. CASE pc[w] # "fail" /\ todo'[w] \subseteq todo[w] /\ UNCHANGED intent
    BY <1>6
  <1>7. CASE \/ ListGroups(w) \/ CompleteDuePayouts(w) \/ DueQueryFails(w)
             \/ \E g \in Groups : SchedulePayout(w, g) \/ SkipGroup(w, g)
    BY <1>6, <1>7 DEF ListGroups, CompleteDuePayouts, DueQueryFails, SchedulePayout, SkipGroup, rows
  <1>8. CASE \/ \E i \in Intents : StartItem(w, i) \/ PrepareFails(w, i)
             \/ ExecutePayout(w) \/ ExecuteFails(w) \/ LoseItems(w)
    BY <1>1, <1>6, <1>8 DEF StartItem, PrepareFails, ExecutePayout, ExecuteFails, LoseItems, rows
  <1>9. CASE FinishPayoutIfComplete(w) \/ FinishFails(w) \/ MarkPayoutRetry(w)
    BY <1>6, <1>9 DEF FinishPayoutIfComplete, FinishFails, MarkPayoutRetry
  <1>10. CASE Crash(w)
    BY <1>1, <1>10 DEF Crash
  <1>11. CASE \E i \in Intents : AssessIntent(i) \/ ExpireIntent(i)
    BY <1>1, <1>11, ConstantsAssumption DEF AssessIntent, ExpireIntent, local
  <1>12. CASE \/ \E i \in Intents : Deposit(i) \/ Mine(i)
              \/ UNCHANGED vars
    BY <1>12 DEF Deposit, Mine, vars, rows, local
  <1>13. QED
    BY <1>2, <1>3, <1>4, <1>5, <1>7, <1>8, <1>9, <1>10, <1>11, <1>12
    DEF Next, Work, Fail, Environment

\* With one replica, and any failures, nothing is swept from the address of an
\* intent that is settled, though markItemFailed may take its item back.
THEOREM SettledStaysUnswept ==
  ASSUME NEW w, Workers = {w} PROVE Spec => SettledIsSweptNoMore
  <1> DEFINE Inv == OneWorkerInv(w) /\ TodoUnsettled(w)
  <1>1. Init => Inv
    BY InitOneWorkerInv DEF Init, TodoUnsettled
  <1>2. Inv /\ [Next]_vars => Inv'
    BY NextOneWorkerInv, NextTodoUnsettled
  <1>3. Inv /\ [Next]_vars => [\A i \in Intents : sent'[i] > sent[i] => intent[i] # "settled"]_vars
    <2> SUFFICES ASSUME Inv, Next, NEW i \in Intents, sent'[i] > sent[i]
                 PROVE  intent[i] # "settled"
      OBVIOUS
    <2>1. /\ sent \in [Intents -> Nat]
          /\ pc[w] \in {"execute", "persist", "fail"} => active[w] \in Intents
      BY DEF OneWorkerInv, TypeInv, TypeOK, LocalsOK
    <2>2. pc[w] = "execute" => active[w] \in todo[w]
      BY DEF OneWorkerInv, ResendInv
    <2>3. CASE ExecutePayout(w) \/ ExecuteFails(w)
      <3>1. Broadcast(active[w])
        BY <2>1, <2>3 DEF ExecutePayout, ExecuteFails, chain
      <3>2. i = active[w] /\ pc[w] = "execute"
        BY <2>1, <2>3, <3>1 DEF ExecutePayout, ExecuteFails, Broadcast
      <3>3. QED
        BY <2>2, <3>2 DEF TodoUnsettled
    <2>4. CASE UNCHANGED sent
      BY <2>1, <2>4
    <2>5. CASE \/ ListGroups(w) \/ CompleteDuePayouts(w) \/ CompletePayoutItem(w) \/ MarkItemFailed(w)
               \/ \E g \in Groups : SchedulePayout(w, g) \/ SkipGroup(w, g)
               \/ \E p \in Payouts : LoadItems(w, p)
               \/ \E j \in Intents : StartItem(w, j)
               \/ FinishPayoutIfComplete(w) \/ MarkPayoutRetry(w)
      BY <2>4, <2>5 DEF ListGroups, CompleteDuePayouts, CompletePayoutItem, MarkItemFailed,
                        SchedulePayout, SkipGroup, LoadItems, StartItem, FinishPayoutIfComplete,
                        MarkPayoutRetry, chain
    <2>6. CASE \/ DueQueryFails(w) \/ PersistFails(w) \/ LoseItems(w) \/ FinishFails(w) \/ Crash(w)
               \/ Environment \/ \E j \in Intents : PrepareFails(w, j)
      BY <2>4, <2>6 DEF DueQueryFails, PersistFails, LoseItems, FinishFails, Crash, PrepareFails,
                        Environment, Deposit, Mine, AssessIntent, ExpireIntent, chain
    <2>7. QED
      BY <2>3, <2>5, <2>6 DEF Next, Work, Fail
  <1>4. QED
    BY <1>1, <1>2, <1>3, PTL DEF Spec, SettledIsSweptNoMore

\* No crash, retry or second worker lets completePayoutItem settle what was not
\* swept, or finishPayoutIfComplete announce a payout twice.
THEOREM SettlementHolds == Spec => []SettlementIsReal
  BY SettlementIsBacked, CompletionIsAnnouncedOnce, PTL DEF SettlementIsReal
=============================================================================
