------------------------- MODULE OutboxRelayProofs -------------------------
(***************************************************************************)
(* Proofs about OutboxRelay, for any number of relays and events, any      *)
(* batch size and any failures: an event is published again only at the    *)
(* price of a failure, the order of a batch is kept, and the relay         *)
(* implements EventDelivery.                                               *)
(***************************************************************************)
EXTENDS OutboxRelay, FiniteSetTheorems, WellFoundedInduction, TLAPS

\* The locked rows are visible and unpublished, and locked by one relay; the
\* rows of a pass are still to be handled, marked published or marked failed.
LocksOK ==
  /\ \A r \in Relays : \A e \in batch[r] : row[e] \in {"pending", "failed"}
  /\ \A r, q \in Relays : r # q => batch[r] \intersect batch[q] = {}
  /\ \A r \in Relays :
       /\ left[r] \intersect sent[r] = {}
       /\ left[r] \intersect refused[r] = {}
       /\ sent[r] \intersect refused[r] = {}
       /\ aborted[r] => ~Idle(r)

\* Each publication but the marked one has cost a failure; in a transaction
\* that has failed, so will have those that follow.
CountsOK ==
  /\ \A e \in OutboxEvents : handed[e] <= 1 + outboxFaults
  /\ \A e \in OutboxEvents :
       row[e] # "published" /\ (\A r \in Relays : e \notin sent[r])
         => handed[e] <= outboxFaults
  /\ \A r \in Relays : aborted[r] =>
       /\ \A e \in sent[r] : handed[e] <= outboxFaults
       /\ \A e \in left[r] : handed[e] + 1 <= outboxFaults

\* Marks, committed or not, are of published events.
MarksOK ==
  /\ MarkedWasPublished
  /\ \A r \in Relays : \A e \in sent[r] : handed[e] > 0

IInv == OutboxTypeOK /\ LocksOK /\ CountsOK /\ MarksOK

USE EventsAssumption, BoundAssumption

-----------------------------------------------------------------------------

\* A set of numbers that is not empty has a least element.
LEMMA MinIsLeast ==
  ASSUME NEW S \in SUBSET Nat, S # {}
  PROVE  Min(S) \in S /\ \A k \in S : ~(k < Min(S))
  <1>1. PICK m \in S : \A k \in S : <<k, m>> \notin OpToRel(<, Nat)
    BY WFMin, NatLessThanWellFounded, Zenon
  <1>2. \A k \in S : ~(k < m)
    BY <1>1, Zenon DEF OpToRel
  <1>3. \A k \in S : m <= k
    BY <1>2
  <1>4. Min(S) \in S /\ \A k \in S : Min(S) =< k
    BY <1>3, Zenon DEF Min
  <1>5. Min(S) \in Nat
    BY <1>4
  <1>6. \A k \in S : ~(k < Min(S))
    BY <1>4, <1>5
  <1>7. QED
    BY <1>4, <1>6

\* The event handled next is one of the batch that is left.
LEMMA NextEventIsLeft ==
  ASSUME OutboxTypeOK, NEW r \in Relays, left[r] # {}
  PROVE  NextEvent(r) \in left[r] /\ NextEvent(r) \in OutboxEvents /\ NextEvent(r) \in batch[r]
  <1>1. left[r] \subseteq OutboxEvents /\ left[r] \subseteq batch[r]
    BY DEF OutboxTypeOK
  <1>2. left[r] \subseteq Nat
    BY <1>1
  <1>3. NextEvent(r) \in left[r]
    BY <1>2, MinIsLeast DEF NextEvent
  <1>4. QED
    BY <1>1, <1>3

\* A batch is not empty: it holds the oldest event that is selectable.
LEMMA OldestIsNotEmpty ==
  ASSUME NEW S \in SUBSET OutboxEvents, S # {} PROVE Oldest(S) # {}
  <1>1. Min(S) \in S
    BY MinIsLeast
  <1>2. {d \in S : d < Min(S)} = {}
    BY MinIsLeast
  <1>3. Cardinality({d \in S : d < Min(S)}) = 0
    BY <1>2, FS_EmptySet
  <1>4. QED
    BY <1>1, <1>3 DEF Oldest

\* Nothing is locked or published at first.
LEMMA InitIInv == OutboxInit => IInv
  BY DEF OutboxInit, IInv, OutboxTypeOK, LocksOK, CountsOK, MarksOK, MarkedWasPublished

\* A pass that ends without effect leaves the other relays their locks.
LEMMA RollbackKeepsTypesAndLocks ==
  ASSUME IInv, NEW r \in Relays, Rollback(r),
         outboxFaults' \in 0 .. MaxOutboxFaults, handed' \in [OutboxEvents -> Nat]
  PROVE  OutboxTypeOK' /\ LocksOK'
  <1>1. OutboxTypeOK'
    BY DEF IInv, OutboxTypeOK, Rollback
  <1>2. \A q \in Relays :
          /\ q = r => batch'[q] = {} /\ left'[q] = {} /\ sent'[q] = {}
                     /\ refused'[q] = {} /\ aborted'[q] = FALSE
          /\ q # r => batch'[q] = batch[q] /\ left'[q] = left[q] /\ sent'[q] = sent[q]
                     /\ refused'[q] = refused[q] /\ aborted'[q] = aborted[q]
    BY DEF IInv, OutboxTypeOK, Rollback
  <1>3. UNCHANGED row
    BY DEF Rollback
  <1>4. LocksOK'
    BY <1>2, <1>3 DEF IInv, LocksOK, Idle
  <1>5. QED
    BY <1>1, <1>4

\* A pass that ends without effect and without a publication keeps the counts
\* if it paid for it, or if its transaction had failed before.
LEMMA RollbackKeepsCounts ==
  ASSUME IInv, NEW r \in Relays, Rollback(r), UNCHANGED handed,
         \/ OutboxFault
         \/ aborted[r] /\ UNCHANGED outboxFaults
  PROVE  IInv'
  <1>1. outboxFaults \in Nat /\ outboxFaults' \in 0 .. MaxOutboxFaults /\ outboxFaults' \in Nat /\ outboxFaults <= outboxFaults'
    BY DEF IInv, OutboxTypeOK, OutboxFault
  <1>2. OutboxTypeOK' /\ LocksOK'
    BY <1>1, RollbackKeepsTypesAndLocks DEF IInv, OutboxTypeOK
  <1>3. \A e \in sent[r] : handed[e] <= outboxFaults'
    <2>1. CASE OutboxFault
      BY <2>1 DEF IInv, OutboxTypeOK, CountsOK, OutboxFault
    <2>2. CASE aborted[r] /\ UNCHANGED outboxFaults
      BY <2>2 DEF IInv, CountsOK
    <2>3. QED
      BY <2>1, <2>2
  <1>4. CountsOK'
    BY <1>1, <1>3 DEF IInv, OutboxTypeOK, CountsOK, Rollback
  <1>5. MarksOK'
    BY DEF IInv, OutboxTypeOK, MarksOK, MarkedWasPublished, Rollback
  <1>6. QED
    BY <1>2, <1>4, <1>5 DEF IInv

\* Every step keeps the invariant.
LEMMA NextIInv == IInv /\ [OutboxNext]_outboxVars => IInv'
  <1> SUFFICES ASSUME IInv, [OutboxNext]_outboxVars PROVE IInv'
    OBVIOUS
  <1>1. ASSUME NEW e \in OutboxEvents, Enqueue(e) PROVE IInv'
    <2>1. /\ row' \in [OutboxEvents -> {"absent", "pending", "failed", "published"}]
          /\ \A d \in OutboxEvents : row'[d] = IF d = e THEN "pending" ELSE row[d]
          /\ row[e] = "absent"
          /\ UNCHANGED <<due, batch, left, sent, refused, known, aborted, handed, outboxFaults>>
      BY <1>1 DEF Enqueue, IInv, OutboxTypeOK
    <2>2. OutboxTypeOK' /\ MarksOK'
      BY <2>1 DEF IInv, OutboxTypeOK, MarksOK, MarkedWasPublished
    <2>3. LocksOK' /\ CountsOK'
      BY <2>1 DEF IInv, OutboxTypeOK, LocksOK, CountsOK, Idle
    <2>4. QED
      BY <2>2, <2>3 DEF IInv
  <1>2. ASSUME NEW e \in OutboxEvents, BackoffElapses(e) PROVE IInv'
    BY <1>2 DEF BackoffElapses, IInv, OutboxTypeOK, LocksOK, CountsOK, MarksOK, MarkedWasPublished, Idle
  <1>3. ASSUME NEW r \in Relays, SelectBatch(r) PROVE IInv'
    <2>1. Oldest(Selectable) \subseteq Selectable /\ Selectable \subseteq OutboxEvents
      BY DEF Oldest, Selectable, IInv, OutboxTypeOK
    <2>2. sent[r] = {} /\ refused[r] = {} /\ left[r] = {}
      BY <1>3 DEF SelectBatch, Idle, IInv, OutboxTypeOK
    <2>3. OutboxTypeOK'
      BY <1>3, <2>1, <2>2 DEF SelectBatch, IInv, OutboxTypeOK
    <2>4. LocksOK'
      <3>1. PICK S \in SUBSET Selectable :
              /\ S # {}
              /\ \A q \in Relays : /\ batch'[q] = IF q = r THEN S ELSE batch[q]
                                   /\ left'[q] = IF q = r THEN S ELSE left[q]
              /\ UNCHANGED <<row, sent, refused, aborted>>
        <4>1. Oldest(Selectable) # {}
          BY <1>3, <2>1, OldestIsNotEmpty DEF SelectBatch
        <4>2. QED
          BY <1>3, <2>1, <4>1 DEF SelectBatch, IInv, OutboxTypeOK
      <3>2. \A q \in Relays : S \intersect batch[q] = {}
        BY DEF Selectable, Locked
      <3>3. \A e \in S : row[e] \in {"pending", "failed"}
        BY DEF Selectable
      <3>4. QED
        BY <2>2, <3>1, <3>2, <3>3 DEF IInv, LocksOK, Idle
    <2>5. PICK S \in SUBSET OutboxEvents :
            /\ \A q \in Relays : left'[q] = IF q = r THEN S ELSE left[q]
            /\ UNCHANGED <<row, sent, aborted, handed, outboxFaults>>
      BY <1>3, <2>1 DEF SelectBatch, IInv, OutboxTypeOK
    <2>6. CountsOK'
      <3>1. ~aborted[r]
        BY <1>3 DEF SelectBatch, Idle, IInv, LocksOK
      <3>2. QED
        BY <2>5, <3>1 DEF IInv, CountsOK
    <2>7. MarksOK'
      BY <2>5 DEF IInv, MarksOK, MarkedWasPublished
    <2>8. QED
      BY <2>3, <2>4, <2>6, <2>7 DEF IInv
  <1>4. ASSUME NEW r \in Relays, PublishEvent(r) PROVE IInv'
    <2> DEFINE e == NextEvent(r)
    <2>1. e \in left[r] /\ e \in OutboxEvents /\ e \in batch[r]
      BY <1>4, NextEventIsLeft DEF PublishEvent, IInv
    <2>2. /\ handed' = [handed EXCEPT ![e] = @ + 1]
          /\ left' = [left EXCEPT ![r] = @ \ {e}]
          /\ sent' = [sent EXCEPT ![r] = @ \union {e}]
          /\ UNCHANGED <<row, due, batch, refused, known, aborted, outboxFaults>>
          /\ ~aborted[r]
      BY <1>4 DEF PublishEvent
    <2> HIDE DEF e
    <2>3. OutboxTypeOK'
      BY <2>1, <2>2 DEF IInv, OutboxTypeOK
    <2>4. LocksOK'
      BY <2>1, <2>2 DEF IInv, OutboxTypeOK, LocksOK, Idle
    <2>5. handed[e] <= outboxFaults
      BY <2>1 DEF IInv, OutboxTypeOK, LocksOK, CountsOK
    <2>6. CountsOK'
      <3>1. \A q \in Relays : aborted[q] => q # r /\ e \notin batch[q]
        BY <2>1, <2>2 DEF IInv, LocksOK
      <3>2. QED
        BY <2>1, <2>2, <2>5, <3>1 DEF IInv, OutboxTypeOK, CountsOK
    <2>7. MarksOK'
      BY <2>1, <2>2 DEF IInv, OutboxTypeOK, MarksOK, MarkedWasPublished
    <2>8. QED
      BY <2>3, <2>4, <2>6, <2>7 DEF IInv
  <1>5. ASSUME NEW r \in Relays, MarkPublishedFails(r) PROVE IInv'
    <2> DEFINE e == NextEvent(r)
    <2>1. e \in left[r] /\ e \in OutboxEvents /\ e \in batch[r] /\ e \notin sent[r]
      BY <1>5, NextEventIsLeft DEF MarkPublishedFails, IInv, LocksOK
    <2>2. /\ handed' = [handed EXCEPT ![e] = @ + 1]
          /\ Rollback(r)
          /\ \/ ~aborted[r] /\ outboxFaults' = outboxFaults + 1 /\ outboxFaults < MaxOutboxFaults
             \/ aborted[r] /\ outboxFaults' = outboxFaults
      BY <1>5 DEF MarkPublishedFails, OutboxFault
    <2> HIDE DEF e
    <2>3. outboxFaults \in Nat /\ outboxFaults' \in 0 .. MaxOutboxFaults /\ outboxFaults <= outboxFaults' /\ outboxFaults' \in Nat
      BY <2>2 DEF IInv, OutboxTypeOK
    <2>4. OutboxTypeOK' /\ LocksOK'
      BY <2>1, <2>2, <2>3, RollbackKeepsTypesAndLocks DEF IInv, OutboxTypeOK
    <2>5. handed[e] + 1 <= outboxFaults'
      BY <2>1, <2>2, <2>3 DEF IInv, OutboxTypeOK, LocksOK, CountsOK
    <2>6. \A d \in sent[r] : handed[d] <= outboxFaults'
      BY <2>2, <2>3 DEF IInv, OutboxTypeOK, CountsOK
    <2>7. \A d \in OutboxEvents : handed'[d] = IF d = e THEN handed[d] + 1 ELSE handed[d]
      BY <2>1, <2>2 DEF IInv, OutboxTypeOK
    <2>8. \A q \in Relays \ {r} : e \notin batch[q]
      BY <2>1 DEF IInv, LocksOK
    <2>9. CountsOK'
      <3>1. /\ UNCHANGED row
            /\ \A q \in Relays : /\ left'[q] = IF q = r THEN {} ELSE left[q]
                                 /\ sent'[q] = IF q = r THEN {} ELSE sent[q]
                                 /\ aborted'[q] = IF q = r THEN FALSE ELSE aborted[q]
                                 /\ left[q] \subseteq batch[q] /\ batch[q] \subseteq OutboxEvents
                                 /\ sent[q] \subseteq batch[q]
        BY <2>2 DEF IInv, OutboxTypeOK, Rollback
      <3>2. \A d \in OutboxEvents : handed'[d] \in Nat /\ handed[d] \in Nat
        BY <2>4 DEF IInv, OutboxTypeOK
      <3>3. \A d \in OutboxEvents : handed'[d] <= 1 + outboxFaults'
        BY <2>3, <2>5, <2>7, <3>2 DEF IInv, CountsOK
      <3>4. \A d \in OutboxEvents :
              row'[d] # "published" /\ (\A q \in Relays : d \notin sent'[q])
                => handed'[d] <= outboxFaults'
        <4> SUFFICES ASSUME NEW d \in OutboxEvents, row[d] # "published",
                            \A q \in Relays \ {r} : d \notin sent[q]
                     PROVE  handed'[d] <= outboxFaults'
          BY <3>1
        <4>1. CASE d = e
          BY <4>1, <2>5, <2>7
        <4>2. CASE d # e /\ d \in sent[r]
          BY <4>2, <2>6, <2>7
        <4>3. CASE d # e /\ d \notin sent[r]
          <5>1. handed[d] <= outboxFaults
            BY <4>3 DEF IInv, CountsOK
          <5>2. handed'[d] = handed[d]
            BY <4>3, <2>7
          <5>3. handed[d] \in Nat /\ outboxFaults \in Nat /\ outboxFaults' \in Nat
            BY <2>3, <3>2
          <5>4. outboxFaults <= outboxFaults'
            BY <2>3
          <5>5. QED
            BY <5>1, <5>2, <5>3, <5>4
        <4>4. QED
          BY <4>1, <4>2, <4>3
      <3>5. \A q \in Relays : aborted'[q] =>
              /\ \A d \in sent'[q] : handed'[d] <= outboxFaults'
              /\ \A d \in left'[q] : handed'[d] + 1 <= outboxFaults'
        <4> SUFFICES ASSUME NEW q \in Relays, q # r, aborted[q]
                     PROVE  /\ \A d \in sent[q] : handed'[d] <= outboxFaults'
                            /\ \A d \in left[q] : handed'[d] + 1 <= outboxFaults'
          BY <3>1
        <4>1. /\ \A d \in sent[q] : d \in OutboxEvents /\ handed'[d] = handed[d]
              /\ \A d \in left[q] : d \in OutboxEvents /\ handed'[d] = handed[d]
          BY <2>7, <2>8, <3>1
        <4>2. /\ \A d \in sent[q] : handed[d] <= outboxFaults
              /\ \A d \in left[q] : handed[d] + 1 <= outboxFaults
          BY DEF IInv, CountsOK
        <4>3. ASSUME NEW d \in sent[q] PROVE handed'[d] <= outboxFaults'
          <5>1. /\ handed'[d] = handed[d] /\ handed[d] \in Nat
                /\ handed[d] <= outboxFaults
            BY <4>1, <4>2, <3>2
          <5>2. QED
            BY <5>1, <2>3
        <4>4. ASSUME NEW d \in left[q] PROVE handed'[d] + 1 <= outboxFaults'
          <5>1. /\ handed'[d] = handed[d] /\ handed[d] \in Nat
                /\ handed[d] + 1 <= outboxFaults
            BY <4>1, <4>2, <3>2
          <5>2. QED
            BY <5>1, <2>3
        <4>5. QED
          BY <4>3, <4>4
      <3>6. QED
        BY <3>3, <3>4, <3>5 DEF CountsOK
    <2>10. MarksOK'
      BY <2>1, <2>2, <2>7 DEF IInv, OutboxTypeOK, MarksOK, MarkedWasPublished, Rollback
    <2>11. QED
      BY <2>4, <2>9, <2>10 DEF IInv
  <1>6. ASSUME NEW r \in Relays, RefuseEvent(r) PROVE IInv'
    <2> DEFINE e == NextEvent(r)
    <2>1. e \in left[r] /\ e \in OutboxEvents /\ e \in batch[r]
      BY <1>6, NextEventIsLeft DEF RefuseEvent, IInv
    <2>2. /\ left' = [left EXCEPT ![r] = @ \ {e}]
          /\ \/ refused' = refused
             \/ refused' = [refused EXCEPT ![r] = @ \union {e}]
          /\ outboxFaults' = outboxFaults + 1 /\ outboxFaults < MaxOutboxFaults
          /\ UNCHANGED <<row, due, batch, sent, known, aborted, handed>>
      BY <1>6 DEF RefuseEvent, OutboxFault
    <2> HIDE DEF e
    <2>3. OutboxTypeOK'
      BY <2>1, <2>2 DEF IInv, OutboxTypeOK
    <2>4. LocksOK'
      BY <2>1, <2>2 DEF IInv, OutboxTypeOK, LocksOK, Idle
    <2>5. CountsOK' /\ MarksOK'
      BY <2>2 DEF IInv, OutboxTypeOK, CountsOK, MarksOK, MarkedWasPublished
    <2>6. QED
      BY <2>3, <2>4, <2>5 DEF IInv
  <1>7. ASSUME NEW r \in Relays, MarkFailedFails(r) PROVE IInv'
    <2> DEFINE e == NextEvent(r)
    <2>1. e \in left[r] /\ e \in OutboxEvents /\ e \in batch[r]
      BY <1>7, NextEventIsLeft DEF MarkFailedFails, IInv
    <2>2. /\ left' = [left EXCEPT ![r] = @ \ {e}]
          /\ aborted' = [aborted EXCEPT ![r] = TRUE]
          /\ outboxFaults' = outboxFaults + 1 /\ outboxFaults < MaxOutboxFaults
          /\ UNCHANGED <<row, due, batch, sent, refused, known, handed>>
      BY <1>7 DEF MarkFailedFails, OutboxFault
    <2> HIDE DEF e
    <2>3. OutboxTypeOK'
      BY <2>1, <2>2 DEF IInv, OutboxTypeOK
    <2>4. LocksOK'
      BY <2>1, <2>2 DEF IInv, OutboxTypeOK, LocksOK, Idle
    <2>5. \A d \in left[r] : handed[d] <= outboxFaults
      BY DEF IInv, OutboxTypeOK, LocksOK, CountsOK
    <2>6. CountsOK' /\ MarksOK'
      BY <2>2, <2>5 DEF IInv, OutboxTypeOK, CountsOK, MarksOK, MarkedWasPublished
    <2>7. QED
      BY <2>3, <2>4, <2>6 DEF IInv
  <1>8. ASSUME NEW r \in Relays, CommitBatch(r) PROVE IInv'
    <2>1. /\ \A e \in OutboxEvents : row'[e] = IF e \in sent[r] THEN "published"
                                          ELSE IF e \in refused[r] THEN "failed" ELSE row[e]
          /\ row' \in [OutboxEvents -> {"absent", "pending", "failed", "published"}]
          /\ due' = due \ refused[r]
          /\ batch' = [batch EXCEPT ![r] = {}]
          /\ sent' = [sent EXCEPT ![r] = {}]
          /\ refused' = [refused EXCEPT ![r] = {}]
          /\ known' = [known EXCEPT ![r] = {}]
          /\ left[r] = {} /\ ~aborted[r]
          /\ UNCHANGED <<left, aborted, handed, outboxFaults>>
      BY <1>8 DEF CommitBatch, IInv, OutboxTypeOK
    <2>2. OutboxTypeOK'
      BY <2>1 DEF IInv, OutboxTypeOK
    <2>3. LocksOK'
      BY <2>1 DEF IInv, OutboxTypeOK, LocksOK, Idle
    <2>4. CountsOK' /\ MarksOK'
      BY <2>1 DEF IInv, OutboxTypeOK, LocksOK, CountsOK, MarksOK, MarkedWasPublished
    <2>5. QED
      BY <2>2, <2>3, <2>4 DEF IInv
  <1>9. ASSUME NEW r \in Relays, CommitFails(r) PROVE IInv'
    BY <1>9, RollbackKeepsCounts DEF CommitFails
  <1>10. ASSUME NEW r \in Relays, RelayCrashes(r) PROVE IInv'
    BY <1>10, RollbackKeepsCounts DEF RelayCrashes
  <1>11. CASE UNCHANGED outboxVars
    BY <1>11 DEF outboxVars, IInv, OutboxTypeOK, LocksOK, CountsOK, MarksOK, MarkedWasPublished, Idle
  <1>12. QED
    BY <1>1, <1>2, <1>3, <1>4, <1>5, <1>6, <1>7, <1>8, <1>9, <1>10, <1>11 DEF OutboxNext

\* The invariant holds throughout.
LEMMA Invariance == OutboxSpec => []IInv
  BY InitIInv, NextIInv, PTL DEF OutboxSpec

-----------------------------------------------------------------------------

\* Every variable has its type, and the marks of a pass are part of its batch.
THEOREM OutboxTypeCorrect == OutboxSpec => []OutboxTypeOK
  <1>1. IInv => OutboxTypeOK
    BY DEF IInv
  <1>2. QED
    BY <1>1, Invariance, PTL

\* Any number of replicas of process publish an event again only after a
\* failure or a crash, at most once for each of them.
THEOREM RepeatsCostFailures == OutboxSpec => []RepeatsNeedFailure
  <1>1. IInv => RepeatsNeedFailure
    BY DEF IInv, CountsOK, RepeatsNeedFailure
  <1>2. QED
    BY <1>1, Invariance, PTL

\* No row says published of an event that process did not hand to NATS.
THEOREM MarkedEventsWerePublished == OutboxSpec => []MarkedWasPublished
  <1>1. IInv => MarkedWasPublished
    BY DEF IInv, MarksOK
  <1>2. QED
    BY <1>1, Invariance, PTL

-----------------------------------------------------------------------------

\* Handing the next event to NATS is a delivery of a committed event.
LEMMA PublishingDelivers ==
  ASSUME IInv, NEW r \in Relays, left[r] # {},
         handed' = [handed EXCEPT ![NextEvent(r)] = @ + 1],
         UNCHANGED row
  PROVE  Delivery!DeliveryNext
  <1>1. NextEvent(r) \in OutboxEvents /\ row[NextEvent(r)] # "absent"
    BY NextEventIsLeft DEF IInv, LocksOK
  <1>2. NextEvent(r) \in Committed /\ UNCHANGED Committed
    BY <1>1 DEF Committed
  <1>3. QED
    BY <1>1, <1>2 DEF Delivery!DeliveryNext, Delivery!Deliver

\* Every step of the relay is a step of the abstract delivery, or none.
LEMMA StepDelivers == IInv /\ [OutboxNext]_outboxVars => [Delivery!DeliveryNext]_(Delivery!deliveryVars)
  <1> SUFFICES ASSUME IInv, [OutboxNext]_outboxVars
               PROVE  Delivery!DeliveryNext \/ UNCHANGED <<Committed, handed>>
    BY DEF Delivery!deliveryVars
  <1>1. ASSUME NEW e \in OutboxEvents, Enqueue(e) PROVE Delivery!DeliveryNext
    <2>1. Committed' = Committed \union {e} /\ e \notin Committed /\ UNCHANGED handed
      BY <1>1 DEF Enqueue, Committed, IInv, OutboxTypeOK
    <2>2. QED
      BY <2>1 DEF Delivery!DeliveryNext, Delivery!Commit
  <1>2. ASSUME NEW e \in OutboxEvents, BackoffElapses(e) PROVE UNCHANGED <<Committed, handed>>
    BY <1>2 DEF BackoffElapses, Committed
  <1>3. ASSUME NEW r \in Relays, PublishEvent(r) \/ MarkPublishedFails(r)
        PROVE  Delivery!DeliveryNext
    BY <1>3, PublishingDelivers DEF PublishEvent, MarkPublishedFails, Rollback
  <1>4. ASSUME NEW r \in Relays, CommitBatch(r) PROVE UNCHANGED <<Committed, handed>>
    <2>1. \A e \in OutboxEvents : (row'[e] = "absent") = (row[e] = "absent")
      BY <1>4 DEF CommitBatch, IInv, OutboxTypeOK, LocksOK
    <2>2. QED
      BY <1>4, <2>1 DEF CommitBatch, Committed
  <1>5. ASSUME NEW r \in Relays,
               SelectBatch(r) \/ RefuseEvent(r) \/ MarkFailedFails(r) \/ CommitFails(r) \/ RelayCrashes(r)
        PROVE  UNCHANGED <<Committed, handed>>
    BY <1>5 DEF SelectBatch, RefuseEvent, MarkFailedFails, CommitFails, RelayCrashes, Rollback, Committed
  <1>6. CASE UNCHANGED outboxVars
    BY <1>6 DEF outboxVars, Committed
  <1>7. QED
    BY <1>1, <1>2, <1>3, <1>4, <1>5, <1>6 DEF OutboxNext

\* The relay implements the safety half of EventDelivery: process publishes
\* nothing that Enqueue or EnqueueTx has not committed, and loses no count.
THEOREM RelayImplementsDelivery == OutboxSpec => Delivery!DeliverySpec
  <1>1. OutboxInit => Delivery!DeliveryInit
    BY DEF OutboxInit, Committed, Delivery!DeliveryInit
  <1>2. QED
    BY <1>1, StepDelivers, Invariance, PTL DEF OutboxSpec, Delivery!DeliverySpec

\* The marks of process account for what it published, for any relays.
THEOREM MarksCount == OutboxSpec => []PublicationsAreCounted
  BY MarkedEventsWerePublished, RepeatsCostFailures, PTL DEF PublicationsAreCounted

-----------------------------------------------------------------------------
(* Order *)

\* Of a pass that can go on, every row is still to be handled or is marked.
HandledOK == \A r \in Relays : ~aborted[r] => batch[r] \subseteq left[r] \union sent[r] \union refused[r]

\* Every step keeps that.
LEMMA NextHandledOK ==
  IInv /\ HandledOK /\ [OutboxNext]_outboxVars => HandledOK'
  <1> SUFFICES ASSUME IInv, HandledOK, [OutboxNext]_outboxVars PROVE HandledOK'
    OBVIOUS
  <1>1. /\ batch \in [Relays -> SUBSET OutboxEvents] /\ left \in [Relays -> SUBSET OutboxEvents]
        /\ sent \in [Relays -> SUBSET OutboxEvents] /\ refused \in [Relays -> SUBSET OutboxEvents]
        /\ aborted \in [Relays -> BOOLEAN]
    BY DEF IInv, OutboxTypeOK
  <1>2. ASSUME NEW r \in Relays, SelectBatch(r) PROVE HandledOK'
    BY <1>1, <1>2 DEF SelectBatch, HandledOK
  <1>3. ASSUME NEW r \in Relays, PublishEvent(r) PROVE HandledOK'
    <2> DEFINE e == NextEvent(r)
    <2>1. /\ left' = [left EXCEPT ![r] = @ \ {e}] /\ sent' = [sent EXCEPT ![r] = @ \union {e}]
          /\ UNCHANGED <<batch, refused, aborted>>
      BY <1>3 DEF PublishEvent
    <2> HIDE DEF e
    <2>2. QED
      BY <1>1, <2>1 DEF HandledOK
  <1>4. ASSUME NEW r \in Relays, Rollback(r) PROVE HandledOK'
    BY <1>1, <1>4 DEF Rollback, HandledOK
  <1>5. ASSUME NEW r \in Relays, RefuseEvent(r) PROVE HandledOK'
    <2> DEFINE e == NextEvent(r)
    <2>1. /\ left' = [left EXCEPT ![r] = @ \ {e}]
          /\ refused' = IF aborted[r] THEN refused ELSE [refused EXCEPT ![r] = @ \union {e}]
          /\ UNCHANGED <<batch, sent, aborted>>
      BY <1>5 DEF RefuseEvent
    <2> HIDE DEF e
    <2>2. QED
      BY <1>1, <2>1 DEF HandledOK
  <1>6. ASSUME NEW r \in Relays, MarkFailedFails(r) PROVE HandledOK'
    <2> DEFINE e == NextEvent(r)
    <2>1. /\ left' = [left EXCEPT ![r] = @ \ {e}] /\ aborted' = [aborted EXCEPT ![r] = TRUE]
          /\ UNCHANGED <<batch, sent, refused>>
      BY <1>6 DEF MarkFailedFails
    <2> HIDE DEF e
    <2>2. QED
      BY <1>1, <2>1 DEF HandledOK
  <1>7. ASSUME NEW r \in Relays, CommitBatch(r) PROVE HandledOK'
    BY <1>1, <1>7 DEF CommitBatch, HandledOK
  <1>8. ASSUME UNCHANGED <<batch, left, sent, refused, aborted>> PROVE HandledOK'
    BY <1>8 DEF HandledOK
  <1>9. QED
    BY <1>2, <1>3, <1>4, <1>5, <1>6, <1>7, <1>8
    DEF OutboxNext, outboxVars, Enqueue, BackoffElapses, MarkPublishedFails, CommitFails, RelayCrashes

\* A pass holds the oldest of the rows that were due and free when it started.
BatchIsOldest == \A r \in Relays : batch[r] = Oldest(known[r])

\* Nobody changes a batch between its selection and the end of the pass.
LEMMA NextBatchIsOldest ==
  IInv /\ BatchIsOldest /\ [OutboxNext]_outboxVars => BatchIsOldest'
  <1> SUFFICES ASSUME IInv, BatchIsOldest, [OutboxNext]_outboxVars PROVE BatchIsOldest'
    OBVIOUS
  <1>1. /\ batch \in [Relays -> SUBSET OutboxEvents] /\ known \in [Relays -> SUBSET OutboxEvents]
    BY DEF IInv, OutboxTypeOK
  <1>2. ASSUME NEW r \in Relays, NEW S \in SUBSET OutboxEvents,
               batch' = [batch EXCEPT ![r] = Oldest(S)], known' = [known EXCEPT ![r] = S]
        PROVE  BatchIsOldest'
    BY <1>1, <1>2 DEF BatchIsOldest, Oldest
  <1>3. ASSUME NEW r \in Relays, batch' = [batch EXCEPT ![r] = {}], known' = [known EXCEPT ![r] = {}]
        PROVE  BatchIsOldest'
    <2>1. Oldest({}) = {}
      BY DEF Oldest
    <2>2. QED
      BY <1>2, <1>3, <2>1
  <1>4. ASSUME NEW r \in Relays, SelectBatch(r) PROVE BatchIsOldest'
    <2>1. Selectable \subseteq OutboxEvents
      BY DEF Selectable, IInv, OutboxTypeOK
    <2>2. QED
      BY <1>2, <1>4, <2>1 DEF SelectBatch
  <1>5. ASSUME NEW r \in Relays, Rollback(r) \/ CommitBatch(r) PROVE BatchIsOldest'
    BY <1>3, <1>5 DEF Rollback, CommitBatch
  <1>6. CASE UNCHANGED <<batch, known>>
    BY <1>6 DEF BatchIsOldest, Oldest
  <1>7. QED
    BY <1>4, <1>5, <1>6
    DEF OutboxNext, outboxVars, Enqueue, BackoffElapses, PublishEvent, MarkPublishedFails, RefuseEvent,
        MarkFailedFails, CommitFails, RelayCrashes

\* Of a set of events, what is older than one of the oldest is one of them.
LEMMA OldestIsClosed ==
  ASSUME NEW S \in SUBSET OutboxEvents, NEW e \in Oldest(S), NEW d \in S, d < e
  PROVE  d \in Oldest(S)
  <1> DEFINE Below(x) == {k \in S : k < x}
  <1>1. S \subseteq Nat /\ IsFiniteSet(S)
    BY FS_Subset
  <1>2. Below(d) \subseteq Below(e) /\ IsFiniteSet(Below(e))
    <2>1. d \in Nat /\ e \in Nat
      BY <1>1 DEF Oldest
    <2>2. \A k \in S : k < d => k < e
      BY <1>1, <2>1
    <2>3. IsFiniteSet(Below(e))
      BY <1>1, FS_Subset
    <2>4. QED
      BY <2>2, <2>3, Zenon
  <1>3. Cardinality(Below(d)) <= Cardinality(Below(e))
    BY <1>2, FS_Subset
  <1>4. /\ Cardinality(Below(d)) \in Nat /\ Cardinality(Below(e)) \in Nat
    BY <1>2, FS_Subset, FS_CardinalityType
  <1>5. Cardinality(Below(e)) < BatchLimit
    BY DEF Oldest
  <1>6. Cardinality(Below(d)) < BatchLimit
    BY <1>3, <1>4, <1>5
  <1>7. QED
    BY <1>6 DEF Oldest

\* A relay that publishes an event has handled every older one of its batch.
LEMMA PublishedInOrder ==
  ASSUME IInv, HandledOK, OutboxNext, NEW r \in Relays, NEW e \in OutboxEvents,
         handed'[e] > handed[e], e \in left[r], e \notin left'[r],
         NEW d \in batch[r], d < e, ~aborted[r]
  PROVE  d \in sent[r] \/ d \in refused[r]
  <1>1. /\ handed \in [OutboxEvents -> Nat] /\ left \in [Relays -> SUBSET OutboxEvents]
        /\ left[r] \subseteq Nat /\ batch[r] \subseteq OutboxEvents
    BY DEF IInv, OutboxTypeOK
  <1>2. handed' # handed
    BY <1>1
  <1>3. PICK q \in Relays : PublishEvent(q) \/ MarkPublishedFails(q)
    BY <1>2 DEF OutboxNext, Enqueue, BackoffElapses, SelectBatch, RefuseEvent, MarkFailedFails,
                CommitBatch, CommitFails, RelayCrashes
  <1>4. left[q] # {} /\ NextEvent(q) \in OutboxEvents /\ handed' = [handed EXCEPT ![NextEvent(q)] = @ + 1]
    BY <1>3, NextEventIsLeft DEF PublishEvent, MarkPublishedFails, IInv
  <1>5. e = NextEvent(q)
    BY <1>1, <1>4
  <1>6. q = r
    <2>1. \A S : q # r => [left EXCEPT ![q] = S][r] = left[r]
      BY <1>1
    <2>2. \E S : left' = [left EXCEPT ![q] = S]
      BY <1>3 DEF PublishEvent, MarkPublishedFails, Rollback
    <2>3. QED
      BY <2>1, <2>2
  <1>7. d \notin left[r]
    BY <1>1, <1>4, <1>5, <1>6, MinIsLeast DEF NextEvent
  <1>8. QED
    BY <1>7 DEF HandledOK

\* However many relays run, fail and crash, a relay that publishes an event has
\* published, or failed to publish, every older one that was due and free when it
\* read its batch.
THEOREM OrderIsKept == OutboxSpec => OvertakesOnlyBackoff
  <1> DEFINE Step == [\A r \in Relays, e \in OutboxEvents :
                        handed'[e] > handed[e] /\ e \in left[r] /\ e \notin left'[r] =>
                          \A d \in known[r] :
                            d < e => d \in sent[r] \/ d \in refused[r] \/ aborted[r]]_outboxVars
  <1>1. ASSUME IInv, HandledOK, BatchIsOldest, [OutboxNext]_outboxVars PROVE Step
    <2>1. SUFFICES ASSUME OutboxNext, NEW r \in Relays, NEW e \in OutboxEvents,
                          handed'[e] > handed[e], e \in left[r], e \notin left'[r],
                          NEW d \in known[r], d < e, ~aborted[r]
                   PROVE  d \in sent[r] \/ d \in refused[r]
      BY <1>1
    <2>2. known[r] \in SUBSET OutboxEvents /\ left[r] \subseteq batch[r]
      BY <1>1 DEF IInv, OutboxTypeOK
    <2>3. d \in batch[r]
      BY <1>1, <2>1, <2>2, OldestIsClosed DEF BatchIsOldest
    <2>4. QED
      BY <1>1, <2>1, <2>3, PublishedInOrder
  <1>2. OutboxInit => IInv /\ HandledOK /\ BatchIsOldest
    BY InitIInv DEF OutboxInit, HandledOK, BatchIsOldest, Oldest
  <1>3. QED
    BY <1>1, <1>2, NextIInv, NextHandledOK, NextBatchIsOldest, PTL DEF OutboxSpec, OvertakesOnlyBackoff
=============================================================================
