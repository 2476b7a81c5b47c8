---------------------------- MODULE OutboxRelay ----------------------------
(***************************************************************************)
(* The outbox table and the replicas of outbox-relay-service that empty    *)
(* it. A pass is one transaction: it locks the due rows that nobody else   *)
(* has locked, publishes each of them and marks it, and commits the marks  *)
(* at the end. What was published before a rollback is published again.    *)
(* Events are numbered in the order of created_at.                         *)
(***************************************************************************)
EXTENDS Naturals, FiniteSets, FiniteSetsExt

CONSTANTS OutboxEvents,    \* a set of numbers, the order of created_at
          Relays,          \* replicas of the relay
          BatchLimit,      \* LIMIT of the query
          MaxOutboxFaults  \* bound on failures of NATS, the database and processes

ASSUME EventsAssumption == OutboxEvents \subseteq Nat /\ IsFiniteSet(OutboxEvents)
ASSUME BoundAssumption == BatchLimit \in Nat \ {0} /\ MaxOutboxFaults \in Nat

VARIABLES row,      \* status of the row of an event
          due,      \* events with available_at <= NOW()
          batch,    \* rows a relay has locked
          left,     \* those of its batch it has not yet handled
          sent,     \* marked published in its open transaction
          refused,  \* marked failed in its open transaction
          known,    \* history: rows that were due and free when the batch was read
          aborted,  \* a statement of its transaction has failed
          handed,   \* history: how often an event was handed to NATS
          outboxFaults

outboxVars == <<row, due, batch, left, sent, refused, known, aborted, handed, outboxFaults>>

Idle(r) == batch[r] = {}
Committed == {e \in OutboxEvents : row[e] # "absent"}
Locked == UNION {batch[r] : r \in Relays}

OutboxFault ==
  /\ outboxFaults < MaxOutboxFaults
  /\ outboxFaults' = outboxFaults + 1

OutboxInit ==
  /\ row = [e \in OutboxEvents |-> "absent"]
  /\ due = OutboxEvents
  /\ batch = [r \in Relays |-> {}]
  /\ left = [r \in Relays |-> {}]
  /\ sent = [r \in Relays |-> {}]
  /\ refused = [r \in Relays |-> {}]
  /\ known = [r \in Relays |-> {}]
  /\ aborted = [r \in Relays |-> FALSE]
  /\ handed = [e \in OutboxEvents |-> 0]
  /\ outboxFaults = 0

\* Enqueue, or the commit of a transaction that called EnqueueTx. Rows may
\* become visible in another order than that of created_at.
Enqueue(e) ==
  /\ row[e] = "absent"
  /\ row' = [row EXCEPT ![e] = "pending"]
  /\ UNCHANGED <<due, batch, left, sent, refused, known, aborted, handed, outboxFaults>>

Selectable == {e \in due : row[e] \in {"pending", "failed"}} \ Locked

\* Seeded fault of Oldest: ORDER BY created_at DESC.
NewestFirst(S) ==
  {e \in S : Cardinality({d \in S : d > e}) < BatchLimit}

\* The first rows of a set, by created_at.
Oldest(S) ==
  {e \in S : Cardinality({d \in S : d < e}) < BatchLimit}

\* Seeded fault of SelectBatch: rows that another relay has locked are read.
SelectBatchUnlocked(r) ==
  /\ Idle(r)
  /\ LET S == {e \in due : row[e] \in {"pending", "failed"}} IN
       /\ S # {}
       /\ batch' = [batch EXCEPT ![r] = Oldest(S)]
       /\ left' = [left EXCEPT ![r] = Oldest(S)]
  /\ known' = [known EXCEPT ![r] = Selectable]
  /\ UNCHANGED <<row, due, sent, refused, aborted, handed, outboxFaults>>

\* The query of process: FOR UPDATE SKIP LOCKED, ORDER BY created_at, LIMIT.
SelectBatch(r) ==
  /\ Idle(r)
  /\ Selectable # {}
  /\ batch' = [batch EXCEPT ![r] = Oldest(Selectable)]
  /\ left' = [left EXCEPT ![r] = Oldest(Selectable)]
  /\ known' = [known EXCEPT ![r] = Selectable]
  /\ UNCHANGED <<row, due, sent, refused, aborted, handed, outboxFaults>>

\* The event a relay handles next.
NextEvent(r) == Min(left[r])

\* The transaction ends without effect; its row locks are released.
Rollback(r) ==
  /\ batch' = [batch EXCEPT ![r] = {}]
  /\ left' = [left EXCEPT ![r] = {}]
  /\ sent' = [sent EXCEPT ![r] = {}]
  /\ refused' = [refused EXCEPT ![r] = {}]
  /\ known' = [known EXCEPT ![r] = {}]
  /\ aborted' = [aborted EXCEPT ![r] = FALSE]
  /\ UNCHANGED <<row, due>>

\* Publish succeeds and the row is marked published.
PublishEvent(r) ==
  /\ left[r] # {} /\ ~aborted[r]
  /\ handed' = [handed EXCEPT ![NextEvent(r)] = @ + 1]
  /\ left' = [left EXCEPT ![r] = @ \ {NextEvent(r)}]
  /\ sent' = [sent EXCEPT ![r] = @ \union {NextEvent(r)}]
  /\ UNCHANGED <<row, due, batch, refused, known, aborted, outboxFaults>>

\* Publish succeeds and the mark fails: process returns.
MarkPublishedFails(r) ==
  /\ left[r] # {}
  /\ handed' = [handed EXCEPT ![NextEvent(r)] = @ + 1]
  /\ Rollback(r)
  /\ IF aborted[r] THEN UNCHANGED outboxFaults ELSE OutboxFault

\* Publish fails: the row is marked failed, to be due again after a back-off.
\* In an aborted transaction nothing is marked and process goes on.
RefuseEvent(r) ==
  /\ left[r] # {}
  /\ OutboxFault
  /\ left' = [left EXCEPT ![r] = @ \ {NextEvent(r)}]
  /\ refused' = IF aborted[r] THEN refused
                ELSE [refused EXCEPT ![r] = @ \union {NextEvent(r)}]
  /\ UNCHANGED <<row, due, batch, sent, known, aborted, handed>>

\* Publish fails and so does the mark: process logs it and goes on with a
\* transaction in which every further statement fails.
MarkFailedFails(r) ==
  /\ left[r] # {} /\ ~aborted[r]
  /\ OutboxFault
  /\ left' = [left EXCEPT ![r] = @ \ {NextEvent(r)}]
  /\ aborted' = [aborted EXCEPT ![r] = TRUE]
  /\ UNCHANGED <<row, due, batch, sent, refused, known, handed>>

\* Seeded fault of CommitBatch: what could not be published is marked too.
CommitAllAsPublished(r) ==
  /\ ~Idle(r) /\ left[r] = {} /\ ~aborted[r]
  /\ row' = [e \in OutboxEvents |-> IF e \in batch[r] THEN "published" ELSE row[e]]
  /\ batch' = [batch EXCEPT ![r] = {}]
  /\ sent' = [sent EXCEPT ![r] = {}]
  /\ refused' = [refused EXCEPT ![r] = {}]
  /\ known' = [known EXCEPT ![r] = {}]
  /\ UNCHANGED <<due, left, aborted, handed, outboxFaults>>

\* The commit at the end of the pass.
CommitBatch(r) ==
  /\ ~Idle(r) /\ left[r] = {} /\ ~aborted[r]
  /\ row' = [e \in OutboxEvents |-> IF e \in sent[r] THEN "published"
                             ELSE IF e \in refused[r] THEN "failed" ELSE row[e]]
  /\ due' = due \ refused[r]
  /\ batch' = [batch EXCEPT ![r] = {}]
  /\ sent' = [sent EXCEPT ![r] = {}]
  /\ refused' = [refused EXCEPT ![r] = {}]
  /\ known' = [known EXCEPT ![r] = {}]
  /\ UNCHANGED <<left, aborted, handed, outboxFaults>>

\* The commit is refused, as it always is in an aborted transaction.
CommitFails(r) ==
  /\ ~Idle(r) /\ left[r] = {}
  /\ Rollback(r)
  /\ IF aborted[r] THEN UNCHANGED outboxFaults ELSE OutboxFault
  /\ UNCHANGED handed

\* The process dies; the server rolls its transaction back.
RelayCrashes(r) ==
  /\ ~Idle(r)
  /\ OutboxFault
  /\ Rollback(r)
  /\ UNCHANGED handed

\* The back-off of a failed row has passed.
BackoffElapses(e) ==
  /\ row[e] = "failed" /\ e \notin due
  /\ due' = due \union {e}
  /\ UNCHANGED <<row, batch, left, sent, refused, known, aborted, handed, outboxFaults>>

\* The steps of a pass that need no failure.
Pass(r) ==
  \/ SelectBatch(r) \/ PublishEvent(r) \/ CommitBatch(r)
  \/ aborted[r] /\ (MarkPublishedFails(r) \/ CommitFails(r))

OutboxNext ==
  \/ \E e \in OutboxEvents : Enqueue(e) \/ BackoffElapses(e)
  \/ \E r \in Relays :
       \/ SelectBatch(r) \/ PublishEvent(r) \/ MarkPublishedFails(r)
       \/ RefuseEvent(r) \/ MarkFailedFails(r)
       \/ CommitBatch(r) \/ CommitFails(r) \/ RelayCrashes(r)

OutboxSpec == OutboxInit /\ [][OutboxNext]_outboxVars

\* The ticker of every relay starts pass after pass, and time passes.
OutboxFairness ==
  /\ \A r \in Relays : WF_outboxVars(Pass(r))
  /\ WF_outboxVars(\E e \in OutboxEvents : BackoffElapses(e))

-----------------------------------------------------------------------------
\* Every variable has its type, and a relay's marks are part of its batch.
OutboxTypeOK ==
  /\ row \in [OutboxEvents -> {"absent", "pending", "failed", "published"}]
  /\ due \subseteq OutboxEvents
  /\ batch \in [Relays -> SUBSET OutboxEvents]
  /\ left \in [Relays -> SUBSET OutboxEvents]
  /\ sent \in [Relays -> SUBSET OutboxEvents]
  /\ refused \in [Relays -> SUBSET OutboxEvents]
  /\ known \in [Relays -> SUBSET OutboxEvents]
  /\ aborted \in [Relays -> BOOLEAN]
  /\ handed \in [OutboxEvents -> Nat]
  /\ outboxFaults \in 0 .. MaxOutboxFaults
  /\ \A r \in Relays : left[r] \union sent[r] \union refused[r] \subseteq batch[r]

\* However many relays run, an event is published again only when a failure
\* or a crash cost somebody its transaction: the row locks of process keep two
\* relays apart, and no row is selected once its mark is committed.
RepeatsNeedFailure == \A e \in OutboxEvents : handed[e] <= 1 + outboxFaults

\* A row is marked published only when its event has been published.
MarkedWasPublished ==
  \A e \in OutboxEvents : row[e] = "published" => handed[e] > 0

\* The marks of process account for its publications: none without one, and
\* none twice without a failure.
PublicationsAreCounted == MarkedWasPublished /\ RepeatsNeedFailure

\* When a relay publishes an event, it has handled every older one that was due
\* and locked by nobody when it read its batch: published it in this pass, or tried
\* to and failed, so that it backs off or, if not even that could be written, the
\* whole pass is rolled back.  Neither the LIMIT nor rows that other relays lock,
\* commit or enqueue meanwhile let a newer event past an older one.
OvertakesOnlyBackoff ==
  [][\A r \in Relays, e \in OutboxEvents :
       handed'[e] > handed[e] /\ e \in left[r] /\ e \notin left'[r] =>
         \A d \in known[r] :
           d < e => d \in sent[r] \/ d \in refused[r] \/ aborted[r]]_outboxVars

\* The relay implements the promise of the outbox.
Delivery == INSTANCE EventDelivery
              WITH Events <- OutboxEvents, committed <- Committed, publications <- handed
ImplementsDelivery == Delivery!FairDeliverySpec
=============================================================================
