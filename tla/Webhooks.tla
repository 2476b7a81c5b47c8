------------------------------ MODULE Webhooks ------------------------------
(***************************************************************************)
(* The dispatchers of webhook-service. Each has two threads: the NATS      *)
(* callback inserts a delivery for every endpoint of the merchant and      *)
(* makes the first attempt; the ticker repeats those that are scheduled.   *)
(* Nothing is locked, the result of a statement is never looked at, and    *)
(* every dispatcher receives every message.                                *)
(***************************************************************************)
EXTENDS Naturals, FiniteSets

CONSTANTS Dispatchers, Endpoints,
          Messages,          \* publications on the bus: an event may have several
          Wants,             \* pairs of an endpoint and a message it accepts
          MaxRetries,        \* max_retries of an endpoint
          MaxWebhookFaults   \* bound on failures of the database and processes

ASSUME RetriesAssumption == MaxRetries \in Nat \ {0} /\ MaxWebhookFaults \in Nat
ASSUME DispatchersAssumption == IsFiniteSet(Dispatchers)

\* A callback inserts one delivery for a message and an endpoint.
Rows == Dispatchers \X Endpoints \X Messages
Attempts == 1 .. MaxRetries
Threads == Dispatchers \X {"bus", "ticker"}

VARIABLES broken,     \* endpoints whose secret cannot be decrypted; never changes
          delivery,   \* status and attempt of each row
          backoff,    \* rows whose next_retry_at lies ahead
          inbox,      \* messages NATS has brought to a dispatcher
          todo,       \* endpoints the callback has still to serve, with its message
          jobs,       \* rows of a thread's query, with the attempt it read
          active,     \* the row and attempt a thread is busy with
          reply,      \* what became of the post: none, accepted, refused, broken
          posts,      \* history: requests sent for a row, by attempt
          accepted,   \* history: rows whose receiver answered 2xx
          webhookFaults

webhookVars == <<broken, delivery, backoff, inbox, todo, jobs, active, reply, posts,
                 accepted, webhookFaults>>

Idling == [row |-> <<>>, attempt |-> 0]
Job == [row : Rows, attempt : Attempts]

WebhookFault ==
  /\ webhookFaults < MaxWebhookFaults
  /\ webhookFaults' = webhookFaults + 1

\* NATS brings a message to the dispatchers that are up when it is published.
WebhookInit ==
  /\ broken \in SUBSET Endpoints
  /\ delivery = [w \in Rows |-> [status |-> "absent", attempt |-> 1]]
  /\ backoff = {}
  /\ inbox \in [Dispatchers -> SUBSET Messages]
  /\ todo = [d \in Dispatchers |-> {}]
  /\ jobs = [t \in Threads |-> {}]
  /\ active = [t \in Threads |-> Idling]
  /\ reply = [t \in Threads |-> "none"]
  /\ posts = [w \in Rows |-> [a \in Attempts |-> 0]]
  /\ accepted = {}
  /\ webhookFaults = 0

\* Whether the events of an endpoint, read by handleIncoming, name a message.
EventAllowed(p, m) == <<p, m>> \in Wants

\* handleIncoming reads the endpoints of the merchant. What arrives while the
\* callback is busy waits.
HandleIncoming(d, m) ==
  /\ m \in inbox[d] /\ todo[d] = {} /\ active[<<d, "bus">>] = Idling
  /\ inbox' = [inbox EXCEPT ![d] = @ \ {m}]
  /\ todo' = [todo EXCEPT ![d] = {<<d, p, m>> : p \in {q \in Endpoints : EventAllowed(q, m)}}]
  /\ UNCHANGED <<broken, delivery, backoff, jobs, active, reply, posts, accepted, webhookFaults>>

\* A message that NATS does not bring: it keeps nothing for a subscriber that
\* is away or slow.
LoseMessage(d, m) ==
  /\ m \in inbox[d]
  /\ inbox' = [inbox EXCEPT ![d] = @ \ {m}]
  /\ UNCHANGED <<broken, delivery, backoff, todo, jobs, active, reply, posts, accepted, webhookFaults>>

\* The row of the next endpoint; an insert that fails changes nothing else.
InsertDelivery(d, w) ==
  /\ w \in todo[d] /\ active[<<d, "bus">>] = Idling
  /\ todo' = [todo EXCEPT ![d] = @ \ {w}]
  /\ active' = [active EXCEPT ![<<d, "bus">>] = [row |-> w, attempt |-> 1]]
  /\ \/ /\ delivery' = [delivery EXCEPT ![w] = [status |-> "pending", attempt |-> 1]]
        /\ UNCHANGED webhookFaults
     \/ WebhookFault /\ UNCHANGED delivery
  /\ UNCHANGED <<broken, backoff, inbox, jobs, reply, posts, accepted>>

Scheduled(w) == delivery[w].status = "scheduled"

\* Seeded fault of ProcessScheduled: pending rows and those given up are
\* taken as well.
ProcessUnfinished(d) ==
  LET t == <<d, "ticker">>
      S == {w \in Rows \ backoff : delivery[w].status \in {"pending", "scheduled", "failed"}}
  IN /\ active[t] = Idling /\ jobs[t] = {}
     /\ S # {}
     /\ jobs' = [jobs EXCEPT ![t] = {[row |-> w, attempt |-> delivery[w].attempt] : w \in S}]
     /\ UNCHANGED <<broken, delivery, backoff, inbox, todo, active, reply, posts, accepted, webhookFaults>>

\* Seeded fault of ProcessScheduled: the last attempt is not taken.
ProcessBelowLimit(d) ==
  LET t == <<d, "ticker">>
      S == {w \in Rows \ backoff : Scheduled(w) /\ delivery[w].attempt < MaxRetries}
  IN /\ active[t] = Idling /\ jobs[t] = {}
     /\ S # {}
     /\ jobs' = [jobs EXCEPT ![t] = {[row |-> w, attempt |-> delivery[w].attempt] : w \in S}]
     /\ UNCHANGED <<broken, delivery, backoff, inbox, todo, active, reply, posts, accepted, webhookFaults>>

\* The query of processScheduled; its rows are not locked, and the attempts
\* are those of this moment.
ProcessScheduled(d) ==
  LET t == <<d, "ticker">>
      S == {w \in Rows \ backoff : Scheduled(w)}
  IN /\ active[t] = Idling /\ jobs[t] = {}
     /\ S # {}
     /\ jobs' = [jobs EXCEPT ![t] = {[row |-> w, attempt |-> delivery[w].attempt] : w \in S}]
     /\ UNCHANGED <<broken, delivery, backoff, inbox, todo, active, reply, posts, accepted, webhookFaults>>

\* The next row of the query.
NextScheduled(t, j) ==
  /\ j \in jobs[t] /\ active[t] = Idling
  /\ jobs' = [jobs EXCEPT ![t] = @ \ {j}]
  /\ active' = [active EXCEPT ![t] = j]
  /\ UNCHANGED <<broken, delivery, backoff, inbox, todo, reply, posts, accepted, webhookFaults>>

\* The secret cannot be decrypted: nothing is sent.
DecryptFails(t) ==
  /\ active[t] # Idling /\ reply[t] = "none"
  /\ active[t].row[2] \in broken
  /\ reply' = [reply EXCEPT ![t] = "broken"]
  /\ UNCHANGED <<broken, delivery, backoff, inbox, todo, jobs, active, posts, accepted, webhookFaults>>

\* The request, and how it ended for the dispatcher: the receiver may have
\* accepted what comes back as an error or a timeout.
Post(t) ==
  LET j == active[t] IN
  /\ j # Idling /\ reply[t] = "none"
  /\ j.row[2] \notin broken
  /\ posts' = [posts EXCEPT ![j.row][j.attempt] = @ + 1]
  /\ \/ /\ accepted' = accepted \union {j.row}
        /\ reply' = [reply EXCEPT ![t] = "accepted"]
     \/ /\ UNCHANGED accepted
        /\ reply' = [reply EXCEPT ![t] = "refused"]
  /\ UNCHANGED <<broken, delivery, backoff, inbox, todo, jobs, active, webhookFaults>>

\* Seeded fault of Outcome: the attempt that is due is counted as made.
OutcomeEarly(a, r) ==
  IF r = "accepted" THEN [status |-> "delivered", attempt |-> a]
  ELSE IF r = "broken" \/ a + 2 > MaxRetries THEN [status |-> "failed", attempt |-> a]
  ELSE [status |-> "scheduled", attempt |-> a + 1]

\* Seeded fault of Outcome: one attempt too many is scheduled.
OutcomeBeyond(a, r) ==
  IF r = "accepted" THEN [status |-> "delivered", attempt |-> a]
  ELSE IF r = "broken" \/ a > MaxRetries THEN [status |-> "failed", attempt |-> a]
  ELSE [status |-> "scheduled", attempt |-> a + 1]

\* What deliverAndUpdate and scheduleFailure write after attempt a.
Outcome(a, r) ==
  IF r = "accepted" THEN [status |-> "delivered", attempt |-> a]
  ELSE IF r = "broken" \/ a + 1 > MaxRetries THEN [status |-> "failed", attempt |-> a]
  ELSE [status |-> "scheduled", attempt |-> a + 1]

\* The update at the end of an attempt, whatever the row has become since.
UpdateDelivery(t) ==
  LET j == active[t]
      o == Outcome(j.attempt, reply[t])
  IN
  /\ j # Idling /\ reply[t] # "none"
  /\ active' = [active EXCEPT ![t] = Idling]
  /\ reply' = [reply EXCEPT ![t] = "none"]
  /\ IF delivery[j.row].status = "absent"
       THEN UNCHANGED <<delivery, backoff>>
       ELSE /\ delivery' = [delivery EXCEPT ![j.row] =
                              IF o.status = "scheduled" THEN o ELSE [@ EXCEPT !.status = o.status]]
            /\ backoff' = IF o.status = "scheduled" THEN backoff \union {j.row} ELSE backoff
  /\ UNCHANGED <<broken, inbox, todo, jobs, posts, accepted, webhookFaults>>

\* The update fails, and nobody notices.
UpdateLost(t) ==
  /\ active[t] # Idling /\ reply[t] # "none"
  /\ WebhookFault
  /\ active' = [active EXCEPT ![t] = Idling]
  /\ reply' = [reply EXCEPT ![t] = "none"]
  /\ UNCHANGED <<broken, delivery, backoff, inbox, todo, jobs, posts, accepted>>

\* The process dies with what its two threads were doing and with the
\* messages NATS had brought it.
DispatcherCrashes(d) ==
  /\ WebhookFault
  /\ \E t \in Threads : t[1] = d /\ (active[t] # Idling \/ jobs[t] # {} \/ todo[d] # {})
  /\ inbox' = [inbox EXCEPT ![d] = {}]
  /\ todo' = [todo EXCEPT ![d] = {}]
  /\ jobs' = [t \in Threads |-> IF t[1] = d THEN {} ELSE jobs[t]]
  /\ active' = [t \in Threads |-> IF t[1] = d THEN Idling ELSE active[t]]
  /\ reply' = [t \in Threads |-> IF t[1] = d THEN "none" ELSE reply[t]]
  /\ UNCHANGED <<broken, delivery, backoff, posts, accepted>>

\* next_retry_at passes.
RetryIsDue(w) ==
  /\ w \in backoff
  /\ backoff' = backoff \ {w}
  /\ UNCHANGED <<broken, delivery, inbox, todo, jobs, active, reply, posts, accepted, webhookFaults>>

\* deliverAndUpdate, without a failure of its statements.
DeliverAndUpdate(t) == DecryptFails(t) \/ Post(t) \/ UpdateDelivery(t)

WebhookNext ==
  \/ \E d \in Dispatchers :
       \/ \E m \in Messages : HandleIncoming(d, m) \/ LoseMessage(d, m)
       \/ \E w \in todo[d] : InsertDelivery(d, w)
       \/ ProcessScheduled(d) \/ DispatcherCrashes(d)
  \/ \E t \in Threads :
       \/ \E j \in jobs[t] : NextScheduled(t, j)
       \/ DeliverAndUpdate(t) \/ UpdateLost(t)
  \/ \E w \in Rows : RetryIsDue(w)

WebhookSpec == WebhookInit /\ [][WebhookNext]_webhookVars

\* What a ticker does when it is not held up by a failure.
Tick(d) ==
  LET t == <<d, "ticker">> IN
  \/ ProcessScheduled(d)
  \/ DeliverAndUpdate(t)
  \/ \E j \in jobs[t] : NextScheduled(t, j)

\* The ticker of a dispatcher that is up runs again and again, requests end
\* with the timeout, and time passes.
WebhookFairness ==
  /\ \A d \in Dispatchers : WF_webhookVars(Tick(d))
  /\ WF_webhookVars(\E w \in Rows : RetryIsDue(w))

-----------------------------------------------------------------------------
\* Every variable has its type.
WebhookTypeOK ==
  /\ broken \subseteq Endpoints
  /\ delivery \in [Rows -> [status : {"absent", "pending", "scheduled", "delivered", "failed"},
                            attempt : Attempts]]
  /\ backoff \subseteq Rows
  /\ inbox \in [Dispatchers -> SUBSET Messages]
  /\ todo \in [Dispatchers -> SUBSET Rows]
  /\ jobs \in [Threads -> SUBSET Job]
  /\ active \in [Threads -> Job \union {Idling}]
  /\ reply \in [Threads -> {"none", "accepted", "refused", "broken"}]
  /\ posts \in [Rows -> [Attempts -> Nat]]
  /\ accepted \subseteq Rows
  /\ webhookFaults \in 0 .. MaxWebhookFaults

\* However the threads of all dispatchers meet, an attempt is made at most
\* once by each dispatcher for every attempt before it, and once more for a
\* result that was not stored.
AttemptsBounded ==
  \A w \in Rows, a \in Attempts :
    posts[w][a] <= IF a = 1 THEN 1
                   ELSE Cardinality(Dispatchers) * posts[w][a - 1] + webhookFaults

\* A delivery is given up only when all max_retries attempts were made, or
\* when nothing can be signed for its endpoint.
GivesUpAfterMaxRetries ==
  \A w \in Rows : delivery[w].status = "failed" =>
    w[2] \in broken \/ \A a \in Attempts : posts[w][a] > 0

\* What is stored as delivered was accepted by its receiver.
DeliveredWasAccepted ==
  \A w \in Rows : delivery[w].status = "delivered" => w \in accepted

\* A delivery stays pending with nobody at work on it, where no query selects
\* it any more, only if a failure or a crash cost it its update.
StrandedCostsFailure ==
  Cardinality({w \in Rows : /\ delivery[w].status = "pending"
                            /\ \A t \in Threads : active[t].row # w})
    <= webhookFaults

\* What the status of a delivery says has happened, and pending means that
\* somebody is at work, failures apart.
StatusIsTrue == GivesUpAfterMaxRetries /\ DeliveredWasAccepted /\ StrandedCostsFailure

\* A scheduled delivery is delivered or given up in the end, though two
\* dispatchers may schedule it again behind each other's back.
ScheduledEnds ==
  \A w \in Rows : Scheduled(w) ~> delivery[w].status \in {"delivered", "failed"}
=============================================================================
