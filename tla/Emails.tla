------------------------------- MODULE Emails -------------------------------
(***************************************************************************)
(* The dispatchers of email-service. An event reaches a dispatcher twice,  *)
(* over NATS and by its poll of the newest rows of the outbox, published   *)
(* or not; whoever inserts the notification of a recipient sends the mail, *)
(* once, and whatever becomes of it nobody else will. Events are numbered  *)
(* in the order of created_at.                                             *)
(***************************************************************************)
EXTENDS Naturals, FiniteSets, EventDelivery

CONSTANTS Mailers,            \* email dispatchers
          Recipients,         \* who is written to about an event
          PollLimit,          \* LIMIT of the outbox query
          MaxMailPublications,\* bound on publications of an event
          MaxMailFaults       \* bound on failures of database, provider, process

ASSUME PollAssumption ==
  Events \subseteq Nat /\ PollLimit \in Nat /\ MaxMailFaults \in Nat /\ MaxMailPublications \in Nat

MailThreads == Mailers \X {"bus", "poll"}

\* A notification: UNIQUE (event_id, template, recipient), where the type of
\* the event determines the template.
Notifications == {<<e, a>> : e \in Events, a \in UNION {Recipients[d] : d \in Events}}

VARIABLES notification,  \* status of each row of email_notifications
          arrived,       \* messages NATS has brought to a mailer
          window,        \* events of a thread not yet handled
          addressees,    \* notifications of its event not yet dispatched
          writing,       \* the notification it has reserved
          sending,       \* what the provider answered: none, ok, error
          mails,         \* history: mails the provider took
          mailFaults

mailVars == <<notification, arrived, window, addressees, writing, sending, mails, mailFaults>>
emailVars == <<deliveryVars, mailVars>>

MailFault ==
  /\ mailFaults < MaxMailFaults
  /\ mailFaults' = mailFaults + 1

EmailInit ==
  /\ DeliveryInit
  /\ notification = [k \in Notifications |-> "absent"]
  /\ arrived = [d \in Mailers |-> {}]
  /\ window = [t \in MailThreads |-> {}]
  /\ addressees = [t \in MailThreads |-> {}]
  /\ writing = [t \in MailThreads |-> <<>>]
  /\ sending = [t \in MailThreads |-> "none"]
  /\ mails = [k \in Notifications |-> 0]
  /\ mailFaults = 0

CommitEvent(e) == Commit(e) /\ UNCHANGED mailVars

\* The relay publishes e; NATS brings it to some of the mailers, and to none
\* that is away.
Publish(e) ==
  /\ publications[e] < MaxMailPublications
  /\ Deliver(e)
  /\ \E S \in SUBSET Mailers :
       arrived' = [d \in Mailers |-> IF d \in S THEN arrived[d] \union {e} ELSE arrived[d]]
  /\ UNCHANGED <<notification, window, addressees, writing, sending, mails, mailFaults>>

Resting(t) == writing[t] = <<>> /\ addressees[t] = {}

\* The callback takes the next message.
TakeMessage(d, e) ==
  /\ e \in arrived[d] /\ Resting(<<d, "bus">>) /\ window[<<d, "bus">>] = {}
  /\ arrived' = [arrived EXCEPT ![d] = @ \ {e}]
  /\ window' = [window EXCEPT ![<<d, "bus">>] = {e}]
  /\ UNCHANGED <<notification, addressees, writing, sending, mails, mailFaults, deliveryVars>>

\* Seeded fault of Newest: only events that were never published are polled.
NewestUnpublished ==
  {e \in committed : publications[e] = 0
     /\ Cardinality({d \in committed : d > e /\ publications[d] = 0}) < PollLimit}

\* The rows that the query of dispatchOutboxEvents returns.
Newest == {e \in committed : Cardinality({d \in committed : d > e}) < PollLimit}

DispatchOutboxEvents(d) ==
  /\ Resting(<<d, "poll">>) /\ window[<<d, "poll">>] = {}
  /\ window' = [window EXCEPT ![<<d, "poll">>] = Newest]
  /\ UNCHANGED <<notification, arrived, addressees, writing, sending, mails, mailFaults, deliveryVars>>

\* loadPaymentContext and uniqueEmails: the customer and the first administrator
\* of the merchant, one mail if they are the same, none to somebody unknown.
Addressees(e) == {<<e, a>> : a \in Recipients[e]}

\* handleIncoming finds out whom to write to; when the context of the payment
\* cannot be loaded it does nothing.
HandleEvent(t, e) ==
  /\ e \in window[t] /\ Resting(t)
  /\ window' = [window EXCEPT ![t] = @ \ {e}]
  /\ \/ /\ addressees' = [addressees EXCEPT ![t] = Addressees(e)]
        /\ UNCHANGED mailFaults
     \/ MailFault /\ UNCHANGED addressees
  /\ UNCHANGED <<notification, arrived, writing, sending, mails, deliveryVars>>

\* Seeded fault of ReserveNotification: that the row exists is overlooked.
ReserveAlways(t, k) ==
  /\ k \in addressees[t] /\ writing[t] = <<>>
  /\ notification' = [notification EXCEPT ![k] = IF @ = "absent" THEN "pending" ELSE @]
  /\ writing' = [writing EXCEPT ![t] = k]
  /\ addressees' = [addressees EXCEPT ![t] = @ \ {k}]
  /\ UNCHANGED <<arrived, window, sending, mails, mailFaults, deliveryVars>>

\* INSERT ... ON CONFLICT DO NOTHING: who inserts the row will send the mail.
ReserveNotification(t, k) ==
  /\ k \in addressees[t] /\ writing[t] = <<>>
  /\ IF notification[k] = "absent"
       THEN /\ notification' = [notification EXCEPT ![k] = "pending"]
            /\ writing' = [writing EXCEPT ![t] = k]
       ELSE UNCHANGED <<notification, writing>>
  /\ addressees' = [addressees EXCEPT ![t] = @ \ {k}]
  /\ UNCHANGED <<arrived, window, sending, mails, mailFaults, deliveryVars>>

\* The reservation fails, perhaps after it took effect: dispatch returns and
\* leaves the other recipients.
ReserveFails(t, k) ==
  /\ k \in addressees[t] /\ writing[t] = <<>>
  /\ MailFault
  /\ addressees' = [addressees EXCEPT ![t] = {}]
  /\ \/ UNCHANGED notification
     \/ /\ notification[k] = "absent"
        /\ notification' = [notification EXCEPT ![k] = "pending"]
  /\ UNCHANGED <<arrived, window, writing, sending, mails, deliveryVars>>

\* The provider takes the mail; that the answer is an error all the same, as
\* when it comes after the timeout, is a failure, and so is a refusal.
Send(t) ==
  /\ writing[t] # <<>> /\ sending[t] = "none"
  /\ \/ /\ mails' = [mails EXCEPT ![writing[t]] = @ + 1]
        /\ \/ sending' = [sending EXCEPT ![t] = "ok"] /\ UNCHANGED mailFaults
           \/ sending' = [sending EXCEPT ![t] = "error"] /\ MailFault
     \/ /\ UNCHANGED mails
        /\ sending' = [sending EXCEPT ![t] = "error"] /\ MailFault
  /\ UNCHANGED <<notification, arrived, window, addressees, writing, deliveryVars>>

\* What markNotificationSent or markNotificationFailed writes.
Mark(t) == IF sending[t] = "ok" THEN "sent" ELSE "failed"

MarkNotification(t) ==
  /\ writing[t] # <<>> /\ sending[t] # "none"
  /\ writing' = [writing EXCEPT ![t] = <<>>]
  /\ sending' = [sending EXCEPT ![t] = "none"]
  /\ \/ /\ notification' = [notification EXCEPT ![writing[t]] = Mark(t)]
        /\ UNCHANGED mailFaults
     \/ MailFault /\ UNCHANGED notification
  /\ UNCHANGED <<arrived, window, addressees, mails, deliveryVars>>

\* The process dies, with the messages NATS had brought it.
MailerCrashes(d) ==
  /\ MailFault
  /\ \E t \in MailThreads : t[1] = d /\ ~(Resting(t) /\ window[t] = {})
  /\ arrived' = [arrived EXCEPT ![d] = {}]
  /\ window' = [t \in MailThreads |-> IF t[1] = d THEN {} ELSE window[t]]
  /\ addressees' = [t \in MailThreads |-> IF t[1] = d THEN {} ELSE addressees[t]]
  /\ writing' = [t \in MailThreads |-> IF t[1] = d THEN <<>> ELSE writing[t]]
  /\ sending' = [t \in MailThreads |-> IF t[1] = d THEN "none" ELSE sending[t]]
  /\ UNCHANGED <<notification, mails, deliveryVars>>

\* The steps of a thread that is at work.
Handle(t) ==
  \/ \E e \in window[t] : HandleEvent(t, e)
  \/ \E k \in addressees[t] : ReserveNotification(t, k)
  \/ Send(t) \/ MarkNotification(t)

EmailNext ==
  \/ \E e \in Events : CommitEvent(e) \/ Publish(e)
  \/ \E d \in Mailers :
       \/ \E e \in arrived[d] : TakeMessage(d, e)
       \/ DispatchOutboxEvents(d) \/ MailerCrashes(d)
  \/ \E t \in MailThreads : Handle(t) \/ \E k \in addressees[t] : ReserveFails(t, k)

EmailSpec == EmailInit /\ [][EmailNext]_emailVars

\* The ticker of every mailer goes on, and requests end. Nothing is assumed of
\* the relay or of NATS.
EmailFairness ==
  /\ \A d \in Mailers : WF_emailVars(DispatchOutboxEvents(d))
  /\ \A t \in MailThreads : WF_emailVars(Handle(t))

-----------------------------------------------------------------------------
\* Every variable has its type.
EmailTypeOK ==
  /\ committed \subseteq Events
  /\ publications \in [Events -> Nat]
  /\ notification \in [Notifications -> {"absent", "pending", "sent", "failed"}]
  /\ arrived \in [Mailers -> SUBSET Events]
  /\ window \in [MailThreads -> SUBSET Events]
  /\ addressees \in [MailThreads -> SUBSET Notifications]
  /\ writing \in [MailThreads -> Notifications \union {<<>>}]
  /\ sending \in [MailThreads -> {"none", "ok", "error"}]
  /\ mails \in [Notifications -> Nat]
  /\ mailFaults \in 0 .. MaxMailFaults

\* Whoever handles an event, over the bus or by polling, however often it is
\* published and whatever fails: nobody gets the same mail twice.
AtMostOneMail == \A k \in Notifications : mails[k] <= 1

\* A notification says sent only if the provider took the mail.
SentWasMailed ==
  \A k \in Notifications : notification[k] = "sent" => mails[k] = 1

\* A notification that is reserved stays without its mail, when nobody works
\* on it, only if a failure cost it, or a crash with what both threads held.
UnmailedCostsFailure ==
  Cardinality({k \in Notifications :
                 /\ notification[k] # "absent" /\ mails[k] = 0
                 /\ \A t \in MailThreads : writing[t] # k})
    <= 2 * mailFaults

\* A reservation stands for one mail: never for more, for exactly one when it
\* says sent, and for none only after a failure.
MailsAreCounted == AtMostOneMail /\ SentWasMailed /\ UnmailedCostsFailure

\* The durable half: without any help of NATS, everybody concerned by an event
\* is reserved a mail, unless newer events push it out of the poll first.
CommittedIsReserved ==
  \A e \in Events :
    e \in committed ~> \/ \A a \in Recipients[e] : notification[<<e, a>>] # "absent"
                       \/ Cardinality({d \in committed : d > e}) >= PollLimit
=============================================================================
