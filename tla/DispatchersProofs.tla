------------------------- MODULE DispatchersProofs -------------------------
(***************************************************************************)
(* Proofs about Emails, Webhooks and MockTransfers, the subscribers of the *)
(* bus, for any number of dispatchers, events and failures: nobody gets a  *)
(* mail twice, a delivery is delivered or given up only for a reason, a    *)
(* transfer is confirmed only as it was asked for, and what is lost or     *)
(* repeated is paid for by a failure.                                      *)
(***************************************************************************)
EXTENDS Webhooks, Emails, MockTransfers, FiniteSetTheorems, TLAPS

USE PollAssumption, RetriesAssumption, DispatchersAssumption

-----------------------------------------------------------------------------
(* Sets that grow *)

\* A set that grows by at most one element stays finite.
LEMMA OneMore ==
  ASSUME NEW S, NEW T, NEW x, IsFiniteSet(S), T \subseteq S \cup {x}
  PROVE  /\ IsFiniteSet(T) /\ Cardinality(S) \in Nat /\ Cardinality(T) \in Nat
         /\ Cardinality(T) <= Cardinality(S) + 1
  <1>a. Cardinality(S) \in Nat
    BY FS_CardinalityType
  <1>b. /\ IsFiniteSet(S \cup {x})
        /\ Cardinality(S \cup {x}) = IF x \in S THEN Cardinality(S) ELSE Cardinality(S) + 1
    BY FS_AddElement
  <1>1. /\ IsFiniteSet(S \cup {x}) /\ Cardinality(S) \in Nat
        /\ Cardinality(S \cup {x}) <= Cardinality(S) + 1
    BY <1>a, <1>b
  <1>2. IsFiniteSet(T) /\ Cardinality(T) <= Cardinality(S \cup {x})
    BY <1>1, FS_Subset
  <1>3. Cardinality(T) \in Nat /\ Cardinality(S \cup {x}) \in Nat
    BY <1>1, <1>2, FS_CardinalityType
  <1>4. QED
    BY <1>1, <1>2, <1>3

\* A set that does not grow.
LEMMA NoMore ==
  ASSUME NEW S, NEW T, IsFiniteSet(S), T \subseteq S
  PROVE  /\ IsFiniteSet(T) /\ Cardinality(S) \in Nat /\ Cardinality(T) \in Nat
         /\ Cardinality(T) <= Cardinality(S)
  BY FS_Subset, FS_CardinalityType

-----------------------------------------------------------------------------
(* Emails *)

\* Who has reserved a notification is the only one to send its mail: it is
\* pending, nobody else works on it and it has no mail before Send.
ReservedOnce ==
  /\ \A t \in MailThreads : writing[t] # <<>> => notification[writing[t]] = "pending"
  /\ \A t, u \in MailThreads : t # u /\ writing[t] # <<>> => writing[t] # writing[u]

MailsOK ==
  /\ \A k \in Notifications : notification[k] = "absent" => mails[k] = 0
  /\ \A t \in MailThreads : writing[t] = <<>> => sending[t] = "none"
  /\ \A t \in MailThreads :
       writing[t] # <<>> /\ sending[t] = "none" => mails[writing[t]] = 0
  /\ \A t \in MailThreads : sending[t] = "ok" => mails[writing[t]] = 1

MailInv == EmailTypeOK /\ ReservedOnce /\ MailsOK /\ AtMostOneMail /\ SentWasMailed

\* A notification is not what a thread without one has in hand.
LEMMA NotificationIsSome == \A k \in Notifications : k # <<>>
  <1>1. \A e, a : <<e, a>> # <<>>
    OBVIOUS
  <1>2. \A k \in Notifications : \E e, a : k = <<e, a>>
    BY DEF Notifications
  <1>3. QED
    BY <1>1, <1>2

\* What is written about an event are notifications.
LEMMA AddresseesAreNotifications ==
  ASSUME NEW e \in Events
  PROVE  Addressees(e) \subseteq Notifications
  BY DEF Addressees, Notifications

\* At first nothing is reserved or sent.
LEMMA InitMailInv == EmailInit => MailInv
  <1> SUFFICES ASSUME EmailInit PROVE MailInv
    OBVIOUS
  <1>1. EmailTypeOK
    BY DEF EmailInit, EmailTypeOK, DeliveryInit
  <1>2. QED
    BY <1>1 DEF EmailInit, MailInv, ReservedOnce, MailsOK, AtMostOneMail, SentWasMailed

\* A step that leaves rows, reservations and mails alone keeps the invariant
\* if it keeps the types.
LEMMA MailFrame ==
  ASSUME MailInv, EmailTypeOK', UNCHANGED <<notification, writing, sending, mails>>
  PROVE  MailInv'
  BY DEF MailInv, ReservedOnce, MailsOK, AtMostOneMail, SentWasMailed

\* Failures are counted up to their bound.
LEMMA MailFaultsCount ==
  ASSUME EmailTypeOK, MailFault \/ UNCHANGED mailFaults
  PROVE  mailFaults' \in 0 .. MaxMailFaults
  BY DEF EmailTypeOK, MailFault

\* Every step keeps the invariant.
LEMMA NextMailInv == MailInv /\ [EmailNext]_emailVars => MailInv'
  <1> SUFFICES ASSUME MailInv, [EmailNext]_emailVars PROVE MailInv'
    OBVIOUS
  <1> USE DEF MailInv
  <1>1. ASSUME NEW e \in Events, CommitEvent(e) PROVE MailInv'
    BY <1>1, MailFrame DEF CommitEvent, Commit, mailVars, EmailTypeOK
  <1>2. ASSUME NEW e \in Events, Publish(e) PROVE MailInv'
    <2>1. arrived' \in [Mailers -> SUBSET Events]
      BY <1>2 DEF Publish, EmailTypeOK
    <2>2. publications' \in [Events -> Nat]
      BY <1>2 DEF Publish, Deliver, EmailTypeOK
    <2>3. EmailTypeOK'
      BY <1>2, <2>1, <2>2 DEF Publish, Deliver, EmailTypeOK
    <2>4. QED
      BY <1>2, <2>3, MailFrame DEF Publish
  <1>3. ASSUME NEW d \in Mailers, NEW e \in arrived[d], TakeMessage(d, e) PROVE MailInv'
    <2>1. EmailTypeOK'
      BY <1>3 DEF TakeMessage, EmailTypeOK, deliveryVars
    <2>2. QED
      BY <1>3, <2>1, MailFrame DEF TakeMessage
  <1>4. ASSUME NEW d \in Mailers, DispatchOutboxEvents(d) PROVE MailInv'
    <2>1. Newest \in SUBSET Events
      BY DEF Newest, EmailTypeOK
    <2>2. EmailTypeOK'
      BY <1>4, <2>1 DEF DispatchOutboxEvents, EmailTypeOK, deliveryVars
    <2>3. QED
      BY <1>4, <2>2, MailFrame DEF DispatchOutboxEvents
  <1>5. ASSUME NEW t \in MailThreads, NEW e \in window[t], HandleEvent(t, e) PROVE MailInv'
    <2>1. e \in Events
      BY DEF EmailTypeOK
    <2>2. addressees' \in [MailThreads -> SUBSET Notifications]
      BY <1>5, <2>1, AddresseesAreNotifications DEF HandleEvent, EmailTypeOK
    <2>3. mailFaults' \in 0 .. MaxMailFaults
      BY <1>5 DEF HandleEvent, MailFault, EmailTypeOK
    <2>4. EmailTypeOK'
      BY <1>5, <2>2, <2>3 DEF HandleEvent, EmailTypeOK, deliveryVars
    <2>5. QED
      BY <1>5, <2>4, MailFrame DEF HandleEvent
  <1>6. ASSUME NEW t \in MailThreads, NEW k \in addressees[t], ReserveNotification(t, k)
        PROVE  MailInv'
    <2>1. k \in Notifications /\ k # <<>>
      BY NotificationIsSome DEF EmailTypeOK
    <2>2. EmailTypeOK'
      BY <1>6, <2>1 DEF ReserveNotification, EmailTypeOK, deliveryVars
    <2>3. CASE notification[k] = "absent"
      <3>1. /\ notification' = [notification EXCEPT ![k] = "pending"]
            /\ writing' = [writing EXCEPT ![t] = k]
            /\ UNCHANGED <<sending, mails>>
        BY <1>6, <2>3 DEF ReserveNotification
      <3>2. \A u \in MailThreads : writing[u] # k
        BY <2>1, <2>3 DEF ReservedOnce
      <3>3. writing[t] = <<>> /\ sending[t] = "none" /\ mails[k] = 0
        BY <1>6, <2>1, <2>3 DEF ReserveNotification, MailsOK
      <3>4. ReservedOnce'
        BY <2>1, <3>1, <3>2 DEF ReservedOnce, EmailTypeOK
      <3>5. MailsOK'
        BY <2>1, <3>1, <3>2, <3>3 DEF MailsOK, EmailTypeOK
      <3>6. AtMostOneMail' /\ SentWasMailed'
        BY <2>1, <3>1 DEF AtMostOneMail, SentWasMailed, EmailTypeOK
      <3>7. QED
        BY <2>2, <3>4, <3>5, <3>6
    <2>4. CASE notification[k] # "absent"
      BY <1>6, <2>2, <2>4, MailFrame DEF ReserveNotification
    <2>5. QED
      BY <2>3, <2>4
  <1>7. ASSUME NEW t \in MailThreads, NEW k \in addressees[t], ReserveFails(t, k)
        PROVE  MailInv'
    <2>1. k \in Notifications /\ k # <<>>
      BY NotificationIsSome DEF EmailTypeOK
    <2>f. mailFaults' \in 0 .. MaxMailFaults
      BY <1>7, MailFaultsCount DEF ReserveFails
    <2>2. EmailTypeOK'
      BY <1>7, <2>1, <2>f DEF ReserveFails, EmailTypeOK, deliveryVars
    <2>3. CASE UNCHANGED notification
      BY <1>7, <2>2, <2>3, MailFrame DEF ReserveFails
    <2>4. CASE /\ notification[k] = "absent"
               /\ notification' = [notification EXCEPT ![k] = "pending"]
      <3>1. UNCHANGED <<writing, sending, mails>>
        BY <1>7 DEF ReserveFails
      <3>2. ReservedOnce' /\ MailsOK' /\ AtMostOneMail' /\ SentWasMailed'
        BY <2>1, <2>4, <3>1 DEF ReservedOnce, MailsOK, AtMostOneMail, SentWasMailed, EmailTypeOK
      <3>3. QED
        BY <2>2, <3>2
    <2>5. QED
      BY <1>7, <2>3, <2>4 DEF ReserveFails
  <1>8. ASSUME NEW t \in MailThreads, Send(t) PROVE MailInv'
    <2>1. /\ writing[t] \in Notifications
          /\ notification[writing[t]] = "pending" /\ mails[writing[t]] = 0
      BY <1>8 DEF Send, EmailTypeOK, ReservedOnce, MailsOK
    <2>f. mailFaults' \in 0 .. MaxMailFaults
      BY <1>8, MailFaultsCount DEF Send
    <2>m. mails' \in [Notifications -> Nat] /\ sending' \in [MailThreads -> {"none", "ok", "error"}]
      BY <1>8, <2>1 DEF Send, EmailTypeOK
    <2>2. EmailTypeOK'
      BY <1>8, <2>m, <2>f DEF Send, EmailTypeOK, deliveryVars
    <2>3. /\ UNCHANGED <<notification, writing>>
          /\ \/ /\ mails' = [mails EXCEPT ![writing[t]] = @ + 1]
                /\ \/ sending' = [sending EXCEPT ![t] = "ok"]
                   \/ sending' = [sending EXCEPT ![t] = "error"]
             \/ UNCHANGED mails /\ sending' = [sending EXCEPT ![t] = "error"]
      BY <1>8 DEF Send
    <2>4. ReservedOnce'
      BY <2>3 DEF ReservedOnce
    <2>5. \A u \in MailThreads : u # t /\ writing[u] # <<>> =>
            mails'[writing[u]] = mails[writing[u]] /\ sending'[u] = sending[u]
      BY <2>1, <2>3 DEF ReservedOnce, EmailTypeOK
    <2>6. MailsOK'
      <3>1. sending'[t] # "none" /\ (sending'[t] = "ok" => mails'[writing[t]] = 1)
        BY <2>1, <2>3 DEF EmailTypeOK
      <3>2. \A u \in MailThreads : u # t => sending'[u] = sending[u]
        BY <2>3 DEF EmailTypeOK
      <3>3. \A k \in Notifications : notification[k] = "absent" => mails'[k] = mails[k]
        BY <2>1, <2>3 DEF EmailTypeOK
      <3>4. \A u \in MailThreads : writing[u] = <<>> => u # t
        BY <1>8 DEF Send
      <3>5. QED
        BY <2>3, <2>5, <3>1, <3>2, <3>3, <3>4 DEF MailsOK
    <2>7. AtMostOneMail' /\ SentWasMailed'
      BY <2>1, <2>3 DEF AtMostOneMail, SentWasMailed, EmailTypeOK
    <2>8. QED
      BY <2>2, <2>4, <2>6, <2>7
  <1>9. ASSUME NEW t \in MailThreads, MarkNotification(t) PROVE MailInv'
    <2>1. writing[t] \in Notifications /\ Mark(t) \in {"sent", "failed"}
      BY <1>9 DEF MarkNotification, EmailTypeOK, Mark
    <2>f. mailFaults' \in 0 .. MaxMailFaults
      BY <1>9, MailFaultsCount DEF MarkNotification
    <2>2. EmailTypeOK'
      BY <1>9, <2>1, <2>f DEF MarkNotification, EmailTypeOK, deliveryVars
    <2>3. /\ writing' = [writing EXCEPT ![t] = <<>>]
          /\ sending' = [sending EXCEPT ![t] = "none"]
          /\ UNCHANGED mails
          /\ \/ notification' = [notification EXCEPT ![writing[t]] = Mark(t)]
             \/ UNCHANGED notification
      BY <1>9 DEF MarkNotification
    <2>4. ReservedOnce'
      BY <2>1, <2>3 DEF ReservedOnce, EmailTypeOK
    <2>5. MailsOK'
      BY <2>1, <2>3 DEF MailsOK, EmailTypeOK
    <2>6. Mark(t) = "sent" => mails[writing[t]] = 1
      BY DEF Mark, MailsOK
    <2>7. AtMostOneMail' /\ SentWasMailed'
      BY <2>1, <2>3, <2>6 DEF AtMostOneMail, SentWasMailed, EmailTypeOK
    <2>8. QED
      BY <2>2, <2>4, <2>5, <2>7
  <1>10. ASSUME NEW d \in Mailers, MailerCrashes(d) PROVE MailInv'
    <2>1. EmailTypeOK'
      BY <1>10 DEF MailerCrashes, MailFault, EmailTypeOK, deliveryVars
    <2>2. /\ UNCHANGED <<notification, mails>>
          /\ \A t \in MailThreads : \/ writing'[t] = <<>> /\ sending'[t] = "none"
                                    \/ writing'[t] = writing[t] /\ sending'[t] = sending[t]
      BY <1>10 DEF MailerCrashes
    <2>3. ReservedOnce' /\ MailsOK' /\ AtMostOneMail' /\ SentWasMailed'
      BY <2>2 DEF ReservedOnce, MailsOK, AtMostOneMail, SentWasMailed
    <2>4. QED
      BY <2>1, <2>3
  <1>11. CASE UNCHANGED emailVars
    <2>1. EmailTypeOK'
      BY <1>11 DEF emailVars, mailVars, deliveryVars, EmailTypeOK
    <2>2. QED
      BY <1>11, <2>1, MailFrame DEF emailVars, mailVars
  <1>12. QED
    BY <1>1, <1>2, <1>3, <1>4, <1>5, <1>6, <1>7, <1>8, <1>9, <1>10, <1>11
    DEF EmailNext, Handle

\* The invariant of the mails holds in every behaviour.
LEMMA AlwaysMailInv == EmailSpec => []MailInv
  BY InitMailInv, NextMailInv, PTL DEF EmailSpec

\* Rows of email_notifications and the locals of a mailer keep to their types.
THEOREM NotificationsAreTyped == EmailSpec => []EmailTypeOK
  BY AlwaysMailInv, PTL DEF MailInv

\* Nobody gets the same mail twice: dispatch sends only what reserve inserted.
THEOREM NobodyIsMailedTwice == EmailSpec => []AtMostOneMail
  BY AlwaysMailInv, PTL DEF MailInv

\* A notification that says sent was taken by the provider.
THEOREM SentIsTrue == EmailSpec => []SentWasMailed
  BY AlwaysMailInv, PTL DEF MailInv

\* Notifications without a mail that nobody will send any more: who works on
\* one has had its error.
Unmailed ==
  {k \in Notifications : /\ notification[k] # "absent" /\ mails[k] = 0
                         /\ \A t \in MailThreads : writing[t] = k => sending[t] = "error"}

\* What the invariant says of a set V of notifications and a number of failures.
Paid(V, f) == IsFiniteSet(V) /\ Cardinality(V) <= 2 * f

\* No notification is lost without a failure ...
LEMMA PaidStays ==
  ASSUME NEW V, NEW W, NEW f \in Nat, NEW g \in Nat, Paid(V, f), W \subseteq V, f <= g
  PROVE  Paid(W, g)
  BY NoMore DEF Paid

\* ... and a failure may cost two.
LEMMA PaidByFault ==
  ASSUME NEW V, NEW W, NEW x, NEW y, NEW f \in Nat, Paid(V, f), W \subseteq V \cup {x, y}
  PROVE  Paid(W, f + 1)
  <1>1. /\ IsFiniteSet(V \cup {x}) /\ Cardinality(V) \in Nat /\ Cardinality(V \cup {x}) \in Nat
        /\ Cardinality(V \cup {x}) <= Cardinality(V) + 1
    BY OneMore DEF Paid
  <1>2. W \subseteq (V \cup {x}) \cup {y}
    OBVIOUS
  <1>3. /\ IsFiniteSet(W) /\ Cardinality(W) \in Nat
        /\ Cardinality(W) <= Cardinality(V \cup {x}) + 1
    BY <1>1, <1>2, OneMore
  <1>4. QED
    BY <1>1, <1>3 DEF Paid

\* A step that reserves nothing and takes nobody off a notification loses none.
LEMMA UnmailedFrame ==
  ASSUME MailInv, MailInv', Paid(Unmailed, mailFaults), mailFaults <= mailFaults',
         UNCHANGED <<notification, writing, sending, mails>>
  PROVE  Paid(Unmailed', mailFaults')
  <1>1. Unmailed' \subseteq Unmailed
    BY DEF Unmailed
  <1>2. mailFaults \in Nat /\ mailFaults' \in Nat
    BY DEF MailInv, EmailTypeOK
  <1>3. QED
    BY <1>1, <1>2, PaidStays

\* At first nothing is reserved.
LEMMA InitUnmailed == EmailInit => Paid(Unmailed, mailFaults)
  <1> SUFFICES ASSUME EmailInit PROVE Paid(Unmailed, mailFaults)
    OBVIOUS
  <1>1. Unmailed = {} /\ mailFaults = 0
    BY DEF EmailInit, Unmailed
  <1>2. QED
    BY <1>1, FS_EmptySet DEF Paid

\* Every step pays for what it loses.
LEMMA NextUnmailed ==
  ASSUME MailInv, MailInv', Paid(Unmailed, mailFaults), [EmailNext]_emailVars
  PROVE  Paid(Unmailed', mailFaults')
  <1> DEFINE V == Unmailed
             W == Unmailed'
  <1>0. EmailTypeOK /\ EmailTypeOK' /\ ReservedOnce /\ MailsOK /\ mailFaults \in Nat /\ mailFaults' \in Nat
    BY DEF MailInv, EmailTypeOK
  <1>f. ASSUME MailFault PROVE mailFaults' = mailFaults + 1
    BY <1>f DEF MailFault
  <1>1. ASSUME NEW e \in Events, CommitEvent(e) \/ Publish(e) PROVE Paid(W, mailFaults')
    BY <1>0, <1>1, UnmailedFrame DEF CommitEvent, Publish, mailVars
  <1>2. ASSUME NEW d \in Mailers, (\E e \in arrived[d] : TakeMessage(d, e)) \/ DispatchOutboxEvents(d)
        PROVE  Paid(W, mailFaults')
    BY <1>0, <1>2, UnmailedFrame DEF TakeMessage, DispatchOutboxEvents
  <1>3. ASSUME NEW t \in MailThreads, NEW e \in window[t], HandleEvent(t, e)
        PROVE  Paid(W, mailFaults')
    <2>1. UNCHANGED <<notification, writing, sending, mails>> /\ mailFaults <= mailFaults'
      BY <1>0, <1>3 DEF HandleEvent, MailFault
    <2>2. QED
      BY <2>1, UnmailedFrame
  <1>4. ASSUME NEW t \in MailThreads, NEW k \in addressees[t], ReserveNotification(t, k)
        PROVE  Paid(W, mailFaults')
    <2>1. k \in Notifications /\ k # <<>>
      BY <1>0, NotificationIsSome DEF EmailTypeOK
    <2>2. UNCHANGED <<sending, mails, mailFaults>> /\ writing[t] = <<>>
      BY <1>4 DEF ReserveNotification
    <2>3. CASE notification[k] = "absent"
      <3>1. /\ notification' = [notification EXCEPT ![k] = "pending"]
            /\ writing' = [writing EXCEPT ![t] = k]
        BY <1>4, <2>3 DEF ReserveNotification
      <3>2. writing'[t] = k /\ sending'[t] = "none"
        BY <1>0, <2>2, <3>1 DEF EmailTypeOK, MailsOK
      <3>3. \A u \in MailThreads : writing[u] # <<>> => writing'[u] = writing[u]
        BY <1>0, <2>2, <3>1 DEF EmailTypeOK
      <3>4. \A i \in Notifications : i # k => notification'[i] = notification[i]
        BY <1>0, <3>1 DEF EmailTypeOK
      <3>5. \A i \in Notifications : i # <<>>
        BY NotificationIsSome
      <3>6. W \subseteq V
        BY <2>1, <2>2, <3>2, <3>3, <3>4, <3>5 DEF Unmailed
      <3>7. QED
        BY <1>0, <2>2, <3>6, PaidStays
    <2>4. CASE notification[k] # "absent"
      BY <1>0, <1>4, <2>2, <2>4, UnmailedFrame DEF ReserveNotification
    <2>5. QED
      BY <2>3, <2>4
  <1>5. ASSUME NEW t \in MailThreads, NEW k \in addressees[t], ReserveFails(t, k)
        PROVE  Paid(W, mailFaults')
    <2>1. k \in Notifications
      BY <1>0 DEF EmailTypeOK
    <2>2. /\ UNCHANGED <<writing, sending, mails>> /\ mailFaults' = mailFaults + 1
          /\ \/ UNCHANGED notification
             \/ notification' = [notification EXCEPT ![k] = "pending"]
      BY <1>5, <1>f DEF ReserveFails
    <2>3. \A i \in Notifications : i # k => notification'[i] = notification[i]
      BY <1>0, <2>2 DEF EmailTypeOK
    <2>4. W \subseteq V \cup {k, k}
      BY <2>2, <2>3 DEF Unmailed
    <2>5. QED
      BY <1>0, <2>2, <2>4, PaidByFault
  <1>6. ASSUME NEW t \in MailThreads, Send(t) PROVE Paid(W, mailFaults')
    <2> DEFINE k == writing[t]
    <2>1. k \in Notifications /\ UNCHANGED <<notification, writing>>
      BY <1>0, <1>6 DEF Send, EmailTypeOK
    <2>2. \A u \in MailThreads : u # t => sending'[u] = sending[u]
      BY <1>0, <1>6 DEF Send, EmailTypeOK
    <2>3. \A i \in Notifications : i # k => mails'[i] = mails[i]
      BY <1>0, <1>6 DEF Send, EmailTypeOK
    <2>4. CASE MailFault
      <3>1. mailFaults' = mailFaults + 1
        BY <2>4, <1>f
      <3>2. W \subseteq V \cup {k, k}
        BY <2>1, <2>2, <2>3 DEF Unmailed
      <3>3. QED
        BY <1>0, <3>1, <3>2, PaidByFault
    <2>5. CASE mails' = [mails EXCEPT ![k] = @ + 1] /\ UNCHANGED mailFaults
      <3>1. mails[k] = 0 /\ mails'[k] = 1
        BY <1>0, <1>6, <2>1, <2>5 DEF Send, MailsOK, EmailTypeOK
      <3>2. W \subseteq V
        BY <2>1, <2>2, <2>3, <3>1 DEF Unmailed
      <3>3. QED
        BY <1>0, <2>5, <3>2, PaidStays
    <2>6. QED
      BY <1>6, <2>4, <2>5 DEF Send
  <1>7. ASSUME NEW t \in MailThreads, MarkNotification(t) PROVE Paid(W, mailFaults')
    <2> DEFINE k == writing[t]
    <2>1. k \in Notifications /\ sending[t] # "none" /\ UNCHANGED mails
      BY <1>0, <1>7 DEF MarkNotification, EmailTypeOK
    <2>2. \A u \in MailThreads : u # t => writing'[u] = writing[u] /\ sending'[u] = sending[u]
      BY <1>0, <1>7 DEF MarkNotification, EmailTypeOK
    <2>3. \A i \in Notifications : i # k => notification'[i] = notification[i]
      BY <1>0, <1>7 DEF MarkNotification, EmailTypeOK
    <2>4. mailFaults <= mailFaults'
      BY <1>0, <1>7 DEF MarkNotification, MailFault
    <2>5. notification[k] = "pending" /\ sending[t] \in {"ok", "error"} /\ mails[k] \in Nat
      BY <1>0, <2>1, NotificationIsSome DEF ReservedOnce, EmailTypeOK
    <2>6. \A u \in MailThreads : u # t => writing[u] # k
      BY <1>0, <2>1, NotificationIsSome DEF ReservedOnce
    <2>7. k \in W => k \in V
      BY <1>0, <2>1, <2>5, <2>6 DEF Unmailed, MailsOK
    <2>8. \A i \in Notifications : i # k /\ i \in W => i \in V
      BY <2>1, <2>2, <2>3 DEF Unmailed
    <2>9. W \subseteq V
      BY <2>7, <2>8 DEF Unmailed
    <2>10. QED
      BY <1>0, <2>4, <2>9, PaidStays
  <1>8. ASSUME NEW d \in Mailers, MailerCrashes(d) PROVE Paid(W, mailFaults')
    <2> DEFINE b == <<d, "bus">>
               p == <<d, "poll">>
    <2>1. /\ UNCHANGED <<notification, mails>> /\ mailFaults' = mailFaults + 1
          /\ \A t \in MailThreads : t[1] # d => writing'[t] = writing[t] /\ sending'[t] = sending[t]
      BY <1>8, <1>f DEF MailerCrashes
    <2>2. \A t \in MailThreads : t[1] = d => t = b \/ t = p
      BY DEF MailThreads
    <2>3. W \subseteq V \cup {writing[b], writing[p]}
      BY <2>1, <2>2 DEF Unmailed
    <2>4. QED
      BY <1>0, <2>1, <2>3, PaidByFault
  <1>9. CASE UNCHANGED emailVars
    BY <1>0, <1>9, UnmailedFrame DEF emailVars, mailVars
  <1>10. QED
    BY <1>1, <1>2, <1>3, <1>4, <1>5, <1>6, <1>7, <1>8, <1>9 DEF EmailNext, Handle

\* A mail that is reserved and never sent has cost a failure, or half of one,
\* however many mailers share the notifications.
THEOREM MailsAreAccounted == EmailSpec => []MailsAreCounted
  <1>1. EmailInit => MailInv /\ Paid(Unmailed, mailFaults)
    BY InitMailInv, InitUnmailed
  <1>2. MailInv /\ Paid(Unmailed, mailFaults) /\ [EmailNext]_emailVars
          => (MailInv /\ Paid(Unmailed, mailFaults))'
    <2>1. SUFFICES ASSUME MailInv, Paid(Unmailed, mailFaults), [EmailNext]_emailVars
                   PROVE  MailInv' /\ Paid(Unmailed', mailFaults')
      BY DEF Paid
    <2>2. MailInv'
      BY <2>1, NextMailInv
    <2>3. QED
      BY <2>1, <2>2, NextUnmailed
  <1>3. MailInv /\ Paid(Unmailed, mailFaults) => MailsAreCounted
    <2> SUFFICES ASSUME MailInv, Paid(Unmailed, mailFaults) PROVE MailsAreCounted
      OBVIOUS
    <2> DEFINE L == {k \in Notifications :
                       /\ notification[k] # "absent" /\ mails[k] = 0
                       /\ \A t \in MailThreads : writing[t] # k}
    <2>1. mailFaults \in Nat /\ L \subseteq Unmailed
      BY DEF MailInv, EmailTypeOK, Unmailed
    <2>2. Paid(L, mailFaults)
      BY <2>1, PaidStays
    <2>3. UnmailedCostsFailure
      BY <2>2 DEF Paid, UnmailedCostsFailure
    <2>4. QED
      BY <2>3 DEF MailInv, MailsAreCounted
  <1>4. QED
    BY <1>1, <1>2, <1>3, PTL DEF EmailSpec

-----------------------------------------------------------------------------
(* Webhooks *)

\* All attempts before this one were made.
MadeBefore(w, a) == \A b \in Attempts : b < a => posts[w][b] > 0

\* An attempt that a thread has read, or makes, comes after all before it, and
\* a reply is what became of it: the attempt of an active thread is real.
AttemptsOK ==
  /\ \A w \in Rows : Scheduled(w) => MadeBefore(w, delivery[w].attempt)
  /\ \A t \in Threads : \A j \in jobs[t] : MadeBefore(j.row, j.attempt)
  /\ \A t \in Threads : active[t] # Idling => MadeBefore(active[t].row, active[t].attempt)

RepliesOK ==
  \A t \in Threads :
    /\ reply[t] # "none" => active[t] # Idling
    /\ reply[t] \in {"accepted", "refused"} => posts[active[t].row][active[t].attempt] > 0
    /\ reply[t] = "accepted" => active[t].row \in accepted
    /\ reply[t] = "broken" => active[t].row[2] \in broken

WebhookInv ==
  /\ WebhookTypeOK
  /\ AttemptsOK
  /\ RepliesOK
  /\ DeliveredWasAccepted
  /\ GivesUpAfterMaxRetries

\* Nothing is at work in an idle thread.
LEMMA IdlingIsNoJob == Idling \notin Job
  BY DEF Idling, Job, Attempts

\* At first there is no delivery.
LEMMA InitWebhookInv == WebhookInit => WebhookInv
  <1> SUFFICES ASSUME WebhookInit PROVE WebhookInv
    OBVIOUS
  <1>1. 1 \in Attempts
    BY DEF Attempts
  <1>2. WebhookTypeOK
    BY <1>1 DEF WebhookInit, WebhookTypeOK
  <1>3. AttemptsOK /\ RepliesOK
    BY DEF WebhookInit, AttemptsOK, RepliesOK, Scheduled
  <1>4. DeliveredWasAccepted /\ GivesUpAfterMaxRetries
    BY DEF WebhookInit, DeliveredWasAccepted, GivesUpAfterMaxRetries
  <1>5. QED
    BY <1>2, <1>3, <1>4 DEF WebhookInv

\* Failures are counted up to their bound.
LEMMA WebhookFaultsCount ==
  ASSUME WebhookTypeOK, WebhookFault \/ UNCHANGED webhookFaults
  PROVE  webhookFaults' \in 0 .. MaxWebhookFaults
  BY DEF WebhookTypeOK, WebhookFault

\* A step that writes no delivery, sends nothing and gives no thread anything
\* to do keeps the invariant if it keeps the types.
LEMMA WebhookFrame ==
  ASSUME WebhookInv, WebhookTypeOK',
         UNCHANGED <<broken, delivery, posts, accepted>>,
         \A t \in Threads :
           /\ jobs'[t] \subseteq jobs[t]
           /\ \/ active'[t] = Idling /\ reply'[t] = "none"
              \/ active'[t] = active[t] /\ reply'[t] = reply[t]
  PROVE  WebhookInv'
  <1>1. AttemptsOK'
    BY DEF WebhookInv, AttemptsOK, MadeBefore, Scheduled
  <1>2. RepliesOK'
    BY DEF WebhookInv, RepliesOK
  <1>3. DeliveredWasAccepted' /\ GivesUpAfterMaxRetries'
    BY DEF WebhookInv, DeliveredWasAccepted, GivesUpAfterMaxRetries
  <1>4. QED
    BY <1>1, <1>2, <1>3 DEF WebhookInv

\* Every step keeps the invariant.
LEMMA NextWebhookInv == WebhookInv /\ [WebhookNext]_webhookVars => WebhookInv'
  <1> SUFFICES ASSUME WebhookInv, [WebhookNext]_webhookVars PROVE WebhookInv'
    OBVIOUS
  <1>0. WebhookTypeOK /\ AttemptsOK /\ RepliesOK /\ DeliveredWasAccepted /\ GivesUpAfterMaxRetries
    BY DEF WebhookInv
  <1>1. ASSUME NEW d \in Dispatchers, NEW m \in Messages, HandleIncoming(d, m)
        PROVE  WebhookInv'
    <2>1. {<<d, p, m>> : p \in {q \in Endpoints : EventAllowed(q, m)}} \subseteq Rows
      BY DEF Rows
    <2>2. WebhookTypeOK'
      BY <1>0, <1>1, <2>1 DEF HandleIncoming, WebhookTypeOK
    <2>3. QED
      BY <1>1, <2>2, WebhookFrame DEF HandleIncoming
  <1>2. ASSUME NEW d \in Dispatchers, NEW m \in Messages, LoseMessage(d, m)
        PROVE  WebhookInv'
    <2>1. WebhookTypeOK'
      BY <1>0, <1>2 DEF LoseMessage, WebhookTypeOK
    <2>2. QED
      BY <1>2, <2>1, WebhookFrame DEF LoseMessage
  <1>3. ASSUME NEW d \in Dispatchers, NEW w \in todo[d], InsertDelivery(d, w)
        PROVE  WebhookInv'
    <2> DEFINE t == <<d, "bus">>
               j == [row |-> w, attempt |-> 1]
    <2>1. t \in Threads /\ w \in Rows /\ j \in Job /\ 1 \in Attempts
      BY <1>0 DEF Threads, WebhookTypeOK, Job, Attempts
    <2>2. webhookFaults' \in 0 .. MaxWebhookFaults
      BY <1>0, <1>3, WebhookFaultsCount DEF InsertDelivery
    <2>3. /\ active[t] = Idling
          /\ active' = [active EXCEPT ![t] = j]
          /\ UNCHANGED <<broken, backoff, inbox, jobs, reply, posts, accepted>>
          /\ \/ delivery' = [delivery EXCEPT ![w] = [status |-> "pending", attempt |-> 1]]
             \/ UNCHANGED delivery
          /\ todo' = [todo EXCEPT ![d] = @ \ {w}]
      BY <1>3 DEF InsertDelivery
    <2>4. WebhookTypeOK'
      <3>1. delivery' \in [Rows -> [status : {"absent", "pending", "scheduled", "delivered", "failed"},
                                    attempt : Attempts]]
        BY <1>0, <2>1, <2>3 DEF WebhookTypeOK
      <3>2. active' \in [Threads -> Job \union {Idling}] /\ todo' \in [Dispatchers -> SUBSET Rows]
        BY <1>0, <2>1, <2>3 DEF WebhookTypeOK
      <3>3. QED
        BY <1>0, <2>2, <2>3, <3>1, <3>2 DEF WebhookTypeOK
    <2>5. \A u \in Rows : delivery'[u].status = "pending" \/ delivery'[u] = delivery[u]
      BY <1>0, <2>1, <2>3 DEF WebhookTypeOK
    <2>6. \A u \in Threads : IF u = t THEN active'[u] = j ELSE active'[u] = active[u]
      BY <1>0, <2>1, <2>3 DEF WebhookTypeOK
    <2>7. \A b \in Attempts : ~(b < 1)
      BY DEF Attempts
    <2>8. AttemptsOK'
      BY <1>0, <2>3, <2>5, <2>6, <2>7 DEF AttemptsOK, MadeBefore, Scheduled
    <2>9. reply[t] = "none"
      BY <1>0, <2>1, <2>3 DEF RepliesOK
    <2>10. RepliesOK'
      BY <1>0, <2>3, <2>6, <2>9 DEF RepliesOK
    <2>11. DeliveredWasAccepted' /\ GivesUpAfterMaxRetries'
      BY <1>0, <2>3, <2>5 DEF DeliveredWasAccepted, GivesUpAfterMaxRetries
    <2>12. QED
      BY <2>4, <2>8, <2>10, <2>11 DEF WebhookInv
  <1>4. ASSUME NEW d \in Dispatchers, ProcessScheduled(d) PROVE WebhookInv'
    <2> DEFINE t == <<d, "ticker">>
               S == {w \in Rows \ backoff : Scheduled(w)}
               J == {[row |-> w, attempt |-> delivery[w].attempt] : w \in S}
    <2>1. t \in Threads
      BY DEF Threads
    <2>2. /\ jobs' = [jobs EXCEPT ![t] = J]
          /\ UNCHANGED <<broken, delivery, backoff, inbox, todo, active, reply, posts, accepted,
                         webhookFaults>>
      BY <1>4 DEF ProcessScheduled
    <2>3. J \subseteq Job
      BY <1>0 DEF WebhookTypeOK, Job
    <2>4. \A j \in J : MadeBefore(j.row, j.attempt)
      BY <1>0 DEF AttemptsOK
    <2>5. WebhookTypeOK'
      BY <1>0, <2>1, <2>2, <2>3 DEF WebhookTypeOK
    <2>6. \A u \in Threads : jobs'[u] = IF u = t THEN J ELSE jobs[u]
      BY <1>0, <2>1, <2>2 DEF WebhookTypeOK
    <2>7. AttemptsOK'
      <3>1. \A u \in Threads : \A j \in jobs'[u] : MadeBefore(j.row, j.attempt)
        BY <1>0, <2>4, <2>6 DEF AttemptsOK
      <3>2. QED
        BY <1>0, <2>2, <3>1 DEF AttemptsOK, MadeBefore, Scheduled
    <2>8. RepliesOK' /\ DeliveredWasAccepted' /\ GivesUpAfterMaxRetries'
      BY <1>0, <2>2 DEF RepliesOK, DeliveredWasAccepted, GivesUpAfterMaxRetries
    <2>9. QED
      BY <2>5, <2>7, <2>8 DEF WebhookInv
  <1>5. ASSUME NEW d \in Dispatchers, DispatcherCrashes(d) PROVE WebhookInv'
    <2>1. webhookFaults' \in 0 .. MaxWebhookFaults
      BY <1>0, <1>5, WebhookFaultsCount DEF DispatcherCrashes
    <2>2. WebhookTypeOK'
      BY <1>0, <1>5, <2>1 DEF DispatcherCrashes, WebhookTypeOK
    <2>3. QED
      BY <1>5, <2>2, WebhookFrame DEF DispatcherCrashes
  <1>6. ASSUME NEW t \in Threads, NEW j \in jobs[t], NextScheduled(t, j) PROVE WebhookInv'
    <2>1. j \in Job /\ MadeBefore(j.row, j.attempt) /\ reply[t] = "none"
      BY <1>0, <1>6 DEF WebhookTypeOK, AttemptsOK, RepliesOK, NextScheduled
    <2>2. /\ jobs' = [jobs EXCEPT ![t] = @ \ {j}]
          /\ active' = [active EXCEPT ![t] = j]
          /\ UNCHANGED <<broken, delivery, backoff, inbox, todo, reply, posts, accepted,
                         webhookFaults>>
      BY <1>6 DEF NextScheduled
    <2>3. WebhookTypeOK'
      BY <1>0, <2>1, <2>2 DEF WebhookTypeOK
    <2>4. \A u \in Threads : /\ jobs'[u] \subseteq jobs[u]
                             /\ active'[u] = IF u = t THEN j ELSE active[u]
      BY <1>0, <2>2 DEF WebhookTypeOK
    <2>5. AttemptsOK'
      BY <1>0, <2>1, <2>2, <2>4 DEF AttemptsOK, MadeBefore, Scheduled
    <2>6. RepliesOK'
      BY <1>0, <2>1, <2>2, <2>4 DEF RepliesOK
    <2>7. DeliveredWasAccepted' /\ GivesUpAfterMaxRetries'
      BY <1>0, <2>2 DEF DeliveredWasAccepted, GivesUpAfterMaxRetries
    <2>8. QED
      BY <2>3, <2>5, <2>6, <2>7 DEF WebhookInv
  <1>7. ASSUME NEW t \in Threads, DecryptFails(t) PROVE WebhookInv'
    <2>1. /\ active[t] # Idling /\ active[t].row[2] \in broken
          /\ reply' = [reply EXCEPT ![t] = "broken"]
          /\ UNCHANGED <<broken, delivery, backoff, inbox, todo, jobs, active, posts, accepted,
                         webhookFaults>>
      BY <1>7 DEF DecryptFails
    <2>2. WebhookTypeOK'
      BY <1>0, <2>1 DEF WebhookTypeOK
    <2>3. AttemptsOK' /\ DeliveredWasAccepted' /\ GivesUpAfterMaxRetries'
      BY <1>0, <2>1 DEF AttemptsOK, MadeBefore, Scheduled, DeliveredWasAccepted, GivesUpAfterMaxRetries
    <2>4. \A u \in Threads : reply'[u] = IF u = t THEN "broken" ELSE reply[u]
      BY <1>0, <2>1 DEF WebhookTypeOK
    <2>5. RepliesOK'
      BY <1>0, <2>1, <2>4 DEF RepliesOK
    <2>6. QED
      BY <2>2, <2>3, <2>5 DEF WebhookInv
  <1>8. ASSUME NEW t \in Threads, Post(t) PROVE WebhookInv'
    <2> DEFINE j == active[t]
    <2>1. j # Idling /\ j \in Job
      BY <1>0, <1>8 DEF Post, WebhookTypeOK
    <2>2. j.row \in Rows /\ j.attempt \in Attempts
      BY <2>1 DEF Job
    <2>3. /\ posts' = [posts EXCEPT ![j.row][j.attempt] = @ + 1]
          /\ UNCHANGED <<broken, delivery, backoff, inbox, todo, jobs, active, webhookFaults>>
      BY <1>8 DEF Post
    <2>4. \/ /\ accepted' = accepted \union {j.row}
             /\ reply' = [reply EXCEPT ![t] = "accepted"]
          \/ UNCHANGED accepted /\ reply' = [reply EXCEPT ![t] = "refused"]
      BY <1>8 DEF Post
    <2>5. posts' \in [Rows -> [Attempts -> Nat]]
      BY <1>0, <2>2, <2>3 DEF WebhookTypeOK
    <2>6. accepted' \subseteq Rows /\ reply' \in [Threads -> {"none", "accepted", "refused", "broken"}]
      BY <1>0, <2>2, <2>4 DEF WebhookTypeOK
    <2>7. WebhookTypeOK'
      BY <1>0, <2>3, <2>5, <2>6 DEF WebhookTypeOK
    <2>8. /\ \A w \in Rows, a \in Attempts : posts[w][a] > 0 => posts'[w][a] > 0
          /\ posts'[j.row][j.attempt] > 0
      BY <1>0, <2>2, <2>3 DEF WebhookTypeOK
    <2>9. AttemptsOK'
      <3>1. \A w \in Rows, a \in Attempts : MadeBefore(w, a) => MadeBefore(w, a)'
        BY <2>8 DEF MadeBefore
      <3>2. \A u \in Threads : \A i \in jobs[u] : i.row \in Rows /\ i.attempt \in Attempts
        BY <1>0 DEF WebhookTypeOK, Job
      <3>3. \A u \in Threads : active[u] # Idling =>
              active[u].row \in Rows /\ active[u].attempt \in Attempts
        BY <1>0 DEF WebhookTypeOK, Job
      <3>4. \A w \in Rows : delivery[w].attempt \in Attempts
        BY <1>0 DEF WebhookTypeOK
      <3>5. QED
        BY <1>0, <2>3, <3>1, <3>2, <3>3, <3>4 DEF AttemptsOK, Scheduled
    <2>10. RepliesOK'
      <3>1. reply'[t] \in {"accepted", "refused"} /\ (reply'[t] = "accepted" => j.row \in accepted')
        BY <1>0, <2>4 DEF WebhookTypeOK
      <3>2. \A u \in Threads : u # t => reply'[u] = reply[u]
        BY <1>0, <2>4 DEF WebhookTypeOK
      <3>3. accepted \subseteq accepted'
        BY <2>4
      <3>4. \A u \in Threads : reply[u] # "none" =>
              active[u].row \in Rows /\ active[u].attempt \in Attempts
        BY <1>0 DEF WebhookTypeOK, Job, RepliesOK
      <3>5. QED
        BY <1>0, <2>1, <2>3, <2>8, <3>1, <3>2, <3>3, <3>4 DEF RepliesOK
    <2>11. DeliveredWasAccepted' /\ GivesUpAfterMaxRetries'
      BY <1>0, <2>3, <2>4, <2>8 DEF DeliveredWasAccepted, GivesUpAfterMaxRetries
    <2>12. QED
      BY <2>7, <2>9, <2>10, <2>11 DEF WebhookInv
  <1>9. ASSUME NEW t \in Threads, UpdateDelivery(t) PROVE WebhookInv'
    <2> DEFINE j == active[t]
               o == Outcome(j.attempt, reply[t])
    <2>1. j # Idling /\ j \in Job /\ j.row \in Rows /\ j.attempt \in Attempts
      BY <1>0, <1>9 DEF UpdateDelivery, WebhookTypeOK, Job
    <2>2. /\ MadeBefore(j.row, j.attempt)
          /\ reply[t] \in {"accepted", "refused", "broken"}
      BY <1>0, <1>9, <2>1 DEF UpdateDelivery, WebhookTypeOK, AttemptsOK
    <2>3. o.status = "delivered" => j.row \in accepted
      BY <1>0, <2>2 DEF Outcome, RepliesOK
    <2>4. o.status = "failed" => j.row[2] \in broken \/ \A b \in Attempts : posts[j.row][b] > 0
      <3>1. SUFFICES ASSUME reply[t] = "refused", j.attempt + 1 > MaxRetries, NEW b \in Attempts
                     PROVE  posts[j.row][b] > 0
        BY <1>0, <2>2 DEF Outcome, RepliesOK
      <3>2. b < j.attempt \/ b = j.attempt
        BY <2>1, <3>1 DEF Attempts
      <3>3. QED
        BY <1>0, <2>2, <3>1, <3>2 DEF MadeBefore, RepliesOK
    <2>5. o.status = "scheduled" => o.attempt \in Attempts /\ MadeBefore(j.row, o.attempt)
      <3>1. SUFFICES ASSUME reply[t] = "refused", ~(j.attempt + 1 > MaxRetries)
                     PROVE  j.attempt + 1 \in Attempts /\ MadeBefore(j.row, j.attempt + 1)
        BY <2>2 DEF Outcome
      <3>2. \A b \in Attempts : b < j.attempt + 1 => b < j.attempt \/ b = j.attempt
        BY <2>1 DEF Attempts
      <3>3. QED
        BY <1>0, <2>1, <2>2, <3>1, <3>2 DEF MadeBefore, RepliesOK, Attempts
    <2>6. o.status \in {"delivered", "failed", "scheduled"}
      BY DEF Outcome
    <2>7. /\ active' = [active EXCEPT ![t] = Idling]
          /\ reply' = [reply EXCEPT ![t] = "none"]
          /\ UNCHANGED <<broken, inbox, todo, jobs, posts, accepted, webhookFaults>>
      BY <1>9 DEF UpdateDelivery
    <2>8. \/ UNCHANGED <<delivery, backoff>>
          \/ /\ delivery' = [delivery EXCEPT ![j.row] =
                              IF o.status = "scheduled" THEN o ELSE [@ EXCEPT !.status = o.status]]
             /\ backoff' \subseteq backoff \union {j.row}
      BY <1>9 DEF UpdateDelivery
    <2>9. CASE UNCHANGED <<delivery, backoff>>
      <3>1. WebhookTypeOK'
        BY <1>0, <2>7, <2>9 DEF WebhookTypeOK
      <3>2. \A u \in Threads : \/ active'[u] = Idling /\ reply'[u] = "none"
                               \/ active'[u] = active[u] /\ reply'[u] = reply[u]
        BY <1>0, <2>7 DEF WebhookTypeOK
      <3>3. QED
        BY <2>7, <2>9, <3>1, <3>2, WebhookFrame
    <2>10. CASE /\ delivery' = [delivery EXCEPT ![j.row] =
                                IF o.status = "scheduled" THEN o ELSE [@ EXCEPT !.status = o.status]]
                /\ backoff' \subseteq backoff \union {j.row}
      <3>1. delivery'[j.row] = IF o.status = "scheduled" THEN o
                               ELSE [delivery[j.row] EXCEPT !.status = o.status]
        BY <1>0, <2>1, <2>10 DEF WebhookTypeOK
      <3>2. \A w \in Rows : w # j.row => delivery'[w] = delivery[w]
        BY <1>0, <2>10 DEF WebhookTypeOK
      <3>3. o.status = "scheduled" => o = [status |-> "scheduled", attempt |-> o.attempt]
        BY <2>2 DEF Outcome
      <3>4. /\ delivery'[j.row] \in [status : {"absent", "pending", "scheduled", "delivered", "failed"},
                                     attempt : Attempts]
            /\ delivery'[j.row].status = o.status
            /\ o.status = "scheduled" => delivery'[j.row].attempt = o.attempt
        <4>1. CASE o.status = "scheduled"
          <5>1. delivery'[j.row] = o
            BY <3>1, <4>1
          <5>2. o \in [status : {"absent", "pending", "scheduled", "delivered", "failed"},
                       attempt : Attempts]
            BY <2>5, <3>3, <4>1
          <5>3. QED
            BY <4>1, <5>1, <5>2
        <4>2. CASE o.status # "scheduled"
          <5>1. delivery'[j.row] = [delivery[j.row] EXCEPT !.status = o.status]
            BY <3>1, <4>2
          <5>2. delivery[j.row] \in [status : {"absent", "pending", "scheduled", "delivered", "failed"},
                                    attempt : Attempts]
            BY <1>0, <2>1 DEF WebhookTypeOK
          <5>3. QED
            BY <2>6, <4>2, <5>1, <5>2
        <4>3. QED
          BY <4>1, <4>2
      <3>5. WebhookTypeOK'
        <4>1. delivery' \in [Rows -> [status : {"absent", "pending", "scheduled", "delivered", "failed"},
                                      attempt : Attempts]]
          BY <1>0, <2>10, <3>2, <3>4 DEF WebhookTypeOK
        <4>2. backoff' \subseteq Rows
          BY <1>0, <2>1, <2>10 DEF WebhookTypeOK
        <4>3. QED
          BY <1>0, <2>7, <4>1, <4>2 DEF WebhookTypeOK
      <3>6. \A u \in Threads : active'[u] = IF u = t THEN Idling ELSE active[u]
        BY <1>0, <2>7 DEF WebhookTypeOK
      <3>7. \A u \in Threads : reply'[u] = IF u = t THEN "none" ELSE reply[u]
        BY <1>0, <2>7 DEF WebhookTypeOK
      <3>8. AttemptsOK'
        <4>1. \A w \in Rows : delivery'[w].status = "scheduled" => MadeBefore(w, delivery'[w].attempt)
          BY <1>0, <2>5, <3>2, <3>4 DEF AttemptsOK, Scheduled
        <4>2. QED
          BY <1>0, <2>7, <3>6, <4>1 DEF AttemptsOK, MadeBefore, Scheduled
      <3>9. RepliesOK'
        BY <1>0, <2>7, <3>6, <3>7 DEF RepliesOK
      <3>10. DeliveredWasAccepted'
        BY <1>0, <2>3, <2>7, <3>2, <3>4 DEF DeliveredWasAccepted
      <3>11. GivesUpAfterMaxRetries'
        BY <1>0, <2>4, <2>7, <3>2, <3>4 DEF GivesUpAfterMaxRetries
      <3>12. QED
        BY <3>5, <3>8, <3>9, <3>10, <3>11 DEF WebhookInv
    <2>11. QED
      BY <2>8, <2>9, <2>10
  <1>10. ASSUME NEW t \in Threads, UpdateLost(t) PROVE WebhookInv'
    <2>1. webhookFaults' \in 0 .. MaxWebhookFaults
      BY <1>0, <1>10, WebhookFaultsCount DEF UpdateLost
    <2>2. WebhookTypeOK'
      BY <1>0, <1>10, <2>1 DEF UpdateLost, WebhookTypeOK
    <2>3. \A u \in Threads : \/ active'[u] = Idling /\ reply'[u] = "none"
                             \/ active'[u] = active[u] /\ reply'[u] = reply[u]
      BY <1>0, <1>10 DEF UpdateLost, WebhookTypeOK
    <2>4. QED
      BY <1>10, <2>2, <2>3, WebhookFrame DEF UpdateLost
  <1>11. ASSUME NEW w \in Rows, RetryIsDue(w) PROVE WebhookInv'
    <2>1. WebhookTypeOK'
      BY <1>0, <1>11 DEF RetryIsDue, WebhookTypeOK
    <2>2. QED
      BY <1>11, <2>1, WebhookFrame DEF RetryIsDue
  <1>12. CASE UNCHANGED webhookVars
    <2>1. WebhookTypeOK'
      BY <1>0, <1>12 DEF webhookVars, WebhookTypeOK
    <2>2. QED
      BY <1>12, <2>1, WebhookFrame DEF webhookVars
  <1>13. QED
    BY <1>1, <1>2, <1>3, <1>4, <1>5, <1>6, <1>7, <1>8, <1>9, <1>10, <1>11, <1>12
    DEF WebhookNext, DeliverAndUpdate

\* The invariant of the deliveries holds in every behaviour.
LEMMA AlwaysWebhookInv == WebhookSpec => []WebhookInv
  BY InitWebhookInv, NextWebhookInv, PTL DEF WebhookSpec

\* Columns and locals of webhook-service keep to their types: no attempt beyond
\* max_retries is ever scheduled or made.
THEOREM DeliveriesAreTyped == WebhookSpec => []WebhookTypeOK
  BY AlwaysWebhookInv, PTL DEF WebhookInv

\* scheduleFailure gives a delivery up only after max_retries real attempts, or
\* for an endpoint whose secret is unreadable.
THEOREM GivenUpAfterAllAttempts == WebhookSpec => []GivesUpAfterMaxRetries
  BY AlwaysWebhookInv, PTL DEF WebhookInv

\* What deliverAndUpdate stores as delivered was accepted, however stale the
\* thread that stores it.
THEOREM DeliveredIsTrue == WebhookSpec => []DeliveredWasAccepted
  BY AlwaysWebhookInv, PTL DEF WebhookInv

-----------------------------------------------------------------------------
(* Where deliveries come from *)

Bus(d) == <<d, "bus">>
Ticker(d) == <<d, "ticker">>

\* A row for which nothing was done yet.
Untouched(w) == delivery[w].status = "absent" /\ posts[w][1] = 0

\* What a callback inserts is its own, and comes once: it makes the first
\* attempt, of a row that no message in its inbox will bring again.
FirstAttempt(d, j, r) ==
  /\ j.attempt = 1 /\ j.row[1] = d /\ j.row[3] \notin inbox[d] /\ j.row \notin todo[d]
  /\ r = "none" => posts[j.row][1] = 0

BusOf(d) ==
  /\ jobs[Bus(d)] = {}
  /\ \A w \in Rows : w[1] = d /\ w[3] \in inbox[d] => Untouched(w)
  /\ \A w \in todo[d] : w[1] = d /\ w[3] \notin inbox[d] /\ Untouched(w)
  /\ active[Bus(d)] # Idling => FirstAttempt(d, active[Bus(d)], reply[Bus(d)])

\* What a ticker repeats was scheduled once: it is not pending any more.
Repeated(j) == j.attempt > 1 /\ delivery[j.row].status \notin {"absent", "pending"}

\* The ticker has read a row at most once.
TickerOf(d) ==
  /\ \A j \in jobs[Ticker(d)] : Repeated(j) /\ j.row # active[Ticker(d)].row
  /\ \A i, j \in jobs[Ticker(d)] : i.row = j.row => i = j
  /\ active[Ticker(d)] # Idling => Repeated(active[Ticker(d)])

\* The first attempt is made once, and only later ones are scheduled.
FirstOK ==
  \A w \in Rows : posts[w][1] <= 1 /\ (Scheduled(w) => delivery[w].attempt > 1)

OriginInv == (\A d \in Dispatchers : BusOf(d) /\ TickerOf(d)) /\ FirstOK

\* The dispatchers whose ticker may still make this attempt with what it has
\* read or can read, and the threads that will schedule the attempt after it.
Ready(w, a) ==
  {d \in Dispatchers :
     LET t == Ticker(d)
         j == [row |-> w, attempt |-> a]
     IN \/ j \in jobs[t]
        \/ active[t] = j /\ reply[t] = "none"
        \/ Scheduled(w) /\ delivery[w].attempt = a /\ active[t] # j}

Refused(w, a) ==
  {t \in Threads : active[t] = [row |-> w, attempt |-> a] /\ reply[t] = "refused"}

\* Deliveries that nobody works on or selects any more.
Stranded ==
  {w \in Rows : delivery[w].status = "pending" /\ \A t \in Threads : active[t].row # w}

\* The two threads of a dispatcher.
LEMMA TwoThreads ==
  /\ \A d \in Dispatchers : Bus(d) \in Threads /\ Ticker(d) \in Threads
  /\ \A d, e \in Dispatchers : Bus(d) # Ticker(e)
  /\ \A d, e \in Dispatchers : Bus(d) = Bus(e) \/ Ticker(d) = Ticker(e) => d = e
  /\ \A t \in Threads : \E d \in Dispatchers : t[1] = d /\ (t = Bus(d) \/ t = Ticker(d))
  BY DEF Threads, Bus, Ticker

\* A row is named by its three parts, and is not what an idle thread has.
LEMMA RowParts ==
  /\ \A w \in Rows : w[1] \in Dispatchers /\ w[2] \in Endpoints /\ w[3] \in Messages /\ w # <<>>
  /\ Idling.row = <<>>
  BY DEF Rows, Idling

\* What a thread has in hand.
LEMMA JobParts ==
  ASSUME WebhookTypeOK
  PROVE  /\ \A t \in Threads : \A j \in jobs[t] : j \in Job /\ j.row \in Rows /\ j.attempt \in Attempts
         /\ \A t \in Threads : active[t] # Idling =>
              active[t] \in Job /\ active[t].row \in Rows /\ active[t].attempt \in Attempts
  BY DEF WebhookTypeOK, Job

\* At first nothing is stored or sent.
LEMMA InitOrigin == WebhookInit => OriginInv
  <1> SUFFICES ASSUME WebhookInit PROVE OriginInv
    OBVIOUS
  <1>1. 1 \in Attempts
    BY DEF Attempts
  <1>2. \A w \in Rows : Untouched(w)
    BY <1>1 DEF WebhookInit, Untouched
  <1>3. ASSUME NEW d \in Dispatchers PROVE BusOf(d) /\ TickerOf(d)
    BY <1>2, TwoThreads DEF WebhookInit, BusOf, TickerOf
  <1>4. FirstOK
    BY <1>1 DEF WebhookInit, FirstOK, Scheduled
  <1>5. QED
    BY <1>3, <1>4 DEF OriginInv

\* A step that writes no delivery, sends nothing and gives no thread anything
\* to do keeps the order of things.
LEMMA OriginFrame ==
  ASSUME WebhookTypeOK, OriginInv, UNCHANGED <<delivery, posts>>,
         \A d \in Dispatchers : inbox'[d] \subseteq inbox[d] /\ todo'[d] \subseteq todo[d],
         \A t \in Threads :
           /\ jobs'[t] \subseteq jobs[t]
           /\ \/ active'[t] = Idling
              \/ /\ active'[t] = active[t]
                 /\ reply'[t] = reply[t] \/ reply'[t] # "none"
  PROVE  OriginInv'
  <1>1. \A w : Untouched(w) => Untouched(w)'
    BY DEF Untouched
  <1>2. \A j : Repeated(j) => Repeated(j)'
    BY DEF Repeated
  <1>3. ASSUME NEW d \in Dispatchers PROVE BusOf(d)'
    <2>1. Bus(d) \in Threads /\ BusOf(d)
      BY TwoThreads DEF OriginInv
    <2>2. active'[Bus(d)] # Idling => FirstAttempt(d, active[Bus(d)], reply[Bus(d)])'
      BY <2>1 DEF BusOf, FirstAttempt
    <2>3. QED
      BY <1>1, <2>1, <2>2 DEF BusOf
  <1>4. ASSUME NEW d \in Dispatchers PROVE TickerOf(d)'
    <2>1. Ticker(d) \in Threads /\ TickerOf(d)
      BY TwoThreads DEF OriginInv
    <2>2. \A j \in jobs[Ticker(d)] : j.row # <<>>
      BY <2>1, JobParts, RowParts
    <2>3. QED
      BY <1>2, <2>1, <2>2, RowParts DEF TickerOf
  <1>5. FirstOK'
    BY DEF OriginInv, FirstOK, Scheduled
  <1>6. QED
    BY <1>3, <1>4, <1>5 DEF OriginInv

\* A callback keeps its order if nobody touches the rows that wait for it, and
\* it goes on as it was or rests.
LEMMA BusKeeps ==
  ASSUME NEW d \in Dispatchers, BusOf(d),
         inbox'[d] \subseteq inbox[d], todo'[d] \subseteq todo[d], todo[d] \subseteq Rows,
         \A w \in Rows : (w[1] = d /\ w[3] \in inbox'[d]) \/ w \in todo'[d] =>
           (Untouched(w) => Untouched(w)'),
         jobs'[Bus(d)] \subseteq jobs[Bus(d)],
         \/ active'[Bus(d)] = Idling
         \/ /\ active'[Bus(d)] = active[Bus(d)]
            /\ \/ reply'[Bus(d)] # "none"
               \/ /\ reply'[Bus(d)] = reply[Bus(d)]
                  /\ active[Bus(d)] # Idling =>
                       posts'[active[Bus(d)].row][1] = posts[active[Bus(d)].row][1]
  PROVE  BusOf(d)'
  <1>1. active'[Bus(d)] # Idling => FirstAttempt(d, active[Bus(d)], reply[Bus(d)])'
    BY DEF BusOf, FirstAttempt
  <1>2. \A w \in todo'[d] : w \in Rows /\ Untouched(w)'
    BY DEF BusOf
  <1>3. \A w \in Rows : w[1] = d /\ w[3] \in inbox'[d] => Untouched(w)'
    BY DEF BusOf
  <1>4. QED
    BY <1>1, <1>2, <1>3 DEF BusOf

\* And so does a ticker, if what was scheduled does not become pending.
LEMMA TickerKeeps ==
  ASSUME WebhookTypeOK, NEW d \in Dispatchers, TickerOf(d),
         \A w \in Rows : delivery[w].status \notin {"absent", "pending"} =>
                         delivery'[w].status \notin {"absent", "pending"},
         jobs'[Ticker(d)] \subseteq jobs[Ticker(d)],
         active'[Ticker(d)] \in {Idling, active[Ticker(d)]}
  PROVE  TickerOf(d)'
  <1>1. \A j : j.row \in Rows /\ Repeated(j) => Repeated(j)'
    BY DEF Repeated
  <1>2. Ticker(d) \in Threads
    BY TwoThreads
  <1>3. \A j \in jobs[Ticker(d)] : j.row \in Rows /\ j.row # <<>>
    BY <1>2, JobParts, RowParts
  <1>4. active[Ticker(d)] # Idling => active[Ticker(d)].row \in Rows
    BY <1>2, JobParts
  <1>5. QED
    BY <1>1, <1>3, <1>4, RowParts DEF TickerOf

\* Every step keeps the order of things.
LEMMA NextOrigin ==
  ASSUME WebhookInv, OriginInv, [WebhookNext]_webhookVars
  PROVE  OriginInv'
  <1>0. WebhookTypeOK /\ FirstOK /\ RepliesOK
    BY DEF WebhookInv, OriginInv
  <1>d. \A d \in Dispatchers : /\ BusOf(d) /\ TickerOf(d)
                               /\ Bus(d) \in Threads /\ Ticker(d) \in Threads /\ todo[d] \subseteq Rows
    BY <1>0, TwoThreads DEF OriginInv, WebhookTypeOK
  <1>j. /\ \A t \in Threads : \A j \in jobs[t] : j.row \in Rows
        /\ \A t \in Threads : active[t] # Idling => active[t].row \in Rows /\ active[t].attempt \in Attempts
    BY <1>0, JobParts
  <1>1. ASSUME NEW d \in Dispatchers, NEW m \in Messages, HandleIncoming(d, m)
        PROVE  OriginInv'
    <2> DEFINE X == {<<d, p, m>> : p \in {q \in Endpoints : EventAllowed(q, m)}}
    <2>1. /\ m \in inbox[d] /\ active[Bus(d)] = Idling
          /\ \A e \in Dispatchers : inbox'[e] = IF e = d THEN inbox[e] \ {m} ELSE inbox[e]
          /\ \A e \in Dispatchers : todo'[e] = IF e = d THEN X ELSE todo[e]
          /\ UNCHANGED <<delivery, posts, jobs, active, reply>>
      BY <1>0, <1>1 DEF HandleIncoming, WebhookTypeOK, Bus
    <2>2. \A w \in X : w \in Rows /\ w[1] = d /\ w[3] = m
      BY DEF Rows
    <2>3. \A w : Untouched(w) => Untouched(w)'
      BY <2>1 DEF Untouched
    <2> HIDE DEF X
    <2>4. ASSUME NEW e \in Dispatchers PROVE BusOf(e)'
      <3>1. CASE e # d
        BY <1>d, <2>1, <2>3, <3>1, BusKeeps
      <3>2. CASE e = d
        <4>1. \A w \in X : Untouched(w)
          BY <1>d, <2>1, <2>2 DEF BusOf
        <4>2. todo'[d] = X /\ inbox'[d] = inbox[d] \ {m}
          BY <2>1
        <4>3. \A w \in todo'[d] : w[1] = d /\ w[3] \notin inbox'[d] /\ Untouched(w)'
          BY <2>2, <2>3, <4>1, <4>2
        <4>4. \A w \in Rows : w[1] = d /\ w[3] \in inbox'[d] => Untouched(w)'
          BY <1>d, <2>3, <4>2 DEF BusOf
        <4>5. jobs'[Bus(d)] = {} /\ active'[Bus(d)] = Idling
          BY <1>d, <2>1 DEF BusOf
        <4>6. QED
          BY <3>2, <4>3, <4>4, <4>5 DEF BusOf
      <3>3. QED
        BY <3>1, <3>2
    <2>5. ASSUME NEW e \in Dispatchers PROVE TickerOf(e)'
      BY <1>0, <1>d, <2>1, TickerKeeps
    <2>6. FirstOK'
      BY <1>0, <2>1 DEF FirstOK, Scheduled
    <2>7. QED
      BY <2>4, <2>5, <2>6 DEF OriginInv
  <1>2. ASSUME NEW d \in Dispatchers, NEW m \in Messages, LoseMessage(d, m)
        PROVE  OriginInv'
    <2>1. \A e \in Dispatchers : inbox'[e] \subseteq inbox[e]
      BY <1>0, <1>2 DEF LoseMessage, WebhookTypeOK
    <2>2. QED
      BY <1>0, <1>2, <2>1, OriginFrame DEF LoseMessage
  <1>3. ASSUME NEW d \in Dispatchers, NEW v \in todo[d], InsertDelivery(d, v)
        PROVE  OriginInv'
    <2> DEFINE j == [row |-> v, attempt |-> 1]
    <2>1. /\ v \in Rows /\ j # Idling /\ v[1] = d /\ v[3] \notin inbox[d] /\ Untouched(v)
          /\ j.row = v /\ j.attempt = 1
      BY <1>d DEF BusOf, Idling
    <2>2. /\ UNCHANGED <<inbox, jobs, reply, posts>>
          /\ \A u \in Threads : active'[u] = IF u = Bus(d) THEN j ELSE active[u]
          /\ \A e \in Dispatchers : todo'[e] = IF e = d THEN todo[e] \ {v} ELSE todo[e]
      BY <1>0, <1>3, <2>1 DEF InsertDelivery, WebhookTypeOK, Bus
    <2>3. /\ \A w \in Rows : w # v => delivery'[w] = delivery[w]
          /\ delivery'[v].status = "pending" \/ delivery'[v] = delivery[v]
      BY <1>0, <1>3, <2>1 DEF InsertDelivery, WebhookTypeOK
    <2>4. posts[v][1] = 0 /\ delivery[v].status = "absent"
      BY <2>1 DEF Untouched
    <2>5. \A w \in Rows : w # v /\ Untouched(w) => Untouched(w)'
      BY <2>2, <2>3 DEF Untouched
    <2> HIDE DEF j
    <2>6. ASSUME NEW e \in Dispatchers PROVE BusOf(e)'
      <3>1. \A w \in todo'[e] : w \in todo[e] /\ w \in Rows /\ w # v
        <4>1. e = d => todo'[e] = todo[e] \ {v}
          BY <2>2
        <4>2. e # d => todo'[e] = todo[e] /\ \A w \in todo[e] : w[1] = e
          BY <1>d, <2>2 DEF BusOf
        <4>3. todo[e] \subseteq Rows
          BY <1>d
        <4>4. QED
          BY <2>1, <4>1, <4>2, <4>3
      <3>2. \A w \in Rows : w[1] = e /\ w[3] \in inbox[e] => w # v
        BY <2>1
      <3>3. CASE e = d
        <4>1. active'[Bus(e)] = j /\ jobs'[Bus(e)] = {}
          BY <1>d, <2>2, <3>3 DEF BusOf
        <4>2. FirstAttempt(e, active[Bus(e)], reply[Bus(e)])'
          BY <2>1, <2>2, <2>4, <3>1, <3>3, <4>1 DEF FirstAttempt
        <4>3. QED
          BY <1>d, <2>2, <2>5, <3>1, <3>2, <4>1, <4>2 DEF BusOf
      <3>4. CASE e # d
        <4>1. Bus(e) # Bus(d)
          BY <3>4, TwoThreads
        <4>2. QED
          BY <1>d, <2>2, <2>5, <3>1, <3>2, <4>1, BusKeeps
      <3>5. QED
        BY <3>3, <3>4
    <2>7. ASSUME NEW e \in Dispatchers PROVE TickerOf(e)'
      <3>1. Ticker(e) # Bus(d)
        BY TwoThreads
      <3>2. \A w \in Rows : delivery[w].status \notin {"absent", "pending"} =>
                            delivery'[w].status \notin {"absent", "pending"}
        BY <2>3, <2>4
      <3>3. QED
        BY <1>0, <1>d, <2>2, <3>1, <3>2, TickerKeeps
    <2>8. FirstOK'
      BY <1>0, <2>2, <2>3 DEF FirstOK, Scheduled
    <2>9. QED
      BY <2>6, <2>7, <2>8 DEF OriginInv
  <1>4. ASSUME NEW d \in Dispatchers, ProcessScheduled(d) PROVE OriginInv'
    <2> DEFINE S == {w \in Rows \ backoff : Scheduled(w)}
               J == {[row |-> w, attempt |-> delivery[w].attempt] : w \in S}
    <2>1. /\ active[Ticker(d)] = Idling
          /\ \A u \in Threads : jobs'[u] = IF u = Ticker(d) THEN J ELSE jobs[u]
          /\ UNCHANGED <<delivery, inbox, todo, active, reply, posts>>
      BY <1>0, <1>4 DEF ProcessScheduled, WebhookTypeOK, Ticker
    <2>2. \A j \in J : Repeated(j) /\ j.row \in Rows /\ j.attempt = delivery[j.row].attempt
                       /\ j = [row |-> j.row, attempt |-> j.attempt]
      BY <1>0 DEF FirstOK, Repeated, Scheduled
    <2> HIDE DEF J
    <2>3. \A i, j \in J : i.row = j.row => i = j
      BY <2>2
    <2>4. \A j : Repeated(j) => Repeated(j)'
      BY <2>1 DEF Repeated
    <2>5. \A w : Untouched(w) => Untouched(w)'
      BY <2>1 DEF Untouched
    <2>6. ASSUME NEW e \in Dispatchers PROVE BusOf(e)'
      <3>1. Bus(e) # Ticker(d)
        BY TwoThreads
      <3>2. QED
        BY <1>d, <2>1, <2>5, <3>1, BusKeeps
    <2>7. ASSUME NEW e \in Dispatchers PROVE TickerOf(e)'
      <3>1. CASE e = d
        BY <1>d, <2>1, <2>2, <2>3, <2>4, <3>1, RowParts DEF TickerOf
      <3>2. CASE e # d
        <4>1. Ticker(e) # Ticker(d)
          BY <3>2, TwoThreads
        <4>2. QED
          BY <1>0, <1>d, <2>1, <4>1, TickerKeeps
      <3>3. QED
        BY <3>1, <3>2
    <2>8. FirstOK'
      BY <1>0, <2>1 DEF FirstOK, Scheduled
    <2>9. QED
      BY <2>6, <2>7, <2>8 DEF OriginInv
  <1>5. ASSUME NEW d \in Dispatchers, DispatcherCrashes(d) PROVE OriginInv'
    <2>1. /\ UNCHANGED <<delivery, posts>>
          /\ \A e \in Dispatchers : inbox'[e] \subseteq inbox[e] /\ todo'[e] \subseteq todo[e]
          /\ \A t \in Threads : \/ jobs'[t] = {} /\ active'[t] = Idling
                                \/ jobs'[t] = jobs[t] /\ active'[t] = active[t] /\ reply'[t] = reply[t]
      BY <1>0, <1>5 DEF DispatcherCrashes, WebhookTypeOK
    <2>2. QED
      BY <1>0, <2>1, OriginFrame
  <1>6. ASSUME NEW t \in Threads, NEW j \in jobs[t], NextScheduled(t, j) PROVE OriginInv'
    <2>1. /\ active[t] = Idling
          /\ \A u \in Threads : jobs'[u] = IF u = t THEN jobs[u] \ {j} ELSE jobs[u]
          /\ \A u \in Threads : active'[u] = IF u = t THEN j ELSE active[u]
          /\ UNCHANGED <<delivery, inbox, todo, reply, posts>>
      BY <1>0, <1>6 DEF NextScheduled, WebhookTypeOK
    <2>2. PICK d \in Dispatchers : t = Ticker(d)
      BY <1>d, TwoThreads DEF BusOf
    <2>3. Repeated(j) /\ \A i \in jobs[t] : i # j => i.row # j.row
      BY <1>d, <2>2 DEF TickerOf
    <2>4. \A i : Repeated(i) => Repeated(i)'
      BY <2>1 DEF Repeated
    <2>5. \A w : Untouched(w) => Untouched(w)'
      BY <2>1 DEF Untouched
    <2>6. ASSUME NEW e \in Dispatchers PROVE BusOf(e)'
      <3>1. Bus(e) # t
        BY <2>2, TwoThreads
      <3>2. QED
        BY <1>d, <2>1, <2>5, <3>1, BusKeeps
    <2>7. ASSUME NEW e \in Dispatchers PROVE TickerOf(e)'
      <3>1. CASE e = d
        BY <1>d, <2>1, <2>2, <2>3, <2>4, <3>1 DEF TickerOf
      <3>2. CASE e # d
        <4>1. Ticker(e) # t
          BY <2>2, <3>2, TwoThreads
        <4>2. QED
          BY <1>0, <1>d, <2>1, <4>1, TickerKeeps
      <3>3. QED
        BY <3>1, <3>2
    <2>8. FirstOK'
      BY <1>0, <2>1 DEF FirstOK, Scheduled
    <2>9. QED
      BY <2>6, <2>7, <2>8 DEF OriginInv
  <1>7. ASSUME NEW t \in Threads, DecryptFails(t) PROVE OriginInv'
    <2>1. \A u \in Threads : reply'[u] = reply[u] \/ reply'[u] # "none"
      BY <1>0, <1>7 DEF DecryptFails, WebhookTypeOK
    <2>2. QED
      BY <1>0, <1>7, <2>1, OriginFrame DEF DecryptFails
  <1>8. ASSUME NEW t \in Threads, Post(t) PROVE OriginInv'
    <2> DEFINE j == active[t]
    <2>1. /\ j # Idling /\ reply[t] = "none" /\ reply'[t] # "none"
          /\ \A u \in Threads : u # t => reply'[u] = reply[u]
          /\ UNCHANGED <<delivery, inbox, todo, jobs, active>>
      BY <1>0, <1>8 DEF Post, WebhookTypeOK
    <2>2. j.row \in Rows /\ j.attempt \in Attempts /\ 1 \in Attempts
      <3>1. 1 \in Attempts
        BY DEF Attempts
      <3>2. QED
        BY <1>j, <2>1, <3>1
    <2>3. \A w \in Rows, a \in Attempts :
            posts'[w][a] = IF w = j.row /\ a = j.attempt THEN posts[w][a] + 1 ELSE posts[w][a]
      BY <1>0, <1>8, <2>2 DEF Post, WebhookTypeOK
    <2>4. ASSUME NEW e \in Dispatchers PROVE TickerOf(e)'
      BY <1>0, <1>d, <2>1, TickerKeeps
    <2>5. CASE \E d \in Dispatchers : t = Bus(d)
      <3>1. PICK d \in Dispatchers : t = Bus(d)
        BY <2>5
      <3>2. /\ j.attempt = 1 /\ j.row[1] = d /\ j.row[3] \notin inbox[d] /\ j.row \notin todo[d]
            /\ posts[j.row][1] = 0
        BY <1>d, <2>1, <3>1 DEF BusOf, FirstAttempt
      <3>3. \A w \in Rows : w # j.row => posts'[w][1] = posts[w][1] /\ (Untouched(w) => Untouched(w)')
        BY <2>1, <2>2, <2>3 DEF Untouched
      <3>4. ASSUME NEW e \in Dispatchers PROVE BusOf(e)'
        <4>1. \A w \in Rows : w[1] = e /\ w[3] \in inbox[e] => w # j.row
          BY <3>2
        <4>2. \A w \in todo[e] : w \in Rows /\ w # j.row
          BY <1>d, <3>2 DEF BusOf
        <4>3. Bus(e) # t /\ active[Bus(e)] # Idling =>
                active[Bus(e)].row \in Rows /\ active[Bus(e)].row # j.row
          BY <1>d, <1>j, <3>1, <3>2 DEF BusOf, FirstAttempt
        <4>4. QED
          BY <1>d, <2>1, <3>1, <3>3, <4>1, <4>2, <4>3, BusKeeps
      <3>5. FirstOK'
        BY <1>0, <2>1, <2>2, <2>3, <3>2, <3>3 DEF FirstOK, Scheduled
      <3>6. QED
        BY <2>4, <3>4, <3>5 DEF OriginInv
    <2>6. CASE \E d \in Dispatchers : t = Ticker(d)
      <3>1. PICK d \in Dispatchers : t = Ticker(d)
        BY <2>6
      <3>2. j.attempt > 1
        BY <1>d, <2>1, <3>1 DEF TickerOf, Repeated
      <3>3. \A w \in Rows : posts'[w][1] = posts[w][1]
        BY <2>2, <2>3, <3>2
      <3>4. \A w \in Rows : Untouched(w) => Untouched(w)'
        BY <2>1, <3>3 DEF Untouched
      <3>5. ASSUME NEW e \in Dispatchers PROVE BusOf(e)'
        <4>1. Bus(e) # t
          BY <3>1, TwoThreads
        <4>2. active[Bus(e)] # Idling => active[Bus(e)].row \in Rows
          BY <1>d, <1>j
        <4>3. QED
          BY <1>d, <2>1, <3>3, <3>4, <4>1, <4>2, BusKeeps
      <3>6. FirstOK'
        BY <1>0, <2>1, <3>3 DEF FirstOK, Scheduled
      <3>7. QED
        BY <2>4, <3>5, <3>6 DEF OriginInv
    <2>7. QED
      BY <2>5, <2>6, TwoThreads
  <1>9. ASSUME NEW t \in Threads, UpdateDelivery(t) PROVE OriginInv'
    <2> DEFINE j == active[t]
               o == Outcome(j.attempt, reply[t])
    <2>1. /\ j # Idling /\ UNCHANGED <<inbox, todo, jobs, posts>>
          /\ \A u \in Threads : active'[u] = IF u = t THEN Idling ELSE active[u]
          /\ \A u \in Threads : u # t => reply'[u] = reply[u]
      BY <1>0, <1>9 DEF UpdateDelivery, WebhookTypeOK
    <2>2. j.row \in Rows /\ j.attempt \in Attempts
      BY <1>j, <2>1
    <2>3. /\ o.status \in {"delivered", "failed", "scheduled"}
          /\ o.status = "scheduled" => o.attempt = j.attempt + 1
      BY DEF Outcome
    <2>4. CASE UNCHANGED delivery
      BY <1>0, <2>1, <2>4, OriginFrame
    <2>5. CASE /\ delivery[j.row].status # "absent"
               /\ delivery' = [delivery EXCEPT ![j.row] =
                                IF o.status = "scheduled" THEN o ELSE [@ EXCEPT !.status = o.status]]
      <3> HIDE DEF o
      <3>1. /\ delivery'[j.row].status = o.status
            /\ o.status = "scheduled" => delivery'[j.row].attempt = o.attempt
            /\ \A w \in Rows : w # j.row => delivery'[w] = delivery[w]
        <4>1. delivery[j.row] \in [status : {"absent", "pending", "scheduled", "delivered", "failed"},
                                   attempt : Attempts]
          BY <1>0, <2>2 DEF WebhookTypeOK
        <4>2. delivery'[j.row] = IF o.status = "scheduled" THEN o
                                 ELSE [delivery[j.row] EXCEPT !.status = o.status]
          BY <1>0, <2>2, <2>5 DEF WebhookTypeOK
        <4>3. \A w \in Rows : w # j.row => delivery'[w] = delivery[w]
          BY <1>0, <2>5 DEF WebhookTypeOK
        <4>4. QED
          BY <4>1, <4>2, <4>3
      <3>2. \A w \in Rows : Untouched(w) => Untouched(w)'
        BY <2>1, <2>5, <3>1 DEF Untouched
      <3>3. \A w \in Rows : delivery[w].status \notin {"absent", "pending"} =>
                            delivery'[w].status \notin {"absent", "pending"}
        BY <2>3, <3>1
      <3>4. ASSUME NEW e \in Dispatchers PROVE BusOf(e)' /\ TickerOf(e)'
        <4>1. BusOf(e)'
          BY <1>d, <2>1, <3>2, BusKeeps
        <4>2. TickerOf(e)'
          BY <1>0, <1>d, <2>1, <3>3, TickerKeeps
        <4>3. QED
          BY <4>1, <4>2
      <3>5. FirstOK'
        <4>1. j.attempt \in Nat \ {0}
          BY <2>2 DEF Attempts
        <4>2. QED
          BY <1>0, <2>1, <2>3, <3>1, <4>1 DEF FirstOK, Scheduled
      <3>6. QED
        BY <3>4, <3>5 DEF OriginInv
    <2>6. QED
      BY <1>9, <2>4, <2>5 DEF UpdateDelivery
  <1>10. ASSUME NEW t \in Threads, UpdateLost(t) PROVE OriginInv'
    <2>1. \A u \in Threads : active'[u] = Idling \/ (active'[u] = active[u] /\ reply'[u] = reply[u])
      BY <1>0, <1>10 DEF UpdateLost, WebhookTypeOK
    <2>2. QED
      BY <1>0, <1>10, <2>1, OriginFrame DEF UpdateLost
  <1>11. ASSUME NEW w \in Rows, RetryIsDue(w) PROVE OriginInv'
    BY <1>0, <1>11, OriginFrame DEF RetryIsDue
  <1>12. CASE UNCHANGED webhookVars
    BY <1>0, <1>12, OriginFrame DEF webhookVars
  <1>13. QED
    BY <1>1, <1>2, <1>3, <1>4, <1>5, <1>6, <1>7, <1>8, <1>9, <1>10, <1>11, <1>12
    DEF WebhookNext, DeliverAndUpdate

-----------------------------------------------------------------------------
(* Stranded deliveries *)

\* What a set of deliveries has cost.
PaidFor(S, f) == IsFiniteSet(S) /\ Cardinality(S) <= f

\* One more for a failure.
LEMMA OneForFault ==
  ASSUME NEW S, NEW T, NEW w, NEW f \in Nat, PaidFor(S, f), T \subseteq S \cup {w}
  PROVE  PaidFor(T, f + 1)
  <1>1. /\ IsFiniteSet(T) /\ Cardinality(S) \in Nat /\ Cardinality(T) \in Nat
        /\ Cardinality(T) <= Cardinality(S) + 1
    BY OneMore DEF PaidFor
  <1>2. QED
    BY <1>1 DEF PaidFor

\* At first there is none.
LEMMA InitStranded == WebhookInit => PaidFor(Stranded, webhookFaults)
  <1> SUFFICES ASSUME WebhookInit PROVE PaidFor(Stranded, webhookFaults)
    OBVIOUS
  <1>1. Stranded = {} /\ webhookFaults = 0
    BY DEF WebhookInit, Stranded
  <1>2. QED
    BY <1>1, FS_EmptySet DEF PaidFor

\* Each stranded delivery is paid for by the step that leaves it alone.
LEMMA NextStranded ==
  ASSUME WebhookInv, WebhookInv', OriginInv, [WebhookNext]_webhookVars,
         PaidFor(Stranded, webhookFaults)
  PROVE  PaidFor(Stranded', webhookFaults')
  <1> DEFINE S == Stranded
             T == Stranded'
  <1>0. /\ WebhookTypeOK /\ webhookFaults \in Nat /\ webhookFaults' \in Nat
        /\ \A w \in Rows : w # <<>>
        /\ Idling.row = <<>>
    BY RowParts DEF WebhookInv, WebhookTypeOK
  <1>d. \A d \in Dispatchers : TickerOf(d) /\ (\A w \in todo[d] : w \in Rows /\ Untouched(w))
    BY <1>0 DEF OriginInv, BusOf, WebhookTypeOK
  <1>j. /\ \A t \in Threads : \A j \in jobs[t] : j.row \in Rows
        /\ \A t \in Threads : active[t] # Idling => active[t].row \in Rows
    BY <1>0, JobParts
  <1>s. ASSUME T \subseteq S, webhookFaults <= webhookFaults' PROVE PaidFor(T, webhookFaults')
    BY <1>0, <1>s, NoMore DEF PaidFor
  <1>f. ASSUME NEW w, T \subseteq S \cup {w}, WebhookFault PROVE PaidFor(T, webhookFaults')
    <2>1. webhookFaults' = webhookFaults + 1
      BY <1>f DEF WebhookFault
    <2>2. QED
      BY <1>0, <1>f, <2>1, OneForFault
  <1>u. ASSUME UNCHANGED <<delivery, active, webhookFaults>> PROVE PaidFor(T, webhookFaults')
    <2>1. T \subseteq S
      BY <1>u DEF Stranded
    <2>2. QED
      BY <1>0, <1>u, <2>1, <1>s
  <1>1. ASSUME NEW d \in Dispatchers, NEW m \in Messages, HandleIncoming(d, m) \/ LoseMessage(d, m)
        PROVE  PaidFor(T, webhookFaults')
    BY <1>1, <1>u DEF HandleIncoming, LoseMessage
  <1>2. ASSUME NEW d \in Dispatchers, NEW v \in todo[d], InsertDelivery(d, v)
        PROVE  PaidFor(T, webhookFaults')
    <2>1. /\ v \in Rows /\ Bus(d) \in Threads
          /\ active[Bus(d)] = Idling
          /\ active' = [active EXCEPT ![Bus(d)] = [row |-> v, attempt |-> 1]]
          /\ \A w \in Rows : w # v => delivery'[w] = delivery[w]
      BY <1>0, <1>2, <1>d, TwoThreads DEF InsertDelivery, Bus, WebhookTypeOK
    <2>2. /\ active'[Bus(d)].row = v
          /\ \A u \in Threads : u # Bus(d) => active'[u] = active[u]
      BY <1>0, <2>1 DEF WebhookTypeOK
    <2>3. webhookFaults <= webhookFaults'
      BY <1>0, <1>2 DEF InsertDelivery, WebhookFault
    <2>4. T \subseteq S
      BY <1>0, <2>1, <2>2 DEF Stranded
    <2>5. QED
      BY <2>3, <2>4, <1>s
  <1>3. ASSUME NEW d \in Dispatchers, ProcessScheduled(d) PROVE PaidFor(T, webhookFaults')
    BY <1>3, <1>u DEF ProcessScheduled
  <1>4. ASSUME NEW d \in Dispatchers, DispatcherCrashes(d) PROVE PaidFor(T, webhookFaults')
    <2>1. /\ UNCHANGED delivery /\ WebhookFault
          /\ \A t \in Threads : t[1] # d => active'[t] = active[t]
      BY <1>4 DEF DispatcherCrashes
    <2>2. \A t \in Threads : t[1] = d => t = Bus(d) \/ t = Ticker(d)
      BY TwoThreads
    <2>3. \A w \in Rows : delivery[w].status = "pending" => active[Ticker(d)].row # w
      BY <1>0, <1>d DEF TickerOf, Repeated
    <2>4. T \subseteq S \cup {active[Bus(d)].row}
      BY <2>1, <2>2, <2>3 DEF Stranded
    <2>5. QED
      BY <2>1, <2>4, <1>f
  <1>5. ASSUME NEW t \in Threads, NEW j \in jobs[t], NextScheduled(t, j)
        PROVE  PaidFor(T, webhookFaults')
    <2>1. /\ UNCHANGED <<delivery, webhookFaults>> /\ active[t] = Idling
          /\ \A u \in Threads : u # t => active'[u] = active[u]
      BY <1>0, <1>5 DEF NextScheduled, WebhookTypeOK
    <2>2. T \subseteq S
      BY <1>0, <2>1 DEF Stranded
    <2>3. QED
      BY <1>0, <2>1, <2>2, <1>s
  <1>6. ASSUME NEW t \in Threads, DecryptFails(t) \/ Post(t) PROVE PaidFor(T, webhookFaults')
    BY <1>6, <1>u DEF DecryptFails, Post
  <1>7. ASSUME NEW t \in Threads, UpdateDelivery(t) PROVE PaidFor(T, webhookFaults')
    <2> DEFINE j == active[t]
               o == Outcome(j.attempt, reply[t])
    <2>1. /\ UNCHANGED webhookFaults /\ j # Idling
          /\ \A u \in Threads : u # t => active'[u] = active[u]
      BY <1>0, <1>7 DEF UpdateDelivery, WebhookTypeOK
    <2>2. j.row \in Rows /\ o.status # "pending"
      BY <1>j, <2>1 DEF Outcome
    <2>3. delivery'[j.row].status # "pending"
      <3>1. CASE delivery[j.row].status = "absent"
        BY <1>7, <3>1 DEF UpdateDelivery
      <3>2. CASE delivery[j.row].status # "absent"
        <4>1. delivery' = [delivery EXCEPT ![j.row] =
                            IF o.status = "scheduled" THEN o ELSE [@ EXCEPT !.status = o.status]]
          BY <1>7, <3>2 DEF UpdateDelivery
        <4>2. delivery[j.row] \in [status : {"absent", "pending", "scheduled", "delivered", "failed"},
                                   attempt : Attempts]
          BY <1>0, <2>2 DEF WebhookTypeOK
        <4>3. delivery'[j.row] = IF o.status = "scheduled" THEN o
                                 ELSE [delivery[j.row] EXCEPT !.status = o.status]
          BY <1>0, <2>2, <4>1 DEF WebhookTypeOK
        <4> HIDE DEF o
        <4>4. QED
          BY <2>2, <4>2, <4>3
      <3>3. QED
        BY <3>1, <3>2
    <2>4. \A w \in Rows : w # j.row => delivery'[w] = delivery[w]
      BY <1>0, <1>7 DEF UpdateDelivery, WebhookTypeOK
    <2> HIDE DEF o
    <2>5. T \subseteq S
      BY <2>1, <2>3, <2>4 DEF Stranded
    <2>6. QED
      BY <1>0, <2>1, <2>5, <1>s
  <1>8. ASSUME NEW t \in Threads, UpdateLost(t) PROVE PaidFor(T, webhookFaults')
    <2>1. /\ UNCHANGED delivery /\ WebhookFault
          /\ \A u \in Threads : u # t => active'[u] = active[u]
      BY <1>0, <1>8 DEF UpdateLost, WebhookTypeOK
    <2>2. T \subseteq S \cup {active[t].row}
      BY <2>1 DEF Stranded
    <2>3. QED
      BY <2>1, <2>2, <1>f
  <1>9. ASSUME NEW w \in Rows, RetryIsDue(w) PROVE PaidFor(T, webhookFaults')
    BY <1>9, <1>u DEF RetryIsDue
  <1>10. CASE UNCHANGED webhookVars
    BY <1>10, <1>u DEF webhookVars
  <1>11. QED
    BY <1>1, <1>2, <1>3, <1>4, <1>5, <1>6, <1>7, <1>8, <1>9, <1>10
    DEF WebhookNext, DeliverAndUpdate

-----------------------------------------------------------------------------
(* How often an attempt is made *)

\* n posts of an attempt, those that the dispatchers in R may still make and
\* those that the threads in I will have scheduled are covered by k posts of
\* the attempt before and f failures.
Budgeted(n, R, I, k, f) ==
  n + Cardinality(R) + Cardinality(Dispatchers) * Cardinality(I)
    <= Cardinality(Dispatchers) * k + f

\* Arithmetic of the cover.
LEMMA CoverArithmetic ==
  /\ \A c, m, n \in Nat : m <= n => c * m <= c * n
  /\ \A c, n \in Nat : c * (n + 1) = c * n + c
  /\ \A c, n \in Nat : c * n \in Nat
  <1>1. \A c, m, n \in Nat : m <= n => c * m <= c * n
    <2> TAKE c, m, n \in Nat
    <2>1. ASSUME m <= n PROVE c * m <= c * n
      <3>1. (n - m) \in Nat /\ n = m + (n - m)
        BY <2>1
      <3>2. c * n = c * m + c * (n - m) /\ c * (n - m) \in Nat /\ c * m \in Nat
        BY <3>1
      <3>3. \A a, b \in Nat : a <= a + b
        OBVIOUS
      <3>4. QED
        BY <3>2, <3>3
    <2>2. QED
      BY <2>1
  <1>2. QED
    BY <1>1

\* There are finitely many threads.
LEMMA FiniteThreads ==
  /\ IsFiniteSet(Threads)
  /\ Cardinality(Dispatchers) \in Nat
  /\ \A R \in SUBSET Dispatchers :
       IsFiniteSet(R) /\ Cardinality(R) \in Nat /\ Cardinality(R) <= Cardinality(Dispatchers)
  /\ \A I \in SUBSET Threads : IsFiniteSet(I) /\ Cardinality(I) \in Nat
  <1>1. IsFiniteSet({"bus"}) /\ {"bus", "ticker"} = {"bus"} \cup {"ticker"}
    BY FS_Singleton
  <1>2. IsFiniteSet({"bus", "ticker"})
    BY <1>1, FS_AddElement
  <1>3. IsFiniteSet(Threads)
    BY <1>2, FS_Product DEF Threads
  <1>4. Cardinality(Dispatchers) \in Nat
    BY FS_CardinalityType
  <1>5. QED
    BY <1>3, <1>4, FS_Subset, FS_CardinalityType

\* Nothing is gained ...
LEMMA CoverStays ==
  ASSUME NEW n \in Nat, NEW k \in Nat, NEW f \in Nat, NEW g \in Nat,
         NEW R \in SUBSET Dispatchers, NEW I \in SUBSET Threads, Budgeted(n, R, I, k, f),
         NEW Q \in SUBSET R, NEW J \in SUBSET I, f <= g
  PROVE  Budgeted(n, Q, J, k, g)
  <1> DEFINE c == Cardinality(Dispatchers)
  <1>1. /\ c \in Nat /\ Cardinality(R) \in Nat /\ Cardinality(I) \in Nat
        /\ Cardinality(Q) \in Nat /\ Cardinality(J) \in Nat
        /\ Cardinality(Q) <= Cardinality(R) /\ Cardinality(J) <= Cardinality(I)
    BY FiniteThreads, NoMore
  <1>2. /\ c * Cardinality(J) <= c * Cardinality(I) /\ c * Cardinality(J) \in Nat
        /\ c * Cardinality(I) \in Nat /\ c * k \in Nat
    BY <1>1, CoverArithmetic
  <1>3. \A q, r, j, i, x \in Nat : q <= r /\ j <= i /\ n + r + i <= x + f => n + q + j <= x + g
    OBVIOUS
  <1>4. QED
    BY <1>1, <1>2, <1>3 DEF Budgeted

\* ... a post by a dispatcher that may make it is covered ...
LEMMA CoverPost ==
  ASSUME NEW n \in Nat, NEW k \in Nat, NEW f \in Nat,
         NEW R \in SUBSET Dispatchers, NEW I \in SUBSET Threads, Budgeted(n, R, I, k, f),
         NEW d \in R, NEW Q \in SUBSET (R \ {d}), NEW J \in SUBSET I
  PROVE  Budgeted(n + 1, Q, J, k, f)
  <1> DEFINE c == Cardinality(Dispatchers)
  <1>1. /\ c \in Nat /\ Cardinality(R) \in Nat /\ Cardinality(I) \in Nat
        /\ Cardinality(Q) \in Nat /\ Cardinality(J) \in Nat /\ Cardinality(J) <= Cardinality(I)
    BY FiniteThreads, NoMore
  <1>2. IsFiniteSet(R) /\ IsFiniteSet(R \ {d}) /\ Cardinality(R \ {d}) = Cardinality(R) - 1
    BY FiniteThreads, FS_RemoveElement
  <1>3. Cardinality(Q) <= Cardinality(R) - 1
    BY <1>2, NoMore
  <1>4. /\ c * Cardinality(J) <= c * Cardinality(I) /\ c * Cardinality(J) \in Nat
        /\ c * Cardinality(I) \in Nat /\ c * k \in Nat
    BY <1>1, CoverArithmetic
  <1>5. \A q, r, j, i, x \in Nat : q <= r - 1 /\ j <= i /\ n + r + i <= x + f => n + 1 + q + j <= x + f
    OBVIOUS
  <1>6. QED
    BY <1>1, <1>3, <1>4, <1>5 DEF Budgeted

\* ... a post of the attempt before covers what its thread will schedule ...
LEMMA CoverBefore ==
  ASSUME NEW n \in Nat, NEW k \in Nat, NEW f \in Nat,
         NEW R \in SUBSET Dispatchers, NEW I \in SUBSET Threads, Budgeted(n, R, I, k, f),
         NEW t, NEW Q \in SUBSET R, NEW J \in SUBSET Threads, J \subseteq I \cup {t}
  PROVE  Budgeted(n, Q, J, k + 1, f)
  <1> DEFINE c == Cardinality(Dispatchers)
  <1>1. /\ c \in Nat /\ Cardinality(R) \in Nat /\ Cardinality(I) \in Nat
        /\ Cardinality(Q) \in Nat /\ Cardinality(Q) <= Cardinality(R) /\ Cardinality(J) \in Nat
    BY FiniteThreads, NoMore
  <1>2. Cardinality(J) <= Cardinality(I) + 1
    BY FiniteThreads, OneMore
  <1>3. /\ c * Cardinality(J) <= c * Cardinality(I) + c /\ c * Cardinality(J) \in Nat
        /\ c * Cardinality(I) \in Nat /\ c * k \in Nat /\ c * (k + 1) = c * k + c
    BY <1>1, <1>2, CoverArithmetic
  <1>4. \A q, r, j, i, x, e \in Nat :
          q <= r /\ j <= i + e /\ n + r + i <= x + f => n + q + j <= (x + e) + f
    OBVIOUS
  <1>5. n + Cardinality(Q) + c * Cardinality(J) <= (c * k + c) + f
    BY <1>1, <1>3, <1>4 DEF Budgeted
  <1>6. QED
    BY <1>3, <1>5 DEF Budgeted

\* ... which is one more for every dispatcher ...
LEMMA CoverAgain ==
  ASSUME NEW n \in Nat, NEW k \in Nat, NEW f \in Nat,
         NEW R \in SUBSET Dispatchers, NEW I \in SUBSET Threads, Budgeted(n, R, I, k, f),
         NEW t \in I, NEW Q \in SUBSET Dispatchers, NEW J \in SUBSET (I \ {t})
  PROVE  Budgeted(n, Q, J, k, f)
  <1> DEFINE c == Cardinality(Dispatchers)
  <1>1. /\ c \in Nat /\ Cardinality(R) \in Nat /\ Cardinality(I) \in Nat
        /\ Cardinality(Q) \in Nat /\ Cardinality(Q) <= c /\ Cardinality(J) \in Nat
    BY FiniteThreads
  <1>2. IsFiniteSet(I) /\ IsFiniteSet(I \ {t}) /\ Cardinality(I \ {t}) = Cardinality(I) - 1
    BY FiniteThreads, FS_RemoveElement
  <1>3. Cardinality(J) <= Cardinality(I) - 1
    BY <1>2, NoMore
  <1>4. Cardinality(J) + 1 <= Cardinality(I)
    BY <1>1, <1>3
  <1>5. /\ c * (Cardinality(J) + 1) <= c * Cardinality(I) /\ c * Cardinality(J) \in Nat
        /\ c * Cardinality(I) \in Nat /\ c * k \in Nat
        /\ c * (Cardinality(J) + 1) = c * Cardinality(J) + c
    BY <1>1, <1>4, CoverArithmetic
  <1>6. \A q, r, j, i, x, e \in Nat :
          q <= e /\ j + e <= i /\ n + r + i <= x + f => n + q + j <= x + f
    OBVIOUS
  <1>7. QED
    BY <1>1, <1>5, <1>6 DEF Budgeted

\* ... and a failure gives one dispatcher another try.
LEMMA CoverFault ==
  ASSUME NEW n \in Nat, NEW k \in Nat, NEW f \in Nat,
         NEW R \in SUBSET Dispatchers, NEW I \in SUBSET Threads, Budgeted(n, R, I, k, f),
         NEW d, NEW Q \in SUBSET Dispatchers, Q \subseteq R \cup {d}, NEW J \in SUBSET I
  PROVE  Budgeted(n, Q, J, k, f + 1)
  <1> DEFINE c == Cardinality(Dispatchers)
  <1>1. /\ c \in Nat /\ Cardinality(R) \in Nat /\ Cardinality(I) \in Nat
        /\ Cardinality(Q) \in Nat /\ Cardinality(J) \in Nat /\ Cardinality(J) <= Cardinality(I)
    BY FiniteThreads, NoMore
  <1>2. Cardinality(Q) <= Cardinality(R) + 1
    BY FiniteThreads, OneMore
  <1>3. /\ c * Cardinality(J) <= c * Cardinality(I) /\ c * Cardinality(J) \in Nat
        /\ c * Cardinality(I) \in Nat /\ c * k \in Nat
    BY <1>1, CoverArithmetic
  <1>4. \A q, r, j, i, x \in Nat :
          q <= r + 1 /\ j <= i /\ n + r + i <= x + f => n + q + j <= x + (f + 1)
    OBVIOUS
  <1>5. QED
    BY <1>1, <1>2, <1>3, <1>4 DEF Budgeted

\* Every attempt but the first is covered.
BudgetOf(w, a) ==
  Budgeted(posts[w][a], Ready(w, a), Refused(w, a - 1), posts[w][a - 1], webhookFaults)

\* At first nothing was sent.
LEMMA InitBudget ==
  ASSUME WebhookInit, NEW w \in Rows, NEW a \in Attempts, a > 1
  PROVE  BudgetOf(w, a)
  <1>1. Ready(w, a) = {} /\ Refused(w, a - 1) = {}
    <2>1. \A d \in Dispatchers : jobs[Ticker(d)] = {} /\ active[Ticker(d)] = Idling
      BY TwoThreads DEF WebhookInit
    <2>2. [row |-> w, attempt |-> a] # Idling
      <3>1. [row |-> w, attempt |-> a].attempt = a /\ Idling.attempt = 0 /\ a # 0
        BY DEF Idling, Attempts
      <3>2. QED
        BY <3>1
    <2>3. ~Scheduled(w)
      BY DEF WebhookInit, Scheduled
    <2>4. \A t \in Threads : reply[t] = "none"
      BY DEF WebhookInit
    <2>5. Ready(w, a) = {}
      BY <2>1, <2>2, <2>3 DEF Ready
    <2>6. Refused(w, a - 1) = {}
      BY <2>4 DEF Refused
    <2>7. QED
      BY <2>5, <2>6
  <1>2. a - 1 \in Attempts
    BY DEF Attempts
  <1>3. posts[w][a] = 0 /\ posts[w][a - 1] = 0 /\ webhookFaults = 0
    BY <1>2 DEF WebhookInit
  <1>4. Cardinality({}) = 0 /\ Cardinality(Dispatchers) * 0 = 0
    BY FS_EmptySet, FiniteThreads
  <1>5. Budgeted(0, {}, {}, 0, 0)
    BY <1>4 DEF Budgeted
  <1>6. QED
    BY <1>1, <1>3, <1>5 DEF BudgetOf

\* Every step is paid for.
LEMMA NextBudget ==
  ASSUME WebhookInv, WebhookInv', OriginInv, [WebhookNext]_webhookVars,
         NEW w \in Rows, NEW a \in Attempts, a > 1, BudgetOf(w, a)
  PROVE  BudgetOf(w, a)'
  <1> DEFINE j == [row |-> w, attempt |-> a]
             i == [row |-> w, attempt |-> a - 1]
             R == Ready(w, a)
             I == Refused(w, a - 1)
             Q == Ready(w, a)'
             J == Refused(w, a - 1)'
             n == posts[w][a]
             k == posts[w][a - 1]
             N == posts'[w][a]
             K == posts'[w][a - 1]
             f == webhookFaults
             g == webhookFaults'
  <1>0. /\ WebhookTypeOK /\ WebhookTypeOK' /\ RepliesOK /\ a - 1 \in Attempts
        /\ n \in Nat /\ k \in Nat /\ f \in Nat /\ g \in Nat /\ i # j /\ i # Idling /\ j # Idling
        /\ R \subseteq Dispatchers /\ Q \subseteq Dispatchers /\ I \subseteq Threads /\ J \subseteq Threads
        /\ Budgeted(n, R, I, k, f)
    <2>1. a - 1 \in Attempts
      BY DEF Attempts
    <2>2. WebhookTypeOK /\ WebhookTypeOK' /\ RepliesOK
      BY DEF WebhookInv
    <2>3. n \in Nat /\ k \in Nat /\ f \in Nat /\ g \in Nat
      BY <2>1, <2>2 DEF WebhookTypeOK
    <2>4. i # j /\ i # Idling /\ j # Idling
      <3>1. i.attempt = a - 1 /\ j.attempt = a /\ Idling.attempt = 0 /\ a - 1 # a /\ a - 1 # 0 /\ a # 0
        BY <2>1 DEF Idling, Attempts
      <3>2. QED
        BY <3>1
    <2>5. QED
      BY <2>1, <2>2, <2>3, <2>4 DEF BudgetOf, Ready, Refused
  <1>d. \A d \in Dispatchers : /\ BusOf(d) /\ TickerOf(d)
                               /\ Bus(d) \in Threads /\ Ticker(d) \in Threads /\ todo[d] \subseteq Rows
    BY <1>0, TwoThreads DEF OriginInv, WebhookTypeOK
  <1>j. /\ \A t \in Threads : \A x \in jobs[t] : x.row \in Rows
        /\ \A t \in Threads : active[t] # Idling =>
             active[t].row \in Rows /\ active[t].attempt \in Attempts /\ active[t] \in Job
    BY <1>0, JobParts
  <1>e. \A x \in Job : /\ x.row = w /\ x.attempt = a <=> x = j
                       /\ x.row = w /\ x.attempt = a - 1 <=> x = i
    BY DEF Job
  <1>q. ASSUME N = n, K = k, f <= g, Q \subseteq R, J \subseteq I PROVE BudgetOf(w, a)'
    <2>1. Budgeted(n, Q, J, k, g)
      BY <1>0, <1>q, CoverStays
    <2>2. QED
      BY <1>q, <2>1 DEF BudgetOf
  <1>f. ASSUME N = n, K = k, g = f + 1, NEW d, Q \subseteq R \cup {d}, J \subseteq I
        PROVE BudgetOf(w, a)'
    <2>1. Budgeted(n, Q, J, k, f + 1)
      BY <1>0, <1>f, CoverFault
    <2>2. QED
      BY <1>f, <2>1 DEF BudgetOf
  <1>u. ASSUME UNCHANGED <<delivery, jobs, active, reply, posts, webhookFaults>>
        PROVE  BudgetOf(w, a)'
    <2>1. Q \subseteq R /\ J \subseteq I
      BY <1>u DEF Ready, Refused, Scheduled
    <2>2. QED
      BY <1>0, <1>u, <2>1, <1>q
  <1>1. ASSUME NEW d \in Dispatchers, NEW m \in Messages, HandleIncoming(d, m) \/ LoseMessage(d, m)
        PROVE  BudgetOf(w, a)'
    BY <1>1, <1>u DEF HandleIncoming, LoseMessage
  <1>2. ASSUME NEW d \in Dispatchers, NEW v \in todo[d], InsertDelivery(d, v)
        PROVE  BudgetOf(w, a)'
    <2>1. v \in Rows /\ active[Bus(d)] = Idling /\ reply[Bus(d)] = "none"
      BY <1>0, <1>d, <1>2 DEF InsertDelivery, RepliesOK, Bus
    <2>2. /\ UNCHANGED <<jobs, reply, posts>>
          /\ \A u \in Threads : u # Bus(d) => active'[u] = active[u]
          /\ delivery'[w].status = "pending" \/ delivery'[w] = delivery[w]
          /\ f <= g
      BY <1>0, <1>2, <2>1 DEF InsertDelivery, WebhookFault, WebhookTypeOK, Bus
    <2>3. Q \subseteq R
      BY <1>d, <2>2, TwoThreads DEF Ready, Scheduled
    <2>4. J \subseteq I
      BY <2>1, <2>2 DEF Refused
    <2>5. QED
      BY <2>2, <2>3, <2>4, <1>q
  <1>3. ASSUME NEW d \in Dispatchers, ProcessScheduled(d) PROVE BudgetOf(w, a)'
    <2> DEFINE S == {v \in Rows \ backoff : Scheduled(v)}
               X == {[row |-> v, attempt |-> delivery[v].attempt] : v \in S}
    <2>1. /\ active[Ticker(d)] = Idling
          /\ \A u \in Threads : jobs'[u] = IF u = Ticker(d) THEN X ELSE jobs[u]
          /\ UNCHANGED <<delivery, active, reply, posts, webhookFaults>>
      BY <1>0, <1>3 DEF ProcessScheduled, WebhookTypeOK, Ticker
    <2>2. j \in X => Scheduled(w) /\ delivery[w].attempt = a
      OBVIOUS
    <2> HIDE DEF X
    <2>3. ASSUME NEW e \in Q PROVE e \in R
      <3>1. /\ e \in Dispatchers /\ Ticker(e) \in Threads
            /\ \/ j \in jobs'[Ticker(e)]
               \/ active[Ticker(e)] = j /\ reply[Ticker(e)] = "none"
               \/ Scheduled(w) /\ delivery[w].attempt = a /\ active[Ticker(e)] # j
        BY <1>d, <2>1 DEF Ready, Scheduled
      <3>2. CASE Ticker(e) = Ticker(d)
        BY <1>0, <2>1, <2>2, <3>1, <3>2 DEF Ready
      <3>3. CASE Ticker(e) # Ticker(d)
        BY <2>1, <3>1, <3>3 DEF Ready
      <3>4. QED
        BY <3>2, <3>3
    <2>4. J \subseteq I
      BY <2>1 DEF Refused
    <2>5. QED
      BY <1>0, <2>1, <2>3, <2>4, <1>q
  <1>4. ASSUME NEW d \in Dispatchers, DispatcherCrashes(d) PROVE BudgetOf(w, a)'
    <2>1. /\ UNCHANGED <<delivery, posts>> /\ g = f + 1
          /\ \A t \in Threads : IF t[1] = d
               THEN active'[t] = Idling
               ELSE active'[t] = active[t] /\ reply'[t] = reply[t] /\ jobs'[t] = jobs[t]
      BY <1>4 DEF DispatcherCrashes, WebhookFault
    <2>2. \A e \in Dispatchers : Ticker(e)[1] = e
      BY DEF Ticker
    <2>3. Q \subseteq R \cup {d}
      BY <1>d, <2>1, <2>2 DEF Ready, Scheduled
    <2>4. J \subseteq I
      BY <1>0, <2>1 DEF Refused
    <2>5. QED
      BY <2>1, <2>3, <2>4, <1>f
  <1>5. ASSUME NEW t \in Threads, NEW x \in jobs[t], NextScheduled(t, x) PROVE BudgetOf(w, a)'
    <2>1. /\ active[t] = Idling /\ reply[t] = "none"
          /\ \A u \in Threads : jobs'[u] = IF u = t THEN jobs[u] \ {x} ELSE jobs[u]
          /\ \A u \in Threads : active'[u] = IF u = t THEN x ELSE active[u]
          /\ UNCHANGED <<delivery, reply, posts, webhookFaults>>
      BY <1>0, <1>5 DEF NextScheduled, WebhookTypeOK, RepliesOK
    <2>2. ASSUME NEW e \in Q PROVE e \in R
      <3>1. /\ e \in Dispatchers /\ Ticker(e) \in Threads
            /\ \/ j \in jobs'[Ticker(e)]
               \/ active'[Ticker(e)] = j /\ reply[Ticker(e)] = "none"
               \/ Scheduled(w) /\ delivery[w].attempt = a /\ active'[Ticker(e)] # j
        BY <1>d, <2>1 DEF Ready, Scheduled
      <3>2. CASE Ticker(e) = t
        BY <1>0, <2>1, <3>1, <3>2 DEF Ready
      <3>3. CASE Ticker(e) # t
        BY <2>1, <3>1, <3>3 DEF Ready
      <3>4. QED
        BY <3>2, <3>3
    <2>3. J \subseteq I
      BY <2>1 DEF Refused
    <2>4. QED
      BY <1>0, <2>1, <2>2, <2>3, <1>q
  <1>6. ASSUME NEW t \in Threads, DecryptFails(t) PROVE BudgetOf(w, a)'
    <2>1. /\ \A u \in Threads : reply'[u] = IF u = t THEN "broken" ELSE reply[u]
          /\ UNCHANGED <<delivery, jobs, active, posts, webhookFaults>>
      BY <1>0, <1>6 DEF DecryptFails, WebhookTypeOK
    <2>2. Q \subseteq R
      BY <1>d, <2>1 DEF Ready, Scheduled
    <2>3. J \subseteq I
      BY <2>1 DEF Refused
    <2>4. QED
      BY <1>0, <2>1, <2>2, <2>3, <1>q
  <1>7. ASSUME NEW t \in Threads, Post(t) PROVE BudgetOf(w, a)'
    <2> DEFINE x == active[t]
    <2>1. /\ x # Idling /\ reply[t] = "none" /\ reply'[t] # "none"
          /\ \A u \in Threads : u # t => reply'[u] = reply[u]
          /\ UNCHANGED <<delivery, jobs, active, webhookFaults>>
      BY <1>0, <1>7 DEF Post, WebhookTypeOK
    <2>2. x.row \in Rows /\ x.attempt \in Attempts /\ x \in Job
      BY <1>j, <2>1
    <2>3. \A v \in Rows, b \in Attempts :
            posts'[v][b] = IF v = x.row /\ b = x.attempt THEN posts[v][b] + 1 ELSE posts[v][b]
      BY <1>0, <1>7, <2>2 DEF Post, WebhookTypeOK
    <2>4. /\ N = IF x = j THEN n + 1 ELSE n
          /\ K = IF x = i THEN k + 1 ELSE k
      BY <1>0, <1>e, <2>2, <2>3
    <2>5. J \subseteq I \cup {t} /\ (x # i => J \subseteq I)
      BY <2>1 DEF Refused
    <2>6. Q \subseteq R
      BY <1>d, <2>1 DEF Ready, Scheduled
    <2> HIDE DEF x
    <2>7. CASE x = j
      <3>1. PICK d \in Dispatchers : t = Ticker(d)
        <4>1. \A d \in Dispatchers : t # Bus(d)
          <5>1. SUFFICES ASSUME NEW d \in Dispatchers, t = Bus(d) PROVE FALSE
            OBVIOUS
          <5>2. x.attempt = 1
            BY <1>d, <2>1, <5>1 DEF BusOf, FirstAttempt, x
          <5>3. x.attempt = a
            BY <2>7
          <5>4. QED
            BY <5>2, <5>3
        <4>2. QED
          BY <4>1, TwoThreads
      <3>2. j \notin jobs[t] /\ active[t] = j
        BY <1>d, <2>7, <3>1 DEF TickerOf, x
      <3>3. d \in R
        BY <2>1, <3>1, <3>2 DEF Ready
      <3>4. d \notin Q
        BY <2>1, <3>1, <3>2 DEF Ready
      <3>5. Budgeted(n + 1, Q, J, k, f)
        BY <1>0, <2>5, <2>6, <2>7, <3>3, <3>4, CoverPost
      <3>6. QED
        BY <1>0, <2>1, <2>4, <2>7, <3>5 DEF BudgetOf
    <2>8. CASE x = i
      <3>1. Budgeted(n, Q, J, k + 1, f)
        BY <1>0, <2>5, <2>6, CoverBefore
      <3>2. QED
        BY <1>0, <2>1, <2>4, <2>8, <3>1 DEF BudgetOf
    <2>9. CASE x # j /\ x # i
      BY <1>0, <2>1, <2>4, <2>5, <2>6, <2>9, <1>q
    <2>10. QED
      BY <2>7, <2>8, <2>9
  <1>8. ASSUME NEW t \in Threads, UpdateDelivery(t) PROVE BudgetOf(w, a)'
    <2> DEFINE x == active[t]
               o == Outcome(x.attempt, reply[t])
    <2>1. /\ x # Idling /\ UNCHANGED <<jobs, posts, webhookFaults>>
          /\ \A u \in Threads : active'[u] = IF u = t THEN Idling ELSE active[u]
          /\ \A u \in Threads : u # t => reply'[u] = reply[u]
      BY <1>0, <1>8 DEF UpdateDelivery, WebhookTypeOK
    <2>2. x.row \in Rows /\ x.attempt \in Attempts /\ x \in Job
      BY <1>j, <2>1
    <2>3. J \subseteq I \ {t}
      BY <1>0, <2>1 DEF Refused
    <2>4. CASE x = i /\ reply[t] = "refused"
      <3>1. t \in I
        BY <2>4 DEF Refused
      <3>2. Budgeted(n, Q, J, k, f)
        BY <1>0, <2>3, <3>1, CoverAgain
      <3>3. QED
        BY <2>1, <3>2 DEF BudgetOf
    <2>5. CASE ~(x = i /\ reply[t] = "refused")
      <3>1. reply[t] \in {"accepted", "refused", "broken"}
        BY <1>0, <1>8 DEF UpdateDelivery, WebhookTypeOK
      <3>2. x.row = w /\ o.status = "scheduled" => o.attempt # a
        <4>1. SUFFICES ASSUME x.row = w, o.status = "scheduled", o.attempt = a PROVE FALSE
          OBVIOUS
        <4>2. reply[t] = "refused" /\ o.attempt = x.attempt + 1
          BY <3>1, <4>1 DEF Outcome
        <4>3. x.attempt = a - 1
          BY <2>2, <4>1, <4>2 DEF Attempts
        <4>4. QED
          BY <1>e, <2>2, <2>5, <4>1, <4>2, <4>3
      <3>3. x.row # w => delivery'[w] = delivery[w]
        BY <1>0, <1>8 DEF UpdateDelivery, WebhookTypeOK
      <3>4. x.row = w => ~(Scheduled(w)' /\ delivery'[w].attempt = a)
        <4>1. SUFFICES ASSUME x.row = w PROVE ~(delivery'[w].status = "scheduled" /\ delivery'[w].attempt = a)
          BY DEF Scheduled
        <4>2. CASE delivery[w].status = "absent"
          BY <1>8, <4>1, <4>2 DEF UpdateDelivery
        <4>3. CASE delivery[w].status # "absent"
          <5>1. delivery' = [delivery EXCEPT ![w] =
                              IF o.status = "scheduled" THEN o ELSE [@ EXCEPT !.status = o.status]]
            BY <1>8, <4>1, <4>3 DEF UpdateDelivery
          <5>2. delivery[w] \in [status : {"absent", "pending", "scheduled", "delivered", "failed"},
                                 attempt : Attempts]
            BY <1>0 DEF WebhookTypeOK
          <5>3. delivery'[w] = IF o.status = "scheduled" THEN o
                               ELSE [delivery[w] EXCEPT !.status = o.status]
            BY <1>0, <5>1 DEF WebhookTypeOK
          <5> HIDE DEF o
          <5>4. QED
            BY <3>2, <4>1, <5>2, <5>3
        <4>4. QED
          BY <4>2, <4>3
      <3> HIDE DEF o
      <3>5. x.row # w => x # j
        OBVIOUS
      <3> HIDE DEF x
      <3>6. ASSUME NEW e \in Q PROVE e \in R
        <4>1. /\ e \in Dispatchers /\ Ticker(e) \in Threads
              /\ \/ j \in jobs[Ticker(e)]
                 \/ active'[Ticker(e)] = j /\ reply'[Ticker(e)] = "none"
                 \/ Scheduled(w)' /\ delivery'[w].attempt = a
          BY <1>d, <2>1 DEF Ready
        <4>2. CASE j \in jobs[Ticker(e)]
          BY <4>1, <4>2 DEF Ready
        <4>3. CASE active'[Ticker(e)] = j /\ reply'[Ticker(e)] = "none"
          BY <1>0, <2>1, <4>1, <4>3 DEF Ready
        <4>4. CASE Scheduled(w)' /\ delivery'[w].attempt = a
          <5>1. /\ x.row # w /\ Scheduled(w) /\ delivery[w].attempt = a
            BY <3>3, <3>4, <4>4 DEF Scheduled
          <5>2. active[Ticker(e)] = j => active'[Ticker(e)] = j
            BY <2>1, <3>5, <4>1, <5>1 DEF x
          <5>3. e \in Q => j \in jobs[Ticker(e)] \/ (active'[Ticker(e)] = j /\ reply'[Ticker(e)] = "none")
                           \/ active'[Ticker(e)] # j
            BY <2>1 DEF Ready
          <5>4. CASE active'[Ticker(e)] # j
            BY <4>1, <5>1, <5>2, <5>4 DEF Ready
          <5>5. QED
            BY <4>2, <4>3, <5>3, <5>4
        <4>5. QED
          BY <4>1, <4>2, <4>3, <4>4
      <3>7. QED
        BY <1>0, <2>1, <2>3, <3>6, <1>q
    <2>6. QED
      BY <2>4, <2>5
  <1>9. ASSUME NEW t \in Threads, UpdateLost(t) PROVE BudgetOf(w, a)'
    <2>1. /\ UNCHANGED <<delivery, jobs, posts>> /\ g = f + 1
          /\ \A u \in Threads : IF u = t THEN active'[u] = Idling
                                ELSE active'[u] = active[u] /\ reply'[u] = reply[u]
      BY <1>0, <1>9 DEF UpdateLost, WebhookFault, WebhookTypeOK
    <2>2. PICK d \in Dispatchers : t = Bus(d) \/ t = Ticker(d)
      BY TwoThreads
    <2>3. \A e \in Dispatchers : e # d => Ticker(e) # t
      BY <2>2, TwoThreads
    <2>4. Q \subseteq R \cup {d}
      BY <1>d, <2>1, <2>3 DEF Ready, Scheduled
    <2>5. J \subseteq I
      BY <1>0, <2>1 DEF Refused
    <2>6. QED
      BY <2>1, <2>4, <2>5, <1>f
  <1>10. ASSUME NEW v \in Rows, RetryIsDue(v) PROVE BudgetOf(w, a)'
    BY <1>10, <1>u DEF RetryIsDue
  <1>11. CASE UNCHANGED webhookVars
    BY <1>11, <1>u DEF webhookVars
  <1>12. QED
    BY <1>1, <1>2, <1>3, <1>4, <1>5, <1>6, <1>7, <1>8, <1>9, <1>10, <1>11
    DEF WebhookNext, DeliverAndUpdate

\* What the counts of the deliveries rest on.
CountInv ==
  /\ WebhookInv /\ OriginInv
  /\ PaidFor(Stranded, webhookFaults)
  /\ \A w \in Rows, a \in Attempts : a > 1 => BudgetOf(w, a)

\* The counts hold in every behaviour.
LEMMA AlwaysCountInv == WebhookSpec => []CountInv
  <1>1. WebhookInit => CountInv
    BY InitWebhookInv, InitOrigin, InitStranded, InitBudget DEF CountInv
  <1>2. CountInv /\ [WebhookNext]_webhookVars => CountInv'
    <2> SUFFICES ASSUME CountInv, [WebhookNext]_webhookVars PROVE CountInv'
      OBVIOUS
    <2>1. WebhookInv /\ OriginInv /\ PaidFor(Stranded, webhookFaults)
          /\ \A w \in Rows, a \in Attempts : a > 1 => BudgetOf(w, a)
      BY DEF CountInv
    <2>2. WebhookInv'
      BY <2>1, NextWebhookInv
    <2>3. OriginInv'
      BY <2>1, NextOrigin
    <2>4. PaidFor(Stranded', webhookFaults')
      BY <2>1, <2>2, NextStranded
    <2>5. PaidFor(Stranded, webhookFaults)'
      BY <2>4 DEF PaidFor
    <2>6. \A w \in Rows, a \in Attempts : a > 1 => BudgetOf(w, a)'
      BY <2>1, <2>2, NextBudget
    <2>7. QED
      BY <2>2, <2>3, <2>5, <2>6 DEF CountInv
  <1>3. QED
    BY <1>1, <1>2, PTL DEF WebhookSpec

\* deliverAndUpdate repeats an attempt only as often as there are dispatchers
\* to read it, for each time it was scheduled, and once for each result that
\* was not stored: without locks the repetitions stay bounded.
THEOREM AttemptsAreBounded == WebhookSpec => []AttemptsBounded
  <1>1. CountInv => AttemptsBounded
    <2> SUFFICES ASSUME CountInv, NEW w \in Rows, NEW a \in Attempts
                 PROVE  posts[w][a] <= IF a = 1 THEN 1
                          ELSE Cardinality(Dispatchers) * posts[w][a - 1] + webhookFaults
      BY DEF AttemptsBounded
    <2>1. WebhookTypeOK /\ FirstOK
      BY DEF CountInv, WebhookInv, OriginInv
    <2>2. CASE a = 1
      BY <2>1, <2>2 DEF FirstOK
    <2>3. CASE a # 1
      <3> DEFINE c == Cardinality(Dispatchers)
                 R == Ready(w, a)
                 I == Refused(w, a - 1)
                 k == posts[w][a - 1]
      <3>1. a > 1 /\ a - 1 \in Attempts
        BY <2>3 DEF Attempts
      <3>2. posts[w][a] \in Nat /\ k \in Nat /\ webhookFaults \in Nat
        BY <2>1, <3>1 DEF WebhookTypeOK
      <3>3. R \subseteq Dispatchers /\ I \subseteq Threads
        BY DEF Ready, Refused
      <3>4. /\ Cardinality(R) \in Nat /\ c * Cardinality(I) \in Nat /\ c * k \in Nat
        BY <3>2, <3>3, FiniteThreads, CoverArithmetic
      <3>5. posts[w][a] + Cardinality(R) + c * Cardinality(I) <= c * k + webhookFaults
        BY <3>1 DEF CountInv, BudgetOf, Budgeted
      <3>6. \A n, r, i, x, f \in Nat : n + r + i <= x + f => n <= x + f
        OBVIOUS
      <3>7. posts[w][a] <= c * k + webhookFaults
        BY <3>2, <3>4, <3>5, <3>6
      <3>8. QED
        BY <2>3, <3>7
    <2>4. QED
      BY <2>2, <2>3
  <1>2. QED
    BY <1>1, AlwaysCountInv, PTL

\* The status of a delivery is true, and one that stays pending for ever has
\* cost a failure or a crash between the insert and the update.
THEOREM DeliveryStatusIsTrue == WebhookSpec => []StatusIsTrue
  <1>1. CountInv => StatusIsTrue
    BY DEF CountInv, PaidFor, Stranded, WebhookInv, StatusIsTrue, StrandedCostsFailure
  <1>2. QED
    BY <1>1, AlwaysCountInv, PTL

-----------------------------------------------------------------------------
(* Simulated transfers *)

\* What the indexer has dealt with and not recorded.
Forgotten == {e \in handled : payload[e].hash \notin DOMAIN recorded}

TransferInv ==
  /\ TransferTypeOK /\ IsFiniteSet(handled)
  /\ RecordedWasRequested /\ PaidFor(Forgotten, transferFaults)

\* A request that is accepted becomes a transfer that makes sense.
LEMMA DefaultsMakeSense ==
  ASSUME NEW e \in Requests, NEW q \in TransferRequests, Acceptable(q)
  PROVE  /\ WithDefaults(e, q).amount \in Nat \ {0} /\ WithDefaults(e, q).confirmations \in Nat
  <1>1. Given(q.amount, ExpectedAmount) \in Nat \ {0}
    BY TransfersAssumption DEF Given, Acceptable
  <1>2. Given(q.confirmations, RequiredDepth) \in Nat
    BY TransfersAssumption DEF Given, Acceptable
  <1>3. QED
    BY <1>1, <1>2 DEF WithDefaults

\* One more event has a payload, and the others keep theirs.
LEMMA PayloadGrows ==
  ASSUME NEW e, NEW x, e \notin DOMAIN payload, payload' = With(payload, e, x)
  PROVE  /\ DOMAIN payload' = DOMAIN payload \cup {e} /\ payload'[e] = x
         /\ \A f \in DOMAIN payload : payload'[f] = payload[f]
  BY DEF With

\* One more transfer is recorded, or one anew.
LEMMA RecordGrows ==
  ASSUME NEW p, recorded' = UpsertTransfer(recorded, p)
  PROVE  /\ DOMAIN recorded' = DOMAIN recorded \cup {p.hash}
         /\ recorded'[p.hash] = [amount |-> p.amount, confirmations |-> p.confirmations]
         /\ \A h \in DOMAIN recorded : h # p.hash => recorded'[h] = recorded[h]
  BY DEF UpsertTransfer, With

\* At first nothing is asked for.
LEMMA InitTransferInv == TransferInit => TransferInv
  <1> SUFFICES ASSUME TransferInit PROVE TransferInv
    OBVIOUS
  <1>1. /\ DOMAIN payload = {} /\ DOMAIN recorded = {} /\ handled = {} /\ confirming = {}
        /\ messages = <<>> /\ transferFaults = 0 /\ forwarded = [e \in Requests |-> 0]
    BY DEF TransferInit
  <1>2. messages \in Seq(DOMAIN payload)
    BY <1>1
  <1>3. TransferTypeOK
    BY <1>1, <1>2, TransfersAssumption DEF TransferTypeOK
  <1>4. Forgotten = {} /\ IsFiniteSet({}) /\ Cardinality({}) = 0
    BY <1>1, FS_EmptySet DEF Forgotten
  <1>5. IsFiniteSet(handled) /\ PaidFor(Forgotten, transferFaults)
    BY <1>1, <1>4 DEF PaidFor
  <1>6. QED
    BY <1>1, <1>3, <1>5 DEF TransferInv, RecordedWasRequested

\* The call of the indexer ends: what it was about is handled, and forgotten
\* only at the cost of a failure.
LEMMA HandledKeeps ==
  ASSUME TransferInv, TransferTypeOK', NEW e \in confirming, handled' = handled \cup {e},
         UNCHANGED <<payload, forwarded>>,
         \/ recorded' = UpsertTransfer(recorded, payload[e]) /\ UNCHANGED transferFaults
         \/ UNCHANGED recorded /\ TransferFault
  PROVE  TransferInv'
  <1>1. transferFaults \in Nat /\ transferFaults' \in Nat
    BY DEF TransferInv, TransferTypeOK
  <1>2. IsFiniteSet(handled')
    BY OneMore DEF TransferInv
  <1>3. CASE recorded' = UpsertTransfer(recorded, payload[e]) /\ UNCHANGED transferFaults
    <2>1. /\ DOMAIN recorded' = DOMAIN recorded \cup {payload[e].hash}
          /\ recorded'[payload[e].hash] = [amount |-> payload[e].amount, confirmations |-> payload[e].confirmations]
          /\ \A h \in DOMAIN recorded : h # payload[e].hash => recorded'[h] = recorded[h]
      BY <1>3, RecordGrows
    <2>2. RecordedWasRequested'
      BY <2>1 DEF TransferInv, RecordedWasRequested
    <2>3. Forgotten' \subseteq Forgotten
      BY <2>1 DEF Forgotten
    <2>4. PaidFor(Forgotten', transferFaults')
      BY <1>1, <1>3, <2>3, NoMore DEF TransferInv, PaidFor
    <2>5. QED
      BY <1>2, <2>2, <2>4 DEF TransferInv
  <1>4. CASE UNCHANGED recorded /\ TransferFault
    <2>1. RecordedWasRequested'
      BY <1>4 DEF TransferInv, RecordedWasRequested
    <2>2. Forgotten' \subseteq Forgotten \cup {e} /\ transferFaults' = transferFaults + 1
      BY <1>4 DEF Forgotten, TransferFault
    <2>3. PaidFor(Forgotten', transferFaults')
      BY <1>1, <2>2, OneForFault DEF TransferInv
    <2>4. QED
      BY <1>2, <2>1, <2>3 DEF TransferInv
  <1>5. QED
    BY <1>3, <1>4

\* A request is accepted.
LEMMA CreateTransferKeeps ==
  ASSUME TransferInv, NEW e \in Requests, NEW q \in TransferRequests, CreateMockTransfer(e, q)
  PROVE  TransferInv'
  <1>1. /\ DOMAIN payload' = DOMAIN payload \cup {e} /\ payload'[e] = WithDefaults(e, q)
        /\ \A f \in DOMAIN payload : payload'[f] = payload[f]
    BY PayloadGrows DEF CreateMockTransfer
  <1>2. UNCHANGED <<forwarded, messages, confirming, recorded, handled, transferFaults>>
    BY DEF CreateMockTransfer
  <1>3. payload'[e].amount \in Nat \ {0} /\ payload'[e].confirmations \in Nat
    BY <1>1, DefaultsMakeSense DEF CreateMockTransfer
  <1>4. messages' \in Seq(DOMAIN payload')
    <2>1. \A S, T : S \subseteq T => \A s \in Seq(S) : s \in Seq(T)
      OBVIOUS
    <2>2. QED
      BY <1>1, <1>2, <2>1 DEF TransferInv, TransferTypeOK
  <1>5. \A f \in DOMAIN payload' : payload'[f].amount \in Nat \ {0} /\ payload'[f].confirmations \in Nat
    BY <1>1, <1>3 DEF TransferInv, TransferTypeOK
  <1>6. TransferTypeOK'
    BY <1>1, <1>2, <1>4, <1>5 DEF TransferInv, TransferTypeOK
  <1>7. \A f \in handled : payload'[f] = payload[f]
    BY <1>1 DEF TransferInv, TransferTypeOK
  <1>8. Forgotten' = Forgotten
    BY <1>2, <1>7 DEF Forgotten
  <1>9. RecordedWasRequested'
    BY <1>2, <1>7 DEF TransferInv, RecordedWasRequested
  <1>10. QED
    BY <1>2, <1>6, <1>8, <1>9 DEF TransferInv

\* Every step keeps the invariant.
LEMMA NextTransferInv == TransferInv /\ [TransferNext]_transferVars => TransferInv'
  <1> SUFFICES ASSUME TransferInv, [TransferNext]_transferVars PROVE TransferInv'
    OBVIOUS
  <1>1. TransferTypeOK
    BY DEF TransferInv
  <1>2. ASSUME TransferTypeOK', UNCHANGED <<payload, recorded, handled, transferFaults>>
        PROVE  TransferInv'
    <2>1. Forgotten' = Forgotten
      BY <1>2 DEF Forgotten
    <2>2. RecordedWasRequested'
      BY <1>2 DEF TransferInv, RecordedWasRequested
    <2>3. QED
      BY <1>2, <2>1, <2>2 DEF TransferInv
  <1>3. ASSUME NEW e \in Requests, PublishRequest(e) PROVE TransferInv'
    <2>1. /\ e \in DOMAIN payload /\ forwarded[e] < MaxTransferPublications
          /\ forwarded' = [forwarded EXCEPT ![e] = @ + 1]
          /\ messages' \in {messages, Append(messages, e)}
          /\ UNCHANGED <<payload, confirming, recorded, handled, transferFaults>>
      BY <1>3 DEF PublishRequest, RequestDelivery!Deliver
    <2>2. messages' \in Seq(DOMAIN payload)
      <3>1. \A S : \A x \in S, s \in Seq(S) : Append(s, x) \in Seq(S)
        OBVIOUS
      <3>2. messages \in Seq(DOMAIN payload)
        BY <1>1 DEF TransferTypeOK
      <3>3. QED
        BY <2>1, <3>1, <3>2
    <2>3. forwarded' \in [Requests -> 0 .. MaxTransferPublications]
      <3>1. \A n \in 0 .. MaxTransferPublications :
              n < MaxTransferPublications => n + 1 \in 0 .. MaxTransferPublications
        BY TransfersAssumption
      <3>2. QED
        BY <1>1, <2>1, <3>1 DEF TransferTypeOK
    <2>4. TransferTypeOK'
      BY <1>1, <2>1, <2>2, <2>3 DEF TransferTypeOK
    <2>5. QED
      BY <1>2, <2>1, <2>4
  <1>4. CASE ProcessMessage
    <2>1. /\ messages # <<>> /\ messages \in Seq(DOMAIN payload)
          /\ confirming' = {Head(messages)} /\ messages' = Tail(messages)
          /\ UNCHANGED <<payload, recorded, handled, transferFaults, forwarded>>
      BY <1>1, <1>4 DEF ProcessMessage, TransferTypeOK
    <2>2. confirming' \subseteq DOMAIN payload /\ messages' \in Seq(DOMAIN payload)
      BY <2>1
    <2>3. TransferTypeOK'
      BY <1>1, <2>1, <2>2 DEF TransferTypeOK
    <2>4. QED
      BY <1>2, <2>1, <2>3
  <1>5. CASE ConfirmTransfer
    <2>1. PICK e \in confirming : /\ recorded' = UpsertTransfer(recorded, payload[e])
                                  /\ handled' = handled \cup {e} /\ confirming' = {}
                                  /\ UNCHANGED <<payload, messages, transferFaults, forwarded>>
      BY <1>5 DEF ConfirmTransfer
    <2>2. /\ DOMAIN recorded' = DOMAIN recorded \cup {payload[e].hash}
          /\ recorded'[payload[e].hash] = [amount |-> payload[e].amount, confirmations |-> payload[e].confirmations]
          /\ \A h \in DOMAIN recorded : h # payload[e].hash => recorded'[h] = recorded[h]
      BY <2>1, RecordGrows
    <2>3. e \in DOMAIN payload /\ payload[e].amount \in Nat \ {0} /\ payload[e].confirmations \in Nat
      BY <1>1, <2>1 DEF TransferTypeOK
    <2>4. \A h \in DOMAIN recorded' : recorded'[h] \in [amount : Nat \ {0}, confirmations : Nat]
      <3>1. recorded'[payload[e].hash] \in [amount : Nat \ {0}, confirmations : Nat]
        BY <2>2, <2>3
      <3>2. QED
        BY <1>1, <2>2, <3>1 DEF TransferTypeOK
    <2>5. TransferTypeOK'
      BY <1>1, <2>1, <2>3, <2>4 DEF TransferTypeOK
    <2>6. QED
      BY <2>1, <2>5, HandledKeeps
  <1>6. CASE ConfirmIsForgotten
    <2>1. PICK e \in confirming : /\ TransferFault /\ handled' = handled \cup {e} /\ confirming' = {}
                                  /\ UNCHANGED <<payload, messages, recorded, forwarded>>
      BY <1>6 DEF ConfirmIsForgotten
    <2>2. transferFaults' \in 0 .. MaxTransferFaults
      BY <1>1, <2>1, TransfersAssumption DEF TransferTypeOK, TransferFault
    <2>3. TransferTypeOK'
      BY <1>1, <2>1, <2>2 DEF TransferTypeOK
    <2>4. QED
      BY <2>1, <2>3, HandledKeeps
  <1>7. CASE UNCHANGED transferVars
    BY <1>1, <1>2, <1>7 DEF transferVars, TransferTypeOK
  <1>8. QED
    BY <1>3, <1>4, <1>5, <1>6, <1>7, CreateTransferKeeps DEF TransferNext

\* The invariant always holds.
LEMMA AlwaysTransferInv == TransferSpec => []TransferInv
  BY InitTransferInv, NextTransferInv, PTL DEF TransferSpec

\* Whatever is asked for, published twice, missed or forgotten, amounts of the
\* transfers that the indexer confirms are positive.
THEOREM TransfersAreTyped == TransferSpec => []TransferTypeOK
  <1>1. TransferInv => TransferTypeOK
    BY DEF TransferInv
  <1>2. QED
    BY <1>1, AlwaysTransferInv, PTL

\* However often the relay repeats a request and the calls of the indexer fail,
\* what is recorded was asked for, and what is not has cost a failure.
THEOREM TransfersAreRequested == TransferSpec => []RequestsAreRecorded
  <1>1. TransferInv => RequestsAreRecorded
    BY DEF TransferInv, RequestsAreRecorded, Forgotten, PaidFor, ForgottenCostsFailure
  <1>2. QED
    BY <1>1, AlwaysTransferInv, PTL

\* The handler and the relay treat requests as EventDelivery says: none is
\* published before its transaction has committed.
THEOREM TransfersAreDelivered == TransferSpec => RequestDelivery!DeliverySpec
  <1>1. TransferInit => RequestDelivery!DeliveryInit
    BY DEF TransferInit, RequestDelivery!DeliveryInit
  <1>2. TransferInv /\ [TransferNext]_transferVars
          => [RequestDelivery!DeliveryNext]_(RequestDelivery!deliveryVars)
    <2> SUFFICES ASSUME TransferInv, [TransferNext]_transferVars
                 PROVE  \/ RequestDelivery!DeliveryNext
                        \/ DOMAIN payload' = DOMAIN payload /\ forwarded' = forwarded
      BY DEF RequestDelivery!deliveryVars
    <2>1. ASSUME NEW e \in Requests, NEW q \in TransferRequests, CreateMockTransfer(e, q)
          PROVE  RequestDelivery!Commit(e)
      <3>1. DOMAIN payload' = DOMAIN payload \cup {e}
        BY <2>1, PayloadGrows DEF CreateMockTransfer
      <3>2. QED
        BY <2>1, <3>1 DEF CreateMockTransfer, RequestDelivery!Commit
    <2>2. ASSUME NEW e \in Requests, PublishRequest(e) PROVE RequestDelivery!Deliver(e)
      BY <2>2 DEF PublishRequest
    <2>3. ASSUME ProcessMessage \/ ConfirmTransfer \/ ConfirmIsForgotten \/ UNCHANGED transferVars
          PROVE  UNCHANGED <<payload, forwarded>>
      BY <2>3 DEF ProcessMessage, ConfirmTransfer, ConfirmIsForgotten, transferVars
    <2>4. QED
      BY <2>1, <2>2, <2>3 DEF TransferNext, RequestDelivery!DeliveryNext
  <1>3. QED
    BY <1>1, <1>2, AlwaysTransferInv, PTL DEF TransferSpec, RequestDelivery!DeliverySpec
====
