--------------------------- MODULE EventDelivery ---------------------------
(***************************************************************************)
(* What the outbox promises to those who listen on the bus: an event is    *)
(* published only after the transaction that wrote it has committed, and   *)
(* every committed event is published at least once, possibly again.       *)
(* OutboxRelay implements it; Emails and MockTransfers build on it.        *)
(***************************************************************************)
EXTENDS Naturals

CONSTANT Events

VARIABLES committed,     \* events whose outbox row is visible
          publications   \* how often each was handed to NATS

deliveryVars == <<committed, publications>>

DeliveryInit ==
  /\ committed = {}
  /\ publications = [e \in Events |-> 0]

\* A handler or a worker commits the transaction that enqueued e.
Commit(e) ==
  /\ e \notin committed
  /\ committed' = committed \union {e}
  /\ UNCHANGED publications

\* e is handed to NATS.
Deliver(e) ==
  /\ e \in committed
  /\ publications' = [publications EXCEPT ![e] = @ + 1]
  /\ UNCHANGED committed

DeliveryNext == \E e \in Events : Commit(e) \/ Deliver(e)

DeliverySpec == DeliveryInit /\ [][DeliveryNext]_deliveryVars

FirstDelivery(e) == publications[e] = 0 /\ Deliver(e)

FairDeliverySpec ==
  DeliverySpec /\ \A e \in Events : WF_deliveryVars(FirstDelivery(e))
=============================================================================
