----------------------------- MODULE MCWorkers ------------------------------
(***************************************************************************)
(* Instances for TLC of the outbox relay, the three subscribers of the bus *)
(* and the subscription scheduler. They share nothing but the stream of    *)
(* events (EventDelivery is what the relay promises of it), so that        *)
(* each behaviour exercises one of them, named by the variable worker.     *)
(***************************************************************************)
EXTENDS OutboxRelay, Webhooks, Emails, MockTransfers, Subscriptions, TLC

VARIABLE worker

MCEvents == 1 .. 2
MCOutboxEvents == 1 .. 3

\* p1 takes every event.
CONSTANT p1
MCEndpoints == {p1}
MCWants == MCEndpoints \X Messages

\* The first event concerns a customer too.
MCRecipients == (1 :> {"customer", "merchant"}) @@ (2 :> {"merchant"})

\* Bodies that are accepted, with two requests for one hash, and refused ones.
MCTransferRequests ==
  [amount : {{}, {1}}, confirmations : {{}}, hash : {{}, {<<"tx">>}}]
    \union {[amount |-> {0}, confirmations |-> {}, hash |-> {}],
            [amount |-> {1}, confirmations |-> {-1}, hash |-> {}]}

\* A vault for one cycle of two, one whose remainder is more than its maximum,
\* and a refused request.
MCPlans ==
  {[amount |-> 2, max |-> 3, remaining |-> 0], [amount |-> 1, max |-> 1, remaining |-> 3],
   [amount |-> 0, max |-> 1, remaining |-> 3]}

Init ==
  /\ worker \in {"relay", "webhook", "email", "indexer", "scheduler"}
  /\ OutboxInit /\ WebhookInit /\ EmailInit /\ TransferInit /\ SubInit
  \* What never changes varies only where it is used.
  /\ worker # "webhook" => broken = {} /\ \A d \in Dispatchers : inbox[d] = {}
  \* The rows of different callbacks have nothing in common but the tickers: one
  \* dispatcher was up for the message, and all repeat its delivery.
  /\ worker = "webhook" => \E d \in Dispatchers : inbox = [e \in Dispatchers |-> IF e = d THEN Messages ELSE {}]
  /\ worker # "scheduler" => nestedExec

Next ==
  /\ UNCHANGED worker
  /\ \/ /\ worker = "relay"
        /\ OutboxNext
        /\ UNCHANGED <<webhookVars, emailVars, transferVars, subVars>>
     \/ /\ worker = "webhook"
        /\ WebhookNext
        /\ UNCHANGED <<outboxVars, emailVars, transferVars, subVars>>
     \/ /\ worker = "email"
        /\ EmailNext
        /\ UNCHANGED <<outboxVars, webhookVars, transferVars, subVars>>
     \/ /\ worker = "indexer"
        /\ TransferNext
        /\ UNCHANGED <<outboxVars, webhookVars, emailVars, subVars>>
     \/ /\ worker = "scheduler"
        /\ SubNext
        /\ UNCHANGED <<outboxVars, webhookVars, emailVars, transferVars>>

vars == <<worker, outboxVars, webhookVars, emailVars, transferVars, subVars>>

\* What is fair in one service is disabled while another one runs.
FairSpec ==
  /\ Init /\ [][Next]_vars
  /\ OutboxFairness /\ WebhookFairness /\ EmailFairness

\* The subscription scheduler alone.
FairSubSpec == Init /\ [][Next]_vars /\ SubFairness

\* Variables have their types in each of the services.
TypesOK == OutboxTypeOK /\ WebhookTypeOK /\ EmailTypeOK /\ TransferTypeOK /\ SubTypeOK
=============================================================================
