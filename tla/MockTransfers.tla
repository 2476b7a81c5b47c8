---------------------------- MODULE MockTransfers ----------------------------
(***************************************************************************)
(* Simulated transfers: the gateway turns the request of an administrator  *)
(* into an event, the relay publishes it, and the indexer of the           *)
(* chain-observer calls ConfirmCheckoutSession once for each message. No   *)
(* message is kept for an indexer that is away and no call is repeated.    *)
(* A request is named by its event.                                        *)
(***************************************************************************)
EXTENDS Integers, FiniteSets, Sequences

CONSTANTS Requests,                     \* events of type mock_transfer.requested
          ExpectedAmount, RequiredDepth,\* of the payment intent
          TransferRequests,     \* bodies: amount, confirmations and hash, as sets of at
                                \* most one value, for each may be left out
          MaxTransferPublications,
          MaxTransferFaults

\* An intent is created for a positive amount, by createSession.
ASSUME TransfersAssumption ==
  /\ ExpectedAmount \in Nat \ {0} /\ RequiredDepth \in Nat
  /\ \A q \in TransferRequests : q.amount \subseteq Int /\ q.confirmations \subseteq Int
  /\ MaxTransferPublications \in Nat /\ MaxTransferFaults \in Nat

VARIABLES payload,        \* what the event of a request says
          forwarded,      \* how often the relay has published it
          messages,       \* NATS messages that wait for the indexer, in order
          confirming,     \* the event of the call in progress, if any
          recorded,       \* checkout.chain_transactions, by tx_hash
          handled,        \* history: events the indexer has dealt with
          transferFaults

transferVars == <<payload, forwarded, messages, confirming, recorded, handled, transferFaults>>

\* Function f with the value v at x.
With(f, x, v) == [y \in DOMAIN f \cup {x} |-> IF y = x THEN v ELSE f[y]]

\* The outbox, as far as these events go.
RequestDelivery == INSTANCE EventDelivery
                     WITH Events <- Requests, committed <- DOMAIN payload, publications <- forwarded

TransferFault ==
  /\ transferFaults < MaxTransferFaults
  /\ transferFaults' = transferFaults + 1

TransferInit ==
  /\ payload = <<>>
  /\ forwarded = [e \in Requests |-> 0]
  /\ messages = <<>>
  /\ confirming = {}
  /\ recorded = <<>>
  /\ handled = {}
  /\ transferFaults = 0

\* The checks of handleCreateMockTransfer: what is given must make sense.
Acceptable(q) ==
  /\ \A v \in q.amount : v > 0
  /\ \A n \in q.confirmations : n >= 0

\* What is not given is taken from the intent; a hash is made up.
Given(field, default) == IF field = {} THEN default ELSE CHOOSE v \in field : TRUE

WithDefaults(e, q) ==
  [amount |-> Given(q.amount, ExpectedAmount),
   confirmations |-> Given(q.confirmations, RequiredDepth),
   hash |-> Given(q.hash, <<"mock_tx", e>>)]

CreateMockTransfer(e, q) ==
  /\ Acceptable(q)
  /\ e \notin DOMAIN payload
  /\ payload' = With(payload, e, WithDefaults(e, q))
  /\ UNCHANGED <<forwarded, messages, confirming, recorded, handled, transferFaults>>

\* The relay publishes e; the indexer receives it, or is away.
PublishRequest(e) ==
  /\ forwarded[e] < MaxTransferPublications
  /\ UNCHANGED payload
  /\ RequestDelivery!Deliver(e)
  /\ messages' \in {messages, Append(messages, e)}
  /\ UNCHANGED <<confirming, recorded, handled, transferFaults>>

\* processMessage takes the next message and calls.
ProcessMessage ==
  /\ confirming = {} /\ messages # <<>>
  /\ confirming' = {Head(messages)}
  /\ messages' = Tail(messages)
  /\ UNCHANGED <<payload, recorded, handled, transferFaults, forwarded>>

\* The row of ConfirmCheckoutSession: the last report of a hash counts.
UpsertTransfer(r, p) ==
  With(r, p.hash, [amount |-> p.amount, confirmations |-> p.confirmations])

\* Seeded fault of ConfirmTransfer: a session with a transfer takes no other.
ConfirmFirstTransfer ==
  \E e \in confirming :
    /\ recorded' = IF recorded = <<>> THEN UpsertTransfer(recorded, payload[e]) ELSE recorded
    /\ handled' = handled \union {e}
    /\ confirming' = {}
    /\ UNCHANGED <<payload, messages, transferFaults, forwarded>>

\* The call commits; its answer may still be lost, which changes nothing.
ConfirmTransfer ==
  \E e \in confirming :
    /\ recorded' = UpsertTransfer(recorded, payload[e])
    /\ handled' = handled \union {e}
    /\ confirming' = {}
    /\ UNCHANGED <<payload, messages, transferFaults, forwarded>>

\* The call fails or takes longer than 20 seconds: processMessage logs it.
ConfirmIsForgotten ==
  \E e \in confirming :
    /\ TransferFault
    /\ handled' = handled \union {e}
    /\ confirming' = {}
    /\ UNCHANGED <<payload, messages, recorded, forwarded>>

TransferNext ==
  \/ \E e \in Requests : \/ \E q \in TransferRequests : CreateMockTransfer(e, q)
                       \/ PublishRequest(e)
  \/ ProcessMessage \/ ConfirmTransfer \/ ConfirmIsForgotten

TransferSpec == TransferInit /\ [][TransferNext]_transferVars

-----------------------------------------------------------------------------
\* Every variable has its type; what was accepted is not zero or negative.
TransferTypeOK ==
  LET Body == [amount : Nat \ {0}, confirmations : Nat] IN
  /\ DOMAIN payload \subseteq Requests
  /\ \A e \in DOMAIN payload : payload[e].amount \in Nat \ {0} /\ payload[e].confirmations \in Nat
  /\ forwarded \in [Requests -> 0 .. MaxTransferPublications]
  /\ messages \in Seq(DOMAIN payload)
  /\ confirming \subseteq DOMAIN payload
  /\ \A h \in DOMAIN recorded : recorded[h] \in Body
  /\ handled \subseteq DOMAIN payload
  /\ transferFaults \in 0 .. MaxTransferFaults

\* However often the request is published and confirmed, what is recorded
\* under a hash is the amount and depth that some request asked for.
RecordedWasRequested ==
  \A h \in DOMAIN recorded :
    \E e \in handled : /\ payload[e].hash = h
                       /\ payload[e].amount = recorded[h].amount
                       /\ payload[e].confirmations = recorded[h].confirmations

\* A request that reached the indexer and is not recorded has cost a failure.
ForgottenCostsFailure ==
  Cardinality({e \in handled : payload[e].hash \notin DOMAIN recorded}) <= transferFaults

\* Requests and recorded transfers match, failures apart.
RequestsAreRecorded == RecordedWasRequested /\ ForgottenCostsFailure

=============================================================================
