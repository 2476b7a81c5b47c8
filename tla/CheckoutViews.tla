---------------------------- MODULE CheckoutViews ----------------------------
(***************************************************************************)
(* Who looks at a checkout session while it is assessed (module Checkout): *)
(* the customer's page, which reads session and intent in one statement    *)
(* and the recorded transactions in another, and the merchant's queries    *)
(* of one statement each.                                                  *)
(***************************************************************************)
EXTENDS Checkout

CONSTANT Viewers   \* pages that are being read

VARIABLE view      \* what the first statement of a page has read

NoView == [session |-> "none", status |-> "none", received |-> 0]

viewVars == <<vars, view>>

ViewInit == Init /\ view = [v \in Viewers |-> NoView]

\* The merchant's: the session joined with its intent, and the intent alone.
GetCheckoutSession == [session |-> session, status |-> intent.status, received |-> intent.received]
GetPaymentIntent == intent

\* The columns are passed on as they are.
HandleGetCheckoutSession == GetCheckoutSession
HandleGetPaymentIntent == GetPaymentIntent

\* The second statement: all the rows of the intent.
CheckoutTransactions == ledger

\* GetPublicCheckoutSession: session and intent ...
ReadSession(v) ==
  /\ view[v] = NoView
  /\ view' = [view EXCEPT ![v] = GetCheckoutSession]
  /\ UNCHANGED vars

\* Seeded fault of PublicView: the intent is read with the transactions.
PublicViewInParts(v) ==
  [session |-> view[v].session, status |-> intent.status, received |-> intent.received,
   transactions |-> CheckoutTransactions]

\* ... and the answer, as the second statement completes it ...
PublicView(v) ==
  [session |-> view[v].session, status |-> view[v].status, received |-> view[v].received,
   transactions |-> CheckoutTransactions]

\* ... or a failure of either.
HandleGetPublicCheckoutSession(v) ==
  /\ view[v] # NoView
  /\ view' = [view EXCEPT ![v] = NoView]
  /\ UNCHANGED vars

ViewNext ==
  \/ Next /\ UNCHANGED view
  \/ \E v \in Viewers : ReadSession(v) \/ HandleGetPublicCheckoutSession(v)

ViewSpec == ViewInit /\ [][ViewNext]_viewVars

-----------------------------------------------------------------------------
(* Properties *)

\* However the session is assessed between the two statements, the page shows
\* transactions for all that it says was received (of reported transactions;
\* an observed balance has none).
ViewIsCovered ==
  \A v \in Viewers : view[v] # NoView =>
    PublicView(v).received <= Sum(PublicView(v).transactions, DOMAIN PublicView(v).transactions)

\* No page says paid of a session whose intent it does not show as paid,
\* though either may be taken back at any time.
ViewIsConsistent ==
  \A v \in Viewers : PublicView(v).session = "paid" => IntentStatusIsPaid(PublicView(v).status)

\* The two statements of the public page, with commits between them, show a
\* state that adds up.
ViewIsTrue == ViewIsCovered /\ ViewIsConsistent

\* A payment that was shown with confirmed_at is never shown without it again,
\* whatever later reports make of its status.
ConfirmedStaysShown ==
  [][HandleGetPaymentIntent.confirmedAt => (HandleGetPaymentIntent.confirmedAt)']_viewVars
=============================================================================
