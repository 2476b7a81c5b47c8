------------------------------ MODULE Sessions ------------------------------
(***************************************************************************)
(* Checkout sessions of the payment links: createSession of                *)
(* checkout-service checks a link in one statement after the other and     *)
(* commits later, while the link is edited and its intents are paid;       *)
(* conversion events and the statistics drawn from them.  How an intent    *)
(* gets its status is the matter of module Checkout.                       *)
(***************************************************************************)
EXTENDS Catalog

CONSTANTS
  Buyers,      \* concurrent calls of createSession
  Orders,      \* identities for a session with its intent
  BuyerTokens, \* tokens a buyer asks for
  Amounts,     \* amounts a buyer offers, {} for none
  Lifetimes    \* values of expires_in_sec, clamped, as time

ASSUME SessionsAssumption ==
  /\ IsFiniteSet(Buyers) /\ IsFiniteSet(Orders)
  /\ Lifetimes \subseteq Int /\ Amounts \subseteq SUBSET Int

VARIABLES
  buying,      \* where a call of createSession is
  order,       \* session, intent and conversion events
  paidFellBack,\* history: an intent lost its paid status to a stale assessment
  stats        \* what the statistics handler has read

sessionsVars == <<catalogVars, buying, order, paidFellBack, stats>>

NoBuying == [stage |-> "idle", link |-> {}, terms |-> NoTerms, open |-> FALSE]
NoOrder == [link |-> {}, intent |-> "absent", session |-> "absent", expires |-> 0, events |-> {},
            leaving |-> FALSE]
NoStats == [stage |-> "idle", incomplete |-> 0, canceled |-> 0]

SessionsInit ==
  /\ CatalogInit
  /\ buying = [b \in Buyers |-> NoBuying]
  /\ order = [o \in Orders |-> NoOrder]
  /\ paidFellBack = FALSE
  /\ stats = NoStats

Exists(o) == order[o].intent # "absent"

-----------------------------------------------------------------------------
(* createSession *)

\* Seeded fault of PaidStatuses: settled intents do not count.
PaidUnsettled == {"confirmed"}

\* confirmed stands for overpaid too.
PaidStatuses == {"confirmed", "settled"}

Paid(o) == order[o].intent \in PaidStatuses

PaidCount(l) == Cardinality({o \in Orders : order[o].link = {l} /\ Paid(o)})

Unused(l, t) == t.reusable \/ PaidCount(l) = 0
BelowLimit(l, t) == \A n \in t.limit : PaidCount(l) < n

\* Whether a customer should get a session of link l.
IsOpen(l) ==
  /\ link[l].status = "active" /\ ~Expired(l)
  /\ link[l].terms.reusable
       \/ \A o \in Orders : order[o].link = {l} => order[o].intent \notin {"confirmed", "settled"}
  /\ \A n \in link[l].terms.limit :
       n > Cardinality({o \in Orders : order[o].link = {l}
                                       /\ order[o].intent \in {"confirmed", "settled"}})

\* The link is read once; its terms are those of this moment.
LoadLink(b, l) ==
  /\ buying[b].stage = "idle"
  /\ link[l].status = "active" /\ ~Expired(l)
  /\ buying' = [buying EXCEPT ![b] = [stage |-> "reusable", link |-> {l}, terms |-> link[l].terms,
                                      open |-> IsOpen(l)]]
  /\ UNCHANGED <<catalogVars, order, paidFellBack, stats>>

\* Each check counts anew, and a refusal ends the call.
Check(b, stage, passes, next) ==
  /\ buying[b].stage = stage
  /\ buying' = [buying EXCEPT ![b] = IF passes THEN [@ EXCEPT !.stage = next] ELSE NoBuying]
  /\ UNCHANGED <<catalogVars, order, paidFellBack, stats>>

CheckReusable(b) ==
  \E l \in buying[b].link : Check(b, "reusable", Unused(l, buying[b].terms), "limit")

CheckLimit(b) ==
  \E l \in buying[b].link : Check(b, "limit", BelowLimit(l, buying[b].terms), "price")

\* The fiat amount in hundredths, from the link or from the buyer's offer, with
\* adjust_percent, which no bound is applied to; {} when it is refused.
Price(t, offer) ==
  {100 * a + t.adjust * a :
     a \in IF t.mode = "fixed" THEN {x \in t.amount : x > 0}
           ELSE {x \in offer : /\ x > 0
                               /\ \A m \in t.min : m > 0 => x >= m
                               /\ \A m \in t.max : m > 0 => x <= m}}

\* tokenAllowed; settlementAmountForToken refuses what is not positive.
Sellable(t, token, offer) ==
  /\ t.tokens = {} \/ token \in t.tokens
  /\ \E price \in Price(t, offer) : price > 0

CheckPrice(b) ==
  \E token \in BuyerTokens, offer \in Amounts :
    Check(b, "price", Sellable(buying[b].terms, token, offer), "commit")

Earliest(x, S) == IF \E y \in S : y < x THEN CHOOSE y \in S : y < x ELSE x

\* Session, intent, deposit address and payment_intent.created are one
\* transaction: no session is without its intent.
CommitSession(b, o, lifetime) ==
  /\ buying[b].stage = "commit"
  /\ ~Exists(o)
  /\ order' = [order EXCEPT ![o] =
                 [NoOrder EXCEPT !.link = buying[b].link, !.intent = "awaiting_funds",
                                 !.session = "awaiting_funds",
                                 !.expires = Earliest(now + lifetime, buying[b].terms.expires)]]
  /\ buying' = [buying EXCEPT ![b] = NoBuying]
  /\ UNCHANGED <<catalogVars, paidFellBack, stats>>

\* Any statement, the quote or the wallet fails: nothing is left behind.
SessionFails(b) ==
  /\ buying[b].stage # "idle"
  /\ CatalogFault
  /\ buying' = [buying EXCEPT ![b] = NoBuying]
  /\ UNCHANGED <<product, link, objects, editor, linkEvents, now, order, paidFellBack, stats>>

-----------------------------------------------------------------------------
(* What becomes of an intent (module Checkout) *)

Becomes(o, intent, session) ==
  /\ Exists(o)
  /\ order' = [order EXCEPT ![o].intent = intent, ![o].session = session]
  /\ UNCHANGED <<catalogVars, buying, stats>>

\* A confirm.
Pay(o) ==
  /\ ~Paid(o) /\ Becomes(o, "confirmed", "paid")
  /\ UNCHANGED paidFellBack

\* A confirm that assessed fewer rows commits last.
FallBack(o) ==
  /\ Paid(o) /\ CatalogFault
  /\ order' = [order EXCEPT ![o].intent = "awaiting_funds", ![o].session = "awaiting_funds"]
  /\ paidFellBack' = TRUE
  /\ UNCHANGED <<product, link, objects, editor, linkEvents, now, buying, stats>>

Settle(o) ==
  /\ order[o].intent = "confirmed" /\ Becomes(o, "settled", order[o].session)
  /\ UNCHANGED paidFellBack

Expire(o) ==
  /\ order[o].intent = "awaiting_funds" /\ order[o].expires < now
  /\ Becomes(o, "expired", "expired")
  /\ UNCHANGED paidFellBack

-----------------------------------------------------------------------------
(* Conversion events and statistics *)

\* handleCreatePublicCheckoutEvent, of a customer who cancels: the session,
\* unless it is paid.  An error of this statement is dropped.
CancelCheckout(o) ==
  /\ Exists(o)
  /\ \E updated \in BOOLEAN :
       /\ \/ updated /\ UNCHANGED catalogFaults
          \/ ~updated /\ CatalogFault
       /\ order' = [order EXCEPT ![o].leaving = TRUE,
                                 ![o].session = IF updated /\ @ # "paid" /\ ~Paid(o) THEN "canceled"
                                                ELSE @]
  /\ UNCHANGED <<product, link, objects, editor, linkEvents, now, buying, paidFellBack, stats>>

\* Then, whatever the first one did, the event, unless it fails or the gateway
\* dies before.
RecordCancel(o) ==
  /\ order[o].leaving
  /\ order' = [order EXCEPT ![o].leaving = FALSE, ![o].events = @ \cup {"checkout_canceled"}]
  /\ UNCHANGED <<catalogVars, buying, paidFellBack, stats>>

CancelFails(o) ==
  /\ order[o].leaving
  /\ CatalogFault
  /\ order' = [order EXCEPT ![o].leaving = FALSE]
  /\ UNCHANGED <<product, link, objects, editor, linkEvents, now, buying, paidFellBack, stats>>

\* Another event of the customer.
RecordEvent(o, type) ==
  /\ Exists(o)
  /\ order' = [order EXCEPT ![o].events = @ \cup {type}]
  /\ UNCHANGED <<catalogVars, buying, paidFellBack, stats>>

Logged(type) == {o \in Orders : type \in order[o].events}

\* Seeded fault of IncompleteOrders: a logged cancel is not incomplete.
IncompleteByStatus ==
  {o \in Orders : /\ Exists(o) /\ ~Paid(o)
                  /\ \/ order[o].session \in {"expired", "canceled"} \/ order[o].expires < now
                     \/ o \in Logged("payment_incomplete")}

IncompleteOrders ==
  {o \in Orders : /\ Exists(o) /\ ~Paid(o)
                  /\ \/ order[o].session \in {"expired", "canceled"} \/ order[o].expires < now
                     \/ o \in Logged("payment_incomplete") \cup Logged("checkout_canceled")}

CanceledOrders ==
  {o \in Orders : Exists(o) /\ ~Paid(o) /\ (order[o].session = "canceled"
                                            \/ o \in Logged("checkout_canceled"))}

\* checkoutConversionStats: the events are counted first ...
CountEvents ==
  /\ stats.stage # "events"
  /\ stats' = [stage |-> "events", incomplete |-> Cardinality(Logged("payment_incomplete")),
               canceled |-> Cardinality(Logged("checkout_canceled"))]
  /\ UNCHANGED <<catalogVars, buying, order, paidFellBack>>

AtLeast(m, n) == IF m < n THEN n ELSE m

\* ... and the outcomes of the sessions by a second query.
CountOutcomes ==
  /\ stats.stage = "events"
  /\ stats' = [stage |-> "done",
               incomplete |-> AtLeast(stats.incomplete, Cardinality(IncompleteOrders)),
               canceled |-> AtLeast(stats.canceled, Cardinality(CanceledOrders))]
  /\ UNCHANGED <<catalogVars, buying, order, paidFellBack>>

SessionsNext ==
  \/ CatalogNext /\ UNCHANGED <<buying, order, paidFellBack, stats>>
  \/ \E b \in Buyers :
       \/ \E l \in Links : LoadLink(b, l)
       \/ CheckReusable(b) \/ CheckLimit(b) \/ CheckPrice(b)
       \/ \E o \in Orders, lifetime \in Lifetimes : CommitSession(b, o, lifetime)
       \/ SessionFails(b)
  \/ \E o \in Orders :
       \/ Pay(o) \/ FallBack(o) \/ Settle(o) \/ Expire(o)
       \/ CancelCheckout(o) \/ RecordCancel(o) \/ CancelFails(o)
       \/ RecordEvent(o, "payment_incomplete")
  \/ CountEvents \/ CountOutcomes

SessionsSpec == SessionsInit /\ [][SessionsNext]_sessionsVars

-----------------------------------------------------------------------------
\* SessionsTypeOK: a call has a link in hand, and an order one that exists.
SessionsTypeOK ==
  /\ \A b \in Buyers : /\ buying[b].stage \in {"idle", "reusable", "limit", "price", "commit"}
                       /\ buying[b].stage # "idle" => \E l \in Links : buying[b].link = {l} /\ Known(l)
  /\ \A o \in Orders :
       \/ order[o] = NoOrder
       \/ /\ \E l \in Links : order[o].link = {l} /\ Known(l)
          /\ order[o].intent \in {"awaiting_funds", "confirmed", "settled", "expired"}
          /\ order[o].session \in {"awaiting_funds", "paid", "expired", "canceled"}
          /\ order[o].leaving \in BOOLEAN
  /\ stats.stage \in {"idle", "events", "done"}

\* Though its checks read at different times, a call that passes them all had a
\* link that was active, not expired, unused if it is for one use and below its
\* limit at one moment, that of its first read, unless a paid intent fell back.
AdmittedWasOpen ==
  \A b \in Buyers : buying[b].stage \in {"price", "commit"} => buying[b].open \/ paidFellBack

\* Whatever commits, fails or stays behind between the statements of a cancel
\* and between the queries of the statistics: a checkout that was canceled, with
\* or without its event, is counted as canceled, and no more are counted so than
\* as incomplete, but for those that were paid though they were canceled.
CancelsAreCounted ==
  [][stats.stage = "events" /\ stats'.stage = "done" =>
       /\ Cardinality({o \in Orders : order[o].session = "canceled" /\ ~Paid(o)}) <= stats'.canceled
       /\ stats'.canceled <= stats'.incomplete
                            + Cardinality({o \in Logged("checkout_canceled") : Paid(o)})]_sessionsVars
=============================================================================
