-------------------------------- MODULE Routes --------------------------------
(***************************************************************************)
(* What clients of the API ask to be created and changed, when answers are *)
(* lost and calls are repeated or overlap.  The handlers that create       *)
(* something run under withIdempotency, whose scope is the merchant, the   *)
(* route with a literal ":id" in it, and the header: its look-up, the      *)
(* operation and the storing of its answer are statements of their own.    *)
(* So are, within createSession, the check of the link and the commit.     *)
(* Module Gateway has the same for API keys, which may be revoked; here    *)
(* the question is whose answer a request gets, and what became of the     *)
(* thing it names meanwhile.                                               *)
(***************************************************************************)
EXTENDS Integers, Sequences, FiniteSets

CONSTANTS
  Shops,          \* merchants
  Headers,        \* values of the header Idempotency-Key
  Calls,          \* calls that the gateway serves at once
  MaxRequests,    \* bound: different requests
  MaxItems,       \* bound: links, sessions, endpoints and subscriptions
  MaxRouteFaults  \* bound: failed statements and lost calls

ASSUME RoutesAssumption ==
  /\ IsFiniteSet(Shops) /\ IsFiniteSet(Headers) /\ IsFiniteSet(Calls)
  /\ {MaxRequests, MaxItems, MaxRouteFaults} \subseteq Nat

VARIABLES
  asked,       \* the requests, each repeated at will by its client
  serving,     \* what each call is doing, for which request
  item,        \* what was created, in the order of creation
  replies,     \* idempotency_keys: the item answered, by merchant, route and header
  got,         \* history: items a request was answered with
  routeFaults

routesVars == <<asked, serving, item, replies, got, routeFaults>>

Keyed == {"links", "links/:id/sessions", "webhook_endpoints", "subscriptions"}
Unkeyed == {"public/sessions", "archive", "update", "pause", "resume"}
SessionRoutes == {"links/:id/sessions", "public/sessions"}
Targets == SessionRoutes \cup {"archive", "update", "pause", "resume"}

Requests == 1..MaxRequests
Unasked == [route |-> "none", shop |-> {}, target |-> 0, header |-> {}]

\* raced: another call of the same scope was under way at the look-up.
NotServing == [stage |-> "idle", request |-> 0, made |-> 0, raced |-> FALSE]

RoutesInit ==
  /\ asked = [n \in Requests |-> Unasked]
  /\ serving = [c \in Calls |-> NotServing]
  /\ item = <<>>
  /\ replies = [s \in Shops \X Keyed \X Headers |-> 0]
  /\ got = [n \in Requests |-> {}]
  /\ routeFaults = 0

RouteFault == routeFaults < MaxRouteFaults /\ routeFaults' = routeFaults + 1

\* A client comes up with another request: on an item he knows of, if the
\* route has an :id, and with a header that he may have used before.
Ask(n) ==
  /\ asked[n] = Unasked /\ \A k \in 1..(n - 1) : asked[k] # Unasked
  /\ \E route \in Keyed \cup Unkeyed, m \in Shops,
       h \in {{}} \cup {{i} : i \in Headers}, t \in 0..Len(item) :
       /\ route \in Targets <=> t > 0
       /\ route \in Unkeyed => h = {}
       /\ asked' = [asked EXCEPT ![n] = [route |-> route, shop |-> {m}, target |-> t, header |-> h]]
  /\ UNCHANGED <<serving, item, replies, got, routeFaults>>

-----------------------------------------------------------------------------
(* withIdempotency *)

\* The request that a call serves.
RequestOf(c) == asked[serving[c].request]

\* Seeded fault of Scope: the route does not count.
ScopeOfAnyRoute(r) == r.shop \X {"links"} \X r.header

\* Where the answer of a request is looked up; nowhere without the header.
Scope(r) == r.shop \X {r.route} \X r.header

\* The calls that have missed an answer of scope s and have not stored theirs.
UnderWay(s) == {c \in Calls : serving[c].stage # "idle" /\ s \in Scope(RequestOf(c))}

\* The answer is sent; whether or not it arrives, the client may ask again.
Reply(n, x) == got' = [got EXCEPT ![n] = @ \cup {x}]

Start(c, n, raced) ==
  /\ serving[c].stage = "idle"
  /\ serving' = [serving EXCEPT ![c] = [stage |-> "run", request |-> n, made |-> 0, raced |-> raced]]

\* A stored answer is repeated, whatever it is the answer of.
Replay(n) ==
  /\ asked[n].route \in Keyed
  /\ \E s \in Scope(asked[n]) : replies[s] > 0 /\ Reply(n, replies[s])
  /\ UNCHANGED <<asked, serving, item, replies, routeFaults>>

\* No answer is found, or none looked for.
LookUpAnswer(c, n) ==
  /\ asked[n].route \in Keyed
  /\ \A s \in Scope(asked[n]) : replies[s] = 0
  /\ Start(c, n, \E s \in Scope(asked[n]) : UnderWay(s) # {})
  /\ UNCHANGED <<asked, item, replies, got, routeFaults>>

\* The answer is stored, ON CONFLICT DO NOTHING, and sent.  That it could not
\* be stored is not noticed.
StoreAnswer(c) ==
  /\ serving[c].stage = "store"
  /\ \/ /\ replies' = [s \in DOMAIN replies |->
                         IF s \in Scope(RequestOf(c)) /\ replies[s] = 0 THEN serving[c].made
                         ELSE replies[s]]
        /\ UNCHANGED routeFaults
     \/ RouteFault /\ UNCHANGED replies
  /\ Reply(serving[c].request, serving[c].made)
  /\ serving' = [serving EXCEPT ![c] = NotServing]
  /\ UNCHANGED <<asked, item>>

\* An operation fails, or its process does: nothing is stored or answered,
\* whether or not it has committed.
LoseCall(c) ==
  /\ serving[c].stage # "idle"
  /\ RouteFault
  /\ serving' = [serving EXCEPT ![c] = NotServing]
  /\ UNCHANGED <<asked, item, replies, got>>

-----------------------------------------------------------------------------
(* Handlers that create something *)

\* A call creates an item of the shops.  Its event is in the transaction, or
\* follows it.  History: late, for a session of a link that is archived by now,
\* and raced.
Create(c, shop, announced) ==
  /\ Len(item) < MaxItems
  /\ LET r == RequestOf(c)
         late == r.route \in SessionRoutes /\ item[r.target].status # "live"
     IN  item' = Append(item, [by |-> serving[c].request, route |-> r.route, shop |-> shop,
                               target |-> r.target, status |-> "live", late |-> late, closing |-> 0,
                               announced |-> IF announced THEN 1 ELSE 0, raced |-> serving[c].raced])
  /\ serving' = [serving EXCEPT ![c].stage = IF announced THEN "store" ELSE "event",
                                ![c].made = Len(item')]
  /\ UNCHANGED <<asked, replies, got, routeFaults>>

\* A call has found no answer to a request of the route.
Runs(c, route) == serving[c].stage = "run" /\ RequestOf(c).route = route

\* The event of a link and of a subscription is part of their transaction.
HandleCreatePaymentLink(c) == Runs(c, "links") /\ Create(c, RequestOf(c).shop, TRUE)
HandleCreateSubscription(c) == Runs(c, "subscriptions") /\ Create(c, RequestOf(c).shop, TRUE)

\* The event follows the row.
HandleCreateWebhookEndpoint(c) == Runs(c, "webhook_endpoints") /\ Create(c, RequestOf(c).shop, FALSE)

\* Nobody is authenticated, and no answer is looked for.
HandleCreatePublicCheckoutSession(c, n) ==
  /\ asked[n].route = "public/sessions"
  /\ Start(c, n, FALSE)
  /\ UNCHANGED <<asked, item, replies, got, routeFaults>>

\* Seeded fault of OpenLink: the status of a link does not count.
OwnLink(c) ==
  LET x == RequestOf(c).target
  IN  item[x].route = "links" /\ (Runs(c, "public/sessions") \/ item[x].shop = RequestOf(c).shop)

\* A link that is not archived, and the merchant's own unless the call is public.
OpenLink(c) ==
  LET x == RequestOf(c).target
  IN  /\ item[x].route = "links" /\ item[x].status = "live"
      /\ Runs(c, "public/sessions") \/ item[x].shop = RequestOf(c).shop

\* createSession looks at the link, and refuses any other.
CheckLink(c) ==
  /\ serving[c].stage = "run" /\ RequestOf(c).route \in SessionRoutes
  /\ serving' = [serving EXCEPT ![c] = IF OpenLink(c) THEN [@ EXCEPT !.stage = "checked"]
                                      ELSE NotServing]
  /\ UNCHANGED <<asked, item, replies, got, routeFaults>>

\* The session, with the owner of the link, is committed later, without
\* another look.
CreateSession(c) ==
  serving[c].stage = "checked" /\ Create(c, item[RequestOf(c).target].shop, FALSE)

\* That a session was asked for (pay_clicked), or an endpoint added, is
\* recorded; an error of it is dropped.
RecordCreation(c) ==
  /\ serving[c].stage = "event"
  /\ \/ /\ item' = [item EXCEPT ![serving[c].made].announced = @ + 1]
        /\ UNCHANGED routeFaults
     \/ RouteFault /\ UNCHANGED item
  /\ serving' = [serving EXCEPT ![c].stage = "store"]
  /\ UNCHANGED <<asked, replies, got>>

-----------------------------------------------------------------------------
(* Handlers that change something *)

\* The calls that have checked link x and not committed their session.
CheckedOn(x) == {c \in Calls : serving[c].stage = "checked" /\ RequestOf(c).target = x}

\* An item of the merchant's own goes from one of the statuses to another.
\* History: how many sessions of a link are about to be committed when it is
\* archived.
Change(n, route, from, to) ==
  /\ LET x == asked[n].target
     IN  /\ item[x].route = route /\ item[x].shop = asked[n].shop /\ item[x].status \in from
         /\ item' = [item EXCEPT ![x].status = to,
                                 ![x].closing = IF to = "archived" THEN Cardinality(CheckedOn(x)) ELSE @]
         /\ Reply(n, x)
  /\ UNCHANGED <<asked, serving, replies, routeFaults>>

Is(n, route) == asked[n].route = route

\* The terms that an update changes are the matter of module Catalog.
HandleUpdatePaymentLink(n) == Is(n, "update") /\ Change(n, "links", {"live"}, "live")
HandleArchivePaymentLink(n) == Is(n, "archive") /\ Change(n, "links", {"live"}, "archived")
HandlePauseSubscription(n) == Is(n, "pause") /\ Change(n, "subscriptions", {"live"}, "paused")
HandleResumeSubscription(n) == Is(n, "resume") /\ Change(n, "subscriptions", {"paused"}, "live")

RoutesNext ==
  \/ \E n \in Requests :
       \/ Ask(n) \/ Replay(n)
       \/ \E c \in Calls : LookUpAnswer(c, n) \/ HandleCreatePublicCheckoutSession(c, n)
       \/ HandleUpdatePaymentLink(n) \/ HandleArchivePaymentLink(n)
       \/ HandlePauseSubscription(n) \/ HandleResumeSubscription(n)
  \/ \E c \in Calls :
       \/ HandleCreatePaymentLink(c) \/ HandleCreateSubscription(c) \/ HandleCreateWebhookEndpoint(c)
       \/ CheckLink(c) \/ CreateSession(c) \/ RecordCreation(c)
       \/ StoreAnswer(c) \/ LoseCall(c)

RoutesSpec == RoutesInit /\ [][RoutesNext]_routesVars

-----------------------------------------------------------------------------
(* Properties *)

\* RoutesTypeOK: what is created names its request and, if any, an item made
\* before it; calls and answers name items that exist.
RoutesTypeOK ==
  /\ \A n \in Requests : asked[n] # Unasked => asked[n].target \in 0..Len(item)
  /\ \A c \in Calls : /\ serving[c].stage \in {"idle", "run", "checked", "event", "store"}
                       /\ serving[c].made \in 0..Len(item)
                       /\ serving[c].stage # "idle" => serving[c].request \in Requests
  /\ \A x \in DOMAIN item : /\ item[x].by \in Requests /\ item[x].target \in 0..(x - 1)
                            /\ item[x].status \in {"live", "archived", "paused"}
                            /\ Cardinality(item[x].shop) = 1
  /\ \A s \in DOMAIN replies : replies[s] \in 0..Len(item)
  /\ \A n \in Requests : got[n] \subseteq DOMAIN item
  /\ routeFaults \in 0..MaxRouteFaults

\* A client is answered with what its own request created, or with what
\* another one of the same merchant, route and header did: only a client that
\* uses a key twice, for another link or another body, is told of a thing it
\* did not ask for.
AnswerIsOfRequest ==
  \A n \in Requests : \A x \in got[n] :
    asked[n].route \in Keyed \cup {"public/sessions"} =>
      \/ item[x].by = n
      \/ LET first == asked[item[x].by]
         IN  first.header # {} /\ [first EXCEPT !.target = 0] = [asked[n] EXCEPT !.target = 0]

\* The items that were created in scope s.
CreatedIn(s) == {x \in DOMAIN item : s \in Scope(asked[item[x].by])}

\* However often a key is repeated, one thing is created for it, but for calls
\* that looked for an answer while another one with the key was under way, and
\* for answers that were lost before they could be stored.
RetriesCostFailures ==
  \A s \in DOMAIN replies : Cardinality({x \in CreatedIn(s) : ~item[x].raced}) <= 1 + routeFaults

\* What is created is announced at most once, however often its answer is
\* repeated, and not at all only after a failure, or while the call that
\* created it has yet to do so.
AnnouncedOnce ==
  /\ \A x \in DOMAIN item : item[x].announced <= 1
  /\ LET due == {serving[c].made : c \in {d \in Calls : serving[d].stage = "event"}}
     IN  Cardinality({x \in DOMAIN item \ due : item[x].announced = 0}) <= routeFaults

\* A client may repeat what it has no answer to: it gets the answer of its own
\* request, and what it asked for is created and announced once, overlapping
\* calls and failures of the gateway apart.
RepeatsAreHarmless == AnswerIsOfRequest /\ RetriesCostFailures /\ AnnouncedOnce

\* A link that was archived stays so, whatever late repetitions do.  Sessions
\* of it are still created, but no more of them than had checked it when it
\* was archived.
ArchivedIsOver ==
  [][\A x \in DOMAIN item : item[x].status = "archived" =>
       /\ item'[x].status = "archived"
       /\ Cardinality({y \in DOMAIN item' : item'[y].late /\ item'[y].target = x})
            <= item[x].closing]_routesVars
=============================================================================
