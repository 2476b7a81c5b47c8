----------------------------- MODULE MCServices -----------------------------
(***************************************************************************)
(* Instances for TLC of the services behind the API.  They share nothing   *)
(* but the merchant, so that each behaviour exercises one of them, named   *)
(* by the variable service.                                                *)
(***************************************************************************)
EXTENDS Gateway, Storefront, Quote, Listings, Routes, TLC

VARIABLE service

\* A fixed link for one use, and an open one with every limit there is.
OneUse == [DefaultTerms({1}, Tokens) EXCEPT !.reusable = FALSE]
Limited == [DefaultTerms({}, Tokens) EXCEPT !.limit = {1}, !.expires = {1}, !.min = {1},
                                            !.max = {2}, !.adjust = -50]
MCLinkTerms == {OneUse, Limited}

\* To a fixed amount that cannot be sold, and any token.
MCLinkUpdates == {[mode |-> "fixed", amount |-> {0}, withTokens |-> TRUE, tokens |-> {}]}

MCProductAmounts == {{}, {1}}

\* Within the bounds of Limited, and above them.
MCAmounts == {{1}, {3}}

\* A source is down or answers 2, 3, or, as Bybit may, both or an index of 0.
MCResponses == {[ok |-> FALSE, index |-> {}, last |-> {}], [ok |-> TRUE, index |-> {}, last |-> {2}],
                [ok |-> TRUE, index |-> {3}, last |-> {2}], [ok |-> TRUE, index |-> {0}, last |-> {3}]}

\* Below 100% of discount, nothing, and prices at which tolerances round.
MCFiats == {-1, 0, 1, 7, 40}

\* Misconfigured (negative), none, the default 0.25%, ones that round up and
\* down at the sample prices, all, and more than all of the price.
MCTolerances == {-100, 0, 25, 1250, 2000, 3000, 10000, 12000}

\* Whoever acts, calls, edits or buys is a member of one set, and what they
\* create one of another; nobody in either set is special.
Symmetry == Permutations(Callers) \cup Permutations(ApiKeys)

\* Of services that do not run, the quote is one of nothing, and the list one
\* that has no rows.
ASSUME IdleAssumption == 0 \in Tolerances /\ "payments" \in Lists

callVars == <<call, stored, runs, overlaps, lateUses>>
buyVars == <<buying, order, paidFellBack, stats>>

Init ==
  /\ service \in {"auth", "gateway", "catalog", "sessions", "statistics", "storefront", "quote",
                  "listings", "routes"}
  /\ GatewayInit /\ SessionsInit /\ StorefrontInit /\ RoutesInit
  /\ IF service = "listings" THEN ListingInit
     ELSE list = "payments" /\ row = [x \in Rows |-> "unborn"] /\ reader = NoReader
  /\ IF service = "quote" THEN QuoteInit
     ELSE expected = 0 /\ tolerance = 0 /\ received = 0 /\ confirmations = 0

\* Replicas of auth-service start, stop and race.
AuthSteps == AccessNext /\ UNCHANGED callVars

\* Calls through the gateway, with one replica of auth-service at a time and
\* one login.
GatewaySteps ==
  /\ GatewayNext
  /\ Cardinality({r \in AuthReplicas : replica'[r] # "down"}) <= 1
  /\ Cardinality(tokens') <= 2

\* Links and products are edited.
CatalogSteps == UNCHANGED <<now, buyVars>> /\ CatalogNext

\* Sessions are created while a link is edited and intents are paid.
SessionSteps ==
  /\ UNCHANGED <<product, editor, stats>>
  /\ SessionsNext
  /\ \A o \in Orders : order'[o].events = {} /\ ~order'[o].leaving

\* Statistics of the sessions of one link that is not edited, asked for once;
\* the sessions are created one by one.
StatisticsSteps ==
  /\ UNCHANGED <<product, editor>>
  /\ stats.stage # "done"
  /\ SessionsNext
  /\ \A l \in Links : link'[l].status # "archived" /\ link'[l].terms \in {Limited, NoTerms}
  /\ Cardinality({b \in Buyers : buying'[b].stage # "idle"}) <= 1
  /\ (\E b \in Buyers : buying[b].stage # "idle") => buying' # buying

\* A customer comes while at most one product request is under way, and none
\* fails half-way.
StorefrontSteps ==
  /\ visitor.stage \in {"away", "product", "link"}
  /\ UNCHANGED <<order, paidFellBack, stats, catalogFaults>>
  /\ StorefrontNext
  /\ Cardinality({e \in Editors : editor'[e] # Idle}) <= 1
  /\ visitor'.stage \in {"away", "product", "link"} => UNCHANGED buying

\* Requests differ, the last one names an item of the merchant's own, those that
\* name one name one of the kind that they can change, and of the keyed ones
\* only that for an endpoint may lack the header.  Calls that run at once serve
\* requests of one route, the merchant's own changes meet calls of any, and the
\* last item is a session.
RoutesSteps ==
  /\ RoutesNext
  /\ \A n \in Requests : LET r == asked'[n] IN r # asked[n] =>
       /\ \A k \in Requests \ {n} : asked'[k] # r
       /\ n = MaxRequests => r.route \in Targets /\ item[r.target].shop = r.shop
       /\ r.target > 0 => item[r.target].route =
                            IF r.route \in {"pause", "resume"} THEN "subscriptions" ELSE "links"
       /\ r.header = {} => r.route \in Unkeyed \cup {"webhook_endpoints"}
  /\ Cardinality({RequestOf(c)'.route : c \in {d \in Calls : serving'[d].stage # "idle"}}) <= 1
  /\ Len(item') = MaxItems => item'[MaxItems].route \in SessionRoutes

Next ==
  /\ UNCHANGED service
  /\ \/ /\ \/ service = "auth" /\ AuthSteps
           \/ service = "gateway" /\ GatewaySteps
        /\ UNCHANGED <<storefrontVars, quoteVars, listingVars, routesVars>>
     \/ /\ \/ service = "catalog" /\ CatalogSteps /\ UNCHANGED visitor /\ NoteEdits
           \/ service = "sessions" /\ SessionSteps /\ UNCHANGED visitor /\ NoteEdits
           \/ service = "statistics" /\ StatisticsSteps /\ UNCHANGED visitor /\ NoteEdits
           \/ service = "storefront" /\ StorefrontSteps
        /\ UNCHANGED <<gatewayVars, quoteVars, listingVars, routesVars>>
     \/ /\ service = "quote" /\ QuoteNext
        /\ UNCHANGED <<gatewayVars, storefrontVars, listingVars, routesVars>>
     \/ /\ service = "listings" /\ ListingNext
        /\ UNCHANGED <<gatewayVars, storefrontVars, quoteVars, routesVars>>
     \/ /\ service = "routes" /\ RoutesSteps
        /\ UNCHANGED <<gatewayVars, storefrontVars, quoteVars, listingVars>>

vars == <<service, gatewayVars, storefrontVars, quoteVars, listingVars, routesVars>>

Spec == Init /\ [][Next]_vars

\* Variables have their types in each of the services.
TypesOK ==
  /\ GatewayTypeOK /\ CatalogTypeOK /\ SessionsTypeOK /\ StorefrontTypeOK
  /\ QuoteTypeOK /\ ListingTypeOK /\ RoutesTypeOK
=============================================================================
