------------------------------ MODULE Storefront ------------------------------
(***************************************************************************)
(* A customer who comes to the page of a product, goes on to the page of   *)
(* the link it names and asks for a session, one request at a time, while  *)
(* the merchant edits both.  Each page is one statement.                   *)
(***************************************************************************)
EXTENDS Sessions

VARIABLES
  visitor,   \* where the customer is, what he was shown and what surprised him
  edited     \* history: products and links whose amount was changed

NoPage == [mode |-> "open", amount |-> {}, tokens |-> {}]
NoVisitor == [stage |-> "away", product |-> {}, link |-> {}, page |-> NoPage, image |-> {},
              changed |-> FALSE, by |-> "nothing"]

storefrontVars == <<sessionsVars, visitor, edited>>

-----------------------------------------------------------------------------
(* Pages *)

\* Seeded fault of Offered: expires_at is not looked at.
OfferedForever(l) == link[l].status = "active"

\* What both pages ask of a link: active, and NULL or later than NOW() as its
\* expires_at.  createSession still takes it at expires_at.
Offered(l) == link[l].status = "active" /\ \A x \in link[l].terms.expires : x > now

\* The newest offered link of a product; which of several is newest is left
\* open.
ActiveLinks(p) == {l \in Links : link[l].product = {p} /\ Offered(l)}

\* scanProductRow: no tokens are shown without a link.  The amount is that of
\* the product, whatever the link asks.
ProductRow(p, L) ==
  [amount |-> product[p].amount, image |-> product[p].image, link |-> L,
   tokens |-> UNION {link[l].terms.tokens : l \in L}]

\* fetchPublicProduct: any stored product.
FetchPublicProduct(p) ==
  {ProductRow(p, L) : L \in IF p \notin Stored THEN {}
                            ELSE IF ActiveLinks(p) = {} THEN {{}}
                            ELSE {{l} : l \in ActiveLinks(p)}}

\* The link's page says neither by what percentage its amount is adjusted nor
\* which bounds and limits it has.
LinkPage(l) == [mode |-> link[l].terms.mode, amount |-> link[l].terms.amount,
                tokens |-> link[l].terms.tokens]

\* GetPaymentLink of the merchant's: a row without options cannot be scanned.
GetPaymentLink(l) == IF Known(l) /\ link[l].options THEN {link[l].terms} ELSE {}

-----------------------------------------------------------------------------
(* The customer *)

HandleGetPublicProduct(p) ==
  /\ visitor.stage = "away"
  /\ \E row \in FetchPublicProduct(p) :
       visitor' = [NoVisitor EXCEPT !.stage = "product", !.product = {p}, !.link = row.link,
                                    !.page = [NoPage EXCEPT !.amount = row.amount,
                                                            !.tokens = row.tokens],
                                    !.image = row.image]
  /\ UNCHANGED <<sessionsVars, edited>>

\* The image of the page, if the store has it under its key.
HandleGetProductImage ==
  /\ visitor.stage = "product" /\ visitor.image # {}
  /\ visitor' = IF visitor.image \subseteq objects THEN [visitor EXCEPT !.image = {}]
                ELSE [visitor EXCEPT !.stage = "broken"]
  /\ UNCHANGED <<sessionsVars, edited>>

Surprise(by) == visitor' = [visitor EXCEPT !.stage = "surprised", !.by = by]

\* The page of a link he was sent, or of the one the product's page names, with
\* what that page said to compare it with.  That it was opened is recorded as an
\* event, or an error of it logged.
HandleGetPublicPaymentLink(l) ==
  /\ \/ visitor.stage = "away" /\ Offered(l)
     \/ visitor.stage = "product" /\ l \in visitor.link
  /\ LET known == visitor.stage = "product"
     IN  IF ~Offered(l) THEN Surprise("gone")
         ELSE IF known /\ visitor.page.tokens # LinkPage(l).tokens THEN Surprise("tokens")
         ELSE IF known /\ visitor.page.amount # LinkPage(l).amount THEN Surprise("amount")
         ELSE visitor' = [visitor EXCEPT !.stage = "link", !.link = {l}, !.page = LinkPage(l)]
  /\ UNCHANGED <<sessionsVars, edited>>

\* What he may choose on the page of a link, and what he thinks it costs.
TokensOf(page) == IF page.tokens = {} THEN BuyerTokens ELSE page.tokens
OffersOn(page) == IF page.mode = "fixed" THEN {{}} ELSE {{a} : a \in {x \in UNION Amounts : x > 0}}
PriceOn(page, offer) ==
  {100 * a : a \in IF page.mode = "fixed" THEN {x \in page.amount : x > 0} ELSE offer}

\* He asks for a session: createSession (module Sessions) refuses the link, the
\* token or the offer, or charges a price.  Whether the link is used up, which
\* no page tells either, it asks before; the customer is not followed there.
AskForSession(b, token, offer) ==
  /\ visitor.stage = "link"
  /\ token \in TokensOf(visitor.page) /\ offer \in OffersOn(visitor.page)
  /\ \E l \in visitor.link :
       \/ /\ LoadLink(b, l)
          /\ IF ~Sellable(link[l].terms, token, offer) THEN Surprise("refused")
             ELSE IF Price(link[l].terms, offer) # PriceOn(visitor.page, offer) THEN Surprise("price")
             ELSE visitor' = [visitor EXCEPT !.stage = "served"]
       \/ /\ link[l].status # "active" \/ Expired(l)
          /\ Surprise("gone")
          /\ UNCHANGED sessionsVars
  /\ UNCHANGED edited

\* The products and links whose amount a step changes are remembered.
NoteEdits ==
  edited' = [products |-> edited.products \cup
                           {p \in Products : /\ product[p].status # "absent"
                                             /\ product'[p].amount # product[p].amount},
             links |-> edited.links \cup
                        {l \in Links : Known(l) /\ link'[l].terms.amount # link[l].terms.amount}]

\* Links, products and the time change under an open page.
Meanwhile ==
  /\ SessionsNext
  /\ visitor' = IF visitor.stage \in {"product", "link"} /\ <<link', now'>> # <<link, now>>
                THEN [visitor EXCEPT !.changed = TRUE] ELSE visitor
  /\ NoteEdits

StorefrontNext ==
  \/ \E p \in Products : HandleGetPublicProduct(p)
  \/ HandleGetProductImage
  \/ \E l \in Links : HandleGetPublicPaymentLink(l)
  \/ \E b \in Buyers : \E token \in TokensOf(visitor.page), offer \in OffersOn(visitor.page) :
       AskForSession(b, token, offer)
  \/ Meanwhile

StorefrontInit == visitor = NoVisitor /\ edited = [products |-> {}, links |-> {}]

StorefrontSpec == SessionsInit /\ StorefrontInit /\ [][StorefrontNext]_storefrontVars

-----------------------------------------------------------------------------
(* Properties *)

\* StorefrontTypeOK: one page at a time, of a link that exists.
StorefrontTypeOK ==
  /\ visitor.stage \in {"away", "product", "link", "served", "surprised", "broken"}
  /\ visitor.by \in {"nothing", "gone", "tokens", "amount", "refused", "price"}
  /\ visitor.stage = "surprised" <=> visitor.by # "nothing"
  /\ visitor.link \subseteq {l \in Links : Known(l)} /\ Cardinality(visitor.link) <= 1
  /\ visitor.stage \in {"link", "served"} => visitor.link # {}
  /\ visitor.image \subseteq Images
  /\ edited.products \subseteq Products /\ edited.links \subseteq Links

\* The product and its link may ask for different amounts: one of them was
\* changed, or the link was not made with the product.
PricedApart(l) ==
  l \in linkEvents["created"] \cup edited.links \/ visitor.product \subseteq edited.products

\* A customer finds a link gone, other tokens, another amount, a refusal or a
\* charge that the page before it did not show only if a link was edited or time
\* passed in between, or for what no page shows: a product and a link that are
\* priced apart, adjust_percent, and the bounds of an open amount.  An amount
\* that is not positive is refused, though it is shown.
SurpriseCostsChange ==
  visitor.stage = "surprised" =>
    \/ visitor.changed
    \/ \E l \in visitor.link :
         \/ visitor.by = "amount" /\ PricedApart(l)
         \/ visitor.by \in {"price", "refused"} /\ link[l].terms.adjust # 0
         \/ visitor.by = "refused" /\ link[l].terms.min \cup link[l].terms.max # {}
         \/ visitor.by = "refused" /\ PriceOn(visitor.page, {1}) = {}

\* The image of a page that is open can be fetched, though the product be
\* deleted or get another image: browsers may keep it for ever.
ShownImageIsFetched ==
  visitor.stage # "broken" /\ (visitor.stage = "product" => visitor.image \subseteq objects)

\* A link that was announced as created can be read by its merchant.
AnnouncedIsReadable ==
  \A l \in linkEvents["created"] : GetPaymentLink(l) = {link[l].terms}

\* What a page or an event promised can be had, the price, the tokens, the
\* image and the link, unless an edit came between or terms that are not shown.
PageIsHonored == SurpriseCostsChange /\ ShownImageIsFetched /\ AnnouncedIsReadable
=============================================================================
