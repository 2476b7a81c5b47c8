------------------------------- MODULE Catalog -------------------------------
(***************************************************************************)
(* Products, their images and the payment links of one merchant.  What a   *)
(* product handler of the gateway writes, it writes in statements of its   *)
(* own, outside of any transaction, while other requests run;              *)
(* payment-link-service writes a link and its options together.            *)
(***************************************************************************)
EXTENDS Integers, FiniteSets

CONSTANTS
  Products, Links, Images,  \* identities
  Editors,          \* concurrent product requests of the merchant
  Tokens,           \* tokens of the supported chains
  ProductAmounts,   \* values of default_amount, {} for none
  LinkTerms,        \* terms that links are created with
  LinkUpdates,      \* mode, amount and perhaps tokens of an update of a link
  MaxNow,           \* bound on the time that passes
  MaxCatalogFaults  \* bound on failed statements and uploads

\* Optional columns are sets of at most one value; no tokens means any token.
Terms == [mode : {"fixed", "open"}, amount : SUBSET Int, tokens : SUBSET Tokens,
          reusable : BOOLEAN, limit : SUBSET Int, expires : SUBSET Int,
          min : SUBSET Int, max : SUBSET Int, adjust : Int]

ASSUME CatalogAssumption ==
  /\ \A S \in {Products, Links, Images, Editors} : IsFiniteSet(S)
  /\ ProductAmounts \subseteq SUBSET Int /\ LinkTerms \subseteq Terms
  /\ LinkUpdates \subseteq [mode : {"fixed", "open"}, amount : SUBSET Int,
                            withTokens : BOOLEAN, tokens : SUBSET Tokens]
  /\ MaxNow \in Nat /\ MaxCatalogFaults \in Nat

VARIABLES
  product,     \* products: stored or not, default amount, uploaded image it shows
  link,        \* payment_links and link_options
  objects,     \* images in the object store
  editor,      \* where a product request is
  linkEvents,  \* links for which an event of a type was enqueued
  now,
  catalogFaults

catalogVars == <<product, link, objects, editor, linkEvents, now, catalogFaults>>

NoProduct == [status |-> "absent", amount |-> {}, image |-> {}]

DefaultTerms(amount, tokens) ==
  [mode |-> IF amount = {} THEN "open" ELSE "fixed", amount |-> amount, tokens |-> tokens,
   reusable |-> TRUE, limit |-> {}, expires |-> {}, min |-> {}, max |-> {}, adjust |-> 0]

NoTerms == DefaultTerms({}, {})
NoLink == [status |-> "absent", product |-> {}, options |-> FALSE, terms |-> NoTerms]
Idle == [stage |-> "idle", product |-> {}, link |-> {}, terms |-> NoTerms, image |-> {}]

CatalogInit ==
  /\ product = [p \in Products |-> NoProduct]
  /\ link = [l \in Links |-> NoLink]
  /\ objects = {}
  /\ editor = [e \in Editors |-> Idle]
  /\ linkEvents = [type \in {"created", "archived"} |-> {}]
  /\ now = 0
  /\ catalogFaults = 0

\* A statement or an upload fails: one of at most MaxCatalogFaults.
CatalogFault == catalogFaults < MaxCatalogFaults /\ catalogFaults' = catalogFaults + 1

Stored == {p \in Products : product[p].status = "stored"}

-----------------------------------------------------------------------------
(* Product handlers *)

\* handleCreateProduct: the product, before its link.
CreateProduct(e, p, amount, tokens) ==
  /\ editor[e] = Idle /\ product[p].status = "absent"
  /\ \A a \in amount : a >= 0
  /\ product' = [product EXCEPT ![p] = [NoProduct EXCEPT !.status = "stored", !.amount = amount]]
  /\ editor' = [editor EXCEPT ![e] = [Idle EXCEPT !.stage = "link", !.product = {p},
                                                  !.terms = DefaultTerms(amount, tokens)]]
  /\ UNCHANGED <<link, objects, linkEvents, now, catalogFaults>>

\* Seeded fault of CreateDefaultLink: link_options is forgotten.
CreateBareLink(e, l) ==
  /\ editor[e].stage = "link" /\ editor[e].product \subseteq Stored /\ link[l] = NoLink
  /\ link' = [link EXCEPT ![l] = [status |-> "active", product |-> editor[e].product,
                                  options |-> FALSE, terms |-> editor[e].terms]]
  /\ editor' = [editor EXCEPT ![e] = Idle]
  /\ UNCHANGED <<product, objects, linkEvents, now, catalogFaults>>

\* createDefaultPaymentLinkForProduct: no event is enqueued.
CreateDefaultLink(e, l) ==
  /\ editor[e].stage = "link" /\ editor[e].product \subseteq Stored /\ link[l] = NoLink
  /\ link' = [link EXCEPT ![l] = [status |-> "active", product |-> editor[e].product,
                                  options |-> FALSE, terms |-> editor[e].terms]]
  /\ editor' = [editor EXCEPT ![e].stage = "options", ![e].link = {l}]
  /\ UNCHANGED <<product, objects, linkEvents, now, catalogFaults>>

CreateOptions(e) ==
  /\ editor[e].stage = "options"
  /\ link' = [l \in Links |-> IF l \in editor[e].link THEN [link[l] EXCEPT !.options = TRUE]
                              ELSE link[l]]
  /\ editor' = [editor EXCEPT ![e] = Idle]
  /\ UNCHANGED <<product, objects, linkEvents, now, catalogFaults>>

\* handleUpdateProduct: the product, its image_url perhaps set to a page that is
\* not an upload, and then its links when tokens are given; their amount stays.
UpdateProduct(e, p, amount, tokens, withTokens) ==
  /\ editor[e] = Idle /\ p \in Stored
  /\ \A a \in amount : a >= 0
  /\ \E image \in {product[p].image, {}} :
       product' = [product EXCEPT ![p].amount = IF amount = {} THEN @ ELSE amount,
                                  ![p].image = image]
  /\ editor' = [editor EXCEPT ![e] =
                  IF withTokens
                  THEN [Idle EXCEPT !.stage = "tokens", !.product = {p},
                                    !.terms = DefaultTerms({}, tokens)]
                  ELSE Idle]
  /\ UNCHANGED <<link, objects, linkEvents, now, catalogFaults>>

\* updateProductPaymentLinkAllowedTokens.
UpdateTokens(e) ==
  /\ editor[e].stage = "tokens"
  /\ link' = [l \in Links |->
                IF link[l].status = "active" /\ link[l].product = editor[e].product
                THEN [link[l] EXCEPT !.terms.tokens = editor[e].terms.tokens] ELSE link[l]]
  /\ editor' = [editor EXCEPT ![e] = Idle]
  /\ UNCHANGED <<product, objects, linkEvents, now, catalogFaults>>

\* Seeded fault of DeleteProduct: the links keep their product_id.
DeleteProductOnly(p) ==
  /\ p \in Stored
  /\ product' = [product EXCEPT ![p] = [NoProduct EXCEPT !.status = "deleted"]]
  /\ UNCHANGED <<link, objects, editor, linkEvents, now, catalogFaults>>

\* ON DELETE SET NULL; its links stay active and its images stored.
DeleteProduct(p) ==
  /\ p \in Stored
  /\ product' = [product EXCEPT ![p] = [NoProduct EXCEPT !.status = "deleted"]]
  /\ link' = [l \in Links |-> [link[l] EXCEPT !.product = @ \ {p}]]
  /\ UNCHANGED <<objects, editor, linkEvents, now, catalogFaults>>

\* handleUploadProductImage: the product is looked up ...
StartUpload(e, p) ==
  /\ editor[e] = Idle /\ p \in Stored
  /\ editor' = [editor EXCEPT ![e] = [Idle EXCEPT !.stage = "upload", !.product = {p}]]
  /\ UNCHANGED <<product, link, objects, linkEvents, now, catalogFaults>>

\* ... the image is stored under a new name ...
PutImage(e, i) ==
  /\ editor[e].stage = "upload" /\ i \notin objects
  /\ objects' = objects \cup {i}
  /\ editor' = [editor EXCEPT ![e].stage = "image", ![e].image = {i}]
  /\ UNCHANGED <<product, link, linkEvents, now, catalogFaults>>

\* ... and shown if the product is still there.
ShowImage(e) ==
  /\ editor[e].stage = "image"
  /\ product' = [p \in Products |->
                   IF p \in Stored \cap editor[e].product
                   THEN [product[p] EXCEPT !.image = editor[e].image] ELSE product[p]]
  /\ editor' = [editor EXCEPT ![e] = Idle]
  /\ UNCHANGED <<link, objects, linkEvents, now, catalogFaults>>

\* A request ends between two statements: one fails, or the gateway does.
\* The image of a failed upload may be stored all the same.
EditorFails(e) ==
  /\ editor[e] # Idle
  /\ \/ CatalogFault
     \/ editor[e].stage = "link" /\ ~(editor[e].product \subseteq Stored) /\ UNCHANGED catalogFaults
  /\ \/ UNCHANGED objects
     \/ editor[e].stage = "upload" /\ \E i \in Images \ objects : objects' = objects \cup {i}
  /\ editor' = [editor EXCEPT ![e] = Idle]
  /\ UNCHANGED <<product, link, linkEvents, now>>

-----------------------------------------------------------------------------
(* payment-link-service *)

Known(l) == link[l].status # "absent"

\* ValidateLinkInput.
ValidTerms(t) ==
  /\ t.tokens # {}
  /\ t.mode = "fixed" => t.amount # {} /\ \A a \in t.amount : a > 0
  /\ t.mode = "open" => /\ \A a \in t.min : a >= 0
                        /\ \A b \in t.max : b > 0 /\ \A a \in t.min : a <= b
  /\ \A n \in t.limit : n > 0
  /\ \A x \in t.expires : x >= now

\* Link, options and event are one transaction; the product of another
\* merchant, or one that is gone, is refused.
CreatePaymentLink(l, P, t) ==
  /\ link[l] = NoLink /\ P \subseteq Stored /\ ValidTerms(t)
  /\ link' = [link EXCEPT ![l] = [status |-> "active", product |-> P, options |-> TRUE, terms |-> t]]
  /\ linkEvents' = [linkEvents EXCEPT !["created"] = @ \cup {l}]
  /\ UNCHANGED <<product, objects, editor, now, catalogFaults>>

\* Nothing is validated but the CHECK constraint of pricing_mode.
UpdatePaymentLink(l, u) ==
  /\ link[l].status = "active"
  /\ link' = [link EXCEPT ![l].terms.mode = u.mode, ![l].terms.amount = u.amount,
                          ![l].terms.tokens = IF u.withTokens THEN u.tokens ELSE @]
  /\ UNCHANGED <<product, objects, editor, linkEvents, now, catalogFaults>>

\* The event follows the statement and an error of it is dropped.
ArchivePaymentLink(l) ==
  /\ link[l].status = "active"
  /\ link' = [link EXCEPT ![l].status = "archived"]
  /\ \/ linkEvents' = [linkEvents EXCEPT !["archived"] = @ \cup {l}] /\ UNCHANGED catalogFaults
     \/ CatalogFault /\ UNCHANGED linkEvents
  /\ UNCHANGED <<product, objects, editor, now>>

\* The link is refused to customers once its time is over.
Expired(l) == \E x \in link[l].terms.expires : x < now

TimeGoesOn ==
  /\ now < MaxNow
  /\ now' = now + 1
  /\ UNCHANGED <<product, link, objects, editor, linkEvents, catalogFaults>>

CatalogNext ==
  \/ \E e \in Editors :
       \/ \E p \in Products :
            \/ \E amount \in ProductAmounts, tokens \in SUBSET Tokens :
                 \/ CreateProduct(e, p, amount, tokens)
                 \/ \E withTokens \in BOOLEAN : UpdateProduct(e, p, amount, tokens, withTokens)
            \/ StartUpload(e, p)
       \/ \E l \in Links : CreateDefaultLink(e, l)
       \/ CreateOptions(e) \/ UpdateTokens(e)
       \/ \E i \in Images : PutImage(e, i)
       \/ ShowImage(e) \/ EditorFails(e)
  \/ \E p \in Products : DeleteProduct(p)
  \/ \E l \in Links :
       \/ \E P \in {{}} \cup {{p} : p \in Products}, t \in LinkTerms : CreatePaymentLink(l, P, t)
       \/ \E u \in LinkUpdates : UpdatePaymentLink(l, u)
       \/ ArchivePaymentLink(l)
  \/ TimeGoesOn

-----------------------------------------------------------------------------
\* CatalogTypeOK: a link names a product that is stored, if any, and only links
\* and products that exist carry anything.
CatalogTypeOK ==
  /\ \A p \in Products : /\ product[p].status \in {"absent", "stored", "deleted"}
                         /\ Cardinality(product[p].image) <= IF p \in Stored THEN 1 ELSE 0
  /\ \A l \in Links : /\ link[l].status \in {"absent", "active", "archived"}
                      /\ link[l].product \subseteq Stored
                      /\ ~Known(l) => link[l] = NoLink
                      /\ link[l].terms.mode \in {"fixed", "open"}
  /\ objects \subseteq Images
  /\ \A e \in Editors :
       editor[e].stage \in {"idle", "link", "options", "tokens", "upload", "image"}
  /\ linkEvents \in [{"created", "archived"} -> SUBSET Links]
  /\ now \in 0 .. MaxNow /\ catalogFaults \in 0 .. MaxCatalogFaults

\* A product without a link, a link without options (which GetPaymentLink
\* cannot read) and an archived link without its event are each the work of a
\* failure, or of a product request that goes on.
HalfMadeCostsFailure ==
  Cardinality({p \in Stored : \A l \in Links : link[l].product # {p}})
    + Cardinality({l \in Links : Known(l) /\ ~link[l].options})
    + Cardinality({l \in Links : link[l].status = "archived"} \ linkEvents["archived"])
    <= catalogFaults + Cardinality({e \in Editors : editor[e].stage \in {"link", "options"}})

\* The image a product shows can be fetched, however uploads, failures and
\* deletions of products interleave.
ImageIsStored == \A p \in Products : product[p].image \subseteq objects

\* Though product requests are several statements, a product has what it shows:
\* its image, and its link but for a failure.
ProductsAreWhole == HalfMadeCostsFailure /\ ImageIsStored
=============================================================================
