---------------------------- MODULE SessionsProofs ----------------------------
(***************************************************************************)
(* Proofs about Catalog and Sessions, for any products, links, requests,   *)
(* buyers and failures: what requests leave half made is paid for by a     *)
(* failure, the image a product shows is stored, a buyer who passes the    *)
(* checks had an open link, and the statistics agree.  And about           *)
(* Storefront: what pages show a customer is true of each other.           *)
(***************************************************************************)
EXTENDS Storefront, FiniteSetTheorems, TLAPS

USE CatalogAssumption, SessionsAssumption

ProductRows == [status : {"absent", "stored", "deleted"}, amount : SUBSET Int, image : SUBSET Images]
LinkRows == [status : {"absent", "active", "archived"}, product : SUBSET Products,
             options : BOOLEAN, terms : Terms]
EditorRows == [stage : {"idle", "link", "options", "tokens", "upload", "image"},
               product : SUBSET Products, link : SUBSET Links, terms : Terms, image : SUBSET Images]

RowsOK ==
  /\ product \in [Products -> ProductRows]
  /\ link \in [Links -> LinkRows]
  /\ editor \in [Editors -> EditorRows]
  /\ objects \subseteq Images
  /\ linkEvents \in [{"created", "archived"} -> SUBSET Links]
  /\ now \in 0 .. MaxNow /\ catalogFaults \in 0 .. MaxCatalogFaults

\* Images are stored before a request shows them, and are never removed.
ImagesOK ==
  /\ \A p \in Products :
       product[p].image # {} => p \in Stored /\ \E i \in objects : product[p].image = {i}
  /\ \A e \in Editors : editor[e].stage = "image" => \E i \in objects : editor[e].image = {i}

\* A link names a product that is stored, if any, and gets options after it
\* was stored.
LinksOK ==
  /\ \A l \in Links : (Known(l) \/ link[l] = NoLink) /\ link[l].product \subseteq Stored
  /\ \A e \in Editors : editor[e].stage = "options" => \A l \in editor[e].link : Known(l)

CatalogInv == RowsOK /\ ImagesOK /\ LinksOK

\* What no step takes back.
CatalogGrown == \A l \in Links : Known(l) => Known(l)'

-----------------------------------------------------------------------------
(* Products and links *)

\* The blank rows.
LEMMA Blank ==
  /\ NoTerms \in Terms /\ NoProduct \in ProductRows /\ NoLink \in LinkRows /\ Idle \in EditorRows
  /\ \A a \in SUBSET Int, T \in SUBSET Tokens : DefaultTerms(a, T) \in Terms
  /\ Idle.stage = "idle" /\ NoProduct.image = {} /\ NoLink.product = {} /\ NoLink.status = "absent"
  <1>1. \A a \in SUBSET Int, T \in SUBSET Tokens : DefaultTerms(a, T) \in Terms
    BY DEF DefaultTerms, Terms
  <1>2. NoTerms \in Terms
    BY <1>1 DEF NoTerms
  <1>3. QED
    BY <1>1, <1>2 DEF NoProduct, ProductRows, NoLink, LinkRows, Idle, EditorRows

\* A request goes on to a row x, and nothing else but images may change.
LEMMA EditorMoves ==
  ASSUME CatalogInv, NEW e \in Editors, NEW x \in EditorRows, editor' = [editor EXCEPT ![e] = x],
         x.stage = "image" => \E i \in objects' : x.image = {i}, x.stage # "options",
         objects \subseteq objects', objects' \subseteq Images, UNCHANGED <<product, link, linkEvents, now>>,
         UNCHANGED catalogFaults \/ CatalogFault
  PROVE  CatalogInv' /\ CatalogGrown
  <1>1. catalogFaults' \in 0 .. MaxCatalogFaults
    BY DEF CatalogInv, RowsOK, CatalogFault, CatalogAssumption
  <1>2. editor' \in [Editors -> EditorRows] /\ \A d \in Editors : editor'[d] = IF d = e THEN x ELSE editor[d]
    BY DEF CatalogInv, RowsOK
  <1>3. RowsOK'
    BY <1>1, <1>2 DEF CatalogInv, RowsOK
  <1>4. Stored' = Stored /\ \A l \in Links : Known(l)' = Known(l)
    BY DEF Stored, Known
  <1>5. ImagesOK'
    BY <1>2, <1>4 DEF CatalogInv, ImagesOK
  <1>6. LinksOK' /\ CatalogGrown
    <2>1. \A d \in Editors : editor'[d].stage = "options" => \A l \in editor'[d].link : Known(l)'
      BY <1>2 DEF CatalogInv, LinksOK, Known
    <2>2. QED
      BY <1>4, <2>1 DEF CatalogInv, LinksOK, CatalogGrown
  <1>7. QED
    BY <1>3, <1>5, <1>6 DEF CatalogInv

\* Links change to rows that name stored products.
LEMMA LinksChange ==
  ASSUME CatalogInv, (link \in [Links -> LinkRows])', UNCHANGED <<product, objects, now>>,
         \A l \in Links : link'[l] = link[l] \/ (Known(l)' /\ link'[l].product \subseteq Stored),
         (linkEvents \in [{"created", "archived"} -> SUBSET Links])',
         UNCHANGED catalogFaults \/ CatalogFault,
         UNCHANGED editor \/ \E e \in Editors : \E x \in EditorRows :
                               /\ editor' = [editor EXCEPT ![e] = x] /\ x.stage # "image"
                               /\ x.stage = "options" => \A l \in x.link : Known(l)'
  PROVE  CatalogInv' /\ CatalogGrown
  <1>1. catalogFaults' \in 0 .. MaxCatalogFaults
    BY DEF CatalogInv, RowsOK, CatalogFault, CatalogAssumption
  <1>2. /\ editor' \in [Editors -> EditorRows]
        /\ \A d \in Editors : editor'[d].stage = "image" => editor'[d] = editor[d]
    BY DEF CatalogInv, RowsOK
  <1>3. RowsOK'
    BY <1>1, <1>2 DEF CatalogInv, RowsOK
  <1>4. Stored' = Stored
    BY DEF Stored
  <1>5. ImagesOK'
    BY <1>2, <1>4 DEF CatalogInv, ImagesOK
  <1>6. CatalogGrown
    BY DEF CatalogGrown, Known
  <1>7. LinksOK'
    <2>1. \A l \in Links : (Known(l) \/ link[l] = NoLink)' /\ link'[l].product \subseteq Stored'
      BY <1>4 DEF CatalogInv, LinksOK, Known
    <2>2. ASSUME NEW d \in Editors, editor'[d].stage = "options", NEW l \in editor'[d].link
          PROVE  Known(l)'
      <3>1. CASE editor'[d] = editor[d]
        <4>1. l \in Links /\ Known(l)
          BY <2>2, <3>1 DEF CatalogInv, LinksOK, RowsOK, EditorRows
        <4>2. QED
          BY <1>6, <4>1 DEF CatalogGrown
      <3>2. CASE editor'[d] # editor[d]
        BY <2>2, <3>2 DEF CatalogInv, RowsOK
      <3>3. QED
        BY <3>1, <3>2
    <2>3. QED
      BY <2>1, <2>2 DEF LinksOK
  <1>8. QED
    BY <1>3, <1>5, <1>6, <1>7 DEF CatalogInv

\* A product is there with the image it had.
LEMMA ProductChanges ==
  ASSUME CatalogInv, NEW e \in Editors, NEW p \in Products, NEW x \in EditorRows,
         editor' = [editor EXCEPT ![e] = x], x.stage \notin {"image", "options"},
         NEW row \in ProductRows, product' = [product EXCEPT ![p] = row],
         row.status = "stored", row.image \in {product[p].image, {}},
         UNCHANGED <<link, objects, linkEvents, now, catalogFaults>>
  PROVE  CatalogInv' /\ CatalogGrown
  <1>1. \A d \in Editors : editor'[d] = IF d = e THEN x ELSE editor[d]
    BY DEF CatalogInv, RowsOK
  <1>2. \A q \in Products : product'[q] = IF q = p THEN row ELSE product[q]
    BY DEF CatalogInv, RowsOK
  <1>3. RowsOK'
    BY DEF CatalogInv, RowsOK
  <1>4. Stored' = Stored \cup {p}
    BY <1>2 DEF Stored
  <1>5. ImagesOK'
    BY <1>1, <1>2, <1>4 DEF CatalogInv, ImagesOK
  <1>6. LinksOK' /\ CatalogGrown
    BY <1>1, <1>4 DEF CatalogInv, LinksOK, CatalogGrown, Known
  <1>7. QED
    BY <1>3, <1>5, <1>6 DEF CatalogInv

\* A product is created.
LEMMA CreateProductKeeps ==
  ASSUME CatalogInv, NEW e \in Editors, NEW p \in Products, NEW amount \in ProductAmounts,
         NEW tokens \in SUBSET Tokens, CreateProduct(e, p, amount, tokens)
  PROVE  CatalogInv' /\ CatalogGrown
  <1> DEFINE x == [Idle EXCEPT !.stage = "link", !.product = {p},
                               !.terms = DefaultTerms(amount, tokens)]
             row == [NoProduct EXCEPT !.status = "stored", !.amount = amount]
  <1>1. amount \in SUBSET Int /\ DefaultTerms(amount, tokens) \in Terms
    BY Blank DEF CatalogAssumption
  <1>2. x \in EditorRows /\ x.stage \notin {"image", "options"}
    BY <1>1, Blank DEF EditorRows
  <1>3. row \in ProductRows /\ row.status = "stored" /\ row.image = {}
    BY <1>1 DEF NoProduct, ProductRows
  <1>4. product[p].image = {}
    BY DEF CreateProduct, CatalogInv, ImagesOK, Stored
  <1>5. /\ editor' = [editor EXCEPT ![e] = x] /\ product' = [product EXCEPT ![p] = row]
        /\ UNCHANGED <<link, objects, linkEvents, now, catalogFaults>>
    BY DEF CreateProduct
  <1>6. QED
    BY <1>2, <1>3, <1>4, <1>5, ProductChanges

\* A product is updated.
LEMMA UpdateProductKeeps ==
  ASSUME CatalogInv, NEW e \in Editors, NEW p \in Products, NEW amount \in ProductAmounts,
         NEW tokens \in SUBSET Tokens, NEW withTokens \in BOOLEAN,
         UpdateProduct(e, p, amount, tokens, withTokens)
  PROVE  CatalogInv' /\ CatalogGrown
  <1> DEFINE y == [Idle EXCEPT !.stage = "tokens", !.product = {p}, !.terms = DefaultTerms({}, tokens)]
             x == IF withTokens THEN y ELSE Idle
             row(i) == [product[p] EXCEPT !.amount = IF amount = {} THEN product[p].amount ELSE amount,
                                          !.image = i]
  <1>1. amount \in SUBSET Int /\ DefaultTerms({}, tokens) \in Terms
    BY Blank DEF CatalogAssumption
  <1>2. y \in EditorRows /\ y.stage \notin {"image", "options"}
    BY <1>1, Blank DEF EditorRows
  <1>3. x \in EditorRows /\ x.stage \notin {"image", "options"}
    BY <1>2, Blank
  <1>4. product[p] \in ProductRows /\ product[p].status = "stored"
    BY DEF UpdateProduct, CatalogInv, RowsOK, Stored
  <1>5. PICK i \in {product[p].image, {}} :
          product' = [product EXCEPT ![p].amount = IF amount = {} THEN @ ELSE amount, ![p].image = i]
    BY DEF UpdateProduct
  <1>6. /\ row(i) \in ProductRows /\ row(i).status = "stored" /\ row(i).image = i
        /\ product' = [product EXCEPT ![p] = row(i)]
    BY <1>1, <1>4, <1>5 DEF ProductRows, CatalogInv, RowsOK
  <1>7. editor' = [editor EXCEPT ![e] = x] /\ UNCHANGED <<link, objects, linkEvents, now, catalogFaults>>
    BY DEF UpdateProduct
  <1>8. QED
    BY <1>3, <1>6, <1>7, ProductChanges

\* A product is deleted, and its links are left without one.
LEMMA DeleteProductKeeps ==
  ASSUME CatalogInv, NEW p \in Products, DeleteProduct(p) PROVE CatalogInv' /\ CatalogGrown
  <1>1. /\ product' = [product EXCEPT ![p] = [NoProduct EXCEPT !.status = "deleted"]]
        /\ link' = [l \in Links |-> [link[l] EXCEPT !.product = @ \ {p}]]
        /\ UNCHANGED <<objects, editor, linkEvents, now, catalogFaults>>
    BY DEF DeleteProduct
  <1>2. [NoProduct EXCEPT !.status = "deleted"] \in ProductRows
        /\ [NoProduct EXCEPT !.status = "deleted"].image = {}
        /\ [NoProduct EXCEPT !.status = "deleted"].status = "deleted"
    BY DEF NoProduct, ProductRows
  <1>3. \A l \in Links : /\ link'[l] \in LinkRows /\ link'[l].product = link[l].product \ {p}
                         /\ link'[l].status = link[l].status
    BY <1>1 DEF CatalogInv, RowsOK, LinkRows
  <1>4. RowsOK'
    <2>1. product' \in [Products -> ProductRows]
      BY <1>1, <1>2 DEF CatalogInv, RowsOK
    <2>2. link' \in [Links -> LinkRows]
      BY <1>1, <1>3
    <2>3. QED
      BY <1>1, <2>1, <2>2 DEF CatalogInv, RowsOK
  <1>5. Stored' = Stored \ {p} /\ product'[p].image = {}
        /\ \A q \in Products : q # p => product'[q] = product[q]
    BY <1>1, <1>2 DEF Stored, CatalogInv, RowsOK
  <1>6. ImagesOK'
    BY <1>1, <1>5 DEF CatalogInv, ImagesOK
  <1>7. LinksOK'
    <2>1. ASSUME NEW l \in Links PROVE Known(l)' \/ link'[l] = NoLink
      <3>1. CASE Known(l)
        BY <1>3, <3>1 DEF Known
      <3>2. CASE link[l] = NoLink
        <4>1. link'[l] = [NoLink EXCEPT !.product = NoLink.product \ {p}]
          BY <1>1, <3>2
        <4>2. \A r \in LinkRows : [r EXCEPT !.product = r.product] = r
          BY DEF LinkRows
        <4>3. NoLink.product \ {p} = NoLink.product
          BY Blank
        <4>4. QED
          BY <4>1, <4>2, <4>3, Blank
      <3>3. QED
        BY <3>1, <3>2 DEF CatalogInv, LinksOK
    <2>2. \A l \in Links : Known(l)' = Known(l)
      BY <1>3 DEF Known
    <2>3. \A e \in Editors : editor'[e].stage = "options" => \A l \in editor'[e].link : Known(l)'
      BY <1>1, <2>2 DEF CatalogInv, LinksOK, RowsOK, EditorRows
    <2>4. QED
      BY <1>3, <1>5, <2>1, <2>3 DEF CatalogInv, LinksOK
  <1>8. CatalogGrown
    BY <1>3 DEF CatalogGrown, Known
  <1>9. QED
    BY <1>4, <1>6, <1>7, <1>8 DEF CatalogInv

\* A request shows the image it stored, if the product is still there.
LEMMA ShowImageKeeps ==
  ASSUME CatalogInv, NEW e \in Editors, ShowImage(e) PROVE CatalogInv' /\ CatalogGrown
  <1>1. /\ product' = [p \in Products |->
             IF p \in Stored \cap editor[e].product
             THEN [product[p] EXCEPT !.image = editor[e].image] ELSE product[p]]
        /\ editor' = [editor EXCEPT ![e] = Idle] /\ editor[e].stage = "image"
        /\ UNCHANGED <<link, objects, linkEvents, now, catalogFaults>>
    BY DEF ShowImage
  <1>2. PICK i \in objects : editor[e].image = {i}
    BY <1>1 DEF CatalogInv, ImagesOK
  <1>3. \A p \in Products :
          /\ product'[p] \in ProductRows /\ product'[p].status = product[p].status
          /\ product'[p].image = IF p \in Stored \cap editor[e].product THEN {i} ELSE product[p].image
    BY <1>1, <1>2 DEF CatalogInv, RowsOK, ProductRows, EditorRows
  <1>4. \A d \in Editors : editor'[d] = IF d = e THEN Idle ELSE editor[d]
    BY <1>1 DEF CatalogInv, RowsOK
  <1>5. RowsOK'
    <2>1. product' \in [Products -> ProductRows]
      BY <1>1, <1>3
    <2>2. QED
      BY <1>1, <2>1, Blank DEF CatalogInv, RowsOK
  <1>6. Stored' = Stored
    BY <1>3 DEF Stored
  <1>7. ImagesOK'
    BY <1>1, <1>3, <1>4, <1>6, Blank DEF CatalogInv, ImagesOK
  <1>8. LinksOK' /\ CatalogGrown
    BY <1>1, <1>4, <1>6, Blank DEF CatalogInv, LinksOK, CatalogGrown, Known
  <1>9. QED
    BY <1>5, <1>7, <1>8 DEF CatalogInv

\* The steps of a request that touch links.
LEMMA EditLinksKeeps ==
  ASSUME CatalogInv, NEW e \in Editors,
         (\E l \in Links : CreateDefaultLink(e, l)) \/ CreateOptions(e) \/ UpdateTokens(e)
  PROVE  CatalogInv' /\ CatalogGrown
  <1>1. editor[e] \in EditorRows /\ link \in [Links -> LinkRows]
    BY DEF CatalogInv, RowsOK
  <1>2. ASSUME NEW l \in Links, CreateDefaultLink(e, l) PROVE CatalogInv' /\ CatalogGrown
    <2> DEFINE x == [editor[e] EXCEPT !.stage = "options", !.link = {l}]
               row == [status |-> "active", product |-> editor[e].product,
                       options |-> FALSE, terms |-> editor[e].terms]
    <2>1. /\ link' = [link EXCEPT ![l] = row] /\ editor' = [editor EXCEPT ![e] = x]
          /\ editor[e].product \subseteq Stored
          /\ UNCHANGED <<product, objects, linkEvents, now, catalogFaults>>
      BY <1>2 DEF CreateDefaultLink, CatalogInv, RowsOK
    <2>2. x \in EditorRows /\ x.stage # "image" /\ row \in LinkRows
      BY <1>1 DEF EditorRows, LinkRows
    <2>3. \A k \in Links : link'[k] = IF k = l THEN row ELSE link[k]
      BY <1>1, <2>1
    <2>4. link' \in [Links -> LinkRows]
      BY <1>1, <2>1, <2>2
    <2>5. \A k \in Links : link'[k] = link[k] \/ (Known(k)' /\ link'[k].product \subseteq Stored)
      <3>1. row.status = "active" /\ row.product \subseteq Stored
        BY <2>1
      <3>2. link'[l].status # "absent" /\ link'[l].product \subseteq Stored
        BY <2>3, <3>1
      <3>3. ASSUME NEW k \in Links
            PROVE  link'[k] = link[k] \/ (Known(k)' /\ link'[k].product \subseteq Stored)
        BY <2>3, <3>2 DEF Known
      <3>4. QED
        BY <3>3
    <2>6. x.link = {l} /\ Known(l)'
      <3>1. link'[l].status = "active"
        BY <2>3
      <3>2. QED
        BY <1>1, <3>1 DEF Known, EditorRows
    <2>7. (linkEvents \in [{"created", "archived"} -> SUBSET Links])'
      BY <2>1 DEF CatalogInv, RowsOK
    <2>8. \A k \in x.link : Known(k)'
      BY <2>6
    <2> HIDE DEF x, row
    <2>9. \E d \in Editors : \E y \in EditorRows :
            /\ editor' = [editor EXCEPT ![d] = y] /\ y.stage # "image"
            /\ y.stage = "options" => \A k \in y.link : Known(k)'
      BY <2>1, <2>2, <2>8
    <2>10. QED
      BY <2>1, <2>4, <2>5, <2>7, <2>9, LinksChange
  <1>3. CASE CreateOptions(e)
    <2>1. /\ link' = [l \in Links |-> IF l \in editor[e].link THEN [link[l] EXCEPT !.options = TRUE]
                                      ELSE link[l]]
          /\ editor' = [editor EXCEPT ![e] = Idle]
          /\ UNCHANGED <<product, objects, linkEvents, now, catalogFaults>>
      BY <1>3 DEF CreateOptions
    <2>2. \A l \in Links : /\ link'[l] \in LinkRows /\ link'[l].product = link[l].product
                           /\ link'[l].status = link[l].status
      BY <1>1, <2>1 DEF LinkRows
    <2>3. link' \in [Links -> LinkRows]
      BY <2>1, <2>2
    <2>4. RowsOK' /\ Stored' = Stored /\ \A l \in Links : Known(l)' = Known(l)
      BY <2>1, <2>2, <2>3, Blank DEF CatalogInv, RowsOK, Stored, Known
    <2>5. ImagesOK'
      <3>1. \A d \in Editors : editor'[d] = IF d = e THEN Idle ELSE editor[d]
        BY <2>1 DEF CatalogInv, RowsOK
      <3>2. QED
        BY <2>1, <2>4, <3>1, Blank DEF CatalogInv, ImagesOK
    <2>6. ASSUME NEW l \in Links PROVE (Known(l) \/ link[l] = NoLink)'
      <3>1. CASE Known(l)
        BY <2>4, <3>1
      <3>2. CASE link[l] = NoLink
        <4>1. l \notin editor[e].link
          BY <1>3, <3>2, Blank DEF CreateOptions, CatalogInv, LinksOK, Known
        <4>2. QED
          BY <2>1, <3>2, <4>1
      <3>3. QED
        BY <3>1, <3>2 DEF CatalogInv, LinksOK
    <2>7. \A d \in Editors : editor'[d].stage = "options" => \A l \in editor'[d].link : Known(l)'
      <3>1. \A d \in Editors : editor'[d] = IF d = e THEN Idle ELSE editor[d]
        BY <2>1 DEF CatalogInv, RowsOK
      <3>2. QED
        BY <2>4, <3>1, Blank DEF CatalogInv, LinksOK, RowsOK, EditorRows
    <2>8. QED
      BY <2>1, <2>2, <2>4, <2>5, <2>6, <2>7 DEF CatalogInv, LinksOK, CatalogGrown
  <1>4. CASE UpdateTokens(e)
    <2>1. /\ link' = [l \in Links |->
               IF link[l].status = "active" /\ link[l].product = editor[e].product
               THEN [link[l] EXCEPT !.terms.tokens = editor[e].terms.tokens] ELSE link[l]]
          /\ editor' = [editor EXCEPT ![e] = Idle]
          /\ UNCHANGED <<product, objects, linkEvents, now, catalogFaults>>
      BY <1>4 DEF UpdateTokens
    <2>2. \A l \in Links : link[l].terms \in Terms /\ editor[e].terms \in Terms
      BY <1>1 DEF LinkRows, EditorRows
    <2>3. \A l \in Links : [link[l].terms EXCEPT !.tokens = editor[e].terms.tokens] \in Terms
      BY <2>2 DEF Terms
    <2>4. \A l \in Links : /\ link'[l] \in LinkRows /\ link'[l].product = link[l].product
                           /\ link'[l].status = link[l].status
                           /\ link'[l] = link[l] \/ link[l].status = "active"
      BY <1>1, <2>1, <2>3 DEF LinkRows
    <2>5. link' \in [Links -> LinkRows]
      BY <2>1, <2>4
    <2>6. \A l \in Links : link'[l] = link[l] \/ (Known(l)' /\ link'[l].product \subseteq Stored)
      BY <2>4 DEF CatalogInv, LinksOK, Known
    <2>7. QED
      BY <2>1, <2>5, <2>6, LinksChange, Blank DEF CatalogInv, RowsOK
  <1>5. QED
    BY <1>2, <1>3, <1>4

\* The steps of payment-link-service.
LEMMA LinkServiceKeeps ==
  ASSUME CatalogInv, NEW l \in Links,
         \/ \E P \in {{}} \cup {{p} : p \in Products}, t \in LinkTerms : CreatePaymentLink(l, P, t)
         \/ \E u \in LinkUpdates : UpdatePaymentLink(l, u)
         \/ ArchivePaymentLink(l)
  PROVE  CatalogInv' /\ CatalogGrown
  <1>1. link \in [Links -> LinkRows] /\ linkEvents \in [{"created", "archived"} -> SUBSET Links]
    BY DEF CatalogInv, RowsOK
  <1> DEFINE Safe(row) == row \in LinkRows /\ row.status # "absent" /\ row.product \subseteq Stored
  <1>2. ASSUME NEW row, Safe(row), link' = [link EXCEPT ![l] = row],
               UNCHANGED <<product, objects, editor, now>>,
               (linkEvents \in [{"created", "archived"} -> SUBSET Links])',
               UNCHANGED catalogFaults \/ CatalogFault
        PROVE  CatalogInv' /\ CatalogGrown
    <2>1. \A k \in Links : link'[k] = IF k = l THEN row ELSE link[k]
      BY <1>1, <1>2
    <2>2. link' \in [Links -> LinkRows]
      BY <1>1, <1>2
    <2>3. \A k \in Links : link'[k] = link[k] \/ (Known(k)' /\ link'[k].product \subseteq Stored)
      <3>1. link'[l].status # "absent" /\ link'[l].product \subseteq Stored
        BY <1>2, <2>1
      <3>2. ASSUME NEW k \in Links
            PROVE  link'[k] = link[k] \/ (Known(k)' /\ link'[k].product \subseteq Stored)
        BY <2>1, <3>1 DEF Known
      <3>3. QED
        BY <3>2
    <2>4. QED
      BY <1>2, <2>2, <2>3, LinksChange
  <1>3. ASSUME NEW P \in {{}} \cup {{p} : p \in Products}, NEW t \in LinkTerms, CreatePaymentLink(l, P, t)
        PROVE  CatalogInv' /\ CatalogGrown
    <2> DEFINE row == [status |-> "active", product |-> P, options |-> TRUE, terms |-> t]
    <2>1. Safe(row)
      BY <1>3 DEF CreatePaymentLink, LinkRows, CatalogAssumption
    <2>2. QED
      BY <1>1, <1>2, <1>3, <2>1 DEF CreatePaymentLink
  <1>4. ASSUME NEW u \in LinkUpdates, UpdatePaymentLink(l, u) PROVE CatalogInv' /\ CatalogGrown
    <2> DEFINE new == [link[l].terms EXCEPT !.mode = u.mode, !.amount = u.amount,
                         !.tokens = IF u.withTokens THEN u.tokens ELSE link[l].terms.tokens]
               row == [link[l] EXCEPT !.terms = new]
    <2>1. link[l] \in LinkRows /\ link[l].terms \in Terms
      BY <1>1 DEF LinkRows
    <2>2. new \in Terms
      BY <2>1 DEF Terms, CatalogAssumption
    <2>3. Safe(row)
      BY <1>4, <2>1, <2>2 DEF LinkRows, UpdatePaymentLink, CatalogInv, LinksOK
    <2>4. link' = [link EXCEPT ![l] = row]
      BY <1>1, <1>4, <2>1 DEF UpdatePaymentLink, LinkRows, Terms
    <2>5. QED
      BY <1>1, <1>2, <1>4, <2>3, <2>4 DEF UpdatePaymentLink
  <1>5. CASE ArchivePaymentLink(l)
    <2> DEFINE row == [link[l] EXCEPT !.status = "archived"]
    <2>1. Safe(row)
      BY <1>1, <1>5 DEF LinkRows, ArchivePaymentLink, CatalogInv, LinksOK
    <2>2. link' = [link EXCEPT ![l] = row] /\ UNCHANGED <<product, objects, editor, now>>
      BY <1>1, <1>5 DEF ArchivePaymentLink
    <2>3. (linkEvents \in [{"created", "archived"} -> SUBSET Links])'
          /\ (UNCHANGED catalogFaults \/ CatalogFault)
      BY <1>1, <1>5 DEF ArchivePaymentLink
    <2>4. QED
      BY <1>2, <2>1, <2>2, <2>3
  <1>6. QED
    BY <1>3, <1>4, <1>5

\* The other steps of a request.
LEMMA EditorStepKeeps ==
  ASSUME CatalogInv, NEW e \in Editors,
         \/ \E p \in Products : StartUpload(e, p)
         \/ \E i \in Images : PutImage(e, i)
         \/ EditorFails(e)
  PROVE  CatalogInv' /\ CatalogGrown
  <1>1. editor[e] \in EditorRows /\ objects \subseteq Images
    BY DEF CatalogInv, RowsOK
  <1>2. ASSUME NEW p \in Products, StartUpload(e, p) PROVE CatalogInv' /\ CatalogGrown
    <2> DEFINE x == [Idle EXCEPT !.stage = "upload", !.product = {p}]
    <2>1. x \in EditorRows /\ x.stage = "upload"
      BY Blank DEF EditorRows
    <2>2. /\ editor' = [editor EXCEPT ![e] = x]
          /\ UNCHANGED <<product, link, objects, linkEvents, now, catalogFaults>>
      BY <1>2 DEF StartUpload
    <2>3. QED
      BY <1>1, <2>1, <2>2, EditorMoves
  <1>3. ASSUME NEW i \in Images, PutImage(e, i) PROVE CatalogInv' /\ CatalogGrown
    <2> DEFINE x == [editor[e] EXCEPT !.stage = "image", !.image = {i}]
    <2>1. x \in EditorRows /\ x.stage = "image" /\ x.image = {i}
      BY <1>1 DEF EditorRows
    <2>2. /\ editor' = [editor EXCEPT ![e] = x] /\ objects' = objects \cup {i}
          /\ UNCHANGED <<product, link, linkEvents, now, catalogFaults>>
      BY <1>3 DEF PutImage, CatalogInv, RowsOK
    <2>3. QED
      BY <1>1, <2>1, <2>2, EditorMoves
  <1>4. CASE EditorFails(e)
    <2>1. /\ editor' = [editor EXCEPT ![e] = Idle]
          /\ objects \subseteq objects' /\ objects' \subseteq Images
          /\ UNCHANGED <<product, link, linkEvents, now>> /\ (UNCHANGED catalogFaults \/ CatalogFault)
      BY <1>1, <1>4 DEF EditorFails
    <2>2. QED
      BY <2>1, EditorMoves, Blank
  <1>5. QED
    BY <1>2, <1>3, <1>4

\* Every step of the catalog keeps its invariant.
LEMMA CatalogKeeps ==
  ASSUME CatalogInv, CatalogNext \/ UNCHANGED catalogVars PROVE CatalogInv' /\ CatalogGrown
  <1>1. ASSUME NEW e \in Editors, NEW p \in Products,
               \E amount \in ProductAmounts, tokens \in SUBSET Tokens :
                 \/ CreateProduct(e, p, amount, tokens)
                 \/ \E withTokens \in BOOLEAN : UpdateProduct(e, p, amount, tokens, withTokens)
        PROVE  CatalogInv' /\ CatalogGrown
    BY <1>1, CreateProductKeeps, UpdateProductKeeps
  <1>2. CASE TimeGoesOn \/ UNCHANGED catalogVars
    <2>1. /\ now' \in 0 .. MaxNow
          /\ UNCHANGED <<product, link, objects, editor, linkEvents, catalogFaults>>
      BY <1>2 DEF TimeGoesOn, catalogVars, CatalogInv, RowsOK
    <2>2. RowsOK'
      BY <2>1 DEF CatalogInv, RowsOK
    <2>3. ImagesOK' /\ LinksOK' /\ CatalogGrown
      BY <2>1 DEF CatalogInv, ImagesOK, LinksOK, CatalogGrown, Known, Stored
    <2>4. QED
      BY <2>2, <2>3 DEF CatalogInv
  <1>3. QED
    BY <1>1, <1>2, DeleteProductKeeps, ShowImageKeeps, EditLinksKeeps, LinkServiceKeeps,
       EditorStepKeeps DEF CatalogNext

-----------------------------------------------------------------------------
(* Sessions *)

BuyingRows == [stage : {"idle", "reusable", "limit", "price", "commit"}, link : SUBSET Links,
               terms : Terms, open : BOOLEAN]
OrderRows == [link : SUBSET Links,
              intent : {"absent", "awaiting_funds", "confirmed", "settled", "expired"},
              session : {"absent", "awaiting_funds", "paid", "expired", "canceled"},
              expires : Int, events : SUBSET {"checkout_canceled", "payment_incomplete"},
              leaving : BOOLEAN]
StatRows == [stage : {"idle", "events", "done"}, incomplete : Nat, canceled : Nat]

\* A call has a link in hand that exists, and an order is blank or has one.
HasLink(x) == x.stage # "idle" => \E l \in Links : x.link = {l} /\ Known(l)
Placed(x) == /\ \E l \in Links : x.link = {l} /\ Known(l)
             /\ x.intent # "absent" /\ x.session # "absent"

OrderRowsOK ==
  /\ order \in [Orders -> OrderRows]
  /\ \A o \in Orders : order[o] = NoOrder \/ Placed(order[o])

PaidOf(l) == {o \in Orders : order[o].link = {l} /\ Paid(o)}

\* A check that is still to come refuses terms t of link l.
Refusal(l, t, stage) ==
  \/ stage = "reusable" /\ ~Unused(l, t)
  \/ stage \in {"reusable", "limit"} /\ ~BelowLimit(l, t)

\* A call whose link was not open is going to be refused, as paid intents
\* stay paid.
AdmitRow(x) ==
  \A l \in Links : x.stage # "idle" /\ x.link = {l} /\ ~x.open
                     => paidFellBack \/ Refusal(l, x.terms, x.stage)

BuyersOK ==
  /\ buying \in [Buyers -> BuyingRows]
  /\ paidFellBack \in BOOLEAN
  /\ \A b \in Buyers : HasLink(buying[b]) /\ AdmitRow(buying[b])

\* Logged cancels are never taken back.
StatsOK ==
  /\ stats \in StatRows
  /\ stats.stage = "events" => stats.canceled <= Cardinality(Logged("checkout_canceled"))

SessionsInv == CatalogInv /\ OrderRowsOK /\ BuyersOK /\ StatsOK

\* No paid intent of a link is lost, unless one fell back.
PaidGrows == paidFellBack' \/ (~paidFellBack /\ \A l \in Links : PaidOf(l) \subseteq PaidOf(l)')

\* The sets that are counted are finite.
LEMMA OrdersCount ==
  ASSUME NEW S, S \subseteq Orders PROVE IsFiniteSet(S) /\ Cardinality(S) \in Nat
  BY FS_Subset, FS_CardinalityType DEF SessionsAssumption

\* A refusal that is to come stays one while no paid intent is lost.
LEMMA RefusalStays ==
  ASSUME NEW l \in Links, NEW t \in Terms, NEW stage, Refusal(l, t, stage),
         PaidOf(l) \subseteq PaidOf(l)'
  PROVE  Refusal(l, t, stage)'
  <1>1. PaidCount(l) \in Nat /\ PaidCount(l)' \in Nat /\ PaidCount(l) <= PaidCount(l)'
    <2>1. PaidOf(l) \subseteq Orders /\ PaidOf(l)' \subseteq Orders
      BY DEF PaidOf
    <2>2. PaidCount(l) = Cardinality(PaidOf(l)) /\ PaidCount(l)' = Cardinality(PaidOf(l)')
      BY DEF PaidCount, PaidOf
    <2>3. QED
      BY <2>1, <2>2, OrdersCount, FS_Subset
  <1>2. ~Unused(l, t) => ~Unused(l, t)'
    BY <1>1 DEF Unused
  <1>3. ~BelowLimit(l, t) => ~BelowLimit(l, t)'
    BY <1>1 DEF BelowLimit, Terms
  <1>4. QED
    BY <1>2, <1>3 DEF Refusal

\* A call that waits for its next check stays right.
LEMMA AdmitStays ==
  ASSUME NEW x \in BuyingRows, AdmitRow(x), PaidGrows PROVE AdmitRow(x)'
  <1> SUFFICES ASSUME NEW l \in Links, x.stage # "idle", x.link = {l}, ~x.open, ~paidFellBack'
               PROVE  Refusal(l, x.terms, x.stage)'
    BY DEF AdmitRow
  <1>1. Refusal(l, x.terms, x.stage) /\ PaidOf(l) \subseteq PaidOf(l)'
    BY DEF AdmitRow, PaidGrows
  <1>2. x.terms \in Terms
    BY DEF BuyingRows
  <1>3. QED
    BY <1>1, <1>2, RefusalStays

\* A link that is active and not expired is open or will be refused.
LEMMA ClosedIsRefused ==
  ASSUME NEW l \in Links, link[l].status = "active", ~Expired(l), ~IsOpen(l)
  PROVE  Refusal(l, link[l].terms, "reusable")
  <1>1. PaidOf(l) = {o \in Orders : order[o].link = {l} /\ order[o].intent \in {"confirmed", "settled"}}
        /\ PaidCount(l) = Cardinality(PaidOf(l))
    BY DEF PaidOf, PaidCount, Paid, PaidStatuses
  <1>2. IsFiniteSet(PaidOf(l)) /\ Cardinality(PaidOf(l)) \in Nat
    BY OrdersCount DEF PaidOf
  <1>3. PaidCount(l) = 0 => PaidOf(l) = {}
    BY <1>1, <1>2, FS_EmptySet
  <1>4. CASE ~(\/ link[l].terms.reusable
               \/ \A o \in Orders : order[o].link = {l} => order[o].intent \notin {"confirmed", "settled"})
    <2>1. PaidOf(l) # {}
      BY <1>1, <1>4
    <2>2. QED
      BY <1>3, <1>4, <2>1 DEF Refusal, Unused
  <1>5. CASE ~ \A n \in link[l].terms.limit :
                 n > Cardinality({o \in Orders : order[o].link = {l}
                                                 /\ order[o].intent \in {"confirmed", "settled"}})
    <2>1. PICK n \in link[l].terms.limit : ~(n > PaidCount(l))
      BY <1>1, <1>5
    <2>2. ~(PaidCount(l) < n)
      BY <2>1
    <2>3. QED
      BY <2>2 DEF Refusal, BelowLimit
  <1>6. QED
    BY <1>4, <1>5 DEF IsOpen

\* A step of the catalog, or a failure, leaves what sessions say of links.
LEMMA FailureKeeps ==
  ASSUME CatalogInv, UNCHANGED <<product, link, objects, editor, linkEvents, now>>,
         UNCHANGED catalogFaults \/ CatalogFault
  PROVE  CatalogInv' /\ CatalogGrown
  <1>1. catalogFaults' \in 0 .. MaxCatalogFaults
    BY DEF CatalogInv, RowsOK, CatalogFault, CatalogAssumption
  <1>2. RowsOK'
    BY <1>1 DEF CatalogInv, RowsOK
  <1>3. ImagesOK' /\ LinksOK' /\ CatalogGrown
    BY DEF CatalogInv, ImagesOK, LinksOK, CatalogGrown, Known, Stored
  <1>4. QED
    BY <1>2, <1>3 DEF CatalogInv

\* What names a link that is known goes on naming one.
LEMMA LinksStay ==
  ASSUME CatalogGrown, NEW x
  PROVE  (HasLink(x) => HasLink(x)') /\ (Placed(x) => Placed(x)')
  BY DEF CatalogGrown, HasLink, Placed

\* Calls that wait.
LEMMA BuyersWait ==
  ASSUME BuyersOK, CatalogGrown, PaidGrows, UNCHANGED buying, paidFellBack' \in BOOLEAN
  PROVE  BuyersOK'
  <1>1. \A b \in Buyers : buying[b] \in BuyingRows
    BY DEF BuyersOK
  <1>2. QED
    BY <1>1, AdmitStays, LinksStay DEF BuyersOK

\* A call goes on to a row x.
LEMMA BuyerMoves ==
  ASSUME BuyersOK, CatalogGrown, PaidGrows, paidFellBack' \in BOOLEAN,
         NEW b \in Buyers, NEW x \in BuyingRows, buying' = [buying EXCEPT ![b] = x],
         HasLink(x)', AdmitRow(x)'
  PROVE  BuyersOK'
  <1>1. /\ \A c \in Buyers : buying[c] \in BuyingRows
        /\ \A c \in Buyers : buying'[c] = IF c = b THEN x ELSE buying[c]
        /\ buying' \in [Buyers -> BuyingRows]
    BY DEF BuyersOK
  <1>2. \A c \in Buyers : HasLink(buying[c])' /\ AdmitRow(buying[c])'
    <2> SUFFICES ASSUME NEW c \in Buyers PROVE HasLink(buying[c])' /\ AdmitRow(buying[c])'
      OBVIOUS
    <2>1. CASE c = b
      <3>1. buying'[c] = x
        BY <1>1, <2>1
      <3>2. QED
        BY <3>1 DEF HasLink, AdmitRow
    <2>2. CASE c # b
      <3>1. buying'[c] = buying[c] /\ HasLink(buying[c]) /\ AdmitRow(buying[c])
        BY <1>1, <2>2 DEF BuyersOK
      <3>2. \A y \in BuyingRows : HasLink(y) /\ AdmitRow(y) => HasLink(y)' /\ AdmitRow(y)'
        BY AdmitStays, LinksStay
      <3>3. QED
        BY <1>1, <3>1, <3>2 DEF HasLink, AdmitRow
    <2>3. QED
      BY <2>1, <2>2
  <1>3. QED
    BY <1>1, <1>2 DEF BuyersOK

\* An idle call is right.
LEMMA NoBuyingIsRight ==
  NoBuying \in BuyingRows /\ HasLink(NoBuying)' /\ AdmitRow(NoBuying)' /\ NoBuying.stage = "idle"
  BY Blank DEF NoBuying, BuyingRows, HasLink, AdmitRow

\* Orders that stay.
LEMMA OrdersStay ==
  ASSUME OrderRowsOK, CatalogGrown, UNCHANGED order PROVE OrderRowsOK'
  BY LinksStay DEF OrderRowsOK

\* Orders that do not change stay paid.
LEMMA NothingPaidIsLost ==
  ASSUME UNCHANGED <<order, paidFellBack>>, paidFellBack \in BOOLEAN PROVE PaidGrows
  BY DEF PaidGrows, PaidOf, Paid

\* What the statistics have counted stays counted while no event is dropped.
LEMMA StatsStay ==
  ASSUME StatsOK, UNCHANGED stats, Logged("checkout_canceled") \subseteq Logged("checkout_canceled")'
  PROVE  StatsOK'
  <1>1. Logged("checkout_canceled")' \subseteq Orders /\ Logged("checkout_canceled") \subseteq Orders
    BY DEF Logged
  <1>2. /\ Cardinality(Logged("checkout_canceled")) <= Cardinality(Logged("checkout_canceled")')
        /\ Cardinality(Logged("checkout_canceled")) \in Nat
        /\ Cardinality(Logged("checkout_canceled")') \in Nat
    BY <1>1, OrdersCount, FS_Subset
  <1>3. QED
    BY <1>2 DEF StatsOK, StatRows

\* The row of an order changes: its link stays, and so do its events.
LEMMA OrderMoves ==
  ASSUME OrderRowsOK, CatalogGrown, NEW o \in Orders, NEW x \in OrderRows,
         order' = [order EXCEPT ![o] = x], Placed(x)',
         order[o] = NoOrder \/ x.link = order[o].link,
         order[o].events \subseteq x.events,
         paidFellBack' \/ (~paidFellBack /\ (Paid(o) => x.intent \in PaidStatuses))
  PROVE  /\ OrderRowsOK' /\ PaidGrows
         /\ \A type : Logged(type) \subseteq Logged(type)'
  <1>1. /\ \A p \in Orders : order'[p] = IF p = o THEN x ELSE order[p]
        /\ order' \in [Orders -> OrderRows]
    BY DEF OrderRowsOK
  <1>2. OrderRowsOK'
    <2> SUFFICES ASSUME NEW p \in Orders PROVE order'[p] = NoOrder \/ Placed(order[p])'
      BY <1>1 DEF OrderRowsOK
    <2>1. CASE p = o
      <3>1. order'[p] = x
        BY <1>1, <2>1
      <3>2. QED
        BY <3>1 DEF Placed
    <2>2. CASE p # o
      <3>1. order'[p] = order[p] /\ (order[p] = NoOrder \/ Placed(order[p]))
        BY <1>1, <2>2 DEF OrderRowsOK
      <3>2. Placed(order[p]) => \E l \in Links : order[p].link = {l} /\ Known(l)'
        BY DEF Placed, CatalogGrown
      <3>3. QED
        BY <3>1, <3>2 DEF Placed
    <2>3. QED
      BY <2>1, <2>2
  <1>3. PaidGrows
    <2>1. NoOrder.intent = "absent"
      BY DEF NoOrder
    <2>2. ASSUME ~paidFellBack', NEW l \in Links, NEW p \in PaidOf(l) PROVE p \in PaidOf(l)'
      <3>1. p \in Orders /\ order[p].link = {l} /\ Paid(p) /\ order[p] # NoOrder
        BY <2>1 DEF PaidOf, Paid, PaidStatuses
      <3>2. CASE p = o
        <4>1. x.link = {l} /\ x.intent \in PaidStatuses /\ order'[p] = x
          BY <1>1, <2>2, <3>1, <3>2
        <4>2. QED
          BY <3>1, <4>1 DEF PaidOf, Paid
      <3>3. CASE p # o
        BY <1>1, <3>1, <3>3 DEF PaidOf, Paid
      <3>4. QED
        BY <3>2, <3>3
    <2>3. QED
      BY <2>2 DEF PaidGrows
  <1>4. \A type : Logged(type) \subseteq Logged(type)'
    BY <1>1 DEF Logged
  <1>5. QED
    BY <1>2, <1>3, <1>4

\* createSession reads a link.
LEMMA LoadKeeps ==
  ASSUME SessionsInv, NEW b \in Buyers, NEW l \in Links, LoadLink(b, l) PROVE SessionsInv'
  <1>1. /\ link[l].status = "active" /\ ~Expired(l)
        /\ buying' = [buying EXCEPT ![b] = [stage |-> "reusable", link |-> {l},
                                            terms |-> link[l].terms, open |-> IsOpen(l)]]
        /\ UNCHANGED <<catalogVars, order, paidFellBack, stats>>
    BY DEF LoadLink
  <1>2. CatalogInv' /\ CatalogGrown
    BY <1>1, CatalogKeeps DEF SessionsInv
  <1>3. OrderRowsOK' /\ PaidGrows
    BY <1>1, <1>2, OrdersStay, NothingPaidIsLost DEF SessionsInv, BuyersOK
  <1>4. [stage |-> "reusable", link |-> {l}, terms |-> link[l].terms, open |-> IsOpen(l)] \in BuyingRows
    <2>1. IsOpen(l) \in BOOLEAN
      BY DEF IsOpen
    <2>2. QED
      BY <2>1 DEF BuyingRows, SessionsInv, CatalogInv, RowsOK, LinkRows
  <1>5. PICK x \in BuyingRows :
          x = [stage |-> "reusable", link |-> {l}, terms |-> link[l].terms, open |-> IsOpen(l)]
    BY <1>4
  <1>6. HasLink(x)
    BY <1>1, <1>5 DEF HasLink, Known
  <1>7. AdmitRow(x)
    <2>1. x.link = {l} /\ x.stage = "reusable" /\ x.terms = link[l].terms /\ x.open = IsOpen(l)
      BY <1>5
    <2>2. ~IsOpen(l) => Refusal(l, link[l].terms, "reusable")
      BY <1>1, ClosedIsRefused
    <2>3. ASSUME NEW k \in Links, x.link = {k}, ~x.open PROVE Refusal(k, x.terms, x.stage)
      <3>1. k = l
        BY <2>1, <2>3
      <3>2. QED
        BY <2>1, <2>2, <2>3, <3>1
    <2>4. QED
      BY <2>3 DEF AdmitRow
  <1>8. BuyersOK'
    BY <1>1, <1>2, <1>3, <1>5, <1>6, <1>7, AdmitStays, LinksStay, BuyerMoves DEF SessionsInv, BuyersOK
  <1>9. StatsOK'
    BY <1>1, StatsStay DEF SessionsInv, Logged
  <1>10. QED
    BY <1>2, <1>3, <1>8, <1>9 DEF SessionsInv

\* A check passes or ends the call.
LEMMA CheckKeeps ==
  ASSUME SessionsInv, NEW b \in Buyers,
         CheckReusable(b) \/ CheckLimit(b) \/ CheckPrice(b)
  PROVE  SessionsInv'
  <1>1. /\ UNCHANGED <<catalogVars, order, paidFellBack, stats>>
        /\ buying[b].stage # "idle"
    BY DEF CheckReusable, CheckLimit, CheckPrice, Check
  <1>2. CatalogInv' /\ CatalogGrown
    BY <1>1, CatalogKeeps DEF SessionsInv
  <1>3. OrderRowsOK' /\ PaidGrows /\ paidFellBack' \in BOOLEAN
    BY <1>1, <1>2, OrdersStay, NothingPaidIsLost DEF SessionsInv, BuyersOK
  <1>4. buying[b] \in BuyingRows /\ HasLink(buying[b]) /\ AdmitRow(buying[b])
    BY DEF SessionsInv, BuyersOK
  <1>5. PICK l \in Links : buying[b].link = {l}
    BY <1>1, <1>4 DEF HasLink
  <1> DEFINE Next(stage) == [buying[b] EXCEPT !.stage = stage]
  <1>6. \/ buying' = [buying EXCEPT ![b] = NoBuying]
        \/ /\ buying[b].stage = "reusable" /\ Unused(l, buying[b].terms)
           /\ buying' = [buying EXCEPT ![b] = Next("limit")]
        \/ /\ buying[b].stage = "limit" /\ BelowLimit(l, buying[b].terms)
           /\ buying' = [buying EXCEPT ![b] = Next("price")]
        \/ /\ buying[b].stage = "price"
           /\ buying' = [buying EXCEPT ![b] = Next("commit")]
    <2>1. CASE CheckReusable(b)
      BY <1>5, <2>1 DEF CheckReusable, Check, SessionsInv, BuyersOK
    <2>2. CASE CheckLimit(b)
      BY <1>5, <2>2 DEF CheckLimit, Check, SessionsInv, BuyersOK
    <2>3. CASE CheckPrice(b)
      BY <2>3 DEF CheckPrice, Check, SessionsInv, BuyersOK
    <2>4. QED
      BY <2>1, <2>2, <2>3
  <1>7. ASSUME NEW stage \in {"limit", "price", "commit"}, buying' = [buying EXCEPT ![b] = Next(stage)],
               ~buying[b].open /\ ~paidFellBack => Refusal(l, buying[b].terms, stage)
        PROVE  BuyersOK'
    <2>1. /\ Next(stage) \in BuyingRows /\ Next(stage).stage = stage
          /\ Next(stage).link = {l} /\ Next(stage).terms = buying[b].terms
          /\ Next(stage).open = buying[b].open
      BY <1>4, <1>5, <1>7 DEF BuyingRows
    <2>2. PICK x \in BuyingRows : x = Next(stage)
      BY <2>1
    <2>3. HasLink(x)
      BY <1>1, <1>4, <2>1, <2>2 DEF HasLink
    <2>4. AdmitRow(x)
      BY <1>7, <2>1, <2>2 DEF AdmitRow
    <2> HIDE DEF Next
    <2>5. QED
      BY <1>2, <1>3, <1>7, <2>2, <2>3, <2>4, AdmitStays, LinksStay, BuyerMoves DEF SessionsInv
  <1>8. ~buying[b].open /\ ~paidFellBack => Refusal(l, buying[b].terms, buying[b].stage)
    BY <1>1, <1>4, <1>5 DEF AdmitRow
  <1>9. BuyersOK'
    <2>1. CASE buying' = [buying EXCEPT ![b] = NoBuying]
      BY <1>2, <1>3, <2>1, NoBuyingIsRight, BuyerMoves DEF SessionsInv
    <2>2. CASE /\ buying[b].stage = "reusable" /\ Unused(l, buying[b].terms)
               /\ buying' = [buying EXCEPT ![b] = Next("limit")]
      BY <1>7, <1>8, <2>2 DEF Refusal
    <2>3. CASE /\ buying[b].stage = "limit" /\ BelowLimit(l, buying[b].terms)
               /\ buying' = [buying EXCEPT ![b] = Next("price")]
      BY <1>7, <1>8, <2>3 DEF Refusal
    <2>4. CASE buying[b].stage = "price" /\ buying' = [buying EXCEPT ![b] = Next("commit")]
      BY <1>7, <1>8, <2>4 DEF Refusal
    <2>5. QED
      BY <1>6, <2>1, <2>2, <2>3, <2>4
  <1>10. StatsOK'
    BY <1>1, StatsStay DEF SessionsInv, Logged
  <1>11. QED
    BY <1>2, <1>3, <1>9, <1>10 DEF SessionsInv

\* A session is committed with its intent.
LEMMA CommitKeeps ==
  ASSUME SessionsInv, NEW b \in Buyers, NEW o \in Orders, NEW lifetime \in Lifetimes,
         CommitSession(b, o, lifetime)
  PROVE  SessionsInv'
  <1> DEFINE end == Earliest(now + lifetime, buying[b].terms.expires)
             row == [NoOrder EXCEPT !.link = buying[b].link, !.intent = "awaiting_funds",
                                    !.session = "awaiting_funds", !.expires = end]
  <1>1. /\ buying[b].stage = "commit" /\ ~Exists(o) /\ order' = [order EXCEPT ![o] = row]
        /\ buying' = [buying EXCEPT ![b] = NoBuying]
        /\ UNCHANGED <<catalogVars, paidFellBack, stats>>
    BY DEF CommitSession
  <1>2. CatalogInv' /\ CatalogGrown
    BY <1>1, CatalogKeeps DEF SessionsInv
  <1>3. buying[b] \in BuyingRows /\ HasLink(buying[b])
    BY DEF SessionsInv, BuyersOK
  <1>4. end \in Int
    <2>1. now + lifetime \in Int /\ buying[b].terms.expires \subseteq Int
      BY <1>3 DEF SessionsInv, CatalogInv, RowsOK, BuyingRows, Terms, SessionsAssumption
    <2>2. \A x, S : Earliest(x, S) = x \/ Earliest(x, S) \in S
      BY DEF Earliest
    <2>3. QED
      BY <2>1, <2>2
  <1>5. row \in OrderRows /\ row.link = buying[b].link /\ row.intent = "awaiting_funds"
        /\ row.session = "awaiting_funds" /\ row.events = {}
    <2> HIDE DEF end
    <2>1. QED
      BY <1>3, <1>4 DEF OrderRows, NoOrder, BuyingRows
  <1>6. PICK x \in OrderRows : x = row
    BY <1>5
  <1> HIDE DEF row
  <1>7. Placed(x)
    BY <1>1, <1>3, <1>5, <1>6 DEF Placed, HasLink
  <1>8. order[o] = NoOrder /\ ~Paid(o)
    BY <1>1 DEF SessionsInv, OrderRowsOK, Placed, Exists, Paid, PaidStatuses
  <1>9. order[o].events \subseteq x.events
    BY <1>8 DEF NoOrder
  <1>10. paidFellBack' \in BOOLEAN /\ paidFellBack' = paidFellBack
    BY <1>1 DEF SessionsInv, BuyersOK
  <1>11. OrderRowsOK' /\ PaidGrows /\ \A type : Logged(type) \subseteq Logged(type)'
    <2>1. paidFellBack' \/ (~paidFellBack /\ (Paid(o) => x.intent \in PaidStatuses))
      BY <1>8, <1>10
    <2>2. order' = [order EXCEPT ![o] = x]
      BY <1>1, <1>6
    <2>3. Placed(x)'
      BY <1>2, <1>7, LinksStay
    <2>4. QED
      BY <1>2, <1>8, <1>9, <2>1, <2>2, <2>3, OrderMoves DEF SessionsInv
  <1>12. BuyersOK'
    BY <1>1, <1>2, <1>10, <1>11, NoBuyingIsRight, BuyerMoves DEF SessionsInv
  <1>13. StatsOK'
    BY <1>1, <1>11, StatsStay DEF SessionsInv
  <1>14. QED
    BY <1>2, <1>11, <1>12, <1>13 DEF SessionsInv

\* A call fails.
LEMMA SessionFailsKeeps ==
  ASSUME SessionsInv, NEW b \in Buyers, SessionFails(b) PROVE SessionsInv'
  <1>1. /\ CatalogFault /\ buying' = [buying EXCEPT ![b] = NoBuying]
        /\ UNCHANGED <<product, link, objects, editor, linkEvents, now, order, paidFellBack, stats>>
    BY DEF SessionFails
  <1>2. CatalogInv' /\ CatalogGrown
    BY <1>1, FailureKeeps DEF SessionsInv
  <1>3. OrderRowsOK' /\ PaidGrows /\ paidFellBack' \in BOOLEAN
    BY <1>1, <1>2, OrdersStay, NothingPaidIsLost DEF SessionsInv, BuyersOK
  <1>4. BuyersOK'
    BY <1>1, <1>2, <1>3, NoBuyingIsRight, BuyerMoves DEF SessionsInv
  <1>5. StatsOK'
    BY <1>1, StatsStay DEF SessionsInv, Logged
  <1>6. QED
    BY <1>2, <1>3, <1>4, <1>5 DEF SessionsInv

\* What becomes of an order whose calls and statistics wait.
LEMMA OrderStepKeeps ==
  ASSUME SessionsInv, NEW o \in Orders, NEW x \in OrderRows, order' = [order EXCEPT ![o] = x],
         x.link = order[o].link, x.intent # "absent", x.session # "absent", Exists(o),
         order[o].events \subseteq x.events, paidFellBack' \in BOOLEAN,
         paidFellBack' \/ (~paidFellBack /\ (Paid(o) => x.intent \in PaidStatuses)),
         UNCHANGED <<product, link, objects, editor, linkEvents, now, buying, stats>>,
         UNCHANGED catalogFaults \/ CatalogFault
  PROVE  SessionsInv'
  <1>1. CatalogInv' /\ CatalogGrown
    BY FailureKeeps DEF SessionsInv
  <1>2. Placed(order[o])
    BY DEF SessionsInv, OrderRowsOK, Exists, NoOrder
  <1>3. Placed(x)
    BY <1>2 DEF Placed
  <1>4. OrderRowsOK' /\ PaidGrows /\ \A type : Logged(type) \subseteq Logged(type)'
    BY <1>1, <1>3, LinksStay, OrderMoves DEF SessionsInv
  <1>5. BuyersOK'
    BY <1>1, <1>4, BuyersWait DEF SessionsInv
  <1>6. StatsOK'
    BY <1>4, StatsStay DEF SessionsInv
  <1>7. QED
    BY <1>1, <1>4, <1>5, <1>6 DEF SessionsInv

\* An intent is paid, falls back, is settled or expires, or an event of its
\* customer is recorded.
LEMMA OrderActionsKeep ==
  ASSUME SessionsInv, NEW o \in Orders,
         \/ Pay(o) \/ FallBack(o) \/ Settle(o) \/ Expire(o)
         \/ CancelCheckout(o) \/ RecordCancel(o) \/ CancelFails(o)
         \/ RecordEvent(o, "payment_incomplete")
  PROVE  SessionsInv'
  <1>1. order[o] \in OrderRows /\ order \in [Orders -> OrderRows] /\ paidFellBack \in BOOLEAN
    BY DEF SessionsInv, OrderRowsOK, BuyersOK
  <1>2. Exists(o) => order[o].session # "absent"
    BY DEF SessionsInv, OrderRowsOK, Exists, Placed, NoOrder
  <1> DEFINE To(intent, session, events, leaving) ==
        [order[o] EXCEPT !.intent = intent, !.session = session, !.events = events,
                         !.leaving = leaving]
             Sessions == {"awaiting_funds", "paid", "expired", "canceled"}
             Events == SUBSET {"checkout_canceled", "payment_incomplete"}
  <1>3. ASSUME NEW intent \in {"awaiting_funds", "confirmed", "settled", "expired"},
               NEW session \in Sessions, NEW events \in Events, NEW leaving \in BOOLEAN,
               order' = [order EXCEPT ![o] = To(intent, session, events, leaving)],
               Exists(o), order[o].events \subseteq events, paidFellBack' \in BOOLEAN,
               paidFellBack' \/ (~paidFellBack /\ (Paid(o) => intent \in PaidStatuses)),
               UNCHANGED <<product, link, objects, editor, linkEvents, now, buying, stats>>,
               UNCHANGED catalogFaults \/ CatalogFault
        PROVE  SessionsInv'
    <2> DEFINE y == To(intent, session, events, leaving)
    <2>1. /\ y \in OrderRows /\ y.link = order[o].link /\ y.intent = intent
          /\ y.session = session /\ y.events = events
      BY <1>1 DEF OrderRows
    <2>2. PICK x \in OrderRows : x = y
      BY <2>1
    <2>3. order' = [order EXCEPT ![o] = x]
      BY <1>3, <2>2
    <2> HIDE DEF To, y
    <2>4. QED
      BY <1>3, <2>1, <2>2, <2>3, OrderStepKeeps
  <1>4. order[o].events \in Events /\ order[o].leaving \in BOOLEAN
    BY <1>1 DEF OrderRows
  <1>5. ASSUME NEW intent \in {"confirmed", "settled", "expired"}, NEW session \in Sessions,
               Becomes(o, intent, session), UNCHANGED paidFellBack, Paid(o) => intent \in PaidStatuses
        PROVE  SessionsInv'
    <2>1. /\ Exists(o) /\ UNCHANGED <<catalogVars, buying, stats>>
          /\ order' = [order EXCEPT ![o] = To(intent, session, order[o].events, order[o].leaving)]
      BY <1>1, <1>5 DEF Becomes, OrderRows
    <2>2. paidFellBack' \in BOOLEAN
          /\ (paidFellBack' \/ (~paidFellBack /\ (Paid(o) => intent \in PaidStatuses)))
      BY <1>1, <1>5
    <2>3. UNCHANGED <<product, link, objects, editor, linkEvents, now, buying, stats>>
          /\ UNCHANGED catalogFaults
      BY <2>1 DEF catalogVars
    <2>4. PICK events \in Events, leaving \in BOOLEAN :
            events = order[o].events /\ leaving = order[o].leaving
      BY <1>4
    <2>5. order' = [order EXCEPT ![o] = To(intent, session, events, leaving)]
          /\ order[o].events \subseteq events
      BY <2>1, <2>4
    <2>6. intent \in {"awaiting_funds", "confirmed", "settled", "expired"}
      OBVIOUS
    <2> HIDE DEF To
    <2>7. QED
      BY <1>3, <2>1, <2>2, <2>3, <2>5, <2>6
  <1>6. CASE Pay(o)
    BY <1>5, <1>6 DEF Pay, PaidStatuses
  <1>7. CASE Settle(o)
    <2>1. order[o].session \in Sessions
      BY <1>1, <1>2, <1>7 DEF Settle, Becomes, OrderRows
    <2>2. QED
      BY <1>5, <1>7, <2>1 DEF Settle, PaidStatuses
  <1>8. CASE Expire(o)
    BY <1>5, <1>8 DEF Expire, Paid, PaidStatuses
  <1>9. CASE FallBack(o)
    <2>1. /\ Exists(o) /\ CatalogFault /\ paidFellBack' = TRUE
          /\ order' = [order EXCEPT ![o] =
                         To("awaiting_funds", "awaiting_funds", order[o].events, order[o].leaving)]
          /\ UNCHANGED <<product, link, objects, editor, linkEvents, now, buying, stats>>
      BY <1>1, <1>9 DEF FallBack, Exists, Paid, PaidStatuses, OrderRows
    <2> HIDE DEF To
    <2>2. QED
      BY <1>3, <1>4, <2>1
  <1>10. ASSUME NEW session \in Sessions, NEW events \in Events, NEW leaving \in BOOLEAN,
                order' = [order EXCEPT ![o] = To(order[o].intent, session, events, leaving)],
                Exists(o), order[o].events \subseteq events, UNCHANGED paidFellBack,
                UNCHANGED <<product, link, objects, editor, linkEvents, now, buying, stats>>,
                UNCHANGED catalogFaults \/ CatalogFault
         PROVE  SessionsInv'
    <2>1. order[o].intent \in {"awaiting_funds", "confirmed", "settled", "expired"}
      BY <1>1, <1>10 DEF Exists, OrderRows
    <2>2. paidFellBack' \in BOOLEAN
          /\ (paidFellBack' \/ (~paidFellBack /\ (Paid(o) => order[o].intent \in PaidStatuses)))
      BY <1>1, <1>10 DEF Paid
    <2>3. PICK intent \in {"awaiting_funds", "confirmed", "settled", "expired"} : intent = order[o].intent
      BY <2>1
    <2> HIDE DEF To
    <2>4. QED
      BY <1>3, <1>10, <2>2, <2>3
  <1>11. CASE CancelCheckout(o)
    <2>1. PICK updated \in BOOLEAN :
            /\ \/ updated /\ UNCHANGED catalogFaults
               \/ ~updated /\ CatalogFault
            /\ order' = [order EXCEPT ![o].leaving = TRUE,
                                      ![o].session = IF updated /\ @ # "paid" /\ ~Paid(o) THEN "canceled"
                                                     ELSE @]
      BY <1>11 DEF CancelCheckout
    <2> DEFINE session == IF updated /\ order[o].session # "paid" /\ ~Paid(o) THEN "canceled"
                          ELSE order[o].session
    <2>2. Exists(o) /\ UNCHANGED paidFellBack
          /\ UNCHANGED <<product, link, objects, editor, linkEvents, now, buying, stats>>
      BY <1>11 DEF CancelCheckout
    <2>3. order' = [order EXCEPT ![o] = To(order[o].intent, session, order[o].events, TRUE)]
      BY <1>1, <2>1 DEF OrderRows
    <2>4. session \in Sessions
      BY <1>1, <1>2, <2>2 DEF OrderRows
    <2> HIDE DEF To, session
    <2>5. QED
      BY <1>4, <1>10, <2>1, <2>2, <2>3, <2>4
  <1>12. CASE RecordCancel(o) \/ CancelFails(o) \/ RecordEvent(o, "payment_incomplete")
    <2>1. PICK events \in Events, leaving \in BOOLEAN :
            /\ order[o].events \subseteq events
            /\ order' = [order EXCEPT ![o].leaving = leaving, ![o].events = events]
      <3>1. CASE RecordCancel(o)
        <4>1. order' = [order EXCEPT ![o].leaving = FALSE,
                                     ![o].events = order[o].events \cup {"checkout_canceled"}]
          BY <1>1, <3>1 DEF RecordCancel
        <4>2. order[o].events \cup {"checkout_canceled"} \in Events
          BY <1>4
        <4>3. QED
          BY <4>1, <4>2
      <3>2. CASE CancelFails(o)
        <4>1. order' = [order EXCEPT ![o].leaving = FALSE, ![o].events = order[o].events]
          BY <1>1, <3>2 DEF CancelFails, OrderRows
        <4>2. QED
          BY <1>4, <4>1
      <3>3. CASE RecordEvent(o, "payment_incomplete")
        <4>1. order' = [order EXCEPT ![o].leaving = order[o].leaving,
                                     ![o].events = order[o].events \cup {"payment_incomplete"}]
          BY <1>1, <3>3 DEF RecordEvent, OrderRows
        <4>2. order[o].events \cup {"payment_incomplete"} \in Events
          BY <1>4
        <4>3. QED
          BY <1>4, <4>1, <4>2
      <3>4. QED
        BY <1>12, <3>1, <3>2, <3>3
    <2>2. order' = [order EXCEPT ![o] = To(order[o].intent, order[o].session, events, leaving)]
      BY <1>1, <2>1 DEF OrderRows
    <2>3. Exists(o)
      <3>1. order[o].leaving => order[o] # NoOrder
        BY DEF NoOrder
      <3>2. QED
        BY <1>12, <3>1 DEF RecordCancel, CancelFails, RecordEvent, SessionsInv, OrderRowsOK, Placed,
           Exists
    <2>4. order[o].session \in Sessions
      BY <1>1, <1>2, <2>3 DEF OrderRows
    <2>5. /\ UNCHANGED paidFellBack /\ (UNCHANGED catalogFaults \/ CatalogFault)
          /\ UNCHANGED <<product, link, objects, editor, linkEvents, now, buying, stats>>
      BY <1>12 DEF RecordCancel, CancelFails, RecordEvent, catalogVars
    <2> HIDE DEF To
    <2>6. QED
      BY <1>10, <2>1, <2>2, <2>3, <2>4, <2>5
  <1>13. QED
    BY <1>6, <1>7, <1>8, <1>9, <1>11, <1>12

\* The statistics are read, and nothing else changes.
LEMMA StatisticsKeep ==
  ASSUME SessionsInv, CountEvents \/ CountOutcomes PROVE SessionsInv'
  <1>1. UNCHANGED <<catalogVars, buying, order, paidFellBack>>
    BY DEF CountEvents, CountOutcomes
  <1>2. CatalogInv' /\ CatalogGrown
    BY <1>1, CatalogKeeps DEF SessionsInv
  <1>3. OrderRowsOK' /\ PaidGrows /\ BuyersOK'
    BY <1>1, <1>2, OrdersStay, NothingPaidIsLost, BuyersWait DEF SessionsInv, BuyersOK
  <1>4. \A type : Logged(type) \subseteq Orders /\ Logged(type)' = Logged(type)
    BY <1>1 DEF Logged
  <1>5. StatsOK'
    <2>1. CASE CountEvents
      <3>1. Cardinality(Logged("payment_incomplete")) \in Nat
            /\ Cardinality(Logged("checkout_canceled")) \in Nat
        BY <1>4, OrdersCount
      <3>2. QED
        BY <1>4, <2>1, <3>1 DEF CountEvents, StatsOK, StatRows
    <2>2. CASE CountOutcomes
      <3>1. IncompleteOrders \subseteq Orders /\ CanceledOrders \subseteq Orders
        BY DEF IncompleteOrders, CanceledOrders
      <3>2. Cardinality(IncompleteOrders) \in Nat /\ Cardinality(CanceledOrders) \in Nat
        BY <3>1, OrdersCount
      <3>3. stats.incomplete \in Nat /\ stats.canceled \in Nat
        BY DEF SessionsInv, StatsOK, StatRows
      <3>4. \A m, n \in Nat : AtLeast(m, n) \in Nat
        BY DEF AtLeast
      <3>5. stats' \in StatRows /\ stats'.stage = "done"
        BY <2>2, <3>2, <3>3, <3>4 DEF CountOutcomes, StatRows
      <3>6. QED
        BY <3>5 DEF StatsOK
    <2>3. QED
      BY <2>1, <2>2
  <1>6. QED
    BY <1>2, <1>3, <1>5 DEF SessionsInv

\* At first there is nothing.
LEMMA InitSessionsInv == SessionsInit => SessionsInv
  <1> SUFFICES ASSUME SessionsInit PROVE SessionsInv
    OBVIOUS
  <1>1. CatalogInit
    BY DEF SessionsInit
  <1>2. 0 \in 0 .. MaxNow /\ 0 \in 0 .. MaxCatalogFaults
    BY DEF CatalogAssumption
  <1>3. RowsOK
    BY <1>1, <1>2, Blank DEF CatalogInit, RowsOK
  <1>4. ImagesOK /\ LinksOK
    BY <1>1, Blank DEF CatalogInit, ImagesOK, LinksOK, Known
  <1>5. NoOrder \in OrderRows
    BY DEF NoOrder, OrderRows
  <1>6. OrderRowsOK
    BY <1>5 DEF SessionsInit, OrderRowsOK
  <1>7. BuyersOK
    <2>1. NoBuying \in BuyingRows /\ HasLink(NoBuying) /\ AdmitRow(NoBuying)
      BY Blank DEF NoBuying, BuyingRows, HasLink, AdmitRow
    <2>2. \A b \in Buyers : buying[b] = NoBuying
      BY DEF SessionsInit
    <2>3. \A b \in Buyers : HasLink(buying[b]) /\ AdmitRow(buying[b])
      BY <2>1, <2>2
    <2>4. QED
      BY <2>1, <2>3 DEF SessionsInit, BuyersOK
  <1>8. StatsOK
    BY DEF SessionsInit, StatsOK, StatRows, NoStats
  <1>9. QED
    BY <1>3, <1>4, <1>6, <1>7, <1>8 DEF SessionsInv, CatalogInv

\* Every step keeps the invariant.
LEMMA NextSessionsInv == SessionsInv /\ [SessionsNext]_sessionsVars => SessionsInv'
  <1> SUFFICES ASSUME SessionsInv, [SessionsNext]_sessionsVars PROVE SessionsInv'
    OBVIOUS
  <1>1. ASSUME CatalogNext \/ UNCHANGED catalogVars, UNCHANGED <<buying, order, paidFellBack, stats>>
        PROVE  SessionsInv'
    <2>1. CatalogInv' /\ CatalogGrown
      BY <1>1, CatalogKeeps DEF SessionsInv
    <2>2. OrderRowsOK' /\ PaidGrows /\ BuyersOK'
      BY <1>1, <2>1, OrdersStay, NothingPaidIsLost, BuyersWait DEF SessionsInv, BuyersOK
    <2>3. StatsOK'
      BY <1>1, StatsStay DEF SessionsInv, Logged
    <2>4. QED
      BY <2>1, <2>2, <2>3 DEF SessionsInv
  <1>2. QED
    BY <1>1, LoadKeeps, CheckKeeps, CommitKeeps, SessionFailsKeeps, OrderActionsKeep, StatisticsKeep
       DEF SessionsNext, sessionsVars

\* The invariant always holds.
LEMMA AlwaysSessionsInv == SessionsSpec => []SessionsInv
  BY InitSessionsInv, NextSessionsInv, PTL DEF SessionsSpec

-----------------------------------------------------------------------------
\* However links are edited while sessions are made, calls and orders keep to
\* links that exist.
THEOREM SessionsAreTyped == SessionsSpec => []SessionsTypeOK
  <1>1. ASSUME SessionsInv PROVE SessionsTypeOK
    <2>1. \A b \in Buyers : buying[b] \in BuyingRows /\ HasLink(buying[b])
      BY <1>1 DEF SessionsInv, BuyersOK
    <2>2. \A o \in Orders : order[o] \in OrderRows /\ (order[o] = NoOrder \/ Placed(order[o]))
      BY <1>1 DEF SessionsInv, OrderRowsOK
    <2>3. stats.stage \in {"idle", "events", "done"}
      BY <1>1 DEF SessionsInv, StatsOK, StatRows
    <2>4. QED
      BY <2>1, <2>2, <2>3 DEF SessionsTypeOK, BuyingRows, OrderRows, HasLink, Placed
  <1>2. QED
    BY <1>1, AlwaysSessionsInv, PTL

\* However uploads, failures and deletions interleave, a link names a product
\* that is stored, and only rows that exist carry anything.
THEOREM CatalogIsTyped == SessionsSpec => []CatalogTypeOK
  <1>1. ASSUME SessionsInv PROVE CatalogTypeOK
    <2>1. ASSUME NEW p \in Products
          PROVE  /\ product[p].status \in {"absent", "stored", "deleted"}
                 /\ Cardinality(product[p].image) <= IF p \in Stored THEN 1 ELSE 0
      <3>1. product[p].image = {} \/ (p \in Stored /\ \E i \in objects : product[p].image = {i})
        BY <1>1 DEF SessionsInv, CatalogInv, ImagesOK
      <3>2. Cardinality(product[p].image) = 0 \/ (p \in Stored /\ Cardinality(product[p].image) = 1)
        BY <3>1, FS_EmptySet, FS_Singleton
      <3>3. QED
        BY <1>1, <3>2 DEF SessionsInv, CatalogInv, RowsOK, ProductRows
    <2>2. ASSUME NEW l \in Links
          PROVE  /\ link[l].status \in {"absent", "active", "archived"}
                 /\ link[l].product \subseteq Stored
                 /\ ~Known(l) => link[l] = NoLink
                 /\ link[l].terms.mode \in {"fixed", "open"}
      BY <1>1 DEF SessionsInv, CatalogInv, RowsOK, LinksOK, LinkRows, Terms
    <2>3. \A e \in Editors :
            editor[e].stage \in {"idle", "link", "options", "tokens", "upload", "image"}
      BY <1>1 DEF SessionsInv, CatalogInv, RowsOK, EditorRows
    <2>4. QED
      BY <1>1, <2>1, <2>2, <2>3 DEF SessionsInv, CatalogInv, RowsOK, CatalogTypeOK
  <1>2. QED
    BY <1>1, AlwaysSessionsInv, PTL

\* However uploads, failures and deletions interleave, the image a product
\* shows can be fetched.
THEOREM ShownImagesAreStored == SessionsSpec => []ImageIsStored
  <1>1. ASSUME SessionsInv PROVE ImageIsStored
    BY <1>1 DEF SessionsInv, CatalogInv, ImagesOK, ImageIsStored
  <1>2. QED
    BY <1>1, AlwaysSessionsInv, PTL

\* However many buyers, intents and edits race, a buyer who passed every check
\* had an open link at the moment of the first, unless a paid intent fell back.
THEOREM OnlyOpenLinksAdmit == SessionsSpec => []AdmittedWasOpen
  <1>1. ASSUME SessionsInv PROVE AdmittedWasOpen
    <2> SUFFICES ASSUME NEW b \in Buyers, buying[b].stage \in {"price", "commit"}, ~paidFellBack
                 PROVE  buying[b].open
      BY DEF AdmittedWasOpen
    <2>1. PICK l \in Links : buying[b].link = {l}
      BY <1>1 DEF SessionsInv, BuyersOK, HasLink
    <2>2. ~Refusal(l, buying[b].terms, buying[b].stage)
      BY DEF Refusal
    <2>3. QED
      BY <1>1, <2>1, <2>2 DEF SessionsInv, BuyersOK, AdmitRow
  <1>2. QED
    BY <1>1, AlwaysSessionsInv, PTL

\* However orders move between its two queries, and whatever a cancel leaves
\* half done, the statistics count every canceled checkout, and no more of them
\* than incomplete ones, but for those paid after all.
THEOREM StatisticsAgree == SessionsSpec => CancelsAreCounted
  <1>1. ASSUME SessionsInv, SessionsNext, stats.stage = "events", stats'.stage = "done"
        PROVE  /\ Cardinality({o \in Orders : order[o].session = "canceled" /\ ~Paid(o)})
                    <= stats'.canceled
               /\ stats'.canceled <= stats'.incomplete
                    + Cardinality({o \in Logged("checkout_canceled") : Paid(o)})
    <2> DEFINE Kept == {o \in Logged("checkout_canceled") : Paid(o)}
               Lost == {o \in Logged("checkout_canceled") : ~Paid(o)}
    <2>1. /\ stats'.incomplete = AtLeast(stats.incomplete, Cardinality(IncompleteOrders))
          /\ stats'.canceled = AtLeast(stats.canceled, Cardinality(CanceledOrders))
      <3>1. stats' # stats
        BY <1>1
      <3>2. CountOutcomes
        BY <1>1, <3>1 DEF SessionsNext, LoadLink, CheckReusable, CheckLimit, CheckPrice, Check,
           CommitSession, SessionFails, Pay, FallBack, Settle, Expire, Becomes, CancelCheckout,
           RecordCancel, CancelFails, RecordEvent, CountEvents
      <3>3. QED
        BY <3>2 DEF CountOutcomes
    <2>2. /\ stats.incomplete \in Nat /\ stats.canceled \in Nat
          /\ stats.canceled <= Cardinality(Logged("checkout_canceled"))
      BY <1>1 DEF SessionsInv, StatsOK, StatRows
    <2>3. Lost \subseteq IncompleteOrders /\ CanceledOrders \subseteq IncompleteOrders
      <3>1. \A o \in Logged("checkout_canceled") : Exists(o) /\ o \in Orders
        BY <1>1 DEF SessionsInv, OrderRowsOK, Logged, Exists, Placed, NoOrder
      <3>2. QED
        BY <3>1 DEF IncompleteOrders, CanceledOrders
    <2>4. /\ IsFiniteSet(IncompleteOrders) /\ Cardinality(IncompleteOrders) \in Nat
          /\ IsFiniteSet(CanceledOrders) /\ Cardinality(CanceledOrders) \in Nat
          /\ IsFiniteSet(Lost) /\ Cardinality(Lost) \in Nat
          /\ IsFiniteSet(Kept) /\ Cardinality(Kept) \in Nat
      <3>1. /\ IncompleteOrders \subseteq Orders /\ CanceledOrders \subseteq Orders
            /\ Lost \subseteq Orders /\ Kept \subseteq Orders
        BY DEF IncompleteOrders, CanceledOrders, Logged
      <3> HIDE DEF Kept, Lost
      <3>2. QED
        BY <3>1, OrdersCount
    <2>5. Logged("checkout_canceled") = Lost \cup Kept /\ Lost \cap Kept = {}
      OBVIOUS
    <2> HIDE DEF Kept, Lost
    <2>6. Cardinality(Logged("checkout_canceled")) = Cardinality(Lost) + Cardinality(Kept)
      <3>1. Cardinality({}) = 0
        BY FS_EmptySet
      <3>2. Cardinality(Lost \cap Kept) = 0
        BY <2>5, <3>1, Zenon
      <3>3. Cardinality(Lost \cup Kept) = Cardinality(Lost) + Cardinality(Kept) - Cardinality(Lost \cap Kept)
        BY <2>4, FS_Union
      <3>4. Cardinality(Logged("checkout_canceled")) = Cardinality(Lost \cup Kept)
        BY <2>5, Zenon
      <3>5. QED
        BY <2>4, <3>2, <3>3, <3>4
    <2>7. Cardinality(Lost) <= Cardinality(IncompleteOrders)
          /\ Cardinality(CanceledOrders) <= Cardinality(IncompleteOrders)
      BY <2>3, <2>4, FS_Subset
    <2>8. \A m, n \in Nat : AtLeast(m, n) >= m /\ AtLeast(m, n) >= n
                            /\ (AtLeast(m, n) = m \/ AtLeast(m, n) = n) /\ AtLeast(m, n) \in Nat
      BY DEF AtLeast
    <2>9. stats'.canceled <= stats'.incomplete + Cardinality(Kept)
      <3> DEFINE i == Cardinality(IncompleteOrders)
                 c == Cardinality(CanceledOrders)
      <3>1. stats'.incomplete \in Nat /\ stats'.incomplete >= i
        BY <2>1, <2>2, <2>4, <2>8
      <3>2. stats'.canceled = stats.canceled \/ stats'.canceled = c
        BY <2>1, <2>2, <2>4, <2>8
      <3>3. i \in Nat /\ c \in Nat /\ c <= i /\ stats.canceled <= i + Cardinality(Kept)
        BY <2>2, <2>4, <2>6, <2>7
      <3> HIDE DEF i, c
      <3>4. QED
        BY <2>2, <2>4, <3>1, <3>2, <3>3
    <2>10. Cardinality({o \in Orders : order[o].session = "canceled" /\ ~Paid(o)}) <= stats'.canceled
      <3> DEFINE Gone == {o \in Orders : order[o].session = "canceled" /\ ~Paid(o)}
      <3>1. Gone \subseteq CanceledOrders
        BY <1>1 DEF CanceledOrders, SessionsInv, OrderRowsOK, Exists, Placed, NoOrder
      <3> HIDE DEF Gone
      <3>2. Cardinality(Gone) \in Nat /\ Cardinality(Gone) <= Cardinality(CanceledOrders)
        BY <2>4, <3>1, FS_Subset, FS_CardinalityType
      <3>3. stats'.canceled \in Nat /\ stats'.canceled >= Cardinality(CanceledOrders)
        BY <2>1, <2>2, <2>4, <2>8
      <3>4. Cardinality(Gone) <= stats'.canceled
        BY <2>4, <3>2, <3>3
      <3>5. QED
        BY <3>4 DEF Gone
    <2>11. QED
      BY <2>9, <2>10 DEF Kept
  <1>2. SessionsInv /\ [SessionsNext]_sessionsVars =>
          [stats.stage = "events" /\ stats'.stage = "done" =>
             /\ Cardinality({o \in Orders : order[o].session = "canceled" /\ ~Paid(o)})
                  <= stats'.canceled
             /\ stats'.canceled <= stats'.incomplete
                  + Cardinality({o \in Logged("checkout_canceled") : Paid(o)})]_sessionsVars
    BY <1>1
  <1>3. QED
    BY <1>2, AlwaysSessionsInv, PTL DEF SessionsSpec, CancelsAreCounted

-----------------------------------------------------------------------------
(* What is half made *)

\* Products without a link whose request gave up,
Bare ==
  {p \in Stored : /\ \A l \in Links : link[l].product # {p}
                  /\ \A e \in Editors : ~(editor[e].stage = "link" /\ editor[e].product = {p})}

\* links without options whose request gave up,
Bald ==
  {l \in Links : /\ Known(l) /\ ~link[l].options
                 /\ \A e \in Editors : ~(editor[e].stage = "options" /\ editor[e].link = {l})}

\* archived links without their event,
Unheard == {l \in Links : link[l].status = "archived"} \ linkEvents["archived"]

\* and the failures that they cost.
HalfMade == Cardinality(Bare) + Cardinality(Bald) + Cardinality(Unheard) <= catalogFaults

\* What is half made is finite.
LEMMA HalfMadeIsFinite ==
  /\ IsFiniteSet(Bare) /\ IsFiniteSet(Bald) /\ IsFiniteSet(Unheard)
  /\ Cardinality(Bare) \in Nat /\ Cardinality(Bald) \in Nat /\ Cardinality(Unheard) \in Nat
  <1>1. IsFiniteSet(Products) /\ IsFiniteSet(Links)
    BY DEF CatalogAssumption
  <1>2. Bare \subseteq Products /\ Bald \subseteq Links /\ Unheard \subseteq Links
    BY DEF Bare, Bald, Unheard, Stored
  <1>3. IsFiniteSet(Bare) /\ IsFiniteSet(Bald) /\ IsFiniteSet(Unheard)
    BY <1>1, <1>2, FS_Subset
  <1>4. QED
    BY <1>3, FS_CardinalityType

\* A set that grows by one element at most has at most one more.
LEMMA AtMostOneMore ==
  ASSUME NEW S, NEW T, NEW x, IsFiniteSet(S), T \subseteq S \cup {x}
  PROVE  Cardinality(T) <= Cardinality(S) + 1
  <1>1. Cardinality(S) \in Nat
    BY FS_CardinalityType
  <1>2. /\ IsFiniteSet(S \cup {x})
        /\ Cardinality(S \cup {x}) = IF x \in S THEN Cardinality(S) ELSE Cardinality(S) + 1
    BY FS_AddElement
  <1>3. IsFiniteSet(T) /\ Cardinality(T) <= Cardinality(S \cup {x})
    BY <1>2, FS_Subset
  <1>4. Cardinality(T) \in Nat /\ Cardinality(S \cup {x}) \in Nat
    BY <1>2, <1>3, FS_CardinalityType
  <1>5. QED
    BY <1>1, <1>2, <1>3, <1>4

\* A step that leaves nothing half made.
LEMMA HalfMadeStays ==
  ASSUME CatalogInv, HalfMade, Bare' \subseteq Bare, Bald' \subseteq Bald, Unheard' \subseteq Unheard,
         UNCHANGED catalogFaults \/ CatalogFault
  PROVE  HalfMade'
  <1>1. /\ Cardinality(Bare') <= Cardinality(Bare) /\ Cardinality(Bare') \in Nat
        /\ Cardinality(Bald') <= Cardinality(Bald) /\ Cardinality(Bald') \in Nat
        /\ Cardinality(Unheard') <= Cardinality(Unheard) /\ Cardinality(Unheard') \in Nat
    BY HalfMadeIsFinite, FS_Subset, FS_CardinalityType
  <1>2. catalogFaults \in Int /\ catalogFaults' \in Int /\ catalogFaults <= catalogFaults'
    BY DEF CatalogInv, RowsOK, CatalogFault
  <1>3. QED
    BY <1>1, <1>2, HalfMadeIsFinite DEF HalfMade

\* A failure that leaves one thing half made.
LEMMA HalfMadeCosts ==
  ASSUME CatalogInv, HalfMade, CatalogFault,
         \/ /\ Bald' \subseteq Bald /\ Unheard' \subseteq Unheard
            /\ \E x : Bare' \subseteq Bare \cup {x}
         \/ /\ Bare' \subseteq Bare /\ Unheard' \subseteq Unheard
            /\ \E x : Bald' \subseteq Bald \cup {x}
         \/ /\ Bare' \subseteq Bare /\ Bald' \subseteq Bald
            /\ \E x : Unheard' \subseteq Unheard \cup {x}
  PROVE  HalfMade'
  <1> DEFINE a == Cardinality(Bare)  b == Cardinality(Bald)  c == Cardinality(Unheard)
             x == Cardinality(Bare')  y == Cardinality(Bald')  z == Cardinality(Unheard')
  <1>1. a \in Nat /\ b \in Nat /\ c \in Nat
    BY HalfMadeIsFinite
  <1>2. Bare' \subseteq Bare => x <= a
    BY HalfMadeIsFinite, FS_Subset
  <1>3. Bald' \subseteq Bald => y <= b
    BY HalfMadeIsFinite, FS_Subset
  <1>4. Unheard' \subseteq Unheard => z <= c
    BY HalfMadeIsFinite, FS_Subset
  <1>5. (\E i : Bare' \subseteq Bare \cup {i}) => x <= a + 1
    BY HalfMadeIsFinite, AtMostOneMore
  <1>6. (\E i : Bald' \subseteq Bald \cup {i}) => y <= b + 1
    BY HalfMadeIsFinite, AtMostOneMore
  <1>7. (\E i : Unheard' \subseteq Unheard \cup {i}) => z <= c + 1
    BY HalfMadeIsFinite, AtMostOneMore
  <1>8. x \in Nat /\ y \in Nat /\ z \in Nat
    <2>1. IsFiniteSet(Bare') /\ IsFiniteSet(Bald') /\ IsFiniteSet(Unheard')
      <3>1. IsFiniteSet(Products) /\ IsFiniteSet(Links)
        BY DEF CatalogAssumption
      <3>2. Bare' \subseteq Products /\ Bald' \subseteq Links /\ Unheard' \subseteq Links
        BY DEF Bare, Bald, Unheard, Stored
      <3>3. QED
        BY <3>1, <3>2, FS_Subset
    <2>2. QED
      BY <2>1, FS_CardinalityType
  <1>9. catalogFaults \in Int /\ catalogFaults' = catalogFaults + 1 /\ a + b + c <= catalogFaults
    BY DEF CatalogInv, RowsOK, CatalogFault, HalfMade
  <1>10. \/ x <= a + 1 /\ y <= b /\ z <= c
         \/ x <= a /\ y <= b + 1 /\ z <= c
         \/ x <= a /\ y <= b /\ z <= c + 1
    BY <1>2, <1>3, <1>4, <1>5, <1>6, <1>7
  <1> HIDE DEF a, b, c, x, y, z
  <1>11. x + y + z <= catalogFaults'
    BY <1>1, <1>8, <1>9, <1>10
  <1>12. QED
    BY <1>11 DEF HalfMade, x, y, z

\* At first nothing is made.
LEMMA InitHalfMade == CatalogInit => HalfMade
  <1> SUFFICES ASSUME CatalogInit PROVE HalfMade
    OBVIOUS
  <1>1. Stored = {} /\ \A l \in Links : ~Known(l) /\ link[l].status = "absent"
    BY Blank DEF CatalogInit, Stored, Known, NoProduct
  <1>2. Bare = {} /\ Bald = {} /\ Unheard = {}
    BY <1>1 DEF Bare, Bald, Unheard
  <1>3. Cardinality(Bare) = 0 /\ Cardinality(Bald) = 0 /\ Cardinality(Unheard) = 0
    BY <1>2, FS_EmptySet
  <1>4. catalogFaults = 0
    BY DEF CatalogInit
  <1>5. QED
    BY <1>3, <1>4 DEF HalfMade

\* A product is created, changed or deleted.
LEMMA ProductHalfMade ==
  ASSUME CatalogInv, HalfMade, NEW p \in Products,
         \/ DeleteProduct(p)
         \/ \E e \in Editors, amount \in ProductAmounts, tokens \in SUBSET Tokens :
              \/ CreateProduct(e, p, amount, tokens)
              \/ \E withTokens \in BOOLEAN : UpdateProduct(e, p, amount, tokens, withTokens)
  PROVE  HalfMade'
  <1>1. /\ product \in [Products -> ProductRows] /\ link \in [Links -> LinkRows]
        /\ editor \in [Editors -> EditorRows]
    BY DEF CatalogInv, RowsOK
  <1>2. ASSUME DeleteProduct(p) PROVE HalfMade'
    <2>1. /\ product' = [product EXCEPT ![p] = [NoProduct EXCEPT !.status = "deleted"]]
          /\ link' = [l \in Links |-> [link[l] EXCEPT !.product = @ \ {p}]]
          /\ UNCHANGED <<editor, linkEvents, catalogFaults>>
      BY <1>2 DEF DeleteProduct
    <2>2. [NoProduct EXCEPT !.status = "deleted"].status = "deleted"
      BY DEF NoProduct
    <2>3. Stored' = Stored \ {p}
      BY <1>1, <2>1, <2>2 DEF Stored
    <2>4. \A l \in Links : /\ link'[l].product = link[l].product \ {p}
                           /\ link'[l].options = link[l].options
                           /\ link'[l].status = link[l].status
      BY <1>1, <2>1 DEF LinkRows
    <2>5. \A q : q # p => \A l \in Links : link[l].product = {q} => link'[l].product = {q}
      BY <2>4
    <2>6. Bare' \subseteq Bare
      BY <2>1, <2>3, <2>5 DEF Bare
    <2>7. Bald' \subseteq Bald /\ Unheard' \subseteq Unheard
      BY <2>1, <2>4 DEF Bald, Unheard, Known
    <2>8. QED
      BY <2>1, <2>6, <2>7, HalfMadeStays
  <1>3. ASSUME NEW e \in Editors, NEW x \in EditorRows, editor[e] = Idle, x.stage \in {"link", "idle", "tokens"},
               editor' = [editor EXCEPT ![e] = x],
               Stored' \subseteq Stored \cup (IF x.stage = "link" THEN {p} ELSE {}),
               x.stage = "link" => x.product = {p},
               UNCHANGED <<link, linkEvents, catalogFaults>>
        PROVE  HalfMade'
    <2>1. \A d \in Editors : editor'[d] = IF d = e THEN x ELSE editor[d]
      BY <1>1, <1>3
    <2>2. Bare' \subseteq Bare
      BY <1>3, <2>1, Blank DEF Bare
    <2>3. Bald' \subseteq Bald /\ Unheard' \subseteq Unheard
      BY <1>3, <2>1, Blank DEF Bald, Unheard, Known
    <2>4. QED
      BY <1>3, <2>2, <2>3, HalfMadeStays
  <1>4. ASSUME NEW e \in Editors, NEW amount \in ProductAmounts, NEW tokens \in SUBSET Tokens,
               CreateProduct(e, p, amount, tokens)
        PROVE  HalfMade'
    <2> DEFINE x == [Idle EXCEPT !.stage = "link", !.product = {p},
                                 !.terms = DefaultTerms(amount, tokens)]
    <2>1. x \in EditorRows /\ x.stage = "link" /\ x.product = {p}
      <3>1. amount \in SUBSET Int
        BY DEF CatalogAssumption
      <3>2. QED
        BY <3>1, Blank DEF EditorRows
    <2>2. Stored' \subseteq Stored \cup {p}
      BY <1>1, <1>4 DEF Stored, CreateProduct
    <2>3. /\ editor[e] = Idle /\ editor' = [editor EXCEPT ![e] = x]
          /\ UNCHANGED <<link, linkEvents, catalogFaults>>
      BY <1>4 DEF CreateProduct
    <2> HIDE DEF x
    <2>4. QED
      BY <1>3, <2>1, <2>2, <2>3
  <1>5. ASSUME NEW e \in Editors, NEW amount \in ProductAmounts, NEW tokens \in SUBSET Tokens,
               NEW withTokens \in BOOLEAN, UpdateProduct(e, p, amount, tokens, withTokens)
        PROVE  HalfMade'
    <2> DEFINE x == IF withTokens
                    THEN [Idle EXCEPT !.stage = "tokens", !.product = {p},
                                      !.terms = DefaultTerms({}, tokens)]
                    ELSE Idle
    <2>1. x \in EditorRows /\ x.stage \in {"idle", "tokens"}
      BY Blank DEF EditorRows
    <2>2. PICK image \in {product[p].image, {}} :
            product' = [product EXCEPT ![p].amount = IF amount = {} THEN @ ELSE amount,
                                       ![p].image = image]
      BY <1>5 DEF UpdateProduct
    <2>3. Stored' \subseteq Stored
      BY <1>1, <2>2 DEF Stored, ProductRows
    <2>4. /\ editor[e] = Idle /\ editor' = [editor EXCEPT ![e] = x]
          /\ UNCHANGED <<link, linkEvents, catalogFaults>>
      BY <1>5 DEF UpdateProduct
    <2> HIDE DEF x
    <2>5. QED
      BY <1>3, <2>1, <2>3, <2>4
  <1>6. QED
    BY <1>2, <1>4, <1>5

\* A request moves on, or fails at the cost of what it had to make.
LEMMA EditorHalfMade ==
  ASSUME CatalogInv, HalfMade, NEW e \in Editors,
         \/ \E p \in Products : StartUpload(e, p)
         \/ \E i \in Images : PutImage(e, i)
         \/ ShowImage(e)
         \/ EditorFails(e)
  PROVE  HalfMade'
  <1>1. product \in [Products -> ProductRows] /\ editor \in [Editors -> EditorRows]
    BY DEF CatalogInv, RowsOK
  <1>2. PICK x \in EditorRows : editor' = [editor EXCEPT ![e] = x] /\ x.stage \in {"idle", "upload", "image"}
    <2>1. ASSUME NEW p \in Products, StartUpload(e, p)
          PROVE  \E x \in EditorRows : editor' = [editor EXCEPT ![e] = x] /\ x.stage \in {"idle", "upload", "image"}
      <3> DEFINE x == [Idle EXCEPT !.stage = "upload", !.product = {p}]
      <3>1. x \in EditorRows /\ x.stage = "upload"
        BY Blank DEF EditorRows
      <3>2. editor' = [editor EXCEPT ![e] = x]
        BY <2>1 DEF StartUpload
      <3>3. QED
        BY <3>1, <3>2
    <2>2. ASSUME NEW i \in Images, PutImage(e, i)
          PROVE  \E x \in EditorRows : editor' = [editor EXCEPT ![e] = x] /\ x.stage \in {"idle", "upload", "image"}
      <3> DEFINE x == [editor[e] EXCEPT !.stage = "image", !.image = {i}]
      <3>1. x \in EditorRows /\ x.stage = "image"
        BY <1>1 DEF EditorRows
      <3>2. editor' = [editor EXCEPT ![e] = x]
        BY <1>1, <2>2 DEF PutImage
      <3>3. QED
        BY <3>1, <3>2
    <2>3. CASE ShowImage(e) \/ EditorFails(e)
      BY <2>3, Blank DEF ShowImage, EditorFails
    <2>4. QED
      BY <2>1, <2>2, <2>3
  <1>3. \A d \in Editors : editor'[d] = IF d = e THEN x ELSE editor[d]
    BY <1>1, <1>2
  <1>4. Stored' = Stored /\ UNCHANGED <<link, linkEvents>>
    <2>1. CASE ShowImage(e)
      <3>1. \A p \in Products : product'[p].status = product[p].status
        BY <1>1, <2>1 DEF ShowImage, ProductRows
      <3>2. QED
        BY <2>1, <3>1 DEF Stored, ShowImage
    <2>2. QED
      BY <2>1 DEF StartUpload, PutImage, EditorFails, Stored
  <1>5. Unheard' = Unheard
    BY <1>4 DEF Unheard
  <1>6. editor[e].stage # "link" => Bare' \subseteq Bare
    BY <1>2, <1>3, <1>4 DEF Bare
  <1>7. editor[e].stage # "options" => Bald' \subseteq Bald
    BY <1>2, <1>3, <1>4 DEF Bald, Known
  <1>8. CASE editor[e].stage \notin {"link", "options"}
    <2>1. UNCHANGED catalogFaults \/ CatalogFault
      BY DEF StartUpload, PutImage, ShowImage, EditorFails
    <2>2. QED
      BY <1>5, <1>6, <1>7, <1>8, <2>1, HalfMadeStays
  <1>9. CASE editor[e].stage = "link"
    <2>1. EditorFails(e)
      BY <1>9, Blank DEF StartUpload, PutImage, ShowImage
    <2>2. CASE CatalogFault
      <3> DEFINE q == CHOOSE q : editor[e].product = {q}
      <3>1. Bare' \subseteq Bare \cup {q}
        BY <1>2, <1>3, <1>4 DEF Bare
      <3>2. \E y : Bare' \subseteq Bare \cup {y}
        BY <3>1
      <3>3. QED
        BY <1>5, <1>7, <1>9, <2>2, <3>2, HalfMadeCosts
    <2>3. CASE ~(editor[e].product \subseteq Stored) /\ UNCHANGED catalogFaults
      <3>1. Bare' \subseteq Bare
        BY <1>2, <1>3, <1>4, <2>3 DEF Bare
      <3>2. QED
        BY <1>5, <1>7, <1>9, <2>3, <3>1, HalfMadeStays
    <2>4. QED
      BY <2>1, <2>2, <2>3 DEF EditorFails
  <1>10. CASE editor[e].stage = "options"
    <2>1. CatalogFault
      BY <1>10, Blank DEF StartUpload, PutImage, ShowImage, EditorFails
    <2>2. \E y : Bald' \subseteq Bald \cup {y}
      <3> DEFINE k == CHOOSE k : editor[e].link = {k}
      <3>1. Bald' \subseteq Bald \cup {k}
        BY <1>2, <1>3, <1>4 DEF Bald, Known
      <3>2. QED
        BY <3>1
    <2>3. QED
      BY <1>5, <1>6, <1>10, <2>1, <2>2, HalfMadeCosts
  <1>11. QED
    BY <1>8, <1>9, <1>10

\* A request makes the link of its product, the options of the link, or edits links.
LEMMA EditLinksHalfMade ==
  ASSUME CatalogInv, HalfMade, NEW e \in Editors,
         (\E l \in Links : CreateDefaultLink(e, l)) \/ CreateOptions(e) \/ UpdateTokens(e)
  PROVE  HalfMade'
  <1>1. /\ link \in [Links -> LinkRows] /\ editor \in [Editors -> EditorRows]
    BY DEF CatalogInv, RowsOK
  <1>2. ASSUME NEW l \in Links, CreateDefaultLink(e, l) PROVE HalfMade'
    <2> DEFINE row == [status |-> "active", product |-> editor[e].product,
                       options |-> FALSE, terms |-> editor[e].terms]
    <2>1. /\ link' = [link EXCEPT ![l] = row]
          /\ editor[e].stage = "link" /\ link[l] = NoLink
          /\ UNCHANGED <<product, linkEvents, catalogFaults>>
      BY <1>2 DEF CreateDefaultLink
    <2>2. \A k \in Links : link'[k] = IF k = l THEN row ELSE link[k]
      BY <1>1, <2>1
    <2>3. \A d \in Editors : d # e => editor'[d] = editor[d]
      BY <1>1, <1>2 DEF CreateDefaultLink
    <2>4. editor'[e].stage = "options" /\ editor'[e].link = {l} /\ editor[e].stage = "link"
      BY <1>1, <1>2 DEF CreateDefaultLink, EditorRows
    <2>5. Stored' = Stored
      BY <2>1 DEF Stored
    <2>6. row.product = editor[e].product /\ row.status = "active"
      OBVIOUS
    <2> HIDE DEF row
    <2>7. Bare' \subseteq Bare
      <3> SUFFICES ASSUME NEW q \in Bare' PROVE q \in Bare
        OBVIOUS
      <3>1. q \in Stored /\ \A k \in Links : link'[k].product # {q}
        BY <2>5 DEF Bare
      <3>2. editor[e].product # {q}
        BY <2>2, <2>6, <3>1
      <3>3. \A k \in Links : link[k].product # {q}
        BY <2>1, <2>2, <3>1, Blank
      <3>4. \A d \in Editors : ~(editor[d].stage = "link" /\ editor[d].product = {q})
        BY <2>3, <3>2 DEF Bare
      <3>5. QED
        BY <3>1, <3>3, <3>4 DEF Bare
    <2>8. Bald' \subseteq Bald
      <3> SUFFICES ASSUME NEW k \in Bald' PROVE k \in Bald
        OBVIOUS
      <3>1. k \in Links /\ k # l
        BY <2>4 DEF Bald
      <3>2. Known(k) /\ ~link[k].options
        BY <2>2, <3>1 DEF Bald, Known
      <3>3. \A d \in Editors : ~(editor[d].stage = "options" /\ editor[d].link = {k})
        BY <2>3, <2>4 DEF Bald
      <3>4. QED
        BY <3>1, <3>2, <3>3 DEF Bald
    <2>9. Unheard' \subseteq Unheard
      BY <2>1, <2>2, <2>6 DEF Unheard
    <2>10. QED
      BY <2>1, <2>7, <2>8, <2>9, HalfMadeStays
  <1>3. CASE CreateOptions(e) \/ UpdateTokens(e)
    <2>1. /\ editor' = [editor EXCEPT ![e] = Idle]
          /\ UNCHANGED <<product, linkEvents, catalogFaults>>
      BY <1>3 DEF CreateOptions, UpdateTokens
    <2>2. \A d \in Editors : editor'[d] = IF d = e THEN Idle ELSE editor[d]
      BY <1>1, <2>1
    <2>3. \A l \in Links : /\ link'[l].product = link[l].product /\ link'[l].status = link[l].status
                           /\ link[l].options => link'[l].options
      BY <1>1, <1>3 DEF CreateOptions, UpdateTokens, LinkRows
    <2>4. editor[e].stage # "link"
      BY <1>3 DEF CreateOptions, UpdateTokens
    <2>5. Bare' \subseteq Bare
      BY <2>1, <2>2, <2>3, <2>4 DEF Bare, Stored
    <2>6. \A l \in Links : editor[e].stage = "options" /\ editor[e].link = {l} => link'[l].options
      BY <1>1, <1>3 DEF CreateOptions, UpdateTokens, LinkRows
    <2>7. Bald' \subseteq Bald
      BY <2>2, <2>3, <2>6 DEF Bald, Known
    <2>8. Unheard' \subseteq Unheard
      BY <2>1, <2>3 DEF Unheard
    <2>9. QED
      BY <2>1, <2>5, <2>7, <2>8, HalfMadeStays
  <1>4. QED
    BY <1>2, <1>3

\* payment-link-service creates a link whole, and archives one, perhaps unheard.
LEMMA LinkServiceHalfMade ==
  ASSUME CatalogInv, HalfMade, NEW l \in Links,
         \/ \E P \in {{}} \cup {{p} : p \in Products}, t \in LinkTerms : CreatePaymentLink(l, P, t)
         \/ \E u \in LinkUpdates : UpdatePaymentLink(l, u)
         \/ ArchivePaymentLink(l)
  PROVE  HalfMade'
  <1>1. link \in [Links -> LinkRows] /\ linkEvents \in [{"created", "archived"} -> SUBSET Links]
    BY DEF CatalogInv, RowsOK
  <1>2. UNCHANGED <<product, editor>>
    BY DEF CreatePaymentLink, UpdatePaymentLink, ArchivePaymentLink
  <1>3. \A k \in Links : k # l => link'[k] = link[k]
    BY <1>1 DEF CreatePaymentLink, UpdatePaymentLink, ArchivePaymentLink
  <1>4. /\ link'[l].product = link[l].product \/ link[l].product = {}
        /\ link'[l].options \/ (link'[l].options = link[l].options /\ Known(l))
    <2>1. ASSUME NEW P \in {{}} \cup {{p} : p \in Products}, NEW t \in LinkTerms, CreatePaymentLink(l, P, t)
          PROVE  link[l].product = {} /\ link'[l].options
      BY <1>1, <2>1, Blank DEF CreatePaymentLink
    <2>2. ASSUME NEW u \in LinkUpdates, UpdatePaymentLink(l, u)
          PROVE  link'[l].product = link[l].product /\ link'[l].options = link[l].options /\ Known(l)
      BY <1>1, <2>2 DEF UpdatePaymentLink, LinkRows, Known
    <2>3. ASSUME ArchivePaymentLink(l)
          PROVE  link'[l].product = link[l].product /\ link'[l].options = link[l].options /\ Known(l)
      BY <1>1, <2>3 DEF ArchivePaymentLink, LinkRows, Known
    <2>4. QED
      BY <2>1, <2>2, <2>3
  <1>5. Bare' \subseteq Bare
    BY <1>2, <1>3, <1>4 DEF Bare, Stored
  <1>6. Bald' \subseteq Bald
    BY <1>2, <1>3, <1>4 DEF Bald, Known
  <1>7. ASSUME NEW P \in {{}} \cup {{p} : p \in Products}, NEW t \in LinkTerms, CreatePaymentLink(l, P, t)
        PROVE  HalfMade'
    <2>1. link'[l].status = "active" /\ linkEvents'["archived"] = linkEvents["archived"]
      BY <1>1, <1>7 DEF CreatePaymentLink
    <2>2. Unheard' \subseteq Unheard
      BY <1>3, <2>1 DEF Unheard
    <2>3. UNCHANGED catalogFaults
      BY <1>7 DEF CreatePaymentLink
    <2>4. QED
      BY <1>5, <1>6, <2>2, <2>3, HalfMadeStays
  <1>8. ASSUME NEW u \in LinkUpdates, UpdatePaymentLink(l, u) PROVE HalfMade'
    <2>1. link'[l].status = link[l].status /\ UNCHANGED <<linkEvents, catalogFaults>>
      BY <1>1, <1>8 DEF UpdatePaymentLink, LinkRows
    <2>2. Unheard' \subseteq Unheard
      BY <1>3, <2>1 DEF Unheard
    <2>3. QED
      BY <1>5, <1>6, <2>1, <2>2, HalfMadeStays
  <1>9. CASE ArchivePaymentLink(l)
    <2>1. CASE linkEvents' = [linkEvents EXCEPT !["archived"] = @ \cup {l}] /\ UNCHANGED catalogFaults
      <3>1. linkEvents'["archived"] = linkEvents["archived"] \cup {l}
        BY <1>1, <2>1
      <3>2. Unheard' \subseteq Unheard
        BY <1>3, <3>1 DEF Unheard
      <3>3. QED
        BY <1>5, <1>6, <2>1, <3>2, HalfMadeStays
    <2>2. CASE CatalogFault /\ UNCHANGED linkEvents
      <3>1. Unheard' \subseteq Unheard \cup {l}
        BY <1>3, <2>2 DEF Unheard
      <3>2. \E y : Unheard' \subseteq Unheard \cup {y}
        BY <3>1
      <3>3. QED
        BY <1>5, <1>6, <2>2, <3>2, HalfMadeCosts
    <2>3. QED
      BY <1>9, <2>1, <2>2 DEF ArchivePaymentLink
  <1>10. QED
    BY <1>7, <1>8, <1>9

\* Every step of the catalog pays for what it leaves half made.
LEMMA CatalogHalfMade ==
  ASSUME CatalogInv, HalfMade,
         \/ CatalogNext
         \/ UNCHANGED <<product, link, editor, linkEvents>> /\ (UNCHANGED catalogFaults \/ CatalogFault)
  PROVE  HalfMade'
  <1>1. ASSUME NEW e \in Editors, NEW p \in Products,
               \E amount \in ProductAmounts, tokens \in SUBSET Tokens :
                 \/ CreateProduct(e, p, amount, tokens)
                 \/ \E withTokens \in BOOLEAN : UpdateProduct(e, p, amount, tokens, withTokens)
        PROVE  HalfMade'
    BY <1>1, ProductHalfMade
  <1>2. ASSUME UNCHANGED <<product, link, editor, linkEvents>>, UNCHANGED catalogFaults \/ CatalogFault
        PROVE  HalfMade'
    <2>1. Bare' = Bare /\ Bald' = Bald /\ Unheard' = Unheard
      BY <1>2 DEF Bare, Bald, Unheard, Stored, Known
    <2>2. QED
      BY <1>2, <2>1, HalfMadeStays
  <1>3. TimeGoesOn => HalfMade'
    BY <1>2 DEF TimeGoesOn
  <1>4. QED
    BY <1>1, <1>2, <1>3, ProductHalfMade, EditorHalfMade, EditLinksHalfMade, LinkServiceHalfMade
       DEF CatalogNext

\* So does every step of the sessions.
LEMMA AlwaysHalfMade == SessionsSpec => []HalfMade
  <1>1. SessionsInit => HalfMade
    BY InitHalfMade DEF SessionsInit
  <1>2. ASSUME SessionsInv, HalfMade, [SessionsNext]_sessionsVars PROVE HalfMade'
    <2>1. CatalogInv
      BY <1>2 DEF SessionsInv
    <2>2. \/ CatalogNext
          \/ UNCHANGED <<product, link, editor, linkEvents>> /\ (UNCHANGED catalogFaults \/ CatalogFault)
      BY <1>2 DEF SessionsNext, sessionsVars, catalogVars, LoadLink, Check, CheckReusable,
           CheckLimit, CheckPrice, CommitSession, SessionFails, Becomes, Pay, FallBack, Settle,
           Expire, CancelCheckout, RecordCancel, CancelFails,
           RecordEvent, CountEvents, CountOutcomes
    <2>3. QED
      BY <1>2, <2>1, <2>2, CatalogHalfMade
  <1>3. QED
    BY <1>1, <1>2, AlwaysSessionsInv, PTL DEF SessionsSpec

\* A finite set is counted in two parts.
LEMMA SplitCount ==
  ASSUME NEW S, NEW T, IsFiniteSet(S), T \subseteq S
  PROVE  /\ Cardinality(S) \in Nat /\ Cardinality(S \ T) \in Nat
         /\ Cardinality(S) = Cardinality(S \ T) + Cardinality(T)
  <1>1. IsFiniteSet(T) /\ IsFiniteSet(S \ T)
    BY FS_Subset
  <1>2. (S \ T) \cup T = S /\ (S \ T) \cap T = {}
    OBVIOUS
  <1>3. Cardinality((S \ T) \cup T) = Cardinality(S \ T) + Cardinality(T) - Cardinality((S \ T) \cap T)
    BY <1>1, FS_Union
  <1>4. Cardinality(S) \in Nat /\ Cardinality(S \ T) \in Nat /\ Cardinality(T) \in Nat
    BY <1>1, FS_CardinalityType
  <1>5. Cardinality(S) = Cardinality(S \ T) + Cardinality(T) - 0
    BY <1>2, <1>3, FS_EmptySet
  <1>6. QED
    BY <1>4, <1>5

\* Things in hand, each of a request of its own, are no more than the requests.
LEMMA HeldByRequests ==
  ASSUME NEW T, NEW R \in SUBSET Editors, NEW f, f \in [T -> R],
         \A x, y \in T : f[x] = f[y] => x = y
  PROVE  IsFiniteSet(R) /\ Cardinality(R) \in Nat /\ Cardinality(T) <= Cardinality(R)
  <1>1. IsFiniteSet(R)
    BY FS_Subset DEF CatalogAssumption
  <1>2. f \in Injection(T, R)
    BY DEF Injection, IsInjective
  <1>3. IsFiniteSet(T) /\ Cardinality(T) <= Cardinality(R)
    BY <1>1, <1>2, FS_Injection
  <1>4. QED
    BY <1>1, <1>3, FS_CardinalityType

\* However the statements of product requests interleave and fail, what is half
\* made is paid for by a failure or in the hands of a request, and the image a
\* product shows can be fetched.
THEOREM ProductsAreComplete == SessionsSpec => []ProductsAreWhole
  <1>1. ASSUME SessionsInv, HalfMade PROVE HalfMadeCostsFailure
    <2> DEFINE A == {p \in Stored : \A l \in Links : link[l].product # {p}}
               B == {l \in Links : Known(l) /\ ~link[l].options}
               F == {e \in Editors : editor[e].stage = "link"}
               G == {e \in Editors : editor[e].stage = "options"}
               H == {e \in Editors : editor[e].stage \in {"link", "options"}}
               f == [p \in A \ Bare |-> CHOOSE e \in F : editor[e].product = {p}]
               g == [l \in B \ Bald |-> CHOOSE e \in G : editor[e].link = {l}]
    <2>1. \A p \in A \ Bare : f[p] \in F /\ editor[f[p]].product = {p}
      BY DEF Bare
    <2>2. \A l \in B \ Bald : g[l] \in G /\ editor[g[l]].link = {l}
      BY DEF Bald
    <2>3. f \in [A \ Bare -> F] /\ g \in [B \ Bald -> G]
      BY <2>1, <2>2
    <2>4. \A x, y \in A \ Bare : f[x] = f[y] => x = y
      <3> HIDE DEF A, f, F
      <3>1. ASSUME NEW x \in A \ Bare, NEW y \in A \ Bare, f[x] = f[y] PROVE x = y
        <4>1. {x} = {y}
          BY <2>1, <3>1
        <4>2. QED
          BY <4>1
      <3>2. QED
        BY <3>1
    <2>5. \A x, y \in B \ Bald : g[x] = g[y] => x = y
      <3> HIDE DEF B, g, G
      <3>1. ASSUME NEW x \in B \ Bald, NEW y \in B \ Bald, g[x] = g[y] PROVE x = y
        <4>1. {x} = {y}
          BY <2>2, <3>1
        <4>2. QED
          BY <4>1
      <3>2. QED
        BY <3>1
    <2> HIDE DEF f, g
    <2>6. IsFiniteSet(F) /\ Cardinality(F) \in Nat /\ Cardinality(A \ Bare) <= Cardinality(F)
      BY <2>3, <2>4, HeldByRequests
    <2>7. IsFiniteSet(G) /\ Cardinality(G) \in Nat /\ Cardinality(B \ Bald) <= Cardinality(G)
      BY <2>3, <2>5, HeldByRequests
    <2>8. Cardinality(H) = Cardinality(F) + Cardinality(G)
      <3>1. H = F \cup G /\ F \cap G = {}
        OBVIOUS
      <3>2. Cardinality(F \cup G) = Cardinality(F) + Cardinality(G) - Cardinality(F \cap G)
        BY <2>6, <2>7, FS_Union
      <3>3. Cardinality(F \cup G) = Cardinality(F) + Cardinality(G) - 0
        BY <3>1, <3>2, FS_EmptySet
      <3> HIDE DEF F, G, H
      <3>4. QED
        BY <2>6, <2>7, <3>1, <3>3
    <2>9. IsFiniteSet(A) /\ IsFiniteSet(B)
      BY FS_Subset DEF CatalogAssumption, Stored
    <2>10. /\ Cardinality(A) \in Nat /\ Cardinality(A \ Bare) \in Nat
           /\ Cardinality(A) = Cardinality(A \ Bare) + Cardinality(Bare)
      <3>1. Bare \subseteq A
        BY DEF Bare
      <3>2. QED
        BY <2>9, <3>1, SplitCount
    <2>11. /\ Cardinality(B) \in Nat /\ Cardinality(B \ Bald) \in Nat
           /\ Cardinality(B) = Cardinality(B \ Bald) + Cardinality(Bald)
      <3>1. Bald \subseteq B
        BY DEF Bald
      <3>2. QED
        BY <2>9, <3>1, SplitCount
    <2>12. catalogFaults \in Int
      BY <1>1 DEF SessionsInv, CatalogInv, RowsOK
    <2> HIDE DEF A, B, F, G, H
    <2>13. Cardinality(A) + Cardinality(B) + Cardinality(Unheard) <= catalogFaults + Cardinality(H)
      BY <1>1, <2>6, <2>7, <2>8, <2>10, <2>11, <2>12, HalfMadeIsFinite DEF HalfMade
    <2>14. QED
      BY <2>13 DEF HalfMadeCostsFailure, A, B, H, Unheard
  <1>2. ASSUME SessionsInv PROVE ImageIsStored
    BY <1>2 DEF SessionsInv, CatalogInv, ImagesOK, ImageIsStored
  <1>3. SessionsInv /\ HalfMade => ProductsAreWhole
    BY <1>1, <1>2 DEF ProductsAreWhole
  <1>4. QED
    BY <1>3, AlwaysSessionsInv, AlwaysHalfMade, PTL

-----------------------------------------------------------------------------
(* Storefront *)

\* Links that were announced are known and have options.
AnnouncedOK == \A l \in linkEvents["created"] : Known(l) /\ link[l].options

Pages == [mode : {"fixed", "open"}, amount : SUBSET Int, tokens : SUBSET Tokens]

Stages == {"away", "product", "link", "served", "surprised", "broken"}

Reasons == {"nothing", "gone", "tokens", "amount", "refused", "price"}

Visits == [stage : Stages, product : SUBSET Products, link : SUBSET Links, page : Pages,
           image : SUBSET Images, changed : BOOLEAN, by : Reasons]

EditedOK == edited \in [products : SUBSET Products, links : SUBSET Links]

VisitorOK ==
  /\ visitor \in Visits /\ visitor.stage # "broken"
  /\ visitor.image \subseteq objects
  /\ visitor.link = {} \/ \E l \in Links : visitor.link = {l} /\ Known(l)
  /\ visitor.stage \in {"link", "served"} => visitor.link # {}
  /\ visitor.stage = "surprised" <=> visitor.by # "nothing"

\* A link that came with its product asks for the product's amount, until one
\* of them is changed; so does the one that a request is about to make.
PricesOK ==
  /\ \A l \in Links : \A p \in link[l].product :
       l \notin linkEvents["created"] \cup edited.links /\ p \notin edited.products
         => link[l].terms.amount = product[p].amount
  /\ \A e \in Editors : editor[e].stage = "link" => \A p \in editor[e].product :
       /\ product[p].status # "absent"
       /\ p \notin edited.products => editor[e].terms.amount = product[p].amount

\* An open page that nothing changed under is what would be shown again.
PageOK ==
  ~visitor.changed =>
    /\ visitor.stage = "product" =>
         \A l \in visitor.link : /\ Offered(l) /\ visitor.page.tokens = LinkPage(l).tokens
                                 /\ visitor.page.amount = LinkPage(l).amount \/ PricedApart(l)
    /\ visitor.stage = "link" =>
         \A l \in visitor.link : Offered(l) /\ visitor.page = LinkPage(l)

StorefrontInv ==
  /\ SessionsInv /\ AnnouncedOK /\ EditedOK /\ VisitorOK /\ PricesOK /\ PageOK /\ SurpriseCostsChange

\* Nothing is taken from the store, and options are never removed; a link is
\* announced with its options.
LEMMA CatalogKeepsPromises ==
  ASSUME CatalogInv, AnnouncedOK, CatalogNext
  PROVE  objects \subseteq objects' /\ AnnouncedOK'
  <1>1. link \in [Links -> LinkRows] /\ linkEvents \in [{"created", "archived"} -> SUBSET Links]
    BY DEF CatalogInv, RowsOK
  <1>2. ASSUME UNCHANGED <<link, linkEvents>> PROVE AnnouncedOK'
    BY <1>2 DEF AnnouncedOK, Known
  <1>3. ASSUME linkEvents'["created"] = linkEvents["created"],
               \A l \in Links : Known(l) => Known(l)' /\ link'[l].options = link[l].options
        PROVE  AnnouncedOK'
    BY <1>1, <1>3 DEF AnnouncedOK
  <1>4. ASSUME NEW e \in Editors, NEW p \in Products, NEW amount, NEW tokens, NEW withTokens,
               CreateProduct(e, p, amount, tokens) \/ UpdateProduct(e, p, amount, tokens, withTokens)
        PROVE  UNCHANGED <<objects, link, linkEvents>>
    BY <1>4 DEF CreateProduct, UpdateProduct
  <1>6. ASSUME NEW e \in Editors, NEW l \in Links, CreateDefaultLink(e, l)
        PROVE  objects \subseteq objects' /\ AnnouncedOK'
    <2>1. /\ link[l] = NoLink /\ UNCHANGED <<objects, linkEvents>>
          /\ \A k \in Links : k # l => link'[k] = link[k]
      BY <1>1, <1>6 DEF CreateDefaultLink
    <2>2. l \notin linkEvents["created"]
      BY <2>1 DEF AnnouncedOK, Known, NoLink
    <2>3. QED
      BY <1>1, <2>1, <2>2 DEF AnnouncedOK, Known
  <1>7. ASSUME NEW e \in Editors, CreateOptions(e)
        PROVE  objects \subseteq objects' /\ AnnouncedOK'
    <2>1. /\ UNCHANGED <<objects, linkEvents>>
          /\ \A k \in Links : link'[k] = link[k] \/ link'[k] = [link[k] EXCEPT !.options = TRUE]
      BY <1>7 DEF CreateOptions
    <2>2. \A k \in Links : Known(k) /\ link[k].options => Known(k)' /\ link'[k].options
      BY <1>1, <2>1 DEF Known, LinkRows
    <2>3. QED
      BY <1>1, <2>1, <2>2 DEF AnnouncedOK
  <1>8. ASSUME NEW e \in Editors, UpdateTokens(e)
        PROVE  objects \subseteq objects' /\ AnnouncedOK'
    <2>1. /\ UNCHANGED <<objects, linkEvents>>
          /\ \A k \in Links : \/ link'[k] = link[k]
                              \/ link'[k] = [link[k] EXCEPT !.terms.tokens = editor[e].terms.tokens]
      BY <1>8 DEF UpdateTokens
    <2>2. \A k \in Links : link'[k].status = link[k].status /\ link'[k].options = link[k].options
      <3> SUFFICES ASSUME NEW k \in Links
                   PROVE  link'[k].status = link[k].status /\ link'[k].options = link[k].options
        OBVIOUS
      <3>1. link[k] \in LinkRows
        BY <1>1
      <3>2. link'[k] = link[k] \/ \E T : link'[k] = [link[k] EXCEPT !.terms.tokens = T]
        BY <2>1
      <3>3. QED
        BY <3>1, <3>2 DEF LinkRows
    <2>3. QED
      BY <1>3, <2>1, <2>2 DEF Known
  <1>9. ASSUME NEW p \in Products, DeleteProduct(p)
        PROVE  objects \subseteq objects' /\ AnnouncedOK'
    <2>1. /\ UNCHANGED <<objects, linkEvents>>
          /\ \A k \in Links : link'[k] = [link[k] EXCEPT !.product = @ \ {p}]
      BY <1>9 DEF DeleteProduct
    <2>2. \A k \in Links : link'[k].status = link[k].status /\ link'[k].options = link[k].options
      <3> SUFFICES ASSUME NEW k \in Links
                   PROVE  link'[k].status = link[k].status /\ link'[k].options = link[k].options
        OBVIOUS
      <3>1. link[k] \in LinkRows
        BY <1>1
      <3>2. PICK P : link'[k] = [link[k] EXCEPT !.product = P]
        BY <2>1
      <3>3. QED
        BY <3>1, <3>2 DEF LinkRows
    <2>3. QED
      BY <1>3, <2>1, <2>2 DEF Known
  <1>10. ASSUME NEW l \in Links, NEW P, NEW t, CreatePaymentLink(l, P, t)
         PROVE  objects \subseteq objects' /\ AnnouncedOK'
    <2>1. /\ UNCHANGED objects /\ linkEvents'["created"] = linkEvents["created"] \cup {l}
          /\ link'[l].status = "active" /\ link'[l].options
          /\ \A k \in Links : k # l => link'[k] = link[k]
      BY <1>1, <1>10 DEF CreatePaymentLink
    <2>2. QED
      BY <1>1, <2>1 DEF AnnouncedOK, Known
  <1>11. ASSUME NEW l \in Links, NEW u, UpdatePaymentLink(l, u)
         PROVE  objects \subseteq objects' /\ AnnouncedOK'
    <2>1. /\ UNCHANGED <<objects, linkEvents>>
          /\ \A k \in Links : link'[k].status = link[k].status /\ link'[k].options = link[k].options
      BY <1>1, <1>11 DEF UpdatePaymentLink, LinkRows
    <2>2. QED
      BY <1>3, <2>1 DEF Known
  <1>12. ASSUME NEW l \in Links, ArchivePaymentLink(l)
         PROVE  objects \subseteq objects' /\ AnnouncedOK'
    <2>1. /\ UNCHANGED objects /\ linkEvents'["created"] = linkEvents["created"]
          /\ \A k \in Links : Known(k) => Known(k)' /\ link'[k].options = link[k].options
      BY <1>1, <1>12 DEF ArchivePaymentLink, LinkRows, Known
    <2>2. QED
      BY <1>3, <2>1
  <1>13. ASSUME TimeGoesOn PROVE UNCHANGED <<objects, link, linkEvents>>
    BY <1>13 DEF TimeGoesOn
  <1> DEFINE Good == objects \subseteq objects' /\ AnnouncedOK'
  <1>14. ASSUME UNCHANGED <<objects, link, linkEvents>> PROVE Good
    BY <1>2, <1>14
  <1>15. ASSUME NEW e \in Editors, NEW p \in Products,
                \E amount \in ProductAmounts, tokens \in SUBSET Tokens :
                  \/ CreateProduct(e, p, amount, tokens)
                  \/ \E withTokens \in BOOLEAN : UpdateProduct(e, p, amount, tokens, withTokens)
         PROVE  Good
    <2>1. PICK amount \in ProductAmounts, tokens \in SUBSET Tokens :
            \/ CreateProduct(e, p, amount, tokens)
            \/ \E withTokens \in BOOLEAN : UpdateProduct(e, p, amount, tokens, withTokens)
      BY <1>15
    <2>2. UNCHANGED <<objects, link, linkEvents>>
      BY <1>4, <2>1
    <2>3. QED
      BY <1>14, <2>2
  <1>16. ASSUME NEW e \in Editors, NEW p \in Products, StartUpload(e, p) PROVE Good
    <2>1. UNCHANGED <<objects, link, linkEvents>>
      BY <1>16 DEF StartUpload
    <2>2. QED
      BY <1>14, <2>1
  <1>17. ASSUME NEW e \in Editors,
                (\E i \in Images : PutImage(e, i)) \/ ShowImage(e) \/ EditorFails(e)
         PROVE  Good
    <2>1. objects \subseteq objects' /\ UNCHANGED <<link, linkEvents>>
      BY <1>17 DEF PutImage, ShowImage, EditorFails
    <2>2. QED
      BY <1>2, <2>1
  <1>18. ASSUME NEW l \in Links,
                \/ \E P \in {{}} \cup {{p} : p \in Products}, t \in LinkTerms : CreatePaymentLink(l, P, t)
                \/ \E u \in LinkUpdates : UpdatePaymentLink(l, u)
                \/ ArchivePaymentLink(l)
         PROVE  Good
    BY <1>10, <1>11, <1>12, <1>18
  <1>19. Good
    <2>1. TimeGoesOn => Good
      BY <1>13, <1>14
    <2>2. /\ \A e \in Editors, l \in Links : CreateDefaultLink(e, l) => Good
          /\ \A e \in Editors : CreateOptions(e) \/ UpdateTokens(e) => Good
          /\ \A p \in Products : DeleteProduct(p) => Good
      BY <1>6, <1>7, <1>8, <1>9
    <2> HIDE DEF Good
    <2>3. QED
      BY <1>15, <1>16, <1>17, <1>18, <2>1, <2>2 DEF CatalogNext
  <1>20. QED
    BY <1>19

\* So it is with every step of the services.
LEMMA SessionsKeepPromises ==
  ASSUME SessionsInv, AnnouncedOK, [SessionsNext]_sessionsVars
  PROVE  objects \subseteq objects' /\ AnnouncedOK' /\ CatalogGrown
  <1>1. CASE CatalogNext
    <2>1. CatalogInv
      BY DEF SessionsInv
    <2>2. QED
      BY <1>1, <2>1, CatalogKeepsPromises, CatalogKeeps
  <1>2. CASE UNCHANGED <<objects, link, linkEvents>>
    BY <1>2 DEF AnnouncedOK, CatalogGrown, Known
  <1>3. CatalogNext \/ UNCHANGED <<objects, link, linkEvents>>
    BY DEF SessionsNext, sessionsVars, catalogVars, LoadLink, CheckReusable, CheckLimit, CheckPrice, Check,
           CommitSession, SessionFails, Pay, FallBack, Settle, Expire, Becomes, CancelCheckout,
           RecordCancel, CancelFails, RecordEvent, CountEvents, CountOutcomes
  <1>4. QED
    BY <1>1, <1>2, <1>3

\* What a step of the catalog does to amounts: a link keeps its own, gets it
\* from a request that makes it or is announced; a request gets it from its
\* product.  Adjustments and bounds are never changed.
LEMMA CatalogPrices ==
  ASSUME CatalogInv, CatalogNext
  PROVE  /\ linkEvents["created"] \subseteq linkEvents'["created"]
         /\ \A l \in Links :
              \/ link'[l].product \subseteq link[l].product
              \/ l \in linkEvents'["created"]
              \/ /\ UNCHANGED product
                 /\ \E e \in Editors : /\ editor[e].stage = "link" /\ link'[l].product = editor[e].product
                                       /\ link'[l].terms.amount = editor[e].terms.amount
         /\ \A p \in Products : product[p].status # "absent" => product'[p].status # "absent"
         /\ \A e \in Editors : editor'[e].stage = "link" =>
              \/ editor'[e] = editor[e]
              \/ \A p \in editor'[e].product : /\ product'[p].status # "absent"
                                               /\ editor'[e].terms.amount = product'[p].amount
         /\ \A l \in Links : Known(l) => /\ link'[l].terms.adjust = link[l].terms.adjust
                                         /\ link'[l].terms.min = link[l].terms.min
                                         /\ link'[l].terms.max = link[l].terms.max
  <1> DEFINE Announced == linkEvents["created"] \subseteq linkEvents'["created"]
  <1> DEFINE Made(l) == /\ UNCHANGED product
                        /\ \E e \in Editors : /\ editor[e].stage = "link" /\ link'[l].product = editor[e].product
                                              /\ link'[l].terms.amount = editor[e].terms.amount
  <1> DEFINE Linked == \A l \in Links : \/ link'[l].product \subseteq link[l].product
                                        \/ l \in linkEvents'["created"] \/ Made(l)
  <1> DEFINE There == \A p \in Products : product[p].status # "absent" => product'[p].status # "absent"
  <1> DEFINE Asking == \A e \in Editors : editor'[e].stage = "link" =>
                         \/ editor'[e] = editor[e]
                         \/ \A p \in editor'[e].product : /\ product'[p].status # "absent"
                                                          /\ editor'[e].terms.amount = product'[p].amount
  <1> DEFINE Same(l) == /\ link'[l].terms.adjust = link[l].terms.adjust
                        /\ link'[l].terms.min = link[l].terms.min
                        /\ link'[l].terms.max = link[l].terms.max
  <1> DEFINE Bound == \A l \in Links : Known(l) => Same(l)
  <1>1. /\ product \in [Products -> ProductRows] /\ link \in [Links -> LinkRows]
        /\ editor \in [Editors -> EditorRows] /\ linkEvents \in [{"created", "archived"} -> SUBSET Links]
    BY DEF CatalogInv, RowsOK
  <1>2. \A l \in Links : link[l] \in LinkRows /\ link[l].terms \in Terms
    BY <1>1 DEF LinkRows
  <1>3. ASSUME NEW e \in Editors, NEW p \in Products, NEW amount \in ProductAmounts, NEW tokens,
               CreateProduct(e, p, amount, tokens)
        PROVE  Announced /\ Linked /\ There /\ Asking /\ Bound
    <2>1. UNCHANGED <<link, linkEvents>> /\ product[p].status = "absent"
      BY <1>3 DEF CreateProduct
    <2>2. /\ product'[p].status = "stored" /\ product'[p].amount = amount
          /\ \A q \in Products : q # p => product'[q] = product[q]
      BY <1>1, <1>3 DEF CreateProduct, NoProduct
    <2>3. /\ editor'[e].product = {p} /\ editor'[e].terms.amount = amount
          /\ \A d \in Editors : d # e => editor'[d] = editor[d]
      BY <1>1, <1>3 DEF CreateProduct, Idle, DefaultTerms
    <2>4. QED
      BY <2>1, <2>2, <2>3
  <1>4. ASSUME NEW e \in Editors, NEW p \in Products, NEW amount, NEW tokens, NEW withTokens,
               UpdateProduct(e, p, amount, tokens, withTokens)
        PROVE  Announced /\ Linked /\ There /\ Asking /\ Bound
    <2>1. UNCHANGED <<link, linkEvents>>
      BY <1>4 DEF UpdateProduct
    <2>2. \A q \in Products : product'[q].status = product[q].status
      <3>1. PICK a, i : product' = [product EXCEPT ![p].amount = a, ![p].image = i]
        BY <1>4 DEF UpdateProduct
      <3>2. QED
        BY <1>1, <3>1 DEF ProductRows
    <2>3. \A d \in Editors : editor'[d].stage = "link" => editor'[d] = editor[d]
      BY <1>1, <1>4 DEF UpdateProduct, Idle
    <2>4. QED
      BY <2>1, <2>2, <2>3
  <1>5. ASSUME NEW e \in Editors,
               \/ \E p \in Products : StartUpload(e, p)
               \/ (\E i \in Images : PutImage(e, i)) \/ EditorFails(e)
        PROVE  Announced /\ Linked /\ There /\ Asking /\ Bound
    <2>1. UNCHANGED <<product, link, linkEvents>>
      BY <1>5 DEF StartUpload, PutImage, EditorFails
    <2>2. \A d \in Editors : d # e => editor'[d] = editor[d]
      BY <1>1, <1>5 DEF StartUpload, PutImage, EditorFails
    <2>3. editor'[e].stage # "link"
      <3>1. editor[e] \in EditorRows
        BY <1>1
      <3>2. CASE \E i \in Images : PutImage(e, i)
        <4>1. PICK i \in Images : editor'[e] = [editor[e] EXCEPT !.stage = "image", !.image = {i}]
          BY <1>1, <3>2 DEF PutImage
        <4>2. QED
          BY <3>1, <4>1 DEF EditorRows
      <3>3. CASE EditorFails(e)
        <4>1. editor' = [editor EXCEPT ![e] = Idle]
          BY <3>3 DEF EditorFails
        <4>2. QED
          BY <1>1, <4>1, Blank
      <3>4. CASE \E p \in Products : StartUpload(e, p)
        <4>1. PICK p \in Products : editor' = [editor EXCEPT ![e] = [Idle EXCEPT !.stage = "upload", !.product = {p}]]
          BY <3>4 DEF StartUpload
        <4>2. QED
          BY <1>1, <4>1 DEF Idle
      <3>5. QED
        BY <1>5, <3>2, <3>3, <3>4
    <2>4. QED
      BY <2>1, <2>2, <2>3
  <1>6. ASSUME NEW e \in Editors, ShowImage(e)
        PROVE  Announced /\ Linked /\ There /\ Asking /\ Bound
    <2>1. UNCHANGED <<link, linkEvents>> /\ \A d \in Editors : editor'[d].stage = "link" => editor'[d] = editor[d]
      BY <1>1, <1>6 DEF ShowImage, Idle
    <2>2. \A p \in Products : \/ product'[p] = product[p]
                              \/ \E i : product'[p] = [product[p] EXCEPT !.image = i]
      BY <1>6 DEF ShowImage
    <2>3. \A p \in Products : product'[p].status = product[p].status
      BY <1>1, <2>2 DEF ProductRows
    <2>4. QED
      BY <2>1, <2>3
  <1>7. ASSUME NEW e \in Editors, NEW l \in Links, CreateDefaultLink(e, l)
        PROVE  Announced /\ Linked /\ There /\ Asking /\ Bound
    <2>1. /\ editor[e].stage = "link" /\ link[l] = NoLink /\ UNCHANGED <<product, linkEvents>>
          /\ \A k \in Links : k # l => link'[k] = link[k]
          /\ link'[l].product = editor[e].product /\ link'[l].terms = editor[e].terms
      BY <1>1, <1>7 DEF CreateDefaultLink
    <2>2. \A d \in Editors : editor'[d].stage = "link" => editor'[d] = editor[d]
      BY <1>1, <1>7 DEF CreateDefaultLink, EditorRows
    <2>3. ~Known(l)
      BY <2>1, Blank DEF Known
    <2>4. Made(l)
      BY <2>1
    <2> HIDE DEF Made
    <2>5. QED
      BY <2>1, <2>2, <2>3, <2>4
  <1>8. ASSUME NEW e \in Editors, CreateOptions(e) \/ UpdateTokens(e)
        PROVE  Announced /\ Linked /\ There /\ Asking /\ Bound
    <2>1. UNCHANGED <<product, linkEvents>> /\ \A d \in Editors : editor'[d].stage = "link" => editor'[d] = editor[d]
      BY <1>1, <1>8 DEF CreateOptions, UpdateTokens, Idle
    <2>2. \A k \in Links : \/ link'[k] = link[k] \/ link'[k] = [link[k] EXCEPT !.options = TRUE]
                           \/ link'[k] = [link[k] EXCEPT !.terms.tokens = editor[e].terms.tokens]
      BY <1>8 DEF CreateOptions, UpdateTokens
    <2>3. \A k \in Links : link'[k].product = link[k].product /\ Same(k)
      <3> SUFFICES ASSUME NEW k \in Links PROVE link'[k].product = link[k].product /\ Same(k)
        OBVIOUS
      <3>1. link[k] \in LinkRows /\ link[k].terms \in Terms
        BY <1>2
      <3>2. CASE link'[k] = [link[k] EXCEPT !.terms.tokens = editor[e].terms.tokens]
        BY <3>1, <3>2 DEF LinkRows, Terms
      <3>3. CASE link'[k] = [link[k] EXCEPT !.options = TRUE]
        BY <3>1, <3>3 DEF LinkRows
      <3>4. QED
        BY <2>2, <3>2, <3>3
    <2> HIDE DEF Same
    <2>4. QED
      BY <2>1, <2>3
  <1>9. ASSUME NEW p \in Products, DeleteProduct(p)
        PROVE  Announced /\ Linked /\ There /\ Asking /\ Bound
    <2>1. /\ UNCHANGED <<editor, linkEvents>>
          /\ \A k \in Links : link'[k] = [link[k] EXCEPT !.product = @ \ {p}]
      BY <1>9 DEF DeleteProduct
    <2>2. There
      BY <1>1, <1>9 DEF DeleteProduct, NoProduct
    <2>3. \A k \in Links : link'[k].product = link[k].product \ {p} /\ link'[k].terms = link[k].terms
      <3> SUFFICES ASSUME NEW k \in Links
                   PROVE  link'[k].product = link[k].product \ {p} /\ link'[k].terms = link[k].terms
        OBVIOUS
      <3>1. link[k] \in LinkRows
        BY <1>2
      <3>2. QED
        BY <2>1, <3>1 DEF LinkRows
    <2>4. QED
      BY <2>1, <2>2, <2>3
  <1>10. ASSUME NEW l \in Links, NEW P, NEW t, CreatePaymentLink(l, P, t)
         PROVE  Announced /\ Linked /\ There /\ Asking /\ Bound
    <2>1. /\ UNCHANGED <<product, editor>> /\ linkEvents'["created"] = linkEvents["created"] \cup {l}
          /\ ~Known(l) /\ \A k \in Links : k # l => link'[k] = link[k]
      BY <1>1, <1>10, Blank DEF CreatePaymentLink, Known
    <2>2. QED
      BY <2>1
  <1>11. ASSUME NEW l \in Links, NEW u, UpdatePaymentLink(l, u)
         PROVE  Announced /\ Linked /\ There /\ Asking /\ Bound
    <2>1. /\ UNCHANGED <<product, editor, linkEvents>> /\ \A k \in Links : k # l => link'[k] = link[k]
      BY <1>1, <1>11 DEF UpdatePaymentLink
    <2>2. link'[l].product = link[l].product /\ Same(l)
      <3>1. PICK m, a, T : link' = [link EXCEPT ![l].terms.mode = m, ![l].terms.amount = a, ![l].terms.tokens = T]
        BY <1>11 DEF UpdatePaymentLink
      <3>2. QED
        BY <1>1, <1>2, <3>1 DEF LinkRows, Terms
    <2> HIDE DEF Same, Made
    <2>3. \A k \in Links : k # l => Same(k)
      BY <2>1 DEF Same
    <2>4. QED
      BY <2>1, <2>2, <2>3
  <1>12. ASSUME NEW l \in Links, ArchivePaymentLink(l)
         PROVE  Announced /\ Linked /\ There /\ Asking /\ Bound
    <2>1. UNCHANGED <<product, editor>> /\ linkEvents'["created"] = linkEvents["created"]
      BY <1>1, <1>12 DEF ArchivePaymentLink
    <2>2. \A k \in Links : link'[k].product = link[k].product /\ link'[k].terms = link[k].terms
      BY <1>1, <1>2, <1>12 DEF ArchivePaymentLink, LinkRows
    <2>3. QED
      BY <2>1, <2>2
  <1>13. ASSUME TimeGoesOn PROVE Announced /\ Linked /\ There /\ Asking /\ Bound
    BY <1>13 DEF TimeGoesOn
  <1>14. Announced /\ Linked /\ There /\ Asking /\ Bound
    <2> HIDE DEF Announced, Linked, There, Asking, Bound
    <2>1. ASSUME NEW e \in Editors, NEW p \in Products,
                 \E amount \in ProductAmounts, tokens \in SUBSET Tokens :
                   \/ CreateProduct(e, p, amount, tokens)
                   \/ \E withTokens \in BOOLEAN : UpdateProduct(e, p, amount, tokens, withTokens)
          PROVE  Announced /\ Linked /\ There /\ Asking /\ Bound
      BY <1>3, <1>4, <2>1
    <2>2. ASSUME NEW l \in Links,
                 \/ \E P \in {{}} \cup {{p} : p \in Products}, t \in LinkTerms : CreatePaymentLink(l, P, t)
                 \/ \E u \in LinkUpdates : UpdatePaymentLink(l, u)
                 \/ ArchivePaymentLink(l)
          PROVE  Announced /\ Linked /\ There /\ Asking /\ Bound
      BY <1>10, <1>11, <1>12, <2>2
    <2>3. ASSUME NEW e \in Editors,
                 \/ \E p \in Products : StartUpload(e, p)
                 \/ (\E l \in Links : CreateDefaultLink(e, l)) \/ CreateOptions(e) \/ UpdateTokens(e)
                 \/ (\E i \in Images : PutImage(e, i)) \/ ShowImage(e) \/ EditorFails(e)
          PROVE  Announced /\ Linked /\ There /\ Asking /\ Bound
      BY <1>5, <1>6, <1>7, <1>8, <2>3
    <2>4. QED
      BY <1>9, <1>13, <2>1, <2>2, <2>3 DEF CatalogNext
  <1>15. QED
    BY <1>14

\* Every step of a customer is none of the services, or createSession's first.
LEMMA CustomerSteps ==
  ASSUME StorefrontInv, [StorefrontNext]_storefrontVars
  PROVE  [SessionsNext]_sessionsVars
  <1>1. ASSUME NEW b \in Buyers, NEW token, NEW offer, AskForSession(b, token, offer)
        PROVE  [SessionsNext]_sessionsVars
    <2>1. visitor.link \subseteq Links
      BY DEF StorefrontInv, VisitorOK, Visits
    <2>2. (\E l \in Links : LoadLink(b, l)) \/ UNCHANGED sessionsVars
      BY <1>1, <2>1 DEF AskForSession
    <2>3. QED
      BY <2>2 DEF SessionsNext
  <1>2. QED
    BY <1>1 DEF StorefrontNext, storefrontVars, HandleGetPublicProduct, HandleGetProductImage,
                HandleGetPublicPaymentLink, Meanwhile

\* Who changes an amount is remembered; what is not changed agrees.
LEMMA MeanwhileKeeps ==
  ASSUME StorefrontInv, Meanwhile
  PROVE  /\ EditedOK' /\ PricesOK'
         /\ edited.products \subseteq edited'.products /\ edited.links \subseteq edited'.links
         /\ linkEvents["created"] \subseteq linkEvents'["created"]
         /\ \A l \in Links : Known(l) => /\ link'[l].terms.adjust = link[l].terms.adjust
                                         /\ link'[l].terms.min = link[l].terms.min
                                         /\ link'[l].terms.max = link[l].terms.max
  <1>1. /\ product \in [Products -> ProductRows] /\ link \in [Links -> LinkRows]
        /\ editor \in [Editors -> EditorRows] /\ CatalogInv
    BY DEF StorefrontInv, SessionsInv, CatalogInv, RowsOK
  <1>2. /\ edited \in [products : SUBSET Products, links : SUBSET Links]
    BY DEF StorefrontInv, EditedOK
  <1>3. /\ edited'.products = edited.products \cup
                                {p \in Products : /\ product[p].status # "absent"
                                                  /\ product'[p].amount # product[p].amount}
        /\ edited'.links = edited.links \cup
                             {l \in Links : Known(l) /\ link'[l].terms.amount # link[l].terms.amount}
        /\ edited' = [products |-> edited'.products, links |-> edited'.links]
    BY DEF Meanwhile, NoteEdits
  <1>4. EditedOK'
    <2> DEFINE P == edited'.products
               L == edited'.links
    <2>1. P \in SUBSET Products /\ L \in SUBSET Links
      BY <1>2, <1>3
    <2>2. edited' = [products |-> P, links |-> L]
      BY <1>3
    <2> HIDE DEF P, L
    <2>3. QED
      BY <2>1, <2>2 DEF EditedOK
  <1>5. CASE CatalogNext
    <2>1. /\ linkEvents["created"] \subseteq linkEvents'["created"]
          /\ \A l \in Links :
               \/ link'[l].product \subseteq link[l].product
               \/ l \in linkEvents'["created"]
               \/ /\ UNCHANGED product
                  /\ \E e \in Editors : /\ editor[e].stage = "link" /\ link'[l].product = editor[e].product
                                        /\ link'[l].terms.amount = editor[e].terms.amount
          /\ \A p \in Products : product[p].status # "absent" => product'[p].status # "absent"
          /\ \A e \in Editors : editor'[e].stage = "link" =>
               \/ editor'[e] = editor[e]
               \/ \A p \in editor'[e].product : /\ product'[p].status # "absent"
                                                /\ editor'[e].terms.amount = product'[p].amount
          /\ \A l \in Links : Known(l) => /\ link'[l].terms.adjust = link[l].terms.adjust
                                          /\ link'[l].terms.min = link[l].terms.min
                                          /\ link'[l].terms.max = link[l].terms.max
      BY <1>1, <1>5, CatalogPrices
    <2>2. \A p \in Products \ edited'.products : /\ p \notin edited.products
                                                 /\ product[p].status # "absent" =>
                                                      product'[p].amount = product[p].amount
      BY <1>3
    <2>3. ASSUME NEW l \in Links, NEW p \in link'[l].product,
                 l \notin linkEvents'["created"] \cup edited'.links, p \notin edited'.products
          PROVE  link'[l].terms.amount = product'[p].amount
      <3>1. CASE link'[l].product \subseteq link[l].product
        <4>1. p \in link[l].product /\ p \in Stored
          BY <1>1, <2>3, <3>1 DEF CatalogInv, LinksOK
        <4>2. product'[p].amount = product[p].amount
          BY <2>2, <2>3, <4>1 DEF Stored
        <4>3. Known(l)
          BY <1>1, <4>1, Blank DEF CatalogInv, LinksOK
        <4>4. link'[l].terms.amount = link[l].terms.amount /\ l \notin edited.links
          BY <1>3, <2>3, <4>3
        <4>5. link[l].terms.amount = product[p].amount
          BY <2>1, <2>2, <2>3, <4>1, <4>4 DEF StorefrontInv, PricesOK, Stored
        <4>6. QED
          BY <4>2, <4>4, <4>5
      <3>2. CASE /\ UNCHANGED product
                 /\ \E e \in Editors : /\ editor[e].stage = "link" /\ link'[l].product = editor[e].product
                                       /\ link'[l].terms.amount = editor[e].terms.amount
        <4>1. PICK e \in Editors : /\ editor[e].stage = "link" /\ link'[l].product = editor[e].product
                                   /\ link'[l].terms.amount = editor[e].terms.amount
          BY <3>2
        <4>2. p \notin edited.products
          BY <1>3, <2>3
        <4>3. QED
          BY <2>3, <3>2, <4>1, <4>2 DEF StorefrontInv, PricesOK
      <3>3. QED
        BY <2>1, <2>3, <3>1, <3>2
    <2>4. ASSUME NEW e \in Editors, editor'[e].stage = "link", NEW p \in editor'[e].product
          PROVE  /\ product'[p].status # "absent"
                 /\ p \notin edited'.products => editor'[e].terms.amount = product'[p].amount
      <3>1. CASE editor'[e] = editor[e]
        <4>1. p \in Products /\ editor[e].stage = "link" /\ p \in editor[e].product
          BY <1>1, <2>4, <3>1 DEF EditorRows
        <4>2. /\ product[p].status # "absent"
              /\ p \notin edited.products => editor[e].terms.amount = product[p].amount
          BY <4>1 DEF StorefrontInv, PricesOK
        <4>3. QED
          BY <2>1, <2>2, <3>1, <4>1, <4>2
      <3>2. CASE editor'[e] # editor[e]
        BY <2>1, <2>4, <3>2
      <3>3. QED
        BY <3>1, <3>2
    <2>5. PricesOK'
      BY <2>3, <2>4 DEF PricesOK
    <2>6. edited.products \subseteq edited'.products /\ edited.links \subseteq edited'.links
      BY <1>3
    <2>7. QED
      BY <1>4, <2>1, <2>5, <2>6
  <1>6. CASE UNCHANGED <<product, link, editor, linkEvents>>
    <2>1. edited'.products = edited.products /\ edited'.links = edited.links
      BY <1>3, <1>6
    <2>2. PricesOK'
      BY <1>6, <2>1 DEF StorefrontInv, PricesOK
    <2>3. QED
      BY <1>4, <1>6, <2>1, <2>2
  <1>7. CatalogNext \/ UNCHANGED <<product, link, editor, linkEvents>>
    BY DEF Meanwhile, SessionsNext, sessionsVars, catalogVars, LoadLink, CheckReusable, CheckLimit, CheckPrice,
           Check, CommitSession, SessionFails, Pay, FallBack, Settle, Expire, Becomes, CancelCheckout,
           RecordCancel, CancelFails, RecordEvent, CountEvents, CountOutcomes
  <1>8. QED
    BY <1>5, <1>6, <1>7

\* A buyer is refused, or charged another price than a page with the link's
\* terms says, for an adjustment, a bound, or an amount that is not positive.
LEMMA PageTellsPrice ==
  ASSUME NEW t \in Terms, NEW page, page.mode = t.mode, page.amount = t.amount, page.tokens = t.tokens,
         NEW token \in TokensOf(page), NEW offer \in OffersOn(page)
  PROVE  /\ ~Sellable(t, token, offer) =>
              t.adjust # 0 \/ t.min \cup t.max # {} \/ PriceOn(page, {1}) = {}
         /\ Sellable(t, token, offer) /\ Price(t, offer) # PriceOn(page, offer) => t.adjust # 0
  <1>1. /\ t.mode \in {"fixed", "open"} /\ t.amount \subseteq Int /\ t.adjust \in Int
        /\ t.min \subseteq Int /\ t.max \subseteq Int
    BY DEF Terms
  <1>2. t.tokens = {} \/ token \in t.tokens
    BY DEF TokensOf
  <1>3. CASE t.mode = "fixed"
    <2>1. Price(t, offer) = {100 * a + t.adjust * a : a \in {x \in t.amount : x > 0}}
      BY <1>3 DEF Price
    <2>2. PriceOn(page, offer) = {100 * a : a \in {x \in t.amount : x > 0}}
      BY <1>3 DEF PriceOn
    <2>3. PriceOn(page, {1}) = {100 * a : a \in {x \in t.amount : x > 0}}
      BY <1>3 DEF PriceOn
    <2>4. t.adjust = 0 => \A a \in {x \in t.amount : x > 0} : 100 * a + t.adjust * a = 100 * a /\ 100 * a > 0
      BY <1>1
    <2>5. t.adjust = 0 => Price(t, offer) = PriceOn(page, offer)
      BY <2>1, <2>2, <2>4
    <2>6. t.adjust = 0 /\ PriceOn(page, {1}) # {} => \E price \in Price(t, offer) : price > 0
      BY <2>1, <2>3, <2>4
    <2>7. QED
      BY <1>2, <2>5, <2>6 DEF Sellable
  <1>4. CASE t.mode = "open"
    <2>1. PICK a \in UNION Amounts : a > 0 /\ offer = {a}
      BY <1>4 DEF OffersOn
    <2>2. a \in Int
      BY <2>1 DEF SessionsAssumption
    <2>3. PriceOn(page, offer) = {100 * a}
      BY <1>4, <2>1 DEF PriceOn
    <2>4. Price(t, offer) = {100 * x + t.adjust * x :
                               x \in {y \in {a} : /\ y > 0
                                                  /\ \A m \in t.min : m > 0 => y >= m
                                                  /\ \A m \in t.max : m > 0 => y <= m}}
      BY <1>4, <2>1 DEF Price
    <2>5. t.min \cup t.max = {} => Price(t, offer) = {100 * a + t.adjust * a}
      BY <2>1, <2>4
    <2>6. t.adjust = 0 => 100 * a + t.adjust * a = 100 * a /\ 100 * a > 0
      BY <1>1, <2>1, <2>2
    <2>7. Price(t, offer) \subseteq {100 * a + t.adjust * a}
      BY <2>4
    <2>8. t.adjust = 0 /\ t.min \cup t.max = {} => \E price \in Price(t, offer) : price > 0
      BY <2>5, <2>6
    <2>9. t.adjust = 0 /\ Price(t, offer) # {} => Price(t, offer) = PriceOn(page, offer)
      BY <2>3, <2>6, <2>7
    <2>10. QED
      BY <1>2, <2>8, <2>9 DEF Sellable
  <1>5. QED
    BY <1>1, <1>3, <1>4

\* At first nobody visits.
LEMMA InitStorefrontInv == SessionsInit /\ StorefrontInit => StorefrontInv
  <1> SUFFICES ASSUME SessionsInit, StorefrontInit PROVE StorefrontInv
    OBVIOUS
  <1>1. AnnouncedOK /\ EditedOK
    BY DEF SessionsInit, CatalogInit, StorefrontInit, AnnouncedOK, EditedOK
  <1>2. visitor = [stage |-> "away", product |-> {}, link |-> {},
                   page |-> [mode |-> "open", amount |-> {}, tokens |-> {}], image |-> {},
                   changed |-> FALSE, by |-> "nothing"]
    BY DEF StorefrontInit, NoVisitor, NoPage
  <1>3. visitor \in Visits
    BY <1>2 DEF Visits, Pages, Stages, Reasons
  <1>4. VisitorOK /\ PageOK /\ SurpriseCostsChange
    BY <1>2, <1>3 DEF VisitorOK, PageOK, SurpriseCostsChange
  <1>5. PricesOK
    BY Blank DEF SessionsInit, CatalogInit, PricesOK
  <1>6. QED
    BY <1>1, <1>4, <1>5, InitSessionsInv DEF StorefrontInv

\* A customer opens a page, or is surprised; the store and the catalog stay.
LEMMA CustomerKeeps ==
  ASSUME StorefrontInv, UNCHANGED <<product, link, objects, linkEvents, editor, now, edited>>,
         VisitorOK', PageOK', SurpriseCostsChange', SessionsInv'
  PROVE  StorefrontInv'
  <1>1. AnnouncedOK' /\ EditedOK' /\ PricesOK'
    BY DEF StorefrontInv, AnnouncedOK, Known, EditedOK, PricesOK
  <1>2. QED
    BY <1>1 DEF StorefrontInv

\* The page of a product shows what its newest link asks, if both were priced
\* together.
LEMMA ProductPageKeeps ==
  ASSUME StorefrontInv, NEW p \in Products, HandleGetPublicProduct(p)
  PROVE  VisitorOK' /\ PageOK' /\ SurpriseCostsChange'
  <1>1. /\ link \in [Links -> LinkRows] /\ objects \subseteq Images
        /\ product \in [Products -> ProductRows]
    BY DEF StorefrontInv, SessionsInv, CatalogInv, RowsOK
  <1>2. UNCHANGED <<link, objects, now, linkEvents, edited>>
    BY DEF HandleGetPublicProduct, sessionsVars, catalogVars
  <1>3. PICK L : /\ L = {} \/ \E l \in ActiveLinks(p) : L = {l}
                 /\ visitor' = [NoVisitor EXCEPT !.stage = "product", !.product = {p},
                                                 !.link = ProductRow(p, L).link,
                                                 !.page = [NoPage EXCEPT !.amount = ProductRow(p, L).amount,
                                                                         !.tokens = ProductRow(p, L).tokens],
                                                 !.image = ProductRow(p, L).image]
    BY DEF HandleGetPublicProduct, FetchPublicProduct
  <1> DEFINE T == UNION {link[l].terms.tokens : l \in L}
             A == product[p].amount
             I == product[p].image
             page == [mode |-> "open", amount |-> A, tokens |-> T]
  <1>4. visitor' = [stage |-> "product", product |-> {p}, link |-> L, page |-> page, image |-> I,
                    changed |-> FALSE, by |-> "nothing"]
    BY <1>3 DEF ProductRow, NoVisitor, NoPage
  <1>5. L = {} \/ \E l \in Links : /\ L = {l} /\ link[l].status = "active" /\ Offered(l)
                                   /\ link[l].product = {p}
    BY <1>3 DEF ActiveLinks, Offered
  <1>6. \A l \in Links : link[l].terms \in Terms /\ link[l].terms.tokens \subseteq Tokens
    BY <1>1 DEF LinkRows, Terms
  <1>7. T \in SUBSET Tokens /\ L \in SUBSET Links /\ A \in SUBSET Int
    BY <1>1, <1>5, <1>6 DEF ProductRows
  <1>8. I \subseteq objects /\ I \in SUBSET Images
    BY <1>1 DEF StorefrontInv, SessionsInv, CatalogInv, ImagesOK
  <1>9. \A l \in L : T = link[l].terms.tokens /\ (A = link[l].terms.amount \/ l \in linkEvents["created"] \cup edited.links
                                                 \/ p \in edited.products)
    BY <1>5 DEF StorefrontInv, PricesOK
  <1> HIDE DEF T, A, I
  <1>10. page \in Pages /\ page.tokens = T /\ page.amount = A
    BY <1>7 DEF Pages
  <1> HIDE DEF page
  <1>11. visitor' \in Visits
    BY <1>4, <1>7, <1>8, <1>10 DEF Visits, Stages, Reasons
  <1>12. /\ visitor'.stage = "product" /\ visitor'.product = {p} /\ visitor'.link = L /\ visitor'.page = page
         /\ visitor'.image = I /\ visitor'.by = "nothing"
    BY <1>4
  <1>13. VisitorOK'
    BY <1>2, <1>5, <1>8, <1>11, <1>12 DEF VisitorOK, Known
  <1>14. \A l \in L : Offered(l) /\ PricedApart(l)' = (l \in linkEvents["created"] \cup edited.links \/ p \in edited.products)
    BY <1>2, <1>5, <1>12 DEF PricedApart
  <1>15. \A l \in L : Offered(l)' /\ LinkPage(l)'.tokens = link[l].terms.tokens /\ LinkPage(l)'.amount = link[l].terms.amount
    BY <1>2, <1>14 DEF Offered, LinkPage
  <1>16. PageOK' /\ SurpriseCostsChange'
    BY <1>9, <1>10, <1>12, <1>14, <1>15 DEF PageOK, SurpriseCostsChange
  <1>17. QED
    BY <1>13, <1>16

\* The image of the page is fetched.
LEMMA ImageKeeps ==
  ASSUME StorefrontInv, HandleGetProductImage
  PROVE  VisitorOK' /\ PageOK' /\ SurpriseCostsChange'
  <1>1. /\ visitor.stage = "product" /\ visitor' = [visitor EXCEPT !.image = {}]
        /\ UNCHANGED <<link, objects, now, linkEvents, edited>>
    BY DEF StorefrontInv, HandleGetProductImage, VisitorOK, sessionsVars, catalogVars
  <1>2. visitor \in Visits /\ VisitorOK /\ PageOK
    BY DEF StorefrontInv, VisitorOK
  <1>3. /\ visitor' \in Visits /\ visitor'.stage = "product" /\ visitor'.product = visitor.product
        /\ visitor'.link = visitor.link /\ visitor'.page = visitor.page /\ visitor'.image = {}
        /\ visitor'.changed = visitor.changed /\ visitor'.by = visitor.by
    BY <1>1, <1>2 DEF Visits
  <1>4. \A l \in Links : /\ Offered(l)' <=> Offered(l)
                         /\ LinkPage(l)' = LinkPage(l) /\ (PricedApart(l)' <=> PricedApart(l))
    BY <1>1, <1>3 DEF Offered, LinkPage, PricedApart
  <1>5. visitor.link \subseteq Links
    BY <1>2 DEF Visits
  <1>6. VisitorOK'
    BY <1>1, <1>2, <1>3 DEF VisitorOK, Known
  <1>7. PageOK' /\ SurpriseCostsChange'
    BY <1>1, <1>2, <1>3, <1>4, <1>5 DEF PageOK, SurpriseCostsChange
  <1>8. QED
    BY <1>6, <1>7

\* A surprise that is accounted for.
LEMMA SurpriseKeeps ==
  ASSUME StorefrontInv, NEW by \in Reasons \ {"nothing"}, Surprise(by),
         UNCHANGED <<link, objects, linkEvents, edited>>,
         \/ visitor.changed
         \/ \E l \in visitor.link :
              \/ by = "amount" /\ PricedApart(l)
              \/ by \in {"price", "refused"} /\ link[l].terms.adjust # 0
              \/ by = "refused" /\ link[l].terms.min \cup link[l].terms.max # {}
              \/ by = "refused" /\ PriceOn(visitor.page, {1}) = {}
  PROVE  VisitorOK' /\ PageOK' /\ SurpriseCostsChange'
  <1>1. visitor \in Visits /\ VisitorOK
    BY DEF StorefrontInv, VisitorOK
  <1>2. /\ visitor' \in Visits /\ visitor'.stage = "surprised" /\ visitor'.by = by
        /\ visitor'.product = visitor.product /\ visitor'.link = visitor.link /\ visitor'.page = visitor.page
        /\ visitor'.image = visitor.image /\ visitor'.changed = visitor.changed
    <2>1. "surprised" \in Stages
      BY DEF Stages
    <2>2. visitor' = [visitor EXCEPT !.stage = "surprised", !.by = by]
      BY DEF Surprise
    <2>3. visitor' = [stage |-> "surprised", product |-> visitor.product, link |-> visitor.link,
                      page |-> visitor.page, image |-> visitor.image, changed |-> visitor.changed,
                      by |-> by]
      BY <1>1, <2>2 DEF Visits
    <2>4. /\ visitor.product \in SUBSET Products /\ visitor.link \in SUBSET Links
          /\ visitor.page \in Pages /\ visitor.image \in SUBSET Images
          /\ visitor.changed \in BOOLEAN /\ by \in Reasons
      BY <1>1 DEF Visits
    <2>5. QED
      BY <2>1, <2>3, <2>4 DEF Visits
  <1>3. VisitorOK' /\ PageOK'
    BY <1>1, <1>2 DEF VisitorOK, PageOK, Known
  <1>4. SurpriseCostsChange'
    BY <1>2 DEF SurpriseCostsChange, PricedApart, PriceOn
  <1>5. QED
    BY <1>3, <1>4

\* The page of a link shows what the page that named it did.
LEMMA LinkPageKeeps ==
  ASSUME StorefrontInv, NEW l \in Links, HandleGetPublicPaymentLink(l)
  PROVE  VisitorOK' /\ PageOK' /\ SurpriseCostsChange'
  <1>1. /\ link \in [Links -> LinkRows] /\ visitor \in Visits /\ VisitorOK
        /\ UNCHANGED <<link, objects, now, linkEvents, edited>>
    BY DEF StorefrontInv, SessionsInv, CatalogInv, RowsOK, VisitorOK, HandleGetPublicPaymentLink,
           sessionsVars, catalogVars
  <1> DEFINE known == visitor.stage = "product"
             shown == visitor.page
  <1>2. /\ known => l \in visitor.link
        /\ ~known => visitor.stage = "away" /\ Offered(l)
    BY DEF HandleGetPublicPaymentLink
  <1>3. \/ ~Offered(l) /\ Surprise("gone")
        \/ Offered(l) /\ known /\ shown.tokens # LinkPage(l).tokens /\ Surprise("tokens")
        \/ Offered(l) /\ known /\ shown.amount # LinkPage(l).amount /\ Surprise("amount")
        \/ Offered(l) /\ visitor' = [visitor EXCEPT !.stage = "link", !.link = {l}, !.page = LinkPage(l)]
    BY DEF HandleGetPublicPaymentLink
  <1>4. known /\ ~visitor.changed => /\ Offered(l) /\ shown.tokens = LinkPage(l).tokens
                                     /\ shown.amount = LinkPage(l).amount \/ PricedApart(l)
    BY <1>2 DEF StorefrontInv, PageOK
  <1>5. CASE ~Offered(l) /\ Surprise("gone")
    BY <1>1, <1>2, <1>4, <1>5, SurpriseKeeps DEF Reasons
  <1>6. CASE Offered(l) /\ known /\ shown.tokens # LinkPage(l).tokens /\ Surprise("tokens")
    BY <1>1, <1>4, <1>6, SurpriseKeeps DEF Reasons
  <1>7. CASE Offered(l) /\ known /\ shown.amount # LinkPage(l).amount /\ Surprise("amount")
    BY <1>1, <1>2, <1>4, <1>7, SurpriseKeeps DEF Reasons
  <1>8. CASE Offered(l) /\ visitor' = [visitor EXCEPT !.stage = "link", !.link = {l}, !.page = LinkPage(l)]
    <2>1. LinkPage(l) \in Pages
      BY <1>1 DEF LinkPage, Pages, LinkRows, Terms
    <2> DEFINE page == LinkPage(l)
    <2>2. visitor' = [visitor EXCEPT !.stage = "link", !.link = {l}, !.page = page]
      BY <1>8
    <2> HIDE DEF page
    <2>3. page \in Pages
      BY <2>1 DEF page
    <2>4. /\ visitor' \in Visits /\ visitor'.stage = "link" /\ visitor'.link = {l} /\ visitor'.page = page
          /\ visitor'.image = visitor.image /\ visitor'.by = visitor.by
      <3>1. visitor' = [stage |-> "link", product |-> visitor.product, link |-> {l}, page |-> page,
                        image |-> visitor.image, changed |-> visitor.changed, by |-> visitor.by]
        BY <1>1, <2>2 DEF Visits
      <3>2. /\ visitor.product \in SUBSET Products /\ visitor.image \in SUBSET Images
            /\ visitor.changed \in BOOLEAN /\ visitor.by \in Reasons /\ {l} \in SUBSET Links
            /\ "link" \in Stages
        BY <1>1 DEF Visits, Stages
      <3>3. QED
        BY <2>3, <3>1, <3>2 DEF Visits
    <2>5. Offered(l)' /\ LinkPage(l)' = page /\ Known(l)'
      BY <1>1, <1>8 DEF Offered, LinkPage, Known, page
    <2>6. VisitorOK'
      BY <1>1, <1>2, <2>4, <2>5 DEF VisitorOK
    <2>7. PageOK' /\ SurpriseCostsChange'
      BY <2>4, <2>5 DEF PageOK, SurpriseCostsChange
    <2>8. QED
      BY <2>6, <2>7
  <1>9. QED
    BY <1>3, <1>5, <1>6, <1>7, <1>8

\* A session costs what the page of its link said, or what it did not say.
LEMMA AskingKeeps ==
  ASSUME StorefrontInv, NEW b \in Buyers, NEW token, NEW offer, AskForSession(b, token, offer)
  PROVE  VisitorOK' /\ PageOK' /\ SurpriseCostsChange'
  <1>1. /\ link \in [Links -> LinkRows] /\ now \in Int /\ visitor \in Visits /\ VisitorOK
        /\ visitor.stage = "link" /\ token \in TokensOf(visitor.page) /\ offer \in OffersOn(visitor.page)
    BY DEF StorefrontInv, SessionsInv, CatalogInv, RowsOK, VisitorOK, AskForSession
  <1>2. PICK l \in visitor.link :
          \/ /\ LoadLink(b, l)
             /\ IF ~Sellable(link[l].terms, token, offer) THEN Surprise("refused")
                ELSE IF Price(link[l].terms, offer) # PriceOn(visitor.page, offer) THEN Surprise("price")
                ELSE visitor' = [visitor EXCEPT !.stage = "served"]
          \/ /\ link[l].status # "active" \/ Expired(l)
             /\ Surprise("gone")
             /\ UNCHANGED sessionsVars
    BY DEF AskForSession
  <1>3. UNCHANGED <<link, objects, now, linkEvents, edited>>
    BY <1>2 DEF AskForSession, LoadLink, sessionsVars, catalogVars
  <1>4. l \in Links /\ link[l].terms \in Terms
    BY <1>1, <1>2 DEF Visits, LinkRows
  <1>5. ~visitor.changed => Offered(l) /\ visitor.page = LinkPage(l)
    BY <1>1, <1>2 DEF StorefrontInv, PageOK
  <1>6. ~visitor.changed => /\ visitor.page.mode = link[l].terms.mode
                            /\ visitor.page.amount = link[l].terms.amount
                            /\ visitor.page.tokens = link[l].terms.tokens
    BY <1>5 DEF LinkPage
  <1> DEFINE t == link[l].terms
  <1>7. ~visitor.changed =>
          /\ ~Sellable(t, token, offer) =>
               t.adjust # 0 \/ t.min \cup t.max # {} \/ PriceOn(visitor.page, {1}) = {}
          /\ Sellable(t, token, offer) /\ Price(t, offer) # PriceOn(visitor.page, offer) => t.adjust # 0
    BY <1>1, <1>4, <1>6, PageTellsPrice
  <1>8. CASE ~Sellable(t, token, offer) /\ Surprise("refused")
    BY <1>2, <1>3, <1>7, <1>8, SurpriseKeeps DEF Reasons
  <1>9. CASE Sellable(t, token, offer) /\ Price(t, offer) # PriceOn(visitor.page, offer) /\ Surprise("price")
    BY <1>2, <1>3, <1>7, <1>9, SurpriseKeeps DEF Reasons
  <1>10. CASE visitor' = [visitor EXCEPT !.stage = "served"]
    <2>1. /\ visitor' \in Visits /\ visitor'.stage = "served" /\ visitor'.by = visitor.by
          /\ visitor'.product = visitor.product /\ visitor'.link = visitor.link
          /\ visitor'.page = visitor.page /\ visitor'.image = visitor.image
      BY <1>1, <1>10 DEF Visits, Stages
    <2>2. QED
      BY <1>1, <1>3, <2>1 DEF VisitorOK, PageOK, SurpriseCostsChange, Known
  <1>11. CASE (link[l].status # "active" \/ Expired(l)) /\ Surprise("gone")
    <2>1. \A x \in link[l].terms.expires : x \in Int
      BY <1>4 DEF Terms
    <2>2. ~Offered(l)
      BY <1>1, <1>11, <2>1 DEF Offered, Expired
    <2>3. QED
      BY <1>3, <1>5, <1>11, <2>2, SurpriseKeeps DEF Reasons
  <1>12. QED
    BY <1>2, <1>8, <1>9, <1>10, <1>11

\* What changes under an open page is noted, and what excused a surprise stays.
LEMMA ChangesKeep ==
  ASSUME StorefrontInv, Meanwhile, objects \subseteq objects', CatalogGrown
  PROVE  VisitorOK' /\ PageOK' /\ SurpriseCostsChange'
  <1>1. /\ visitor \in Visits /\ VisitorOK /\ visitor.link \subseteq Links
    BY DEF StorefrontInv, VisitorOK, Visits
  <1>2. \/ visitor' = [visitor EXCEPT !.changed = TRUE]
        \/ /\ visitor' = visitor
           /\ visitor.stage \in {"product", "link"} => UNCHANGED <<link, now>>
    BY DEF Meanwhile
  <1>3. /\ edited.products \subseteq edited'.products /\ edited.links \subseteq edited'.links
        /\ linkEvents["created"] \subseteq linkEvents'["created"]
        /\ \A l \in Links : Known(l) => /\ link'[l].terms.adjust = link[l].terms.adjust
                                        /\ link'[l].terms.min = link[l].terms.min
                                        /\ link'[l].terms.max = link[l].terms.max
    BY MeanwhileKeeps
  <1>4. /\ visitor' \in Visits /\ visitor'.stage = visitor.stage /\ visitor'.product = visitor.product
        /\ visitor'.link = visitor.link /\ visitor'.page = visitor.page /\ visitor'.image = visitor.image
        /\ visitor'.by = visitor.by /\ (visitor'.changed \/ visitor' = visitor)
    BY <1>1, <1>2 DEF Visits
  <1>5. VisitorOK'
    <2>1. \A l \in Links : Known(l) => Known(l)'
      BY DEF CatalogGrown
    <2>2. QED
      BY <1>1, <1>4, <2>1 DEF VisitorOK
  <1>6. \A l \in Links : PricedApart(l) => PricedApart(l)'
    BY <1>3, <1>4 DEF PricedApart
  <1>7. PageOK'
    <2>1. CASE visitor' = [visitor EXCEPT !.changed = TRUE]
      BY <1>1, <2>1 DEF Visits, PageOK
    <2>2. CASE visitor' = visitor /\ UNCHANGED <<link, now>>
      <3>1. \A l \in Links : (Offered(l)' <=> Offered(l)) /\ LinkPage(l)' = LinkPage(l)
        BY <2>2 DEF Offered, LinkPage
      <3>2. QED
        BY <1>1, <1>6, <2>2, <3>1 DEF StorefrontInv, PageOK
    <2>3. CASE visitor.stage \notin {"product", "link"}
      BY <1>4, <2>3 DEF PageOK
    <2>4. QED
      BY <1>2, <2>1, <2>2, <2>3
  <1>8. SurpriseCostsChange'
    <2> SUFFICES ASSUME visitor.stage = "surprised", ~visitor'.changed
                 PROVE  \E l \in visitor.link :
                          \/ visitor.by = "amount" /\ PricedApart(l)'
                          \/ visitor.by \in {"price", "refused"} /\ link'[l].terms.adjust # 0
                          \/ visitor.by = "refused" /\ link'[l].terms.min \cup link'[l].terms.max # {}
                          \/ visitor.by = "refused" /\ PriceOn(visitor.page, {1}) = {}
      BY <1>4 DEF SurpriseCostsChange, PriceOn
    <2>1. PICK l \in visitor.link :
            \/ visitor.by = "amount" /\ PricedApart(l)
            \/ visitor.by \in {"price", "refused"} /\ link[l].terms.adjust # 0
            \/ visitor.by = "refused" /\ link[l].terms.min \cup link[l].terms.max # {}
            \/ visitor.by = "refused" /\ PriceOn(visitor.page, {1}) = {}
      BY <1>4 DEF StorefrontInv, SurpriseCostsChange
    <2>2. l \in Links /\ Known(l)
      BY <1>1 DEF VisitorOK
    <2>3. QED
      BY <1>3, <1>6, <2>1, <2>2
  <1>9. QED
    BY <1>5, <1>7, <1>8

\* Every step keeps the invariant of the visits.
LEMMA NextStorefrontInv == StorefrontInv /\ [StorefrontNext]_storefrontVars => StorefrontInv'
  <1> SUFFICES ASSUME StorefrontInv, [StorefrontNext]_storefrontVars PROVE StorefrontInv'
    OBVIOUS
  <1>1. SessionsInv' /\ objects \subseteq objects' /\ AnnouncedOK' /\ CatalogGrown
    BY CustomerSteps, SessionsKeepPromises, NextSessionsInv DEF StorefrontInv
  <1>2. ASSUME VisitorOK', PageOK', SurpriseCostsChange',
               UNCHANGED <<product, link, objects, linkEvents, editor, now, edited>>
        PROVE  StorefrontInv'
    BY <1>1, <1>2, CustomerKeeps
  <1>3. ASSUME NEW p \in Products, HandleGetPublicProduct(p) PROVE StorefrontInv'
    BY <1>2, <1>3, ProductPageKeeps DEF HandleGetPublicProduct, sessionsVars, catalogVars
  <1>4. ASSUME HandleGetProductImage PROVE StorefrontInv'
    BY <1>2, <1>4, ImageKeeps DEF HandleGetProductImage, sessionsVars, catalogVars
  <1>5. ASSUME NEW l \in Links, HandleGetPublicPaymentLink(l) PROVE StorefrontInv'
    BY <1>2, <1>5, LinkPageKeeps DEF HandleGetPublicPaymentLink, sessionsVars, catalogVars
  <1>6. ASSUME NEW b \in Buyers, NEW token, NEW offer, AskForSession(b, token, offer) PROVE StorefrontInv'
    BY <1>2, <1>6, AskingKeeps DEF AskForSession, LoadLink, sessionsVars, catalogVars
  <1>7. ASSUME Meanwhile PROVE StorefrontInv'
    BY <1>1, <1>7, ChangesKeep, MeanwhileKeeps DEF StorefrontInv
  <1>8. CASE UNCHANGED storefrontVars
    <2>1. UNCHANGED <<product, link, objects, linkEvents, editor, now, edited, visitor>>
      BY <1>8 DEF storefrontVars, sessionsVars, catalogVars
    <2>2. VisitorOK' /\ PageOK'
      BY <2>1 DEF StorefrontInv, VisitorOK, PageOK, PricedApart, Offered, LinkPage, Known
    <2>3. SurpriseCostsChange'
      BY <2>1 DEF StorefrontInv, SurpriseCostsChange, PricedApart, PriceOn
    <2>4. QED
      BY <1>2, <2>1, <2>2, <2>3
  <1>9. CASE StorefrontNext
    BY <1>3, <1>4, <1>5, <1>6, <1>7, <1>9 DEF StorefrontNext
  <1>10. QED
    BY <1>8, <1>9

\* So it always holds.
LEMMA AlwaysStorefrontInv == StorefrontSpec => []StorefrontInv
  BY InitStorefrontInv, NextStorefrontInv, PTL DEF StorefrontSpec

\* A customer is on one page, of a link that exists.
THEOREM VisitsAreTyped == StorefrontSpec => []StorefrontTypeOK
  <1>1. ASSUME StorefrontInv PROVE StorefrontTypeOK
    <2>1. VisitorOK /\ visitor \in Visits /\ visitor.image \subseteq Images
      BY <1>1 DEF StorefrontInv, VisitorOK, Visits
    <2>2. Cardinality({}) = 0 /\ \A l : Cardinality({l}) = 1
      BY FS_EmptySet, FS_Singleton
    <2>3. visitor.link \subseteq {l \in Links : Known(l)} /\ Cardinality(visitor.link) <= 1
      <3>1. CASE visitor.link = {}
        BY <2>2, <3>1
      <3>2. CASE \E l \in Links : visitor.link = {l} /\ Known(l)
        <4>1. PICK l \in Links : visitor.link = {l} /\ Known(l)
          BY <3>2
        <4>2. Cardinality(visitor.link) = 1
          BY <2>2, <4>1, Zenon
        <4>3. QED
          BY <4>1, <4>2
      <3>3. QED
        BY <2>1, <3>1, <3>2 DEF VisitorOK
    <2>4. visitor.stage \in Stages /\ visitor.by \in Reasons
      BY <2>1 DEF Visits
    <2>5. edited.products \subseteq Products /\ edited.links \subseteq Links
      BY <1>1 DEF StorefrontInv, EditedOK
    <2>6. QED
      BY <2>1, <2>3, <2>4, <2>5 DEF StorefrontTypeOK, VisitorOK, Stages, Reasons
  <1>2. QED
    BY <1>1, AlwaysStorefrontInv, PTL

\* Whatever is edited while a customer goes from page to page: that a link is
\* gone, or other tokens, another amount, a refusal or another charge than was
\* shown, comes of an edit, of time, or of what no page shows.
THEOREM PagesAgree == StorefrontSpec => []SurpriseCostsChange
  <1>1. ASSUME StorefrontInv PROVE SurpriseCostsChange
    BY <1>1 DEF StorefrontInv
  <1>2. QED
    BY <1>1, AlwaysStorefrontInv, PTL

\* However uploads and deletions race with a customer's browser, the image of
\* his page can be fetched.
THEOREM ImagesOfPagesAreStored == StorefrontSpec => []ShownImageIsFetched
  <1>1. ASSUME StorefrontInv PROVE ShownImageIsFetched
    BY <1>1 DEF StorefrontInv, VisitorOK, ShownImageIsFetched
  <1>2. QED
    BY <1>1, AlwaysStorefrontInv, PTL

\* A merchant can read every link that was announced as created.
THEOREM AnnouncedLinksAreReadable == StorefrontSpec => []AnnouncedIsReadable
  <1>1. ASSUME StorefrontInv PROVE AnnouncedIsReadable
    BY <1>1 DEF StorefrontInv, AnnouncedOK, AnnouncedIsReadable, GetPaymentLink
  <1>2. QED
    BY <1>1, AlwaysStorefrontInv, PTL

\* Any editors and catalog: a page keeps what it promises, edits and hidden
\* terms apart.
THEOREM PagesAreHonored == StorefrontSpec => []PageIsHonored
  BY PagesAgree, ImagesOfPagesAreStored, AnnouncedLinksAreReadable, PTL DEF PageIsHonored
=============================================================================
