------------------------------ MODULE Listings ------------------------------
(***************************************************************************)
(* A merchant reads a list page by page while its rows change.  Payments,  *)
(* payment links and products are cut by LIMIT and OFFSET out of ORDER BY  *)
(* created_at DESC, each page by a query of its own; API keys come at      *)
(* once, and of a subscription's cycles only the newest.                   *)
(*                                                                         *)
(* created_at is the start of the inserting transaction, so that rows may  *)
(* become visible in another order than that of the list.  No two rows of  *)
(* a list have the same created_at.  Rows are numbered in its order.       *)
(***************************************************************************)
EXTENDS Integers, FiniteSets

CONSTANTS
  Lists,       \* the lists that are read
  MaxRows,     \* bound: rows of the list
  Limits,      \* limits a request may ask for, sensible or not
  Ceiling,     \* the largest limit a handler accepts (100, 200 for payments and cycles)
  DefaultLimit \* what stands in for another one (20, 50 for payments)

ASSUME ListingsAssumption ==
  /\ Lists \subseteq {"payments", "links", "products", "keys", "cycles"}
  /\ MaxRows \in Nat
  /\ Limits \subseteq Int
  /\ Ceiling \in Nat \ {0} /\ DefaultLimit \in 1..Ceiling

VARIABLES
  list,   \* the list of this behaviour
  row,    \* its rows: "unborn", "begun" (its transaction is open), "listed", "deleted"
  reader  \* the client that pages through it

listingVars == <<list, row, reader>>

Rows == 1..MaxRows
RowStage == {"unborn", "begun", "listed", "deleted"}

\* The client: not reading, asking for the page at offset, or at the end.
\* Counted while it reads: rows it was shown again, inserted and deleted.
NoReader == [stage |-> "idle", limit |-> 0, offset |-> 0, atStart |-> {}, seen |-> {},
             repeats |-> 0, inserted |-> 0, deleted |-> 0]

ListingInit ==
  /\ list \in Lists
  /\ row \in [Rows -> {"unborn", "listed"}]
  /\ \A x, y \in Rows : x < y /\ row[y] = "listed" => row[x] = "listed"
  /\ reader = NoReader

\* READ COMMITTED.
Listed == {x \in Rows : row[x] = "listed"}

\* A row changes under the reader.
During(field) == IF reader.stage = "reading" THEN [reader EXCEPT ![field] = @ + 1] ELSE reader

-----------------------------------------------------------------------------
(* The rows *)

\* A transaction that will insert the next row starts; the cycles of a
\* subscription are inserted one after the other, under its row's lock.
BeginInsert(x) ==
  /\ row[x] = "unborn" /\ \A y \in 1..(x - 1) : row[y] # "unborn"
  /\ list = "cycles" => \A y \in Rows : row[y] # "begun"
  /\ row' = [row EXCEPT ![x] = "begun"]
  /\ UNCHANGED <<list, reader>>

CommitInsert(x) ==
  /\ row[x] = "begun"
  /\ row' = [row EXCEPT ![x] = "listed"]
  /\ reader' = During("inserted")
  /\ UNCHANGED list

\* Only products are deleted; links are archived and keys revoked in place.
DeleteRow(x) ==
  /\ list = "products" /\ row[x] = "listed"
  /\ row' = [row EXCEPT ![x] = "deleted"]
  /\ reader' = During("deleted")
  /\ UNCHANGED list

-----------------------------------------------------------------------------
(* The handlers *)

\* A limit out of range falls back to the default, it is not cut to the
\* largest one.
Effective(limit) == IF limit \in 1..Ceiling THEN limit ELSE DefaultLimit

\* ORDER BY created_at DESC LIMIT limit OFFSET offset.
Page(offset, limit) ==
  {x \in Listed : Cardinality({y \in Listed : y > x}) \in offset..(offset + limit - 1)}

\* Seeded fault: the answer repeats the limit that was asked for.
Echoed(limit, offset) ==
  [rows |-> Page(offset, Effective(limit)), limit |-> limit, offset |-> offset]

\* The gateway checks the limit and lists the merchant's products itself.
HandleListProducts(limit, offset) ==
  [rows |-> Page(offset, Effective(limit)), limit |-> Effective(limit), offset |-> offset]

\* The payments of a merchant; their number comes with each row, so that a
\* page behind the last one says there are none.
HandleListPayments(limit, offset) ==
  LET page == Page(offset, Effective(limit))
  IN  [rows |-> page, limit |-> Effective(limit), offset |-> offset,
       total |-> IF page = {} THEN 0 ELSE Cardinality(Listed)]

\* paymentlink-service checks the limit too ...
ListPaymentLinks(limit, offset) == Page(offset, Effective(limit))

\* ... of a request that the gateway has checked before.
HandleListPaymentLinks(limit, offset) ==
  [rows |-> ListPaymentLinks(Effective(limit), offset), limit |-> Effective(limit),
   offset |-> offset]

\* All the keys, revoked ones too.
ListApiKeys == Listed
HandleListApiKeys(limit, offset) ==
  [rows |-> ListApiKeys, limit |-> Cardinality(ListApiKeys) + 1, offset |-> 0]

\* The newest cycles (ORDER BY cycle_index DESC LIMIT); there is no offset.
GetSubscriptionCycles(limit) == Page(0, Effective(limit))
HandleGetSubscriptionCycles(limit, offset) ==
  [rows |-> GetSubscriptionCycles(Effective(limit)), limit |-> Effective(limit), offset |-> 0]

Answer(limit, offset) ==
  CASE list = "products" -> HandleListProducts(limit, offset)
    [] list = "payments" -> HandleListPayments(limit, offset)
    [] list = "links" -> HandleListPaymentLinks(limit, offset)
    [] list = "keys" -> HandleListApiKeys(limit, offset)
    [] list = "cycles" -> HandleGetSubscriptionCycles(limit, offset)

-----------------------------------------------------------------------------
(* The client *)

StartReading ==
  /\ reader.stage = "idle"
  /\ \E limit \in Limits :
       reader' = [NoReader EXCEPT !.stage = "reading", !.limit = limit, !.atStart = Listed]
  /\ UNCHANGED <<list, row>>

\* It goes on by the limit it was told, until a page is not full.  Of keys
\* and cycles there is one page.
ReadPage ==
  /\ reader.stage = "reading"
  /\ LET answer == Answer(reader.limit, reader.offset)
         full == Cardinality(answer.rows) = answer.limit
     IN  reader' = [reader EXCEPT
           !.stage = IF full /\ list # "cycles" THEN "reading" ELSE "done",
           !.offset = @ + answer.limit,
           !.seen = @ \cup answer.rows,
           !.repeats = @ + Cardinality(answer.rows \cap reader.seen)]
  /\ UNCHANGED <<list, row>>

ListingNext ==
  \/ \E x \in Rows : BeginInsert(x) \/ CommitInsert(x) \/ DeleteRow(x)
  \/ StartReading
  \/ ReadPage

ListingSpec == ListingInit /\ [][ListingNext]_listingVars

-----------------------------------------------------------------------------
(* Properties *)

\* ListingTypeOK: rows begin in the order of the list, and a reader has seen
\* only rows that were inserted.
ListingTypeOK ==
  /\ list \in Lists
  /\ row \in [Rows -> RowStage]
  /\ \A x, y \in Rows : x < y /\ row[x] = "unborn" => row[y] = "unborn"
  /\ reader.stage \in {"idle", "reading", "done"} /\ reader.limit \in Limits \cup {0}
  /\ {reader.offset, reader.repeats, reader.inserted, reader.deleted} \subseteq Nat
  /\ reader.atStart \cup reader.seen \subseteq {x \in Rows : row[x] \in {"listed", "deleted"}}

\* Rows that were there when the reader began, still are, and were passed
\* over: something older was shown, or the last page.  Cycles are never
\* read to the end.
Missed ==
  {x \in (reader.atStart \cap Listed) \ reader.seen :
     \/ \E y \in reader.seen : y < x
     \/ reader.stage = "done" /\ list # "cycles"}

\* Whatever is inserted while a merchant pages through a list, and whatever
\* limit he asks for, he misses no row of it but one for each that was
\* deleted meanwhile: payments, links and keys, and the newest cycles, are
\* listed without gaps.
MissedCostDeletions == Cardinality(Missed) <= reader.deleted

\* A row is shown twice only for one that was inserted meanwhile.
RepeatsCostInserts == reader.repeats <= reader.inserted

\* Page after page, a reader sees every row once, changes meanwhile apart.
ListIsReadOnce == MissedCostDeletions /\ RepeatsCostInserts
=============================================================================
