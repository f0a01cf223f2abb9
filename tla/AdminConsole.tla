---------------------------- MODULE AdminConsole ----------------------------
(***************************************************************************)
(* The admin pages (useAdminCatalog.ts, useAdminDashboardData.ts) at work   *)
(* on the catalog.  A page shows the listing and the categories as it read *)
(* them last; a click sends one call through the gateway to the catalog, and *)
(* when it is answered the handler reads again, shows what it read, and    *)
(* tells of its success.  Nothing keeps an admin from the next click        *)
(* meanwhile, and answers are shown in the order in which they come.       *)
(***************************************************************************)
EXTENDS Catalog

CONSTANTS
  Consoles,
  Handlers,  \* slots for the handlers under way
  MaxActs    \* clicks, and listings for orders

ASSUME AdminConsoleAssumption ==
  /\ Goods # {} /\ ListPrices # {}
  /\ \E s, t \in Slugs : s # t
  /\ MaxActs \in Nat

VARIABLES
  lists,     \* per console: products and categories
  editing,   \* per console: the entry in each kind of form, Null for a new one
  handlers,  \* per slot: a handler
  acts       \* number of clicks, and listings for orders, so far

consoleVars == <<lists, editing>>
adminVars == <<catalogVars, consoleVars, handlers, acts>>

Kinds == {"product", "variant", "price", "image", "category"}
NoForms == [kind \in Kinds |-> Null]
NoHandler == [phase |-> "free"]

Shown(l, categories) == [list |-> l, category |-> categories]

\* A seeded catalog, shown in every console: variants in it have no row in
\* inventory_items, products do.
Some(S) == CHOOSE x \in S : TRUE
Seeded(ids, id, row) == [x \in ids |-> IF x = id THEN row ELSE Null]

AdminInit ==
  /\ \E v \in Variants, r \in Prices, i \in Images, g, h \in Categories, sku \in Skus :
       /\ g # h
       /\ db = [product  |-> [p \in Goods |-> [note |-> Null]],
                variant  |-> Seeded(Variants, v,
                   [product |-> Some(Goods), sku |-> sku, active |-> TRUE]),
                price    |-> Seeded(Prices, r,
                   [variant |-> v, list |-> Some(ListPrices), sale |-> Null, starts |-> Null]),
                image    |-> Seeded(Images, i, [product |-> Some(Goods), variant |-> Null]),
                category |-> [Seeded(Categories, g, [slug |-> Some(Slugs), parent |-> h])
                   EXCEPT ![h] = [slug |-> Some(Slugs \ {Some(Slugs)}), parent |-> Null]],
                map      |-> Goods \X {g}]
       /\ lost = {v}
  /\ stock = Goods
  /\ topic = {}
  /\ pricing = Null
  /\ priced = Null
  /\ lists = [c \in Consoles |-> Shown(CHOOSE l \in Listings({db}) : TRUE, db.category)]
  /\ editing = [c \in Consoles |-> NoForms]
  /\ handlers = [k \in Handlers |-> NoHandler]
  /\ acts = 0

Act == acts < MaxActs /\ acts' = acts + 1

-----------------------------------------------------------------------------
(* Clicks.                                                                  *)

Ask(c, k, kind, op, id, row) ==
  /\ handlers[k].phase = "free"
  /\ Act
  /\ handlers' = [handlers EXCEPT ![k] =
       [phase |-> "sent", console |-> c, kind |-> kind, op |-> op, id |-> id, row |-> row]]
  /\ UNCHANGED <<catalogVars, consoleVars>>

\* The entry in the form is updated, or else an entry that is not listed is
\* created.
Save(c, k, kind, ids, listed, rows) ==
  \E row \in rows :
    \/ editing[c][kind] # Null /\ Ask(c, k, kind, "update", editing[c][kind], row)
    \/ editing[c][kind] = Null /\ \E id \in ids \ listed : Ask(c, k, kind, "create", id, row)

Delete(c, k, kind, listed) ==
  \E id \in listed : Ask(c, k, kind, "delete", id, Null)

\* An entry of the list is put into the form.
Edit(c, kind, listed) ==
  /\ Act
  /\ \E id \in listed : editing' = [editing EXCEPT ![c][kind] = id]
  /\ UNCHANGED <<catalogVars, lists, handlers>>

ListedProducts(c)   == Present(lists[c].list.product)
ListedVariants(c)   == Present(lists[c].list.variant)
ListedPrices(c)     == Present(lists[c].list.price)
ListedCategories(c) == Present(lists[c].category)

\* The page shows the images of a product, not those of its variants.
ListedImages(c) ==
  {i \in Present(lists[c].list.image) : lists[c].list.image[i].variant = Null}

HandleCreateProduct(c, k) == Save(c, k, "product", Goods, ListedProducts(c), ProductRows)
HandleDeleteProduct(c, k) == Delete(c, k, "product", ListedProducts(c))
HandleEditProduct(c)      == Edit(c, "product", ListedProducts(c))

HandleCreateOrUpdateVariant(c, k) ==
  Save(c, k, "variant", Variants, ListedVariants(c),
       {row \in VariantRows : row.product \in ListedProducts(c)})
HandleDeleteVariant(c, k) == Delete(c, k, "variant", ListedVariants(c))
HandleEditVariant(c)      == Edit(c, "variant", ListedVariants(c))

HandleCreateOrUpdatePrice(c, k) ==
  Save(c, k, "price", Prices, ListedPrices(c),
       {row \in PriceRows : row.variant \in ListedVariants(c)})
HandleDeletePrice(c, k) == Delete(c, k, "price", ListedPrices(c))
HandleEditPrice(c)      == Edit(c, "price", ListedPrices(c))

HandleCreateOrUpdateImage(c, k) ==
  Save(c, k, "image", Images, ListedImages(c),
       {row \in ImageRows : row.product \in ListedProducts(c)
                            /\ row.variant \in Opt(ListedVariants(c))})
HandleDeleteImage(c, k) == Delete(c, k, "image", ListedImages(c))
HandleEditImage(c)      == Edit(c, "image", ListedImages(c))

\* No parent is sent.
HandleCreateOrUpdateCategory(c, k) ==
  Save(c, k, "category", Categories, ListedCategories(c),
       {row \in CategoryRows : row.parent = Null})
HandleDeleteCategory(c, k) == Delete(c, k, "category", ListedCategories(c))
HandleEditCategory(c)      == Edit(c, "category", ListedCategories(c))

HandleAssignCategory(c, k) ==
  \E p \in ListedProducts(c), g \in ListedCategories(c) :
    Ask(c, k, "map", "create", <<p, g>>, Null)
HandleUnassignCategory(c, k) ==
  \E m \in lists[c].list.map : Ask(c, k, "map", "delete", m, Null)

HandleUpsertStock(c, k) ==
  \E x \in ListedProducts(c) \cup ListedVariants(c) : Ask(c, k, "stock", "create", x, Null)
HandleDeleteStockItem(c, k) ==
  \E x \in stock : Ask(c, k, "stock", "delete", x, Null)

-----------------------------------------------------------------------------
(* The services.                                                           *)

\* The statement of a call's route.
ServeProduct(q) ==
  \/ q.op = "create" /\ CreateProduct(q.id, q.row)
  \/ q.op = "update" /\ UpdateProduct(q.id, q.row)
  \/ q.op = "delete" /\ DeleteProduct(q.id)

ServeVariant(q) ==
  \/ q.op = "create" /\ CreateVariant(q.id, q.row)
  \/ q.op = "update" /\ UpdateVariant(q.id, q.row)
  \/ q.op = "delete" /\ DeleteVariant(q.id)

ServePrice(q) ==
  \/ q.op = "create" /\ CreatePrice(q.id, q.row)
  \/ q.op = "update" /\ UpdatePrice(q.id, q.row)
  \/ q.op = "delete" /\ DeletePrice(q.id)

ServeImage(q) ==
  \/ q.op = "create" /\ CreateImage(q.id, q.row)
  \/ q.op = "update" /\ UpdateImage(q.id, q.row)
  \/ q.op = "delete" /\ DeleteImage(q.id)

ServeCategory(q) ==
  \/ q.op = "create" /\ CreateCategory(q.id, q.row)
  \/ q.op = "update" /\ UpdateCategory(q.id, q.row)
  \/ q.op = "delete" /\ DeleteCategory(q.id)

ServeMap(q) ==
  \/ q.op = "create" /\ AssignCategoryToProduct(q.id[1], q.id[2])
  \/ q.op = "delete" /\ UnassignCategoryFromProduct(q.id[1], q.id[2])

Serve(k) ==
  LET q == handlers[k] IN
  /\ q.phase = "sent"
  /\ CASE q.kind = "product"  -> ServeProduct(q)
       [] q.kind = "variant"  -> ServeVariant(q)
       [] q.kind = "price"    -> ServePrice(q)
       [] q.kind = "image"    -> ServeImage(q)
       [] q.kind = "category" -> ServeCategory(q)
       [] q.kind = "map"      -> ServeMap(q)
       [] OTHER               -> FALSE
  /\ LET announced == q.op = "create" /\ q.kind \in {"product", "variant"}
         served == [phase |-> IF announced THEN "stored" ELSE "served", console |-> q.console,
                    kind |-> q.kind, op |-> q.op, id |-> q.id, row |-> q.row, after |-> db'] IN
     handlers' = [j \in Handlers |-> IF j = k THEN served
                ELSE IF handlers[j].phase = "reading" THEN [handlers[j] EXCEPT !.reading = Noted(@)]
                ELSE handlers[j]]
  /\ pricing' = IF pricing = Null THEN Null ELSE Noted(pricing)
  /\ UNCHANGED <<stock, topic, lost, priced, consoleVars, acts>>

\* The use case: the row is stored, then the event is sent.
CreateUseCase(k) ==
  /\ handlers[k].phase = "stored"
  /\ Publish(handlers[k].id)
  /\ handlers' = [handlers EXCEPT ![k].phase = "served"]
  /\ UNCHANGED <<consoleVars, acts>>

\* PUT and DELETE /inventory/stock.
ServeStock(k) ==
  LET q == handlers[k] IN
  /\ q.phase = "sent" /\ q.kind = "stock"
  /\ \/ q.op = "create" /\ stock' = stock \cup {q.id} /\ UNCHANGED lost
     \/ q.op = "delete" /\ stock' = stock \ {q.id} /\ lost' = lost \cup {q.id}
  /\ handlers' = [handlers EXCEPT ![k] = NoHandler]
  /\ UNCHANGED <<db, topic, pricing, priced, consoleVars, acts>>

-----------------------------------------------------------------------------
(* What a handler does when it is answered.                                *)

StartRefresh(k) ==
  LET q == handlers[k] IN
  /\ q.phase = "served"
  /\ handlers' = [handlers EXCEPT ![k] =
       [phase |-> "reading", console |-> q.console, kind |-> q.kind, op |-> q.op, id |-> q.id,
        row |-> q.row, after |-> q.after, reading |-> Reading(db)]]
  /\ UNCHANGED <<catalogVars, consoleVars, acts>>

\* The forms that a handler clears: a save its own; the deletion of a product
\* also that of the product.
Cleared(q) ==
  [editing EXCEPT ![q.console] =
     [kind \in Kinds |->
        IF kind = q.kind /\ (q.op # "delete" \/ (kind = "product" /\ @[kind] = q.id))
        THEN Null ELSE @[kind]]]

\* The answers to GET /products and GET /catalog/categories are shown: the
\* handlers of products read only the former.
Mutant_Refreshed(k) ==
  LET q == handlers[k] IN
  /\ q.phase = "reading"
  /\ \E l \in Listings(q.reading.seen) :
       lists' = [lists EXCEPT ![q.console] = Shown(l, @.category)]
  /\ editing' = Cleared(q)
  /\ handlers' = [handlers EXCEPT ![k] = NoHandler]
  /\ UNCHANGED <<catalogVars, acts>>
Refreshed(k) ==
  LET q == handlers[k] IN
  /\ q.phase = "reading"
  /\ \E l \in Listings(q.reading.seen), d \in q.reading.seen :
       lists' = [lists EXCEPT ![q.console] =
         Shown(l, IF q.kind = "product" THEN @.category ELSE d.category)]
  /\ editing' = Cleared(q)
  /\ handlers' = [handlers EXCEPT ![k] = NoHandler]
  /\ UNCHANGED <<catalogVars, acts>>

\* Or an error is: the call was refused, failed, or its answer was lost; or the
\* catalog stopped before it sent the event; or reading failed.
Rejected(k) ==
  LET q == handlers[k] IN
  /\ q.phase # "free"
  /\ lost' = IF q.phase = "stored" THEN lost \cup {q.id} ELSE lost
  /\ handlers' = [handlers EXCEPT ![k] = NoHandler]
  /\ UNCHANGED <<db, stock, topic, pricing, priced, consoleVars, acts>>

-----------------------------------------------------------------------------

Order == StartPricing /\ Act /\ UNCHANGED <<consoleVars, handlers>>

AdminNext ==
  \/ \E c \in Consoles, k \in Handlers :
       \/ HandleCreateProduct(c, k) \/ HandleDeleteProduct(c, k)
       \/ HandleCreateOrUpdateVariant(c, k) \/ HandleDeleteVariant(c, k)
       \/ HandleCreateOrUpdatePrice(c, k) \/ HandleDeletePrice(c, k)
       \/ HandleCreateOrUpdateImage(c, k) \/ HandleDeleteImage(c, k)
       \/ HandleCreateOrUpdateCategory(c, k) \/ HandleDeleteCategory(c, k)
       \/ HandleAssignCategory(c, k) \/ HandleUnassignCategory(c, k)
       \/ HandleUpsertStock(c, k) \/ HandleDeleteStockItem(c, k)
  \/ \E c \in Consoles :
       \/ HandleEditProduct(c) \/ HandleEditVariant(c) \/ HandleEditPrice(c)
       \/ HandleEditImage(c) \/ HandleEditCategory(c)
  \/ \E k \in Handlers :
       \/ Serve(k) \/ CreateUseCase(k) \/ ServeStock(k)
       \/ StartRefresh(k) \/ Refreshed(k) \/ Rejected(k)
  \/ Order
  \/ \E p \in Goods : CalculateOrderSubtotal(p) /\ UNCHANGED <<consoleVars, handlers, acts>>
  \/ \E x \in topic : HandleCreated(x) /\ UNCHANGED <<consoleVars, handlers, acts>>

AdminSpec == AdminInit /\ [][AdminNext]_adminVars

-----------------------------------------------------------------------------
(* Properties.                                                             *)

\* A product or variant has its row in inventory_items, or will have: the event
\* is on its way or about to be sent.  Unless the event was lost with its
\* sender (create-product.use-case.ts:24), or an admin deleted the row.
StockFollows ==
  \A x \in Present(db.product) \cup Present(db.variant) :
    \/ x \in stock \cup topic \cup lost
    \/ \E k \in Handlers : handlers[k].phase = "stored" /\ handlers[k].id = x

\* What an order of p costs by the unit if the tables are in state d: the sale
\* or list price that starts first, of the active variant with the first sku.
Costs(d, p) ==
  {a \in ListPrices \cup SalePrices \cup {0} :
     LET sold == {v \in Present(d.variant) : d.variant[v].product = p /\ d.variant[v].active}
         of(v) == {d.price[r] : r \in {s \in Present(d.price) : d.price[s].variant = v}}
         first(v) == \A w \in sold : d.variant[v].sku <= d.variant[w].sku IN
     \/ \E v \in sold : first(v) /\ \E x \in of(v) :
          /\ \A y \in of(v) : x.starts = Null \/ (y.starts # Null /\ x.starts <= y.starts)
          /\ a = IF x.sale = Null THEN x.list ELSE x.sale
     \/ a = 0 /\ \A v \in sold : first(v) => of(v) = {}}

\* An order is priced as the product was at some moment while it was priced,
\* although the five queries of the listing see five states; unless two
\* changes, or the deletion of a variant with its prices, fell in between.
PriceWasTrue ==
  priced # Null /\ ~priced.from.cut /\ Cardinality(priced.from.seen) <= 2 =>
    \E d \in priced.from.seen : priced.amount \in Costs(d, priced.product)

\* What the console lists of an entry is what was typed, if it has it at all;
\* fields left empty were kept.
AsTyped(row, typed) ==
  \A field \in DOMAIN typed \cap {"note", "sku", "list", "sale", "starts", "slug"} :
    typed[field] = Null \/ row[field] = typed[field]

Lists(s, q) ==
  CASE q.kind = "map"      -> (q.op = "create") = (q.id \in s.list.map)
    [] q.kind = "category" ->
         IF q.op = "delete" THEN s.category[q.id] = Null ELSE AsTyped(s.category[q.id], q.row)
    [] OTHER ->
         LET row == s.list[q.kind][q.id] IN
         IF q.op = "delete" THEN row = Null ELSE row = Null \/ AsTyped(row, q.row)

\* When a handler tells of its success the console lists what was saved, and
\* no longer what was deleted; unless another change came after it.
ReportedIsShown ==
  [][\A k \in Handlers :
       handlers[k].phase = "reading" /\ handlers[k].reading.seen = {handlers[k].after} /\ Refreshed(k) =>
         Lists(lists'[handlers[k].console], handlers[k])]_adminVars

\* A console can still do something about v: it lists it, has it in a form, has a
\* call about it under way, or waits for a listing that may have it.
InReach(c, v) ==
  \/ v \in ListedVariants(c) \/ editing[c]["variant"] = v
  \/ \E k \in Handlers :
       /\ handlers[k].phase # "free" /\ handlers[k].console = c
       /\ handlers[k].phase = "reading" \/ (handlers[k].id = v /\ handlers[k].op # "create")

\* An inactive variant that has left every console stays as it is, until its
\* product is deleted: it is in no list, and its id and sku are taken.
InactiveIsFinal ==
  [][\A v \in Present(db.variant) :
       ~db.variant[v].active /\ (\A c \in Consoles : ~InReach(c, v)) =>
         \/ db'.variant[v] = db.variant[v]
         \/ db'.product[db.variant[v].product] = Null]_adminVars

=============================================================================
