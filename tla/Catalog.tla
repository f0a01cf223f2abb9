------------------------------ MODULE Catalog ------------------------------
(***************************************************************************)
(* The catalog service: its tables and the statements of                   *)
(* PostgresProductRepository, the event that it sends for a new product or *)
(* variant, the inventory service's answer to it, and the listing of the   *)
(* products, from which the gateway prices an order.                       *)
(*                                                                         *)
(* A table is a function from ids to rows or Null.  Of a row there is      *)
(* what decides something: whom it refers to, the unique sku or slug, the  *)
(* status, the prices, and one field for all that may be left empty.       *)
(***************************************************************************)
EXTENDS Integers, FiniteSets

CONSTANTS
  Goods, Variants, Prices, Images, Categories,   \* ids (Goods: of products)
  Skus, Slugs, Notes, ListPrices, SalePrices, Starts,
  Null                                           \* SQL's NULL, and no row

VARIABLES
  db,       \* the tables of catalog_db
  stock,    \* products and variants with a row in inventory_items
  topic,    \* ids in catalog.product.created and catalog.variant.created
  lost,     \* history: ids whose event or whose stock row was lost or never was
  pricing,  \* the listing that an order is being priced from
  priced    \* the price that was found, and what was read for it

catalogVars == <<db, stock, topic, lost, pricing, priced>>

Opt(S) == S \cup {Null}

ProductRows  == [note : Opt(Notes)]
VariantRows  == [product : Goods, sku : Skus, active : BOOLEAN]
PriceRows    == [variant : Variants, list : ListPrices, sale : Opt(SalePrices), starts : Opt(Starts)]
ImageRows    == [product : Goods, variant : Opt(Variants)]
CategoryRows == [slug : Slugs, parent : Opt(Categories)]

ASSUME CatalogAssumption ==
  /\ Null \notin Goods \cup Variants \cup Notes \cup SalePrices \cup Starts
  /\ Null \notin ProductRows \cup VariantRows \cup PriceRows \cup ImageRows \cup CategoryRows
  /\ Starts \subseteq Nat

Present(table) == {x \in DOMAIN table : table[x] # Null}

-----------------------------------------------------------------------------
(* The statements.  Each is a guard, whose failure is an error, and what    *)
(* becomes of the tables.  An update keeps what it is given no value for.  *)

Keep(new, old) == IF new = Null THEN old ELSE new

FreeSku(sku, v) == \A w \in Present(db.variant) \ {v} : db.variant[w].sku # sku
FreeSlug(slug, g) == \A h \in Present(db.category) \ {g} : db.category[h].slug # slug

\* ON DELETE CASCADE: rows go with the row they refer to.
Cascade(d) ==
  LET vs == {v \in Present(d.variant) : d.product[d.variant[v].product] # Null} IN
  [product  |-> d.product,
   variant  |-> [v \in Variants |-> IF v \in vs THEN d.variant[v] ELSE Null],
   price    |-> [r \in Prices |->
      IF r \in Present(d.price) /\ d.price[r].variant \in vs THEN d.price[r] ELSE Null],
   image    |-> [i \in Images |->
      IF /\ i \in Present(d.image) /\ d.product[d.image[i].product] # Null
         /\ d.image[i].variant \in Opt(vs)
      THEN d.image[i] ELSE Null],
   category |-> d.category,
   map      |-> {m \in d.map : d.product[m[1]] # Null /\ d.category[m[2]] # Null}]

CreateProduct(id, row) ==
  /\ db.product[id] = Null
  /\ db' = [db EXCEPT !.product[id] = row]

UpdateProduct(id, row) ==
  /\ db.product[id] # Null
  /\ db' = [db EXCEPT !.product[id] = [note |-> Keep(row.note, @.note)]]

DeleteProduct(id) ==
  /\ db.product[id] # Null
  /\ db' = Cascade([db EXCEPT !.product[id] = Null])

Mutant_CreateVariant(id, row) ==
  /\ db.product[row.product] # Null
  /\ FreeSku(row.sku, id)
  /\ db' = [db EXCEPT !.variant[id] = row]
CreateVariant(id, row) ==
  /\ db.variant[id] = Null /\ db.product[row.product] # Null
  /\ FreeSku(row.sku, id)
  /\ db' = [db EXCEPT !.variant[id] = row]

UpdateVariant(id, row) ==
  /\ db.variant[id] # Null
  /\ FreeSku(row.sku, id)
  /\ db' = [db EXCEPT !.variant[id] =
       [product |-> @.product, sku |-> row.sku, active |-> row.active]]

DeleteVariant(id) ==
  /\ db.variant[id] # Null
  /\ db' = Cascade([db EXCEPT !.variant[id] = Null])

CreatePrice(id, row) ==
  /\ db.price[id] = Null /\ db.variant[row.variant] # Null
  /\ db' = [db EXCEPT !.price[id] = row]

UpdatePrice(id, row) ==
  /\ db.price[id] # Null
  /\ db' = [db EXCEPT !.price[id] =
       [variant |-> @.variant, list |-> row.list, sale |-> Keep(row.sale, @.sale),
        starts |-> Keep(row.starts, @.starts)]]

DeletePrice(id) ==
  /\ db.price[id] # Null
  /\ db' = [db EXCEPT !.price[id] = Null]

\* The variant need not be one of the product.
CreateImage(id, row) ==
  /\ db.image[id] = Null /\ db.product[row.product] # Null
  /\ row.variant \in Opt(Present(db.variant))
  /\ db' = [db EXCEPT !.image[id] = row]

UpdateImage(id, row) ==
  /\ db.image[id] # Null
  /\ row.variant \in Opt(Present(db.variant))
  /\ db' = [db EXCEPT !.image[id] =
       [product |-> @.product, variant |-> Keep(row.variant, @.variant)]]

DeleteImage(id) ==
  /\ db.image[id] # Null
  /\ db' = [db EXCEPT !.image[id] = Null]

CreateCategory(id, row) ==
  /\ db.category[id] = Null
  /\ FreeSlug(row.slug, id)
  /\ db' = [db EXCEPT !.category[id] = row]

UpdateCategory(id, row) ==
  /\ db.category[id] # Null
  /\ FreeSlug(row.slug, id)
  /\ db' = [db EXCEPT !.category[id] =
       [slug |-> row.slug, parent |-> Keep(row.parent, @.parent)]]

\* parent_id has no ON DELETE: a category with children stays.
DeleteCategory(id) ==
  /\ db.category[id] # Null
  /\ \A g \in Present(db.category) : db.category[g].parent # id
  /\ db' = Cascade([db EXCEPT !.category[id] = Null])

AssignCategoryToProduct(p, g) ==
  /\ db.product[p] # Null /\ db.category[g] # Null
  /\ db' = [db EXCEPT !.map = @ \cup {<<p, g>>}]

UnassignCategoryFromProduct(p, g) == db' = [db EXCEPT !.map = @ \ {<<p, g>>}]

-----------------------------------------------------------------------------
(* Reading.  A reader notes the states that the tables are in meanwhile.    *)

Reading(d) == [seen |-> {d}, cut |-> FALSE]

\* After a statement; cut: a variant with prices was deleted.
Noted(reading) ==
  [seen |-> reading.seen \cup {db'},
   cut  |-> reading.cut \/ \E r \in Present(db.price) :
              db.price[r].variant \notin Present(db'.variant)]

\* findAll: five queries at once on five connections, so that each table may be
\* found in another state; only active variants are asked for.
FindAll(products, map, variants, prices, images) ==
  LET ps == Present(products)
      vs == {v \in Present(variants) : variants[v].active /\ variants[v].product \in ps} IN
  [product |-> products,
   map     |-> {m \in map : m[1] \in ps},
   variant |-> [v \in Variants |-> IF v \in vs THEN variants[v] ELSE Null],
   price   |-> [r \in Prices |->
      IF r \in Present(prices) /\ prices[r].variant \in vs THEN prices[r] ELSE Null],
   image   |-> [i \in Images |->
      IF /\ i \in Present(images)
         /\ IF images[i].variant = Null THEN images[i].product \in ps
            ELSE images[i].variant \in vs
      THEN images[i] ELSE Null]]

Listings(seen) ==
  {FindAll(products, map, variants, prices, images) :
     products \in {d.product : d \in seen}, map \in {d.map : d \in seen},
     variants \in {d.variant : d \in seen}, prices \in {d.price : d \in seen},
     images \in {d.image : d \in seen}}

\* The rows that come first: variants by sku, prices by starts_at, NULLS FIRST,
\* equal ones in any order.
FirstVariants(l, p) ==
  LET vs == {v \in Present(l.variant) : l.variant[v].product = p} IN
  {v \in vs : \A w \in vs : l.variant[v].sku <= l.variant[w].sku}

FirstPrices(l, v) ==
  LET rs == {r \in Present(l.price) : l.price[r].variant = v} IN
  {r \in rs : \A s \in rs :
     l.price[r].starts = Null \/ (l.price[s].starts # Null /\ l.price[r].starts <= l.price[s].starts)}

\* calculateOrderSubtotal: the first price of the first variant, or 0.
Mutant_UnitPrices(l, p) ==
  LET vs == {v \in Present(l.variant) : l.variant[v].product = p}
      rs == UNION {FirstPrices(l, v) : v \in vs} IN
  IF rs = {} THEN {0} ELSE {Keep(l.price[r].sale, l.price[r].list) : r \in rs}
UnitPrices(l, p) ==
  LET rs == UNION {FirstPrices(l, v) : v \in FirstVariants(l, p)} IN
  IF rs = {} THEN {0} ELSE {Keep(l.price[r].sale, l.price[r].list) : r \in rs}

StartPricing ==
  /\ pricing = Null
  /\ pricing' = Reading(db)
  /\ priced' = Null
  /\ UNCHANGED <<db, stock, topic, lost>>

CalculateOrderSubtotal(p) ==
  /\ pricing # Null
  /\ \E l \in Listings(pricing.seen) : \E a \in UnitPrices(l, p) :
       priced' = [product |-> p, amount |-> a, from |-> pricing]
  /\ pricing' = Null
  /\ UNCHANGED <<db, stock, topic, lost>>

-----------------------------------------------------------------------------
(* The row in inventory_items that a new product or variant gets.           *)

Publish(id) ==
  /\ topic' = topic \cup {id}
  /\ UNCHANGED <<db, stock, lost, pricing, priced>>

\* handleCatalogProductCreated and handleCatalogVariantCreated: the row is
\* inserted if there is none; the event may come again.
Mutant_EnsureItem(id) == stock' = IF id \in Goods THEN stock \cup {id} ELSE stock
EnsureItem(id) == stock' = stock \cup {id}

HandleCreated(id) ==
  /\ id \in topic
  /\ EnsureItem(id)
  /\ topic' \in {topic, topic \ {id}}
  /\ UNCHANGED <<db, lost, pricing, priced>>

=============================================================================
