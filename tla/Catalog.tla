------------------------------- MODULE Catalog -------------------------------
(***************************************************************************)
(* Products, their variants and the listing fields a product keeps of      *)
(* them, as the shop and the administrator's product form change them.     *)
(* SupplierSync adds the suppliers' catalogues and the background jobs.    *)
(*                                                                         *)
(* Both storage backends are modelled.  On "sqlite" a handler's writes are *)
(* one transaction and an UPDATE writes the columns that changed; on "d1"  *)
(* every flush is a batch of its own and an UPDATE writes the whole row    *)
(* the session loaded (app/db/backends/d1_http_session.py).                *)
(*                                                                         *)
(* A row is named by its external key and a copy number: no constraint     *)
(* keeps a key from having two rows.  Prices, texts, slugs, images and     *)
(* categories are left out.                                                *)
(***************************************************************************)
EXTENDS Integers, FiniteSets, FiniteSetsExt

CONSTANTS Suppliers,     \* enabled supplier addons that support catalogue sync
          Own,           \* the product the administrator makes by hand
          KeysOf,        \* variant keys of each supplier's product and of Own
          CatalogStock,  \* stock a catalogue gives a new variant
          FormStocks,    \* stock levels the administrator types
          MaxStock,      \* bound on what cancelled orders raise a stock to
          FormStatuses,  \* product statuses the administrator picks
          Shops          \* the shops to consider

Goods  == Suppliers \cup {Own}
Copies == 1 .. 2
Keys   == UNION {KeysOf[g] : g \in Goods}
PRows  == Goods \X Copies
VRows  == Keys \X Copies

ASSUME CatalogAssumption ==
  /\ Own \notin Suppliers /\ IsFiniteSet(Suppliers)
  /\ DOMAIN KeysOf = Goods /\ \A g \in Goods : IsFiniteSet(KeysOf[g])
  /\ \A g, h \in Goods : g # h => KeysOf[g] \cap KeysOf[h] = {}
  /\ CatalogStock \in Nat
  /\ FormStocks \subseteq Nat
  /\ MaxStock \in Nat
  /\ FormStatuses \subseteq {"draft", "published", "archived"}
  /\ \A w \in Shops : w.backend \in {"sqlite", "d1"} /\ w.goods \cup w.edited \subseteq Goods

VARIABLES
  shop,      \* the shop considered; it never changes
  product,   \* Product rows
  variant,   \* ProductVariant rows
  taken,     \* units of each variant row held by orders
  ordered,   \* edited product rows named by OrderItem rows
  form       \* the product form an administrator has open

backend == shop.backend   \* settings.database_backend
goods   == shop.goods     \* enabled suppliers, and Own if one is made by hand
edited  == shop.edited    \* goods the administrator edits and deletes

catalogVars == <<shop, product, variant, taken, ordered, form>>

ProductRow == [status : {"none", "draft", "published", "archived"}, shown : Nat]
VariantRow == [status : {"none", "active", "archived"}, of : Copies, stock : Nat]
NoProduct  == [status |-> "none", shown |-> 0]
NoVariant  == [status |-> "none", of |-> 1, stock |-> 0]
NoForm     == [open |-> "none", row |-> <<Own, 1>>, stock |-> 0]

GoodOf(k)       == CHOOSE g \in Goods : k \in KeysOf[g]
VariantsOf(r, rows) == {v \in KeysOf[r[1]] \X Copies :
                           rows[v].status # "none" /\ rows[v].of = r[2]}

\* get_active_variants
ActiveVariants(r, rows) == {v \in VariantsOf(r, rows) : rows[v].status = "active"}

\* refresh_product_listing_cache: the stock a product shows.
ListingStock(r, rows) ==
  SumFunctionOnSet([v \in VRows |-> rows[v].stock], ActiveVariants(r, rows))

-----------------------------------------------------------------------------
(* Orders (app/services/commerce.py)                                       *)

\* Faulty form: the decrement does not ask for stock, only for an active variant.
ReserveUnchecked(v) ==
  LET r == <<GoodOf(v[1]), variant[v].of>>
  IN /\ product[r].status = "published"
     /\ variant[v].status = "active"
     /\ taken[v] < CatalogStock
     /\ variant' = [variant EXCEPT ![v].stock = @ - 1]
     /\ taken' = [taken EXCEPT ![v] = @ + 1]
     /\ UNCHANGED <<shop, product, ordered, form>>

\* ensure_variant_purchasable and atomic_decrement_variant_inventory for one
\* unit.  The listing is recomputed from the rows the session loaded before
\* the decrement; on D1 the product is not marked dirty and keeps its listing.
Reserve(v) ==
  LET r == <<GoodOf(v[1]), variant[v].of>>
  IN /\ product[r].status = "published"
     /\ variant[v].status = "active"
     /\ variant[v].stock > 0
     /\ taken[v] < CatalogStock          \* a bound, where stock was overwritten
     /\ variant' = [variant EXCEPT ![v].stock = @ - 1]
     /\ taken' = [taken EXCEPT ![v] = @ + 1]
     /\ ordered' = ordered \cup ({r} \cap (edited \X Copies))
     /\ product' = IF backend = "d1" THEN product
                   ELSE [product EXCEPT ![r].shown = ListingStock(r, variant)]
     /\ UNCHANGED <<shop, form>>

\* restore_variant_inventory for an order that is cancelled; the variant is
\* loaded after the update.
Release(v) ==
  LET r == <<GoodOf(v[1]), variant[v].of>>
  IN /\ taken[v] > 0
     /\ variant[v].stock < MaxStock
     /\ variant' = [variant EXCEPT ![v].stock = @ + 1]
     /\ taken' = [taken EXCEPT ![v] = @ - 1]
     /\ product' = IF backend = "d1" THEN product
                   ELSE [product EXCEPT ![r].shown = ListingStock(r, variant')]
     /\ UNCHANGED <<shop, ordered, form>>

-----------------------------------------------------------------------------
(* The product pages (app/admin/routes/products.py)                        *)

\* product_is_sync_imported
Synced(r) == r[1] \in Suppliers

\* admin_product_create with create_default_variant.  On D1 the product and
\* its variant are flushed one after the other, and the handler may die
\* between the two.
CreateProduct ==
  LET r == <<Own, 1>>
  IN /\ Own \in goods
     /\ product[r].status = "none"
     /\ \E stock \in FormStocks, status \in FormStatuses :
          \/ /\ product' = [product EXCEPT ![r] = [status |-> status, shown |-> stock]]
             /\ variant' = [v \in VRows |->
                              IF v \in KeysOf[Own] \X {1}
                              THEN [status |-> "active", of |-> 1, stock |-> stock]
                              ELSE variant[v]]
          \/ /\ backend = "d1"
             /\ product' = [product EXCEPT ![r] = [status |-> status, shown |-> stock]]
             /\ UNCHANGED variant
     /\ UNCHANGED <<shop, taken, ordered, form>>

\* admin_product_edit: the form carries the stock of the moment, or what the
\* administrator types over it.  (Own has one variant.)
OpenForm(r) ==
  /\ form = NoForm
  /\ ~Synced(r)
  /\ \E v \in VariantsOf(r, variant) : \E stock \in FormStocks \cup {variant[v].stock} :
       form' = [open |-> "edit", row |-> r, stock |-> stock]
  /\ UNCHANGED <<shop, product, variant, taken, ordered>>

\* The variants as the form has them: its stock, its choice of status.
AsTyped(r, choice) ==
  [v \in VRows |-> IF v \in VariantsOf(r, variant)
                   THEN [variant[v] EXCEPT !.stock = form.stock, !.status = choice]
                   ELSE variant[v]]

\* admin_product_update with _apply_manual_variant_updates: the variants become
\* what the form says, and the listing what they make.  On D1 db.add of a
\* loaded variant becomes an INSERT of an id that exists, and the batch fails.
SaveManual(status) ==
  LET r == form.row
  IN /\ form.open = "edit"
     /\ backend = "sqlite"
     /\ \E choice \in {"active", "archived"} : variant' = AsTyped(r, choice)
     /\ product' = [product EXCEPT ![r] = [status |-> status,
                                           shown |-> ListingStock(r, variant')]]
     /\ form' = NoForm
     /\ UNCHANGED <<shop, taken, ordered>>

\* admin_product_update of an imported product: of what the properties tell
\* apart only the status is taken from the form, so an open form needs no state.
SaveImported(r, status) ==
  /\ Synced(r) /\ r[1] \in edited
  /\ product[r].status # "none"
  /\ product' = [product EXCEPT ![r].status = status]
  /\ UNCHANGED <<shop, variant, taken, ordered, form>>

\* A form whose slug is taken is shown again with the values typed assigned to
\* the loaded product, which on SQLite the session's end commits.
RejectForm(r, status) ==
  /\ backend = "sqlite"
  /\ r[1] \in edited
  /\ product[r].status # "none"
  /\ \E stock \in FormStocks :
       product' = [product EXCEPT ![r] = [status |-> status, shown |-> stock]]
  /\ UNCHANGED <<shop, variant, taken, ordered, form>>

\* The page is left, the save fails, or the product is gone.
DropForm ==
  /\ form # NoForm
  /\ form' = NoForm
  /\ UNCHANGED <<shop, product, variant, taken, ordered>>

\* admin_product_delete up to the question whether an order names the product.
DeleteRead(r) ==
  /\ form = NoForm
  /\ r[1] \in edited
  /\ product[r].status # "none"
  /\ r \notin ordered
  /\ form' = [NoForm EXCEPT !.open = "delete", !.row = r]
  /\ UNCHANGED <<shop, product, variant, taken, ordered>>

\* admin_product_delete: variants go with the product, order lines forget it.
DeleteWrite ==
  LET r == form.row
  IN /\ form.open = "delete"
     /\ product' = [product EXCEPT ![r] = NoProduct]
     /\ variant' = [v \in VRows |-> IF v \in VariantsOf(r, variant) THEN NoVariant
                                    ELSE variant[v]]
     /\ taken' = [v \in VRows |-> IF v \in VariantsOf(r, variant) THEN 0 ELSE taken[v]]
     /\ ordered' = ordered \ {r}
     /\ form' = NoForm
     /\ UNCHANGED shop

CatalogInit ==
  /\ shop \in Shops
  /\ product = [r \in PRows |-> NoProduct]
  /\ variant = [v \in VRows |-> NoVariant]
  /\ taken = [v \in VRows |-> 0]
  /\ ordered = {}
  /\ form = NoForm

CatalogNext ==
  \/ \E v \in VRows : Reserve(v) \/ Release(v)
  \/ CreateProduct \/ DropForm \/ DeleteWrite
  \/ \E status \in FormStatuses : SaveManual(status)
  \/ \E r \in PRows : OpenForm(r) \/ DeleteRead(r)
  \/ \E r \in PRows, status \in FormStatuses : SaveImported(r, status) \/ RejectForm(r, status)

CatalogTypeOK ==
  /\ shop \in Shops
  /\ product \in [PRows -> ProductRow]
  /\ variant \in [VRows -> VariantRow]
  /\ taken \in [VRows -> 0 .. CatalogStock]
  /\ ordered \subseteq PRows
  /\ form \in [open : {"none", "edit", "delete"}, row : PRows, stock : Nat]
=============================================================================
