------------------------ MODULE SupplierSync_proofs ------------------------
(***************************************************************************)
(* Proofs about the products, the imports of the suppliers' catalogues and *)
(* the background jobs, for any suppliers, catalogues, workers and jobs.   *)
(***************************************************************************)
EXTENDS SupplierSync, FiniteSums, TLAPS

(* The invariants *)

\* The requests, as TypeOK has them and in full.
Request ==
  [at : Stages, job : Jobs \cup {0}, row : JobRow, sup : Suppliers \cup {None}, opts : Options,
   feed : SUBSET Keys, copy : Copies \cup {0}, was : {"none", "draft", "published", "archived"},
   known : SUBSET VRows, held : [VRows -> Nat], outcome : Outcomes]

Types ==
  /\ TypeOK
  /\ req \in [shop.workers -> Request]

Importing(q) == q.at \in {"upsert", "write"}

\* What a request in each stage has in hand.
StageOK(q) ==
  /\ q.at \in {"start", "tick", "record"} => Syncable # {}
  /\ q.at \in {"tick", "record"} => q.job # 0
  /\ q.at \in {"find", "upsert", "write", "record"} => q.sup \in Syncable
  /\ q.at = "tick" => \/ q.sup \in Syncable /\ q.row.results[q.sup] = "none"
                      \/ q.sup = None /\ PendingIds(q.row.results) = {}
  /\ q.at \in {"find", "upsert", "write", "record"} /\ q.job # 0 => q.row.results[q.sup] = "none"
  /\ q.at = "record" => q.outcome # "none"
  /\ Importing(q) => q.feed \subseteq KeysOf[q.sup] /\ q.was # "none"
  /\ q.at = "write" => backend = "d1" /\ (q.feed # {} => q.copy # 0)

StageInv == \A p \in Workers : StageOK(req[p])

\* The suppliers a job row has a result of.
Tried(row) == {s \in Suppliers : row.results[s] # "none"}

\* A job row, stored or loaded, counts no more than it has results, and has results of
\* suppliers only that a tick has finished.  On SQLite it never has any.
RowOK(row, finished) ==
  /\ Tried(row) \subseteq finished /\ row.done <= Cardinality(Tried(row))
  /\ backend = "sqlite" => Tried(row) = {}

\* A job that is there has suppliers to take, and one that has ended has taken them all.
JobOK(row, finished) ==
  /\ finished \subseteq Syncable /\ RowOK(row, finished)
  /\ row.status # "none" => Syncable # {}
  /\ row.status \in {"completed", "failed"} => finished = Syncable

JobInv ==
  /\ \A j \in Jobs : JobOK(job[j], attempted[j])
  /\ \A p \in Workers : req[p].at # "idle" /\ req[p].job # 0 => RowOK(req[p].row, attempted[req[p].job])

\* A variant's row goes with its product's, and orders hold units of rows that are there.
\* A product form is open for a product no supplier has.
RowsInv ==
  /\ \A v \in VRows : /\ variant[v].status = "none" => taken[v] = 0
                      /\ variant[v].status # "none" =>
                           product[<<GoodOf(v[1]), variant[v].of>>].status # "none"
  /\ form.open = "edit" => ~Synced(form.row)

\* A supplier has one product row, and each of its keys one variant row.
SoleGood(s) == /\ \A c, d \in ProductsWithKey(s) : c = d
               /\ \A k \in KeysOf[s] : \A v, w \in VariantsWithKey(k) : v = w
SoleOwn     == \A k \in KeysOf[Own] : variant[<<k, 2>>].status = "none"

\* The keys that have a row among rows.
KeysAmong(rows) == {v[1] : v \in rows}

\* What the import q did not find is still not there.
Unmade(q) ==
  /\ q.feed # {} /\ q.copy = 0 => ProductsWithKey(q.sup) = {}
  /\ q.at = "write" => \A k \in q.feed \ KeysAmong(q.known) : VariantsWithKey(k) = {}

\* While no two imports of one supplier have overlapped, an import under way is the only
\* one of its supplier.
SoleInv ==
  ~overlapped =>
    /\ SoleOwn /\ \A s \in Suppliers : SoleGood(s)
    /\ \A p \in Workers : Importing(req[p]) =>
         /\ Unmade(req[p])
         /\ \A q \in Workers \ {p} : Importing(req[q]) => req[q].sup # req[p].sup

-----------------------------------------------------------------------------
(* Keys, rows and least numbers *)

LEMMA KeyOwner ==
  /\ \A g \in Goods : \A k \in KeysOf[g] : GoodOf(k) = g /\ k \in Keys
  /\ \A k \in Keys : GoodOf(k) \in Goods /\ k \in KeysOf[GoodOf(k)]
BY CatalogAssumption DEF GoodOf, Keys

LEMMA RowParts ==
  /\ \A v \in VRows : v[1] \in Keys /\ v[2] \in Copies /\ v = <<v[1], v[2]>>
  /\ \A k \in Keys, i \in Copies : <<k, i>> \in VRows
  /\ \A r \in PRows : r[1] \in Goods /\ r[2] \in Copies /\ r = <<r[1], r[2]>>
  /\ \A g \in Goods, i \in Copies : <<g, i>> \in PRows
  /\ Copies = {1, 2}
BY DEF VRows, PRows, Copies

LEMMA MinIn ==
  ASSUME NEW S, S \subseteq Nat, S # {}
  PROVE  Min(S) \in S /\ \A n \in S : Min(S) <= n
BY LeastNumber DEF Min

LEMMA CopyType ==
  ASSUME NEW q \in Request, Types
  PROVE  CopyOf(q) \in Copies
<1>1. FreeCopies(q.sup) \cup {2} \subseteq Copies
  BY RowParts DEF FreeCopies
<1>2. Min(FreeCopies(q.sup) \cup {2}) \in Copies
  BY <1>1, RowParts, MinIn
<1> QED
  BY <1>2, RowParts DEF CopyOf, Request

-----------------------------------------------------------------------------
(* What an import does *)

\* The keys of the variants the import knows a row of.
KnownKeys(q) == KeysAmong(Known(q))

\* A row the catalogue lists is revived, or made with the stock of the catalogue; on
\* SQLite a row that was there keeps its stock.
LEMMA UpsertedRow ==
  ASSUME Types, NEW q \in Request, NEW keys \in SUBSET q.feed, NEW copy \in Copies, NEW v \in VRows,
         NEW rows, rows = Upserted(q, keys, copy)
  PROVE  /\ rows[v] \in VariantRow
         /\ v[1] \notin keys => rows[v] = variant[v]
         /\ variant[v].status # "none" =>
              /\ rows[v].status \in {"active", variant[v].status} /\ rows[v].of = variant[v].of
              /\ backend = "sqlite" => rows[v].stock = variant[v].stock
         /\ variant[v].status = "none" /\ rows[v] # variant[v] =>
              /\ rows[v] = [status |-> "active", of |-> copy, stock |-> CatalogStock]
              /\ v[1] \in keys \ KnownKeys(q) /\ v[2] = Min(FreeRows(v[1]) \cup {3})
<1> DEFINE known == Known(q)
           new   == NewRows(keys, known)
<1>1. rows[v] = IF v \in new THEN [status |-> "active", of |-> copy, stock |-> CatalogStock]
                ELSE IF v \in known /\ v[1] \in keys /\ variant[v].status # "none"
                THEN [variant[v] EXCEPT !.status = "active",
                                        !.stock = IF backend = "d1" THEN q.held[v] ELSE @]
                ELSE variant[v]
  BY DEF Upserted
<1>2. variant[v] \in VariantRow /\ q.held[v] \in Nat /\ CatalogStock \in Nat
  BY CatalogAssumption DEF Types, TypeOK, CatalogTypeOK, Request
<1>3. v \in new => /\ v[1] \in keys \ {w[1] : w \in known} /\ v[2] = Min(FreeRows(v[1]) \cup {3})
                   /\ variant[v].status = "none"
  <2>1. ASSUME v \in new
        PROVE  v[1] \in keys \ {w[1] : w \in known} /\ v[2] = Min(FreeRows(v[1]) \cup {3})
    <3> DEFINE unknown == keys \ {w[1] : w \in known}
    <3>1. new = {<<k, Min(FreeRows(k) \cup {3})>> : k \in unknown}
      BY DEF NewRows
    <3> HIDE DEF unknown, new
    <3>2. PICK k \in unknown : v = <<k, Min(FreeRows(k) \cup {3})>>
      BY <2>1, <3>1
    <3>3. v[1] = k /\ v[2] = Min(FreeRows(k) \cup {3})
      BY <3>2
    <3>4. v[1] \in unknown /\ v[2] = Min(FreeRows(v[1]) \cup {3})
      BY <3>3
    <3> QED
      BY <3>4 DEF unknown
  <2>2. FreeRows(v[1]) \cup {3} \subseteq Nat
    BY DEF FreeRows, Copies
  <2>3. ASSUME v \in new PROVE v[2] \in FreeRows(v[1])
    BY <2>1, <2>2, <2>3, MinIn, RowParts
  <2>4. v = <<v[1], v[2]>>
    BY RowParts
  <2>5. v[2] \in FreeRows(v[1]) => variant[v].status = "none"
    BY <2>4 DEF FreeRows
  <2> QED
    BY <2>1, <2>3, <2>5
<1> HIDE DEF known, new
<1>4. CASE v \in new
  <2>1. [status |-> "active", of |-> copy, stock |-> CatalogStock] \in VariantRow
    BY <1>2 DEF VariantRow
  <2> QED
    BY <1>1, <1>3, <1>4, <2>1 DEF known, KnownKeys, KeysAmong
<1>5. CASE v \notin new /\ v \in known /\ v[1] \in keys /\ variant[v].status # "none"
  <2> DEFINE x == [variant[v] EXCEPT !.status = "active", !.stock = IF backend = "d1" THEN q.held[v] ELSE @]
  <2>1. /\ x \in VariantRow /\ x.status = "active" /\ x.of = variant[v].of
        /\ backend = "sqlite" => x.stock = variant[v].stock
    BY <1>2 DEF VariantRow
  <2>2. rows[v] = x
    BY <1>1, <1>5
  <2> HIDE DEF x
  <2> QED
    BY <1>5, <2>1, <2>2
<1>6. CASE v \notin new /\ ~(v \in known /\ v[1] \in keys /\ variant[v].status # "none")
  <2>1. rows[v] = variant[v]
    BY <1>1, <1>6
  <2> QED
    BY <1>2, <2>1 DEF VariantRow
<1> QED
  BY <1>4, <1>5, <1>6

\* What an import of q's supplier may change, for the product's copy.
Imported(q, copy) ==
  /\ variant' \in [VRows -> VariantRow] /\ product' \in [PRows -> ProductRow]
  /\ \A v \in VRows :
       /\ v[1] \notin KeysOf[q.sup] => variant'[v] = variant[v]
       /\ variant[v].status # "none" =>
            /\ variant'[v].status # "none" /\ variant'[v].of = variant[v].of
            /\ backend = "sqlite" => variant'[v].stock = variant[v].stock
       /\ variant[v].status = "none" /\ variant'[v].status # "none" =>
            /\ variant'[v].of = copy /\ variant'[v].stock = CatalogStock
            /\ v[1] \in q.feed \ KnownKeys(q) /\ v[2] = Min(FreeRows(v[1]) \cup {3})
  /\ \A r \in PRows :
       /\ product[r].status # "none" => product'[r].status # "none"
       /\ product[r].status = "none" /\ product'[r].status # "none" =>
            q.feed # {} /\ q.copy = 0 /\ r = <<q.sup, copy>>
  /\ q.feed # {} => product'[<<q.sup, copy>>].status # "none"

\* A request that may import, as SyncWrite and TickImport hand it over.
Ready(q) ==
  /\ q \in Request /\ q.sup \in Suppliers /\ q.feed \subseteq KeysOf[q.sup] /\ q.was # "none"
  /\ backend = "d1" /\ q.feed # {} => q.copy # 0

\* The stock a product shows is a number.
LEMMA ListingType ==
  ASSUME NEW r \in PRows, NEW rows, \A v \in VRows : rows[v].stock \in Nat
  PROVE  ListingStock(r, rows) \in Nat
<1> DEFINE f == [v \in VRows |-> rows[v].stock]
           A == ActiveVariants(r, rows)
<1>1. A \subseteq KeysOf[r[1]] \X Copies /\ A \subseteq VRows
  BY KeyOwner, RowParts DEF ActiveVariants, VariantsOf, VRows
<1>2. IsFiniteSet(KeysOf[r[1]] \X Copies)
  <2>1. IsFiniteSet(Copies)
    <3>1. IsFiniteSet({1} \cup {2})
      BY FS_Singleton, FS_AddElement
    <3> QED
      BY <3>1, RowParts
  <2> QED
    BY <2>1, CatalogAssumption, RowParts, FS_Product
<1>3. IsFiniteSet(A)
  BY <1>1, <1>2, FS_Subset
<1>4. \A v \in A : f[v] \in Nat
  BY <1>1
<1> HIDE DEF f, A
<1>5. SumFunctionOnSet(f, A) \in Nat
  BY <1>3, <1>4, SumType
<1> QED
  BY <1>5 DEF ListingStock, f, A

LEMMA RevivedType ==
  ASSUME Types, NEW r \in PRows, NEW q, Ready(q)
  PROVE  Revived(r, q) \in {"draft", "published", "archived"}
<1>1. q.opts.as \in {"draft", "published"} /\ q.was \in {"draft", "published", "archived"}
  BY SyncAssumption DEF Ready, Request
<1>2. product[r].status \in {"none", "draft", "published", "archived"}
  BY DEF Types, TypeOK, CatalogTypeOK, ProductRow
<1> QED
  BY <1>1, <1>2 DEF Revived

LEMMA AllImported ==
  ASSUME Types, RowsInv, NEW q, Ready(q), ImportAll(q)
  PROVE  Imported(q, CopyOf(q))
<1> DEFINE copy == CopyOf(q)
<1>1. copy \in Copies /\ q \in Request /\ q.feed \in SUBSET q.feed
  BY CopyType DEF Ready
<1>2. PICK rows \in {Upserted(q, q.feed, copy)} : variant' = ArchiveMissing(q, rows)
  BY DEF ImportAll
<1>3. PICK seen : /\ product' = [r \in PRows |-> ProductAfter(r, q, copy, variant', seen)]
                  /\ \A v \in VRows : seen[v].stock \in Nat
  <2>1. PICK seen \in {variant'} \cup
                 (IF backend = "d1"
                  THEN {[v \in VRows |-> IF variant[v].status = "none" THEN variant'[v] ELSE variant[v]]}
                  ELSE {}) :
          product' = [r \in PRows |-> ProductAfter(r, q, copy, variant', seen)]
    BY DEF ImportAll
  <2>2. \A v \in VRows : variant[v].stock \in Nat
    BY DEF Types, TypeOK, CatalogTypeOK, VariantRow
  <2>3. \A v \in VRows : variant'[v].stock \in Nat
    <3>1. ASSUME NEW v \in VRows PROVE rows[v] \in VariantRow
      BY <1>1, <1>2, UpsertedRow
    <3>2. \A v \in VRows : variant'[v] = rows[v] \/ variant'[v] = [rows[v] EXCEPT !.status = "archived"]
      BY <1>2 DEF ArchiveMissing
    <3> QED
      BY <3>1, <3>2 DEF VariantRow
  <2> QED
    BY <2>1, <2>2, <2>3
<1>4. variant' = [v \in VRows |-> variant'[v]] /\ product' = [r \in PRows |-> product'[r]]
  BY <1>2, <1>3 DEF ArchiveMissing
<1>5. ASSUME NEW v \in VRows
      PROVE  /\ variant'[v] \in VariantRow
             /\ v[1] \notin KeysOf[q.sup] => variant'[v] = variant[v]
             /\ variant[v].status # "none" =>
                  /\ variant'[v].status # "none" /\ variant'[v].of = variant[v].of
                  /\ backend = "sqlite" => variant'[v].stock = variant[v].stock
             /\ variant[v].status = "none" /\ variant'[v].status # "none" =>
                  /\ variant'[v].of = copy /\ variant'[v].stock = CatalogStock
                  /\ v[1] \in q.feed \ KnownKeys(q) /\ v[2] = Min(FreeRows(v[1]) \cup {3})
  <2>1. /\ rows[v] \in VariantRow
        /\ v[1] \notin q.feed => rows[v] = variant[v]
        /\ variant[v].status # "none" =>
             /\ rows[v].status \in {"active", variant[v].status} /\ rows[v].of = variant[v].of
             /\ backend = "sqlite" => rows[v].stock = variant[v].stock
        /\ variant[v].status = "none" /\ rows[v] # variant[v] =>
             /\ rows[v] = [status |-> "active", of |-> copy, stock |-> CatalogStock]
             /\ v[1] \in q.feed \ KnownKeys(q) /\ v[2] = Min(FreeRows(v[1]) \cup {3})
    <3>1. rows = Upserted(q, q.feed, copy)
      BY <1>2
    <3> HIDE DEF copy
    <3> DEFINE keys == q.feed
    <3>2. keys \in SUBSET q.feed /\ rows = Upserted(q, keys, copy)
      BY <3>1
    <3>3. q \in Request /\ copy \in Copies
      BY <1>1
    <3> HIDE DEF keys
    <3>4. /\ rows[v] \in VariantRow
          /\ v[1] \notin keys => rows[v] = variant[v]
          /\ variant[v].status # "none" =>
               /\ rows[v].status \in {"active", variant[v].status} /\ rows[v].of = variant[v].of
               /\ backend = "sqlite" => rows[v].stock = variant[v].stock
          /\ variant[v].status = "none" /\ rows[v] # variant[v] =>
               /\ rows[v] = [status |-> "active", of |-> copy, stock |-> CatalogStock]
               /\ v[1] \in keys \ KnownKeys(q) /\ v[2] = Min(FreeRows(v[1]) \cup {3})
      BY <3>2, <3>3, UpsertedRow
    <3> QED
      BY <3>4 DEF keys
  <2>2. variant'[v] = IF q.opts.archive /\ v[1] \in KeysOf[q.sup] \ q.feed /\ rows[v].status = "active"
                      THEN [rows[v] EXCEPT !.status = "archived"] ELSE rows[v]
    BY <1>2 DEF ArchiveMissing
  <2>3. q.feed \subseteq KeysOf[q.sup]
    BY DEF Ready
  <2>4. variant[v] \in VariantRow
    BY DEF Types, TypeOK, CatalogTypeOK
  <2>5. CASE q.opts.archive /\ v[1] \in KeysOf[q.sup] \ q.feed /\ rows[v].status = "active"
    <3> DEFINE x == [rows[v] EXCEPT !.status = "archived"]
    <3>1. x \in VariantRow /\ x.status = "archived" /\ x.of = rows[v].of /\ x.stock = rows[v].stock
      BY <2>1 DEF VariantRow
    <3>2. variant'[v] = x /\ variant[v].status # "none" /\ v[1] \in KeysOf[q.sup]
      BY <2>1, <2>2, <2>5
    <3> HIDE DEF x
    <3> QED
      BY <2>1, <3>1, <3>2
  <2>6. CASE ~(q.opts.archive /\ v[1] \in KeysOf[q.sup] \ q.feed /\ rows[v].status = "active")
    <3>1. variant'[v] = rows[v]
      BY <2>2, <2>6
    <3>2. variant[v].status = "none" /\ rows[v].status # "none" => rows[v] # variant[v]
      OBVIOUS
    <3> QED
      BY <2>1, <2>3, <3>1, <3>2
  <2> QED
    BY <2>5, <2>6
<1>6. ASSUME NEW r \in PRows
      PROVE  /\ product'[r] \in ProductRow
             /\ product[r].status # "none" => product'[r].status # "none"
             /\ product[r].status = "none" /\ product'[r].status # "none" =>
                  q.feed # {} /\ q.copy = 0 /\ r = <<q.sup, copy>>
             /\ q.feed # {} /\ r = <<q.sup, copy>> => product'[r].status # "none"
  <2> DEFINE upserted == q.feed # {} /\ r = <<q.sup, copy>>
             lost == LosesVariant(r, variant')
  <2>1. product'[r] = IF lost /\ backend = "d1"
                      THEN [product[r] EXCEPT !.shown = ListingStock(r, variant)]
                      ELSE IF lost
                      THEN [status |-> IF ActiveVariants(r, variant') = {} THEN "archived"
                                       ELSE IF upserted THEN Revived(r, q) ELSE product[r].status,
                            shown  |-> ListingStock(r, variant')]
                      ELSE IF upserted THEN [status |-> Revived(r, q), shown |-> ListingStock(r, seen)]
                      ELSE product[r]
    BY <1>3 DEF ProductAfter
  <2>2. product[r] \in ProductRow /\ Revived(r, q) \in {"draft", "published", "archived"}
    BY RevivedType DEF Types, TypeOK, CatalogTypeOK
  <2>3. ListingStock(r, variant) \in Nat /\ ListingStock(r, variant') \in Nat /\ ListingStock(r, seen) \in Nat
    <3>1. \A v \in VRows : variant[v].stock \in Nat /\ variant'[v].stock \in Nat
      BY <1>5 DEF Types, TypeOK, CatalogTypeOK, VariantRow
    <3> QED
      BY <1>3, <3>1, ListingType
  <2>4. lost => product[r].status # "none"
    <3>1. ASSUME lost PROVE product[r].status # "none"
      <4>1. PICK v \in VariantsOf(r, variant') : variant[v].status = "active"
        BY <3>1 DEF LosesVariant
      <4>2. v \in VRows /\ v[1] \in KeysOf[r[1]] /\ variant'[v].of = r[2]
        BY KeyOwner, RowParts DEF VariantsOf, VRows
      <4>3. variant[v].of = r[2] /\ GoodOf(v[1]) = r[1]
        BY <1>5, <4>1, <4>2, KeyOwner, RowParts
      <4> QED
        BY <4>1, <4>2, <4>3, RowParts DEF RowsInv
    <3> QED
      BY <3>1
  <2>5. upserted /\ product[r].status = "none" => q.copy = 0
    <3>1. CASE q.copy # 0
      BY <3>1 DEF ImportAll, Writable, CopyOf
    <3> QED
      BY <3>1
  <2>6. upserted /\ backend = "d1" => product[r].status # "none"
    BY <2>5 DEF Ready
  <2> HIDE DEF upserted, lost
  <2>7. CASE lost /\ backend = "d1"
    BY <2>1, <2>2, <2>3, <2>4, <2>7 DEF ProductRow
  <2>8. CASE lost /\ backend # "d1"
    BY <2>1, <2>2, <2>3, <2>4, <2>8 DEF ProductRow
  <2>9. CASE ~lost /\ upserted
    <3>1. product'[r] = [status |-> Revived(r, q), shown |-> ListingStock(r, seen)]
      BY <2>1, <2>9
    <3>2. product'[r] \in ProductRow /\ product'[r].status # "none"
      BY <2>2, <2>3, <3>1 DEF ProductRow
    <3> QED
      BY <2>5, <2>9, <3>2 DEF upserted
  <2>10. CASE ~lost /\ ~upserted
    BY <2>1, <2>2, <2>10 DEF upserted
  <2> QED
    BY <2>7, <2>8, <2>9, <2>10
<1>7. q.feed # {} => product'[<<q.sup, copy>>].status # "none"
  BY <1>1, <1>6, RowParts DEF Ready, Goods
<1> HIDE DEF copy
<1>8. variant' \in [VRows -> VariantRow] /\ product' \in [PRows -> ProductRow]
  BY <1>4, <1>5, <1>6
<1>9. Imported(q, copy)
  BY <1>5, <1>6, <1>7, <1>8 DEF Imported
<1> QED
  BY <1>9 DEF copy

LEMMA PartImported ==
  ASSUME Types, NEW q, Ready(q), ImportPart(q)
  PROVE  Imported(q, CopyOf(q))
<1> DEFINE copy == CopyOf(q)
           R == <<q.sup, copy>>
<1>1. copy \in Copies /\ q \in Request /\ q.sup \in Suppliers
  BY CopyType DEF Ready
<1>2. PICK keys \in SUBSET q.feed : variant' = Upserted(q, keys, copy)
  BY DEF ImportPart
<1>3. /\ q.feed # {} /\ q.feed \subseteq KeysOf[q.sup]
      /\ product' = IF backend = "d1" THEN product ELSE [product EXCEPT ![R].status = Revived(R, q)]
      /\ q.copy # 0 => product[R].status # "none"
  BY DEF ImportPart, Ready, Writable, CopyOf
<1>4. R \in PRows
  BY <1>1, RowParts DEF Goods
<1>5. Revived(R, q) \in {"draft", "published", "archived"}
  BY <1>4, RevivedType
<1>6. product \in [PRows -> ProductRow]
  BY DEF Types, TypeOK, CatalogTypeOK
<1>7. backend = "d1" => q.copy # 0
  BY <1>3 DEF Ready
<1> HIDE DEF copy
<1>8. variant' = [v \in VRows |-> variant'[v]]
  BY <1>2 DEF Upserted
<1>9. ASSUME NEW v \in VRows
      PROVE  /\ variant'[v] \in VariantRow
             /\ v[1] \notin KeysOf[q.sup] => variant'[v] = variant[v]
             /\ variant[v].status # "none" =>
                  /\ variant'[v].status # "none" /\ variant'[v].of = variant[v].of
                  /\ backend = "sqlite" => variant'[v].stock = variant[v].stock
             /\ variant[v].status = "none" /\ variant'[v].status # "none" =>
                  /\ variant'[v].of = copy /\ variant'[v].stock = CatalogStock
                  /\ v[1] \in q.feed \ KnownKeys(q) /\ v[2] = Min(FreeRows(v[1]) \cup {3})
  <2>1. PICK rows : rows = Upserted(q, keys, copy) /\ variant' = rows
    BY <1>2
  <2>2. /\ rows[v] \in VariantRow
        /\ v[1] \notin keys => rows[v] = variant[v]
        /\ variant[v].status # "none" =>
             /\ rows[v].status \in {"active", variant[v].status} /\ rows[v].of = variant[v].of
             /\ backend = "sqlite" => rows[v].stock = variant[v].stock
        /\ variant[v].status = "none" /\ rows[v] # variant[v] =>
             /\ rows[v] = [status |-> "active", of |-> copy, stock |-> CatalogStock]
             /\ v[1] \in keys \ KnownKeys(q) /\ v[2] = Min(FreeRows(v[1]) \cup {3})
    BY <1>1, <2>1, UpsertedRow
  <2> QED
    BY <1>3, <2>1, <2>2
<1>10. product' \in [PRows -> ProductRow] /\ \A r \in PRows :
         /\ product'[r] \in ProductRow
         /\ product[r].status # "none" => product'[r].status # "none"
         /\ product[r].status = "none" /\ product'[r].status # "none" => q.copy = 0 /\ r = R
         /\ r = R => product'[r].status # "none"
  <2>1. CASE backend = "d1"
    BY <1>3, <1>6, <1>7, <2>1
  <2>2. CASE backend # "d1"
    <3> DEFINE x == [product[R] EXCEPT !.status = Revived(R, q)]
    <3>1. x \in ProductRow /\ x.status # "none"
      BY <1>4, <1>5, <1>6 DEF ProductRow
    <3>2. product' = [product EXCEPT ![R] = x]
      BY <1>3, <2>2
    <3> HIDE DEF x, R
    <3>3. product' \in [PRows -> ProductRow] /\ product'[R] = x /\ \A r \in PRows \ {R} : product'[r] = product[r]
      BY <1>4, <1>6, <3>1, <3>2
    <3> QED
      BY <1>3, <1>6, <3>1, <3>3
  <2> QED
    BY <2>1, <2>2
<1>11. variant' \in [VRows -> VariantRow]
  BY <1>8, <1>9
<1>12. Imported(q, copy)
  BY <1>3, <1>4, <1>9, <1>10, <1>11 DEF Imported
<1> QED
  BY <1>12 DEF copy

-----------------------------------------------------------------------------
(* Types *)

LEMMA CatalogTyped ==
  ASSUME Types, CatalogNext
  PROVE  CatalogTypeOK'
<1>1. /\ shop \in Shops /\ product \in [PRows -> ProductRow] /\ variant \in [VRows -> VariantRow]
      /\ taken \in [VRows -> 0 .. CatalogStock] /\ ordered \subseteq PRows
      /\ form \in [open : {"none", "edit", "delete"}, row : PRows, stock : Nat]
      /\ CatalogStock \in Nat
  BY CatalogAssumption DEF Types, TypeOK, CatalogTypeOK
<1>2. ASSUME NEW r \in PRows PROVE ListingStock(r, variant) \in Nat
  BY <1>1, ListingType DEF VariantRow
<1>3. ASSUME NEW r \in PRows, variant' \in [VRows -> VariantRow] PROVE ListingStock(r, variant') \in Nat
  BY <1>3, ListingType DEF VariantRow
<1>4. ASSUME NEW v \in VRows PROVE <<GoodOf(v[1]), variant[v].of>> \in PRows
  BY <1>1, KeyOwner, RowParts DEF VariantRow
<1>5. ASSUME NEW v \in VRows, Reserve(v) PROVE CatalogTypeOK'
  <2> DEFINE r == <<GoodOf(v[1]), variant[v].of>>
  <2>1. variant' \in [VRows -> VariantRow]
    BY <1>1, <1>5 DEF Reserve, VariantRow
  <2>2. taken' \in [VRows -> 0 .. CatalogStock]
    BY <1>1, <1>5 DEF Reserve
  <2>3. product' \in [PRows -> ProductRow]
    BY <1>1, <1>2, <1>4, <1>5 DEF Reserve, ProductRow
  <2>4. ordered' \subseteq PRows
    BY <1>1, <1>4, <1>5 DEF Reserve
  <2> QED
    BY <1>1, <1>5, <2>1, <2>2, <2>3, <2>4 DEF Reserve, CatalogTypeOK
<1>6. ASSUME NEW v \in VRows, Release(v) PROVE CatalogTypeOK'
  <2>1. variant' \in [VRows -> VariantRow]
    BY <1>1, <1>6 DEF Release, VariantRow
  <2>2. taken' \in [VRows -> 0 .. CatalogStock]
    BY <1>1, <1>6 DEF Release
  <2>3. product' \in [PRows -> ProductRow]
    BY <1>1, <1>3, <1>4, <1>6, <2>1 DEF Release, ProductRow
  <2> QED
    BY <1>1, <1>6, <2>1, <2>2, <2>3 DEF Release, CatalogTypeOK
<1>7. \A s \in FormStatuses : s \in {"draft", "published", "archived"}
  BY CatalogAssumption
<1>8. \A n \in FormStocks : n \in Nat
  BY CatalogAssumption
<1>9. CASE CreateProduct
  <2>1. PICK stock \in FormStocks, status \in FormStatuses :
          /\ product' = [product EXCEPT ![<<Own, 1>>] = [status |-> status, shown |-> stock]]
          /\ \/ variant' = [v \in VRows |-> IF v \in KeysOf[Own] \X {1}
                                            THEN [status |-> "active", of |-> 1, stock |-> stock]
                                            ELSE variant[v]]
             \/ variant' = variant
    BY <1>9 DEF CreateProduct
  <2>2. product' \in [PRows -> ProductRow]
    BY <1>1, <1>7, <1>8, <2>1 DEF ProductRow
  <2>3. variant' \in [VRows -> VariantRow]
    <3>1. [status |-> "active", of |-> 1, stock |-> stock] \in VariantRow
      BY <1>8 DEF VariantRow, Copies
    <3> QED
      BY <1>1, <2>1, <3>1
  <2> QED
    BY <1>1, <1>9, <2>2, <2>3 DEF CreateProduct, CatalogTypeOK
<1>10. CASE DropForm \/ \E r \in PRows : DeleteRead(r)
  <2>1. NoForm \in [open : {"none", "edit", "delete"}, row : PRows, stock : Nat]
    BY RowParts DEF NoForm, Goods
  <2>2. form' \in [open : {"none", "edit", "delete"}, row : PRows, stock : Nat]
    BY <1>10, <2>1 DEF DropForm, DeleteRead
  <2> QED
    BY <1>1, <1>10, <2>2 DEF DropForm, DeleteRead, CatalogTypeOK
<1>11. ASSUME NEW r \in PRows, OpenForm(r) PROVE CatalogTypeOK'
  <2>1. form' \in [open : {"none", "edit", "delete"}, row : PRows, stock : Nat]
    <3>1. PICK v \in VariantsOf(r, variant) : \E stock \in FormStocks \cup {variant[v].stock} :
            form' = [open |-> "edit", row |-> r, stock |-> stock]
      BY <1>11 DEF OpenForm
    <3>2. v \in VRows
      BY KeyOwner, RowParts DEF VariantsOf, VRows
    <3> QED
      BY <1>1, <1>8, <3>1, <3>2 DEF VariantRow
  <2> QED
    BY <1>1, <1>11, <2>1 DEF OpenForm, CatalogTypeOK
<1>12. CASE DeleteWrite
  <2>1. NoForm \in [open : {"none", "edit", "delete"}, row : PRows, stock : Nat]
    BY RowParts DEF NoForm, Goods
  <2>2. NoProduct \in ProductRow /\ NoVariant \in VariantRow
    BY DEF NoProduct, NoVariant, ProductRow, VariantRow, Copies
  <2>3. product' \in [PRows -> ProductRow] /\ variant' \in [VRows -> VariantRow]
    BY <1>1, <1>12, <2>2 DEF DeleteWrite
  <2>4. taken' \in [VRows -> 0 .. CatalogStock]
    BY <1>1, <1>12 DEF DeleteWrite
  <2> QED
    BY <1>1, <1>12, <2>1, <2>3, <2>4 DEF DeleteWrite, CatalogTypeOK
<1>13. ASSUME NEW status \in FormStatuses, SaveManual(status) PROVE CatalogTypeOK'
  <2>1. NoForm \in [open : {"none", "edit", "delete"}, row : PRows, stock : Nat]
    BY RowParts DEF NoForm, Goods
  <2>2. variant' \in [VRows -> VariantRow]
    <3>1. PICK choice \in {"active", "archived"} : variant' = AsTyped(form.row, choice)
      BY <1>13 DEF SaveManual
    <3>2. form.stock \in Nat
      BY <1>1
    <3>3. \A v \in VRows : [variant[v] EXCEPT !.stock = form.stock, !.status = choice] \in VariantRow
      BY <1>1, <3>2 DEF VariantRow
    <3> QED
      BY <1>1, <3>1, <3>3 DEF AsTyped
  <2>3. ListingStock(form.row, variant') \in Nat
    BY <1>1, <1>3, <2>2
  <2>4. product' \in [PRows -> ProductRow]
    <3>1. product' = [product EXCEPT ![form.row] = [status |-> status, shown |-> ListingStock(form.row, variant')]]
      BY <1>13 DEF SaveManual
    <3>2. [status |-> status, shown |-> ListingStock(form.row, variant')] \in ProductRow
      BY <1>7, <2>3 DEF ProductRow
    <3> QED
      BY <1>1, <3>1, <3>2
  <2> QED
    BY <1>1, <1>13, <2>1, <2>2, <2>4 DEF SaveManual, CatalogTypeOK
<1>14. ASSUME NEW r \in PRows, NEW status \in FormStatuses, SaveImported(r, status) \/ RejectForm(r, status)
       PROVE  CatalogTypeOK'
  <2>1. product' \in [PRows -> ProductRow]
    BY <1>1, <1>7, <1>8, <1>14 DEF SaveImported, RejectForm, ProductRow
  <2> QED
    BY <1>1, <1>14, <2>1 DEF SaveImported, RejectForm, CatalogTypeOK
<1> QED
  BY <1>5, <1>6, <1>9, <1>10, <1>11, <1>12, <1>13, <1>14 DEF CatalogNext

LEMMA RowTypes ==
  /\ NoJob \in JobRow /\ Tried(NoJob) = {} /\ NoJob.status = "none" /\ NoJob.done = 0
  /\ NoResults \in [Suppliers -> Outcomes] /\ Cardinality(Suppliers) \in Nat
BY SyncAssumption, CatalogAssumption, FS_CardinalityType
   DEF NoJob, NoResults, JobRow, Outcomes, Tried

LEMMA IdleType ==
  Idle \in Request /\ Idle.at = "idle" /\ Idle.job = 0 /\ Idle.sup = None /\ Idle.feed = {} /\ Idle.copy = 0
BY RowTypes, CatalogAssumption DEF Idle, Request, Stages, Outcomes, JobRow

LEMMA FoundType ==
  ASSUME Types, NEW q \in Request, q.sup \in Suppliers, NEW feed \in Feeds[q.sup]
  PROVE  LET f == Found(q, feed)
         IN /\ f \in Request /\ f.at = q.at /\ f.job = q.job /\ f.row = q.row /\ f.sup = q.sup
            /\ f.feed = feed /\ f.feed \subseteq KeysOf[q.sup] /\ f.was # "none"
            /\ f.feed # {} /\ f.copy = 0 => ProductsWithKey(q.sup) = {}
<1> DEFINE copies == ProductsWithKey(q.sup)
           copy   == IF copies = {} \/ feed = {} THEN 0 ELSE Min(copies)
           was    == IF copy = 0 THEN q.opts.as ELSE product[<<q.sup, copy>>].status
           f      == [q EXCEPT !.feed = feed, !.copy = copy, !.was = was]
<1>1. feed \subseteq KeysOf[q.sup] /\ feed \subseteq Keys
  BY SyncAssumption, KeyOwner DEF Goods
<1>2. copies \subseteq Copies /\ copies \subseteq Nat
  BY RowParts DEF ProductsWithKey
<1>3. copies # {} => Min(copies) \in copies
  BY <1>2, MinIn
<1>4. copy \in Copies \cup {0} /\ (copy = 0 => copies = {} \/ feed = {})
  BY <1>2, <1>3, RowParts
<1>5. was \in {"draft", "published", "archived"}
  <2>1. CASE copy = 0
    BY <2>1, SyncAssumption DEF Request
  <2>2. CASE copy # 0
    <3>1. copy \in copies
      BY <1>3, <2>2
    <3>2. <<q.sup, copy>> \in PRows
      BY <1>2, <3>1, RowParts DEF Goods
    <3>3. product[<<q.sup, copy>>].status \in {"none", "draft", "published", "archived"}
      BY <3>2 DEF Types, TypeOK, CatalogTypeOK, ProductRow
    <3> QED
      BY <2>2, <3>1, <3>3 DEF ProductsWithKey
  <2> QED
    BY <2>1, <2>2
<1> HIDE DEF copies, copy, was
<1>6. /\ f \in Request /\ f.at = q.at /\ f.job = q.job /\ f.row = q.row /\ f.sup = q.sup
      /\ f.feed = feed /\ f.was = was /\ f.copy = copy
  BY <1>1, <1>4, <1>5 DEF Request
<1>7. f = Found(q, feed)
  BY DEF Found, f, copy, copies, was
<1> HIDE DEF f
<1> QED
  BY <1>1, <1>4, <1>5, <1>6, <1>7 DEF copies

\* On SQLite no row has results, so that a tick has a supplier to take.
LEMMA TickTakes ==
  ASSUME Types, StageInv, JobInv, NEW p \in Workers, req[p].at = "tick", backend = "sqlite"
  PROVE  req[p].sup \in Syncable /\ req[p].row.results[req[p].sup] = "none"
<1>1. Tried(req[p].row) = {} /\ Syncable # {}
  BY DEF StageInv, StageOK, JobInv, RowOK
<1>2. PendingIds(req[p].row.results) # {}
  BY <1>1 DEF Tried, PendingIds, Syncable
<1> QED
  BY <1>2 DEF StageInv, StageOK

\* Who imports is ready to, and imports for its supplier; nothing else is disturbed.
LEMMA Importers ==
  ASSUME Types, StageInv, JobInv, RowsInv, NEW p \in Workers,
         SyncWrite(p) \/ SyncBreak(p) \/ TickImport(p)
  PROVE  /\ UNCHANGED <<shop, taken, ordered, form>>
         /\ req[p].sup \in Suppliers
         /\ \E q : /\ Ready(q) /\ q.sup = req[p].sup /\ Imported(q, CopyOf(q))
                   /\ Importing(req[p]) => q = req[p]
                   /\ ~Importing(req[p]) => /\ backend = "sqlite" /\ req[p].at = "tick"
                                            /\ q.feed # {} /\ q.copy = 0 => ProductsWithKey(q.sup) = {}
<1>1. req[p] \in Request /\ Syncable \subseteq Suppliers /\ (req[p].at = "tick" => Syncable # {})
  BY DEF Types, TypeOK, Syncable, StageInv, StageOK
<1>2. CASE SyncWrite(p) \/ SyncBreak(p)
  <2>1. Importing(req[p]) /\ (backend = "d1" => req[p].at = "write")
    BY <1>2 DEF SyncWrite, SyncBreak, Importing
  <2>2. Ready(req[p])
    BY <1>1, <2>1 DEF StageInv, StageOK, Importing, Ready
  <2>3. ImportAll(req[p]) \/ ImportPart(req[p])
    BY <1>2 DEF SyncWrite, SyncBreak
  <2>4. Imported(req[p], CopyOf(req[p]))
    BY <2>2, <2>3, AllImported, PartImported
  <2>5. UNCHANGED <<shop, taken, ordered, form>>
    BY <1>2 DEF SyncWrite, SyncBreak
  <2> QED
    BY <2>1, <2>2, <2>4, <2>5 DEF Ready
<1>3. CASE TickImport(p)
  <2>1. backend = "sqlite" /\ req[p].at = "tick" /\ UNCHANGED <<shop, taken, ordered, form>>
    BY <1>3 DEF TickImport
  <2>2. req[p].sup \in Suppliers
    BY <1>1, <2>1, TickTakes
  <2>3. PICK feed \in Feeds[req[p].sup] : ImportAll(Found(req[p], feed)) \/ ImportPart(Found(req[p], feed))
    BY <1>3 DEF TickImport
  <2> DEFINE q == Found(req[p], feed)
  <2>4. /\ q \in Request /\ q.sup = req[p].sup /\ q.feed \subseteq KeysOf[q.sup] /\ q.was # "none"
        /\ q.feed # {} /\ q.copy = 0 => ProductsWithKey(q.sup) = {}
    <3>1. PICK r \in Request : r = req[p]
      BY <1>1
    <3>2. r.sup \in Suppliers /\ feed \in Feeds[r.sup]
      BY <2>2, <3>1
    <3>3. /\ Found(r, feed) \in Request /\ Found(r, feed).sup = r.sup
          /\ Found(r, feed).feed \subseteq KeysOf[r.sup] /\ Found(r, feed).was # "none"
          /\ Found(r, feed).feed # {} /\ Found(r, feed).copy = 0 => ProductsWithKey(r.sup) = {}
      BY <3>2, FoundType
    <3>4. q = Found(r, feed)
      BY <3>1
    <3> HIDE DEF q
    <3> QED
      BY <3>1, <3>3, <3>4
  <2> HIDE DEF q
  <2>5. Ready(q)
    BY <2>1, <2>2, <2>4 DEF Ready
  <2>6. Imported(q, CopyOf(q))
    BY <2>3, <2>5, AllImported, PartImported DEF q
  <2>7. ~Importing(req[p])
    BY <2>1 DEF Importing
  <2> QED
    BY <2>1, <2>2, <2>4, <2>5, <2>6, <2>7
<1> QED
  BY <1>2, <1>3

-----------------------------------------------------------------------------
(* Requests *)

\* Everything a request does.
RequestStep(p) ==
  \/ Work(p) \/ Crash(p)
  \/ \E s \in Suppliers, opts \in Options : ManualSync(p, s, opts)
  \/ \E opts \in Options : StartRead(p, opts)
  \/ \E j \in Jobs : TickLoad(p, j)

\* What request p becomes: it holds the row it held, or the row of its job.
Becomes(p, r) ==
  /\ req' = [req EXCEPT ![p] = r]
  /\ r \in Request /\ StageOK(r)
  /\ r.at # "idle" /\ r.job # 0 =>
       \/ r.job \in Jobs /\ r.row = job[r.job] /\ attempted' = attempted
       \/ req[p].at # "idle" /\ r.job = req[p].job /\ r.row = req[p].row
  /\ Importing(r) => /\ r.sup = req[p].sup
                     /\ SyncFind(p) \/ SyncLoad(p)

LEMMA EndedBecomes ==
  ASSUME Types, NEW p \in Workers, NEW outcome \in {"ok", "error"}, Ended(p, outcome),
         req[p].at # "idle", req[p].sup \in Syncable,
         req[p].job # 0 => req[p].row.results[req[p].sup] = "none"
  PROVE  \E r : Becomes(p, r)
<1>1. PICK q \in Request : q = req[p]
  BY DEF Types, TypeOK
<1>2. CASE q.job = 0
  <2>1. req' = [req EXCEPT ![p] = Idle]
    BY <1>1, <1>2 DEF Ended
  <2>2. Becomes(p, Idle)
    BY <2>1, IdleType DEF Becomes, StageOK, Importing
  <2> QED
    BY <2>2
<1>3. CASE q.job # 0
  <2> DEFINE r == [q EXCEPT !.at = "record", !.outcome = outcome]
  <2>1. req' = [req EXCEPT ![p] = r]
    BY <1>1, <1>3 DEF Ended
  <2>2. /\ r \in Request /\ r.at = "record" /\ r.outcome = outcome
        /\ r.job = q.job /\ r.row = q.row /\ r.sup = q.sup
    BY DEF Request, Stages, Outcomes
  <2> HIDE DEF r
  <2>3. StageOK(r)
    BY <1>1, <1>3, <2>2 DEF StageOK, Importing
  <2>4. Becomes(p, r)
    BY <1>1, <1>3, <2>1, <2>2, <2>3 DEF Becomes, Importing
  <2> QED
    BY <2>4
<1> QED
  BY <1>2, <1>3

LEMMA IdleBecomes ==
  ASSUME NEW p \in Workers, req' = [req EXCEPT ![p] = Idle]
  PROVE  \E r : Becomes(p, r)
<1>1. Becomes(p, Idle)
  BY IdleType DEF Becomes, StageOK, Importing
<1> QED
  BY <1>1

\* A job that is there has suppliers to take, and a row loaded from it one without a result.
LEMMA LoadBecomes ==
  ASSUME Types, JobInv, NEW p \in Workers, NEW j \in Jobs, TickLoad(p, j)
  PROVE  \E r : Becomes(p, r)
<1>1. job[j] \in JobRow /\ Syncable # {} /\ Syncable \subseteq Suppliers /\ j # 0
  BY SyncAssumption DEF Types, TypeOK, JobInv, JobOK, TickLoad, Active, Syncable
<1> DEFINE sup == IF PendingIds(job[j].results) = {} THEN None ELSE NextSupplier(job[j].results)
           r == [Idle EXCEPT !.at = "tick", !.job = j, !.row = job[j], !.opts = job[j].opts, !.sup = sup]
<1>2. \/ sup = None /\ PendingIds(job[j].results) = {}
      \/ sup \in Syncable /\ job[j].results[sup] = "none"
  BY DEF PendingIds, NextSupplier
<1>3. sup \in Suppliers \cup {None}
  BY <1>1, <1>2
<1>4. req' = [req EXCEPT ![p] = r]
  BY DEF TickLoad
<1> HIDE DEF sup
<1>5. r \in Request /\ r.at = "tick" /\ r.job = j /\ r.row = job[j] /\ r.sup = sup
  BY <1>1, <1>3, IdleType DEF Request, Stages, JobRow
<1> HIDE DEF r
<1>6. StageOK(r)
  BY <1>1, <1>2, <1>5 DEF StageOK, Importing
<1>7. Becomes(p, r)
  BY <1>4, <1>5, <1>6 DEF Becomes, Importing, TickLoad
<1> QED
  BY <1>7

LEMMA TickMarkBecomes ==
  ASSUME Types, StageInv, NEW p \in Workers, TickMark(p)
  PROVE  \E r : Becomes(p, r)
<1>1. PICK q \in Request : q = req[p]
  BY DEF Types, TypeOK
<1>2. CASE PendingIds(q.row.results) = {}
  BY <1>1, <1>2, IdleBecomes DEF TickMark
<1>3. CASE PendingIds(q.row.results) # {}
  <2> DEFINE r == [q EXCEPT !.at = "find"]
  <2>1. req' = [req EXCEPT ![p] = r]
    BY <1>1, <1>3 DEF TickMark
  <2>2. /\ r \in Request /\ r.at = "find" /\ r.job = q.job /\ r.row = q.row /\ r.sup = q.sup
        /\ q.at = "tick"
    BY <1>1 DEF Request, Stages, TickMark
  <2> HIDE DEF r
  <2>3. StageOK(q)
    BY <1>1 DEF StageInv
  <2>4. StageOK(r)
    BY <1>3, <2>2, <2>3 DEF StageOK, Importing
  <2>5. Becomes(p, r)
    BY <1>1, <2>1, <2>2, <2>4 DEF Becomes, Importing
  <2> QED
    BY <2>5
<1> QED
  BY <1>2, <1>3

LEMMA FindBecomes ==
  ASSUME Types, StageInv, NEW p \in Workers, SyncFind(p)
  PROVE  \E r : /\ Becomes(p, r) /\ r.at = "upsert"
                /\ r.feed # {} /\ r.copy = 0 => ProductsWithKey(r.sup) = {}
<1>1. PICK q \in Request : q = req[p]
  BY DEF Types, TypeOK
<1>2. q.at = "find" /\ StageOK(q)
  BY <1>1 DEF SyncFind, StageInv
<1>3. q.sup \in Suppliers
  BY <1>2 DEF StageOK, Syncable
<1>4. PICK feed \in Feeds[q.sup] : req' = [req EXCEPT ![p] = [Found(q, feed) EXCEPT !.at = "upsert"]]
  BY <1>1 DEF SyncFind
<1>5. PICK f : f = Found(q, feed)
  OBVIOUS
<1>6. /\ f \in Request /\ f.at = q.at /\ f.job = q.job /\ f.row = q.row /\ f.sup = q.sup
      /\ f.feed = feed /\ f.feed \subseteq KeysOf[q.sup] /\ f.was # "none"
      /\ f.feed # {} /\ f.copy = 0 => ProductsWithKey(q.sup) = {}
  BY <1>3, <1>4, <1>5, FoundType
<1> DEFINE r == [f EXCEPT !.at = "upsert"]
<1>7. req' = [req EXCEPT ![p] = r]
  BY <1>4, <1>5
<1>8. /\ r \in Request /\ r.at = "upsert" /\ r.job = q.job /\ r.row = q.row /\ r.sup = q.sup
      /\ r.feed = f.feed /\ r.was = f.was /\ r.copy = f.copy
  BY <1>6 DEF Request, Stages
<1> HIDE DEF r
<1>9. StageOK(r)
  BY <1>2, <1>6, <1>8 DEF StageOK, Importing
<1>10. Becomes(p, r)
  BY <1>1, <1>2, <1>7, <1>8, <1>9 DEF Becomes, Importing
<1> QED
  BY <1>6, <1>8, <1>10

\* The keys a request on D1 knows no row of are those the catalogue lists and no row has.
LEMMA LoadedBecomes ==
  ASSUME Types, StageInv, NEW p \in Workers, SyncLoad(p)
  PROVE  \E r : /\ Becomes(p, r) /\ r.at = "write" /\ r.feed = req[p].feed /\ (r.feed # {} => r.copy # 0)
                /\ r.known = Listed(r.feed)
<1>1. PICK q \in Request : q = req[p]
  BY DEF Types, TypeOK
<1>2. q.at = "upsert" /\ backend = "d1" /\ StageOK(q)
  BY <1>1 DEF SyncLoad, StageInv
<1>3. CopyOf(q) \in Copies
  BY CopyType
<1> DEFINE copy == IF q.feed = {} THEN 0 ELSE CopyOf(q)
           held == [v \in VRows |-> variant[v].stock]
           r == [q EXCEPT !.at = "write", !.copy = copy, !.known = Listed(q.feed), !.held = held]
<1>4. req' = [req EXCEPT ![p] = r]
  BY <1>1 DEF SyncLoad
<1>5. held \in [VRows -> Nat] /\ Listed(q.feed) \subseteq VRows
  BY DEF Types, TypeOK, CatalogTypeOK, VariantRow, Listed
<1>6. copy \in Copies \cup {0} /\ (q.feed # {} => copy # 0)
  BY <1>3, RowParts
<1> HIDE DEF copy, held
<1>7. /\ r \in Request /\ r.at = "write" /\ r.job = q.job /\ r.row = q.row /\ r.sup = q.sup
      /\ r.feed = q.feed /\ r.was = q.was /\ r.copy = copy /\ r.known = Listed(q.feed)
  BY <1>5, <1>6 DEF Request, Stages
<1> HIDE DEF r
<1>8. StageOK(r)
  BY <1>2, <1>6, <1>7 DEF StageOK, Importing
<1>9. Becomes(p, r)
  BY <1>1, <1>2, <1>4, <1>7, <1>8 DEF Becomes, Importing
<1> QED
  BY <1>1, <1>6, <1>7, <1>9

LEMMA StartBecomes ==
  ASSUME Types, NEW p \in Workers,
         \/ \E s \in Suppliers, opts \in Options : ManualSync(p, s, opts)
         \/ \E opts \in Options : StartRead(p, opts)
  PROVE  \E r : Becomes(p, r)
<1>1. ASSUME NEW s \in Suppliers, NEW opts \in Options, ManualSync(p, s, opts)
      PROVE  \E r : Becomes(p, r)
  <2> DEFINE r == [Idle EXCEPT !.at = "find", !.sup = s, !.opts = opts]
  <2>1. req' = [req EXCEPT ![p] = r] /\ s \in Syncable
    BY <1>1 DEF ManualSync, Syncable
  <2>2. r \in Request /\ r.at = "find" /\ r.job = 0 /\ r.sup = s
    BY IdleType DEF Request, Stages
  <2> HIDE DEF r
  <2>3. Becomes(p, r)
    BY <2>1, <2>2 DEF Becomes, StageOK, Importing
  <2> QED
    BY <2>3
<1>2. ASSUME NEW opts \in Options, StartRead(p, opts)
      PROVE  \E r : Becomes(p, r)
  <2> DEFINE r == [Idle EXCEPT !.at = "start", !.opts = opts]
  <2>1. req' = [req EXCEPT ![p] = r] /\ Syncable # {}
    BY <1>2 DEF StartRead
  <2>2. r \in Request /\ r.at = "start" /\ r.job = 0
    BY IdleType DEF Request, Stages
  <2> HIDE DEF r
  <2>3. Becomes(p, r)
    BY <2>1, <2>2 DEF Becomes, StageOK, Importing
  <2> QED
    BY <2>3
<1> QED
  BY <1>1, <1>2

\* What may end is in a stage that has a supplier.
LEMMA EndsBecome ==
  ASSUME Types, StageInv, JobInv, NEW p \in Workers,
         SyncFail(p) \/ SyncWrite(p) \/ SyncBreak(p) \/ TickFail(p) \/ TickImport(p)
  PROVE  \E r : Becomes(p, r)
<1>1. /\ req[p].at \in {"find", "upsert", "write"} \/ (req[p].at = "tick" /\ backend = "sqlite")
      /\ \E outcome \in {"ok", "error"} : Ended(p, outcome)
  BY DEF SyncFail, SyncWrite, SyncBreak, TickFail, TickImport
<1>2. /\ req[p].sup \in Syncable /\ req[p].at # "idle"
      /\ req[p].job # 0 => req[p].row.results[req[p].sup] = "none"
  <2>1. CASE req[p].at \in {"find", "upsert", "write"}
    BY <2>1 DEF StageInv, StageOK
  <2>2. CASE req[p].at = "tick" /\ backend = "sqlite"
    BY <2>2, TickTakes
  <2> QED
    BY <1>1, <2>1, <2>2
<1> QED
  BY <1>1, <1>2, EndedBecomes

LEMMA Becoming ==
  ASSUME Types, StageInv, JobInv, NEW p \in Workers, RequestStep(p)
  PROVE  \E r : Becomes(p, r)
<1>1. CASE Crash(p) \/ StartWrite(p) \/ TickRecord(p)
  BY <1>1, IdleBecomes DEF Crash, StartWrite, TickRecord
<1>2. CASE \E j \in Jobs : TickLoad(p, j)
  BY <1>2, LoadBecomes
<1>3. CASE SyncFind(p)
  BY <1>3, FindBecomes
<1>4. CASE SyncLoad(p)
  BY <1>4, LoadedBecomes
<1> QED
  BY <1>1, <1>2, <1>3, <1>4, TickMarkBecomes, StartBecomes, EndsBecome DEF RequestStep, Work

LEMMA NextCases ==
  ASSUME [Next]_vars
  PROVE  \/ CatalogNext /\ UNCHANGED syncVars
         \/ \E p \in Workers : RequestStep(p)
         \/ UNCHANGED <<catalogVars, syncVars>>
BY DEF Next, RequestStep, vars

LEMMA ShopFixed ==
  ASSUME [Next]_vars
  PROVE  shop' = shop /\ backend' = backend /\ Syncable' = Syncable
<1>1. CatalogNext => shop' = shop
  BY DEF CatalogNext, Reserve, Release, CreateProduct, DropForm, DeleteWrite, SaveManual, OpenForm, DeleteRead,
         SaveImported, RejectForm
<1>2. ASSUME NEW p \in Workers, RequestStep(p) PROVE shop' = shop
  <2>1. CASE Work(p)
    BY <2>1 DEF Work, SyncFail, SyncFind, SyncLoad, SyncWrite, SyncBreak, StartWrite, TickFail, TickMark, TickImport,
                TickRecord, catalogVars
  <2>2. CASE ~Work(p)
    BY <1>2, <2>2 DEF RequestStep, Crash, ManualSync, StartRead, TickLoad, catalogVars
  <2> QED
    BY <2>1, <2>2
<1>3. shop' = shop
  BY <1>1, <1>2, NextCases DEF catalogVars
<1> QED
  BY <1>3 DEF backend, goods, Syncable

LEMMA SyncableCount ==
  ASSUME Types
  PROVE  /\ Syncable \subseteq Suppliers /\ IsFiniteSet(Syncable)
         /\ Cardinality(Syncable) \in Nat /\ Cardinality(Syncable) <= Cardinality(Suppliers)
<1>1. Syncable \subseteq Suppliers
  BY DEF Syncable
<1> QED
  BY <1>1, CatalogAssumption, FS_Subset, FS_CardinalityType

\* A job's row, stored, made or recorded, is a job's row.
LEMMA JobTyped ==
  ASSUME Types, StageInv, NEW p \in Workers, RequestStep(p)
  PROVE  job' \in [Jobs -> JobRow]
<1>1. job \in [Jobs -> JobRow] /\ Cardinality(Syncable) \in 0 .. Cardinality(Suppliers)
  BY SyncableCount, RowTypes DEF Types, TypeOK
<1>2. PICK q \in Request : q = req[p]
  BY DEF Types, TypeOK
<1>3. q.row \in JobRow /\ q.job \in Jobs \cup {0} /\ StageOK(q)
  BY <1>2 DEF Request, StageInv
<1>4. CASE StartWrite(p)
  <2> DEFINE unused == {j \in Jobs : job[j].status = "none"}
             row == [NoJob EXCEPT !.status = "pending", !.opts = q.opts]
  <2>1. unused # {} /\ unused \subseteq Nat
    BY <1>4, SyncAssumption DEF StartWrite
  <2>2. Min(unused) \in Jobs
    BY <2>1, MinIn
  <2>3. row \in JobRow
    BY RowTypes DEF JobRow, Request
  <2>4. job' = [job EXCEPT ![Min(unused)] = row]
    BY <1>2, <1>4 DEF StartWrite
  <2> QED
    BY <1>1, <2>2, <2>3, <2>4
<1>5. CASE TickMark(p)
  <2> DEFINE a == [q.row EXCEPT !.status = "completed", !.done = Cardinality(Syncable)]
             b == [q.row EXCEPT !.status = "running"]
  <2>1. a \in JobRow /\ b \in JobRow
    BY <1>1, <1>3 DEF JobRow
  <2>2. job' = [job EXCEPT ![q.job] = a] \/ job' = [job EXCEPT ![q.job] = b]
    BY <1>2, <1>5 DEF TickMark
  <2> HIDE DEF a, b
  <2> QED
    BY <1>1, <2>1, <2>2
<1>6. CASE TickImport(p)
  <2>1. q.row.results \in [Suppliers -> Outcomes]
    BY <1>3 DEF JobRow
  <2>2. job' = [job EXCEPT ![q.job].status = IF @ = "pending" THEN "running" ELSE @,
                           ![q.job].results = q.row.results]
    BY <1>2, <1>6 DEF TickImport
  <2> DEFINE status == IF job[q.job].status = "pending" THEN "running" ELSE job[q.job].status
             mid == [job EXCEPT ![q.job].status = status]
  <2>3. CASE q.job \in Jobs
    <3>1. status \in {"none", "pending", "running", "completed", "failed"}
      BY <1>1, <2>3 DEF JobRow
    <3> HIDE DEF status
    <3>2. mid \in [Jobs -> JobRow]
      BY <1>1, <3>1 DEF JobRow
    <3>3. job' = [mid EXCEPT ![q.job].results = q.row.results]
      BY <2>2 DEF status
    <3> HIDE DEF mid
    <3> QED
      BY <2>1, <3>2, <3>3 DEF JobRow
  <2>4. CASE q.job \notin Jobs
    <3>1. job' = job
      BY <1>1, <2>2, <2>4
    <3> QED
      BY <1>1, <3>1
  <2> QED
    BY <2>3, <2>4
<1>7. CASE TickRecord(p)
  <2> DEFINE results == [q.row.results EXCEPT ![q.sup] = q.outcome]
             done == Done(q.row)
             status == IF done >= Cardinality(Syncable) THEN Finished(results) ELSE "running"
             count == Min({done, Cardinality(Syncable)})
             row == [q.row EXCEPT !.status = status, !.results = results, !.done = count]
  <2>1. results \in [Suppliers -> Outcomes]
    BY <1>2, <1>3 DEF JobRow, Request
  <2>2. done \in Nat
    <3>1. q.row.done \in Nat
      BY <1>3, RowTypes DEF JobRow
    <3> QED
      BY <3>1 DEF Done
  <2>3. status \in {"running", "completed", "failed"}
    BY DEF Finished
  <2>4. count \in 0 .. Cardinality(Suppliers)
    <3>1. {done, Cardinality(Syncable)} \subseteq Nat /\ {done, Cardinality(Syncable)} # {}
      BY <1>1, <2>2, RowTypes
    <3>2. count \in {done, Cardinality(Syncable)} /\ count <= Cardinality(Syncable)
      BY <3>1, MinIn
    <3> QED
      BY <1>1, <3>1, <3>2, RowTypes
  <2> HIDE DEF results, count, status
  <2>5. row \in JobRow
    BY <1>3, <2>1, <2>3, <2>4 DEF JobRow
  <2>6. \/ job' = [job EXCEPT ![q.job] = row]
        \/ \E s \in {"running", "completed", "failed"} :
             job' = [job EXCEPT ![q.job].status = s] \/ job' = job
    <3>1. CASE backend = "d1"
      BY <1>2, <1>7, <3>1 DEF TickRecord, results, count, status
    <3>2. CASE backend # "d1"
      <4>1. job' = [job EXCEPT ![q.job].status = IF done >= Cardinality(Syncable) THEN Finished(results)
                                                 ELSE IF @ = "pending" THEN "running" ELSE @]
        BY <1>2, <1>7, <3>2 DEF TickRecord, results
      <4>2. CASE done >= Cardinality(Syncable)
        BY <4>1, <4>2 DEF Finished
      <4>3. CASE ~(done >= Cardinality(Syncable)) /\ job[q.job].status = "pending"
        BY <4>1, <4>3
      <4>4. CASE ~(done >= Cardinality(Syncable)) /\ job[q.job].status # "pending"
        BY <1>1, <4>1, <4>4 DEF JobRow
      <4> QED
        BY <4>2, <4>3, <4>4
    <3> QED
      BY <3>1, <3>2
  <2> HIDE DEF row
  <2> QED
    BY <1>1, <2>5, <2>6 DEF JobRow
<1>8. CASE ~(StartWrite(p) \/ TickMark(p) \/ TickImport(p) \/ TickRecord(p))
  <2>1. job' = job
    BY <1>8 DEF RequestStep, Work, SyncFail, SyncFind, SyncLoad, SyncWrite, SyncBreak, TickFail, Crash, ManualSync,
                StartRead, TickLoad
  <2> QED
    BY <1>1, <2>1
<1> QED
  BY <1>4, <1>5, <1>6, <1>7, <1>8

-----------------------------------------------------------------------------
(* TypeOK *)

LEMMA CatalogImported ==
  ASSUME Types, StageInv, JobInv, RowsInv, NEW p \in Workers, RequestStep(p)
  PROVE  CatalogTypeOK'
<1>1. /\ shop \in Shops /\ product \in [PRows -> ProductRow] /\ variant \in [VRows -> VariantRow]
      /\ taken \in [VRows -> 0 .. CatalogStock] /\ ordered \subseteq PRows
      /\ form \in [open : {"none", "edit", "delete"}, row : PRows, stock : Nat]
  BY DEF Types, TypeOK, CatalogTypeOK
<1>2. CASE SyncWrite(p) \/ SyncBreak(p) \/ TickImport(p)
  <2>1. PICK q : Imported(q, CopyOf(q))
    BY <1>2, Importers
  <2>5. variant' \in [VRows -> VariantRow] /\ product' \in [PRows -> ProductRow]
    BY <2>1 DEF Imported
  <2>6. UNCHANGED <<shop, taken, ordered, form>>
    BY <1>2, Importers
  <2> QED
    BY <1>1, <2>5, <2>6 DEF CatalogTypeOK
<1>3. CASE SyncLoad(p)
  <2>1. PICK q \in Request : q = req[p]
    BY DEF Types, TypeOK
  <2>2. PICK copy \in Copies : copy = CopyOf(q)
    BY CopyType
  <2>3. q.sup \in Suppliers
    BY <1>3, <2>1 DEF SyncLoad, StageInv, StageOK, Syncable
  <2>4. <<q.sup, copy>> \in PRows
    BY <2>2, <2>3, RowParts DEF Goods
  <2>5. [status |-> q.opts.as, shown |-> 0] \in ProductRow
    BY SyncAssumption DEF Request, ProductRow
  <2>6. \/ product' = product
        \/ product' = [product EXCEPT ![<<q.sup, copy>>] = [status |-> q.opts.as, shown |-> 0]]
    BY <1>3, <2>1, <2>2 DEF SyncLoad
  <2>7. product' \in [PRows -> ProductRow]
    BY <1>1, <2>4, <2>5, <2>6
  <2> QED
    BY <1>1, <1>3, <2>7 DEF SyncLoad, CatalogTypeOK
<1>4. CASE ~(SyncWrite(p) \/ SyncBreak(p) \/ TickImport(p) \/ SyncLoad(p))
  <2>1. UNCHANGED catalogVars
    BY <1>4 DEF RequestStep, Work, SyncFail, SyncFind, StartWrite, TickFail, TickMark, TickRecord, Crash, ManualSync,
                StartRead, TickLoad
  <2> QED
    BY <1>1, <2>1 DEF catalogVars, CatalogTypeOK
<1> QED
  BY <1>2, <1>3, <1>4

LEMMA TypesKept ==
  ASSUME Types, StageInv, JobInv, RowsInv, [Next]_vars
  PROVE  Types'
<1>1. shop' = shop
  BY ShopFixed
<1>2. /\ CatalogTypeOK /\ job \in [Jobs -> JobRow] /\ Workers = shop.workers /\ crashes \in 0 .. MaxCrashes
      /\ attempted \in [Jobs -> SUBSET Suppliers] /\ overlapped \in BOOLEAN
      /\ req \in [shop.workers -> Request] /\ MaxCrashes \in Nat
  BY SyncAssumption DEF Types, TypeOK
<1>3. ASSUME req' \in [shop.workers -> Request], CatalogTypeOK', job' \in [Jobs -> JobRow],
             crashes' \in 0 .. MaxCrashes, attempted' \in [Jobs -> SUBSET Suppliers], overlapped' \in BOOLEAN
      PROVE  Types'
  BY <1>1, <1>3 DEF Types, TypeOK, Workers, Request
<1>4. CASE CatalogNext /\ UNCHANGED syncVars
  BY <1>2, <1>3, <1>4, CatalogTyped DEF syncVars
<1>5. ASSUME NEW p \in Workers, RequestStep(p) PROVE Types'
  <2>1. CatalogTypeOK' /\ job' \in [Jobs -> JobRow]
    BY <1>5, CatalogImported, JobTyped
  <2>2. req' \in [shop.workers -> Request]
    <3>1. PICK r : Becomes(p, r)
      BY <1>5, Becoming
    <3> QED
      BY <1>2, <3>1 DEF Becomes
  <2>3. crashes' \in 0 .. MaxCrashes
    <3>1. crashes' = crashes \/ (crashes < MaxCrashes /\ crashes' = crashes + 1)
      BY <1>5 DEF RequestStep, Work, SyncFail, SyncFind, SyncLoad, SyncWrite, SyncBreak, StartWrite, TickFail, TickMark,
                  TickImport, TickRecord, Crash, ManualSync, StartRead, TickLoad
    <3> QED
      BY <1>2, <3>1
  <2>4. attempted' \in [Jobs -> SUBSET Suppliers]
    <3>1. attempted' = attempted \/ (TickRecord(p) /\ attempted' = [attempted EXCEPT ![req[p].job] = @ \cup {req[p].sup}])
      BY <1>5 DEF RequestStep, Work, SyncFail, SyncFind, SyncLoad, SyncWrite, SyncBreak, StartWrite, TickFail, TickMark,
                  TickImport, TickRecord, Crash, ManualSync, StartRead, TickLoad
    <3>2. TickRecord(p) => req[p].sup \in Suppliers
      BY DEF TickRecord, StageInv, StageOK, Syncable
    <3> QED
      BY <1>2, <3>1, <3>2
  <2>5. overlapped' \in BOOLEAN
    <3>1. overlapped' = overlapped \/ overlapped' = (overlapped \/ Overlaps(p))
      BY <1>5 DEF RequestStep, Work, SyncFail, SyncFind, SyncLoad, SyncWrite, SyncBreak, StartWrite, TickFail, TickMark,
                  TickImport, TickRecord, Crash, ManualSync, StartRead, TickLoad
    <3> QED
      BY <1>2, <3>1
  <2> QED
    BY <1>3, <2>1, <2>2, <2>3, <2>4, <2>5
<1>6. CASE UNCHANGED <<catalogVars, syncVars>>
  BY <1>2, <1>3, <1>6 DEF catalogVars, syncVars, CatalogTypeOK
<1> QED
  BY <1>4, <1>5, <1>6, NextCases

-----------------------------------------------------------------------------
(* What the requests have in hand *)

LEMMA OthersStay ==
  ASSUME Types, NEW p \in Workers, NEW r, Becomes(p, r)
  PROVE  /\ Workers' = Workers /\ req'[p] = r
         /\ \A w \in Workers \ {p} : req'[w] = req[w]
BY DEF Types, TypeOK, Becomes, Workers

LEMMA StageKept ==
  ASSUME Types, StageInv, JobInv, [Next]_vars
  PROVE  StageInv'
<1>1. \A q : StageOK(q)' <=> StageOK(q)
  BY ShopFixed DEF StageOK, PendingIds, Importing
<1>2. CASE UNCHANGED req
  BY <1>1, <1>2 DEF StageInv, Workers
<1>3. ASSUME NEW p \in Workers, RequestStep(p) PROVE StageInv'
  <2>1. PICK r : Becomes(p, r)
    BY <1>3, Becoming
  <2>2. ASSUME NEW w \in Workers PROVE StageOK(req'[w])
    BY <2>1, OthersStay DEF Becomes, StageInv
  <2>3. ASSUME NEW w \in Workers' PROVE StageOK(req[w])'
    <3>1. PICK q : q = req'[w]
      OBVIOUS
    <3>2. StageOK(q)
      BY <2>1, <2>2, <3>1, OthersStay
    <3> QED
      BY <1>1, <3>1, <3>2
  <2> QED
    BY <2>3 DEF StageInv
<1> QED
  BY <1>2, <1>3, NextCases DEF syncVars

-----------------------------------------------------------------------------
(* Jobs *)

\* What a tick records: one supplier more than its row had.
LEMMA OneMore ==
  ASSUME Types, NEW row \in JobRow, NEW finished, RowOK(row, finished), finished \subseteq Syncable,
         NEW sup \in Syncable, row.results[sup] = "none", NEW outcome \in Outcomes \ {"none"}
  PROVE  LET results == [row.results EXCEPT ![sup] = outcome]
             now == {s \in Suppliers : results[s] # "none"}
         IN /\ now = Tried(row) \cup {sup} /\ now \subseteq finished \cup {sup}
            /\ row.done + 1 <= Cardinality(now) /\ row.done \in Nat /\ Cardinality(now) \in Nat
            /\ row.done + 1 >= Cardinality(Syncable) => finished \cup {sup} = Syncable
<1> DEFINE results == [row.results EXCEPT ![sup] = outcome]
           now == {s \in Suppliers : results[s] # "none"}
<1>1. /\ row.results \in [Suppliers -> Outcomes] /\ row.done \in Nat
      /\ sup \in Suppliers /\ Tried(row) \subseteq Syncable /\ sup \notin Tried(row)
  BY RowTypes DEF JobRow, Syncable, RowOK, Tried
<1>2. now = Tried(row) \cup {sup}
  BY <1>1 DEF Tried
<1>3. IsFiniteSet(Tried(row)) /\ Cardinality(Tried(row)) \in Nat
  BY <1>1, SyncableCount, FS_Subset, FS_CardinalityType
<1>4. Cardinality(now) = Cardinality(Tried(row)) + 1
  BY <1>1, <1>2, <1>3, FS_AddElement
<1>5. now \subseteq Syncable
  BY <1>1, <1>2
<1>6. Cardinality(now) <= Cardinality(Syncable) /\ (Cardinality(Syncable) = Cardinality(now) => Syncable = now)
  BY <1>5, SyncableCount, FS_Subset
<1> HIDE DEF now
<1>7. row.done <= Cardinality(Tried(row)) /\ Tried(row) \subseteq finished
  BY DEF RowOK
<1>8. row.done + 1 >= Cardinality(Syncable) => Syncable = now
  BY <1>1, <1>3, <1>4, <1>6, <1>7, SyncableCount
<1>9. row.done + 1 <= Cardinality(now) /\ Cardinality(now) \in Nat
  BY <1>1, <1>3, <1>4, <1>7
<1> QED
  BY <1>1, <1>2, <1>7, <1>8, <1>9 DEF now

\* The tick's record in the stored row.
LEMMA RecordedJob ==
  ASSUME Types, StageInv, JobInv, NEW p \in Workers, TickRecord(p)
  PROVE  /\ \A j \in Jobs : JobOK(job'[j], attempted'[j])
         /\ attempted' = [attempted EXCEPT ![req[p].job] = @ \cup {req[p].sup}]
<1>1. PICK q \in Request : q = req[p]
  BY DEF Types, TypeOK
<1>2. PICK j \in Jobs : j = q.job
  BY <1>1 DEF TickRecord, StageInv, StageOK, Request
<1>3. /\ q.row \in JobRow /\ q.row.results \in [Suppliers -> Outcomes] /\ q.sup \in Syncable
      /\ q.row.results[q.sup] = "none" /\ q.outcome \in Outcomes \ {"none"} /\ Syncable # {}
  BY <1>1, <1>2, SyncAssumption DEF TickRecord, StageInv, StageOK, Request, JobRow
<1>4. /\ \A i \in Jobs : JobOK(job[i], attempted[i]) /\ job[i] \in JobRow
      /\ RowOK(q.row, attempted[j]) /\ attempted[j] \subseteq Syncable
      /\ attempted \in [Jobs -> SUBSET Suppliers] /\ job \in [Jobs -> JobRow] /\ backend \in {"sqlite", "d1"}
  BY <1>1, <1>2, CatalogAssumption, SyncAssumption
     DEF JobInv, JobOK, Types, TypeOK, CatalogTypeOK, backend, TickRecord
<1> DEFINE finished == attempted[j] \cup {q.sup}
           results == [q.row.results EXCEPT ![q.sup] = q.outcome]
           now == {s \in Suppliers : results[s] # "none"}
           ended == Done(q.row) >= Cardinality(Syncable)
<1>5. attempted' = [attempted EXCEPT ![j] = @ \cup {q.sup}]
  BY <1>1, <1>2 DEF TickRecord
<1>6. attempted'[j] = finished /\ \A i \in Jobs \ {j} : attempted'[i] = attempted[i]
  BY <1>4, <1>5
<1>7. /\ now \subseteq finished /\ q.row.done + 1 <= Cardinality(now)
      /\ q.row.done \in Nat /\ Cardinality(now) \in Nat
      /\ q.row.done + 1 >= Cardinality(Syncable) => finished = Syncable
  <2>1. PICK row \in JobRow, seen \in SUBSET Syncable, sup \in Syncable, outcome \in Outcomes \ {"none"} :
          row = q.row /\ seen = attempted[j] /\ sup = q.sup /\ outcome = q.outcome
    BY <1>3, <1>4
  <2>2. RowOK(row, seen) /\ seen \subseteq Syncable /\ row.results[sup] = "none"
    BY <1>3, <1>4, <2>1
  <2>3. LET rs == [row.results EXCEPT ![sup] = outcome]
            nw == {s \in Suppliers : rs[s] # "none"}
        IN /\ nw = Tried(row) \cup {sup} /\ nw \subseteq seen \cup {sup}
           /\ row.done + 1 <= Cardinality(nw) /\ row.done \in Nat /\ Cardinality(nw) \in Nat
           /\ row.done + 1 >= Cardinality(Syncable) => seen \cup {sup} = Syncable
    BY <2>2, OneMore
  <2> QED
    BY <2>1, <2>3
<1>8. Done(q.row) = q.row.done + 1 /\ (ended => finished = Syncable) /\ finished \subseteq Syncable
  BY <1>3, <1>4, <1>7 DEF Done
<1>9. ASSUME NEW status \in {"running", "completed", "failed"}, status # "running" => ended,
             backend = "d1",
             job' = [job EXCEPT ![j] = [q.row EXCEPT !.status = status, !.results = results,
                                                     !.done = Min({Done(q.row), Cardinality(Syncable)})]]
      PROVE  JobOK(job'[j], finished) /\ \A i \in Jobs \ {j} : job'[i] = job[i]
  <2> DEFINE count == Min({Done(q.row), Cardinality(Syncable)})
             row == [q.row EXCEPT !.status = status, !.results = results, !.done = count]
  <2>1. count <= Cardinality(now)
    <3>1. {Done(q.row), Cardinality(Syncable)} \subseteq Nat
      BY <1>7, <1>8, SyncableCount
    <3>2. count \in Nat /\ count <= Done(q.row)
      BY <3>1, MinIn
    <3> QED
      BY <1>7, <1>8, <3>2
  <2> HIDE DEF count, results
  <2>2. row.status = status /\ row.results = results /\ row.done = count
    BY <1>3 DEF JobRow
  <2>3. job'[j] = row /\ \A i \in Jobs \ {j} : job'[i] = job[i]
    BY <1>4, <1>9 DEF count, results
  <2> HIDE DEF row
  <2>4. Tried(row) = now
    BY <2>2 DEF Tried
  <2>5. JobOK(row, finished)
    BY <1>3, <1>7, <1>8, <1>9, <2>1, <2>2, <2>4 DEF JobOK, RowOK
  <2> QED
    BY <2>3, <2>5
<1>10. ASSUME backend # "d1", NEW status, job' = [job EXCEPT ![j].status = status],
              status \in {"completed", "failed"} => ended \/ status = job[j].status
       PROVE  JobOK(job'[j], finished) /\ \A i \in Jobs \ {j} : job'[i] = job[i]
  <2> DEFINE row == [job[j] EXCEPT !.status = status]
  <2>1. row.status = status /\ row.results = job[j].results /\ row.done = job[j].done
    BY <1>4 DEF JobRow
  <2>2. job'[j] = row /\ \A i \in Jobs \ {j} : job'[i] = job[i]
    BY <1>4, <1>10
  <2> HIDE DEF row
  <2>3. Tried(row) = Tried(job[j])
    BY <2>1 DEF Tried
  <2>4. JobOK(job[j], attempted[j])
    BY <1>4
  <2>5. RowOK(row, finished)
    BY <2>1, <2>3, <2>4 DEF JobOK, RowOK
  <2>6. row.status \in {"completed", "failed"} => finished = Syncable
    BY <1>3, <1>8, <1>10, <2>1, <2>4 DEF JobOK
  <2>7. JobOK(row, finished)
    BY <1>3, <1>8, <2>5, <2>6 DEF JobOK
  <2> QED
    BY <2>2, <2>7
<1>11. JobOK(job'[j], finished) /\ \A i \in Jobs \ {j} : job'[i] = job[i]
  <2>1. CASE backend = "d1"
    <3>1. PICK status : /\ status = IF ended THEN Finished(results) ELSE "running"
                        /\ job' = [job EXCEPT ![j] = [q.row EXCEPT !.status = status, !.results = results,
                                                                   !.done = Min({Done(q.row), Cardinality(Syncable)})]]
      BY <1>1, <1>2, <2>1 DEF TickRecord
    <3>2. status \in {"running", "completed", "failed"} /\ (status # "running" => ended)
      BY <3>1 DEF Finished
    <3> HIDE DEF results
    <3> QED
      BY <1>9, <2>1, <3>1, <3>2
  <2>2. CASE backend # "d1"
    <3>1. job' = [job EXCEPT ![j].status = IF ended THEN Finished(results)
                                           ELSE IF @ = "pending" THEN "running" ELSE @]
      BY <1>1, <1>2, <2>2 DEF TickRecord
    <3>2. PICK status : /\ status = IF ended THEN Finished(results)
                                    ELSE IF job[j].status = "pending" THEN "running" ELSE job[j].status
                        /\ job' = [job EXCEPT ![j].status = status]
      BY <3>1
    <3>3. status \in {"completed", "failed"} => ended \/ status = job[j].status
      BY <3>2
    <3> HIDE DEF results
    <3> QED
      BY <1>10, <2>2, <3>2, <3>3
  <2> QED
    BY <2>1, <2>2
<1> QED
  BY <1>1, <1>2, <1>4, <1>5, <1>6, <1>11

LEMMA JobsKept ==
  ASSUME Types, StageInv, JobInv, NEW p \in Workers, RequestStep(p)
  PROVE  \A j \in Jobs : JobOK(job'[j], attempted'[j]) /\ attempted[j] \subseteq attempted'[j]
<1>1. PICK q \in Request : q = req[p]
  BY DEF Types, TypeOK
<1>2. /\ \A j \in Jobs : JobOK(job[j], attempted[j]) /\ job[j] \in JobRow
      /\ attempted \in [Jobs -> SUBSET Suppliers] /\ job \in [Jobs -> JobRow]
      /\ q.row \in JobRow /\ Syncable \subseteq Suppliers
  BY <1>1 DEF JobInv, Types, TypeOK, Request, Syncable
<1>3. CASE TickRecord(p)
  BY <1>1, <1>2, <1>3, RecordedJob
<1>4. CASE StartWrite(p)
  <2> DEFINE unused == {j \in Jobs : job[j].status = "none"}
             row == [NoJob EXCEPT !.status = "pending", !.opts = q.opts]
  <2>1. unused # {} /\ unused \subseteq Nat
    BY <1>4, SyncAssumption DEF StartWrite
  <2>2. PICK m \in Jobs : m = Min(unused)
    BY <2>1, MinIn
  <2>3. row.status = "pending" /\ Tried(row) = {} /\ row.done = 0
    BY RowTypes DEF JobRow, Tried
  <2>4. job' = [job EXCEPT ![m] = row] /\ attempted' = attempted /\ Syncable # {}
    BY <1>1, <1>4, <2>2 DEF StartWrite, StageInv, StageOK
  <2> HIDE DEF row
  <2>5. JobOK(row, attempted[m])
    BY <1>2, <2>3, <2>4, FS_EmptySet DEF JobOK, RowOK
  <2> QED
    BY <1>2, <2>4, <2>5
<1>5. CASE TickMark(p)
  <2> DEFINE a == [q.row EXCEPT !.status = "completed", !.done = Cardinality(Syncable)]
             b == [q.row EXCEPT !.status = "running"]
             all == PendingIds(q.row.results) = {}
  <2>1. PICK j \in Jobs : j = q.job
    BY <1>1, <1>5 DEF TickMark, StageInv, StageOK, Request
  <2>2. RowOK(q.row, attempted[j]) /\ Syncable # {} /\ attempted[j] \subseteq Syncable
    BY <1>1, <1>2, <1>5, <2>1, SyncAssumption DEF TickMark, StageInv, StageOK, JobInv, JobOK
  <2>3. /\ a.status = "completed" /\ a.results = q.row.results /\ a.done = Cardinality(Syncable)
        /\ b.status = "running" /\ b.results = q.row.results /\ b.done = q.row.done
    BY <1>2 DEF JobRow
  <2>4. job' = [job EXCEPT ![j] = IF all THEN a ELSE b] /\ attempted' = attempted
    BY <1>1, <1>5, <2>1 DEF TickMark
  <2> HIDE DEF a, b
  <2>5. Tried(a) = Tried(q.row) /\ Tried(b) = Tried(q.row)
    BY <2>3 DEF Tried
  <2>6. all => Tried(q.row) = Syncable /\ attempted[j] = Syncable
    BY <1>2, <2>2 DEF RowOK, Tried, PendingIds
  <2>7. JobOK(b, attempted[j])
    BY <2>2, <2>3, <2>5 DEF JobOK, RowOK
  <2>8. all => JobOK(a, attempted[j])
    BY <2>2, <2>3, <2>5, <2>6, SyncableCount DEF JobOK, RowOK
  <2> HIDE DEF all
  <2>9. JobOK(job'[j], attempted[j]) /\ \A i \in Jobs \ {j} : job'[i] = job[i]
    BY <1>2, <2>4, <2>7, <2>8
  <2> QED
    BY <1>2, <2>4, <2>9
<1>6. CASE TickImport(p)
  <2>1. PICK j \in Jobs : j = q.job
    BY <1>1, <1>6 DEF TickImport, StageInv, StageOK, Request
  <2>2. /\ RowOK(q.row, attempted[j]) /\ Syncable # {} /\ backend = "sqlite" /\ attempted' = attempted
    BY <1>1, <1>2, <1>6, <2>1, SyncAssumption DEF TickImport, StageInv, StageOK, JobInv, JobOK
  <2> DEFINE status == IF job[j].status = "pending" THEN "running" ELSE job[j].status
             row == [job[j] EXCEPT !.status = status, !.results = q.row.results]
  <2>3. job' = [job EXCEPT ![j].status = IF @ = "pending" THEN "running" ELSE @, ![j].results = q.row.results]
    BY <1>1, <1>6, <2>1 DEF TickImport
  <2>4. job' = [job EXCEPT ![j] = row]
    BY <1>2, <2>3
  <2>5. row.status = status /\ row.results = q.row.results /\ row.done = job[j].done
    BY <1>2 DEF JobRow
  <2> HIDE DEF row
  <2>6. Tried(row) = {} /\ Tried(job[j]) = {}
    BY <1>2, <2>2, <2>5 DEF Tried, RowOK, JobOK
  <2>7. JobOK(row, attempted[j])
    <3>1. JobOK(job[j], attempted[j])
      BY <1>2
    <3> QED
      BY <2>2, <2>5, <2>6, <3>1 DEF JobOK, RowOK
  <2> QED
    BY <1>2, <2>2, <2>4, <2>7
<1>7. CASE ~(StartWrite(p) \/ TickMark(p) \/ TickImport(p) \/ TickRecord(p))
  <2>1. job' = job /\ attempted' = attempted
    BY <1>7 DEF RequestStep, Work, SyncFail, SyncFind, SyncLoad, SyncWrite, SyncBreak, TickFail, Crash, ManualSync,
                StartRead, TickLoad
  <2> QED
    BY <1>2, <2>1
<1> QED
  BY <1>3, <1>4, <1>5, <1>6, <1>7

LEMMA JobKept ==
  ASSUME Types, StageInv, JobInv, [Next]_vars
  PROVE  JobInv'
<1>1. /\ \A row, finished : RowOK(row, finished)' <=> RowOK(row, finished)
      /\ \A row, finished : JobOK(row, finished)' <=> JobOK(row, finished)
  BY ShopFixed DEF RowOK, JobOK, Tried
<1>2. ASSUME \A j \in Jobs : JobOK(job'[j], attempted'[j]),
             \A w \in Workers' : req'[w].at # "idle" /\ req'[w].job # 0 => RowOK(req'[w].row, attempted'[req'[w].job])
      PROVE  JobInv'
  <2>1. ASSUME NEW j \in Jobs PROVE JobOK(job[j], attempted[j])'
    <3>1. PICK row, finished : row = job'[j] /\ finished = attempted'[j]
      OBVIOUS
    <3> QED
      BY <1>1, <1>2, <3>1
  <2>2. ASSUME NEW w \in Workers', req'[w].at # "idle", req'[w].job # 0
        PROVE  RowOK(req[w].row, attempted[req[w].job])'
    <3>1. PICK row, finished : row = req'[w].row /\ finished = attempted'[req'[w].job]
      OBVIOUS
    <3> QED
      BY <1>1, <1>2, <2>2, <3>1
  <2> QED
    BY <2>1, <2>2 DEF JobInv
<1>3. CASE UNCHANGED <<job, req, attempted>>
  BY <1>2, <1>3 DEF JobInv, Workers
<1>4. ASSUME NEW p \in Workers, RequestStep(p) PROVE JobInv'
  <2>1. PICK r : Becomes(p, r)
    BY <1>4, Becoming
  <2>2. \A j \in Jobs : JobOK(job'[j], attempted'[j]) /\ attempted[j] \subseteq attempted'[j]
    BY <1>4, JobsKept
  <2>3. Workers' = Workers /\ req'[p] = r /\ \A w \in Workers \ {p} : req'[w] = req[w]
    BY <2>1, OthersStay
  <2>4. ASSUME NEW w \in Workers, req[w].at # "idle", req[w].job # 0
        PROVE  RowOK(req[w].row, attempted'[req[w].job]) /\ req[w].job \in Jobs
    <3>1. req[w].job \in Jobs
      BY <2>4 DEF Types, TypeOK
    <3> QED
      BY <2>2, <2>4, <3>1 DEF JobInv, RowOK
  <2>5. r.at # "idle" /\ r.job # 0 => RowOK(r.row, attempted'[r.job])
    <3>1. ASSUME r.job \in Jobs, r.row = job[r.job], attempted' = attempted
          PROVE  RowOK(r.row, attempted'[r.job])
      BY <3>1 DEF JobInv, JobOK
    <3> QED
      BY <2>1, <2>4, <3>1 DEF Becomes
  <2>6. ASSUME NEW w \in Workers', req'[w].at # "idle", req'[w].job # 0
        PROVE  RowOK(req'[w].row, attempted'[req'[w].job])
    <3>1. CASE w = p
      BY <2>3, <2>5, <2>6, <3>1
    <3>2. CASE w # p
      BY <2>3, <2>4, <2>6, <3>2
    <3> QED
      BY <3>1, <3>2
  <2> QED
    BY <1>2, <2>2, <2>6
<1> QED
  BY <1>3, <1>4, NextCases DEF syncVars

-----------------------------------------------------------------------------
(* Rows and their stock *)

\* What RowsInv and StockKept say of one variant row.
VariantOK(v, row, units, good) ==
  /\ row.status = "none" => units = 0
  /\ row.status # "none" => good # "none"
  /\ backend = "sqlite" /\ GoodOf(v[1]) \in Suppliers /\ row.status # "none" => row.stock + units = CatalogStock

VariantsOK == \A v \in VRows : VariantOK(v, variant[v], taken[v], product[<<GoodOf(v[1]), variant[v].of>>].status)

LEMMA RowsSplit ==
  RowsInv /\ StockKept <=> VariantsOK /\ (form.open = "edit" => ~Synced(form.row))
BY DEF RowsInv, StockKept, VariantsOK, VariantOK

LEMMA ImportKeepsRows ==
  ASSUME Types, StageInv, JobInv, RowsInv, StockKept, NEW p \in Workers,
         SyncWrite(p) \/ SyncBreak(p) \/ TickImport(p), NEW v \in VRows
  PROVE  VariantOK(v, variant'[v], taken'[v], product'[<<GoodOf(v[1]), variant'[v].of>>].status)
<1>1. PICK q : Ready(q) /\ Imported(q, CopyOf(q))
  BY Importers
<1>2. PICK copy \in Copies : copy = CopyOf(q)
  BY <1>1, CopyType DEF Ready
<1>3. Imported(q, copy) /\ taken' = taken
  BY <1>1, <1>2, Importers
<1>4. VariantOK(v, variant[v], taken[v], product[<<GoodOf(v[1]), variant[v].of>>].status)
  BY RowsSplit DEF VariantsOK
<1>5. variant[v] \in VariantRow /\ CatalogStock \in Nat
  BY CatalogAssumption DEF Types, TypeOK, CatalogTypeOK
<1>6. CASE variant[v].status # "none"
  <2>1. /\ variant'[v].status # "none" /\ variant'[v].of = variant[v].of
        /\ backend = "sqlite" => variant'[v].stock = variant[v].stock
    BY <1>3, <1>6 DEF Imported
  <2>2. <<GoodOf(v[1]), variant[v].of>> \in PRows
    BY <1>5, KeyOwner, RowParts DEF VariantRow
  <2>3. product'[<<GoodOf(v[1]), variant[v].of>>].status # "none"
    BY <1>3, <1>4, <1>6, <2>2 DEF Imported, VariantOK
  <2> QED
    BY <1>3, <1>4, <1>6, <2>1, <2>3 DEF VariantOK
<1>7. CASE variant[v].status = "none" /\ variant'[v].status # "none"
  <2>1. variant'[v].of = copy /\ variant'[v].stock = CatalogStock /\ v[1] \in q.feed
    BY <1>3, <1>7 DEF Imported
  <2>2. GoodOf(v[1]) = q.sup
    BY <1>1, <2>1, KeyOwner DEF Ready, Goods
  <2>3. product'[<<q.sup, copy>>].status # "none"
    BY <1>3, <2>1 DEF Imported
  <2> QED
    BY <1>3, <1>4, <1>5, <1>7, <2>1, <2>2, <2>3 DEF VariantOK
<1>8. CASE variant[v].status = "none" /\ variant'[v].status = "none"
  BY <1>3, <1>4, <1>8 DEF VariantOK
<1> QED
  BY <1>6, <1>7, <1>8

\* Where no product row goes, and a variant row keeps its product, its units and its
\* stock together, nothing is lost.
LEMMA RowStays ==
  ASSUME Types, VariantsOK, NEW v \in VRows,
         \A r \in PRows : product[r].status # "none" => product'[r].status # "none",
         variant'[v].of = variant[v].of, variant'[v].status = "none" <=> variant[v].status = "none",
         variant[v].status = "none" => taken'[v] = taken[v],
         GoodOf(v[1]) \in Suppliers => variant'[v].stock + taken'[v] = variant[v].stock + taken[v]
  PROVE  VariantOK(v, variant'[v], taken'[v], product'[<<GoodOf(v[1]), variant'[v].of>>].status)
<1>1. VariantOK(v, variant[v], taken[v], product[<<GoodOf(v[1]), variant[v].of>>].status)
  BY DEF VariantsOK
<1>2. <<GoodOf(v[1]), variant[v].of>> \in PRows
  BY KeyOwner, RowParts DEF VariantRow, Types, TypeOK, CatalogTypeOK
<1> QED
  BY <1>1, <1>2 DEF VariantOK

LEMMA CatalogKeepsRows ==
  ASSUME Types, RowsInv, StockKept, CatalogNext, NEW v \in VRows
  PROVE  VariantOK(v, variant'[v], taken'[v], product'[<<GoodOf(v[1]), variant'[v].of>>].status)
<1>1. /\ product \in [PRows -> ProductRow] /\ variant \in [VRows -> VariantRow]
      /\ taken \in [VRows -> 0 .. CatalogStock] /\ CatalogStock \in Nat /\ form.row \in PRows
      /\ \A s \in FormStatuses : s # "none"
      /\ VariantsOK /\ (form.open = "edit" => ~Synced(form.row))
  BY RowsSplit, CatalogAssumption DEF Types, TypeOK, CatalogTypeOK
<1>2. variant[v] \in VariantRow /\ taken[v] \in Nat /\ variant[v].stock \in Nat /\ variant[v].status # "taken"
  BY <1>1 DEF VariantRow
<1>3. ASSUME NEW w \in VRows, Reserve(w) \/ Release(w)
      PROVE  VariantOK(v, variant'[v], taken'[v], product'[<<GoodOf(v[1]), variant'[v].of>>].status)
  <2>1. /\ variant'[v].of = variant[v].of /\ variant'[v].status = variant[v].status
        /\ v # w => variant'[v] = variant[v] /\ taken'[v] = taken[v]
        /\ v = w => variant'[v].stock + taken'[v] = variant[v].stock + taken[v]
        /\ variant[w].status = "active" \/ taken[w] > 0
    <3>1. CASE Reserve(w)
      <4>1. variant' = [variant EXCEPT ![w].stock = @ - 1] /\ taken' = [taken EXCEPT ![w] = @ + 1] /\ variant[w].status = "active"
        BY <3>1 DEF Reserve
      <4>2. v = w => variant'[v].stock = variant[v].stock - 1 /\ taken'[v] = taken[v] + 1
        BY <1>1, <4>1 DEF VariantRow
      <4>3. /\ variant'[v].of = variant[v].of /\ variant'[v].status = variant[v].status
            /\ v # w => variant'[v] = variant[v] /\ taken'[v] = taken[v]
        BY <1>1, <4>1 DEF VariantRow
      <4>4. v = w => variant'[v].stock + taken'[v] = variant[v].stock + taken[v]
        BY <1>2, <4>2
      <4> QED
        BY <4>1, <4>3, <4>4
    <3>2. CASE Release(w)
      <4>1. variant' = [variant EXCEPT ![w].stock = @ + 1] /\ taken' = [taken EXCEPT ![w] = @ - 1] /\ taken[w] > 0
        BY <3>2 DEF Release
      <4>2. v = w => variant'[v].stock = variant[v].stock + 1 /\ taken'[v] = taken[v] - 1
        BY <1>1, <4>1 DEF VariantRow
      <4>3. /\ variant'[v].of = variant[v].of /\ variant'[v].status = variant[v].status
            /\ v # w => variant'[v] = variant[v] /\ taken'[v] = taken[v]
        BY <1>1, <4>1 DEF VariantRow
      <4>4. v = w => variant'[v].stock + taken'[v] = variant[v].stock + taken[v]
        BY <1>2, <4>2
      <4> QED
        BY <4>1, <4>3, <4>4
    <3> QED
      BY <1>3, <3>1, <3>2
  <2>2. \A x \in PRows : product'[x].status = product[x].status
    <3>1. PICK r \in PRows : r = <<GoodOf(w[1]), variant[w].of>>
      BY <1>1, KeyOwner, RowParts DEF VariantRow
    <3>2. CASE product' = product
      BY <3>2
    <3>3. CASE product' # product
      <4>1. PICK n \in {ListingStock(r, variant), ListingStock(r, variant')} : product' = [product EXCEPT ![r].shown = n]
        BY <1>3, <3>1, <3>3 DEF Reserve, Release
      <4> QED
        BY <1>1, <4>1 DEF ProductRow
    <3> QED
      BY <3>2, <3>3
  <2>5. variant[v].status = "none" => taken'[v] = taken[v]
    <3>1. variant[v].status = "none" => taken[v] = 0
      BY <1>1 DEF VariantsOK, VariantOK
    <3> QED
      BY <2>1, <3>1
  <2>6. variant'[v].stock + taken'[v] = variant[v].stock + taken[v]
    BY <2>1
  <2> QED
    BY <1>1, <2>1, <2>2, <2>5, <2>6, RowStays
<1>4. CASE CreateProduct
  <2>1. PICK stock \in FormStocks, status \in FormStatuses :
          /\ product' = [product EXCEPT ![<<Own, 1>>] = [status |-> status, shown |-> stock]]
          /\ taken' = taken
          /\ \/ variant' = [w \in VRows |-> IF w \in KeysOf[Own] \X {1}
                                            THEN [status |-> "active", of |-> 1, stock |-> stock]
                                            ELSE variant[w]]
             \/ variant' = variant
    BY <1>4 DEF CreateProduct
  <2>2. <<Own, 1>> \in PRows
    BY RowParts DEF Goods
  <2>3. \A r \in PRows : product[r].status # "none" => product'[r].status # "none"
    BY <1>1, <2>1
  <2>4. CASE variant'[v] = variant[v]
    BY <1>1, <2>1, <2>3, <2>4, RowStays
  <2>5. CASE variant'[v] # variant[v]
    <3>1. v \in KeysOf[Own] \X {1} /\ variant'[v] = [status |-> "active", of |-> 1, stock |-> stock]
      BY <2>1, <2>5
    <3>2. v[1] \in KeysOf[Own]
      BY <3>1
    <3>3. GoodOf(v[1]) = Own /\ Own \notin Suppliers
      BY <3>2, KeyOwner, CatalogAssumption DEF Goods
    <3>4. variant'[v].status = "active" /\ variant'[v].of = 1
      BY <3>1
    <3>5. product'[<<Own, 1>>].status # "none"
      BY <1>1, <2>1, <2>2
    <3> QED
      BY <3>3, <3>4, <3>5 DEF VariantOK
  <2> QED
    BY <2>4, <2>5
<1>5. CASE DropForm \/ \E r \in PRows : OpenForm(r) \/ DeleteRead(r)
  <2>1. UNCHANGED <<product, variant, taken>>
    BY <1>5 DEF DropForm, OpenForm, DeleteRead
  <2> QED
    BY <1>1, <2>1, RowStays
<1>6. CASE DeleteWrite
  <2> DEFINE r == form.row
             gone == v \in VariantsOf(r, variant)
  <2>1. /\ product' = [product EXCEPT ![r] = NoProduct]
        /\ variant'[v] = IF gone THEN NoVariant ELSE variant[v]
        /\ taken'[v] = IF gone THEN 0 ELSE taken[v]
    BY <1>6 DEF DeleteWrite
  <2>2. CASE gone
    BY <2>1, <2>2 DEF VariantOK, NoVariant
  <2>3. CASE ~gone /\ variant[v].status # "none"
    <3>1. <<GoodOf(v[1]), variant[v].of>> # r /\ <<GoodOf(v[1]), variant[v].of>> \in PRows
      <4>1. v \in KeysOf[GoodOf(v[1])] \X Copies /\ <<GoodOf(v[1]), variant[v].of>> \in PRows
        <5>1. v[1] \in KeysOf[GoodOf(v[1])] /\ GoodOf(v[1]) \in Goods /\ variant[v].of \in Copies
          BY <1>2, KeyOwner, RowParts DEF VariantRow
        <5>2. PICK k \in KeysOf[GoodOf(v[1])], i \in Copies : v = <<k, i>>
          BY <5>1, RowParts
        <5>3. v \in KeysOf[GoodOf(v[1])] \X Copies
          BY <5>2
        <5> QED
          BY <5>1, <5>3, RowParts
      <4>2. ASSUME <<GoodOf(v[1]), variant[v].of>> = r PROVE FALSE
        <5>1. r[1] = GoodOf(v[1]) /\ r[2] = variant[v].of
          BY <4>2
        <5> HIDE DEF r
        <5>2. v \in VariantsOf(r, variant)
          BY <2>3, <4>1, <5>1 DEF VariantsOf
        <5> QED
          BY <2>3, <5>2
      <4> QED
        BY <4>1, <4>2
    <3>2. product'[<<GoodOf(v[1]), variant[v].of>>] = product[<<GoodOf(v[1]), variant[v].of>>]
      BY <1>1, <2>1, <3>1
    <3> QED
      BY <1>1, <2>1, <2>3, <3>2 DEF VariantsOK, VariantOK
  <2>4. CASE ~gone /\ variant[v].status = "none"
    BY <1>1, <2>1, <2>4 DEF VariantsOK, VariantOK
  <2> QED
    BY <2>2, <2>3, <2>4
<1>7. ASSUME NEW status \in FormStatuses, SaveManual(status)
      PROVE  VariantOK(v, variant'[v], taken'[v], product'[<<GoodOf(v[1]), variant'[v].of>>].status)
  <2>1. PICK choice \in {"active", "archived"} : variant' = AsTyped(form.row, choice)
    BY <1>7 DEF SaveManual
  <2>2. \A x \in PRows : product[x].status # "none" => product'[x].status # "none"
    <3>1. \E n : product' = [product EXCEPT ![form.row] = [status |-> status, shown |-> n]]
      BY <1>7 DEF SaveManual
    <3> QED
      BY <1>1, <3>1
  <2>3. taken' = taken /\ ~Synced(form.row)
    BY <1>1, <1>7 DEF SaveManual
  <2>4. CASE v \in VariantsOf(form.row, variant)
    <3> DEFINE x == [variant[v] EXCEPT !.stock = form.stock, !.status = choice]
    <3>1. x.of = variant[v].of /\ x.status = choice
      BY <1>2 DEF VariantRow
    <3>2. variant'[v] = x
      BY <2>1, <2>4 DEF AsTyped
    <3>3. variant[v].status # "none" /\ GoodOf(v[1]) \notin Suppliers
      BY <1>1, <2>3, <2>4, KeyOwner, RowParts DEF VariantsOf, Synced
    <3> HIDE DEF x
    <3> QED
      BY <1>1, <2>1, <2>2, <2>3, <3>1, <3>2, <3>3, RowStays
  <2>5. CASE v \notin VariantsOf(form.row, variant)
    <3>1. variant'[v] = variant[v]
      BY <2>1, <2>5 DEF AsTyped
    <3> QED
      BY <1>1, <2>2, <2>3, <3>1, RowStays
  <2> QED
    BY <2>4, <2>5
<1>8. ASSUME NEW r \in PRows, NEW status \in FormStatuses, SaveImported(r, status) \/ RejectForm(r, status)
      PROVE  VariantOK(v, variant'[v], taken'[v], product'[<<GoodOf(v[1]), variant'[v].of>>].status)
  <2>1. \A x \in PRows : product[x].status # "none" => product'[x].status # "none"
    BY <1>1, <1>8 DEF SaveImported, RejectForm, ProductRow
  <2>2. UNCHANGED <<variant, taken>>
    BY <1>8 DEF SaveImported, RejectForm
  <2> QED
    BY <1>1, <2>1, <2>2, RowStays
<1> QED
  BY <1>3, <1>4, <1>5, <1>6, <1>7, <1>8 DEF CatalogNext

LEMMA RowsKept ==
  ASSUME Types, StageInv, JobInv, RowsInv, StockKept, [Next]_vars
  PROVE  RowsInv' /\ StockKept'
<1>1. ASSUME NEW v \in VRows
      PROVE  VariantOK(v, variant'[v], taken'[v], product'[<<GoodOf(v[1]), variant'[v].of>>].status)
  <2>1. CASE CatalogNext
    BY <2>1, CatalogKeepsRows
  <2>2. CASE \E p \in Workers : SyncWrite(p) \/ SyncBreak(p) \/ TickImport(p)
    BY <2>2, ImportKeepsRows
  <2>3. CASE /\ UNCHANGED <<variant, taken>>
             /\ \A r \in PRows : product[r].status # "none" => product'[r].status # "none"
    BY <2>3, RowsSplit, RowStays
  <2>4. ASSUME NEW p \in Workers, RequestStep(p), ~(SyncWrite(p) \/ SyncBreak(p) \/ TickImport(p))
        PROVE  /\ UNCHANGED <<variant, taken>>
               /\ \A r \in PRows : product[r].status # "none" => product'[r].status # "none"
    <3>1. CASE SyncLoad(p)
      <4>1. \/ product' = product
            \/ product' = [product EXCEPT ![<<req[p].sup, CopyOf(req[p])>>] = [status |-> req[p].opts.as, shown |-> 0]]
        BY <3>1 DEF SyncLoad
      <4>2. req[p].opts.as # "none" /\ product \in [PRows -> ProductRow]
        BY SyncAssumption DEF Types, TypeOK, CatalogTypeOK, Request
      <4>3. UNCHANGED <<variant, taken>>
        BY <3>1 DEF SyncLoad
      <4>4. \A R : product' = [product EXCEPT ![R] = [status |-> req[p].opts.as, shown |-> 0]] =>
              \A r \in PRows : product[r].status # "none" => product'[r].status # "none"
        BY <4>2
      <4> QED
        BY <4>1, <4>3, <4>4
    <3>2. CASE ~SyncLoad(p)
      <4>1. UNCHANGED catalogVars
        BY <2>4, <3>2 DEF RequestStep, Work, SyncFail, SyncFind, StartWrite, TickFail, TickMark, TickRecord, Crash,
                          ManualSync, StartRead, TickLoad
      <4> QED
        BY <4>1 DEF catalogVars
    <3> QED
      BY <3>1, <3>2
  <2>5. CASE UNCHANGED catalogVars
    BY <2>3, <2>5 DEF catalogVars
  <2> QED
    BY <2>1, <2>2, <2>3, <2>4, <2>5, NextCases
<1>2. \A v \in VRows :
        /\ variant'[v].status = "none" => taken'[v] = 0
        /\ variant'[v].status # "none" => product'[<<GoodOf(v[1]), variant'[v].of>>].status # "none"
        /\ backend = "sqlite" /\ GoodOf(v[1]) \in Suppliers /\ variant'[v].status # "none" =>
             variant'[v].stock + taken'[v] = CatalogStock
  BY <1>1 DEF VariantOK
<1>3. form'.open = "edit" => ~Synced(form'.row)
  <2>1. form.open = "edit" => ~Synced(form.row)
    BY DEF RowsInv
  <2>2. ASSUME CatalogNext PROVE form'.open = "edit" => ~Synced(form'.row)
    <3>1. CASE UNCHANGED form
      BY <2>1, <3>1 DEF Synced
    <3>2. CASE form' # form
      <4>1. PICK r \in PRows : \/ form' = NoForm
                               \/ \E n : ~Synced(r) /\ form' = [open |-> "edit", row |-> r, stock |-> n]
                               \/ form' = [NoForm EXCEPT !.open = "delete", !.row = r]
        <5>1. PICK r \in PRows : TRUE
          BY RowParts DEF Goods
        <5> QED
          BY <2>2, <3>2, <5>1 DEF CatalogNext, Reserve, Release, CreateProduct, DropForm, DeleteWrite, SaveManual,
                                  OpenForm, DeleteRead, SaveImported, RejectForm
      <4>2. CASE form' = NoForm \/ form' = [NoForm EXCEPT !.open = "delete", !.row = r]
        <5>1. NoForm.open = "none" /\ [NoForm EXCEPT !.open = "delete", !.row = r].open = "delete"
          BY DEF NoForm
        <5>2. form'.open \in {"none", "delete"}
          BY <4>2, <5>1
        <5> QED
          BY <5>2
      <4>3. ASSUME NEW n, ~Synced(r), form' = [open |-> "edit", row |-> r, stock |-> n]
            PROVE  ~Synced(form'.row)
        BY <4>3
      <4> QED
        BY <4>1, <4>2, <4>3
    <3> QED
      BY <3>1, <3>2
  <2>3. ASSUME NEW p \in Workers, RequestStep(p) PROVE UNCHANGED form
    <3>1. CASE Work(p)
      BY <3>1 DEF Work, SyncFail, SyncFind, SyncLoad, SyncWrite, SyncBreak, StartWrite, TickFail, TickMark, TickImport,
                  TickRecord, catalogVars
    <3>2. CASE ~Work(p)
      BY <2>3, <3>2 DEF RequestStep, Crash, ManualSync, StartRead, TickLoad, catalogVars
    <3> QED
      BY <3>1, <3>2
  <2> QED
    BY <2>1, <2>2, <2>3, NextCases DEF catalogVars
<1> QED
  BY <1>2, <1>3, ShopFixed DEF RowsInv, StockKept, Synced

-----------------------------------------------------------------------------
(* One row per key *)

\* No row of good g appears in the step.
NoNew(g) ==
  /\ \A c \in Copies : product[<<g, c>>].status = "none" => product'[<<g, c>>].status = "none"
  /\ \A k \in KeysOf[g] : \A i \in Copies : variant[<<k, i>>].status = "none" => variant'[<<k, i>>].status = "none"

LEMMA CatalogMakesOwn ==
  ASSUME Types, RowsInv, CatalogNext
  PROVE  /\ \A r \in PRows : r[1] \in Suppliers /\ product[r].status = "none" => product'[r].status = "none"
         /\ \A v \in VRows : variant[v].status = "none" /\ variant'[v].status # "none" => v \in KeysOf[Own] \X {1}
<1>1. /\ product \in [PRows -> ProductRow] /\ variant \in [VRows -> VariantRow] /\ form.row \in PRows
      /\ Own \notin Suppliers /\ (form.open = "edit" => form.row[1] \notin Suppliers)
  BY CatalogAssumption DEF Types, TypeOK, CatalogTypeOK, RowsInv, Synced
<1>2. ASSUME NEW w \in VRows, Reserve(w) \/ Release(w)
      PROVE  /\ \A r \in PRows : product'[r].status = product[r].status
             /\ \A v \in VRows : variant'[v].status = variant[v].status
  <2>1. PICK r \in PRows : r = <<GoodOf(w[1]), variant[w].of>>
    BY <1>1, KeyOwner, RowParts DEF VariantRow
  <2>2. \/ product' = product
        \/ \E n \in {ListingStock(r, variant), ListingStock(r, variant')} : product' = [product EXCEPT ![r].shown = n]
    BY <1>2, <2>1 DEF Reserve, Release
  <2>3. \A x \in PRows : product'[x].status = product[x].status
    BY <1>1, <2>2 DEF ProductRow
  <2>4. \E n \in {variant[w].stock - 1, variant[w].stock + 1} : variant' = [variant EXCEPT ![w].stock = n]
    BY <1>1, <1>2 DEF Reserve, Release
  <2>5. \A v \in VRows : variant'[v].status = variant[v].status
    BY <1>1, <2>4 DEF VariantRow
  <2> QED
    BY <2>3, <2>5
<1>3. CASE CreateProduct
  <2>1. PICK stock \in FormStocks, status \in FormStatuses :
          /\ product' = [product EXCEPT ![<<Own, 1>>] = [status |-> status, shown |-> stock]]
          /\ \/ variant' = [w \in VRows |-> IF w \in KeysOf[Own] \X {1}
                                            THEN [status |-> "active", of |-> 1, stock |-> stock]
                                            ELSE variant[w]]
             \/ variant' = variant
    BY <1>3 DEF CreateProduct
  <2>2. \A r \in PRows : r[1] # Own => product'[r] = product[r]
    BY <1>1, <2>1
  <2>3. \A v \in VRows : v \notin KeysOf[Own] \X {1} => variant'[v] = variant[v]
    BY <2>1
  <2> QED
    BY <1>1, <2>2, <2>3
<1>4. CASE DropForm \/ \E r \in PRows : OpenForm(r) \/ DeleteRead(r)
  BY <1>4 DEF DropForm, OpenForm, DeleteRead
<1>5. CASE DeleteWrite
  <2>1. product' = [product EXCEPT ![form.row] = NoProduct]
    BY <1>5 DEF DeleteWrite
  <2>2. \A v \in VRows : variant'[v] = NoVariant \/ variant'[v] = variant[v]
    BY <1>5 DEF DeleteWrite
  <2>3. \A r \in PRows : product[r].status = "none" => product'[r].status = "none"
    BY <1>1, <2>1 DEF NoProduct
  <2> QED
    BY <2>2, <2>3 DEF NoVariant
<1>6. ASSUME NEW status \in FormStatuses, SaveManual(status)
      PROVE  /\ \A r \in PRows : r[1] \in Suppliers => product'[r] = product[r]
             /\ \A v \in VRows : variant[v].status = "none" => variant'[v] = variant[v]
  <2>1. PICK choice \in {"active", "archived"} : variant' = AsTyped(form.row, choice)
    BY <1>6 DEF SaveManual
  <2>2. product' = [product EXCEPT ![form.row] = [status |-> status, shown |-> ListingStock(form.row, variant')]]
        /\ form.open = "edit"
    BY <1>6 DEF SaveManual
  <2> QED
    BY <1>1, <2>1, <2>2 DEF AsTyped, VariantsOf
<1>7. ASSUME NEW r \in PRows, NEW status \in FormStatuses, SaveImported(r, status) \/ RejectForm(r, status)
      PROVE  /\ \A x \in PRows : product[x].status = "none" => product'[x].status = "none"
             /\ variant' = variant
  BY <1>1, <1>7 DEF SaveImported, RejectForm, ProductRow
<1> QED
  BY <1>2, <1>3, <1>4, <1>5, <1>6, <1>7 DEF CatalogNext

\* Only the requests that import make rows of a supplier's, and only of their own.
LEMMA RequestMakesOwn ==
  ASSUME Types, StageInv, JobInv, RowsInv, NEW p \in Workers, RequestStep(p)
  PROVE  /\ \A g \in Goods : g # req[p].sup => NoNew(g)
         /\ ~(SyncLoad(p) \/ SyncWrite(p) \/ SyncBreak(p) \/ TickImport(p)) => UNCHANGED <<product, variant>>
<1>1. CASE SyncWrite(p) \/ SyncBreak(p) \/ TickImport(p)
  <2>1. PICK q : Ready(q) /\ q.sup = req[p].sup /\ Imported(q, CopyOf(q))
    BY <1>1, Importers
  <2>2. PICK copy : Imported(q, copy)
    BY <2>1
  <2>3. ASSUME NEW g \in Goods, g # q.sup PROVE NoNew(g)
    <3>1. \A c \in Copies : product[<<g, c>>].status = "none" => product'[<<g, c>>].status = "none"
      BY <2>2, <2>3, RowParts DEF Imported
    <3>2. ASSUME NEW k \in KeysOf[g], NEW i \in Copies, variant[<<k, i>>].status = "none"
          PROVE  variant'[<<k, i>>].status = "none"
      <4>1. k \in Keys /\ k \notin KeysOf[q.sup]
        BY <2>1, <2>3, KeyOwner DEF Ready, Goods
      <4>2. variant'[<<k, i>>] = variant[<<k, i>>]
        BY <2>2, <4>1, RowParts DEF Imported
      <4> QED
        BY <3>2, <4>2
    <3> QED
      BY <3>1, <3>2 DEF NoNew
  <2> QED
    BY <1>1, <2>1, <2>3
<1>2. CASE SyncLoad(p)
  <2>1. PICK q \in Request : q = req[p]
    BY DEF Types, TypeOK
  <2>2. \/ product' = product
        \/ product' = [product EXCEPT ![<<q.sup, CopyOf(q)>>] = [status |-> q.opts.as, shown |-> 0]]
    BY <1>2, <2>1 DEF SyncLoad
  <2>3. variant' = variant /\ product \in [PRows -> ProductRow]
    BY <1>2 DEF SyncLoad, Types, TypeOK, CatalogTypeOK
  <2>4. ASSUME NEW g \in Goods, g # q.sup, NEW c \in Copies PROVE product'[<<g, c>>] = product[<<g, c>>]
    BY <2>2, <2>3, <2>4, RowParts
  <2> QED
    BY <1>2, <2>1, <2>3, <2>4 DEF NoNew
<1>3. CASE ~(SyncLoad(p) \/ SyncWrite(p) \/ SyncBreak(p) \/ TickImport(p))
  <2>1. UNCHANGED catalogVars
    BY <1>3 DEF RequestStep, Work, SyncFail, SyncFind, StartWrite, TickFail, TickMark, TickRecord, Crash,
                ManualSync, StartRead, TickLoad
  <2> QED
    BY <2>1 DEF catalogVars, NoNew
<1> QED
  BY <1>1, <1>2, <1>3

LEMMA NothingNew ==
  ASSUME NEW s \in Suppliers, NoNew(s)
  PROVE  /\ ProductsWithKey(s)' \subseteq ProductsWithKey(s)
         /\ \A k \in KeysOf[s] : VariantsWithKey(k)' \subseteq VariantsWithKey(k)
<1>1. ASSUME NEW k \in KeysOf[s], NEW v \in VariantsWithKey(k)' PROVE v \in VariantsWithKey(k)
  <2>1. PICK i \in Copies : v = <<k, i>> /\ variant'[<<k, i>>].status # "none"
    BY <1>1 DEF VariantsWithKey
  <2>2. variant[<<k, i>>].status # "none"
    BY <2>1 DEF NoNew
  <2> QED
    BY <2>1, <2>2 DEF VariantsWithKey
<1>2. ProductsWithKey(s)' \subseteq ProductsWithKey(s)
  BY DEF NoNew, ProductsWithKey
<1> QED
  BY <1>1, <1>2

LEMMA SoleStays ==
  ASSUME NEW s \in Suppliers, NoNew(s)
  PROVE  /\ SoleGood(s) => SoleGood(s)'
         /\ \A q : q.sup = s /\ q.feed \subseteq KeysOf[s] /\ Unmade(q) => Unmade(q)'
<1>1. /\ ProductsWithKey(s)' \subseteq ProductsWithKey(s)
      /\ \A k \in KeysOf[s] : VariantsWithKey(k)' \subseteq VariantsWithKey(k)
  BY NothingNew
<1>2. SoleGood(s) => SoleGood(s)'
  <2> SUFFICES ASSUME SoleGood(s) PROVE SoleGood(s)'
    OBVIOUS
  <2>1. \A c, d \in ProductsWithKey(s)' : c = d
    BY <1>1 DEF SoleGood
  <2>2. \A k \in KeysOf[s] : \A v, w \in VariantsWithKey(k)' : v = w
    BY <1>1 DEF SoleGood
  <2> QED
    BY <2>1, <2>2 DEF SoleGood
<1>3. ASSUME NEW q, q.sup = s, q.feed \subseteq KeysOf[s], Unmade(q) PROVE Unmade(q)'
  <2>1. q.feed # {} /\ q.copy = 0 => ProductsWithKey(s)' = {}
    BY <1>1, <1>3 DEF Unmade
  <2>2. q.at = "write" => \A k \in q.feed \ KeysAmong(q.known) : VariantsWithKey(k)' = {}
    BY <1>1, <1>3 DEF Unmade
  <2>3. ProductsWithKey(q.sup)' = ProductsWithKey(s)'
    BY <1>3
  <2> QED
    BY <2>1, <2>2, <2>3 DEF Unmade, KeysAmong
<1> QED
  BY <1>2, <1>3

\* An import makes a product row, and a variant row of a key, where there is none.
LEMMA ImportMakesOne ==
  ASSUME Types, StageInv, JobInv, RowsInv, SoleInv, ~overlapped, NEW p \in Workers,
         SyncWrite(p) \/ SyncBreak(p) \/ TickImport(p)
  PROVE  \A s : s = req[p].sup => SoleGood(s)'
<1>1. PICK q : /\ Ready(q) /\ q.sup = req[p].sup /\ Imported(q, CopyOf(q))
               /\ Importing(req[p]) => q = req[p]
               /\ ~Importing(req[p]) => /\ backend = "sqlite" /\ req[p].at = "tick"
                                        /\ q.feed # {} /\ q.copy = 0 => ProductsWithKey(q.sup) = {}
  BY Importers
<1>2. PICK copy : Imported(q, copy)
  BY <1>1
<1>3. PICK s \in Suppliers : s = q.sup /\ s \in Goods /\ SoleGood(s)
  BY <1>1 DEF Ready, Goods, SoleInv
<1>4. Importing(req[p]) => Unmade(req[p])
  BY DEF SoleInv
<1>5. q.feed # {} /\ q.copy = 0 => ProductsWithKey(s) = {}
  BY <1>1, <1>3, <1>4 DEF Unmade
<1>6. ASSUME NEW k \in q.feed \ KnownKeys(q) PROVE VariantsWithKey(k) = {}
  <2>1. CASE backend # "d1"
    <3>1. ASSUME NEW v \in VariantsWithKey(k) PROVE FALSE
      <4>1. k \in Keys
        BY <1>1, <1>3, KeyOwner DEF Ready
      <4>2. PICK i \in Copies : v = <<k, i>> /\ variant[v].status # "none"
        BY <3>1 DEF VariantsWithKey
      <4>3. v \in Known(q) /\ v[1] = k
        BY <2>1, <4>1, <4>2, RowParts DEF Known, Listed
      <4> QED
        BY <4>3 DEF KnownKeys, KeysAmong
    <3> QED
      BY <3>1
  <2>2. CASE backend = "d1"
    <3>1. q = req[p] /\ req[p].at = "write"
      BY <1>1, <2>2 DEF SyncWrite, SyncBreak, TickImport
    <3>2. KnownKeys(q) = KeysAmong(q.known)
      BY <2>2 DEF KnownKeys, Known
    <3> QED
      BY <1>1, <1>4, <3>1, <3>2 DEF Unmade, Importing
  <2> QED
    BY <2>1, <2>2
<1>7. ASSUME NEW c \in ProductsWithKey(s)', NEW d \in ProductsWithKey(s)' PROVE c = d
  <2>1. ASSUME NEW e \in ProductsWithKey(s)'
        PROVE  e \in ProductsWithKey(s) \/ (ProductsWithKey(s) = {} /\ e = copy)
    <3>1. e \in Copies /\ product'[<<s, e>>].status # "none" /\ <<s, e>> \in PRows
      BY <1>3, <2>1, RowParts DEF ProductsWithKey
    <3>2. CASE product[<<s, e>>].status = "none"
      <4>1. q.feed # {} /\ q.copy = 0 /\ <<s, e>> = <<q.sup, copy>>
        BY <1>2, <3>1, <3>2 DEF Imported
      <4> QED
        BY <1>5, <4>1
    <3>3. CASE product[<<s, e>>].status # "none"
      BY <3>1, <3>3 DEF ProductsWithKey
    <3> QED
      BY <3>2, <3>3
  <2>2. c \in ProductsWithKey(s) \/ (ProductsWithKey(s) = {} /\ c = copy)
    BY <2>1
  <2>3. d \in ProductsWithKey(s) \/ (ProductsWithKey(s) = {} /\ d = copy)
    BY <2>1
  <2> QED
    BY <1>3, <2>2, <2>3 DEF SoleGood
<1>8. ASSUME NEW k \in KeysOf[s], NEW v \in VariantsWithKey(k)', NEW w \in VariantsWithKey(k)' PROVE v = w
  <2> DEFINE place == Min(FreeRows(k) \cup {3})
  <2>1. ASSUME NEW x \in VariantsWithKey(k)'
        PROVE  x \in VariantsWithKey(k) \/ (VariantsWithKey(k) = {} /\ x = <<k, place>>)
    <3>1. PICK i \in Copies : x = <<k, i>> /\ variant'[x].status # "none"
      BY <2>1 DEF VariantsWithKey
    <3>2. x \in VRows /\ x[1] = k /\ x[2] = i
      BY <1>3, <3>1, KeyOwner, RowParts
    <3>3. CASE variant[x].status = "none"
      <4>1. x[1] \in q.feed \ KnownKeys(q) /\ x[2] = Min(FreeRows(x[1]) \cup {3})
        BY <1>2, <3>1, <3>2, <3>3 DEF Imported
      <4>2. k \in q.feed \ KnownKeys(q) /\ i = place
        BY <3>2, <4>1
      <4> HIDE DEF place
      <4> QED
        BY <1>6, <3>1, <4>2
    <3>4. CASE variant[x].status # "none"
      BY <3>1, <3>4 DEF VariantsWithKey
    <3> QED
      BY <3>3, <3>4
  <2>2. v \in VariantsWithKey(k) \/ (VariantsWithKey(k) = {} /\ v = <<k, place>>)
    BY <2>1
  <2>3. w \in VariantsWithKey(k) \/ (VariantsWithKey(k) = {} /\ w = <<k, place>>)
    BY <2>1
  <2> HIDE DEF place
  <2> QED
    BY <1>3, <2>2, <2>3 DEF SoleGood
<1>9. SoleGood(s)'
  BY <1>7, <1>8 DEF SoleGood
<1> QED
  BY <1>1, <1>3, <1>9

\* Flushing a new product row makes the one of its key.
LEMMA LoadMakesOne ==
  ASSUME Types, StageInv, SoleInv, ~overlapped, NEW p \in Workers, SyncLoad(p)
  PROVE  \A s : s = req[p].sup => SoleGood(s)'
<1>1. PICK q \in Request : q = req[p]
  BY DEF Types, TypeOK
<1>2. q.at = "upsert" /\ StageOK(q) /\ Unmade(q)
  BY <1>1 DEF SyncLoad, StageInv, SoleInv, Importing
<1>3. PICK s \in Suppliers : s = q.sup /\ SoleGood(s)
  BY <1>2 DEF StageOK, Syncable, SoleInv
<1>4. variant' = variant /\ product \in [PRows -> ProductRow]
  BY DEF SyncLoad, Types, TypeOK, CatalogTypeOK
<1>5. CASE product' = product
  BY <1>1, <1>3, <1>4, <1>5 DEF SoleGood, ProductsWithKey, VariantsWithKey
<1>6. CASE product' # product
  <2>1. PICK copy : copy = CopyOf(q)
    OBVIOUS
  <2>2. /\ q.feed # {} /\ q.copy = 0
        /\ product' = [product EXCEPT ![<<s, copy>>] = [status |-> q.opts.as, shown |-> 0]]
    BY <1>1, <1>3, <1>6, <2>1 DEF SyncLoad
  <2>3. \A c \in Copies : product[<<s, c>>].status = "none"
    BY <1>2, <1>3, <2>2 DEF Unmade, ProductsWithKey
  <2>4. \A c \in Copies : c # copy => product'[<<s, c>>].status = "none"
    <3>1. ASSUME NEW c \in Copies, c # copy PROVE product'[<<s, c>>] = product[<<s, c>>]
      BY <1>3, <1>4, <2>2, <3>1, RowParts DEF Goods
    <3> QED
      BY <2>3, <3>1
  <2>5. \A c, d \in ProductsWithKey(s)' : c = d
    BY <2>4 DEF ProductsWithKey
  <2>6. \A k \in KeysOf[s] : \A v, w \in VariantsWithKey(k)' : v = w
    BY <1>3, <1>4 DEF SoleGood, VariantsWithKey
  <2> QED
    BY <1>1, <1>3, <2>5, <2>6 DEF SoleGood
<1> QED
  BY <1>5, <1>6

\* A request begins to import when no other imports for its supplier, and with what it
\* has not found.
LEMMA BeginsAlone ==
  ASSUME Types, StageInv, JobInv, SoleInv, ~overlapped', NEW p \in Workers, RequestStep(p), NEW r, Becomes(p, r),
         Importing(r)
  PROVE  /\ \A w \in Workers \ {p} : Importing(req[w]) => req[w].sup # r.sup
         /\ Unmade(r)'
<1>1. r.sup = req[p].sup /\ (SyncFind(p) \/ SyncLoad(p))
  BY DEF Becomes
<1>2. req[p] \in Request /\ req'[p] = r
  BY OthersStay DEF Types, TypeOK
<1>3. CASE SyncFind(p)
  <2>1. ~Overlaps(p) /\ UNCHANGED <<product, variant>>
    BY <1>3 DEF SyncFind, catalogVars
  <2>2. PICK f : Becomes(p, f) /\ f.at = "upsert" /\ (f.feed # {} /\ f.copy = 0 => ProductsWithKey(f.sup) = {})
    BY <1>3, FindBecomes
  <2>3. f = r
    BY <1>2, <2>2, OthersStay
  <2>4. Unmade(r)'
    BY <2>1, <2>2, <2>3 DEF Unmade, ProductsWithKey
  <2> QED
    BY <1>1, <2>1, <2>4 DEF Overlaps, Importing
<1>4. CASE SyncLoad(p)
  <2>1. ~overlapped /\ Importing(req[p]) /\ variant' = variant
    BY <1>4 DEF SyncLoad, Importing
  <2>2. PICK f : /\ Becomes(p, f) /\ f.at = "write" /\ f.feed = req[p].feed /\ (f.feed # {} => f.copy # 0)
                 /\ f.known = Listed(f.feed)
    BY <1>4, LoadedBecomes
  <2>3. f = r
    BY <1>2, <2>2, OthersStay
  <2>4. ASSUME NEW k \in r.feed \ KeysAmong(r.known), NEW v \in VariantsWithKey(k) PROVE FALSE
    <3>1. r \in Request
      BY DEF Becomes
    <3>2. k \in Keys
      BY <3>1 DEF Request
    <3>3. PICK i \in Copies : v = <<k, i>> /\ variant[v].status # "none"
      BY <2>4 DEF VariantsWithKey
    <3>4. v \in Listed(r.feed) /\ v[1] = k
      BY <3>2, <3>3, RowParts DEF Listed
    <3> QED
      BY <2>2, <2>3, <3>4 DEF KeysAmong
  <2>5. \A k \in r.feed \ KeysAmong(r.known) : VariantsWithKey(k)' = {}
    BY <2>1, <2>4 DEF VariantsWithKey
  <2>6. Unmade(r)'
    BY <2>2, <2>3, <2>5 DEF Unmade, KeysAmong
  <2> QED
    BY <1>1, <2>1, <2>6 DEF SoleInv
<1> QED
  BY <1>1, <1>3, <1>4

LEMMA SoleKept ==
  ASSUME Types, StageInv, JobInv, RowsInv, SoleInv, [Next]_vars
  PROVE  SoleInv'
<1> SUFFICES ASSUME ~overlapped' PROVE SoleInv'
  BY DEF SoleInv
<1>1. /\ \A w \in Workers : StageOK(req[w]) /\ req[w] \in Request
      /\ Syncable \subseteq Suppliers /\ Suppliers \subseteq Goods /\ Own \in Goods \ Suppliers
  BY CatalogAssumption DEF StageInv, Types, TypeOK, Syncable, Goods
<1>2. \A w \in Workers : Importing(req[w]) => req[w].sup \in Suppliers /\ req[w].feed \subseteq KeysOf[req[w].sup]
  BY <1>1 DEF StageOK, Importing
<1>3. CASE CatalogNext /\ UNCHANGED syncVars
  <2>1. ~overlapped /\ req' = req /\ Workers' = Workers
    BY <1>3 DEF syncVars, Workers
  <2>2. ASSUME NEW s \in Suppliers PROVE NoNew(s)
    <3>1. \A c \in Copies : <<s, c>> \in PRows
      BY <1>1, RowParts
    <3>2. \A k \in KeysOf[s] : k \notin KeysOf[Own] /\ \A i \in Copies : <<k, i>> \in VRows
      BY <1>1, KeyOwner, RowParts
    <3> QED
      BY <1>3, <3>1, <3>2, CatalogMakesOwn DEF NoNew
  <2>3. SoleOwn'
    <3>1. \A k \in KeysOf[Own] : <<k, 2>> \in VRows
      BY <1>1, KeyOwner, RowParts
    <3>2. SoleOwn
      BY <2>1 DEF SoleInv
    <3>3. ASSUME NEW k \in KeysOf[Own] PROVE variant'[<<k, 2>>].status = "none"
      BY <1>3, <3>1, <3>2, CatalogMakesOwn DEF SoleOwn
    <3> QED
      BY <3>3 DEF SoleOwn
  <2>4. \A s \in Suppliers : SoleGood(s)'
    BY <2>1, <2>2, SoleStays DEF SoleInv
  <2>5. ASSUME NEW w \in Workers, Importing(req[w])
        PROVE  /\ Unmade(req[w])'
               /\ \A u \in Workers \ {w} : Importing(req[u]) => req[u].sup # req[w].sup
    <3>1. PICK q : q = req[w]
      OBVIOUS
    <3>2. Unmade(q)'
      BY <1>2, <2>1, <2>2, <2>5, <3>1, SoleStays DEF SoleInv
    <3>3. Unmade(req[w])'
      BY <2>1, <3>1, <3>2 DEF Unmade, ProductsWithKey
    <3> QED
      BY <2>1, <2>5, <3>3 DEF SoleInv
  <2> QED
    BY <2>1, <2>3, <2>4, <2>5 DEF SoleInv, Importing
<1>4. ASSUME NEW p \in Workers, RequestStep(p) PROVE SoleInv'
  <2>1. PICK r : Becomes(p, r)
    BY <1>4, Becoming
  <2>2. Workers' = Workers /\ req'[p] = r /\ \A w \in Workers \ {p} : req'[w] = req[w]
    BY <2>1, OthersStay
  <2>3. ~overlapped /\ (TickImport(p) => ~Overlaps(p))
    <3>1. CASE SyncFind(p) \/ TickImport(p)
      BY <3>1 DEF SyncFind, TickImport
    <3>2. CASE ~(SyncFind(p) \/ TickImport(p))
      <4>1. overlapped' = overlapped
        BY <1>4, <3>2 DEF RequestStep, Work, SyncFail, SyncLoad, SyncWrite, SyncBreak, StartWrite, TickFail, TickMark,
                          TickRecord, Crash, ManualSync, StartRead, TickLoad
      <4> QED
        BY <3>2, <4>1
    <3> QED
      BY <3>1, <3>2
  <2>4. \A g \in Goods : g # req[p].sup => NoNew(g)
    BY <1>4, RequestMakesOwn
  <2> DEFINE makes == SyncLoad(p) \/ SyncWrite(p) \/ SyncBreak(p) \/ TickImport(p)
  <2>5. ~makes => \A g : NoNew(g)
    BY <1>4, RequestMakesOwn DEF NoNew
  <2>6. ASSUME makes, NEW w \in Workers \ {p}, Importing(req[w]) PROVE req[w].sup # req[p].sup
    <3>1. CASE TickImport(p)
      BY <2>3, <2>6, <3>1 DEF Overlaps, Importing
    <3>2. CASE Importing(req[p])
      BY <2>3, <2>6, <3>2 DEF SoleInv
    <3> QED
      BY <2>6, <3>1, <3>2 DEF SyncLoad, SyncWrite, SyncBreak, Importing
  <2>7. \A s \in Suppliers : SoleGood(s)'
    <3>1. ASSUME NEW s \in Suppliers, NoNew(s) PROVE SoleGood(s)'
      BY <2>3, <3>1, SoleStays DEF SoleInv
    <3>2. ASSUME makes, NEW s \in Suppliers, s = req[p].sup PROVE SoleGood(s)'
      BY <2>3, <3>2, ImportMakesOne, LoadMakesOne
    <3> QED
      BY <1>1, <2>4, <2>5, <3>1, <3>2
  <2>8. SoleOwn'
    <3>1. NoNew(Own)
      <4>1. makes => req[p].sup \in Suppliers
        BY <1>1, TickTakes DEF SyncLoad, SyncWrite, SyncBreak, TickImport, StageOK
      <4> QED
        BY <1>1, <2>4, <2>5, <4>1
    <3> QED
      BY <2>3, <3>1, RowParts DEF SoleOwn, NoNew, SoleInv
  <2>9. ASSUME NEW w \in Workers \ {p}, NEW q, q = req[w], Importing(q) PROVE Unmade(q)'
    <3>1. NoNew(q.sup)
      BY <1>1, <1>2, <2>4, <2>5, <2>6, <2>9
    <3>2. Unmade(q)
      BY <2>3, <2>9 DEF SoleInv
    <3> QED
      BY <1>2, <2>9, <3>1, <3>2, SoleStays
  <2>10. Importing(r) => /\ Unmade(r)'
                         /\ \A w \in Workers \ {p} : Importing(req[w]) => req[w].sup # r.sup
    BY <1>4, <2>1, BeginsAlone
  <2>11. ASSUME NEW w \in Workers, Importing(req'[w]) PROVE Unmade(req[w])'
    <3>1. PICK q : q = req'[w]
      OBVIOUS
    <3>2. Unmade(q)'
      BY <2>2, <2>9, <2>10, <2>11, <3>1
    <3>3. (q = req[w])'
      BY <3>1
    <3> QED
      BY <3>2, <3>3 DEF Unmade, ProductsWithKey, VariantsWithKey
  <2>12. ASSUME NEW w \in Workers, NEW u \in Workers \ {w}, Importing(req'[w]), Importing(req'[u])
         PROVE  req'[u].sup # req'[w].sup
    <3>1. CASE w = p
      BY <2>2, <2>10, <2>12, <3>1
    <3>2. CASE u = p
      BY <2>2, <2>10, <2>12, <3>2
    <3>3. CASE w # p /\ u # p
      BY <2>2, <2>3, <2>12, <3>3 DEF SoleInv
    <3> QED
      BY <3>1, <3>2, <3>3
  <2> QED
    BY <2>2, <2>7, <2>8, <2>11, <2>12 DEF SoleInv, Importing
<1>5. CASE UNCHANGED <<catalogVars, syncVars>>
  BY <1>5 DEF catalogVars, syncVars, SoleInv, SoleOwn, SoleGood, ProductsWithKey, VariantsWithKey, Unmade, Workers
<1> QED
  BY <1>3, <1>4, <1>5, NextCases

-----------------------------------------------------------------------------
(* The listings an import leaves on SQLite *)

\* Product r has an active variant, and after the step variants but no active one.
Deactivated(r) ==
  /\ ActiveVariants(r, variant) # {}
  /\ ActiveVariants(r, variant') = {}
  /\ VariantsOf(r, variant') # {}

LEMMA SameVariants ==
  ASSUME NEW r \in PRows,
         \A v \in KeysOf[r[1]] \X Copies : variant'[v].status = variant[v].status /\ variant'[v].of = variant[v].of
  PROVE  ~Deactivated(r)
BY DEF Deactivated, ActiveVariants, VariantsOf

LEMMA CatalogDeactivatesNone ==
  ASSUME Types, RowsInv, CatalogNext, NEW r \in PRows, r[1] \in Suppliers
  PROVE  ~Deactivated(r)
<1>1. /\ variant \in [VRows -> VariantRow] /\ form.row \in PRows /\ Own \notin Suppliers
      /\ form.open = "edit" => form.row[1] \notin Suppliers
  BY CatalogAssumption DEF Types, TypeOK, CatalogTypeOK, RowsInv, Synced
<1>2. \A v \in KeysOf[r[1]] \X Copies : v \in VRows /\ v[1] \in KeysOf[r[1]] /\ GoodOf(v[1]) = r[1]
  BY KeyOwner, RowParts DEF VRows
<1>3. ASSUME NEW w \in VRows, Reserve(w) \/ Release(w) PROVE ~Deactivated(r)
  <2>1. PICK n \in {variant[w].stock - 1, variant[w].stock + 1} : variant' = [variant EXCEPT ![w].stock = n]
    BY <1>1, <1>3 DEF Reserve, Release
  <2>2. \A v \in VRows : variant'[v].status = variant[v].status /\ variant'[v].of = variant[v].of
    BY <1>1, <2>1 DEF VariantRow
  <2> QED
    BY <1>2, <2>2, SameVariants
<1>4. CASE CreateProduct
  <2>1. \A v \in VRows : v \notin KeysOf[Own] \X {1} => variant'[v] = variant[v]
    BY <1>4 DEF CreateProduct
  <2>2. \A v \in KeysOf[r[1]] \X Copies : v \notin KeysOf[Own] \X {1}
    BY <1>1, <1>2, KeyOwner, RowParts DEF Goods
  <2> QED
    BY <1>2, <2>1, <2>2, SameVariants
<1>5. CASE DropForm \/ \E x \in PRows : OpenForm(x) \/ DeleteRead(x)
  BY <1>5, SameVariants DEF DropForm, OpenForm, DeleteRead
<1>6. CASE DeleteWrite
  <2> DEFINE gone == VariantsOf(form.row, variant)
  <2>1. \A v \in VRows : variant'[v] = IF v \in gone THEN NoVariant ELSE variant[v]
    BY <1>6 DEF DeleteWrite
  <2>2. CASE r = form.row
    <3>1. ASSUME NEW v \in VariantsOf(r, variant') PROVE FALSE
      <4>1. v \in VRows /\ variant'[v].status # "none"
        BY <1>2, <3>1 DEF VariantsOf
      <4>2. variant'[v] = variant[v] /\ v \notin gone
        BY <2>1, <4>1 DEF NoVariant
      <4> QED
        BY <2>2, <3>1, <4>2 DEF VariantsOf
    <3> QED
      BY <3>1 DEF Deactivated
  <2>3. CASE r # form.row
    <3>1. \A v \in VRows : v \in VariantsOf(r, variant) => v \notin gone
      <4>1. ASSUME NEW v \in VariantsOf(r, variant), v \in gone PROVE FALSE
        <5>1. v[1] \in KeysOf[form.row[1]] /\ variant[v].of = form.row[2] /\ variant[v].of = r[2] /\ GoodOf(v[1]) = r[1]
          BY <1>2, <4>1 DEF VariantsOf
        <5>2. form.row[1] = r[1] /\ form.row[2] = r[2]
          BY <1>1, <5>1, KeyOwner, RowParts
        <5> QED
          BY <1>1, <2>3, <5>2, RowParts
      <4> QED
        BY <4>1
    <3>2. ActiveVariants(r, variant) \subseteq ActiveVariants(r, variant')
      <4>1. ASSUME NEW v \in ActiveVariants(r, variant) PROVE v \in ActiveVariants(r, variant')
        <5>1. v \in VariantsOf(r, variant) /\ v \in VRows
          BY <1>2, <4>1 DEF ActiveVariants, VariantsOf
        <5>2. variant'[v] = variant[v]
          BY <2>1, <3>1, <5>1
        <5> QED
          BY <4>1, <5>2 DEF ActiveVariants, VariantsOf
      <4> QED
        BY <4>1
    <3> QED
      BY <3>2 DEF Deactivated
  <2> QED
    BY <2>2, <2>3
<1>7. ASSUME NEW status \in FormStatuses, SaveManual(status) PROVE ~Deactivated(r)
  <2>1. PICK choice \in {"active", "archived"} : variant' = AsTyped(form.row, choice)
    BY <1>7 DEF SaveManual
  <2>2. form.row[1] \notin Suppliers /\ form.row[1] \in Goods
    BY <1>1, <1>7, RowParts DEF SaveManual
  <2>3. \A v \in KeysOf[r[1]] \X Copies : v \notin VariantsOf(form.row, variant)
    BY <1>2, <2>2, KeyOwner, RowParts DEF VariantsOf
  <2> QED
    BY <1>2, <2>1, <2>3, SameVariants DEF AsTyped
<1>8. ASSUME NEW x \in PRows, NEW status \in FormStatuses, SaveImported(x, status) \/ RejectForm(x, status)
      PROVE  ~Deactivated(r)
  BY <1>8, SameVariants DEF SaveImported, RejectForm
<1> QED
  BY <1>3, <1>4, <1>5, <1>6, <1>7, <1>8 DEF CatalogNext

\* A whole import on SQLite, seen from the products.
LEMMA AllListed ==
  ASSUME Types, RowsInv, NEW q, Ready(q), ImportAll(q), backend = "sqlite", NEW r \in PRows
  PROVE  /\ Deactivated(r) => product'[r].status = "archived"
         /\ q.feed # {} /\ r = <<q.sup, CopyOf(q)>> => product'[r].shown = ListingStock(r, variant')
<1> DEFINE copy == CopyOf(q)
<1>1. product' = [x \in PRows |-> ProductAfter(x, q, copy, variant', variant')]
  BY DEF ImportAll
<1>2. product'[r] = ProductAfter(r, q, copy, variant', variant')
  BY <1>1
<1>3. PICK R, V, c : R = product'[r] /\ V = variant' /\ c = copy
  OBVIOUS
<1>4. R = ProductAfter(r, q, c, V, V)
  BY <1>2, <1>3
<1>5. q.feed # {} /\ r = <<q.sup, c>> => R.shown = ListingStock(r, V)
  BY <1>4 DEF ProductAfter
<1>6. LosesVariant(r, V) /\ ActiveVariants(r, V) = {} => R.status = "archived"
  BY <1>4 DEF ProductAfter
<1>7. ASSUME Deactivated(r) PROVE LosesVariant(r, V)
  <2>1. PICK v \in ActiveVariants(r, variant) : TRUE
    BY <1>7 DEF Deactivated
  <2>2. /\ v \in KeysOf[r[1]] \X Copies /\ variant[v].status = "active" /\ variant[v].of = r[2] /\ v \in VRows
    BY <2>1, KeyOwner, RowParts DEF ActiveVariants, VariantsOf, VRows
  <2>3. PICK k : Imported(q, k)
    BY AllImported
  <2>4. V[v].status # "none" /\ V[v].of = r[2] /\ V[v] \in VariantRow
    BY <1>3, <2>2, <2>3 DEF Imported
  <2>5. v \in VariantsOf(r, V)
    BY <2>2, <2>4 DEF VariantsOf
  <2>6. V[v].status # "active"
    BY <1>3, <1>7, <2>5 DEF Deactivated, ActiveVariants
  <2> QED
    BY <2>2, <2>4, <2>5, <2>6 DEF LosesVariant, VariantRow
<1> QED
  BY <1>3, <1>5, <1>6, <1>7 DEF Deactivated

LEMMA PartDeactivatesNone ==
  ASSUME Types, NEW q, Ready(q), ImportPart(q), NEW r \in PRows
  PROVE  ~Deactivated(r)
<1>1. PICK copy \in Copies : copy = CopyOf(q)
  BY CopyType DEF Ready
<1>2. PICK keys \in SUBSET q.feed : variant' = Upserted(q, keys, copy)
  BY <1>1 DEF ImportPart
<1>3. PICK V : V = Upserted(q, keys, copy) /\ V = variant'
  BY <1>2
<1>4. ASSUME NEW v \in ActiveVariants(r, variant) PROVE v \in ActiveVariants(r, variant')
  <2>1. v \in VRows /\ variant[v].status = "active" /\ v \in VariantsOf(r, variant)
    BY <1>4, KeyOwner, RowParts DEF ActiveVariants, VariantsOf, VRows
  <2>2. V[v].status = "active" /\ V[v].of = variant[v].of
    <3>1. q \in Request /\ V = Upserted(q, keys, copy)
      BY <1>3 DEF Ready
    <3>2. variant[v].status # "none" => V[v].status \in {"active", variant[v].status} /\ V[v].of = variant[v].of
      BY <2>1, <3>1, UpsertedRow
    <3> QED
      BY <2>1, <3>2
  <2> QED
    BY <1>3, <2>1, <2>2 DEF ActiveVariants, VariantsOf
<1> QED
  BY <1>4 DEF Deactivated

LEMMA ListsRight ==
  ASSUME Types, StageInv, JobInv, RowsInv, [Next]_vars, backend = "sqlite"
  PROVE  /\ \A r \in PRows : r[1] \in Suppliers /\ Deactivated(r) => product'[r].status = "archived"
         /\ \A p \in Workers : req[p].at = "upsert" /\ req[p].feed # {} /\ SyncWrite(p) =>
              product'[<<req[p].sup, CopyOf(req[p])>>].shown = ListingStock(<<req[p].sup, CopyOf(req[p])>>, variant')
<1>1. ASSUME NEW p \in Workers, SyncWrite(p), req[p].at = "upsert", req[p].feed # {}
      PROVE  product'[<<req[p].sup, CopyOf(req[p])>>].shown = ListingStock(<<req[p].sup, CopyOf(req[p])>>, variant')
  <2>1. PICK q \in Request : q = req[p]
    BY <1>1 DEF Types, TypeOK
  <2>2. Ready(q) /\ ImportAll(q)
    BY <1>1, <2>1 DEF SyncWrite, StageInv, StageOK, Importing, Ready, Syncable
  <2>3. PICK r \in PRows : r = <<q.sup, CopyOf(q)>>
    BY <2>2, CopyType, RowParts DEF Ready, Goods
  <2>4. product'[r].shown = ListingStock(r, variant')
    BY <1>1, <2>1, <2>2, <2>3, AllListed
  <2> QED
    BY <2>1, <2>3, <2>4
<1>2. ASSUME NEW r \in PRows, r[1] \in Suppliers, Deactivated(r) PROVE product'[r].status = "archived"
  <2>1. ~CatalogNext
    BY <1>2, CatalogDeactivatesNone
  <2>2. ~UNCHANGED variant
    BY <1>2, SameVariants
  <2>3. PICK p \in Workers : RequestStep(p)
    BY <2>1, <2>2, NextCases DEF catalogVars
  <2>4. SyncWrite(p) \/ SyncBreak(p) \/ TickImport(p)
    BY <2>2, <2>3, RequestMakesOwn DEF SyncLoad
  <2>5. \E q : Ready(q) /\ (ImportAll(q) \/ ImportPart(q))
    <3>1. CASE SyncWrite(p) \/ SyncBreak(p)
      <4>1. Ready(req[p])
        BY <3>1 DEF SyncWrite, SyncBreak, StageInv, StageOK, Importing, Ready, Syncable, Types, TypeOK
      <4> QED
        BY <3>1, <4>1 DEF SyncWrite, SyncBreak
    <3>2. CASE TickImport(p)
      <4>1. PICK q \in Request : q = req[p]
        BY DEF Types, TypeOK
      <4>2. q.sup \in Suppliers
        BY <3>2, <4>1, TickTakes DEF TickImport, Syncable
      <4>3. PICK feed \in Feeds[q.sup] : ImportAll(Found(q, feed)) \/ ImportPart(Found(q, feed))
        BY <3>2, <4>1 DEF TickImport
      <4>4. PICK f : f = Found(q, feed)
        OBVIOUS
      <4>5. f \in Request /\ f.sup = q.sup /\ f.feed \subseteq KeysOf[q.sup] /\ f.was # "none"
        BY <4>2, <4>4, FoundType
      <4>6. Ready(f)
        BY <3>2, <4>2, <4>5 DEF Ready, TickImport
      <4> QED
        BY <4>3, <4>4, <4>6
    <3> QED
      BY <2>4, <3>1, <3>2
  <2> QED
    BY <1>2, <2>5, AllListed, PartDeactivatesNone
<1> QED
  BY <1>1, <1>2

-----------------------------------------------------------------------------
(* The theorems *)

SyncInv == Types /\ StageInv /\ JobInv /\ RowsInv /\ StockKept /\ SoleInv

LEMMA SyncInvInit == Init => SyncInv
<1> SUFFICES ASSUME Init PROVE SyncInv
  OBVIOUS
<1>1. /\ shop \in Shops /\ product = [r \in PRows |-> NoProduct] /\ variant = [v \in VRows |-> NoVariant]
      /\ taken = [v \in VRows |-> 0] /\ ordered = {} /\ form = NoForm
      /\ job = [j \in Jobs |-> NoJob] /\ req = [p \in shop.workers |-> Idle] /\ crashes = 0
      /\ attempted = [j \in Jobs |-> {}] /\ overlapped = FALSE
  BY DEF Init, CatalogInit
<1>2. CatalogTypeOK
  <2>1. NoProduct \in ProductRow /\ NoVariant \in VariantRow /\ 0 \in 0 .. CatalogStock
    BY CatalogAssumption DEF NoProduct, ProductRow, NoVariant, VariantRow, Copies
  <2>2. NoForm \in [open : {"none", "edit", "delete"}, row : PRows, stock : Nat]
    BY RowParts DEF NoForm, Goods
  <2> QED
    BY <1>1, <2>1, <2>2 DEF CatalogTypeOK
<1>3. Workers = shop.workers /\ req \in [shop.workers -> Request]
  BY <1>1, IdleType DEF Workers
<1>4. crashes \in 0 .. MaxCrashes /\ attempted \in [Jobs -> SUBSET Suppliers] /\ job \in [Jobs -> JobRow]
  BY <1>1, RowTypes, SyncAssumption
<1>5. Types
  BY <1>1, <1>2, <1>3, <1>4 DEF Types, TypeOK, Request
<1>6. StageInv
  BY <1>1, <1>3, IdleType DEF StageInv, StageOK, Importing
<1>7. JobInv
  <2>1. JobOK(NoJob, {})
    BY RowTypes, FS_EmptySet DEF JobOK, RowOK
  <2> QED
    BY <1>1, <1>3, <2>1, IdleType DEF JobInv
<1>8. RowsInv /\ StockKept
  BY <1>1 DEF RowsInv, StockKept, NoVariant, NoForm
<1>9. SoleInv
  <2>1. \A s \in Suppliers : ProductsWithKey(s) = {} /\ \A k \in KeysOf[s] : VariantsWithKey(k) = {}
    <3>1. \A s \in Suppliers : \A c \in Copies : <<s, c>> \in PRows
      BY RowParts DEF Goods
    <3>2. ASSUME NEW s \in Suppliers, NEW k \in KeysOf[s], NEW v \in {k} \X Copies PROVE v \in VRows
      <4>1. k \in Keys
        BY KeyOwner DEF Goods
      <4> QED
        BY <4>1 DEF VRows
    <3> QED
      BY <1>1, <3>1, <3>2 DEF ProductsWithKey, VariantsWithKey, NoProduct, NoVariant
  <2>2. SoleOwn
    <3>1. \A k \in KeysOf[Own] : <<k, 2>> \in VRows
      BY KeyOwner, RowParts DEF Goods
    <3> QED
      BY <1>1, <3>1 DEF SoleOwn, NoVariant
  <2> QED
    BY <1>1, <1>3, <2>1, <2>2, IdleType DEF SoleInv, SoleGood, Importing
<1> QED
  BY <1>5, <1>6, <1>7, <1>8, <1>9 DEF SyncInv

LEMMA SyncInvNext == SyncInv /\ [Next]_vars => SyncInv'
BY TypesKept, StageKept, JobKept, RowsKept, SoleKept DEF SyncInv

LEMMA SyncInvAlways == Spec => []SyncInv
BY SyncInvInit, SyncInvNext, PTL DEF Spec

\* Every variable keeps its type: no handler, import, tick or crash stores a row, a job or
\* a request outside it.
THEOREM SyncTyped == Spec => []TypeOK
<1>1. SyncInv => TypeOK
  BY DEF SyncInv, Types
<1> QED
  BY <1>1, SyncInvAlways, PTL

\* On SQLite what a catalogue gave of a variant is in stock or held by orders, whatever
\* imports, forms and orders run at once (_upsert_variant leaves a stock it finds alone).
THEOREM StockIsKept == Spec => []StockKept
<1>1. SyncInv => StockKept
  BY DEF SyncInv
<1> QED
  BY <1>1, SyncInvAlways, PTL

\* Imports of one supplier that were never under way at once leave at most one product and
\* one variant row of each external key.
THEOREM OneRowEach == Spec => []OneRowPerKey
<1>1. ASSUME SyncInv PROVE OneRowPerKey
  <2>1. ASSUME NEW S, \A x, y \in S : x = y PROVE Cardinality(S) <= 1
    <3>1. CASE S = {}
      BY <3>1, FS_EmptySet
    <3>2. CASE S # {}
      <4>1. PICK x \in S : TRUE
        BY <3>2
      <4>2. S = {x}
        BY <2>1, <4>1
      <4> QED
        BY <4>2, FS_Singleton
    <3> QED
      BY <3>1, <3>2
  <2>2. ASSUME ~overlapped, NEW k \in Keys PROVE \A v, w \in VariantsWithKey(k) : v = w
    <3>1. PICK g \in Goods : k \in KeysOf[g]
      BY KeyOwner
    <3>2. CASE g \in Suppliers
      BY <1>1, <2>2, <3>1, <3>2 DEF SyncInv, SoleInv, SoleGood
    <3>3. CASE g = Own
      <4>1. variant[<<k, 2>>].status = "none"
        BY <1>1, <2>2, <3>1, <3>3 DEF SyncInv, SoleInv, SoleOwn
      <4>2. \A v \in VariantsWithKey(k) : v = <<k, 1>>
        <5>1. ASSUME NEW v \in VariantsWithKey(k) PROVE v = <<k, 1>>
          <6>1. PICK i \in {1, 2} : v = <<k, i>> /\ variant[v].status # "none"
            BY RowParts DEF VariantsWithKey
          <6> QED
            BY <4>1, <6>1
        <5> QED
          BY <5>1
      <4> QED
        BY <4>2
    <3> QED
      BY <3>1, <3>2, <3>3 DEF Goods
  <2>3. ASSUME ~overlapped, NEW s \in Suppliers PROVE \A c, d \in ProductsWithKey(s) : c = d
    BY <1>1, <2>3 DEF SyncInv, SoleInv, SoleGood
  <2>4. ~overlapped => \A k \in Keys : OnlyOne(k)
    BY <2>1, <2>2 DEF OnlyOne
  <2>5. ~overlapped => \A s \in Suppliers : Cardinality(ProductsWithKey(s)) <= 1
    BY <2>1, <2>3
  <2> QED
    BY <2>4, <2>5 DEF OneRowPerKey
<1>2. SyncInv => OneRowPerKey
  BY <1>1
<1> QED
  BY <1>2, SyncInvAlways, PTL

\* A background job that has ended has tried every syncable supplier, on both backends and
\* however its ticks overlapped or died.
THEOREM EndedJobsTriedAll == Spec => []EndedJobTriedAll
<1>1. SyncInv => EndedJobTriedAll
  BY DEF SyncInv, JobInv, JobOK, EndedJobTriedAll
<1> QED
  BY <1>1, SyncInvAlways, PTL

\* On SQLite the commit that ends an import archives a product that lost its last active
\* variant, and lists the stock of the variants there are.
THEOREM ListingsAreRight == Spec => ImportListsRight
<1>1. ASSUME SyncInv, [Next]_vars
      PROVE  [backend = "sqlite" =>
                /\ \A r \in PRows : /\ r[1] \in Suppliers
                                   /\ ActiveVariants(r, variant) # {}
                                   /\ ActiveVariants(r, variant') = {}
                                   /\ VariantsOf(r, variant') # {}
                     => product'[r].status = "archived"
                /\ \A p \in Workers : /\ req[p].at = "upsert" /\ req[p].feed # {}
                                     /\ SyncWrite(p)
                     => LET r == <<req[p].sup, CopyOf(req[p])>>
                        IN product'[r].shown = ListingStock(r, variant')]_vars
  <2>1. backend = "sqlite" =>
          /\ \A r \in PRows : r[1] \in Suppliers /\ Deactivated(r) => product'[r].status = "archived"
          /\ \A p \in Workers : req[p].at = "upsert" /\ req[p].feed # {} /\ SyncWrite(p) =>
               product'[<<req[p].sup, CopyOf(req[p])>>].shown = ListingStock(<<req[p].sup, CopyOf(req[p])>>, variant')
    BY <1>1, ListsRight DEF SyncInv
  <2> QED
    BY <2>1 DEF Deactivated
<1> QED
  BY <1>1, SyncInvAlways, PTL DEF ImportListsRight, Spec
=============================================================================
