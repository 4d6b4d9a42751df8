--------------------------- MODULE Shelves_proofs ---------------------------
(***************************************************************************)
(* Proofs about where a product is found, on either database and with any  *)
(* number of administrators at work.                                       *)
(*                                                                         *)
(* ShelfInv is what the foreign keys, the unique index and the requests in *)
(* progress keep to; from it the public pages agree.  TreeInv says that    *)
(* the categories are a forest, and that the one move in progress keeps    *)
(* it; from it every climb of parents ends, as there are more steps than   *)
(* categories, and the tree shows every category.                          *)
(***************************************************************************)
EXTENDS Shop, FiniteSums, TLAPS

-----------------------------------------------------------------------------
(* What the database and the requests in progress keep to *)

LEMMA NextShelves ==
  [Next]_vars => UNCHANGED shop /\ (UNCHANGED shelfVars \/ ShelvesStep \/ DropForms)
BY DEF Next, vars, Requests, Served, DropRequests

CategoryRow == [slug : Texts, parent : CatIds \cup {Root}]
ItemRow     == [slug : Slugs \cup {NoSlug}, status : Statuses, cat : CatIds \cup {Root}]
TypedSlugs  == {<<t>> : t \in Texts}
DraftRow    == [slug : Slugs \cup {NoSlug} \cup TypedSlugs, status : Statuses, cat : CatIds \cup {Root}]

\* A request's product that has its row, and not its slug yet.
SlugDue(f) == IF f.op = "slug" THEN {f.id} ELSE {}

\* What a request holds at each stage; done are the products whose creation stopped.
FormOK(f, done) ==
  /\ DOMAIN f = {"op", "id", "old", "new"}
  /\ f.op \in {"create", "move"} => f.new \in CategoryRow
  /\ f.op \in {"add", "slug", "edit"} => f.id \in Items /\ f.new \in DraftRow
  /\ f.op = "add" => f.new.slug \in TypedSlugs
  /\ f.op = "slug" => shop.backend # "sqlite" /\ f.new.slug \in Slugs
  /\ f.op = "edit" /\ f.new.slug = NoSlug => f.id \in done

ShelfTypes ==
  /\ shop \in Shops
  /\ category \in [CatIds -> CategoryRow \cup {NoCategory}]
  /\ item \in [Items -> ItemRow \cup {NoItem}]
  /\ form = [p \in Clerks |-> form[p]] /\ \A p \in Clerks : FormOK(form[p], stopped)

\* The foreign keys.
CategoriesLinked == \A c \in Live : Found(category[c].parent)
ItemsLinked      == \A i \in Products : Found(item[i].cat)

\* The unique index, and the products without a slug.
SlugsApart == \A i, j \in Items : i # j /\ item[i].slug = item[j].slug => item[i].slug = NoSlug
Unnamed    == \A i \in Products : item[i].slug = NoSlug => i \in stopped \/ \E p \in Clerks : i \in SlugDue(form[p])

ShelfInv == ShelfTypes /\ CategoriesLinked /\ ItemsLinked /\ SlugsApart /\ Unnamed

LEMMA ShelfData ==
  /\ "none" \notin Texts /\ NoSlug \notin Texts /\ Root \notin CatIds
  /\ NoCategory \notin CategoryRow /\ NoItem \notin ItemRow
  /\ NoSlug \notin Slugs \cup TypedSlugs
  /\ \A s \in Slugs : Len(s) = 2 /\ s[1] \in Bases
  /\ \A s \in TypedSlugs : Len(s) = 1 /\ s[1] \in Texts
  /\ Len(NoSlug) = 0
  /\ \A b \in Bases : b \in Texts
  /\ \A t \in Texts : BaseOf[t] \in Bases
<1>1. "none" \notin Texts /\ <<>> \notin Texts /\ Bases \subseteq Texts /\ BaseOf \in [Texts -> Bases]
  BY ShelvesAssumption
<1>2. \A s \in Slugs : Len(s) = 2 /\ s[1] \in Bases /\ s # NoSlug
  BY DEF Slugs, NoSlug
<1>3. \A s \in TypedSlugs : Len(s) = 1 /\ s[1] \in Texts /\ s # NoSlug
  BY DEF TypedSlugs, NoSlug
<1>4. Root \notin CatIds /\ NoCategory \notin CategoryRow
  BY <1>1 DEF Root, CatIds, NoCategory, CategoryRow
<1>5. NoItem \notin ItemRow
  BY DEF NoItem, ItemRow, Statuses
<1> QED
  BY <1>1, <1>2, <1>3, <1>4, <1>5 DEF NoSlug

LEMMA LiveRows ==
  ASSUME ShelfTypes
  PROVE  /\ \A c \in CatIds : c \in Live <=> category[c] \in CategoryRow
         /\ \A i \in Items : i \in Products <=> item[i] \in ItemRow
         /\ \A i \in Items : item[i].slug \in Slugs \cup {NoSlug}
BY ShelfData DEF ShelfTypes, Live, Products, NoItem, ItemRow

\* A product's slug is made unique: some suffix is free, since there are more of them
\* than other products.
LEMMA FreeSuffix ==
  ASSUME ShelfTypes, NEW t \in Texts, NEW i \in Items
  PROVE  UniqueSlug(t, i) \in Slugs /\ ItemSlugFree(UniqueSlug(t, i), i)
<1> DEFINE b == BaseOf[t]
           others == Items \ {i}
           free == {n \in 1 .. MaxSuffix : ItemSlugFree(<<b, n>>, i)}
           who == [n \in 1 .. MaxSuffix |-> CHOOSE j \in others : item[j].slug = <<b, n>>]
<1>1. b \in Bases /\ MaxSuffix \in Nat \ {0} /\ IsFiniteSet(Items) /\ Cardinality(Items) <= MaxSuffix
  BY ShelfData, ShelvesAssumption
<1>2. free # {}
  <2> SUFFICES ASSUME free = {} PROVE FALSE
    OBVIOUS
  <2>1. \A n \in 1 .. MaxSuffix : who[n] \in others /\ item[who[n]].slug = <<b, n>>
    <3>1. \A n \in 1 .. MaxSuffix : \E j \in others : item[j].slug = <<b, n>>
      BY DEF ItemSlugFree
    <3> QED BY <3>1
  <2>2. who \in [1 .. MaxSuffix -> others]
    BY <2>1
  <2>3. IsFiniteSet(others) /\ Cardinality(others) = Cardinality(Items) - 1 /\ Cardinality(Items) \in Nat
    BY <1>1, FS_RemoveElement, FS_CardinalityType
  <2>4. IsFiniteSet(1 .. MaxSuffix) /\ Cardinality(1 .. MaxSuffix) = MaxSuffix
    BY <1>1, FS_Interval
  <2>5. Cardinality(others) < Cardinality(1 .. MaxSuffix)
    BY <1>1, <2>3, <2>4
  <2>6. \E m, n \in 1 .. MaxSuffix : m # n /\ who[m] = who[n]
    <3> DEFINE suffixes == 1 .. MaxSuffix
    <3>1. /\ IsFiniteSet(suffixes) /\ IsFiniteSet(others) /\ Cardinality(others) < Cardinality(suffixes)
          /\ who \in [suffixes -> others]
      BY <2>2, <2>3, <2>4, <2>5
    <3> HIDE DEF who, others, suffixes
    <3>2. \E m, n \in suffixes : m # n /\ who[m] = who[n]
      BY <3>1, FS_PigeonHole
    <3> QED BY <3>2 DEF suffixes
  <2> HIDE DEF who, others
  <2>7. PICK m, n \in 1 .. MaxSuffix : m # n /\ who[m] = who[n]
    BY <2>6
  <2>8. <<b, m>> = <<b, n>>
    BY <2>1, <2>7
  <2> QED
    BY <2>7, <2>8
<1>3. free \subseteq Nat
  OBVIOUS
<1>4. Min(free) \in free
  <2> HIDE DEF free
  <2>1. \E n \in free : \A m \in free : n <= m
    BY <1>2, <1>3, LeastNumber
  <2> QED BY <2>1 DEF Min
<1>5. UniqueSlug(t, i) = <<b, Min(free)>>
  BY DEF UniqueSlug
<1>6. \A n \in free : <<b, n>> \in Slugs /\ ItemSlugFree(<<b, n>>, i)
  BY <1>1 DEF Slugs
<1> QED
  <2> HIDE DEF free, b
  <2> QED BY <1>4, <1>5, <1>6

\* A row that is written has a slug, or none; a typed one has been made unique.
LEMMA ResolvedRow ==
  ASSUME ShelfTypes, NEW i \in Items, NEW rec \in DraftRow
  PROVE  /\ Resolved(rec, i) \in ItemRow
         /\ Resolved(rec, i).cat = rec.cat
         /\ rec.slug \notin TypedSlugs => Resolved(rec, i) = rec
         /\ rec.slug \in TypedSlugs => Resolved(rec, i).slug \in Slugs /\ ItemSlugFree(Resolved(rec, i).slug, i)
<1>1. CASE rec.slug \in TypedSlugs
  <2>1. Len(rec.slug) = 1 /\ rec.slug[1] \in Texts
    BY <1>1, ShelfData
  <2>2. Resolved(rec, i) = [rec EXCEPT !.slug = UniqueSlug(rec.slug[1], i)]
    BY <2>1 DEF Resolved
  <2>3. UniqueSlug(rec.slug[1], i) \in Slugs /\ ItemSlugFree(UniqueSlug(rec.slug[1], i), i)
    BY <2>1, FreeSuffix
  <2>4. \A s \in Slugs : [rec EXCEPT !.slug = s] \in ItemRow /\ [rec EXCEPT !.slug = s].slug = s /\ [rec EXCEPT !.slug = s].cat = rec.cat
    BY DEF DraftRow, ItemRow
  <2> QED
    BY <1>1, <2>2, <2>3, <2>4
<1>2. CASE rec.slug \notin TypedSlugs
  <2>1. rec.slug \in Slugs \cup {NoSlug} /\ rec \in ItemRow
    BY <1>2 DEF DraftRow, ItemRow
  <2>2. Len(rec.slug) # 1
    BY <2>1, ShelfData
  <2> QED
    BY <1>2, <2>1, <2>2 DEF Resolved
<1> QED
  BY <1>1, <1>2

\* Requests that hold what they may hold.
LEMMA FormsFollow ==
  ASSUME ShelfTypes, UNCHANGED shop, stopped \subseteq stopped',
         NEW p \in Clerks, NEW f, form' = [form EXCEPT ![p] = f], FormOK(f, stopped')
  PROVE  /\ form' = [q \in Clerks |-> form'[q]] /\ \A q \in Clerks : FormOK(form'[q], stopped') /\ (q # p => form'[q] = form[q])
         /\ form'[p] = f
<1>1. form' = [q \in Clerks |-> form'[q]] /\ form'[p] = f /\ \A q \in Clerks \ {p} : form'[q] = form[q]
  BY DEF ShelfTypes
<1>2. \A q \in Clerks : FormOK(form[q], stopped')
  BY DEF ShelfTypes, FormOK
<1> QED
  BY <1>1, <1>2

\* A request that touches no row.
LEMMA FormMoves ==
  ASSUME ShelfInv, UNCHANGED <<shop, category, item>>, stopped \subseteq stopped',
         NEW p \in Clerks, NEW f, form' = [form EXCEPT ![p] = f], FormOK(f, stopped'),
         SlugDue(form[p]) \subseteq stopped' \cup SlugDue(f)
  PROVE  ShelfInv'
<1>1. ShelfTypes
  BY DEF ShelfInv
<1>2. /\ form' = [q \in Clerks |-> form'[q]] /\ form'[p] = f
      /\ \A q \in Clerks : FormOK(form'[q], stopped') /\ (q # p => form'[q] = form[q])
  BY <1>1, FormsFollow
<1>3. ShelfTypes'
  BY <1>1, <1>2 DEF ShelfTypes, FormOK
<1>4. Live' = Live /\ Products' = Products
  BY DEF Live, Products
<1>5. CategoriesLinked' /\ ItemsLinked' /\ SlugsApart'
  BY <1>4 DEF ShelfInv, CategoriesLinked, ItemsLinked, SlugsApart, Found
<1>6. Unnamed'
  <2> SUFFICES ASSUME NEW i \in Products, item[i].slug = NoSlug
               PROVE  i \in stopped' \/ \E q \in Clerks : i \in SlugDue(form'[q])
    BY <1>4 DEF Unnamed
  <2>1. i \in stopped \/ \E q \in Clerks : i \in SlugDue(form[q])
    BY DEF ShelfInv, Unnamed
  <2> QED
    BY <1>2, <2>1
<1> QED
  BY <1>3, <1>5, <1>6 DEF ShelfInv

\* The rows of categories change.
LEMMA CategoriesChange ==
  ASSUME ShelfInv, UNCHANGED <<shop, item, stopped>>, Live \subseteq Live',
         category' \in [CatIds -> CategoryRow \cup {NoCategory}], CategoriesLinked',
         NEW p \in Clerks, form' = [form EXCEPT ![p] = NoForm], SlugDue(form[p]) = {}
  PROVE  ShelfInv'
<1>1. ShelfTypes
  BY DEF ShelfInv
<1>2. FormOK(NoForm, stopped') /\ SlugDue(NoForm) = {}
  BY DEF FormOK, NoForm, SlugDue
<1>3. /\ form' = [q \in Clerks |-> form'[q]] /\ form'[p] = NoForm
      /\ \A q \in Clerks : FormOK(form'[q], stopped') /\ (q # p => form'[q] = form[q])
  BY <1>1, <1>2, FormsFollow
<1>4. ShelfTypes'
  BY <1>1, <1>3 DEF ShelfTypes, FormOK
<1>5. ItemsLinked' /\ SlugsApart'
  BY DEF ShelfInv, ItemsLinked, SlugsApart, Found, Products
<1>6. Unnamed'
  BY <1>2, <1>3 DEF ShelfInv, Unnamed, Products
<1> QED
  BY <1>4, <1>5, <1>6 DEF ShelfInv

\* One product's row is written, with a slug of its own or none.
LEMMA ItemWritten ==
  ASSUME ShelfInv, UNCHANGED shop, stopped' = stopped, Live \subseteq Live',
         category' \in [CatIds -> CategoryRow \cup {NoCategory}], CategoriesLinked',
         NEW p \in Clerks, NEW f, form' = [form EXCEPT ![p] = f], FormOK(f, stopped),
         NEW i \in Items, NEW rec \in ItemRow, item' = [item EXCEPT ![i] = rec],
         rec.cat = Root \/ rec.cat \in Live',
         rec.slug # NoSlug => ItemSlugFree(rec.slug, i),
         rec.slug = NoSlug => i \in stopped \cup SlugDue(f),
         SlugDue(form[p]) \subseteq {i}
  PROVE  ShelfInv'
<1>1. ShelfTypes /\ item \in [Items -> ItemRow \cup {NoItem}]
  BY DEF ShelfInv, ShelfTypes
<1>2. /\ form' = [q \in Clerks |-> form'[q]] /\ form'[p] = f
      /\ \A q \in Clerks : FormOK(form'[q], stopped') /\ (q # p => form'[q] = form[q])
  BY <1>1, FormsFollow
<1>3. /\ item' \in [Items -> ItemRow \cup {NoItem}] /\ item'[i] = rec
      /\ \A j \in Items \ {i} : item'[j] = item[j]
  BY <1>1
<1>4. ShelfTypes'
  BY <1>1, <1>2, <1>3 DEF ShelfTypes, FormOK
<1>5. \A j \in Items \ {i} : j \in Products' <=> j \in Products
  BY <1>3 DEF Products
<1>6. ItemsLinked'
  BY <1>3, <1>5 DEF ShelfInv, ItemsLinked, Found, Products
<1>7. SlugsApart'
  <2> SUFFICES ASSUME NEW j \in Items, NEW k \in Items, j # k, item'[j].slug = item'[k].slug
               PROVE  item'[j].slug = NoSlug
    BY DEF SlugsApart
  <2>1. \A m \in Items \ {i} : item[m].slug = rec.slug => rec.slug = NoSlug
    BY DEF ItemSlugFree
  <2> QED
    BY <1>3, <2>1 DEF ShelfInv, SlugsApart
<1>8. Unnamed'
  <2> SUFFICES ASSUME NEW j \in Items, j \in Products', item'[j].slug = NoSlug
               PROVE  j \in stopped \/ \E q \in Clerks : j \in SlugDue(form'[q])
    BY DEF Unnamed, Products
  <2>1. CASE j = i
    BY <1>2, <1>3, <2>1
  <2>2. CASE j # i
    <3>1. j \in stopped \/ \E q \in Clerks : j \in SlugDue(form[q])
      BY <1>3, <1>5, <2>2 DEF ShelfInv, Unnamed
    <3> QED
      BY <1>2, <2>2, <3>1
  <2> QED
    BY <2>1, <2>2
<1> QED
  BY <1>4, <1>6, <1>7, <1>8 DEF ShelfInv

\* What CreateCategoryWrite and an import add is live; nothing else changes.
LEMMA CategoryAdded ==
  ASSUME ShelfInv, NEW c \in CatIds, NEW nw \in CategoryRow, Found(nw.parent),
         category' = [category EXCEPT ![c] = nw]
  PROVE  /\ category' \in [CatIds -> CategoryRow \cup {NoCategory}]
         /\ Live' = Live \cup {c} /\ CategoriesLinked'
<1>1. category \in [CatIds -> CategoryRow \cup {NoCategory}]
  BY DEF ShelfInv, ShelfTypes
<1>2. category' \in [CatIds -> CategoryRow \cup {NoCategory}] /\ category'[c] = nw /\ \A d \in CatIds \ {c} : category'[d] = category[d]
  BY <1>1
<1>3. Live' = Live \cup {c}
  BY <1>2, ShelfData DEF Live
<1>4. CategoriesLinked'
  BY <1>2, <1>3 DEF ShelfInv, CategoriesLinked, Found
<1> QED
  BY <1>2, <1>3, <1>4

LEMMA CreateCategoryShelf ==
  ASSUME ShelfInv, UNCHANGED shop, NEW p \in Clerks, CreateCategoryWrite(p) PROVE ShelfInv'
<1> DEFINE nw == form[p].new
<1>1. /\ form[p].op = "create" /\ nw \in CategoryRow /\ shop.shelves \in 0 .. MaxCats /\ MaxCats \in Nat
      /\ form' = [form EXCEPT ![p] = NoForm] /\ item' = item /\ stopped' = stopped
  BY ShopAssumption, ShelvesAssumption DEF ShelfInv, ShelfTypes, FormOK, CreateCategoryWrite
<1>2. category \in [CatIds -> CategoryRow \cup {NoCategory}] /\ SlugDue(form[p]) = {}
  BY <1>1 DEF ShelfInv, ShelfTypes, SlugDue
<1>3. CASE category' = category
  BY <1>1, <1>2, <1>3, CategoriesChange DEF ShelfInv, Live, CategoriesLinked, Found
<1>4. CASE Found(nw.parent) /\ category' = [category EXCEPT ![NextId] = nw] /\ NextId \in CatIds
  <2>1. PICK c \in CatIds : category' = [category EXCEPT ![c] = nw]
    BY <1>4
  <2>2. category' \in [CatIds -> CategoryRow \cup {NoCategory}] /\ Live \subseteq Live' /\ CategoriesLinked'
    BY <1>1, <1>4, <2>1, CategoryAdded
  <2> QED
    BY <1>1, <1>2, <2>2, CategoriesChange
<1>5. category' = category \/ (Found(nw.parent) /\ category' = [category EXCEPT ![NextId] = nw])
  BY DEF CreateCategoryWrite
<1>6. NextId \notin CatIds => [category EXCEPT ![NextId] = nw] = category
  BY <1>2
<1> QED
  BY <1>3, <1>4, <1>5, <1>6

\* What an UPDATE writes of a row is of the row or of the form.
LEMMA UpdatedFields ==
  ASSUME NEW rec, NEW old, NEW nw
  PROVE  /\ DOMAIN Updated(rec, old, nw) = DOMAIN rec
         /\ \A k \in DOMAIN rec : Updated(rec, old, nw)[k] = (IF SQLite /\ nw[k] = old[k] THEN rec[k] ELSE nw[k])
BY DEF Updated

LEMMA UpdatedCategory ==
  ASSUME NEW rec \in CategoryRow, NEW old, NEW nw \in CategoryRow
  PROVE  Updated(rec, old, nw) \in CategoryRow
<1> DEFINE u == Updated(rec, old, nw)
<1>1. DOMAIN rec = {"slug", "parent"}
  BY DEF CategoryRow
<1>2. u = [k \in {"slug", "parent"} |-> u[k]] /\ u["slug"] \in {rec.slug, nw.slug} /\ u["parent"] \in {rec.parent, nw.parent}
  BY <1>1 DEF Updated
<1>3. /\ {rec.slug, nw.slug} \subseteq Texts /\ {rec.parent, nw.parent} \subseteq CatIds \cup {Root}
  BY DEF CategoryRow
<1> HIDE DEF u
<1>4. u = [slug |-> u["slug"], parent |-> u["parent"]]
  BY <1>2
<1>5. u["slug"] \in Texts /\ u["parent"] \in CatIds \cup {Root}
  BY <1>2, <1>3
<1>6. u \in CategoryRow
  BY <1>4, <1>5 DEF CategoryRow
<1> QED
  BY <1>6 DEF u

LEMMA MoveCategoryShelf ==
  ASSUME ShelfInv, UNCHANGED shop, NEW p \in Clerks, MoveCategoryWrite(p) PROVE ShelfInv'
<1> DEFINE c == form[p].id
           rec == Updated(category[c], form[p].old, form[p].new)
<1>1. /\ form[p].op = "move" /\ form[p].new \in CategoryRow
      /\ form' = [form EXCEPT ![p] = NoForm] /\ item' = item /\ stopped' = stopped
  BY DEF ShelfInv, ShelfTypes, FormOK, MoveCategoryWrite
<1>2. category \in [CatIds -> CategoryRow \cup {NoCategory}] /\ SlugDue(form[p]) = {}
  BY <1>1 DEF ShelfInv, ShelfTypes, SlugDue
<1>3. CASE category' = category
  BY <1>1, <1>2, <1>3, CategoriesChange DEF ShelfInv, Live, CategoriesLinked, Found
<1>4. CASE c \in Live /\ Found(rec.parent) /\ category' = [category EXCEPT ![c] = rec]
  <2>1. c \in CatIds /\ category[c] \in CategoryRow
    BY <1>2, <1>4 DEF Live
  <2>2. rec \in CategoryRow
    BY <1>1, <2>1, UpdatedCategory
  <2> HIDE DEF rec, c
  <2>3. category' \in [CatIds -> CategoryRow \cup {NoCategory}] /\ Live \subseteq Live' /\ CategoriesLinked'
    BY <1>4, <2>1, <2>2, CategoryAdded
  <2> QED
    BY <1>1, <1>2, <2>3, CategoriesChange
<1>5. category' = category \/ (c \in Live /\ Found(rec.parent) /\ category' = [category EXCEPT ![c] = rec])
  BY DEF MoveCategoryWrite
<1> QED
  BY <1>3, <1>4, <1>5

\* A deleted category leaves its children without a parent, its products without a category.
LEMMA CategoryDeleted ==
  ASSUME ShelfInv, NEW p \in Clerks, DeleteCategoryWrite(p)
  PROVE  /\ category' \in [CatIds -> CategoryRow \cup {NoCategory}] /\ Live' = Live \ {form[p].id}
         /\ \A d \in Live' : /\ category'[d].parent = (IF category[d].parent = form[p].id THEN Root ELSE category[d].parent)
         /\ item' \in [Items -> ItemRow \cup {NoItem}] /\ Products' = Products
         /\ \A i \in Items : /\ item'[i].slug = item[i].slug
                             /\ item'[i].cat = (IF item[i].cat = form[p].id THEN Root ELSE item[i].cat)
<1> DEFINE c == form[p].id
<1>1. /\ category \in [CatIds -> CategoryRow \cup {NoCategory}] /\ item \in [Items -> ItemRow \cup {NoItem}]
  BY DEF ShelfInv, ShelfTypes
<1>2. /\ category' = [d \in CatIds |-> CASE d = c -> NoCategory
                                         [] d # c /\ category[d].parent = c -> [category[d] EXCEPT !.parent = Root]
                                         [] OTHER -> category[d]]
      /\ item' = [i \in Items |-> IF item[i].cat = c THEN [item[i] EXCEPT !.cat = Root] ELSE item[i]]
  BY DEF DeleteCategoryWrite
<1> HIDE DEF c
<1>3. \A r \in CategoryRow : [r EXCEPT !.parent = Root] \in CategoryRow /\ [r EXCEPT !.parent = Root].parent = Root
  BY DEF CategoryRow
<1>4. [NoCategory EXCEPT !.parent = Root] = NoCategory /\ NoCategory.parent = Root
  BY DEF NoCategory
<1>5. \A d \in CatIds : d # c => /\ category'[d] = (IF category[d].parent = c THEN [category[d] EXCEPT !.parent = Root] ELSE category[d])
  BY <1>2
<1>6. DOMAIN category' = CatIds /\ (c \in CatIds => category'[c] = NoCategory)
  BY <1>2
<1>7. \A d \in CatIds : /\ category'[d] \in CategoryRow \cup {NoCategory}
                        /\ d # c => (category'[d] = NoCategory <=> category[d] = NoCategory)
                        /\ d # c => category'[d].parent = (IF category[d].parent = c THEN Root ELSE category[d].parent)
  <2> SUFFICES ASSUME NEW d \in CatIds, d # c
               PROVE  /\ category'[d] \in CategoryRow \cup {NoCategory}
                      /\ category'[d] = NoCategory <=> category[d] = NoCategory
                      /\ category'[d].parent = (IF category[d].parent = c THEN Root ELSE category[d].parent)
    BY <1>6
  <2>1. CASE category[d] = NoCategory
    BY <1>4, <1>5, <2>1
  <2>2. CASE category[d] \in CategoryRow
    BY <1>3, <1>5, <2>2, ShelfData
  <2> QED
    BY <1>1, <2>1, <2>2
<1>8. category' = [d \in CatIds |-> category'[d]]
  BY <1>2
<1>9. Live' = Live \ {c}
  BY <1>6, <1>7 DEF Live
<1>10. \A r \in ItemRow : LET s == [r EXCEPT !.cat = Root] IN s \in ItemRow /\ s.cat = Root /\ s.slug = r.slug
  BY DEF ItemRow
<1>11. LET s == [NoItem EXCEPT !.cat = Root] IN s = NoItem /\ s.cat = Root /\ s.slug = NoItem.slug
  BY DEF NoItem
<1>12. \A i \in Items : /\ item'[i] \in ItemRow \cup {NoItem}
                        /\ item'[i] = NoItem <=> item[i] = NoItem
                        /\ item'[i].slug = item[i].slug
                        /\ item'[i].cat = (IF item[i].cat = c THEN Root ELSE item[i].cat)
  <2> SUFFICES ASSUME NEW i \in Items
               PROVE  /\ item'[i] \in ItemRow \cup {NoItem}
                      /\ item'[i] = NoItem <=> item[i] = NoItem
                      /\ item'[i].slug = item[i].slug
                      /\ item'[i].cat = (IF item[i].cat = c THEN Root ELSE item[i].cat)
    OBVIOUS
  <2>1. item'[i] = (IF item[i].cat = c THEN [item[i] EXCEPT !.cat = Root] ELSE item[i])
    BY <1>2
  <2>2. CASE item[i] = NoItem
    BY <1>11, <2>1, <2>2
  <2>3. CASE item[i] \in ItemRow
    BY <1>10, <2>1, <2>3, ShelfData
  <2> QED
    BY <1>1, <2>2, <2>3
<1>13. item' \in [Items -> ItemRow \cup {NoItem}] /\ Products' = Products
  BY <1>2, <1>12 DEF Products
<1> QED
  BY <1>7, <1>8, <1>9, <1>12, <1>13 DEF c, Live

LEMMA DeleteCategoryShelf ==
  ASSUME ShelfInv, UNCHANGED shop, NEW p \in Clerks, DeleteCategoryWrite(p) PROVE ShelfInv'
<1> DEFINE c == form[p].id
<1>1. form[p].op = "delete" /\ form' = [form EXCEPT ![p] = NoForm] /\ stopped' = stopped
  BY DEF DeleteCategoryWrite
<1>2. FormOK(NoForm, stopped') /\ SlugDue(NoForm) = {} /\ SlugDue(form[p]) = {}
  BY <1>1 DEF FormOK, NoForm, SlugDue
<1>3. /\ form' = [q \in Clerks |-> form'[q]] /\ form'[p] = NoForm
      /\ \A q \in Clerks : FormOK(form'[q], stopped') /\ (q # p => form'[q] = form[q])
  BY <1>1, <1>2, FormsFollow DEF ShelfInv
<1>4. ShelfTypes'
  BY <1>3, CategoryDeleted DEF ShelfInv, ShelfTypes, FormOK
<1>5. CategoriesLinked' /\ ItemsLinked'
  BY CategoryDeleted DEF ShelfInv, CategoriesLinked, ItemsLinked, Found, Products
<1>6. Products' = Products /\ \A i \in Items : item'[i].slug = item[i].slug
  BY CategoryDeleted
<1>7. SlugsApart'
  BY <1>6 DEF ShelfInv, SlugsApart
<1>8. Unnamed'
  BY <1>1, <1>2, <1>3, <1>6 DEF ShelfInv, Unnamed, Products
<1> QED
  BY <1>4, <1>5, <1>7, <1>8 DEF ShelfInv

\* A request reads and checks.
LEMMA FormBegins ==
  ASSUME ShelfInv, UNCHANGED shop, NEW p \in Clerks,
         \/ \E c \in CatIds : DeleteCategory(p, c)
         \/ \E s \in shop.texts, q \in CatIds \cup {Root} :
              \/ CreateCategory(p, s, q)
              \/ \E c \in CatIds : MoveCategory(p, c, s, q)
              \/ \E i \in shop.items, status \in Statuses : CreateItem(p, i, s, status, q)
  PROVE  ShelfInv'
<1>1. shop.texts \subseteq Texts /\ shop.items \subseteq Items
  BY ShopAssumption DEF ShelfInv, ShelfTypes
<1>2. form[p] = NoForm /\ SlugDue(form[p]) = {} /\ stopped' = stopped /\ item' = item /\ category' = category
  <2>1. form[p] = NoForm /\ stopped' = stopped /\ item' = item /\ category' = category
    BY DEF CreateCategory, MoveCategory, DeleteCategory, CreateItem, Idle
  <2>2. SlugDue(NoForm) = {}
    BY DEF SlugDue, NoForm
  <2> QED BY <2>1, <2>2
<1>3. ASSUME NEW f, form' = [form EXCEPT ![p] = f], FormOK(f, stopped') PROVE ShelfInv'
  BY <1>2, <1>3, FormMoves
<1>4. ASSUME NEW c \in CatIds, DeleteCategory(p, c) PROVE ShelfInv'
  <2>1. FormOK([NoForm EXCEPT !.op = "delete", !.id = c], stopped')
    BY DEF FormOK, NoForm
  <2> QED
    BY <1>3, <1>4, <2>1 DEF DeleteCategory
<1>5. ASSUME NEW s \in Texts, NEW q \in CatIds \cup {Root}, CreateCategory(p, s, q) PROVE ShelfInv'
  <2>1. FormOK([op |-> "create", id |-> Root, old |-> NoCategory, new |-> [slug |-> s, parent |-> q]], stopped')
    BY DEF FormOK, CategoryRow
  <2> QED
    BY <1>3, <1>5, <2>1 DEF CreateCategory
<1>6. ASSUME NEW s \in Texts, NEW q \in CatIds \cup {Root}, NEW c \in CatIds, MoveCategory(p, c, s, q) PROVE ShelfInv'
  <2>1. FormOK([op |-> "move", id |-> c, old |-> category[c], new |-> [slug |-> s, parent |-> q]], stopped')
    BY DEF FormOK, CategoryRow
  <2> QED
    BY <1>3, <1>6, <2>1 DEF MoveCategory
<1>7. ASSUME NEW s \in Texts, NEW q \in CatIds \cup {Root}, NEW i \in Items, NEW status \in Statuses, CreateItem(p, i, s, status, q)
      PROVE  ShelfInv'
  <2>1. FormOK([op |-> "add", id |-> i, old |-> NoItem, new |-> [slug |-> <<s>>, status |-> status, cat |-> q]], stopped')
    BY DEF FormOK, DraftRow, TypedSlugs
  <2> QED
    BY <1>3, <1>7, <2>1 DEF CreateItem
<1> QED
  BY <1>1, <1>4, <1>5, <1>6, <1>7

\* A product is edited: what is typed as its slug, or the slug as it was.
LEMMA EditBegins ==
  ASSUME ShelfInv, UNCHANGED shop, NEW p \in Clerks, NEW i \in Items, NEW status \in Statuses, NEW q \in CatIds \cup {Root},
         NEW t, t \in Texts \cup {item[i].slug}, EditItem(p, i, t, status, q)
  PROVE  ShelfInv'
<1> DEFINE nw == [slug |-> IF t = item[i].slug THEN t ELSE <<t>>, status |-> status, cat |-> q]
           f == [op |-> "edit", id |-> i, old |-> item[i], new |-> IF SQLite THEN nw ELSE Resolved(nw, i)]
<1>1. /\ form[p] = NoForm /\ form' = [form EXCEPT ![p] = f] /\ UNCHANGED <<category, item>>
      /\ stopped' = (IF item[i].slug = NoSlug THEN stopped \cup {i} ELSE stopped)
  BY DEF EditItem, Idle
<1>2. ShelfTypes /\ item[i].slug \in Slugs \cup {NoSlug}
  BY LiveRows DEF ShelfInv
<1>3. nw.slug \in Slugs \cup {NoSlug} \cup TypedSlugs /\ (nw.slug = NoSlug => item[i].slug = NoSlug)
  BY <1>2, ShelfData DEF TypedSlugs
<1>4. nw \in DraftRow
  BY <1>3 DEF DraftRow
<1>5. /\ Resolved(nw, i) \in ItemRow /\ (nw.slug \notin TypedSlugs => Resolved(nw, i) = nw)
      /\ (nw.slug \in TypedSlugs => Resolved(nw, i).slug \in Slugs)
  <2> HIDE DEF nw
  <2> QED BY <1>2, <1>4, ResolvedRow
<1>6. f.new \in DraftRow /\ (f.new.slug = NoSlug => nw.slug = NoSlug)
  <2>1. \A r \in ItemRow : r \in DraftRow
    BY DEF ItemRow, DraftRow
  <2>2. f.new = nw \/ f.new = Resolved(nw, i)
    OBVIOUS
  <2> HIDE DEF nw, f
  <2> QED
    BY <1>4, <1>5, <2>1, <2>2, ShelfData
<1>7. FormOK(f, stopped')
  <2>1. DOMAIN f = {"op", "id", "old", "new"} /\ f.op = "edit" /\ f.id = i
    OBVIOUS
  <2>2. f.new.slug = NoSlug => i \in stopped'
    BY <1>1, <1>3, <1>6
  <2> HIDE DEF f
  <2> QED BY <1>6, <2>1, <2>2 DEF FormOK
<1>8. SlugDue(form[p]) = {} /\ stopped \subseteq stopped'
  BY <1>1 DEF SlugDue, NoForm
<1> HIDE DEF f
<1> QED
  BY <1>1, <1>7, <1>8, FormMoves

\* A creation on SQLite, and the first half of one on D1.
LEMMA CreateItemShelf ==
  ASSUME ShelfInv, UNCHANGED shop, NEW p \in Clerks, CreateItemWrite(p) \/ InsertItem(p) PROVE ShelfInv'
<1> DEFINE i == form[p].id
           nw == form[p].new
<1>1. /\ form[p].op = "add" /\ i \in Items /\ nw \in DraftRow /\ nw.slug \in TypedSlugs /\ SlugDue(form[p]) = {}
      /\ DOMAIN form[p] = {"op", "id", "old", "new"} /\ category' = category /\ stopped' = stopped
  BY DEF ShelfInv, ShelfTypes, FormOK, CreateItemWrite, InsertItem, SlugDue
<1>2. ShelfTypes
  BY DEF ShelfInv
<1>3. /\ Live' = Live /\ Live \subseteq Live' /\ CategoriesLinked' /\ category' \in [CatIds -> CategoryRow \cup {NoCategory}]
  BY <1>1, <1>2 DEF ShelfInv, CategoriesLinked, Live, Found, ShelfTypes
<1>4. /\ Resolved(nw, i) \in ItemRow /\ Resolved(nw, i).cat = nw.cat
      /\ Resolved(nw, i).slug \in Slugs /\ ItemSlugFree(Resolved(nw, i).slug, i)
  BY <1>1, <1>2, ResolvedRow
<1>5. FormOK(NoForm, stopped) /\ FormOK(NoForm, stopped')
  BY DEF FormOK, NoForm
<1>6. CASE item' = item /\ form' = [form EXCEPT ![p] = NoForm]
  BY <1>1, <1>5, <1>6, FormMoves
<1>7. CASE CreateItemWrite(p) /\ Found(nw.cat)
  <2>1. item' = [item EXCEPT ![i] = Resolved(nw, i)] /\ form' = [form EXCEPT ![p] = NoForm]
    BY <1>7 DEF CreateItemWrite
  <2>2. Resolved(nw, i).cat = Root \/ Resolved(nw, i).cat \in Live'
    BY <1>3, <1>4, <1>7 DEF Found
  <2>3. Resolved(nw, i).slug # NoSlug
    BY <1>4, ShelfData
  <2> HIDE DEF i, nw
  <2> QED
    BY <1>1, <1>3, <1>4, <1>5, <2>1, <2>2, <2>3, ItemWritten
<1>8. CASE InsertItem(p) /\ Found(nw.cat)
  <2> DEFINE f == [form[p] EXCEPT !.op = "slug", !.new = Resolved(nw, i)]
             rec == [nw EXCEPT !.slug = NoSlug]
  <2>1. /\ item' = [item EXCEPT ![i] = rec] /\ ~SQLite
        /\ form' = [form EXCEPT ![p].op = "slug", ![p].new = Resolved(nw, i)]
    BY <1>8 DEF InsertItem
  <2>2. form' = [form EXCEPT ![p] = f]
    BY <2>1
  <2>3. DOMAIN f = {"op", "id", "old", "new"} /\ f.op = "slug" /\ f.id = i /\ f.new = Resolved(nw, i)
    BY <1>1
  <2>4. \A r \in ItemRow : r \in DraftRow
    BY DEF ItemRow, DraftRow
  <2>5. rec \in ItemRow /\ rec.slug = NoSlug /\ rec.cat = nw.cat
    BY <1>1 DEF DraftRow, ItemRow
  <2>6. rec.cat = Root \/ rec.cat \in Live'
    BY <1>3, <1>8, <2>5 DEF Found
  <2> HIDE DEF f, rec, i, nw
  <2>7. FormOK(f, stopped) /\ SlugDue(f) = {i}
    BY <1>1, <1>4, <2>1, <2>3, <2>4 DEF FormOK, SQLite, SlugDue
  <2> QED
    BY <1>1, <1>3, <2>1, <2>2, <2>5, <2>6, <2>7, ItemWritten
<1>9. (item' = item /\ form' = [form EXCEPT ![p] = NoForm]) \/ Found(nw.cat)
  BY DEF CreateItemWrite, InsertItem
<1> QED
  BY <1>6, <1>7, <1>8, <1>9

\* The category of an imported product is there, or the next to be made.
LEMMA ImportShelf ==
  ASSUME ShelfInv, UNCHANGED shop, NEW p \in Clerks, NEW i \in Items, NEW t \in Texts, NEW status \in Statuses,
         ImportItem(p, i, t, status)
  PROVE  ShelfInv'
<1> DEFINE cat == CategoryFor(t)
           nw == [slug |-> UniqueSlug(t, i), status |-> status, cat |-> cat]
           none == [nw EXCEPT !.slug = NoSlug, !.cat = Root]
           born == [slug |-> BaseOf[t], parent |-> Root]
           f == [op |-> "slug", id |-> i, old |-> NoItem, new |-> nw]
<1>1. /\ form[p] = NoForm /\ stopped' = stopped /\ cat \in 1 .. shop.shelves
      /\ category' = IF cat \in Live THEN category ELSE [category EXCEPT ![cat] = born]
      /\ SQLite => item' = [item EXCEPT ![i] = nw] /\ form' = form
      /\ ~SQLite => item' = [item EXCEPT ![i] = none] /\ form' = [form EXCEPT ![p] = f]
  BY DEF ImportItem, Idle
<1>2. ShelfTypes /\ shop.shelves \in 0 .. MaxCats /\ MaxCats \in Nat
  BY ShopAssumption, ShelvesAssumption DEF ShelfInv, ShelfTypes
<1>3. cat \in CatIds
  BY <1>1, <1>2 DEF CatIds
<1>4. /\ category' \in [CatIds -> CategoryRow \cup {NoCategory}] /\ CategoriesLinked'
      /\ Live' = Live \cup {cat}
  <2>1. CASE cat \in Live
    BY <1>1, <1>2, <2>1 DEF ShelfInv, ShelfTypes, CategoriesLinked, Live, Found
  <2>2. CASE cat \notin Live
    <3>1. born \in CategoryRow /\ Found(born.parent)
      BY ShelfData DEF CategoryRow, Found
    <3>2. category' = [category EXCEPT ![cat] = born]
      BY <1>1, <2>2
    <3> HIDE DEF born, cat
    <3> QED
      BY <1>3, <3>1, <3>2, CategoryAdded
  <2> QED
    BY <2>1, <2>2
<1>5. UniqueSlug(t, i) \in Slugs /\ ItemSlugFree(UniqueSlug(t, i), i)
  BY <1>2, FreeSuffix
<1>6. /\ nw \in ItemRow /\ nw.slug = UniqueSlug(t, i) /\ nw.cat = cat /\ nw \in DraftRow
      /\ none \in ItemRow /\ none.slug = NoSlug /\ none.cat = Root
  BY <1>3, <1>5 DEF ItemRow, DraftRow
<1>7. FormOK(NoForm, stopped) /\ SlugDue(NoForm) = {} /\ form = [form EXCEPT ![p] = NoForm]
  <2>1. FormOK(NoForm, stopped) /\ SlugDue(NoForm) = {}
    BY DEF FormOK, NoForm, SlugDue
  <2>2. form = [form EXCEPT ![p] = NoForm]
    BY <1>1, <1>2 DEF ShelfTypes
  <2> QED BY <2>1, <2>2
<1>8. f.op = "slug" /\ f.id = i /\ f.new = nw /\ DOMAIN f = {"op", "id", "old", "new"}
  OBVIOUS
<1> HIDE DEF f, nw, none, born, cat
<1>9. ~SQLite => FormOK(f, stopped) /\ SlugDue(f) = {i}
  BY <1>5, <1>6, <1>8 DEF FormOK, SlugDue, SQLite
<1>10. CASE SQLite
  <2>1. nw.cat \in Live' /\ nw.slug # NoSlug /\ ItemSlugFree(nw.slug, i) /\ SlugDue(form[p]) = {}
    BY <1>1, <1>4, <1>5, <1>6, <1>7, ShelfData
  <2>2. item' = [item EXCEPT ![i] = nw] /\ form' = [form EXCEPT ![p] = NoForm]
    BY <1>1, <1>7, <1>10
  <2>3. Live \subseteq Live'
    BY <1>4
  <2> QED
    BY <1>1, <1>4, <1>6, <1>7, <2>1, <2>2, <2>3, ItemWritten
<1>11. CASE ~SQLite
  <2>1. Live \subseteq Live' /\ SlugDue(form[p]) = {} /\ i \in SlugDue(f) /\ FormOK(f, stopped)
    BY <1>1, <1>4, <1>7, <1>9, <1>11
  <2> QED
    BY <1>1, <1>4, <1>6, <1>11, <2>1, ItemWritten
<1> QED
  BY <1>10, <1>11

\* The page that refuses a slug may set the status.
LEMMA RejectShelf ==
  ASSUME ShelfInv, UNCHANGED shop, NEW p \in Clerks, NEW i \in Items, NEW t, NEW status \in Statuses, RejectItem(p, i, t, status)
  PROVE  ShelfInv'
<1>1. /\ i \in Products /\ UNCHANGED <<category, form, stopped>>
      /\ item' = item \/ item' = [item EXCEPT ![i].status = status]
  BY DEF RejectItem
<1>2. /\ item \in [Items -> ItemRow \cup {NoItem}] /\ item[i] \in ItemRow
  BY <1>1, LiveRows DEF ShelfInv, ShelfTypes
<1>3. \A r \in ItemRow : LET s == [r EXCEPT !.status = status] IN s \in ItemRow /\ s.slug = r.slug /\ s.cat = r.cat
  BY DEF ItemRow
<1>4. /\ item' \in [Items -> ItemRow \cup {NoItem}]
      /\ \A j \in Items : /\ item'[j] = NoItem <=> item[j] = NoItem
                          /\ item'[j].slug = item[j].slug /\ item'[j].cat = item[j].cat
  <2>1. CASE item' = item
    BY <1>2, <2>1
  <2>2. CASE item' = [item EXCEPT ![i].status = status]
    <3>1. item'[i] = [item[i] EXCEPT !.status = status] /\ \A j \in Items \ {i} : item'[j] = item[j]
      BY <1>2, <2>2
    <3>2. item'[i] \in ItemRow /\ item'[i].slug = item[i].slug /\ item'[i].cat = item[i].cat
      BY <1>2, <1>3, <3>1
    <3>3. DOMAIN item' = Items /\ item' = [j \in Items |-> item'[j]]
      BY <1>2, <2>2
    <3> QED
      BY <1>2, <3>1, <3>2, <3>3, ShelfData
  <2> QED
    BY <1>1, <2>1, <2>2
<1>5. Products' = Products /\ Live' = Live
  BY <1>1, <1>4 DEF Products, Live
<1>6. ShelfTypes'
  BY <1>1, <1>4 DEF ShelfInv, ShelfTypes, FormOK
<1>7. CategoriesLinked' /\ ItemsLinked'
  BY <1>1, <1>4, <1>5 DEF ShelfInv, CategoriesLinked, ItemsLinked, Found, Products
<1>8. SlugsApart' /\ Unnamed'
  BY <1>1, <1>4, <1>5 DEF ShelfInv, SlugsApart, Unnamed, Products
<1> QED
  BY <1>6, <1>7, <1>8 DEF ShelfInv

LEMMA UpdatedItem ==
  ASSUME NEW rec \in ItemRow, NEW old, NEW nw \in ItemRow
  PROVE  /\ Updated(rec, old, nw) \in ItemRow
         /\ Updated(rec, old, nw).slug = (IF SQLite /\ nw.slug = old.slug THEN rec.slug ELSE nw.slug)
<1> DEFINE u == Updated(rec, old, nw)
<1>1. DOMAIN rec = {"slug", "status", "cat"}
  BY DEF ItemRow
<1>2. /\ u = [k \in {"slug", "status", "cat"} |-> u[k]]
      /\ u["slug"] = (IF SQLite /\ nw.slug = old.slug THEN rec.slug ELSE nw.slug)
      /\ u["status"] \in {rec.status, nw.status} /\ u["cat"] \in {rec.cat, nw.cat}
  BY <1>1 DEF Updated
<1>3. /\ {rec.slug, nw.slug} \subseteq Slugs \cup {NoSlug} /\ {rec.status, nw.status} \subseteq Statuses
      /\ {rec.cat, nw.cat} \subseteq CatIds \cup {Root}
  BY DEF ItemRow
<1> HIDE DEF u
<1>4. u = [slug |-> u["slug"], status |-> u["status"], cat |-> u["cat"]]
  BY <1>2
<1>5. u["slug"] \in Slugs \cup {NoSlug} /\ u["status"] \in Statuses /\ u["cat"] \in CatIds \cup {Root}
  BY <1>2, <1>3
<1>6. u \in ItemRow
  BY <1>4, <1>5 DEF ItemRow
<1> QED
  BY <1>2, <1>6 DEF u

\* An edit, and the second half of a creation on D1.
LEMMA ItemWriteShelf ==
  ASSUME ShelfInv, UNCHANGED shop, NEW p \in Clerks, ItemWrite(p) PROVE ShelfInv'
<1> DEFINE i == form[p].id
           nw == Resolved(form[p].new, i)
           rec == Updated(item[i], form[p].old, nw)
<1>1. /\ form[p].op \in {"edit", "slug"} /\ i \in Items /\ form[p].new \in DraftRow
      /\ form[p].op = "slug" => ~SQLite /\ form[p].new.slug \in Slugs
      /\ form[p].op = "edit" /\ form[p].new.slug = NoSlug => i \in stopped
      /\ form' = [form EXCEPT ![p] = NoForm] /\ category' = category
  BY DEF ShelfInv, ShelfTypes, FormOK, ItemWrite, SQLite
<1>2. ShelfTypes
  BY DEF ShelfInv
<1>3. FormOK(NoForm, stopped) /\ FormOK(NoForm, stopped')
  BY DEF FormOK, NoForm
<1>4. CASE item' = item /\ stopped' = stopped \cup HalfMade(p)
  <2>1. SlugDue(form[p]) \subseteq stopped'
    BY <1>4 DEF HalfMade, SlugDue
  <2> QED
    BY <1>1, <1>3, <1>4, <2>1, FormMoves
<1>5. CASE /\ i \in Products /\ (rec.slug = NoSlug \/ ItemSlugFree(rec.slug, i)) /\ Found(rec.cat)
           /\ item' = [item EXCEPT ![i] = rec] /\ stopped' = stopped
  <2>1. item[i] \in ItemRow
    BY <1>1, <1>2, <1>5, LiveRows
  <2>2. /\ nw \in ItemRow /\ (nw.slug = NoSlug => form[p].new.slug = NoSlug)
    BY <1>1, <1>2, ResolvedRow, ShelfData
  <2>3. rec \in ItemRow /\ rec.slug = (IF SQLite /\ nw.slug = form[p].old.slug THEN item[i].slug ELSE nw.slug)
    <3> HIDE DEF nw
    <3> QED BY <2>1, <2>2, UpdatedItem
  <2>4. rec.slug = NoSlug => i \in stopped
    <3>1. CASE SQLite /\ item[i].slug = NoSlug
      BY <1>1, <1>2, <1>5, <3>1 DEF ShelfInv, Unnamed, SlugDue, ShelfTypes, FormOK, SQLite
    <3>2. CASE nw.slug = NoSlug
      BY <1>1, <2>2, <3>2, ShelfData
    <3> QED
      BY <2>3, <3>1, <3>2
  <2>5. Live' = Live /\ CategoriesLinked' /\ category' \in [CatIds -> CategoryRow \cup {NoCategory}]
    BY <1>1, <1>2 DEF ShelfInv, CategoriesLinked, Live, Found, ShelfTypes
  <2>6. (rec.cat = Root \/ rec.cat \in Live') /\ Live \subseteq Live'
    BY <1>5, <2>5 DEF Found
  <2>7. SlugDue(form[p]) \subseteq {i}
    BY DEF SlugDue
  <2> HIDE DEF rec, nw, i
  <2> QED
    BY <1>1, <1>3, <1>5, <2>3, <2>4, <2>5, <2>6, <2>7, ItemWritten
<1> QED
  BY <1>4, <1>5 DEF ItemWrite

LEMMA FormFailsShelf ==
  ASSUME ShelfInv, UNCHANGED shop, NEW p \in Clerks, FormFails(p) PROVE ShelfInv'
<1>1. form' = [form EXCEPT ![p] = NoForm] /\ stopped' = stopped \cup SlugDue(form[p]) /\ UNCHANGED <<category, item>>
  BY DEF FormFails, HalfMade, SlugDue
<1>2. FormOK(NoForm, stopped')
  BY DEF FormOK, NoForm
<1> QED
  BY <1>1, <1>2, FormMoves

LEMMA DropFormsShelf ==
  ASSUME ShelfInv, UNCHANGED shop, DropForms PROVE ShelfInv'
<1>1. /\ form' = [p \in Clerks |-> NoForm] /\ UNCHANGED <<category, item>> /\ stopped \subseteq stopped'
      /\ \A p \in Clerks : SlugDue(form[p]) \subseteq stopped'
  BY DEF DropForms, HalfMade, SlugDue
<1>2. FormOK(NoForm, stopped')
  BY DEF FormOK, NoForm
<1>3. ShelfTypes'
  BY <1>1, <1>2 DEF ShelfInv, ShelfTypes, FormOK
<1>4. CategoriesLinked' /\ ItemsLinked' /\ SlugsApart'
  BY <1>1 DEF ShelfInv, CategoriesLinked, ItemsLinked, SlugsApart, Found, Live, Products
<1>5. Unnamed'
  BY <1>1 DEF ShelfInv, Unnamed, Products
<1> QED
  BY <1>3, <1>4, <1>5 DEF ShelfInv

LEMMA ShelfStep == ShelfInv /\ [Next]_vars => ShelfInv'
<1> SUFFICES ASSUME ShelfInv, [Next]_vars PROVE ShelfInv'
  OBVIOUS
<1>1. UNCHANGED shop /\ (UNCHANGED shelfVars \/ ShelvesStep \/ DropForms)
  BY NextShelves
<1>2. CASE UNCHANGED shelfVars
  <2>1. UNCHANGED <<category, item, form, stopped>>
    BY <1>2 DEF shelfVars
  <2>2. ShelfTypes' /\ CategoriesLinked'
    BY <1>1, <2>1 DEF ShelfInv, ShelfTypes, FormOK, CategoriesLinked, Found, Live
  <2>3. ItemsLinked' /\ SlugsApart' /\ Unnamed'
    BY <2>1 DEF ShelfInv, ItemsLinked, SlugsApart, Unnamed, Found, Live, Products
  <2> QED
    BY <2>2, <2>3 DEF ShelfInv
<1>3. CASE ShelvesStep
  <2>1. shop.clerks \subseteq Clerks /\ shop.texts \subseteq Texts /\ shop.items \subseteq Items
    BY ShopAssumption DEF ShelfInv, ShelfTypes
  <2>2. PICK p \in shop.clerks :
          \/ CreateCategoryWrite(p) \/ MoveCategoryWrite(p) \/ DeleteCategoryWrite(p)
          \/ CreateItemWrite(p) \/ InsertItem(p) \/ ItemWrite(p) \/ FormFails(p)
          \/ \E c \in CatIds : DeleteCategory(p, c)
          \/ \E s \in shop.texts, q \in CatIds \cup {Root} :
               \/ CreateCategory(p, s, q)
               \/ \E c \in CatIds : MoveCategory(p, c, s, q)
               \/ \E i \in shop.items, status \in Statuses : CreateItem(p, i, s, status, q) \/ EditItem(p, i, s, status, q)
          \/ \E i \in shop.items, status \in Statuses, q \in CatIds \cup {Root} : EditItem(p, i, item[i].slug, status, q)
          \/ \E s \in shop.texts, i \in shop.items, status \in Statuses :
               ImportItem(p, i, s, status) \/ RejectItem(p, i, s, status)
    BY <1>3 DEF ShelvesStep
  <2>3. p \in Clerks
    BY <2>1
  <2>4. CASE \/ CreateCategoryWrite(p) \/ MoveCategoryWrite(p) \/ DeleteCategoryWrite(p)
             \/ CreateItemWrite(p) \/ InsertItem(p) \/ ItemWrite(p) \/ FormFails(p)
    BY <1>1, <2>3, <2>4, CreateCategoryShelf, MoveCategoryShelf, DeleteCategoryShelf, CreateItemShelf, ItemWriteShelf,
       FormFailsShelf
  <2>5. CASE \/ \E c \in CatIds : DeleteCategory(p, c)
             \/ \E s \in shop.texts, q \in CatIds \cup {Root} :
                  \/ CreateCategory(p, s, q)
                  \/ \E c \in CatIds : MoveCategory(p, c, s, q)
                  \/ \E i \in shop.items, status \in Statuses : CreateItem(p, i, s, status, q)
    BY <1>1, <2>3, <2>5, FormBegins
  <2>6. ASSUME NEW i \in shop.items, NEW status \in Statuses, NEW q \in CatIds \cup {Root},
               NEW t \in Texts \cup {item[i].slug}, EditItem(p, i, t, status, q)
        PROVE  ShelfInv'
    BY <1>1, <2>1, <2>3, <2>6, EditBegins
  <2>7. ASSUME NEW s \in shop.texts, NEW i \in shop.items, NEW status \in Statuses,
               ImportItem(p, i, s, status) \/ RejectItem(p, i, s, status)
        PROVE  ShelfInv'
    BY <1>1, <2>1, <2>3, <2>7, ImportShelf, RejectShelf
  <2> QED
    BY <2>1, <2>2, <2>4, <2>5, <2>6, <2>7
<1>4. CASE DropForms
  BY <1>1, <1>4, DropFormsShelf
<1> QED
  BY <1>1, <1>2, <1>3, <1>4

LEMMA ShelfInit == Init => ShelfInv
<1> SUFFICES ASSUME Init PROVE ShelfInv
  OBVIOUS
<1>1. /\ shop \in Shops /\ category = [c \in CatIds |-> NoCategory] /\ item = [i \in Items |-> NoItem]
      /\ form = [p \in Clerks |-> NoForm] /\ stopped = {}
  BY DEF Init, ShelvesInit
<1>2. FormOK(NoForm, stopped)
  BY DEF FormOK, NoForm
<1>3. ShelfTypes
  BY <1>1, <1>2 DEF ShelfTypes
<1>4. Live = {} /\ Products = {} /\ \A i \in Items : item[i].slug = NoSlug
  BY <1>1 DEF Live, Products, NoItem
<1> QED
  BY <1>3, <1>4 DEF ShelfInv, CategoriesLinked, ItemsLinked, SlugsApart, Unnamed

LEMMA ShelfAlways == Spec => []ShelfInv
BY ShelfInit, ShelfStep, PTL DEF Spec

\* The largest id given out, the products left half way, and what a request is about.
ShelfBounds ==
  /\ issued \in 0 .. MaxCats
  /\ stopped \subseteq Items
  /\ \A p \in Clerks : form[p].op \in {"none", "create", "move", "delete", "add", "slug", "edit"}

LEMMA IssuedWithin ==
  ASSUME ShelfInv, ShelfBounds, NEW n \in 1 .. shop.shelves
  PROVE  Max({issued, n}) \in 0 .. MaxCats
<1>1. MaxCats \in Nat /\ shop.shelves \in 0 .. MaxCats
  BY ShelvesAssumption, ShopAssumption DEF ShelfInv, ShelfTypes
<1>2. n \in 0 .. MaxCats /\ issued \in 0 .. MaxCats
  BY <1>1 DEF ShelfBounds
<1>3. {issued, n} \in SUBSET (0 .. MaxCats) /\ {issued, n} # {}
  BY <1>2
<1> QED
  BY <1>1, <1>3, MaxIn

\* The id of a row that is added is within the bound, as the model keeps it.
LEMMA IssuedStays ==
  ASSUME ShelfInv, ShelfBounds, NEW p \in Clerks,
         CreateCategoryWrite(p) \/ \E i, t, status : ImportItem(p, i, t, status)
  PROVE  issued' \in 0 .. MaxCats
<1>1. CASE CreateCategoryWrite(p)
  <2>1. CASE issued' = issued
    BY <2>1 DEF ShelfBounds
  <2>2. CASE issued' = Max({issued, NextId}) /\ NextId <= shop.shelves
    <3>1. NextId \in Nat /\ NextId >= 1
      <4>1. CASE SQLite
        <5> DEFINE m == Max(Live \cup {Root})
        <5>1. Live \cup {Root} \in SUBSET (0 .. MaxCats) /\ Live \cup {Root} # {} /\ MaxCats \in Nat
          BY ShelvesAssumption DEF Live, CatIds, Root
        <5>2. m \in 0 .. MaxCats
          BY <5>1, MaxIn
        <5>3. NextId = 1 + m
          BY <4>1 DEF NextId
        <5> HIDE DEF m
        <5> QED
          BY <5>2, <5>3
      <4>2. CASE ~SQLite
        BY <4>2 DEF NextId, ShelfBounds
      <4> QED
        BY <4>1, <4>2
    <3>2. shop.shelves \in Nat
      BY ShelvesAssumption, ShopAssumption DEF ShelfInv, ShelfTypes
    <3>3. NextId \in 1 .. shop.shelves
      BY <2>2, <3>1, <3>2
    <3> QED
      BY <2>2, <3>3, IssuedWithin
  <2> QED
    BY <1>1, <2>1, <2>2 DEF CreateCategoryWrite
<1>2. ASSUME NEW i, NEW t, NEW status, ImportItem(p, i, t, status)
      PROVE  issued' \in 0 .. MaxCats
  BY <1>2, IssuedWithin DEF ImportItem
<1> QED
  BY <1>1, <1>2

LEMMA BoundsStep ==
  ASSUME ShelfInv, ShelfBounds, [Next]_vars
  PROVE  ShelfBounds'
<1> DEFINE Ops == {"none", "create", "move", "delete", "add", "slug", "edit"}
<1>1. UNCHANGED shelfVars \/ ShelvesStep \/ DropForms
  BY NextShelves
<1>2. /\ DOMAIN form = Clerks /\ shop.clerks \subseteq Clerks /\ shop.items \subseteq Items
      /\ \A p \in Clerks : DOMAIN form[p] = {"op", "id", "old", "new"} /\ HalfMade(p) \subseteq Items
  BY ShopAssumption DEF ShelfInv, ShelfTypes, FormOK, HalfMade
<1>3. NoForm.op = "none"
  BY DEF NoForm
<1>4. CASE UNCHANGED shelfVars
  BY <1>4 DEF shelfVars, ShelfBounds
<1>5. CASE DropForms
  BY <1>2, <1>3, <1>5 DEF DropForms, ShelfBounds
<1>6. ASSUME NEW p \in Clerks,
             \/ CreateCategoryWrite(p) \/ MoveCategoryWrite(p) \/ DeleteCategoryWrite(p)
             \/ CreateItemWrite(p) \/ ItemWrite(p) \/ FormFails(p)
      PROVE  ShelfBounds'
  <2>1. form' = [form EXCEPT ![p] = NoForm] /\ stopped' \in {stopped, stopped \cup HalfMade(p)}
    BY <1>6 DEF CreateCategoryWrite, MoveCategoryWrite, DeleteCategoryWrite, CreateItemWrite, ItemWrite, FormFails
  <2>2. issued' \in 0 .. MaxCats
    <3>1. CASE CreateCategoryWrite(p)
      BY <3>1, IssuedStays
    <3>2. CASE ~CreateCategoryWrite(p)
      BY <1>6, <3>2 DEF MoveCategoryWrite, DeleteCategoryWrite, CreateItemWrite, ItemWrite, FormFails, ShelfBounds
    <3> QED
      BY <3>1, <3>2
  <2> QED
    BY <1>2, <1>3, <2>1, <2>2 DEF ShelfBounds
<1>7. ASSUME NEW p \in Clerks, InsertItem(p) PROVE ShelfBounds'
  <2>1. issued' = issued /\ stopped' = stopped /\ \A q \in Clerks \ {p} : form'[q] = form[q]
    BY <1>2, <1>7 DEF InsertItem
  <2>2. form'[p].op \in {"slug", "none"}
    BY <1>2, <1>3, <1>7 DEF InsertItem
  <2> QED
    BY <2>1, <2>2 DEF ShelfBounds
<1>8. ASSUME NEW p \in Clerks, NEW c, NEW s, NEW q, NEW i, NEW status,
             \/ DeleteCategory(p, c) \/ CreateCategory(p, s, q) \/ MoveCategory(p, c, s, q)
             \/ CreateItem(p, i, s, status, q) \/ EditItem(p, i, s, status, q) \/ RejectItem(p, i, s, status)
      PROVE  ShelfBounds'
  <2>1. issued' = issued /\ stopped' \subseteq stopped \cup Items /\ \A r \in Clerks \ {p} : form'[r] = form[r]
    BY <1>2, <1>8 DEF DeleteCategory, CreateCategory, MoveCategory, CreateItem, EditItem, RejectItem, Products
  <2>2. form'[p].op \in Ops
    <3>1. form'[p].op \in Ops \/ form' = form
      <4>1. CASE DeleteCategory(p, c) \/ CreateCategory(p, s, q) \/ MoveCategory(p, c, s, q)
        <5>1. CASE DeleteCategory(p, c)
          BY <1>2, <1>3, <5>1 DEF DeleteCategory
        <5>2. CASE CreateCategory(p, s, q)
          BY <1>2, <1>3, <5>2 DEF CreateCategory
        <5>3. CASE MoveCategory(p, c, s, q)
          BY <1>2, <1>3, <5>3 DEF MoveCategory
        <5> QED
          BY <4>1, <5>1, <5>2, <5>3
      <4>2. CASE CreateItem(p, i, s, status, q) \/ EditItem(p, i, s, status, q)
        BY <1>2, <1>3, <4>2 DEF CreateItem, EditItem
      <4>3. CASE RejectItem(p, i, s, status)
        BY <4>3 DEF RejectItem
      <4> QED
        BY <1>8, <4>1, <4>2, <4>3
    <3> QED
      BY <3>1 DEF ShelfBounds
  <2> QED
    BY <2>1, <2>2 DEF ShelfBounds
<1>9. ASSUME NEW p \in Clerks, NEW i, NEW t, NEW status, ImportItem(p, i, t, status) PROVE ShelfBounds'
  <2>1. issued' \in 0 .. MaxCats
    BY <1>9, IssuedStays
  <2>2. stopped' = stopped /\ (form' = form \/ (form'[p].op = "slug" /\ \A r \in Clerks \ {p} : form'[r] = form[r]))
    BY <1>2, <1>9 DEF ImportItem
  <2> QED
    BY <2>1, <2>2 DEF ShelfBounds
<1>10. CASE ShelvesStep
  <2>1. PICK p \in Clerks :
          \/ CreateCategoryWrite(p) \/ MoveCategoryWrite(p) \/ DeleteCategoryWrite(p)
          \/ CreateItemWrite(p) \/ ItemWrite(p) \/ FormFails(p)
          \/ InsertItem(p)
          \/ \E c, s, q, i, status :
               \/ DeleteCategory(p, c) \/ CreateCategory(p, s, q) \/ MoveCategory(p, c, s, q)
               \/ CreateItem(p, i, s, status, q) \/ EditItem(p, i, s, status, q) \/ RejectItem(p, i, s, status)
          \/ \E i, t, status : ImportItem(p, i, t, status)
    BY <1>2, <1>10 DEF ShelvesStep
  <2> QED
    BY <1>6, <1>7, <1>8, <1>9, <2>1
<1> QED
  BY <1>1, <1>4, <1>5, <1>10

LEMMA ShelvesTyped == Spec => []ShelvesTypeOK
<1>1. Init => ShelfBounds
  BY ShelvesAssumption DEF Init, ShelvesInit, ShelfBounds, NoForm
<1>2. ShelfInv /\ ShelfBounds /\ [Next]_vars => ShelfBounds'
  BY BoundsStep
<1>3. ShelfInv /\ ShelfBounds => ShelvesTypeOK
  BY DEF ShelfInv, ShelfTypes, ShelfBounds, ShelvesTypeOK, CategoryRow, ItemRow
<1> QED
  BY <1>1, <1>2, <1>3, ShelfAlways, PTL DEF Spec

LEMMA MenuOf ==
  ASSUME NEW g
  PROVE  /\ g[1] = "product" => Menu(g) = Hubs \cup UNION {ProductMenu(i) : i \in {i \in Public : item[i].slug = g[2]}}
         /\ g[1] = "category" => Menu(g) = Hubs \cup UNION {CategoryMenu(c) : c \in {c \in Live : category[c].slug = g[2]}}
         /\ g[1] \notin {"product", "category"} => Menu(g) \subseteq Hubs \cup ListMenu(g)
<1> DEFINE products == UNION {ProductMenu(i) : i \in {i \in Public : item[i].slug = g[2]}}
           categories == UNION {CategoryMenu(c) : c \in {c \in Live : category[c].slug = g[2]}}
<1>1. Menu(g) = CASE g[1] = "product" -> Hubs \cup products
                  [] g[1] = "category" -> Hubs \cup categories
                  [] g \in {Home, Catalogue, Index} -> Hubs \cup ListMenu(g)
                  [] OTHER -> {}
  BY DEF Menu
<1>2. \A h \in {Home, Catalogue, Index} : h[1] \notin {"product", "category"}
  BY DEF Home, Catalogue, Index
<1> HIDE DEF products, categories
<1>3. g[1] = "product" => Menu(g) = Hubs \cup products
  BY <1>1, <1>2
<1>4. g[1] = "category" => Menu(g) = Hubs \cup categories
  BY <1>1, <1>2
<1>5. g[1] \notin {"product", "category"} => Menu(g) \subseteq Hubs \cup ListMenu(g)
  BY <1>1
<1> QED
  BY <1>3, <1>4, <1>5 DEF products, categories

LEMMA IndexedOf ==
  ASSUME NEW g, Routed(g)
  PROVE  /\ g[1] = "product" /\ (\E i \in Products : item[i].slug = g[2] /\ item[i].status = "published") => Indexed(g)
         /\ g[1] = "category" /\ (\E c \in Live : category[c].slug = g[2]) => Indexed(g)
<1> DEFINE product == \E i \in Products : item[i].slug = g[2] /\ item[i].status = "published"
           shelf == \E c \in Live : category[c].slug = g[2]
<1>1. Indexed(g) <=> Routed(g) /\ CASE g[1] = "product" -> product
                                   [] g[1] = "category" -> shelf
                                   [] g \in {About, Privacy} -> Shown(g)
                                   [] OTHER -> g \in {Home, Catalogue, Index}
  BY Zenon DEF Indexed
<1>2. \A h \in {About, Privacy} : h[1] \notin {"product", "category"}
  BY DEF About, Privacy
<1>3. g \in {About, Privacy} => g[1] \notin {"product", "category"}
  BY <1>2
<1> HIDE DEF product, shelf
<1>4. g[1] = "product" /\ product => Indexed(g)
  BY <1>1, <1>3
<1>5. g[1] = "category" /\ shelf => Indexed(g)
  BY <1>1, <1>3
<1> QED
  BY <1>4, <1>5 DEF product, shelf

\* What is listed has a page, and menus lead to what the site map lists.
LEMMA MenusLead ==
  ASSUME ShelfInv, NEW g \in SiteMap, NEW h \in Menu(g)
  PROVE  h \in SiteMap
<1>1. /\ Hubs \subseteq SiteMap /\ \A c \in Live : CategoryPage(category[c].slug) \in SiteMap
      /\ \A i \in Public : ProductPage(item[i].slug) \in SiteMap
  BY DEF SiteMap, Hubs, Public, OnSiteMap
<1>2. ASSUME NEW i \in Public PROVE ProductMenu(i) \subseteq SiteMap
  <2>1. i \in Products /\ (item[i].cat # Root => item[i].cat \in Live)
    BY DEF ShelfInv, ItemsLinked, Found, Public
  <2> QED
    BY <1>1, <2>1 DEF ProductMenu
<1>3. ASSUME NEW c \in Live PROVE CategoryMenu(c) \subseteq SiteMap
  <2>1. category[c].parent # Root => category[c].parent \in Live
    BY DEF ShelfInv, CategoriesLinked, Found
  <2> QED
    BY <1>1, <2>1 DEF CategoryMenu
<1>4. ListMenu(g) \subseteq SiteMap
  BY <1>1 DEF ListMenu
<1>5. CASE g[1] = "product"
  BY <1>1, <1>2, <1>5, MenuOf
<1>6. CASE g[1] = "category"
  BY <1>1, <1>3, <1>6, MenuOf
<1>7. CASE g[1] \notin {"product", "category"}
  BY <1>1, <1>4, <1>7, MenuOf
<1> QED
  BY <1>5, <1>6, <1>7

LEMMA ListedIndexed ==
  ASSUME ShelfInv, NEW g \in SiteMap, Routed(g)
  PROVE  Indexed(g)
<1>1. CASE g \in {Home, Catalogue, Index}
  BY <1>1 DEF Indexed, Routed, Home, Catalogue, Index, About, Privacy
<1>2. CASE g \in {About, Privacy} /\ Shown(g)
  BY <1>2 DEF Indexed, Routed, Home, Catalogue, Index, About, Privacy
<1>3. ASSUME NEW i \in OnSiteMap, g = ProductPage(item[i].slug) PROVE Indexed(g)
  <2>1. g[1] = "product" /\ g[2] = item[i].slug /\ i \in Products /\ item[i].status = "published"
    BY <1>3 DEF ProductPage, OnSiteMap
  <2> QED
    BY <2>1, IndexedOf
<1>4. ASSUME NEW c \in Live, g = CategoryPage(category[c].slug) PROVE Indexed(g)
  <2>1. g[1] = "category" /\ g[2] = category[c].slug
    BY <1>4 DEF CategoryPage
  <2> QED
    BY <2>1, IndexedOf
<1> QED
  BY <1>1, <1>2, <1>3, <1>4 DEF SiteMap

\* The site map (sitemap_xml), the menus, the pages and the lists of the API
\* (list_products) agree about what is public, with edits and
\* imports half done.
THEOREM PublicViewsAgree == Spec => []PagesAgree
<1>1. ASSUME ShelfInv PROVE PagesAgree
  <2>1. \A g \in SiteMap : Routed(g) => Indexed(g) /\ \A h \in Menu(g) : h \in SiteMap
    BY <1>1, MenusLead, ListedIndexed
  <2>2. \A i \in Listed(NoSlug) : item[i].slug # NoSlug => BySlug(item[i].slug) = {i} /\ ProductPage(item[i].slug) \in SiteMap
    <3> SUFFICES ASSUME NEW i \in Products, item[i].status = "published", item[i].slug # NoSlug
                 PROVE  BySlug(item[i].slug) = {i} /\ ProductPage(item[i].slug) \in SiteMap
      BY DEF Listed
    <3>1. \A j \in Products : item[j].slug = item[i].slug => j = i
      BY <1>1 DEF ShelfInv, SlugsApart, Products
    <3> QED
      BY <3>1 DEF BySlug, SiteMap, OnSiteMap
  <2>3. ASSUME NEW c \in Live, NEW i \in Listed(category[c].slug), item[i].slug # NoSlug
        PROVE  ProductPage(item[i].slug) \in Menu(CategoryPage(category[c].slug))
    <3>1. category[c].slug # NoSlug
      BY <1>1, LiveRows, ShelfData DEF ShelfInv, Live, CategoryRow
    <3>2. PICK d \in Live : category[d].slug = category[c].slug /\ item[i].cat = d
      BY <3>1 DEF Listed
    <3>3. i \in Public
      BY <2>3 DEF Public, Listed
    <3>4. ProductPage(item[i].slug) \in CategoryMenu(d)
      BY <3>2, <3>3 DEF CategoryMenu
    <3> DEFINE g == CategoryPage(category[c].slug)
    <3>5. g[1] = "category" /\ g[2] = category[c].slug
      BY DEF CategoryPage
    <3> HIDE DEF g
    <3>6. ProductPage(item[i].slug) \in Menu(g)
      BY <3>2, <3>4, <3>5, MenuOf
    <3> QED
      BY <3>6 DEF g
  <2>4. \A i \in Products : item[i].slug = NoSlug => i \in stopped \/ \E p \in Clerks : i \in HalfMade(p)
    BY <1>1 DEF ShelfInv, Unnamed, SlugDue, HalfMade
  <2> QED
    BY <2>1, <2>2, <2>3, <2>4 DEF PagesAgree
<1>2. ShelfInv => PagesAgree
  BY <1>1
<1> QED
  BY <1>2, ShelfAlways, PTL

-----------------------------------------------------------------------------
(* The tree *)

\* One step up from where each category has got to.
Climb(g) == [c \in Live |-> IF g[c] = Root THEN Root ELSE category[g[c]].parent]

Climbs(F, n) == F = [k \in 0 .. n |-> IF k = 0 THEN [c \in Live |-> c] ELSE Climb(F[k - 1])]

LEMMA ClimbExists ==
  ASSUME NEW m \in Nat
  PROVE  \E F : Climbs(F, m)
<1> DEFINE N == {n \in Nat : \E F : Climbs(F, n)}
<1>1. 0 \in N
  <2>1. Climbs([k \in 0 .. 0 |-> [c \in Live |-> c]], 0)
    BY DEF Climbs
  <2> QED BY <2>1
<1>2. ASSUME NEW n \in Nat, n \in N
      PROVE  n + 1 \in N
  <2>1. PICK F : Climbs(F, n)
    BY <1>2
  <2> DEFINE G == [k \in 0 .. n + 1 |-> IF k = 0 THEN [c \in Live |-> c] ELSE Climb(F[k - 1])]
  <2>2. \A k \in 0 .. n : G[k] = F[k]
    <3> SUFFICES ASSUME NEW k \in 0 .. n PROVE G[k] = F[k]
      OBVIOUS
    <3>1. G[k] = IF k = 0 THEN [c \in Live |-> c] ELSE Climb(F[k - 1])
      OBVIOUS
    <3> HIDE DEF G
    <3> QED BY <2>1, <3>1 DEF Climbs
  <2>3. \A k \in 0 .. n + 1 : k # 0 => Climb(G[k - 1]) = Climb(F[k - 1])
    <3>1. \A k \in 0 .. n + 1 : k # 0 => k - 1 \in 0 .. n
      OBVIOUS
    <3> HIDE DEF G
    <3> QED BY <2>2, <3>1
  <2>4. G = [k \in 0 .. n + 1 |-> IF k = 0 THEN [c \in Live |-> c] ELSE Climb(F[k - 1])]
    OBVIOUS
  <2>5. Climbs(G, n + 1)
    <3> HIDE DEF G
    <3> QED BY <2>3, <2>4 DEF Climbs
  <2> HIDE DEF G
  <2> QED BY <2>5
<1> HIDE DEF N
<1>3. Nat \subseteq N
  BY <1>1, <1>2, NumbersByInduction
<1> QED BY <1>3 DEF N

LEMMA AboveClimbs == MaxCats \in Nat /\ Climbs(Above, MaxCats)
<1> DEFINE Def(F) == F = [n \in 0 .. MaxCats |->
                            IF n = 0 THEN [c \in Live |-> c]
                            ELSE [c \in Live |-> IF F[n - 1][c] = Root THEN Root ELSE category[F[n - 1][c]].parent]]
           I == CHOOSE F : Def(F)
<1>1. MaxCats \in Nat
  BY ShelvesAssumption
<1>2. \E F : Def(F)
  <2>1. PICK F : Climbs(F, MaxCats)
    BY <1>1, ClimbExists
  <2>2. Def(F)
    BY <2>1 DEF Climbs, Climb
  <2> QED BY <2>2
<1>3. Def(I)
  <2> HIDE DEF Def
  <2> QED BY <1>2
<1>4. Above = I
  BY DEF Above
<1>5. Def(Above)
  <2> HIDE DEF Def, I
  <2> QED BY <1>3, <1>4
<1> HIDE DEF I
<1>6. Climbs(Above, MaxCats)
  BY <1>5 DEF Climbs, Climb
<1> QED
  BY <1>1, <1>6

\* The parents of a set of categories are in the set, or there is none.
Upward(A) == \A a \in A : category[a].parent \in A \cup {Root}

\* No category is above itself: every set of categories has one whose parent is outside.
Rooted == \A S \in SUBSET Live : S # {} => \E c \in S : category[c].parent \notin S

\* One step at a time, a climb goes to a parent, and stays at the root.
LEMMA AboveSteps ==
  ASSUME ShelfInv, NEW c \in Live
  PROVE  /\ Above[0][c] = c
         /\ \A n \in 0 .. MaxCats : n # 0 => /\ Above[n - 1][c] = Root => Above[n][c] = Root
                                             /\ Above[n - 1][c] # Root => Above[n][c] = category[Above[n - 1][c]].parent
         /\ \A n \in 0 .. MaxCats : Above[n][c] \in Live \cup {Root}
<1>1. MaxCats \in Nat /\ Climbs(Above, MaxCats)
  BY AboveClimbs
<1>2. \A n \in 0 .. MaxCats : Above[n] = (IF n = 0 THEN [d \in Live |-> d] ELSE Climb(Above[n - 1]))
  BY <1>1 DEF Climbs
<1>3. Above[0][c] = c
  <2>1. Above[0] = [d \in Live |-> d]
    BY <1>1, <1>2
  <2>2. \A g : g = [d \in Live |-> d] => g[c] = c
    OBVIOUS
  <2> QED BY <2>1, <2>2
<1>4. \A n \in 0 .. MaxCats : n # 0 => /\ Above[n - 1][c] = Root => Above[n][c] = Root
                                       /\ Above[n - 1][c] # Root => Above[n][c] = category[Above[n - 1][c]].parent
  <2>1. \A g : /\ g[c] = Root => Climb(g)[c] = Root
               /\ g[c] # Root => Climb(g)[c] = category[g[c]].parent
    BY DEF Climb
  <2> SUFFICES ASSUME NEW n \in 0 .. MaxCats, n # 0
               PROVE  /\ Above[n - 1][c] = Root => Above[n][c] = Root
                      /\ Above[n - 1][c] # Root => Above[n][c] = category[Above[n - 1][c]].parent
    OBVIOUS
  <2>2. Above[n] = Climb(Above[n - 1])
    BY <1>2
  <2> QED BY <2>1, <2>2
<1>5. \A n \in 0 .. MaxCats : Above[n][c] \in Live \cup {Root}
  <2> DEFINE N == {n \in Nat : n \in 0 .. MaxCats => Above[n][c] \in Live \cup {Root}}
  <2>1. 0 \in N
    BY <1>3
  <2>2. ASSUME NEW n \in Nat, n \in N PROVE n + 1 \in N
    <3> SUFFICES ASSUME n + 1 \in 0 .. MaxCats PROVE Above[n + 1][c] \in Live \cup {Root}
      OBVIOUS
    <3>1. n \in 0 .. MaxCats /\ n + 1 # 0 /\ (n + 1) - 1 = n
      BY <1>1
    <3>2. Above[n][c] \in Live \cup {Root}
      BY <2>2, <3>1
    <3>3. \A d \in Live : category[d].parent \in Live \cup {Root}
      BY DEF ShelfInv, CategoriesLinked, Found
    <3>4. /\ Above[n][c] = Root => Above[n + 1][c] = Root
          /\ Above[n][c] # Root => Above[n + 1][c] = category[Above[n][c]].parent
      BY <1>4, <3>1
    <3> QED
      BY <3>2, <3>3, <3>4
  <2> HIDE DEF N
  <2>3. Nat \subseteq N
    BY <2>1, <2>2, NumbersByInduction
  <2>4. \A n \in 0 .. MaxCats : n \in Nat
    BY <1>1
  <2> QED
    BY <2>3, <2>4 DEF N
<1> QED
  BY <1>3, <1>4, <1>5

\* Every climb ends at the root: it would otherwise come to a category twice.
LEMMA ClimbEnds ==
  ASSUME ShelfInv, Rooted, NEW c \in Live
  PROVE  \E n \in 0 .. MaxCats : Above[n][c] = Root
<1> SUFFICES ASSUME \A n \in 0 .. MaxCats : Above[n][c] # Root
             PROVE  FALSE
  OBVIOUS
<1> DEFINE steps == 0 .. MaxCats
           at == [n \in steps |-> Above[n][c]]
<1>1. MaxCats \in Nat
  BY ShelvesAssumption
<1>2. at \in [steps -> Live]
  BY AboveSteps
<1>3. /\ IsFiniteSet(steps) /\ Cardinality(steps) = MaxCats + 1
      /\ IsFiniteSet(CatIds) /\ Cardinality(CatIds) = MaxCats /\ Live \subseteq CatIds
  <2>1. IsFiniteSet(0 .. MaxCats) /\ Cardinality(0 .. MaxCats) = MaxCats + 1
    BY <1>1, FS_Interval
  <2>2. IsFiniteSet(1 .. MaxCats) /\ Cardinality(1 .. MaxCats) = MaxCats
    BY <1>1, FS_Interval
  <2> QED BY <2>1, <2>2 DEF CatIds, Live
<1>4. IsFiniteSet(Live) /\ Cardinality(Live) < Cardinality(steps)
  <2>1. IsFiniteSet(Live) /\ Cardinality(Live) <= Cardinality(CatIds) /\ Cardinality(Live) \in Nat
    BY <1>3, FS_Subset, FS_CardinalityType
  <2> QED
    BY <1>1, <1>3, <2>1
<1>5. \E m, n \in steps : m # n /\ at[m] = at[n]
  <2> HIDE DEF steps, at
  <2> QED
    BY <1>2, <1>3, <1>4, FS_PigeonHole
<1>6. PICK m \in steps, n \in steps : m < n /\ Above[m][c] = Above[n][c]
  <2>1. PICK k, l \in steps : k # l /\ at[k] = at[l]
    BY <1>5
  <2>2. k < l \/ l < k
    BY <1>1, <2>1
  <2> QED
    BY <2>1, <2>2
<1> DEFINE S == {Above[k][c] : k \in m .. n - 1}
<1>7. \A k \in m .. n - 1 : k \in steps /\ k + 1 \in steps /\ k + 1 # 0 /\ (k + 1) - 1 = k /\ k + 1 \in m .. n
  BY <1>1, <1>6
<1>8. \A k \in m .. n - 1 : Above[k + 1][c] = category[Above[k][c]].parent /\ Above[k][c] \in Live
  BY <1>7, AboveSteps
<1>9. \A k \in m .. n - 1 : Above[k + 1][c] \in S
  <2> SUFFICES ASSUME NEW k \in m .. n - 1 PROVE Above[k + 1][c] \in S
    OBVIOUS
  <2>1. CASE k + 1 = n
    <3>1. m \in m .. n - 1
      BY <1>1, <1>6
    <3> QED BY <1>6, <2>1, <3>1
  <2>2. CASE k + 1 # n
    <3>1. k + 1 \in m .. n - 1
      BY <1>1, <1>6, <2>2
    <3> QED BY <3>1
  <2> QED
    BY <2>1, <2>2
<1>10. S \in SUBSET Live /\ Above[m][c] \in S
  <2>1. m \in m .. n - 1
    BY <1>1, <1>6
  <2> QED BY <1>8, <2>1
<1>11. \A d \in S : category[d].parent \in S
  BY <1>8, <1>9
<1> HIDE DEF S
<1> QED
  BY <1>10, <1>11 DEF Rooted

\* The categories above one that is not under c: c is not among them.
LEMMA Ancestors ==
  ASSUME ShelfInv, Rooted, NEW c \in Live, NEW q \in Live, q \notin Under(c)
  PROVE  \E A \in SUBSET Live : Upward(A) /\ q \in A /\ c \notin A
<1> DEFINE A == {Above[n][q] : n \in 0 .. MaxCats} \ {Root}
<1>1. MaxCats \in Nat /\ q # Root
  BY ShelvesAssumption, ShelfData DEF Live
<1>2. /\ Above[0][q] = q
      /\ \A n \in 0 .. MaxCats : n # 0 => /\ Above[n - 1][q] = Root => Above[n][q] = Root
                                          /\ Above[n - 1][q] # Root => Above[n][q] = category[Above[n - 1][q]].parent
      /\ \A n \in 0 .. MaxCats : Above[n][q] \in Live \cup {Root}
  BY AboveSteps
<1>3. A \in SUBSET Live
  BY <1>2
<1>4. q \in A
  BY <1>1, <1>2
<1>5. c \notin A
  BY DEF Under
<1>6. Above[MaxCats][q] = Root
  <2>1. PICK m \in 0 .. MaxCats : Above[m][q] = Root
    BY ClimbEnds
  <2> DEFINE N == {n \in Nat : m + n \in 0 .. MaxCats => Above[m + n][q] = Root}
  <2>2. 0 \in N
    BY <1>1, <2>1
  <2>3. ASSUME NEW n \in Nat, n \in N PROVE n + 1 \in N
    <3> SUFFICES ASSUME m + (n + 1) \in 0 .. MaxCats PROVE Above[m + (n + 1)][q] = Root
      OBVIOUS
    <3>1. m + n \in 0 .. MaxCats /\ (m + (n + 1)) - 1 = m + n /\ m + (n + 1) # 0
      BY <1>1, <2>1
    <3>2. Above[m + n][q] = Root
      BY <2>3, <3>1
    <3> QED
      BY <1>2, <3>1, <3>2
  <2> HIDE DEF N
  <2>4. Nat \subseteq N
    BY <2>2, <2>3, NumbersByInduction
  <2>5. MaxCats - m \in Nat /\ m + (MaxCats - m) = MaxCats
    BY <1>1, <2>1
  <2>6. MaxCats - m \in N
    BY <2>4, <2>5
  <2> QED
    BY <1>1, <2>5, <2>6 DEF N
<1>7. Upward(A)
  <2> SUFFICES ASSUME NEW n \in 0 .. MaxCats, Above[n][q] # Root
               PROVE  category[Above[n][q]].parent \in A \cup {Root}
    BY DEF Upward
  <2>1. n # MaxCats
    BY <1>6
  <2>2. n + 1 \in 0 .. MaxCats /\ n + 1 # 0 /\ (n + 1) - 1 = n
    BY <1>1, <2>1
  <2>3. Above[n + 1][q] = category[Above[n][q]].parent
    BY <1>2, <2>2
  <2> QED
    BY <2>2, <2>3
<1> HIDE DEF A
<1> QED
  BY <1>3, <1>4, <1>5, <1>7

OneMove == \A p, q \in Clerks : form[p].op = "move" /\ form[q].op = "move" => p = q

\* The new parent a move is about to write is not under the category it moves.
MovesAway ==
  \A p \in Clerks : form[p].op = "move" /\ form[p].new.parent \in Live =>
    \E A \in SUBSET Live : Upward(A) /\ form[p].new.parent \in A /\ form[p].id \notin A

\* On D1 no id comes twice.  As long as no category was sent under one of its own and
\* no two moves have met, the categories are a forest and the move in progress keeps it.
IdsIssued == ~SQLite => issued \in Nat /\ \A c \in Live : c <= issued
TreeInv   == IdsIssued /\ (~looped => Rooted /\ OneMove /\ MovesAway)

LEMMA MaxOfTwo ==
  ASSUME NEW a \in Nat, NEW b \in Nat
  PROVE  Max({a, b}) \in Nat /\ a <= Max({a, b}) /\ b <= Max({a, b})
<1>1. PICK n \in {a, b} : a <= n /\ b <= n
  OBVIOUS
<1>2. {a, b} \in SUBSET (0 .. n) /\ n \in Nat
  BY <1>1
<1>3. Max({a, b}) \in {a, b} /\ \A x \in {a, b} : x <= Max({a, b})
  BY <1>1, <1>2, MaxIn
<1> QED
  BY <1>3

\* The next id is no category's.
LEMMA NextIdNew ==
  ASSUME IdsIssued
  PROVE  NextId \notin Live
<1>1. Live \subseteq CatIds /\ MaxCats \in Nat /\ CatIds = 1 .. MaxCats /\ Root = 0
  BY ShelvesAssumption DEF Live, CatIds, Root
<1>2. CASE SQLite
  <2>1. Live \cup {Root} \in SUBSET (0 .. MaxCats) /\ Live \cup {Root} # {}
    BY <1>1
  <2> DEFINE m == Max(Live \cup {Root})
  <2>2. m \in 0 .. MaxCats /\ \A x \in Live : x <= m
    BY <1>1, <2>1, MaxIn
  <2>3. NextId = 1 + m
    BY <1>2 DEF NextId
  <2> HIDE DEF m
  <2>4. m \in Nat /\ ~(1 + m <= m)
    BY <1>1, <2>2
  <2> QED
    BY <2>2, <2>3, <2>4
<1>3. CASE ~SQLite
  <2>1. NextId = 1 + issued
    BY <1>3 DEF NextId
  <2> QED
    BY <1>1, <1>3, <2>1 DEF IdsIssued
<1> QED
  BY <1>2, <1>3

\* Rows go, lose their parent or are added under one that was there, and no move names
\* a row that is added: the forest is kept.
LEMMA ForestKept ==
  ASSUME ShelfInv, ShelfInv', Rooted, OneMove, MovesAway,
         \A d \in Live \cap Live' : category'[d].parent \in {category[d].parent, Root},
         \A d \in Live' \ Live : /\ category'[d].parent \in Live \cup {Root}
                                 /\ \A p \in Clerks : form[p].op = "move" => form[p].new.parent # d,
         \A p \in Clerks : form'[p].op = "move" => form'[p] = form[p]
  PROVE  Rooted' /\ OneMove' /\ MovesAway'
<1>1. Root \notin Live /\ Root \notin Live'
  BY ShelfData DEF Live
<1>2. \A d \in Live : category[d].parent \in Live \cup {Root}
  BY DEF ShelfInv, CategoriesLinked, Found
<1>3. \A d \in Live' : category'[d].parent \in Live' \cup {Root}
  BY DEF ShelfInv, CategoriesLinked, Found
<1>4. Rooted'
  <2> SUFFICES ASSUME NEW S \in SUBSET Live', S # {}
               PROVE  \E c \in S : category'[c].parent \notin S
    BY DEF Rooted
  <2>1. CASE S \cap Live # {}
    <3>1. PICK c \in S \cap Live : category[c].parent \notin S \cap Live
      BY <2>1 DEF Rooted
    <3>2. category'[c].parent \notin S
      BY <1>1, <1>2, <3>1
    <3> QED BY <3>1, <3>2
  <2>2. CASE S \cap Live = {}
    BY <1>1, <2>2
  <2> QED BY <2>1, <2>2
<1>5. OneMove'
  BY DEF OneMove
<1>6. MovesAway'
  <2> SUFFICES ASSUME NEW p \in Clerks, form[p].op = "move", form[p].new.parent \in Live', form'[p] = form[p]
               PROVE  \E A \in SUBSET Live' : Upward(A)' /\ form[p].new.parent \in A /\ form[p].id \notin A
    BY DEF MovesAway
  <2>1. form[p].new.parent \in Live
    OBVIOUS
  <2>2. PICK A \in SUBSET Live : Upward(A) /\ form[p].new.parent \in A /\ form[p].id \notin A
    BY <2>1 DEF MovesAway
  <2>3. \A a \in A \cap Live' : category'[a].parent \in (A \cap Live') \cup {Root}
    BY <1>1, <1>3, <2>2 DEF Upward
  <2>4. A \cap Live' \in SUBSET Live' /\ form[p].new.parent \in A \cap Live' /\ form[p].id \notin A \cap Live'
    BY <2>2
  <2>5. PICK B \in SUBSET Live' : B = A \cap Live'
    OBVIOUS
  <2>6. Upward(B)'
    BY <2>3, <2>5 DEF Upward
  <2> QED
    BY <2>4, <2>5, <2>6
<1> QED
  BY <1>4, <1>5, <1>6

\* What is added and issued.
LEMMA IdsKept ==
  ASSUME ShelfInv, IdsIssued, UNCHANGED shop, Live' \subseteq Live \/ Live' = Live \cup {NextId},
         issued' = issued \/ \E c \in Live' : issued' = Max({issued, c}),
         ~SQLite /\ ~(Live' \subseteq Live) => issued' = Max({issued, NextId})
  PROVE  IdsIssued'
<1> SUFFICES ASSUME ~SQLite PROVE issued' \in Nat /\ \A c \in Live' : c <= issued'
  BY DEF IdsIssued, SQLite
<1>1. issued \in Nat /\ \A c \in Live : c <= issued
  BY DEF IdsIssued
<1>2. NextId = 1 + issued
  BY DEF NextId
<1>3. \A c \in Live' : c \in Nat
  BY ShelvesAssumption DEF Live, CatIds
<1>4. issued' \in Nat /\ issued <= issued'
  <2>1. \A c \in Nat : Max({issued, c}) \in Nat /\ issued <= Max({issued, c})
    BY <1>1, MaxOfTwo
  <2>2. CASE issued' = issued
    BY <1>1, <2>2
  <2>3. CASE \E c \in Live' : issued' = Max({issued, c})
    BY <1>3, <2>1, <2>3
  <2> QED BY <2>2, <2>3
<1>5. CASE Live' \subseteq Live
  BY <1>1, <1>3, <1>4, <1>5
<1>6. CASE ~(Live' \subseteq Live)
  <2>1. NextId \in Nat
    BY <1>1, <1>2
  <2>2. NextId <= issued'
    BY <1>1, <1>6, <2>1, MaxOfTwo
  <2> QED
    BY <1>1, <1>3, <1>4, <1>6, <2>1, <2>2
<1> QED
  BY <1>5, <1>6

\* The moves in progress are those there were, and looped is kept.
MovesKept == \A p \in Clerks : form'[p].op = "move" => form'[p] = form[p]

LEMMA FormsSet ==
  ASSUME ShelfTypes, NEW p \in Clerks, NEW f, form' = [form EXCEPT ![p] = f], f.op # "move"
  PROVE  MovesKept
BY DEF ShelfTypes, MovesKept

\* Steps that touch no category.
LEMMA TreeStays ==
  ASSUME ShelfInv, ShelfInv', TreeInv, UNCHANGED <<shop, category, issued, looped>>, MovesKept
  PROVE  TreeInv'
<1>1. Live' = Live
  BY DEF Live
<1>2. IdsIssued'
  BY <1>1 DEF TreeInv, IdsIssued, SQLite
<1>3. ASSUME ~looped PROVE Rooted' /\ OneMove' /\ MovesAway'
  <2>1. Rooted /\ OneMove /\ MovesAway
    BY <1>3 DEF TreeInv
  <2>2. \A d \in Live \cap Live' : category'[d].parent \in {category[d].parent, Root}
    OBVIOUS
  <2>3. \A d \in Live' \ Live : /\ category'[d].parent \in Live \cup {Root}
                                /\ \A p \in Clerks : form[p].op = "move" => form[p].new.parent # d
    BY <1>1
  <2> QED
    BY <2>1, <2>2, <2>3, ForestKept DEF MovesKept
<1> QED
  BY <1>2, <1>3 DEF TreeInv

\* A category is added under one that was there.
LEMMA TreeGrows ==
  ASSUME ShelfInv, ShelfInv', TreeInv, UNCHANGED shop, MovesKept, looped => looped',
         NEW nw \in CategoryRow, Found(nw.parent), NextId \in CatIds,
         category' = [category EXCEPT ![NextId] = nw], issued' = Max({issued, NextId}),
         ~looped' => \A p \in Clerks : form[p].op = "move" => NextId # form[p].new.parent
  PROVE  TreeInv'
<1>1. IdsIssued
  BY DEF TreeInv
<1>2. PICK n \in CatIds : n = NextId
  OBVIOUS
<1>3. category' = [category EXCEPT ![n] = nw]
  BY <1>2
<1>4. /\ Live' = Live \cup {n} /\ n \notin Live
  BY <1>1, <1>2, <1>3, CategoryAdded, NextIdNew
<1>5. category'[n] = nw /\ \A d \in CatIds \ {n} : category'[d] = category[d]
  BY <1>3 DEF ShelfInv, ShelfTypes
<1>6. IdsIssued'
  BY <1>1, <1>2, <1>4, IdsKept
<1>7. ASSUME ~looped' PROVE Rooted' /\ OneMove' /\ MovesAway'
  <2>1. Rooted /\ OneMove /\ MovesAway
    BY <1>7 DEF TreeInv
  <2>2. \A d \in Live \cap Live' : category'[d].parent \in {category[d].parent, Root}
    BY <1>4, <1>5 DEF Live
  <2>3. \A d \in Live' \ Live : /\ category'[d].parent \in Live \cup {Root}
                                /\ \A p \in Clerks : form[p].op = "move" => form[p].new.parent # d
    BY <1>2, <1>4, <1>5, <1>7 DEF Found
  <2> QED
    BY <2>1, <2>2, <2>3, ForestKept DEF MovesKept
<1> QED
  BY <1>6, <1>7 DEF TreeInv

LEMMA TreeCreates ==
  ASSUME ShelfInv, ShelfInv', TreeInv, UNCHANGED shop, NEW p \in Clerks, CreateCategoryWrite(p)
  PROVE  TreeInv'
<1> DEFINE nw == form[p].new
<1>1. form' = [form EXCEPT ![p] = NoForm] /\ NoForm.op # "move" /\ form[p].op = "create" /\ nw \in CategoryRow
  BY DEF CreateCategoryWrite, NoForm, ShelfInv, ShelfTypes, FormOK
<1>2. MovesKept
  BY <1>1, FormsSet DEF ShelfInv
<1>3. CASE UNCHANGED <<category, issued, looped>>
  BY <1>2, <1>3, TreeStays
<1>4. CASE /\ Found(nw.parent) /\ NextId <= shop.shelves
           /\ category' = [category EXCEPT ![NextId] = nw] /\ issued' = Max({issued, NextId})
           /\ looped' = (looped \/ \E q \in Clerks : form[q].op = "move" /\ NextId \in {form[q].id, form[q].new.parent})
  <2>1. looped => looped'
    BY <1>4
  <2>2. ~looped' => \A q \in Clerks : form[q].op = "move" => NextId # form[q].new.parent
    BY <1>4
  <2>3. CASE NextId \in CatIds
    <3> HIDE DEF nw
    <3> QED BY <1>1, <1>2, <1>4, <2>1, <2>2, <2>3, TreeGrows
  <2>4. NextId \in CatIds
    <3>1. shop.shelves \in 0 .. MaxCats
      BY ShopAssumption DEF ShelfInv, ShelfTypes
    <3>2. NextId \in Nat \ {0}
      <4>1. CASE SQLite
        <5>1. Live \cup {Root} \in SUBSET (0 .. MaxCats) /\ Live \cup {Root} # {} /\ MaxCats \in Nat
          BY ShelvesAssumption DEF Live, CatIds, Root
        <5> DEFINE m == Max(Live \cup {Root})
        <5>2. m \in 0 .. MaxCats
          BY <5>1, MaxIn
        <5>3. NextId = 1 + m
          BY <4>1 DEF NextId
        <5> HIDE DEF m
        <5> QED BY <5>1, <5>2, <5>3
      <4>2. CASE ~SQLite
        BY <4>2 DEF NextId, TreeInv, IdsIssued
      <4> QED BY <4>1, <4>2
    <3> QED
      BY <1>4, <3>1, <3>2, ShelvesAssumption DEF CatIds
  <2> QED
    BY <2>3, <2>4
<1> QED
  BY <1>3, <1>4 DEF CreateCategoryWrite

LEMMA TreeImports ==
  ASSUME ShelfInv, ShelfInv', TreeInv, UNCHANGED shop, NEW p \in Clerks, NEW i \in Items, NEW t \in Texts, NEW status,
         ImportItem(p, i, t, status)
  PROVE  TreeInv'
<1> DEFINE cat == CategoryFor(t)
           born == [slug |-> BaseOf[t], parent |-> Root]
<1>1. /\ form[p] = NoForm /\ cat \in 1 .. shop.shelves
      /\ category' = IF cat \in Live THEN category ELSE [category EXCEPT ![cat] = born]
      /\ issued' = Max({issued, cat})
      /\ looped' = (looped \/ (cat \notin Live /\ \E q \in Clerks : form[q].op = "move" /\ cat \in {form[q].id, form[q].new.parent}))
  BY DEF ImportItem, Idle
<1>2. MovesKept
  <2>1. form' = form \/ \E nw : form' = [form EXCEPT ![p] = [op |-> "slug", id |-> i, old |-> NoItem, new |-> nw]]
    BY DEF ImportItem
  <2>2. CASE form' = form
    BY <2>2 DEF MovesKept
  <2>3. ASSUME NEW nw, form' = [form EXCEPT ![p] = [op |-> "slug", id |-> i, old |-> NoItem, new |-> nw]] PROVE MovesKept
    <3> DEFINE f == [op |-> "slug", id |-> i, old |-> NoItem, new |-> nw]
    <3>1. f.op # "move"
      OBVIOUS
    <3> HIDE DEF f
    <3>2. form' = [form EXCEPT ![p] = f]
      BY <2>3 DEF f
    <3> QED BY <3>1, <3>2, FormsSet DEF ShelfInv
  <2> QED BY <2>1, <2>2, <2>3
<1>3. cat \in CatIds
  BY <1>1, ShopAssumption, ShelvesAssumption DEF ShelfInv, ShelfTypes, CatIds
<1>4. CASE cat \in Live
  <2> HIDE DEF cat, born
  <2>1. category' = category /\ Live' = Live
    BY <1>1, <1>4 DEF Live
  <2>6. ~looped' => ~looped
    BY <1>1
  <2>2. IdsIssued /\ Live' \subseteq Live
    BY <2>1 DEF TreeInv
  <2>3. \E c \in Live' : issued' = Max({issued, c})
    BY <1>1, <1>4, <2>1
  <2>4. IdsIssued'
    BY <2>2, <2>3, IdsKept
  <2>5. ASSUME ~looped' PROVE Rooted' /\ OneMove' /\ MovesAway'
    <3>1. Rooted /\ OneMove /\ MovesAway
      BY <2>5, <2>6 DEF TreeInv
    <3>2. \A d \in Live \cap Live' : category'[d].parent \in {category[d].parent, Root}
      BY <2>1
    <3>3. \A d \in Live' \ Live : /\ category'[d].parent \in Live \cup {Root}
                                  /\ \A q \in Clerks : form[q].op = "move" => form[q].new.parent # d
      BY <2>1
    <3> QED
      BY <1>2, <3>1, <3>2, <3>3, ForestKept DEF MovesKept
  <2> QED
    BY <2>4, <2>5 DEF TreeInv
<1>5. CASE cat \notin Live
  <2>1. cat = NextId
    <3>1. ~SlugFree(BaseOf[t], Root) => (CHOOSE c \in Live : category[c].slug = BaseOf[t]) \in Live
      BY DEF SlugFree
    <3> QED
      BY <1>5, <3>1 DEF CategoryFor
  <2>2. born \in CategoryRow /\ Found(born.parent)
    BY ShelfData DEF CategoryRow, Found
  <2>3. /\ category' = [category EXCEPT ![NextId] = born] /\ issued' = Max({issued, NextId}) /\ NextId \in CatIds
        /\ looped' = (looped \/ \E q \in Clerks : form[q].op = "move" /\ NextId \in {form[q].id, form[q].new.parent})
    BY <1>1, <1>3, <1>5, <2>1
  <2>4. looped => looped'
    BY <2>3
  <2>5. ~looped' => \A q \in Clerks : form[q].op = "move" => NextId # form[q].new.parent
    BY <2>3
  <2> HIDE DEF born, cat
  <2> QED
    BY <1>2, <2>2, <2>3, <2>4, <2>5, TreeGrows
<1> QED
  BY <1>4, <1>5

LEMMA TreeDeletes ==
  ASSUME ShelfInv, ShelfInv', TreeInv, UNCHANGED shop, NEW p \in Clerks, DeleteCategoryWrite(p)
  PROVE  TreeInv'
<1>1. form' = [form EXCEPT ![p] = NoForm] /\ NoForm.op # "move" /\ issued' = issued /\ looped' = looped
  BY DEF DeleteCategoryWrite, NoForm
<1>2. MovesKept
  BY <1>1, FormsSet DEF ShelfInv
<1>3. /\ Live' \subseteq Live
      /\ \A d \in Live' : category'[d].parent \in {category[d].parent, Root}
  BY CategoryDeleted
<1>4. IdsIssued'
  BY <1>1, <1>3, IdsKept DEF TreeInv
<1>5. ASSUME ~looped PROVE Rooted' /\ OneMove' /\ MovesAway'
  <2>1. Rooted /\ OneMove /\ MovesAway
    BY <1>5 DEF TreeInv
  <2>2. \A d \in Live \cap Live' : category'[d].parent \in {category[d].parent, Root}
    BY <1>3
  <2>3. \A d \in Live' \ Live : /\ category'[d].parent \in Live \cup {Root}
                                /\ \A q \in Clerks : form[q].op = "move" => form[q].new.parent # d
    BY <1>3
  <2> QED
    BY <1>2, <2>1, <2>2, <2>3, ForestKept DEF MovesKept
<1> QED
  BY <1>1, <1>4, <1>5 DEF TreeInv

\* A category is sent under one that has none of its own: only the move in progress could.
LEMMA SentAway ==
  ASSUME ShelfInv, Rooted, NEW c \in Live, NEW A \in SUBSET Live, Upward(A), c \notin A,
         Live' = Live, category'[c].parent \in A,
         \A d \in Live \ {c} : category'[d] = category[d]
  PROVE  Rooted'
<1> SUFFICES ASSUME NEW S \in SUBSET Live, S # {}
             PROVE  \E d \in S : category'[d].parent \notin S
  BY DEF Rooted
<1>1. CASE c \notin S
  <2>1. PICK d \in S : category[d].parent \notin S
    BY DEF Rooted
  <2> QED
    BY <1>1, <2>1
<1>2. CASE c \in S /\ category'[c].parent \notin S
  BY <1>2
<1>3. CASE category'[c].parent \in S
  <2>1. S \cap A # {} /\ S \cap A \in SUBSET Live
    BY <1>3
  <2>2. PICK d \in S \cap A : category[d].parent \notin S \cap A
    BY <2>1 DEF Rooted
  <2>3. category[d].parent \in A \cup {Root} /\ Root \notin S
    BY <2>2, ShelfData DEF Upward, Live
  <2> QED
    BY <2>2, <2>3
<1> QED
  BY <1>1, <1>2, <1>3

LEMMA TreeMoves ==
  ASSUME ShelfInv, ShelfInv', TreeInv, UNCHANGED shop, NEW p \in Clerks, MoveCategoryWrite(p)
  PROVE  TreeInv'
<1> DEFINE c == form[p].id
           rec == Updated(category[c], form[p].old, form[p].new)
<1>1. /\ form[p].op = "move" /\ form[p].new \in CategoryRow
      /\ form' = [form EXCEPT ![p] = NoForm] /\ NoForm.op # "move"
      /\ issued' = issued /\ looped' = looped
  BY DEF ShelfInv, ShelfTypes, FormOK, MoveCategoryWrite, NoForm
<1>2. MovesKept
  BY <1>1, FormsSet DEF ShelfInv
<1>3. CASE category' = category
  BY <1>1, <1>2, <1>3, TreeStays
<1>4. CASE c \in Live /\ category' = [category EXCEPT ![c] = rec]
  <2>1. c \in CatIds /\ category[c] \in CategoryRow /\ category \in [CatIds -> CategoryRow \cup {NoCategory}]
    BY <1>4 DEF Live, ShelfInv, ShelfTypes
  <2>2. rec \in CategoryRow /\ rec # NoCategory
    <3>1. rec \in CategoryRow
      BY <1>1, <2>1, UpdatedCategory
    <3> HIDE DEF rec
    <3> QED BY <3>1, ShelfData DEF CategoryRow, NoCategory
  <2>3. rec.parent \in {category[c].parent, form[p].new.parent}
    <3>1. "parent" \in DOMAIN category[c]
      BY <2>1 DEF CategoryRow
    <3> QED BY <3>1, UpdatedFields
  <2>4. form'[p].op # "move" /\ \A q \in Clerks : q # p => form'[q] = form[q]
    BY <1>1 DEF ShelfInv, ShelfTypes
  <2> DEFINE q == form[p].new.parent
  <2>11. c \in Live /\ category' = [category EXCEPT ![c] = rec]
    BY <1>4
  <2> HIDE DEF rec, c
  <2>5. category'[c] = rec /\ \A d \in CatIds \ {c} : category'[d] = category[d]
    BY <2>1, <2>11
  <2>6. Live' = Live
    BY <2>2, <2>5, <2>11 DEF Live
  <2>7. IdsIssued'
    BY <1>1, <2>6, IdsKept DEF TreeInv
  <2>8. ASSUME ~looped, rec.parent \in {category[c].parent, Root} PROVE Rooted' /\ OneMove' /\ MovesAway'
    <3>1. Rooted /\ OneMove /\ MovesAway
      BY <2>8 DEF TreeInv
    <3>2. \A d \in Live \cap Live' : category'[d].parent \in {category[d].parent, Root}
      BY <2>5, <2>8 DEF Live
    <3>3. \A d \in Live' \ Live : /\ category'[d].parent \in Live \cup {Root}
                                  /\ \A r \in Clerks : form[r].op = "move" => form[r].new.parent # d
      BY <2>6
    <3> QED
      BY <1>2, <3>1, <3>2, <3>3, ForestKept DEF MovesKept
  <2>9. ASSUME ~looped, rec.parent = q, q \in Live PROVE Rooted' /\ OneMove' /\ MovesAway'
    <3>1. Rooted /\ OneMove /\ MovesAway
      BY <2>9 DEF TreeInv
    <3>2. PICK A \in SUBSET Live : Upward(A) /\ q \in A /\ c \notin A
      BY <1>1, <2>9, <3>1 DEF MovesAway, c
    <3>3. category'[c].parent \in A
      BY <2>5, <2>9, <3>2
    <3>4. \A d \in Live \ {c} : category'[d] = category[d]
      BY <2>5 DEF Live
    <3>5. Rooted'
      BY <2>6, <2>11, <3>1, <3>2, <3>3, <3>4, SentAway
    <3>6. \A r \in Clerks : form'[r].op # "move"
      BY <1>1, <2>4, <3>1 DEF OneMove
    <3> QED
      BY <3>5, <3>6 DEF OneMove, MovesAway
  <2>10. rec.parent \in {category[c].parent, Root} \/ (rec.parent = q /\ q \in Live)
    <3>1. rec.parent \in Live' \cup {Root}
      BY <2>5, <2>6, <2>11 DEF ShelfInv, CategoriesLinked, Found
    <3> QED
      BY <2>3, <2>6, <3>1
  <2> QED
    BY <1>1, <2>7, <2>8, <2>9, <2>10 DEF TreeInv
<1> QED
  BY <1>3, <1>4 DEF MoveCategoryWrite

\* A move begins, alone, and not under one of the category's own.
LEMMA TreeMoveBegins ==
  ASSUME ShelfInv, ShelfInv', TreeInv, UNCHANGED shop, NEW p \in Clerks, NEW c \in CatIds, NEW s, NEW q,
         MoveCategory(p, c, s, q)
  PROVE  TreeInv'
<1> DEFINE f == [op |-> "move", id |-> c, old |-> category[c], new |-> [slug |-> s, parent |-> q]]
<1>1. /\ c \in Live /\ (q = Root \/ (q # c /\ q \in Live))
      /\ form' = [form EXCEPT ![p] = f]
      /\ looped' = (looped \/ q \in Under(c) \ {c} \/ \E r \in Clerks : form[r].op = "move")
      /\ category' = category /\ issued' = issued
  BY DEF MoveCategory, Reachable, ParentAllowed
<1>2. f.op = "move" /\ f.id = c /\ f.new.parent = q
  OBVIOUS
<1> HIDE DEF f
<1>3. form'[p] = f /\ \A r \in Clerks \ {p} : form'[r] = form[r]
  BY <1>1 DEF ShelfInv, ShelfTypes
<1>4. Live' = Live
  BY <1>1 DEF Live
<1>5. IdsIssued'
  BY <1>1, <1>4 DEF TreeInv, IdsIssued, SQLite
<1>6. ASSUME ~looped' PROVE Rooted' /\ OneMove' /\ MovesAway'
  <2>1. ~looped /\ q \notin Under(c) \ {c} /\ \A r \in Clerks : form[r].op # "move"
    BY <1>1, <1>6
  <2>2. Rooted
    BY <2>1 DEF TreeInv
  <2>3. Rooted'
    BY <1>1, <1>4, <2>2 DEF Rooted
  <2>4. \A r \in Clerks : form'[r].op = "move" => r = p
    BY <1>3, <2>1
  <2>5. q \in Live => \E A \in SUBSET Live : Upward(A) /\ q \in A /\ c \notin A
    <3> SUFFICES ASSUME q \in Live PROVE \E A \in SUBSET Live : Upward(A) /\ q \in A /\ c \notin A
      OBVIOUS
    <3>1. q # c
      BY <1>1, ShelfData DEF Live
    <3>2. q \notin Under(c)
      BY <2>1, <3>1
    <3> QED
      BY <1>1, <2>2, <3>2, Ancestors
  <2>6. \A A : Upward(A) => Upward(A)'
    BY <1>1 DEF Upward
  <2>7. MovesAway'
    BY <1>2, <1>3, <1>4, <2>4, <2>5, <2>6 DEF MovesAway
  <2> QED
    BY <2>3, <2>4, <2>7 DEF OneMove
<1> QED
  BY <1>5, <1>6 DEF TreeInv

\* The steps that change products, or only begin or drop a request.
LEMMA TreeUntouched ==
  ASSUME ShelfInv, ShelfInv', TreeInv, UNCHANGED <<shop, category, issued, looped>>, NEW p \in Clerks,
         form' = form \/ \E f : form' = [form EXCEPT ![p] = f] /\ f.op # "move"
  PROVE  TreeInv'
<1>1. CASE form' = form
  BY <1>1, TreeStays DEF MovesKept
<1>2. ASSUME NEW f, form' = [form EXCEPT ![p] = f], f.op # "move" PROVE TreeInv'
  BY <1>2, FormsSet, TreeStays DEF ShelfInv
<1> QED
  BY <1>1, <1>2

LEMMA TreeForms ==
  ASSUME ShelfInv, ShelfInv', TreeInv, UNCHANGED shop, NEW p \in Clerks,
         CreateItemWrite(p) \/ InsertItem(p) \/ ItemWrite(p) \/ FormFails(p)
  PROVE  TreeInv'
<1>1. UNCHANGED <<category, issued, looped>>
  BY DEF CreateItemWrite, InsertItem, ItemWrite, FormFails
<1>2. NoForm.op # "move"
  BY DEF NoForm
<1>3. CASE form' = [form EXCEPT ![p] = NoForm]
  BY <1>1, <1>2, <1>3, TreeUntouched
<1>4. CASE InsertItem(p) /\ form' # [form EXCEPT ![p] = NoForm]
  <2>1. form' = [form EXCEPT ![p].op = "slug", ![p].new = Resolved(form[p].new, form[p].id)]
    BY <1>4 DEF InsertItem
  <2> DEFINE f == [form[p] EXCEPT !.op = "slug", !.new = Resolved(form[p].new, form[p].id)]
  <2>2. form' = [form EXCEPT ![p] = f]
    BY <2>1 DEF ShelfInv, ShelfTypes
  <2>3. "op" \in DOMAIN form[p]
    BY DEF ShelfInv, ShelfTypes, FormOK
  <2>4. f.op # "move"
    BY <2>3
  <2> HIDE DEF f
  <2> QED
    BY <1>1, <2>2, <2>4, TreeUntouched
<1> QED
  BY <1>3, <1>4 DEF CreateItemWrite, ItemWrite, FormFails

LEMMA TreeBegins ==
  ASSUME ShelfInv, ShelfInv', TreeInv, UNCHANGED shop, NEW p \in Clerks, NEW s, NEW q, NEW c, NEW i, NEW status,
         \/ CreateCategory(p, s, q) \/ DeleteCategory(p, c) \/ CreateItem(p, i, s, status, q)
         \/ EditItem(p, i, s, status, q) \/ RejectItem(p, i, s, status)
  PROVE  TreeInv'
<1>1. UNCHANGED <<category, issued, looped>>
  BY DEF CreateCategory, DeleteCategory, CreateItem, EditItem, RejectItem
<1>2. \A old, nw, id : \A op \in {"create", "add", "edit"} : [op |-> op, id |-> id, old |-> old, new |-> nw].op # "move"
  OBVIOUS
<1>3. CASE CreateCategory(p, s, q)
  <2>1. \E f : form' = [form EXCEPT ![p] = f] /\ f.op # "move"
    BY <1>2, <1>3 DEF CreateCategory
  <2> QED BY <1>1, <2>1, TreeUntouched
<1>4. CASE DeleteCategory(p, c)
  <2> DEFINE f == [NoForm EXCEPT !.op = "delete", !.id = c]
  <2>1. form' = [form EXCEPT ![p] = f] /\ f.op # "move"
    BY <1>4 DEF DeleteCategory, NoForm
  <2> HIDE DEF f
  <2> QED BY <1>1, <2>1, TreeUntouched
<1>5. CASE CreateItem(p, i, s, status, q)
  <2>1. \E f : form' = [form EXCEPT ![p] = f] /\ f.op # "move"
    BY <1>2, <1>5 DEF CreateItem
  <2> QED BY <1>1, <2>1, TreeUntouched
<1>6. CASE EditItem(p, i, s, status, q)
  <2>1. \E nw : form' = [form EXCEPT ![p] = [op |-> "edit", id |-> i, old |-> item[i], new |-> nw]]
    BY <1>6 DEF EditItem
  <2>2. PICK nw : form' = [form EXCEPT ![p] = [op |-> "edit", id |-> i, old |-> item[i], new |-> nw]]
    BY <2>1
  <2> DEFINE f == [op |-> "edit", id |-> i, old |-> item[i], new |-> nw]
  <2>3. form' = [form EXCEPT ![p] = f] /\ f.op # "move"
    BY <2>2
  <2> HIDE DEF f
  <2> QED BY <1>1, <2>3, TreeUntouched
<1>7. CASE RejectItem(p, i, s, status)
  BY <1>1, <1>7, TreeUntouched DEF RejectItem
<1> QED
  BY <1>3, <1>4, <1>5, <1>6, <1>7

LEMMA TreeStep == ShelfInv /\ TreeInv /\ [Next]_vars => TreeInv'
<1> SUFFICES ASSUME ShelfInv, TreeInv, [Next]_vars PROVE TreeInv'
  OBVIOUS
<1>1. UNCHANGED shop /\ (UNCHANGED shelfVars \/ ShelvesStep \/ DropForms)
  BY NextShelves
<1>2. ShelfInv'
  BY ShelfStep
<1>3. CASE UNCHANGED shelfVars
  <2>1. UNCHANGED <<category, issued, form, looped>>
    BY <1>3 DEF shelfVars
  <2> QED
    BY <1>1, <1>2, <2>1, TreeStays DEF MovesKept
<1>4. CASE DropForms
  <2>1. UNCHANGED <<category, issued, looped>> /\ form' = [q \in Clerks |-> NoForm]
    BY <1>4 DEF DropForms
  <2>2. MovesKept
    BY <2>1 DEF MovesKept, NoForm
  <2> QED
    BY <1>1, <1>2, <2>1, <2>2, TreeStays
<1>5. CASE ShelvesStep
  <2>1. shop.clerks \subseteq Clerks /\ shop.texts \subseteq Texts /\ shop.items \subseteq Items
    BY ShopAssumption DEF ShelfInv, ShelfTypes
  <2>2. PICK p \in shop.clerks :
          \/ CreateCategoryWrite(p) \/ MoveCategoryWrite(p) \/ DeleteCategoryWrite(p)
          \/ CreateItemWrite(p) \/ InsertItem(p) \/ ItemWrite(p) \/ FormFails(p)
          \/ \E c \in CatIds : DeleteCategory(p, c)
          \/ \E s \in shop.texts, q \in CatIds \cup {Root} :
               \/ CreateCategory(p, s, q)
               \/ \E c \in CatIds : MoveCategory(p, c, s, q)
               \/ \E i \in shop.items, status \in Statuses : CreateItem(p, i, s, status, q) \/ EditItem(p, i, s, status, q)
          \/ \E i \in shop.items, status \in Statuses, q \in CatIds \cup {Root} : EditItem(p, i, item[i].slug, status, q)
          \/ \E s \in shop.texts, i \in shop.items, status \in Statuses :
               ImportItem(p, i, s, status) \/ RejectItem(p, i, s, status)
    BY <1>5 DEF ShelvesStep
  <2>3. p \in Clerks
    BY <2>1
  <2>4. CASE CreateCategoryWrite(p) \/ MoveCategoryWrite(p) \/ DeleteCategoryWrite(p)
    BY <1>1, <1>2, <2>3, <2>4, TreeCreates, TreeMoves, TreeDeletes
  <2>5. CASE CreateItemWrite(p) \/ InsertItem(p) \/ ItemWrite(p) \/ FormFails(p)
    BY <1>1, <1>2, <2>3, <2>5, TreeForms
  <2>6. ASSUME NEW c \in CatIds, NEW s, NEW q, MoveCategory(p, c, s, q) PROVE TreeInv'
    BY <1>1, <1>2, <2>3, <2>6, TreeMoveBegins
  <2>7. ASSUME NEW i \in shop.items, NEW s \in shop.texts, NEW status, ImportItem(p, i, s, status) PROVE TreeInv'
    BY <1>1, <1>2, <2>1, <2>3, <2>7, TreeImports
  <2>8. ASSUME NEW s, NEW q, NEW c, NEW i, NEW status,
               \/ CreateCategory(p, s, q) \/ DeleteCategory(p, c) \/ CreateItem(p, i, s, status, q)
               \/ EditItem(p, i, s, status, q) \/ RejectItem(p, i, s, status)
        PROVE  TreeInv'
    BY <1>1, <1>2, <2>3, <2>8, TreeBegins
  <2> QED
    BY <2>2, <2>4, <2>5, <2>6, <2>7, <2>8
<1> QED
  BY <1>1, <1>3, <1>4, <1>5

LEMMA TreeInit == Init => TreeInv
<1> SUFFICES ASSUME Init PROVE TreeInv
  OBVIOUS
<1>1. category = [c \in CatIds |-> NoCategory] /\ form = [p \in Clerks |-> NoForm] /\ issued = 0
  BY DEF Init, ShelvesInit
<1>2. Live = {}
  BY <1>1 DEF Live
<1>3. \A p \in Clerks : form[p].op # "move"
  BY <1>1 DEF NoForm
<1> QED
  BY <1>1, <1>2, <1>3 DEF TreeInv, IdsIssued, Rooted, OneMove, MovesAway

\* The tree (_build_tree) shows every category and every product's category exists,
\* whatever is created, renamed, moved, deleted and imported meanwhile: as long as no
\* one sends a category under one of its own, which validate_category_parent does not
\* look for, and no two moves meet.
THEOREM CategoriesStayTree == Spec => []TreeShowsAll
<1>1. ShelfInv /\ TreeInv => TreeShowsAll
  <2> SUFFICES ASSUME ShelfInv, TreeInv PROVE TreeShowsAll
    OBVIOUS
  <2>1. ~looped => Live \subseteq InTree
    BY ClimbEnds DEF TreeInv, InTree
  <2>2. InTree \subseteq Live
    BY DEF InTree
  <2> QED
    BY <2>1, <2>2 DEF TreeShowsAll, ShelfInv, CategoriesLinked, ItemsLinked
<1>2. Spec => []TreeInv
  <2>1. ShelfInv /\ ShelfInv' /\ TreeInv /\ [Next]_vars => TreeInv'
    BY TreeStep
  <2> QED
    BY <2>1, TreeInit, ShelfAlways, PTL DEF Spec
<1> QED
  BY <1>1, <1>2, ShelfAlways, PTL
=============================================================================
