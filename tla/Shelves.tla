------------------------------ MODULE Shelves -------------------------------
(***************************************************************************)
(* Where a product is found: the categories, which name their parents, and *)
(* each product's slug, status and category.                               *)
(*                                                                         *)
(* A request of an administrator reads and checks, then writes.  On SQLite *)
(* it writes the columns it changed, under the lock it holds from its      *)
(* first write to its commit; on D1 the whole row, statement by statement. *)
(* Both enforce the unique slugs and the foreign keys.                     *)
(*                                                                         *)
(* Names, texts and SKUs are left out; a SKU is checked as a slug is.      *)
(* Products are deleted in Catalog.                                        *)
(***************************************************************************)
EXTENDS Server, FiniteSetsExt
LOCAL INSTANCE Sequences

CONSTANTS MaxCats,   \* categories have the ids 1 .. MaxCats
          Texts,     \* what may be typed as a slug or be a name
          Bases,     \* the texts that are slugs as they stand
          BaseOf,    \* slugify, [Texts -> Bases]
          Items,     \* products that may be created, each once
          MaxSuffix, \* bound on the number at the end of a product's slug
          Clerks     \* requests that change categories and products at a time

ASSUME ShelvesAssumption ==
  /\ {MaxCats, MaxSuffix} \subseteq Nat \ {0}
  /\ Bases \subseteq Texts
  /\ BaseOf \in [Texts -> Bases] /\ \A b \in Bases : BaseOf[b] = b
  /\ "none" \notin Texts /\ <<>> \notin Texts
  /\ IsFiniteSet(Items) /\ Cardinality(Items) <= MaxSuffix   \* so that a free suffix is found

VARIABLES
  category,  \* Category rows by id
  issued,    \* the largest id any category has had
  item,      \* Product rows
  form,      \* the request in progress of each clerk
  \* History, read by the properties only:
  looped,    \* a category was sent under one of its own, or two moves met
  stopped    \* products whose creation on D1 stopped, or was edited, half way

shelfVars == <<category, issued, item, form, looped, stopped>>

Root       == 0                     \* no parent, no category
CatIds     == 1 .. MaxCats
NoCategory == [slug |-> "none", parent |-> Root]
NoSlug     == <<>>
Slugs      == Bases \X (1 .. MaxSuffix)   \* "boots", "boots-2", ...
NoItem     == [slug |-> NoSlug, status |-> "none", cat |-> Root]
NoForm     == [op |-> "none", id |-> Root, old |-> NoItem, new |-> NoItem]

Live         == {c \in CatIds : category[c] # NoCategory}
Found(c)     == c = Root \/ c \in Live
Products     == {i \in Items : item[i] # NoItem}
Idle(p)      == form[p] = NoForm
SQLite       == shop.backend = "sqlite"

\* category.py: the chain of parents of each category, n steps up.
Above[n \in 0 .. MaxCats] ==
  IF n = 0 THEN [c \in Live |-> c]
  ELSE [c \in Live |-> IF Above[n - 1][c] = Root THEN Root ELSE category[Above[n - 1][c]].parent]
Under(c) == {d \in Live : \E n \in 0 .. MaxCats : Above[n][d] = c}

\* _build_tree: what hangs from the categories without a parent, at any depth.
InTree == {c \in Live : \E n \in 0 .. MaxCats : Above[n][c] = Root}

-----------------------------------------------------------------------------
(* Categories *)

\* ensure_category_slug_available, and the unique index
SlugFree(s, c) == \A d \in Live \ {c} : category[d].slug # s

\* Faulty form: a category may be its own parent.
ParentAllowedSelf(c, q) == Found(q)

\* validate_category_parent
ParentAllowed(c, q) == q = Root \/ (q # c /\ q \in Live)

CreateCategory(p, s, q) ==
  /\ Idle(p)
  /\ SlugFree(s, Root) /\ ParentAllowed(Root, q)
  /\ form' = [form EXCEPT ![p] = [op |-> "create", id |-> Root, old |-> NoCategory,
                                  new |-> [slug |-> s, parent |-> q]]]
  /\ UNCHANGED <<category, issued, item, looped, stopped>>

\* The next id: on SQLite the id of the last category comes back once it is
\* deleted, on D1 it does not.
NextId == 1 + (IF SQLite THEN Max(Live \cup {Root}) ELSE issued)

\* The INSERT and the commit.  A move that names the id does not know the new one.
CreateCategoryWrite(p) ==
  LET new == form[p].new
  IN /\ form[p].op = "create"
     /\ IF SlugFree(new.slug, Root) /\ Found(new.parent)
        THEN /\ NextId <= shop.shelves
             /\ category' = [category EXCEPT ![NextId] = new]
             /\ issued' = Max({issued, NextId})
             /\ looped' = (looped \/ \E q \in Clerks : form[q].op = "move" /\ NextId \in {form[q].id, form[q].new.parent})
        ELSE UNCHANGED <<category, issued, looped>>
     /\ form' = [form EXCEPT ![p] = NoForm]
     /\ UNCHANGED <<item, stopped>>

\* A category is edited and deleted under its slug, as one segment of a path: one
\* whose slug is not stays as it is.
Reachable(c) == c \in Live /\ category[c].slug \in Bases

\* admin_category_update
MoveCategory(p, c, s, q) ==
  /\ Idle(p) /\ Reachable(c)
  /\ s # category[c].slug => SlugFree(s, c)
  /\ ParentAllowed(c, q)
  /\ form' = [form EXCEPT ![p] = [op |-> "move", id |-> c, old |-> category[c],
                                  new |-> [slug |-> s, parent |-> q]]]
  /\ looped' = (looped \/ q \in Under(c) \ {c} \/ \E r \in Clerks : form[r].op = "move")
  /\ UNCHANGED <<category, issued, item, stopped>>

\* What an UPDATE makes of a row: its changed columns, or all of them.
Updated(row, old, new) ==
  [k \in DOMAIN row |-> IF SQLite /\ new[k] = old[k] THEN row[k] ELSE new[k]]

\* The UPDATE and the commit; the database refuses a slug taken meanwhile and a
\* parent that is gone.  A category that is gone fails on SQLite and is ignored on D1.
MoveCategoryWrite(p) ==
  LET c   == form[p].id
      row == Updated(category[c], form[p].old, form[p].new)
  IN /\ form[p].op = "move"
     /\ category' = IF c \in Live /\ SlugFree(row.slug, c) /\ Found(row.parent)
                    THEN [category EXCEPT ![c] = row] ELSE category
     /\ form' = [form EXCEPT ![p] = NoForm]
     /\ UNCHANGED <<issued, item, looped, stopped>>

DeleteCategory(p, c) ==
  /\ Idle(p) /\ Reachable(c)
  /\ form' = [form EXCEPT ![p] = [NoForm EXCEPT !.op = "delete", !.id = c]]
  /\ UNCHANGED <<category, issued, item, looped, stopped>>

\* The DELETE: ON DELETE SET NULL for its children and its products.
DeleteCategoryWrite(p) ==
  LET c == form[p].id
  IN /\ form[p].op = "delete"
     /\ category' = [d \in CatIds |-> CASE d = c -> NoCategory
                                        [] d # c /\ category[d].parent = c -> [category[d] EXCEPT !.parent = Root]
                                        [] OTHER -> category[d]]
     /\ item' = [i \in Items |-> IF item[i].cat = c THEN [item[i] EXCEPT !.cat = Root] ELSE item[i]]
     /\ form' = [form EXCEPT ![p] = NoForm]
     /\ UNCHANGED <<issued, looped, stopped>>

-----------------------------------------------------------------------------
(* Products *)

\* slug_exists, and the unique index
ItemSlugFree(s, i) == \A j \in Items \ {i} : item[j].slug # s

\* generate_unique_product_slug: the first free one.
UniqueSlug(t, i) ==
  LET free == {n \in 1 .. MaxSuffix : ItemSlugFree(<<BaseOf[t], n>>, i)}
  IN <<BaseOf[t], Min(free)>>

\* The form's slug is compared as it is typed, before it is made a slug.
TypedFree(t, i) == t \in Bases => ItemSlugFree(<<t, 1>>, i)

\* A slug that is still as it was typed, <<t>>, is made one.
Resolved(row, i) == IF Len(row.slug) = 1 THEN [row EXCEPT !.slug = UniqueSlug(@[1], i)] ELSE row

\* No request in progress creates the product or edits it.
Unused(i) == item[i] = NoItem /\ i \notin stopped /\ \A r \in Clerks : form[r].id # i \/ form[r].op \notin {"add", "edit"}

\* assign_product_category_from_type: the category of this slug, made if there is none.
CategoryFor(t) ==
  IF SlugFree(BaseOf[t], Root) THEN NextId ELSE CHOOSE c \in Live : category[c].slug = BaseOf[t]

\* The checks of admin_product_create, for a typed slug or a name.
CreateItem(p, i, t, status, q) ==
  /\ Idle(p) /\ Unused(i)
  /\ TypedFree(t, i) /\ Found(q)
  /\ form' = [form EXCEPT ![p] = [op |-> "add", id |-> i, old |-> NoItem,
                                  new |-> [slug |-> <<t>>, status |-> status, cat |-> q]]]
  /\ UNCHANGED <<category, issued, item, looped, stopped>>

\* On SQLite the slug is chosen with the row inserted and the lock held.
CreateItemWrite(p) ==
  LET i == form[p].id  new == form[p].new
  IN /\ form[p].op = "add" /\ SQLite
     /\ item' = IF Found(new.cat) THEN [item EXCEPT ![i] = Resolved(new, i)] ELSE item
     /\ form' = [form EXCEPT ![p] = NoForm]
     /\ UNCHANGED <<category, issued, looped, stopped>>

\* On D1 the row is there before its slug, and stays if the slug is refused.
InsertItem(p) ==
  LET i == form[p].id  new == form[p].new
  IN /\ form[p].op = "add" /\ ~SQLite
     /\ IF Found(new.cat)
        THEN /\ item' = [item EXCEPT ![i] = [new EXCEPT !.slug = NoSlug]]
             /\ form' = [form EXCEPT ![p].op = "slug", ![p].new = Resolved(new, i)]
        ELSE form' = [form EXCEPT ![p] = NoForm] /\ UNCHANGED item
     /\ UNCHANGED <<category, issued, looped, stopped>>

\* An import inserts its product, then gives it a slug and the category of its type.
ImportItem(p, i, t, status) ==
  LET cat == CategoryFor(t)
      new == [slug |-> UniqueSlug(t, i), status |-> status, cat |-> cat]
  IN /\ Idle(p) /\ Unused(i)
     /\ cat \in 1 .. shop.shelves
     /\ category' = IF cat \in Live THEN category
                    ELSE [category EXCEPT ![cat] = [slug |-> BaseOf[t], parent |-> Root]]
     /\ issued' = Max({issued, cat})
     /\ looped' = (looped \/ (cat \notin Live /\ \E q \in Clerks : form[q].op = "move" /\ cat \in {form[q].id, form[q].new.parent}))
     /\ IF SQLite
        THEN item' = [item EXCEPT ![i] = new] /\ UNCHANGED form
        ELSE /\ item' = [item EXCEPT ![i] = [new EXCEPT !.slug = NoSlug, !.cat = Root]]
             /\ form' = [form EXCEPT ![p] = [op |-> "slug", id |-> i, old |-> NoItem, new |-> new]]
     /\ UNCHANGED stopped

\* The product a request has inserted and not finished.
HalfMade(p) == IF form[p].op = "slug" THEN {form[p].id} ELSE {}

\* admin_product_update, with the slug as it was or one that is typed.
EditItem(p, i, t, status, q) ==
  LET new == [slug |-> IF t = item[i].slug THEN t ELSE <<t>>, status |-> status, cat |-> q]
  IN /\ Idle(p) /\ i \in Products
     /\ t # item[i].slug => TypedFree(t, i)
     /\ Found(q)
     /\ form' = [form EXCEPT ![p] = [op |-> "edit", id |-> i, old |-> item[i],
                                     new |-> IF SQLite THEN new ELSE Resolved(new, i)]]
     /\ stopped' = IF item[i].slug = NoSlug THEN stopped \cup {i} ELSE stopped
     /\ UNCHANGED <<category, issued, item, looped>>

\* The page that says the slug is taken has set the status, which SQLite commits.
RejectItem(p, i, t, status) ==
  /\ Idle(p) /\ i \in Products
  /\ ~TypedFree(t, i)
  /\ item' = IF SQLite THEN [item EXCEPT ![i].status = status] ELSE item
  /\ UNCHANGED <<category, issued, form, looped, stopped>>

\* The UPDATE; SQLite chooses the slug under its lock.
ItemWrite(p) ==
  LET i   == form[p].id
      row == Updated(item[i], form[p].old, Resolved(form[p].new, i))
  IN /\ form[p].op \in {"edit", "slug"}
     /\ IF i \in Products /\ (row.slug = NoSlug \/ ItemSlugFree(row.slug, i)) /\ Found(row.cat)
        THEN item' = [item EXCEPT ![i] = row] /\ UNCHANGED stopped
        ELSE stopped' = stopped \cup HalfMade(p) /\ UNCHANGED item
     /\ form' = [form EXCEPT ![p] = NoForm]
     /\ UNCHANGED <<category, issued, looped>>

-----------------------------------------------------------------------------
\* The commit fails: what D1 has written stays.
FormFails(p) ==
  /\ ~Idle(p)
  /\ stopped' = stopped \cup HalfMade(p)
  /\ form' = [form EXCEPT ![p] = NoForm]
  /\ UNCHANGED <<category, issued, item, looped>>

\* The process ends.
DropForms ==
  /\ stopped' = stopped \cup UNION {HalfMade(p) : p \in Clerks}
  /\ form' = [p \in Clerks |-> NoForm]
  /\ UNCHANGED <<category, issued, item, looped>>

ShelvesInit ==
  /\ category = [c \in CatIds |-> NoCategory]
  /\ issued = 0
  /\ item = [i \in Items |-> NoItem]
  /\ form = [p \in Clerks |-> NoForm]
  /\ looped = FALSE
  /\ stopped = {}

Statuses == {"draft", "published"}

ShelvesStep ==
  \E p \in shop.clerks :
    \/ CreateCategoryWrite(p) \/ MoveCategoryWrite(p) \/ DeleteCategoryWrite(p)
    \/ CreateItemWrite(p) \/ InsertItem(p) \/ ItemWrite(p) \/ FormFails(p)
    \/ \E c \in CatIds : DeleteCategory(p, c)
    \/ \E s \in shop.texts, q \in CatIds \cup {Root} :
         \/ CreateCategory(p, s, q)
         \/ \E c \in CatIds : MoveCategory(p, c, s, q)
         \/ \E i \in shop.items, status \in Statuses : CreateItem(p, i, s, status, q) \/ EditItem(p, i, s, status, q)
    \/ \E i \in shop.items, status \in Statuses, q \in CatIds \cup {Root} : EditItem(p, i, item[i].slug, status, q)
    \/ \E s \in shop.texts, i \in shop.items, status \in Statuses :
         ImportItem(p, i, s, status) \/ RejectItem(p, i, s, status)

-----------------------------------------------------------------------------
(* Properties *)

ShelvesTypeOK ==
  /\ category \in [CatIds -> [slug : Texts, parent : CatIds \cup {Root}] \cup {NoCategory}]
  /\ issued \in 0 .. MaxCats
  /\ item \in [Items -> [slug : Slugs \cup {NoSlug}, status : Statuses, cat : CatIds \cup {Root}] \cup {NoItem}]
  /\ \A p \in Clerks : form[p].op \in {"none", "create", "move", "delete", "add", "slug", "edit"}
  /\ stopped \subseteq Items

\* The tree the storefront asks for (categories.py:66) shows every category, and a
\* product's category exists, whatever is created, renamed and deleted meanwhile:
\* as long as no one sends a category under one of its own and no two moves meet.
\* An id that a deleted category leaves to a new one is such a meeting.
TreeShowsAll ==
  /\ ~looped => InTree = Live
  /\ \A c \in Live : Found(category[c].parent)
  /\ \A i \in Products : Found(item[i].cat)
=============================================================================
