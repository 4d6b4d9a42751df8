--------------------------- MODULE MCSupplierSync ---------------------------
(***************************************************************************)
(* Instances of SupplierSync for TLC.                                      *)
(***************************************************************************)
EXTENDS SupplierSync

CONSTANTS s1, s2, s3, s4, own,  \* suppliers, and the product made by hand
          a, b, c, o            \* variant keys

\* The first supplier's product has two variants and its catalogue lists all
\* of them, one or none; the second's has one; the others have no product.
VariantKeys == [g \in {s1, s2, s3, s4, own} |->
                  CASE g = s1 -> {a, b} [] g = s2 -> {c} [] g = own -> {o} [] OTHER -> {}]
Catalogues  == [s \in {s1, s2, s3, s4} |->
                  CASE s = s1 -> {{}, {a}, {a, b}} [] s = s2 -> {{}, {c}} [] OTHER -> {{}}]

Archiving == {[as |-> "published", archive |-> TRUE]}

Shop(back, goodsOf, editedOf, n) ==
  [backend |-> back, goods |-> goodsOf, edited |-> editedOf, workers |-> 1 .. n]

\* Imports that overlap, an administrator who edits the imported product, a
\* product made by hand, and jobs of two suppliers, on both backends.
AllShops ==
  {Shop("sqlite", {s2}, {}, 2), Shop("sqlite", {s1}, {s1}, 1), Shop("d1", {s2}, {s2}, 1),
   Shop("sqlite", {own}, {own}, 1), Shop("d1", {own}, {own}, 1),
   Shop("sqlite", {s1, s3}, {}, 1), Shop("d1", {s3, s4}, {}, 2), Shop("d1", {s3, s4}, {}, 1)}

\* A job of two suppliers on SQLite, whose page one window keeps loading.
TwoSuppliersSqlite == {Shop("sqlite", {s3, s4}, {}, 1)}
=============================================================================
