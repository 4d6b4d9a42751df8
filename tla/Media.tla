------------------------------- MODULE Media --------------------------------
(***************************************************************************)
(* Product images and the shop's logo: files in the storage and the rows   *)
(* that point to them, which no transaction covers together.               *)
(*                                                                         *)
(* A product image has a file of each size under names of its own, whether *)
(* an administrator uploads it or a supplier's catalogue lists it.  The    *)
(* logo (or the favicon) has one file under a fixed name.                  *)
(***************************************************************************)
EXTENDS Server

CONSTANTS Images,     \* product images that may be stored, each once
          Logo,
          Sizes,      \* the sizes of a product image
          Editors     \* requests that change images at a time

ASSUME MediaAssumption == Logo \notin Images /\ Sizes # {} /\ "none" \notin Images \cup {Logo}

VARIABLES
  files,   \* <<asset, size>> of the files stored
  rows,    \* assets a row points to
  edit,    \* the request in progress of each editor
  fresh,   \* images not taken yet
  \* History, read by the properties only:
  spoilt   \* assets a request left half done or two requests changed at once

mediaVars == <<files, rows, edit, fresh, spoilt>>

Assets   == Images \cup {Logo}
Files(a) == IF a = Logo THEN {<<Logo, CHOOSE s \in Sizes : TRUE>>} ELSE {a} \X Sizes

\* A request: the asset at hand, its files still to do; the images an import has
\* still to look at, and those whose rows wait for its commit.
NoEdit == [op |-> "none", a |-> "none", todo |-> {}, next |-> {}, flushed |-> {}]

EditBegin(p, op, a, todo) ==
  /\ edit[p] = NoEdit
  /\ edit' = [edit EXCEPT ![p] = [NoEdit EXCEPT !.op = op, !.a = a, !.todo = todo]]
  /\ spoilt' = IF \E q \in Editors : edit[q].a = a THEN spoilt \cup {a} ELSE spoilt

\* upload_product_image, once the picture is processed
UploadImage(p, a) ==
  /\ a \in fresh
  /\ EditBegin(p, "store", a, Files(a))
  /\ fresh' = fresh \ {a}
  /\ UNCHANGED <<files, rows>>

\* The file the settings' row points to, which the fixed name makes the shop's own.
OldLogo == IF Logo \in rows THEN Files(Logo) ELSE {}

\* _save_branding_asset: the old file is deleted before the new one is looked at.
UploadLogo(p) ==
  /\ EditBegin(p, "store", Logo, Files(Logo))
  /\ files' = files \ OldLogo
  /\ UNCHANGED <<rows, fresh>>

\* import_images_from_urls, for the pictures a catalogue lists
ImportImages(p, list) ==
  /\ edit[p] = NoEdit
  /\ edit' = [edit EXCEPT ![p] = [NoEdit EXCEPT !.op = "import", !.next = list]]
  /\ fresh' = fresh \ list
  /\ UNCHANGED <<files, rows, spoilt>>

\* download_remote_image: one that cannot be had is passed over.
DownloadImage(p, a) ==
  /\ edit[p].op = "import" /\ edit[p].a = "none" /\ a \in edit[p].next
  /\ \/ edit' = [edit EXCEPT ![p].next = @ \ {a}, ![p].a = a, ![p].todo = Files(a)]
     \/ edit' = [edit EXCEPT ![p].next = @ \ {a}]
  /\ UNCHANGED <<files, rows, fresh, spoilt>>

Store(p) ==
  /\ \E f \in edit[p].todo :
       /\ files' = files \cup {f}
       /\ edit' = [edit EXCEPT ![p].todo = @ \ {f}]
  /\ UNCHANGED <<rows, fresh, spoilt>>

\* storage.upload of one size of a product image
StoreOne(p) == edit[p].op \in {"store", "import"} /\ edit[p].a # Logo /\ Store(p)

\* upload_branding_asset, if the picture can be processed
StoreLogo(p) == edit[p].op = "store" /\ edit[p].a = Logo /\ Store(p)

\* Faulty form: the row does not wait for the last file.
AllStoredButOne(p) == Cardinality(edit[p].todo) <= 1

\* Every file is stored.
AllStored(p) == edit[p].todo = {}

\* The row and the commit.
StoreRow(p) ==
  /\ edit[p].op = "store" /\ AllStored(p)
  /\ rows' = rows \cup {edit[p].a}
  /\ edit' = [edit EXCEPT ![p] = NoEdit]
  /\ UNCHANGED <<files, fresh, spoilt>>

\* The row of an imported image is flushed, which on D1 stores it.
StoreImported(p) ==
  /\ edit[p].op = "import" /\ edit[p].a # "none" /\ AllStored(p)
  /\ rows' = IF shop.backend = "d1" THEN rows \cup {edit[p].a} ELSE rows
  /\ edit' = [edit EXCEPT ![p].a = "none", ![p].flushed = @ \cup {edit[p].a}]
  /\ UNCHANGED <<files, fresh, spoilt>>

\* The sync's commit, after the last image; or its caller's, after one that could
\* not be processed or stored: the exception is swallowed.  On D1 the rows are there
\* already, or someone has deleted them since.
ImportCommit(p) ==
  /\ edit[p].op = "import"
  /\ rows' = IF shop.backend = "d1" THEN rows ELSE rows \cup edit[p].flushed
  /\ edit' = [edit EXCEPT ![p] = NoEdit]
  /\ UNCHANGED <<files, fresh, spoilt>>

\* delete_product_image and _clear_branding_asset
Delete(p, a) ==
  /\ a \in rows
  /\ EditBegin(p, "delete", a, Files(a))
  /\ UNCHANGED <<files, rows, fresh>>

\* One file; a storage that refuses leaves it there.
DeleteOne(p) ==
  /\ edit[p].op = "delete"
  /\ \E f \in edit[p].todo :
       /\ files' \in {files, files \ {f}}
       /\ edit' = [edit EXCEPT ![p].todo = @ \ {f}]
  /\ UNCHANGED <<rows, fresh, spoilt>>

\* The row goes with the commit, after the files.
DeleteRow(p) ==
  /\ edit[p].op = "delete" /\ edit[p].todo = {}
  /\ rows' = rows \ {edit[p].a}
  /\ edit' = [edit EXCEPT ![p] = NoEdit]
  /\ UNCHANGED <<files, fresh, spoilt>>

\* What a request that stops leaves behind: files without a row do no harm, a row
\* without its files does.
LeftBehind(p) == {a \in Assets : edit[p].a = a /\ (edit[p].op = "delete" \/ a = Logo)}

\* The picture or the storage is refused, or the commit fails.
EditFails(p) ==
  /\ edit[p] # NoEdit
  /\ spoilt' = spoilt \cup LeftBehind(p)
  /\ edit' = [edit EXCEPT ![p] = NoEdit]
  /\ UNCHANGED <<files, rows, fresh>>

\* The process ends.
DropEdits ==
  /\ spoilt' = spoilt \cup UNION {LeftBehind(p) : p \in Editors}
  /\ edit' = [p \in Editors |-> NoEdit]
  /\ UNCHANGED <<files, rows, fresh>>

MediaInit ==
  /\ files = {}
  /\ rows = {}
  /\ edit = [p \in Editors |-> NoEdit]
  /\ fresh = shop.images
  /\ spoilt = {}

MediaStep ==
  \E p \in shop.editors :
    \/ UploadLogo(p) \/ StoreOne(p) \/ StoreLogo(p) \/ StoreRow(p) \/ StoreImported(p) \/ ImportCommit(p)
    \/ DeleteOne(p) \/ DeleteRow(p) \/ EditFails(p)
    \/ \E a \in Assets : UploadImage(p, a) \/ DownloadImage(p, a) \/ Delete(p, a)
    \/ \E list \in SUBSET fresh \ {{}} : ImportImages(p, list)

-----------------------------------------------------------------------------
(* Properties *)

MediaTypeOK ==
  /\ files \subseteq UNION {Files(a) : a \in Assets}
  /\ rows \subseteq Assets
  /\ \A p \in Editors : /\ edit[p].op \in {"none", "store", "import", "delete"}
                         /\ edit[p].a \in Assets \cup {"none"}
                         /\ edit[p].todo # {} => edit[p].todo \subseteq Files(edit[p].a)
                         /\ edit[p].next \cup edit[p].flushed \subseteq Images
  /\ fresh \subseteq Images

\* A row points to files that are all there, though uploads and imports fail half
\* way: apart from rows being deleted or replaced, and from those whose deletion
\* or replacement stopped or met another.
MediaServed ==
  \A a \in rows \ spoilt : (\A p \in Editors : edit[p].a # a) => Files(a) \subseteq files
=============================================================================
