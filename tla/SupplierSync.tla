---------------------------- MODULE SupplierSync ----------------------------
(***************************************************************************)
(* The import of supplier catalogues (app/services/supplier_catalog_sync)  *)
(* started by hand for one supplier, or for all of them by a background    *)
(* job (app/services/background_jobs) that takes one supplier per tick.    *)
(* Nothing schedules the ticks: the job's page makes one each time it is   *)
(* loaded, and reloads itself.                                             *)
(*                                                                         *)
(* A supplier's catalogue is one product, named by the supplier, with the  *)
(* importable variants of the moment; the rows are those of Catalog.       *)
(***************************************************************************)
EXTENDS Catalog

CONSTANTS Feeds,      \* the variant sets each supplier's catalogue may list
          Options,    \* import status and archive_missing of a sync
          Jobs,       \* job numbers, in order of created_at
          MaxCrashes, \* bound on requests that die
          None        \* an absent value

ASSUME SyncAssumption ==
  /\ DOMAIN Feeds = Suppliers
  /\ \A s \in Suppliers : Feeds[s] \subseteq SUBSET KeysOf[s]
  /\ Options \subseteq [as : {"draft", "published"}, archive : BOOLEAN]
  /\ Options # {} /\ MaxCrashes \in Nat
  /\ Jobs \subseteq Nat \ {0}
  /\ None \notin Suppliers
  /\ \A w \in Shops : w.workers \subseteq Nat

VARIABLES
  job,        \* BackgroundJob rows
  req,        \* the requests in progress, one for each worker of the shop
  crashes,    \* requests that have died
  \* History, read by the properties only:
  attempted,  \* suppliers a finished tick of each job has synchronised
  overlapped  \* two imports of one supplier have been under way at once

Workers    == DOMAIN req
AllWorkers == UNION {w.workers : w \in Shops}

syncVars == <<job, req, crashes, attempted, overlapped>>
vars == <<catalogVars, syncVars>>

Outcomes == {"none", "ok", "error"}
JobRow   == [status : {"none", "pending", "running", "completed", "failed"},
             results : [Suppliers -> Outcomes], done : 0 .. Cardinality(Suppliers),
             opts : Options]
NoResults == [s \in Suppliers |-> "none"]
NoJob     == [status |-> "none", results |-> NoResults, done |-> 0,
              opts |-> CHOOSE o \in Options : TRUE]

\* What a request's session holds: the job row it loaded, the supplier, the
\* catalogue, the copy and status of the product row found (copy 0: to be
\* created), and on D1 the variant rows found with their stock.
Idle == [at |-> "idle", job |-> 0, row |-> NoJob, sup |-> None, opts |-> NoJob.opts,
         feed |-> {}, copy |-> 0, was |-> "none", known |-> {},
         held |-> [v \in VRows |-> 0], outcome |-> "none"]

Stages == {"idle", "start", "tick", "find", "upsert", "write", "record"}

Active(j) == job[j].status \in {"pending", "running"}

\* get_active_supplier_sync_job: the most recent one.
ActiveJob == LET active == {j \in Jobs : Active(j)}
             IN IF active = {} THEN 0 ELSE Max(active)

\* list_syncable_suppliers
Syncable == goods \cap Suppliers

\* pending_ids, and pending_ids[0] in the registry's order.
PendingIds(results)   == {s \in Syncable : results[s] = "none"}
NextSupplier(results) == CHOOSE s \in Syncable : results[s] = "none"

-----------------------------------------------------------------------------
(* sync_supplier_catalog                                                   *)

\* _find_product_by_external_key and _find_variant_by_external_key raise when
\* two rows have the key.
ProductsWithKey(s) == {c \in Copies : product[<<s, c>>].status # "none"}
VariantsWithKey(k) == {v \in {k} \X Copies : variant[v].status # "none"}
OnlyOne(k)         == Cardinality(VariantsWithKey(k)) <= 1
FreeCopies(s)      == {c \in Copies : product[<<s, c>>].status = "none"}
FreeRows(k)        == {i \in Copies : variant[<<k, i>>].status = "none"}

Listed(feed) == {v \in VRows : v[1] \in feed /\ variant[v].status # "none"}

\* The rows the import takes for the catalogue's variants.
Known(q) == IF backend = "d1" THEN q.known ELSE Listed(q.feed)

\* The rows where the variants no row is known of are inserted.
NewRows(keys, known) ==
  {<<k, Min(FreeRows(k) \cup {3})>> : k \in keys \ {v[1] : v \in known}}

\* Faulty form: a known variant takes the stock of the catalogue.
UpsertedRestocked(q, keys, copy) ==
  LET known == Known(q)
      new   == NewRows(keys, known)
  IN [v \in VRows |->
        IF v \in new \/ (v \in known /\ v[1] \in keys)
        THEN [status |-> "active", of |-> copy, stock |-> CatalogStock]
        ELSE variant[v]]

\* _upsert_variant for the variants keys: a known row becomes active and keeps
\* its stock (on D1 the stock the session loaded), an unknown one is inserted
\* with the stock of the catalogue.
Upserted(q, keys, copy) ==
  LET known == Known(q)
      new   == NewRows(keys, known)
  IN [v \in VRows |->
        IF v \in new THEN [status |-> "active", of |-> copy, stock |-> CatalogStock]
        ELSE IF v \in known /\ v[1] \in keys /\ variant[v].status # "none"
        THEN [variant[v] EXCEPT !.status = "active",
                                !.stock = IF backend = "d1" THEN q.held[v] ELSE @]
        ELSE variant[v]]

\* archive_missing: the supplier's variants the catalogue does not list.
ArchiveMissing(q, rows) ==
  [v \in VRows |-> IF /\ q.opts.archive
                      /\ v[1] \in KeysOf[q.sup] \ q.feed
                      /\ rows[v].status = "active"
                   THEN [rows[v] EXCEPT !.status = "archived"] ELSE rows[v]]

\* _upsert_catalog_product on the product row: an archived product gets the
\* import status again; an UPDATE on D1 restores the status that was loaded.
Revived(r, q) == IF q.was = "archived" THEN q.opts.as
                 ELSE IF backend = "d1" \/ product[r].status = "none" THEN q.was
                 ELSE product[r].status

LosesVariant(r, rows) ==
  \E v \in VariantsOf(r, rows) : variant[v].status = "active" /\ rows[v].status = "archived"

\* Faulty form: the rows are read before the archived ones are flushed.
ProductAfterUnflushed(r, q, copy, rows, seen) ==
  IF LosesVariant(r, rows) THEN [product[r] EXCEPT !.shown = ListingStock(r, variant)]
  ELSE IF q.feed # {} /\ r = <<q.sup, copy>>
       THEN [status |-> Revived(r, q), shown |-> ListingStock(r, seen)]
       ELSE product[r]

\* The product row after the import.  A product that loses a variant has its
\* listing computed again, and is archived with its last active one.  On D1 the
\* rows read for that are the stored ones, not yet the changed ones, and the
\* product row read with them overwrites the upserted one.
ProductAfter(r, q, copy, rows, seen) ==
  LET upserted == q.feed # {} /\ r = <<q.sup, copy>>
      status   == IF upserted THEN Revived(r, q) ELSE product[r].status
  IN IF LosesVariant(r, rows) /\ backend = "d1"
     THEN [product[r] EXCEPT !.shown = ListingStock(r, variant)]
     ELSE IF LosesVariant(r, rows)
     THEN [status |-> IF ActiveVariants(r, rows) = {} THEN "archived" ELSE status,
           shown  |-> ListingStock(r, rows)]
     ELSE IF upserted THEN [status |-> status, shown |-> ListingStock(r, seen)]
     ELSE product[r]

\* The copy the product row has or, on SQLite, is inserted as.
CopyOf(q) == IF q.copy = 0 THEN Min(FreeCopies(q.sup) \cup {2}) ELSE q.copy

Writable(q) ==
  \/ q.feed = {}
  \/ /\ IF q.copy = 0 THEN FreeCopies(q.sup) # {}
                      ELSE product[<<q.sup, q.copy>>].status # "none"
     /\ \A k \in q.feed : k \in {w[1] : w \in Known(q)} \/ FreeRows(k) # {}

\* The whole import, to its commit.  On D1 the listing is computed from stored
\* rows: inserted variants are among them, updated ones are if a later insert
\* flushed them.
ImportAll(q) ==
  LET copy  == CopyOf(q)
      fresh == [v \in VRows |-> IF variant[v].status = "none" THEN variant'[v] ELSE variant[v]]
  IN /\ Writable(q)
     /\ backend = "sqlite" => \A k \in q.feed : OnlyOne(k)
     /\ \E rows \in {Upserted(q, q.feed, copy)} : variant' = ArchiveMissing(q, rows)
     /\ \E seen \in {variant'} \cup (IF backend = "d1" THEN {fresh} ELSE {}) :
          product' = [r \in PRows |-> ProductAfter(r, q, copy, variant', seen)]

\* The import raises part of the way (an image cannot be stored, two rows have
\* a key): the callers swallow the exception, and the variants done so far are
\* committed without a listing.
ImportPart(q) ==
  LET copy == CopyOf(q)
      r    == <<q.sup, copy>>
  IN /\ Writable(q)
     /\ q.feed # {}
     /\ \E keys \in (SUBSET q.feed) \ {q.feed} :
          /\ \A k \in keys : OnlyOne(k)
          /\ variant' = Upserted(q, keys, copy)
     /\ product' = IF backend = "d1" THEN product
                   ELSE [product EXCEPT ![r].status = Revived(r, q)]

\* The request goes on to the job's record, or has ended.
Ended(p, outcome) ==
  req' = [req EXCEPT ![p] = IF @.job = 0 THEN Idle
                            ELSE [@ EXCEPT !.at = "record", !.outcome = outcome]]

\* Faulty form: an archived product is not looked for, and imported again.
FoundUnarchived(q, feed) ==
  LET copies == {c \in ProductsWithKey(q.sup) : product[<<q.sup, c>>].status # "archived"}
      copy   == IF copies = {} \/ feed = {} THEN 0 ELSE Min(copies)
  IN [q EXCEPT !.feed = feed, !.copy = copy,
               !.was = IF copy = 0 THEN q.opts.as ELSE product[<<q.sup, copy>>].status]

\* The first reads of an import: the catalogue, and the product row of its key.
Found(q, feed) ==
  LET copies == ProductsWithKey(q.sup)
      copy   == IF copies = {} \/ feed = {} THEN 0 ELSE Min(copies)
  IN [q EXCEPT !.feed = feed, !.copy = copy,
               !.was = IF copy = 0 THEN q.opts.as ELSE product[<<q.sup, copy>>].status]
Findable(q, feed) == feed = {} \/ Cardinality(ProductsWithKey(q.sup)) <= 1

\* A sync outside the active job is refused.
MaySync(q) == ActiveJob \in {0, q.job}

\* Another request has looked up the rows of this one's supplier.
Overlaps(p) == \E q \in Workers \ {p} : /\ req[q].sup = req[p].sup
                                        /\ req[q].at \in {"upsert", "write"}

SyncFind(p) ==
  /\ req[p].at = "find"
  /\ MaySync(req[p])
  /\ \E feed \in Feeds[req[p].sup] :
       /\ Findable(req[p], feed)
       /\ req' = [req EXCEPT ![p] = [Found(req[p], feed) EXCEPT !.at = "upsert"]]
  /\ overlapped' = (overlapped \/ Overlaps(p))
  /\ UNCHANGED <<catalogVars, job, crashes, attempted>>

\* Another job is active, the supplier is disabled, its catalogue cannot be
\* fetched, two rows have a key, rows the session holds are gone, or the
\* database refuses the write.
SyncFail(p) ==
  /\ req[p].at \in {"find", "upsert", "write"}
  /\ Ended(p, "error")
  /\ UNCHANGED <<catalogVars, job, crashes, attempted, overlapped>>

\* On D1 a new product is flushed before its variants are looked up.
SyncLoad(p) ==
  LET q == req[p]
  IN /\ backend = "d1"
     /\ q.at = "upsert"
     /\ \A k \in q.feed : OnlyOne(k)
     /\ q.feed # {} /\ q.copy = 0 => FreeCopies(q.sup) # {}
     /\ product' = IF q.feed = {} \/ q.copy # 0 THEN product
                   ELSE [product EXCEPT ![<<q.sup, CopyOf(q)>>] =
                                          [status |-> q.opts.as, shown |-> 0]]
     /\ req' = [req EXCEPT ![p] = [q EXCEPT !.at = "write",
                  !.copy  = IF q.feed = {} THEN 0 ELSE CopyOf(q),
                  !.known = Listed(q.feed),
                  !.held  = [v \in VRows |-> variant[v].stock]]]
     /\ UNCHANGED <<shop, variant, taken, ordered, form, job, crashes, attempted, overlapped>>

\* A failing after_catalog_sync hook is an error of a sync that was committed.
SyncWrite(p) ==
  /\ req[p].at = IF backend = "d1" THEN "write" ELSE "upsert"
  /\ \E outcome \in {"ok", "error"} : Ended(p, outcome)
  /\ ImportAll(req[p])
  /\ UNCHANGED <<shop, taken, ordered, form, job, crashes, attempted, overlapped>>

SyncBreak(p) ==
  /\ req[p].at = IF backend = "d1" THEN "write" ELSE "upsert"
  /\ Ended(p, "error")
  /\ ImportPart(req[p])
  /\ UNCHANGED <<shop, taken, ordered, form, job, crashes, attempted, overlapped>>

\* The "Sync" button of one supplier (addons/suppliers/shared_routes.py).
ManualSync(p, s, opts) ==
  /\ req[p] = Idle
  /\ s \in goods
  /\ req' = [req EXCEPT ![p] = [Idle EXCEPT !.at = "find", !.sup = s, !.opts = opts]]
  /\ UNCHANGED <<catalogVars, job, crashes, attempted, overlapped>>

-----------------------------------------------------------------------------
(* Background jobs                                                         *)

\* admin_suppliers_sync_all finds no active job ...
StartRead(p, opts) ==
  /\ req[p] = Idle
  /\ ActiveJob = 0
  /\ Syncable # {}
  /\ req' = [req EXCEPT ![p] = [Idle EXCEPT !.at = "start", !.opts = opts]]
  /\ UNCHANGED <<catalogVars, job, crashes, attempted, overlapped>>

\* ... and start_supplier_catalog_sync_job inserts one.
StartWrite(p) ==
  LET unused == {j \in Jobs : job[j].status = "none"}
  IN /\ req[p].at = "start"
     /\ unused # {}
     /\ job' = [job EXCEPT ![Min(unused)] = [NoJob EXCEPT !.status = "pending",
                                                          !.opts = req[p].opts]]
     /\ req' = [req EXCEPT ![p] = Idle]
     /\ UNCHANGED <<catalogVars, crashes, attempted, overlapped>>

\* admin_job_status, up to tick_supplier_catalog_sync_job's own reads.
TickLoad(p, j) ==
  /\ req[p] = Idle
  /\ Active(j)
  /\ req' = [req EXCEPT ![p] =
               [Idle EXCEPT !.at = "tick", !.job = j, !.row = job[j], !.opts = job[j].opts,
                            !.sup = IF PendingIds(job[j].results) = {} THEN None
                                    ELSE NextSupplier(job[j].results)]]
  /\ UNCHANGED <<catalogVars, job, crashes, attempted, overlapped>>

\* On D1 the flush before the sync stores the whole row that was loaded.
TickMark(p) ==
  LET j   == req[p].job
      row == req[p].row
  IN /\ backend = "d1"
     /\ req[p].at = "tick"
     /\ IF PendingIds(row.results) = {}
        THEN /\ job' = [job EXCEPT ![j] = [row EXCEPT !.status = "completed",
                                                      !.done = Cardinality(Syncable)]]
             /\ req' = [req EXCEPT ![p] = Idle]
        ELSE /\ job' = [job EXCEPT ![j] = [row EXCEPT !.status = "running"]]
             /\ req' = [req EXCEPT ![p].at = "find"]
     /\ UNCHANGED <<catalogVars, crashes, attempted, overlapped>>

\* On SQLite that flush takes the write lock, and the sync's commit releases
\* it: the mark and the import are one step.
TickImport(p) ==
  LET j == req[p].job
      q == req[p]
  IN /\ backend = "sqlite"
     /\ q.at = "tick"
     /\ MaySync(q)
     /\ job' = [job EXCEPT ![j].status = IF @ = "pending" THEN "running" ELSE @,
                           ![j].results = q.row.results]
     /\ \E feed \in Feeds[q.sup] :
          /\ Findable(q, feed)
          /\ \/ (\E outcome \in {"ok", "error"} : Ended(p, outcome)) /\ ImportAll(Found(q, feed))
             \/ Ended(p, "error") /\ ImportPart(Found(q, feed))
     /\ overlapped' = (overlapped \/ Overlaps(p))
     /\ UNCHANGED <<shop, taken, ordered, form, crashes, attempted>>

\* A sync that fails leaves the lock to the tick's own commit.
TickFail(p) ==
  /\ backend = "sqlite"
  /\ req[p].at = "tick"
  /\ Ended(p, "error")
  /\ UNCHANGED <<catalogVars, job, crashes, attempted, overlapped>>

Finished(results) ==
  IF \A s \in Syncable : results[s] = "error" THEN "failed" ELSE "completed"

\* Faulty form: done counts the supplier being synchronised from the start.
DoneEarly(row) == row.done + 2

\* Faulty form: the supplier is not counted.
DoneUncounted(row) == row.done

\* done += 1
Done(row) == row.done + 1

\* The end of the tick.  The dict it stores is the one the flush before the sync
\* has stored, changed in place: SQLAlchemy sees no change, so on SQLite only
\* the status is written.  On D1 mark_instance_dirty makes it a whole row.
TickRecord(p) ==
  LET q       == req[p]
      j       == q.job
      results == [q.row.results EXCEPT ![q.sup] = q.outcome]
      done    == Done(q.row)
      ended   == done >= Cardinality(Syncable)
  IN /\ q.at = "record"
     /\ job' = IF backend = "d1"
               THEN [job EXCEPT ![j] = [q.row EXCEPT
                       !.status = IF ended THEN Finished(results) ELSE "running",
                       !.results = results, !.done = Min({done, Cardinality(Syncable)})]]
               ELSE [job EXCEPT ![j].status = IF ended THEN Finished(results)
                                              ELSE IF @ = "pending" THEN "running" ELSE @]
     /\ attempted' = [attempted EXCEPT ![j] = @ \cup {q.sup}]
     /\ req' = [req EXCEPT ![p] = Idle]
     /\ UNCHANGED <<catalogVars, crashes, overlapped>>

\* The worker dies: what its session had not committed is lost.
Crash(p) ==
  /\ req[p] # Idle
  /\ crashes < MaxCrashes
  /\ crashes' = crashes + 1
  /\ req' = [req EXCEPT ![p] = Idle]
  /\ UNCHANGED <<catalogVars, job, attempted, overlapped>>

-----------------------------------------------------------------------------
Init ==
  /\ CatalogInit
  /\ job = [j \in Jobs |-> NoJob]
  /\ req = [p \in shop.workers |-> Idle]
  /\ crashes = 0
  /\ attempted = [j \in Jobs |-> {}]
  /\ overlapped = FALSE

\* One step of a request in progress.
Work(p) == \/ SyncFail(p) \/ SyncFind(p) \/ SyncLoad(p) \/ SyncWrite(p) \/ SyncBreak(p)
           \/ StartWrite(p)
           \/ TickFail(p) \/ TickMark(p) \/ TickImport(p) \/ TickRecord(p)

Next ==
  \/ CatalogNext /\ UNCHANGED syncVars
  \/ \E p \in Workers :
       \/ Work(p)
       \/ Crash(p)
       \/ \E s \in Suppliers, opts \in Options : ManualSync(p, s, opts)
       \/ \E opts \in Options : StartRead(p, opts)
       \/ \E j \in Jobs : TickLoad(p, j)

\* A request in progress goes on, and the page of a job that has not ended is
\* loaded again and again.
Fairness ==
  /\ \A p \in AllWorkers : WF_vars(p \in Workers /\ Work(p))
  /\ \A j \in Jobs : SF_vars(\E p \in Workers : TickLoad(p, j))

Spec == Init /\ [][Next]_vars /\ Fairness

-----------------------------------------------------------------------------
(* Properties                                                              *)

TypeOK ==
  /\ CatalogTypeOK
  /\ job \in [Jobs -> JobRow]
  /\ Workers = shop.workers
  /\ \A p \in Workers : /\ req[p].at \in Stages
                      /\ req[p].job \in Jobs \cup {0}
                      /\ req[p].sup \in Suppliers \cup {None}
                      /\ req[p].copy \in Copies \cup {0}
                      /\ req[p].known \subseteq VRows
  /\ crashes \in 0 .. MaxCrashes
  /\ attempted \in [Jobs -> SUBSET Suppliers]
  /\ overlapped \in BOOLEAN

\* On SQLite the stock of an imported variant is what its catalogue gave less
\* what orders hold, whatever imports, product forms and orders run at once:
\* an import reads a variant's row and never writes its stock.
StockKept ==
  backend = "sqlite" =>
    \A v \in VRows : GoodOf(v[1]) \in Suppliers /\ variant[v].status # "none"
                       => variant[v].stock + taken[v] = CatalogStock

\* Imports that never overlapped leave one product row and one variant row per
\* external key, though imports broke off half done and requests died.
OneRowPerKey ==
  ~overlapped => /\ \A s \in Suppliers : Cardinality(ProductsWithKey(s)) <= 1
                 /\ \A k \in Keys : OnlyOne(k)

\* A job that has ended has tried every supplier, whichever ticks overlapped.
EndedJobTriedAll ==
  \A j \in Jobs : job[j].status \in {"completed", "failed"} => attempted[j] = Syncable

\* On SQLite an import leaves the shop's listing right in the commit that ends it:
\* a product that loses its last active variant is archived, and the product it
\* upserts shows the stock of its active variants, though its listing was stale
\* before (an order's decrement leaves it so).
ImportListsRight ==
  [][backend = "sqlite" =>
       /\ \A r \in PRows : /\ r[1] \in Suppliers
                          /\ ActiveVariants(r, variant) # {}
                          /\ ActiveVariants(r, variant') = {}
                          /\ VariantsOf(r, variant') # {}
            => product'[r].status = "archived"
       /\ \A p \in Workers : /\ req[p].at = "upsert" /\ req[p].feed # {}
                            /\ SyncWrite(p)
            => LET r == <<req[p].sup, CopyOf(req[p])>>
               IN product'[r].shown = ListingStock(r, variant')]_vars

\* A job whose page stays open ends when it has a single supplier, and on D1
\* with more of them when no two ticks overlap.
JobEnds ==
  Cardinality(Syncable) = 1 \/ (backend = "d1" /\ Cardinality(Workers) = 1) =>
    \A j \in Jobs : job[j].status = "pending" ~> job[j].status \in {"completed", "failed"}

\* background_jobs.py:133, "Process the next supplier in a catalog sync job":
\* a tick does not take a supplier an earlier tick of the job has finished.
TickTakesNext ==
  [][\A p \in Workers : TickImport(p) => req[p].sup \notin attempted[req[p].job]]_vars
=============================================================================
