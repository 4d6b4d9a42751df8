# A TLA+ model of Oshkelosh

Oshkelosh is a FastAPI shop: customers fill carts, place orders, pay at a payment provider (PSP) and are
supplied by drop-shipping suppliers; administrators manage orders, products, categories, settings and addons;
scheduled jobs clean up, remind and synchronise; the server is updated and extended while it is in use. This
directory holds TLA+ modules of its core logic, TLC configurations that check them on small instances, and TLAPS
proofs that hold for every instance.

| files | what they are |
|---|---|
| `OrderContract.tla` | abstract specification: what the shop promises about an order |
| `Orders.tla`, `MCOrders.tla`, `MCOrders_*.cfg` | the order desk on SQLite, as the code runs it |
| `Catalog.tla`, `SupplierSync.tla`, `MCSupplierSync.tla`, `MCSupplierSync_*.cfg` | products and variants; imports from suppliers and background jobs |
| `Accounts.tla`, `MCAccounts.tla`, `MCAccounts_links.cfg` | accounts, links, sign-on and the first-run setup |
| `Server.tla`, `Archives.tla` | the server process, its migrations, its packages and the watcher; which archives are accepted |
| `Addons.tla`, `Messages.tla`, `Fulfilment.tla` | the addon registry and what is sent through it: messages, orders to suppliers |
| `Settings.tla`, `Pricing.tla` | the settings form, and tax and shipping as operators |
| `Cart.tla`, `Reminders.tla` | carts and the orders made of them on both backends; the abandoned-cart job |
| `Webhooks.tla`, `Media.tla` | the outbound webhook receiver; image files and the rows that name them |
| `Shelves.tla`, `Pages.tla` | categories, slugs and status of products; what the public sees of them |
| `D1Session.tla` | the session over D1's HTTP interface |
| `Shop.tla`, `MCShop.tla`, `MCShop_*.cfg` | the composition of everything from `Server.tla` on |
| `Orders_proofs.tla` | theorems about the order desk: under any overlap; without overlap on one order, with the refinement |
| `FiniteSums.tla` | induction over numbers and finite sets in first-order form, and sums over finite sets |
| `Accounts_proofs.tla`, `SupplierSync_proofs.tla` | theorems about accounts; about imports and jobs |
| `Server_proofs.tla`, `Store_proofs.tla`, `Shelves_proofs.tla`, `Cart_proofs.tla` | theorems about `Shop`: server and addons; packages, parcels, webhooks, files, D1 sessions and the types of all; categories, products and pages; carts, charges and reminders |
| `PROJECT.json` | components, runs, mutants, code map, findings, hazards, theorems |

In this directory, `tlc -config MCOrders_stock.cfg MCOrders` runs a configuration and `tlapm Orders_proofs.tla` checks
a module of proofs.

## 1. Inventory

### The system's parts

For each part: its state, its operations, and when it is correct.

* **Order lifecycle** (`services/commerce.py`, `api/v1/routers/orders.py`, `admin/routes/orders.py`). State: rows
  of `orders` and `order_items`. Operations: create from the cart, start checkout, cancel (customer), change status
  (admin). Statuses move along `VALID_TRANSITIONS`; entering *cancelled* from *pending* or *paid* returns stock,
  entering *paid* counts sales and calls suppliers. Correct when stock, counters and supplier orders agree with the
  statuses, whatever path an order took. `Orders`, `OrderContract`.
* **Stock reservation** (`services/commerce.py`, `services/product_variants.py`). State:
  `product_variants.inventory_quantity`. Raw SQL decrements guarded by the level, raw SQL increments. Correct when
  no unit is oversold, lost or made. `Orders` (SQLite), `Cart` (both backends), `Catalog` (with the stock an
  administrator types).
* **Sales counters** (`services/product_popularity.py`). State: `products.units_sold`. `Orders`.
* **Order idempotency** (`services/order_idempotency.py`). State: one row per user and key, unique, ignored by the
  lookup after a time to live but never deleted. Correct when one key makes one order. `Orders`.
* **Payments** (`services/payment_checkout.py`, `payment_webhooks.py`, `payments.py`,
  `addons/payments/shared_routes.py`). State: `orders.payment_*`, `processed_webhook_events`, and the PSP's
  sessions. Correct when money that arrived is never unmentioned and never moves the wrong order. `Orders`.
* **Stale-order sweep** (`services/pending_order_cleanup.py`; called at startup by `main.py` and by
  `POST /api/v1/admin/jobs/pending-orders`). Correct when abandoned orders give their stock back and charged ones
  are not cancelled. `Orders`.
* **Supplier fulfilment** (`services/fulfillment.py`, the built-in `addons/suppliers/manual`). State:
  `orders.supplier_orders`, `orders.notes`, and the suppliers' own orders. Correct when each shipping group of an
  order is ordered once and its record tells what happened. `Orders` (one group), `Fulfilment` (several).
* **Catalogue** (`services/product_variants.py`, `product_defaults.py`, `admin/routes/products.py`). State:
  products, variants and the listing fields (shown stock, in stock) computed from the variants. Correct when the
  listing fields follow the variants and no one's stock is overwritten. `Catalog`.
* **Supplier sync and background jobs** (`services/supplier_catalog_sync.py`, `background_jobs.py`). State: rows
  upserted by external key, and a job row whose progress a page advances by one supplier each time it is loaded.
  Correct when keys stay unique, stock survives, and a job tries every supplier and ends. `SupplierSync`.
* **Categories, slugs and what is public** (`services/categories.py`, `product_slugs.py`, `storefront/seo.py`,
  `seo_routes.py`, the API's lists). State: category rows with their parents, each product's slug, status and
  category. Correct when the tree shows every category and all public views agree. `Shelves`, `Pages`.
* **Accounts, tokens and setup** (`api/v1/routers/auth.py`, `services/user_accounts.py`, `sso_accounts.py`,
  `bootstrap.py`, `setup/routes.py`, `admin/routes/users.py`). State: user rows, links in mails, and the flag of the
  setup middleware in each process. Correct when there is one administrator, links work once, and no request undoes
  another's column. `Accounts`.
* **Server, installation and migrations** (`main.py`, `db/migrations.py`, `services/addon_install.py`,
  `host_update.py`, `scripts/watch_addon_restart.py`). State: files, backups, a flag file, schema versions, and what
  each process has loaded. Correct when no version of a package is lost, what was installed comes to run, and a
  server that answers is migrated. `Server`, `Archives`.
* **Addon registry and configuration** (`addons/registry.py`, `services/addons.py`). State: addons in memory and
  `addon_configs`. Correct when both agree, one addon holds each exclusive claim, and secrets in use were accepted.
  `Addons`.
* **Messages** (`services/notification_dispatch.py`, `notification_templates.py`). State: templates switched off or on
  per event and channel. `Messages`.
* **Carts, pricing and settings** (`api/v1/routers/cart.py`, `services/checkout_pricing.py`, `services/pricing/*`,
  `site_settings.py`). State: cart lines; the settings row. Correct when a cart holds what the answers said and an
  order costs what the last quote said. `Cart`, `Pricing`, `Settings`.
* **Abandoned carts** (`services/abandoned_cart.py`). State: reminder counts of the carts. `Reminders`.
* **Outbound webhooks** (`services/outbound_webhooks.py`). State: the endpoint row with its secret. `Webhooks`.
* **Images and branding** (`services/product_images.py`, `branding_assets.py`). State: files and rows. Correct when
  a row names files that are there. `Media`.
* **Database sessions**: SQLite (`db/connection.py`) and D1 (`db/backends/d1_http_session.py`), two backends with
  different atomicity behind one interface. `D1Session`, and the shape of every other module.
* **Middleware and rate limits**: request identifiers, error envelopes, limits kept by a library. Not modelled.

### How they interact

Every HTTP handler and every job runs in one database session; handlers share only the database, the files, the
addon registry in memory and the outside world. Order creation reads cart, variants and key rows and writes order,
items, stock and key row. Checkout reprices, calls the PSP and stores the session id. The PSP calls the webhook,
which pays the order through `apply_order_status_change`, which calls the suppliers from inside the transaction. The
sweep reads orders, asks the PSP, and takes the same two paths. Imports and the product form write the rows that
reservations decrement. The settings decide prices and reminders; the registry decides which processor, sender and
supplier answers; templates decide what is sent. An installation occupies the event loop, replaces files and leaves a
flag; the watcher restarts the server, which ends every request, discovers packages, migrates and loads the registry
from its table.

### What is hard

* Checks are made on rows that were loaded before the write lock is held; on D1 there is no lock and no transaction
  around a request, a whole row goes back, and a change that was not marked is not stored.
* Calls to the PSP, suppliers and mail servers happen inside transactions that may still roll back.
* Webhooks come late, twice or never, and their claim commits before their effect.
* The payment id of an order is overwritten by every checkout; an idempotency row outlives its own time to live.
* A job's progress lives in a JSON column that every tick rewrites.
* Memory, table and files (the registry, `addon_configs`, the packages) change one after the other.
* The process may die between any two of these.

`PROJECT.json` lists the hazards at their lines with the properties that would catch them.

## 2. How the model is laid out

Four specifications are checked on their own:

* `Orders` (INSTANCEd against `OrderContract`), the life of an order on SQLite, where most overlap is;
* `SupplierSync`, which extends `Catalog`;
* `Accounts`;
* `Shop`, which composes the server process with everything that lives or dies with it.

`Shop` extends `Addons -> Messages`, `Settings` (with `Pricing`), `Cart -> Reminders`, `Webhooks`, `Media`,
`Shelves -> Pages`, `Fulfilment`, `Archives` and `D1Session`, all of which extend `Server`. Each module declares its
variables, its actions, a `...Init`, a `...Step` and a `Drop...` (what the end of the process does to its requests);
`Shop!Next` puts them together:

* a request makes a step only while the server is up and no installation holds its event loop;
* `Start` (the service manager, or the watcher's command) happens together with `Discover`, which decides what package
  is registered under each id; `Serve` (the lifespan has run its migrations) together with `LoadAddons`, which fills
  the registry from the table and repairs what excludes each other;
* `Kill`, `CommandStops` and `StopByHand` end the process and with it every request in progress (`DropRequests`).

Parts also use each other's state: `Messages` and `Fulfilment` ask the registry who is enabled, `Cart` asks for an
enabled processor and for suppliers that quote, and reads settings and prices; `Reminders` reads carts, orders, settings
and templates; `Pages` reads the shelves and the legal texts. An order in `Cart` and a parcel in `Fulfilment` are the
same row seen twice: `Cart` ends an order's life at its cancellation, `Orders` and `Fulfilment` take it further.

The same constant record that says what a scenario contains, `shop`, is chosen in `Init` and never changes, so that one
run covers many small shops: each has one thing going on, or two that meet. `MCShop` lists them.

**Sessions become steps.** A handler is split where another can come between. On SQLite Python's driver opens no
transaction for a `SELECT`: reads see what is committed and hold no lock, and the first write takes the single
write lock until the commit. So a handler is a *read* step, with its checks and early returns, and a *write* step,
everything from the first write to the commit, in which the rows loaded before are still those of the read (the identity
map does not refresh them) and only changed columns are written. On D1 every flush and every raw statement commits by
itself, an `UPDATE` writes the whole row that was loaded, and an in-place change must be marked: there a handler has a
step for each flush that another could observe. `SupplierSync`, `Accounts`, `Cart`, `Webhooks`, `Media`, `Shelves` and
`Fulfilment` model both backends; `Orders` models SQLite, and `Cart` an order's creation and cancellation on D1.

**Failures.** A request may end without effect at each of its steps (a crash, a lost client, a lock timeout, an
exception that rolls back): `Fail`, `AskFails`, `HookFails`, `EditFails`, `FormFails`, `PayFails`, `SaveLost`. Outside
effects that have happened stay. `Kill` ends the server between any two steps, an installation and a migration included.
`MaxFaults` and `shop.faults` bound kills and failures where repeating them adds nothing.

## 3. The order desk

### Sessions become steps

`session_scope` gives each request a SQLAlchemy session on SQLite. Python's driver opens no transaction for a
`SELECT`, so reads see whatever is committed and hold no lock. The first `INSERT`, `UPDATE` or `DELETE` takes
SQLite's single write lock until the commit. A handler is therefore two steps:

* a **read** step (`CreateRead`, `CheckoutRead`, `CancelRead`, `AdminRead`, `SweepRead`), which takes the handler's
  checks and early returns and remembers the rows it has loaded in `req[p].row`: the identity map keeps them, later
  queries do not refresh them;
* a **write** step (`CreateWrite`, `CheckoutWrite`, `CancelWrite`, `AdminWrite`, `SweepWrite`), everything from the
  first write to the commit. It uses the remembered row, while raw SQL (`stock`, `sold`) acts on current values. A
  column that is assigned the value already loaded is not written (`CompletePayment`).

Between the two anything may happen. The sweep has a third step, its question to the PSP (`SweepAsk`). The webhook
begins with `WebhookClaim`: the savepoint that inserts the event row is the outermost transaction of its connection,
so releasing it commits the row. The rest (`WebhookApply`) first flushes the row's new event type and so loads the
order under the lock. `Fail` ends any request without effect (crash, lost client, lock timeout, an exception that
rolls back); `FailAfterSupplier` and `CheckoutLost` do so after the supplier has accepted, or the PSP has opened a
session. FastAPI versions the project allows may send the response before the session commits, so a customer can
hold the URL of a session the shop has forgotten.

### State

| variable | code |
|---|---|
| `status`, `lines`, `payId`, `refund`, `sup`, `aged` | `Order.status`, its items, `payment_id`, a "Refund review required" note, the outcome in `supplier_orders`, `created_at` before the cutoff |
| `stock`, `sold`, `cart` | `inventory_quantity`, `units_sold`, the customer's cart lines |
| `keyRow`, `expired` | `order_idempotency_keys`, those past `order_idempotency_ttl_hours` |
| `claimed` | `processed_webhook_events` |
| `sessionOrder`, `charged` | at the PSP: sessions and the order each is for, sessions paid |
| `placed` | at the supplier: orders accepted |
| `req` | requests and jobs in progress, with the rows they have loaded |
| `orderKey`, `wasted`, `dropped` | history for the properties |

### Abstractions

Each variant belongs to a product of its own, so `sold` is indexed by variant. An order has one shipping group and
one supplier. One customer owns cart, keys and orders. The event of a paid session is named by the session.
Signatures are verified, and only events that mark an order paid reach the core. A cart edit is one step; a line
that is removed and added again while an order is being created is taken to be the same line. A sweep over several
orders is one process per order; the code commits them together. A request that loses the race for a key is rolled
back as a whole: after the failed insert the session accepts no further query, so the answer from the existing order
is not reached. Prices, addresses, tracking, notifications and outbound webhooks are left out: none of them decides
a step.

### The contract

`OrderContract` knows only statuses, lines, stock and refund notes: an order is placed by taking its basket out of
stock, advances along the transitions, gives its basket back exactly when cancelled, and a payment for a cancelled
order only leaves a note. `ContractSpec` says that `Orders` implements it. It does when requests on one order do not
overlap (`Overlap = FALSE`); requests on different orders, carts and keys always may.

## 4. The other modules

**Catalog, SupplierSync.** Rows of `products` and `product_variants` are named by external key and a copy number, since
no constraint keeps a key unique. `product` holds status and the listing fields, `variant` stock and status, `taken`
what orders hold. `OpenForm`/`SaveManual`/`SaveImported`/`RejectForm` are the product form, with the stock the page was
opened with; `DeleteRead`/`DeleteWrite` the deletion with its check for orders; `Reserve`/`Release` the raw SQL of orders.
A sync finds its product (`SyncFind`), loads variants (`SyncLoad`), upserts, archives and commits (`SyncWrite`), or
breaks off having flushed a part (`SyncBreak`). A job is started (`StartRead`/`StartWrite`), and a tick loads it
(`TickLoad`), marks it running, imports one supplier and records the result (`TickRecord`), each a point where another
tick or a crash comes in.

**Accounts.** `user` holds a row per address (administrator, banned, verified, password, links), `needs` the setup flag
of each process, `req` the request in progress with the row it loaded. Tokens are numbers in the order in which they
were mailed. `Merged` says what a save writes: the changed columns, or on D1 the whole row. Names, addresses, sessions
and push tokens are left out; time is nondeterminism (an expired link is one not taken).

**Server.** `tree` is what is on disk of each package and of the host's code, `aside` the backups, `flag` the restart
flag, `watcher` the script's position and the flag it saw last, `db`/`kept` the schema as seen and as committed. A
replacement goes through `MoveAside`, `CopyBegin`, `CopyEnd` (or `HostPull`) and `WriteFlag`; the start runs each
`MigrateStatement` and `RecordMigration`. On SQLite the DDL statements autocommit unless a transaction is open; on D1
each commits. Two replacements of a package within one second overwrite the backup (`hasty`); a failed `pip` leaves new
code and no flag. A flag written after the new boot but before the restart command returns is taken as seen
(`watch_addon_restart.py:112`): `InstallTakesEffect` is therefore about a flag that finds the watcher polling.

**Archives.** An archive is a record of what is asked about it. `Accepted` is the check before anything is changed
(layout, manifest, versions, exactly one addon class in `addon.py`); `Download` follows redirects while they stay on
allowed hosts; `Registrations` are the results the next discovery may have, which reads `__init__.py` too, skips ids that
begin with an underscore, and keeps the first class found of an id.

**Addons, Messages.** `row` is the table, `mem` the registry. A save turns rivals off in memory and in their rows,
validates, initialises and commits; when that fails, what happened to the rivals stays. A failed start leaves a row on
and its addon off. Secrets come back masked from the form (`Merge`) and are tried before use when they changed.
`Dispatched` says who sends a message: the channels its template leaves on, each by the addon that serves it.

**Fulfilment.** One order and its shipping groups. `PayRead`, `PayBegin`, then per group one of `SkipGroup` (already
recorded, or no addon), `RefuseGroup`, `SendGroup`, `SendGroupWithUpdates`, `LoseGroup`, and `PayEnd` with the record.
`FulfilAborts` is the exception outside the per-group `try`, which the caller swallows (`commerce.py:316`): the order is
paid with nothing recorded. Nothing retries a group that failed. A config update that cannot be saved overwrites a recorded
success (`fulfillment.py:171`). `GroupsRecorded` excuses these (`blurred`).

**Settings, Pricing.** `Normal` is what the form makes of each field (bounds, defaults, unreadable JSON). `Pricing` has
tax within or on top of prices, zones, shipping groups, quotes and fallbacks as operators over functions; conversion of
currencies and the tax tools are left out.

**Cart.** Two tabs per instance add, set, remove, order, check out and cancel. On D1 an order is a shell
(`OrderShell`), then line by line `OrderTake` with `OrderUndo` on refusal, then its items (`OrderFinish`); an edit of an
existing line comes to nothing (`cart.py:340`); an order checked out before its items are stored is repriced to
nothing; one cancelled before then keeps its stock (`leaked`).

**Reminders.** A run reads the eligible carts once, asks about each, sends, and commits its counts at the end: a run that
dies or meets another reminds again (`upset`). The age is that of the cart's row, which no edit refreshes; any order
ever made stops reminders.

**Webhooks.** A delivery reads the endpoint, posts, and writes its outcome at the end; on SQLite the changed columns, on
D1 the whole row, an older secret included (`crowded`).

**Media.** Files and rows, no transaction around both. Uploads store each size and then the row; deletions remove files
first; the logo's upload deletes the old file before it looks at the new (`settings.py:182`). An import skips an image it
cannot download, and one it cannot process ends the import, with what was flushed committed. `spoilt` marks assets that a
request left half done or that two requests changed at once.

**Shelves, Pages.** Categories with parents and slugs, products with slug, status and category. Slugs of products are made
unique with a suffix; those of categories are stored as typed, so one with a slash has no page (`Routed`). Only a
category that is its own parent is refused, so a category can be sent below its own descendants (`looped`). On SQLite a
deleted category's id is used again. On D1 a creation that stops leaves a product without a slug (`stopped`). `Pages`
states each query of the public views: site map, menus, pages, robots entry, and the API's lists.

**D1Session.** The session object of `d1_http_session.py` itself: instances held (no identity map, so one row may be held
twice), `new`, `dirty` and `deleted` in order, a flush as one batch whose returned ids are paired by position, raw
statements, refresh, rollback that forgets, close. A refused batch stores nothing and leaves everything pending; a change
that was not marked is not stored; adding a loaded row makes its batch fail. Handlers are taken to leave alone what
they delete. An answer lost after D1 has applied the statements is not modelled.

## 5. Runs

| run | instance | shows |
|---|---|---|
| `orders_stock` | 2 orders, 2 variants with one unit each, 1 key, 1 session, 2 processes | `StockConserved`, `SoldMatches`, `OneOrderPerKey`, refinement of the contract (`ContractSpec`) |
| `orders_payments` | 1 order, 2 sessions, 2 units, all supplier answers, one supplier call lost to a rollback | `PaymentsSettled`, `SupplierOnce`, `PaidIsEarned` |
| `orders_overlap` | 1 order, 1 session, requests on the order overlap | `StockNotLost`, `WebhookKeepsCancelled`, and under `FairSpec` `StaleSettles` |
| `supplier_sync` | 8 shops: overlapping imports, the product form, a product made by hand, jobs of two suppliers; both backends; one crash | `StockKept`, `OneRowPerKey`, `EndedJobTriedAll`, `ImportListsRight`, and under fairness `JobEnds` |
| `accounts` | 2 people with a link each on both backends; 1 person with three links; 2 processes | `OneAdmin`, `AdminStays`, `FlagHonest`, `LinksSound`, `OwnColumnsOnly` |
| `shop` | the scenarios of `MCShop` (below) | everything about the composed server |
| `sweep_cancels_charged`, `supplier_asked_twice`, `late_payment_unflagged`, `shipped_cancelled`, `sync_takes_first`, `two_processors` | one property each | what the repository says and the code does not do (section 6) |

`shop` has about 300,000 distinct states and checks:

* *server*: no version of a package is lost (`UpgradeKeepsVersions`); a server that answers is migrated (`UpMigrated`); no
  flag restarts twice (`RestartOnce`); what was installed comes to run (`InstallTakesEffect`, liveness); what an archive
  check accepted is what gets registered (`InstalledRegisters`);
* *addons*: one sender per channel (`OneSender`), registry and table agree (`Coherent`), secrets in use were accepted
  (`SecretsProven`); groups of a paid order are recorded as they happened (`GroupsRecorded`);
* *customers*: stock is accounted for on both backends (`StockAccounted`), carts hold what was answered (`CartKept`), the
  checkout charges what was quoted (`CheckoutKeepsCharges`), reminders stay within their limit (`ReminderBound`);
* *rows and files*: `SecretIsShown`, `MediaServed`, `HeldAsStored`;
* *shelves*: every category is shown (`TreeShowsAll`) and public views agree (`PagesAgree`).

**Bounds.** Two actors are what a race needs and two of each thing what they compete for; a third appears where two
are not enough (links, categories, flags, versions of secrets).

* *Orders*: two orders compete for the last unit and for one key; two variants let an order fail on its second line;
  two sessions are what an overwritten payment id needs. `MaxWasted` bounds supplier calls lost to rollbacks.
* *SupplierSync*: a product with two variants can be imported half; catalogues list all variants, one or none; two
  suppliers make a job have a next one. `MaxCrashes` is 1, `MaxStock` 2 leaves room for a form that adds stock.
* *Accounts*: two people for an administrator and another, three links for one replaced while an older is in use.
* *Shop*: three installations (one more than `MaxBackups`, the bound on
  backups kept in view, and two within one second), two statements per
  migration file so that one can be interrupted, two faults (one kill and another during recovery), two customers who
  compete for the last unit, two units for a line that two tabs change, two variants so that the second is refused; a rate that leaves a remainder and a threshold one unit misses;
  three categories for a tree with a middle; three texts of which two share a slug; two groups of an order; archives that
  differ from a good one in one respect each; two images that one request imports on either backend, or one that two editors work on while one step fails; a D1 session of two
  instances, or two sessions of one.

A scenario holds one or two activities because independent ones only multiply states. Those that meet are checked
together: installing and saving, installing and migrating, saving and sending to suppliers, settings with carts and with
reminders, templates with reminders, legal texts with shelves.

`CHECK_DEADLOCK FALSE` everywhere: once orders are settled, bounds used up and forms closed the system may rest.

**Symmetry** is used in the runs over `Orders` without liveness (orders, variants, sessions and processes are
interchangeable, baskets and stock are symmetric in the variants), and in `accounts` (addresses and processes).

**Fairness.**

* `Orders!FairSpec`: requests end, because ASGI handlers and the PSP and supplier clients have timeouts (`WF` of
  `Continue(p)`). The sweep is run by a scheduler through `POST /api/v1/admin/jobs/pending-orders` and at each startup,
  so it reads a stale order infinitely often; the PSP answers some of the questions, and not every sweep dies (`SF` of
  the sweep's steps). Nothing is assumed of customers, administrators or webhooks.
* `SupplierSync!Fairness`: a request in progress goes on, and the page of a job that has not ended reloads itself
  (`SF` of `TickLoad`). No scheduler ticks jobs: a page that is closed stops the job, and `JobEnds` is about one that is
  open. It is claimed for one supplier, or on D1 without overlapping ticks; with two suppliers on SQLite it fails
  (`sync_takes_first`).
* `Shop`: an installation has no pause; the service manager starts a stopped server; migrations go on; the watcher polls,
  handles its flag, its command stops the server and ends. Nothing is assumed of requests, installations or kills.

**Mutants.** Each property of a passing run fails when one operator is replaced by its faulty form, kept just above it
("Faulty form: ..."): a guard dropped, a column too many written, a backup lost, a count taken too early.

## 6. What does not hold

1. `SweepSparesCharged`: "never cancel one the PSP charged" (`pending_order_cleanup.py:66`). The sweep knows only the
   last session of an order. The payment is flagged when its event arrives (`PaymentsSettled` holds), but stock is
   gone.
2. `SupplierNeverTwice`: a re-run skips "instead of ordering twice" (`fulfillment.py:59`). Not when both runs loaded
   the order before either wrote. Without overlap `SupplierOnce` holds.
3. `LateFlagged`: late payments are "flagged for refund review" (`docs/SECURITY.md:87`). Not when the handler died
   between claim and effect.
4. `ShippedNotCancelled`: "shipped -> cancelled is intentionally absent" (`commerce.py:36`). A stale cancellation
   does it. What remains true under overlap is that units are not lost (`StockNotLost`) and that the webhook, which
   reads under the lock, never revives a cancelled order (`WebhookKeepsCancelled`).
5. `TickTakesNext`: a tick processes "the next supplier in a catalog sync job" (`background_jobs.py:133`). On SQLite the
   progress dictionary is changed in place after a flush and never written, so each tick takes the first supplier again.
6. `OneProcessor`: "Only one processor can be enabled at a time." (`admin/routes/addons.py:38`). Only the addons that are
   on in memory are turned off; a row left on by a failed start or a lost save comes back at the next restart.

Properties also say what they leave apart, and with it what the code does not promise: a cart edit on D1, a webhook's
secret on D1 under overlap, a reminder whose run died, two moves of categories that meet, two installations within a
second, groups whose answer or record was lost.


## 7. Proofs

TLC checks the instances of section 5; the theorems hold for every value of the constants that satisfies the
assumptions: any number of orders, people, carts, addons, files, processes and tabs, on either backend, however requests
overlap, fail and die. Each theorem is a statement about the `Spec` that TLC runs, and each inductive invariant was checked
by TLC on the same instances before it was proved.

**Assumptions.** Every module states what its constants must be, and TLC evaluates the assumptions in every run.
They name the kinds of the constants (numbers, finite sets, backends) and what the code itself guarantees or is
configured with:

* `OrdersAssumption`: a set of baskets that contains whatever a cart of `LineQuantities` can hold; finitely many orders.
* `CatalogAssumption`, `SyncAssumption`: an external key belongs to one supplier; a supplier's feed lists its own keys.
* `ShelvesAssumption`: no typed text is a marker for none, and suffixes enough for every product (the code counts on without end).
* `AddonsAssumption`, `ShopAssumption`: packages that ship with the code are not those of archives; addons enabled at first
  share no channel; the settings at first are ones the form could have made (as the columns' defaults are), a form has the
  fields of the settings with numbers where they are numbers, and asks for no more reminders than `MaxReminders`, which is
  only the largest such number.
* The other modules' assumptions exclude clashes of marker values (`None`, `NoSecret`, `"none"`) with data.

### The order desk

`Orders_proofs` needs no assumption about overlap.

* `RequestsWellFormed`, `TypeCorrect`: `TypeOK` is not inductive, since a write step uses the order, event and row its read
  step stored. `TypeInv` adds `ReqOK`, what those are at each stage: a request past its read works on an order, an applying
  request on the order of a claimed event, a cancelling or sweeping request holds a row loaded as pending, a sweep told
  "charged" a charged session, an admin request a legal transition.
* `KeysNameOneOrder`, by `KeyInv`: the row of an order's key still names that order, because a row is only inserted
  while there is none.
* `PaymentsAreEarned`, by `PayInv`: an order, and a sweep that has loaded it, know only sessions opened for that order.
* `WebhookNeverRevives`: no other request touches the applying one, and it reads the status it decides on in the step that
  writes.

The second half of `Orders_proofs` is about stock, counters and the contract.

* `UnitsNeverLost` (`StockNotLost`) again needs nothing: a step that changes a status changes stock by what the order's
  lines say, and one that does not leaves it, so what is held and what is on the shelf can only be
  out by units given back twice.
* The other results need `~Overlap`, requests on one order one after the other, since section 6 shows them false without it.
  `DeskIsSerial` gives the inductive invariant `DeskInv`: no two busy requests share an order (`Apart`); the row a
  request has loaded is the order's current row (`Current`), which is what no test can see and everything rests on;
  a refund note is only on a cancelled order and the supplier was asked once, when it became paid (`RecordOK`);
  sessions are for placed orders (`SessionsOK`); carts hold what can be ordered (`CartsOK`).
* From it: `DeskImplementsContract` (`Spec => ContractSpec`: `DeskContract` maps each action to a step of `OrderContract`
  or a stutter), `StockAddsUp`, `CountersMatch`, `SupplierAskedOnce`, `PaymentsAreSettled`, and `ShippedStays`, the converse
  of finding 4.

Stock and counters are sums over the orders. The library's induction theorems take an operator and cannot be
instantiated by the provers, so `FiniteSums` proves induction over sets instead of predicates: a set of numbers that is not
empty has a least element (`LeastNumber`), so one that contains 0 and is closed under successor is all of them
(`NumbersByInduction`), and a family of subsets of a finite set that contains the empty one and is closed under adding an
element contains all (`SubsetsByInduction`). `SumUnfolds` shows that the recursive sum exists, `AnyFirst` that it does not
depend on the order of summation, and `SumChange` that it changes by what one summand changes by.

### Accounts

`IInv`: rows are sound, at most one is administrator, and a request in progress is idle, about to insert, or about to write a
row derived from one that still has its admin column (`Pending`). It gives `AccountsTyped`, `AtMostOneAdmin`,
`AdministratorStays` and `SetupFlagHonest`. `LinksAreSound` needs `TokenInv`: links in rows, links used and links that
requests have loaded were all mailed, no two columns share one (`Distinct`), and what a request will write keeps or clears
the links it has loaded, one that uses a link clearing a link no other column has (`Honest`). `ColumnsAreOwn` follows from `IInv`: a rewrite
on SQLite changes only the columns of its own operation.

### Imports and jobs

`SupplierSync_proofs` has one invariant, `SyncInv`. `StageInv` says what a request at each stage has loaded, `JobInv` that a
job row, stored or loaded, has results only of suppliers a tick has finished, counts no more than it has results,
and has ended only with all of them; `RowsInv` that a variant's row goes with its product's and orders hold units only of
rows that are there; `SoleInv` that, until two imports of one supplier meet or an administrator makes a product by hand, a
supplier has one row per key and an import under way is the only one of its supplier. `Becoming` reduces the
twenty-odd actions to what happens to one request, one job and the rows. Results: `SyncTyped`, `StockIsKept`, `OneRowEach`,
`EndedJobsTriedAll`, `ListingsAreRight` (the last an action property, about a commit that nobody met).

### The composed server

`Shop!Next` interleaves twelve parts. For each part one lemma (`NextServer`, `NextAddons`, `NextCart`, ...) says
that a step of the shop is a step of the part, its `Drop...`, or leaves it alone; after it only the part is looked at.

* *Server* (`Server_proofs`): `ServerTyped` gives `ServerInv`, with what each stage of a replacement finds on disk.
  `OneRestartPerFlag` by `RestartInv`: commands given and the flag that is there were each written once. `ServesMigrated` by
  `SchemaInv`: a file that is recorded has the effect of all its statements, and the statements counted are those of the
  first file that is not. `VersionsAreKept`: a version leaves its place only by being moved among the backups.
* *Addons* (`Server_proofs`): `OnlyProvenSecrets` by `SettingInv`; `ChannelHasOneSender` by `SenderInv`: an addon that a save is
  about to enable has no rival left among those enabled; `RegistryIsCoherent` by `CoherentInv`: between saves memory says what
  the rows say, and within one it differs from them only at the addon saved and its rivals, as `HeldBy` states.
* *Store* (`Store_proofs`): `PackagesRegister` by `PlacedInv`; `GroupsAreRecorded` by `PayInv` (groups a request has gone
  through are told of, those to do untouched); `SignedAsShown` by `HookInv`; `RowsAreServed` by `MediaInv`:
  an image without a row is one request's or nobody's (`ApartInv`), and the files of every row, and those a request has
  already stored for the row it will write, are there (`StoredInv`).
* *Sessions* (`Store_proofs`): `InstancesAreRows` by `SessionInv`: what is pending is held by its session, an instance is
  queued for insertion once and has no key until its batch is answered (`Queued`), and an instance nobody has changed is its row
  (`SyncedHeld`). A flush is the hard step. It reads a batch's answers by position, so that keys handed out are those of the
  inserted rows in order, and a row written twice by one batch ends as the last of its instances.
* *Shelves and pages* (`Shelves_proofs`): `ShelfInv` is what the foreign keys, the unique indexes and the forms in progress keep
  to; a product without a slug is one a D1 creation is still naming or left behind (`Unnamed`). It gives
  `PublicViewsAgree`. `CategoriesStayTree` needs `TreeInv`: while nobody has sent a category under one of its own and no two
  moves have met, every set of categories has one whose parent is outside it (`Rooted`), there is one move at most, and its new
  parent and all above it leave out the category it moves (`MovesAway`); on D1 no id comes twice (`IdsIssued`). `Rooted` speaks of
  sets because the tree is a recursive function: `ClimbEnds` finds, by counting, a category that a climb of `MaxCats` steps
  passes twice, and the categories between the two would be a set without a way out. A reused id is why a move that
  names it ends the promise.
* *Types* (`Store_proofs`): `ShopTyped`, the whole of `TypeOK`, is put together from one lemma per part (`CartTyped`,
  `SessionsTyped`, ...). Some need more than the part's own invariant: `CartFits` and `RunFits` bound what a request is
  about to write, `SiteInv` says what the settings are whatever was typed, `ShelfBounds` counts ids, and that a download
  gives archives only goes by induction on the redirects still allowed, after `FollowsExists` has shown that such a
  recursive function exists.
* *Carts* (`Cart_proofs`): `UnitsAreAccounted` by `StockInv`: what a D1 request has reserved line by line belongs to
  an order of its own without items, so that stock, items and reservations add up; `QuotesAreKept` by `ChargesInv`;
  `CartsAreKept` by `KeptInv`: a customer's only request has read what is in the cart; `RemindersAreBounded` by
  `RemindInv`: one run at most has to do with a customer, it holds the count as it is, and mails are counts plus
  what it has sent unrecorded.

Proving changed the model where it was wrong or unclear: an import on D1 that commits an image is done with it before the
next is begun, `OneSender` is stated of a server on which two saves have not overlapped since its start, and a `SELECT` of a session returns
its rows in any order.

### Only model-checked

* Liveness (`StaleSettles`, `JobEnds`, `InstallTakesEffect`): fairness and `ENABLED` are out of the prover's reach.
* The runs of section 6, which are counterexamples.

## 8. Plan

The modules of the first plan are written, and every invariant and every action property that a passing run checks is
proved. What is left:

1. **Orders on D1**: an order's later life in one module for both databases, as `Cart` does for its creation.
2. **Settings**: names, colours and the banner, whose whole-row update on D1 can undo another request's.

## 9. Not modelled

* HTML, structured data, image processing, object storage, mail and push delivery, search, the identity provider's
  exchange, middleware and rate limits: rendering, I/O or libraries without state the shop's correctness depends on.
* Connection pooling and pragmas of SQLite; compilation of statements, value conversion and eager loading on D1, and an
  answer of D1 lost after the statements were applied (a commit that fails has no effect in the model).
* Currency conversion and the tax tools, which replace a price or a tax; the audit log; the words of messages.
* Names, colours and the banner in the settings: on D1 a save of the form could put back a logo uploaded meanwhile, as
  every whole-row update may.
* The later life of an order on D1: `Orders` is about SQLite; on D1 an order's creation, checkout and cancellation are in
  `Cart` and its fulfilment in `Fulfilment`.
* The administrator's sign-in page with a stale cookie.
