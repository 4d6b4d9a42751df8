------------------------------- MODULE MCShop -------------------------------
(***************************************************************************)
(* An instance of Shop for TLC: a few small shops, each with one thing     *)
(* going on, or two that meet.                                             *)
(***************************************************************************)
EXTENDS Shop

CONSTANTS stripe, paypal, postmark, twilio, printful, manual,  \* addons
          ann, bob, mug, cap,                          \* customers and variants
          processor, email, sms,                       \* claims
          confirmed, abandoned, reset,                    \* events
          home, abroad,                                \* countries
          hats, boots, odd,                            \* texts
          poster, sticker, i1, i2,                      \* products and images
          fromPrintful, fromMaker,                     \* groups of an order
          payment, frontend, pay, dev,                 \* categories and ids of packages
          release, latest, elsewhere,                  \* URLs
          c1, y1,                                      \* a clerk and a payer
          a1, b1, e1, w1, cron                         \* an administrator's tab, a customer's, and requests

ClaimsOf   == [a \in {stripe, paypal, postmark, twilio, printful, manual} |->
                 CASE a \in {stripe, paypal} -> {processor}
                   [] a = postmark -> {email} [] a = twilio -> {email, sms}
                   [] OTHER -> {}]
SupplierOf == [v \in {mug, cap} |-> IF v = mug THEN printful ELSE Merchant]
SentOnOf   == [e \in {confirmed, abandoned, reset} |-> IF e = reset THEN {email} ELSE {email, sms}]
FeeOf      == [a \in {printful} |-> 3]
SlugOf     == [t \in {hats, boots, odd} |-> IF t = odd THEN boots ELSE t]
GroupOf    == [g \in {fromPrintful, fromMaker} |-> IF g = fromPrintful THEN printful ELSE manual]

\* A package in order, and others that differ from one in a single respect.
Package(p) == [sound |-> TRUE, manifest |-> TRUE, id |-> p[2], cat |-> p[1], url |-> NoUrl, depth |-> 1,
               dir |-> p, complete |-> TRUE, fits |-> TRUE, classes |-> <<p>>, init |-> <<>>]
Pay == <<payment, pay>>
Offered ==
  {Package(p) : p \in {Pay, <<frontend, pay>>, <<payment, dev>>}}
    \cup {[Package(Pay) EXCEPT !.depth = d] : d \in {0, 2, 3}}
    \cup {[Package(Pay) EXCEPT !.depth = 2, !.dir = d] : d \in {<<frontend, pay>>, <<payment, dev>>}}
    \cup {[Package(Pay) EXCEPT !.classes = k] : k \in {<<>>, <<<<frontend, pay>>>>, <<<<payment, dev>>>>,
                                                      <<<<payment, dev>>, Pay>>}}
    \cup {[Package(Pay) EXCEPT !.sound = FALSE], [Package(Pay) EXCEPT !.manifest = FALSE],
          [Package(Pay) EXCEPT !.complete = FALSE], [Package(Pay) EXCEPT !.fits = FALSE],
          [Package(Pay) EXCEPT !.init = <<<<payment, dev>>>>], [Package(Pay) EXCEPT !.url = latest]}
Redirects == [u \in {release, latest, elsewhere} |->
                CASE u = release -> latest [] u = latest -> Package(Pay) [] OTHER -> Package(<<frontend, pay>>)]

\* A rate that leaves a remainder, a threshold that one unit misses.
Taxed(inclusive) ==
  [taxEnabled |-> TRUE, taxInclusive |-> inclusive, rate |-> 2500,
   zoneRates |-> [c \in {abroad} |-> 0], mode |-> "free_over_threshold", threshold |-> 4,
   flat |-> 1, zoneFlats |-> [c \in {abroad} |-> 2], remind |-> TRUE, most |-> 1]

\* Forms as the page fills them in, and as a slip of the hand leaves them.
Form(s)  == [site |-> s, unreadable |-> {}]
Slips(f) == {[f EXCEPT !.site.rate = -1, !.site.mode = "odd", !.site.most = 0, !.unreadable = {"zoneRates"}],
             [f EXCEPT !.site.taxInclusive = ~@, !.unreadable = {"threshold"}]}

Still == [backend |-> "sqlite", packages |-> {}, shipped |-> {}, installs |-> 0, enabled |-> {},
          addons |-> {}, admins |-> {}, browsers |-> {}, customers |-> {}, variants |-> {},
          countries |-> {home}, prices |-> {}, orders |-> 2, stock |-> 1, jobs |-> {}, hooks |-> {},
          editors |-> {}, clerks |-> {}, shelves |-> 3, texts |-> {}, items |-> {}, payers |-> {},
          forms |-> {}, legal |-> {}, messages |-> {}, images |-> {}, writers |-> {}, held |-> 0,
          offers |-> FALSE,
          site |-> Taxed(TRUE), byHand |-> FALSE, faults |-> 0]
Backends == {"sqlite", "d1"}

\* A package and the host are replaced; one is installed and then saved.
Servers ==
  {[Still EXCEPT !.packages = {paypal}, !.shipped = {paypal}, !.installs = 3, !.faults = n] : n \in 0 .. 1}
    \cup {[Still EXCEPT !.packages = {Host}, !.installs = 1, !.backend = b, !.faults = n] :
            b \in Backends, n \in 0 .. 2}
    \cup {[Still EXCEPT !.packages = {paypal}, !.installs = 1, !.addons = {stripe, paypal}, !.admins = {a1}]}

\* One administrator saves two notification addons; two save the same one.
Savings ==
  {[Still EXCEPT !.addons = {postmark, twilio}, !.admins = {a1}, !.byHand = TRUE, !.faults = 1],
   [Still EXCEPT !.addons = {twilio}, !.enabled = {postmark}, !.admins = Admins, !.byHand = TRUE,
                 !.faults = 1]}

\* One administrator saves two payment processors.
Paying == {[Still EXCEPT !.shipped = {paypal}, !.addons = {stripe, paypal}, !.admins = {a1}, !.byHand = TRUE, !.faults = 1]}

\* Two customers buy the last unit of a variant, one customer buys two units in two
\* tabs, or two variants on D1, in two tabs or with the process killed, and with
\* prices and quotes that change.
Trading == [Still EXCEPT !.enabled = {stripe, postmark}, !.browsers = {b1}, !.customers = {ann},
                         !.variants = {mug}]
Tradings ==
  {[Trading EXCEPT !.customers = {ann, bob}, !.browsers = Browsers],
   [Trading EXCEPT !.browsers = Browsers, !.stock = 2],
   [Trading EXCEPT !.variants = {mug, cap}, !.browsers = Browsers, !.backend = "d1"],
   [Trading EXCEPT !.variants = {mug, cap}, !.backend = "d1", !.faults = 1]}
    \cup {[Trading EXCEPT !.variants = {mug, cap}, !.countries = Countries, !.prices = Prices, !.orders = 1,
                          !.enabled = {stripe, printful}, !.site = Taxed(i)] : i \in BOOLEAN}
    \cup {[Trading EXCEPT !.orders = 1, !.backend = b,
                          !.forms = {Form(Taxed(FALSE))} \cup Slips(Form(Taxed(TRUE)))] : b \in Backends}

\* Two customers are reminded by one run; one, who may order, by overlapping runs,
\* and the process is killed.
Remindings ==
  {[Trading EXCEPT !.customers = {ann, bob}, !.jobs = {cron}, !.orders = 0, !.backend = "d1"]}
    \cup {[Trading EXCEPT !.jobs = Jobs, !.orders = 1, !.faults = 1, !.backend = b] : b \in Backends}
    \cup {[Trading EXCEPT !.jobs = Jobs, !.orders = 0, !.messages = {<<abandoned, email>>},
                          !.forms = {Form([Taxed(TRUE) EXCEPT !.remind = r]) : r \in BOOLEAN}]}

\* The webhook row and the images are changed by two requests at a time; images
\* are imported; sessions on D1 have two instances, or one next to another's.
Requesting ==
  {[Still EXCEPT !.hooks = Hooks, !.backend = b, !.faults = 1] : b \in Backends}
    \cup {[Still EXCEPT !.editors = Editors, !.images = {i1}, !.faults = 1, !.backend = b] : b \in Backends}
    \cup {[Still EXCEPT !.editors = {e1}, !.images = Images, !.backend = b] : b \in Backends}
    \cup {[Still EXCEPT !.writers = {w1}, !.held = 2, !.backend = "d1"],
          [Still EXCEPT !.writers = Writers, !.held = 1, !.backend = "d1"]}

\* One clerk with any text; two with the same rows; two with the same product.
Shelvings ==
  {[Still EXCEPT !.clerks = {c1}, !.texts = Texts],
   [Still EXCEPT !.clerks = {c1}, !.texts = {boots, odd}, !.items = Items, !.shelves = 1],
   [Still EXCEPT !.forms = {Form(Taxed(TRUE))}, !.legal = Documents, !.clerks = {c1}, !.texts = {hats}, !.items = {poster}],
   [Still EXCEPT !.clerks = {c1}, !.texts = {hats}, !.items = {poster}, !.backend = "d1", !.faults = 1]}
    \cup {[Still EXCEPT !.clerks = Clerks, !.texts = {hats, boots}, !.backend = b] : b \in Backends}
    \cup {[Still EXCEPT !.clerks = Clerks, !.texts = {hats}, !.items = {poster}, !.shelves = 1, !.backend = b] :
            b \in Backends}

\* An order with two suppliers, one of them the merchant's, is paid twice at once.
Sendings ==
  {[Still EXCEPT !.payers = Payers, !.enabled = {printful, manual}, !.backend = b, !.faults = 1] : b \in Backends}
    \cup {[Still EXCEPT !.payers = {y1}, !.enabled = {printful, manual}, !.addons = {printful}, !.admins = {a1}]}

\* Archives are offered, and the operator restarts the server.
Offering == {[Still EXCEPT !.offers = TRUE, !.byHand = TRUE]}

AllShops == Servers \cup Savings \cup Tradings \cup Remindings \cup Requesting \cup Shelvings \cup Sendings \cup Offering
=============================================================================
