-------------------------------- MODULE Cart --------------------------------
(***************************************************************************)
(* Customers' carts and the orders made of them, with the reservation of   *)
(* stock statement by statement on D1, and the repricing at checkout.      *)
(*                                                                         *)
(* A request reads in one step and writes in another.  On SQLite what it   *)
(* writes is one transaction.  On D1 a flush is a batch of its own and a   *)
(* raw statement commits at once; a rollback forgets only what has not     *)
(* been flushed.  A variant stands for its product too.  Idempotency keys, *)
(* payments and the later life of an order are modelled in Orders.         *)
(***************************************************************************)
EXTENDS Messages, Settings

CONSTANTS Customers,
          Variants,
          Supplier,     \* [Variants -> Shipped \cup Packages \cup {Merchant}]
          Fee,          \* [Shipped \cup Packages -> Nat], what a supplier asks to ship its lines
          Countries,
          Payment,      \* the claim of payment processors
          MaxQty,       \* bound on the quantity of a line
          MaxOrders,    \* the largest bound on the orders of any shop
          Prices,       \* prices of any shop
          Browsers      \* customers' tabs, each with one request at a time

ASSUME CartAssumption ==
  /\ Supplier \in [Variants -> AddonIds \cup {Merchant}]
  /\ {MaxQty, MaxOrders} \subseteq Nat
  /\ Prices \subseteq Nat
  /\ IsFiniteSet(Browsers)

VARIABLES
  cart,     \* "none", "new" or "old": a cart, and whether the reminders' delay has passed
  line,     \* quantity in each cart; 0: no row
  stock, price, listed,  \* of each variant
  order,    \* orders made; on D1 one without items may stay
  ask,      \* the request in progress of each tab
  \* History, read by the properties only:
  wanted,   \* what each customer's answered requests leave in the cart
  crossed,  \* customers of whom two requests have overlapped
  leaked    \* a request died, or its order was cancelled, with stock in hand

cartVars == <<cart, line, stock, price, listed, order, ask, wanted, crossed, leaked>>

Orders    == 1 .. MaxOrders
Empty     == [v \in Variants |-> 0]
NoOrder   == [st |-> "none", who |-> CHOOSE u \in Customers : TRUE, qty |-> Empty, price |-> Empty,
              under |-> [country |-> CHOOSE c \in Countries : TRUE, answers |-> {}, site |-> shop.site],
              charges |-> [tax |-> 0, shipping |-> 0, total |-> 0]]
NoAsk     == [op |-> "none", u |-> CHOOSE u \in Customers : TRUE, v |-> CHOOSE v \in Variants : TRUE,
              n |-> 0, seen |-> 0, bill |-> NoOrder, id |-> 0, left |-> {}, held |-> {}]
Lines(u)  == {v \in Variants : line[u][v] > 0}
Free      == {o \in Orders : order[o] = NoOrder /\ o <= shop.orders}
NextOrder == CHOOSE o \in Free : \A x \in Free : o <= x

\* The fields other than the request itself, left alone.
CartRest == <<cart, line, stock, price, listed, order, wanted, leaked>>

Ask(p, request) ==
  /\ ask[p] = NoAsk
  /\ ask' = [ask EXCEPT ![p] = request]
  /\ crossed' = crossed \cup {u \in {request.u} : \E q \in Browsers : ask[q] # NoAsk /\ ask[q].u = u}

Answered(p) == ask' = [ask EXCEPT ![p] = NoAsk]

\* The answer tells the customer what is in the cart; followed while CartKept speaks of it.
Tells(u, qty) ==
  wanted' = [wanted EXCEPT ![u] = IF shop.backend = "d1" \/ u \in crossed THEN Empty ELSE qty]

-----------------------------------------------------------------------------
(* Editing the cart *)

\* ensure_product_purchasable and ensure_variant_purchasable
Purchasable(v, n) == listed[v] /\ n <= stock[v]

\* add_item, what it reads
AddBegin(p, u, v, n) ==
  /\ Purchasable(v, line[u][v] + n) /\ line[u][v] + n <= MaxQty
  /\ Ask(p, [NoAsk EXCEPT !.op = "add", !.u = u, !.v = v, !.n = n, !.seen = line[u][v]])
  /\ UNCHANGED CartRest

\* update_item, what it reads; it does not ask whether the product is listed.
SetBegin(p, u, v, n) ==
  /\ line[u][v] > 0 /\ n <= stock[v]
  /\ Ask(p, [NoAsk EXCEPT !.op = "set", !.u = u, !.v = v, !.n = n, !.seen = line[u][v]])
  /\ UNCHANGED CartRest

\* Faulty form: an addition puts its own quantity in the place of the line's.
EditedReplaced(s) == s.n

\* The quantity the request writes.
Edited(s) == IF s.op = "add" THEN s.seen + s.n ELSE s.n

\* add_item and update_item, what they write.  The INSERT of a line someone else
\* has inserted fails, and so does the UPDATE of one that is gone.  On D1 the
\* UPDATE comes to nothing: the row is flushed before it is marked as changed,
\* and read again.
EditWrite(p) ==
  LET s == ask[p]
  IN /\ s.op \in {"add", "set"}
     /\ (s.seen = 0) = (line[s.u][s.v] = 0)
     /\ cart' = [cart EXCEPT ![s.u] = IF @ = "none" THEN "new" ELSE @]
     /\ line' = IF shop.backend = "d1" /\ s.seen > 0 THEN line
                ELSE [line EXCEPT ![s.u][s.v] = Edited(s)]
     /\ Tells(s.u, [wanted[s.u] EXCEPT ![s.v] = IF s.op = "add" THEN @ + s.n ELSE s.n])
     /\ Answered(p)
     /\ UNCHANGED <<stock, price, listed, order, crossed, leaked>>

\* remove_item and clear_cart
RemoveLines(u, vs) ==
  /\ vs # {}
  /\ line' = [line EXCEPT ![u] = [v \in Variants |-> IF v \in vs THEN 0 ELSE @[v]]]
  /\ Tells(u, [v \in Variants |-> IF v \in vs THEN 0 ELSE wanted[u][v]])
  /\ crossed' = crossed \cup {x \in {u} : \E q \in Browsers : ask[q] # NoAsk /\ ask[q].u = x}
  /\ UNCHANGED <<cart, stock, price, listed, order, ask, leaked>>

-----------------------------------------------------------------------------
(* Ordering *)

\* The suppliers whose addon is enabled, some of which may fail to answer.
MayAnswer == {a \in Enabled : a \in DOMAIN Fee}

\* What the charges depend on besides the prices: the suppliers that answer are
\* asked while the settings are as they are now.
Conditions == [country : shop.countries, answers : SUBSET MayAnswer, site : {site}]

Quote(qty, prices, under) ==
  Charges(qty, prices, Supplier, under.answers, Fee, under.site, under.country)

\* create_order up to the quote: the cart, the variants and the charges as read.
OrderBegin(p, u) ==
  /\ Lines(u) # {} /\ Free # {}
  /\ \A v \in Lines(u) : Purchasable(v, line[u][v])
  /\ \E under \in Conditions :
       Ask(p, [NoAsk EXCEPT !.op = "order", !.u = u,
                 !.bill = [st |-> "pending", who |-> u, qty |-> line[u], price |-> price,
                           under |-> under, charges |-> Quote(line[u], price, under)]])
  /\ UNCHANGED CartRest

\* The rows read are deleted, whatever their quantity is now.
Ordered(u, qty) ==
  line' = [line EXCEPT ![u] = [v \in Variants |-> IF qty[v] > 0 THEN 0 ELSE @[v]]]

\* create_order on SQLite: the order, its items, the guarded decrements and the
\* deletion of the lines are one transaction.
OrderWrite(p) ==
  LET s == ask[p]
  IN /\ s.op = "order" /\ shop.backend = "sqlite"
     /\ Free # {}
     /\ \A v \in Variants : s.bill.qty[v] <= stock[v]
     /\ stock' = [v \in Variants |-> stock[v] - s.bill.qty[v]]
     /\ order' = [order EXCEPT ![NextOrder] = s.bill]
     /\ Ordered(s.u, s.bill.qty)
     /\ Tells(s.u, [v \in Variants |-> wanted[s.u][v] - s.bill.qty[v]])
     /\ Answered(p)
     /\ UNCHANGED <<cart, price, listed, crossed, leaked>>

\* create_order on D1: the order's row, without items.
OrderShell(p) ==
  LET s == ask[p]
  IN /\ s.op = "order" /\ shop.backend = "d1"
     /\ Free # {}
     /\ order' = [order EXCEPT ![NextOrder] = [s.bill EXCEPT !.qty = Empty]]
     /\ ask' = [ask EXCEPT ![p].op = "take", ![p].id = NextOrder,
                           ![p].left = {v \in Variants : s.bill.qty[v] > 0}]
     /\ UNCHANGED <<cart, line, stock, price, listed, wanted, crossed, leaked>>

\* reserve_order_inventory: one guarded decrement, or the start of the undoing.
OrderTake(p) ==
  LET s == ask[p]
  IN /\ s.op = "take"
     /\ \E v \in s.left :
          IF s.bill.qty[v] <= stock[v]
          THEN /\ stock' = [stock EXCEPT ![v] = @ - s.bill.qty[v]]
               /\ ask' = [ask EXCEPT ![p].left = @ \ {v}, ![p].held = @ \cup {v}]
          ELSE /\ ask' = [ask EXCEPT ![p].op = "undo", ![p].left = {v}]
               /\ UNCHANGED stock
     /\ UNCHANGED <<cart, line, price, listed, order, wanted, crossed, leaked>>

\* Faulty form: the line that could not be had is restored with the others.
TakenAll(s) == s.held \cup s.left

\* The decrements to restore.
Taken(s) == s.held

\* One line is restored; the order's row stays when they all are.
OrderUndo(p) ==
  LET s == ask[p]
  IN /\ s.op = "undo"
     /\ IF Taken(s) = {}
        THEN Answered(p) /\ UNCHANGED stock
        ELSE \E v \in Taken(s) :
               /\ stock' = [stock EXCEPT ![v] = @ + s.bill.qty[v]]
               /\ ask' = [ask EXCEPT ![p].held = @ \ {v}, ![p].left = {}]
     /\ UNCHANGED <<cart, line, price, listed, order, wanted, crossed, leaked>>

\* The items and the deletion of the lines, in one batch.  Should the order have
\* been cancelled meanwhile, its stock is gone.
OrderFinish(p) ==
  LET s == ask[p]
  IN /\ s.op = "take" /\ s.left = {}
     /\ order' = [order EXCEPT ![s.id].qty = s.bill.qty]
     /\ Ordered(s.u, s.bill.qty)
     /\ Tells(s.u, [v \in Variants |-> wanted[s.u][v] - s.bill.qty[v]])
     /\ leaked' = (leaked \/ order[s.id].st # "pending")
     /\ Answered(p)
     /\ UNCHANGED <<cart, stock, price, listed, crossed>>

\* The request ends before it writes: rolled back, refused by an index, or its
\* stock is gone.
AskFails(p) ==
  /\ ask[p].op \in {"add", "set", "order"}
  /\ Answered(p)
  /\ UNCHANGED <<CartRest, crossed>>

\* Faulty form: the items are priced as the catalogue prices them now.
RepricedAtCatalogue(o) == price

\* reprice_pending_order copies the variants and gives them the order's prices.
RepricedAt(o) == order[o].price

\* checkout_order, with another address or not; a payment addon must be enabled,
\* or what was repriced is rolled back.
Checkout(o) ==
  /\ order[o].st = "pending"
  /\ Serving(Payment) # {}
  /\ \E under \in Conditions :
       order' = [order EXCEPT ![o].under = under,
                              ![o].charges = Quote(order[o].qty, RepricedAt(o), under)]
  /\ UNCHANGED <<cart, line, stock, price, listed, ask, wanted, crossed, leaked>>

\* release_order_inventory, as a cancellation calls it; of the order only the
\* customer is kept.
Cancel(o) ==
  /\ order[o].st = "pending"
  /\ order' = [order EXCEPT ![o] = [NoOrder EXCEPT !.st = "cancelled", !.who = order[o].who]]
  /\ stock' = [v \in Variants |-> stock[v] + order[o].qty[v]]
  /\ UNCHANGED <<cart, line, price, listed, ask, wanted, crossed, leaked>>

\* An administrator prices, lists or hides a product.
Relist(v) ==
  /\ \E n \in shop.prices, l \in BOOLEAN :
       price' = [price EXCEPT ![v] = n] /\ listed' = [listed EXCEPT ![v] = l]
  /\ UNCHANGED <<cart, line, stock, order, ask, wanted, crossed, leaked>>

\* Time passes.
CartAges(u) ==
  /\ cart[u] = "new" /\ shop.jobs # {}
  /\ cart' = [cart EXCEPT ![u] = "old"]
  /\ UNCHANGED <<line, stock, price, listed, order, ask, wanted, crossed, leaked>>

\* The process ends.
DropCart ==
  /\ leaked' = (leaked \/ \E p \in Browsers : ask[p].held # {})
  /\ ask' = [p \in Browsers |-> NoAsk]
  /\ UNCHANGED <<cart, line, stock, price, listed, order, wanted, crossed>>

CartInit ==
  /\ cart = [u \in Customers |-> "none"]
  /\ line = [u \in Customers |-> Empty]
  /\ stock = [v \in Variants |-> shop.stock]
  /\ price = [v \in Variants |-> CHOOSE n \in Prices : \A m \in Prices : n <= m]
  /\ listed = [v \in Variants |-> TRUE]
  /\ order = [o \in Orders |-> NoOrder]
  /\ ask = [p \in Browsers |-> NoAsk]
  /\ wanted = [u \in Customers |-> Empty]
  /\ crossed = {}
  /\ leaked = FALSE

CartStep ==
  \/ \E p \in shop.browsers :
       \/ EditWrite(p) \/ OrderWrite(p) \/ OrderShell(p) \/ OrderTake(p) \/ OrderUndo(p)
       \/ OrderFinish(p) \/ AskFails(p)
       \/ \E u \in shop.customers :
            \/ OrderBegin(p, u)
            \/ \E v \in shop.variants, n \in 1 .. MaxQty : AddBegin(p, u, v, n) \/ SetBegin(p, u, v, n)
  \/ \E u \in shop.customers : RemoveLines(u, Lines(u)) \/ CartAges(u) \/ \E v \in Lines(u) : RemoveLines(u, {v})
  \/ \E o \in Orders : Checkout(o) \/ Cancel(o)
  \/ \E v \in shop.variants : Relist(v)

-----------------------------------------------------------------------------
(* Properties *)

CartTypeOK ==
  /\ cart \in [Customers -> {"none", "new", "old"}]
  /\ \A u \in Customers : Lines(u) # {} => cart[u] # "none"
  /\ line \in [Customers -> [Variants -> 0 .. MaxQty]]
  /\ stock \in [Variants -> Nat]
  /\ \A o \in Orders : order[o].st \in {"none", "pending", "cancelled"}
  /\ \A p \in Browsers : ask[p].op \in {"none", "add", "set", "order", "take", "undo"}

\* The units of a variant in a pending order, and in the hand of a request.
Ordering(o, v)  == IF order[o].st = "pending" THEN order[o].qty[v] ELSE 0
Reserving(p, v) == IF v \in ask[p].held THEN ask[p].bill.qty[v] ELSE 0

\* The units that pending orders and the requests reserving hold.
Held(v) == SumFunctionOnSet([o \in Orders |-> Ordering(o, v)], Orders)
             + SumFunctionOnSet([p \in Browsers |-> Reserving(p, v)], Browsers)

\* Stock is never sold twice, and none is lost unless the process died, or the
\* order was cancelled, while a request held it, though D1 reserves and restores
\* line by line without a transaction around it.
StockAccounted ==
  \A v \in Variants : /\ stock[v] + Held(v) <= shop.stock
                      /\ ~leaked => stock[v] + Held(v) = shop.stock

\* On SQLite a customer whose requests do not overlap finds in the cart exactly
\* what the answers said, orders, refusals and failures of others included.
CartKept ==
  shop.backend = "sqlite" => \A u \in Customers \ crossed : line[u] = wanted[u]

\* Repricing at checkout changes nothing when the address, the settings and the
\* suppliers that answer are those of the last quote: prices changed since do not
\* reach an order (on D1 an order may be repriced before its items are stored).
CheckoutKeepsCharges ==
  [][shop.backend = "sqlite" => \A o \in Orders : order[o].st = "pending" /\ order'[o].st = "pending"
        /\ order'[o].qty = order[o].qty /\ order'[o].under = order[o].under
          => order'[o].charges = order[o].charges]_order
=============================================================================
