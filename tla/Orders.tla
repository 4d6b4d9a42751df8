------------------------------- MODULE Orders -------------------------------
(***************************************************************************)
(* The order desk of the shop on the SQLite backend: order creation,       *)
(* checkout, the payment webhook, the stale-order sweep, customer and      *)
(* admin status changes.                                                   *)
(*                                                                         *)
(* Every handler runs in one session (app/db/connection.py, session_scope).*)
(* Its SELECTs before the first write see committed data and hold no lock; *)
(* its first write takes SQLite's write lock until the commit.  A handler  *)
(* is therefore two steps, what it READS and what it WRITES, and anything  *)
(* may happen between them.  Rows loaded by the read are kept in the       *)
(* session's identity map, so the write uses them as they were; raw SQL    *)
(* updates (stock, units_sold) act on the current values.                  *)
(*                                                                         *)
(* Left out: what the properties do not tell apart (prices, addresses,     *)
(* tracking, notifications and outbound webhooks, which never fail the     *)
(* request, and the products' cached listing fields).                      *)
(***************************************************************************)
EXTENDS Integers, FiniteSets, Functions

CONSTANTS Orders,        \* order slots
          Variants,      \* variants; each belongs to a product of its own
          Baskets,       \* the non-empty carts customers can hold
          EmptyBasket,   \* the cart with nothing in it
          InitialStock,  \* stock of each variant at the start
          Keys,          \* Idempotency-Key values of the customer
          Sessions,      \* payment sessions the payment provider can open
          Procs,         \* requests and jobs that can be in progress at once
          None,          \* an absent value
          Overlap,       \* may two requests on one order be in progress at once?
          Answers,       \* how the supplier may answer an order
          MaxWasted      \* bound on supplier calls lost to a rollback, per order

\* The quantities a cart line of a variant can have.
LineQuantities(v) == {basket[v] : basket \in Baskets} \cup {0}

\* Customers edit their carts line by line, so carts of such lines are carts
\* they can hold.
ASSUME OrdersAssumption ==
  /\ IsFiniteSet(Orders)
  /\ EmptyBasket = [v \in Variants |-> 0]
  /\ Baskets \subseteq [Variants -> Nat] \ {EmptyBasket}
  /\ {c \in [Variants -> UNION {LineQuantities(v) : v \in Variants}] :
         \A v \in Variants : c[v] \in LineQuantities(v)} \subseteq Baskets \cup {EmptyBasket}
  /\ InitialStock \in [Variants -> Nat]
  /\ None \notin Orders \cup Keys \cup Sessions
  /\ Overlap \in BOOLEAN
  /\ Answers \subseteq {"accepted", "refused", "lost"}
  /\ MaxWasted \in Nat

VARIABLES
  status,    \* Order.status, "none" while the slot is unused
  lines,     \* quantity of each variant among the order's OrderItems
  payId,     \* Order.payment_id
  refund,    \* Order.notes holds a "Refund review required" note
  sup,       \* outcome kept in Order.supplier_orders
  aged,      \* Order.created_at is before the cleanup cutoff
  stock,     \* ProductVariant.inventory_quantity
  sold,      \* Product.units_sold
  cart,      \* quantities in the customer's CartItems
  keyRow,    \* order of the OrderIdempotencyKey row of each key
  expired,   \* keys whose row is older than order_idempotency_ttl_hours
  claimed,   \* ProcessedWebhookEvent rows; an event is named by its session
  sessionOrder, \* at the provider: the order a session was opened for
  charged,   \* at the provider: sessions the customer has paid
  placed,    \* at the supplier: orders accepted for each shop order
  req,       \* the requests in progress
  \* History, read by the properties only:
  orderKey,  \* the key an order was created with
  wasted,    \* supplier orders whose transaction never committed
  dropped    \* events whose handler died after the claim

orderVars == <<status, lines, payId, refund, sup, aged>>
keyVars   == <<keyRow, expired, orderKey>>
pspVars   == <<sessionOrder, charged>>
vars == <<status, lines, payId, refund, sup, aged, stock, sold, cart, keyRow,
          expired, claimed, sessionOrder, charged, placed, req, orderKey,
          wasted, dropped>>

Statuses == {"none", "pending", "paid", "shipped", "delivered", "cancelled"}
Stages   == {"idle", "create", "checkout", "cancel", "admin", "apply",
             "sweep", "sweepCancel", "sweepPay"}

\* What a handler's session holds of an order row it has loaded.
Row(o) == [status |-> status[o], sup |-> sup[o], refund |-> refund[o], pay |-> payId[o]]
NoRow  == [status |-> "none", sup |-> "none", refund |-> FALSE, pay |-> None]

Idle == [at |-> "idle", order |-> None, row |-> NoRow, to |-> "none",
         key |-> None, basket |-> EmptyBasket, session |-> None]

\* When Overlap is FALSE no request starts on an order another one works on.
Free(o) == Overlap \/ \A q \in Procs : req[q].order # o

Begin(p, o, stage) ==
  /\ req[p] = Idle
  /\ Free(o)
  /\ req' = [req EXCEPT ![p] = [Idle EXCEPT !.at = stage, !.order = o, !.row = Row(o)]]

Finish(p) == req' = [req EXCEPT ![p] = Idle]

-----------------------------------------------------------------------------
(* app/services/commerce.py                                                *)

\* Faulty form: cancellation allowed after shipment.
AllowedNextCancelShipped(st) ==
  CASE st = "pending" -> {"paid", "cancelled"}
    [] st = "paid"    -> {"shipped", "cancelled"}
    [] st = "shipped" -> {"delivered", "cancelled"}
    [] OTHER          -> {}

\* VALID_TRANSITIONS, as allowed_next_statuses reads it.
AllowedNext(st) ==
  CASE st = "pending" -> {"paid", "cancelled"}
    [] st = "paid"    -> {"shipped", "cancelled"}
    [] st = "shipped" -> {"delivered"}
    [] OTHER          -> {}

\* reserve_order_inventory: guarded decrements; a line that does not fit
\* undoes the earlier ones and fails the request.
Reservable(basket) == \A v \in Variants : basket[v] <= stock[v]
ReserveInventory(basket) == stock' = [v \in Variants |-> stock[v] - basket[v]]

\* Faulty form: a paid order does not return its units.
RestorablePendingOnly == {"pending"}

\* _INVENTORY_RESTORABLE
Restorable == {"pending", "paid"}

\* release_order_inventory, when the loaded status is restorable.
ReleaseInventory(o, st) ==
  stock' = IF st \in Restorable THEN [v \in Variants |-> stock[v] + lines[o][v]] ELSE stock

\* increment_product_units_sold
IncrementUnitsSold(o) == sold' = [v \in Variants |-> sold[v] + lines[o][v]]

\* Faulty form: a cancellation forgets the counter.
DecrementNothing(o) == /\ o \in Orders
                       /\ UNCHANGED sold

\* decrement_product_units_sold: units_sold = MAX(0, units_sold - qty)
DecrementUnitsSold(o) ==
  sold' = [v \in Variants |-> IF sold[v] > lines[o][v] THEN sold[v] - lines[o][v] ELSE 0]

\* Faulty form: a call whose answer was lost is made again.
FulfillOrderRetrying(o, row) ==
  IF row.sup = "ok" THEN UNCHANGED <<sup, placed, refund>>
  ELSE /\ \E answer \in Answers :
            /\ sup' = [sup EXCEPT ![o] = IF answer = "accepted" THEN "ok" ELSE "failed"]
            /\ placed' = [placed EXCEPT ![o] = CASE answer = "accepted" -> @ + 1
                                                [] answer = "lost" -> @ + 2
                                                [] OTHER -> @]
       /\ refund' = [refund EXCEPT ![o] = row.refund]

\* fulfill_order_with_suppliers.  The supplier accepts, refuses, or accepts
\* while the answer is lost; the outcome is kept on the order, and the notes
\* are rewritten from the notes the session holds.  A group the loaded row
\* shows as done is skipped.
FulfillOrder(o, row) ==
  IF row.sup = "ok" THEN UNCHANGED <<sup, placed, refund>>
  ELSE /\ \E answer \in Answers :
            /\ sup' = [sup EXCEPT ![o] = IF answer = "accepted" THEN "ok" ELSE "failed"]
            /\ placed' = [placed EXCEPT ![o] = IF answer = "refused" THEN @ ELSE @ + 1]
       /\ refund' = [refund EXCEPT ![o] = row.refund]

\* apply_order_status_change(order, "paid") for an order loaded as pending.
ApplyPaid(o, row) ==
  /\ status' = [status EXCEPT ![o] = "paid"]
  /\ IncrementUnitsSold(o)
  /\ FulfillOrder(o, row)
  /\ UNCHANGED <<lines, stock>>

\* apply_order_status_change(order, "cancelled") for a pending or paid row.
ApplyCancelled(o, row) ==
  /\ status' = [status EXCEPT ![o] = "cancelled"]
  /\ ReleaseInventory(o, row.status)
  /\ IF row.status = "paid" THEN DecrementUnitsSold(o) ELSE UNCHANGED sold
  /\ UNCHANGED <<lines, sup, placed>>

\* cancel_order_as_admin, and mark_refund_required_for_cancelled_order for
\* money that was taken.
CancelAsAdmin(o, row) ==
  /\ ApplyCancelled(o, row)
  /\ refund' = IF row.status = "paid" THEN [refund EXCEPT ![o] = TRUE] ELSE refund

\* apply_order_status_change(order, "shipped" or "delivered"): no inventory.
ApplyShipment(o, new) ==
  /\ status' = [status EXCEPT ![o] = new]
  /\ UNCHANGED <<lines, sup, placed, stock, sold, refund>>

-----------------------------------------------------------------------------
(* The cart and order creation (app/api/v1/routers/cart.py, orders.py)     *)

\* add_item, update_item and remove_item, each taken as one step: a line's new
\* quantity is in stock when it is set, or the line goes.
EditCartLine(v) ==
  /\ \E qty \in LineQuantities(v) :
       /\ qty # cart[v]
       /\ qty <= stock[v]
       /\ cart' = [cart EXCEPT ![v] = qty]
  /\ UNCHANGED <<orderVars, keyVars, pspVars, stock, sold, claimed, placed, req,
                 wasted, dropped>>

\* create_order up to its first write.  A fresh row of the key answers with
\* the order it names, and an empty or unavailable cart is refused: neither
\* changes anything.
CreateRead(p, key) ==
  /\ req[p] = Idle
  /\ key # None => keyRow[key] = None \/ key \in expired
  /\ cart # EmptyBasket
  /\ Reservable(cart)
  /\ req' = [req EXCEPT ![p] = [Idle EXCEPT !.at = "create", !.key = key, !.basket = cart]]
  /\ UNCHANGED <<orderVars, keyVars, pspVars, stock, sold, cart, claimed, placed,
                 wasted, dropped>>

\* Faulty form: a row past its time to live is taken over.
KeyUnusedOrExpired(key) == key # None => keyRow[key] = None \/ key \in expired

\* The unique (user_id, key_hash) row of the key is still free.
KeyUnused(key) == key # None => keyRow[key] = None

\* create_order from its first write to the commit: order, items, stock,
\* key row, cart rows.
CreateWrite(p, o) ==
  LET basket == req[p].basket
      key    == req[p].key
  IN /\ req[p].at = "create"
     /\ status[o] = "none"
     /\ Reservable(basket)
     /\ KeyUnused(key)
     /\ status' = [status EXCEPT ![o] = "pending"]
     /\ lines'  = [lines EXCEPT ![o] = basket]
     /\ ReserveInventory(basket)
     /\ keyRow' = IF key = None THEN keyRow ELSE [keyRow EXCEPT ![key] = o]
     /\ orderKey' = [orderKey EXCEPT ![o] = key]
     /\ cart' = [v \in Variants |-> IF basket[v] > 0 THEN 0 ELSE cart[v]]
     /\ Finish(p)
     /\ UNCHANGED <<payId, refund, sup, aged, expired, sold, pspVars, claimed,
                    placed, wasted, dropped>>

\* Stock ran out, or another request took the key: everything rolls back.
CreateFail(p) ==
  /\ req[p].at = "create"
  /\ ~(Reservable(req[p].basket) /\ KeyUnused(req[p].key))
  /\ Finish(p)
  /\ UNCHANGED <<orderVars, keyVars, pspVars, stock, sold, cart, claimed, placed,
                 wasted, dropped>>

\* The key row passes order_idempotency_ttl_hours; the row itself stays.
ExpireKey(key) ==
  /\ keyRow[key] # None
  /\ key \notin expired
  /\ expired' = expired \cup {key}
  /\ UNCHANGED <<orderVars, keyRow, orderKey, pspVars, stock, sold, cart, claimed,
                 placed, req, wasted, dropped>>

-----------------------------------------------------------------------------
(* Checkout and the payment provider                                       *)

CheckoutRead(p, o) ==
  /\ status[o] = "pending"
  /\ Begin(p, o, "checkout")
  /\ UNCHANGED <<orderVars, keyVars, pspVars, stock, sold, cart, claimed, placed,
                 wasted, dropped>>

\* start_checkout: the provider opens a session, the order row is told its
\* id (over an earlier one), and the customer gets its URL.
CheckoutWrite(p, s) ==
  LET o == req[p].order
  IN /\ req[p].at = "checkout"
     /\ sessionOrder[s] = None
     /\ sessionOrder' = [sessionOrder EXCEPT ![s] = o]
     /\ payId' = [payId EXCEPT ![o] = s]
     /\ Finish(p)
     /\ UNCHANGED <<status, lines, refund, sup, aged, keyVars, charged, stock, sold,
                    cart, claimed, placed, wasted, dropped>>

\* The provider opens a session, and the commit that stores its id is lost.
\* The response may have left before the commit, so the customer may pay.
CheckoutLost(p, s) ==
  /\ req[p].at = "checkout"
  /\ sessionOrder[s] = None
  /\ sessionOrder' = [sessionOrder EXCEPT ![s] = req[p].order]
  /\ Finish(p)
  /\ UNCHANGED <<orderVars, keyVars, charged, stock, sold, cart, claimed, placed,
                 wasted, dropped>>

\* The customer pays at the provider, whatever became of the order.
Charge(s) ==
  /\ sessionOrder[s] # None
  /\ s \notin charged
  /\ charged' = charged \cup {s}
  /\ UNCHANGED <<orderVars, keyVars, sessionOrder, stock, sold, cart, claimed,
                 placed, req, wasted, dropped>>

\* process_payment_webhook up to the claim.  The provider may deliver the
\* event of a paid session at any time, any number of times or never.  The
\* savepoint that inserts the event row is the outermost transaction of the
\* connection, so releasing it commits the row; a delivery that finds the
\* row answers "duplicate" and changes nothing.
WebhookClaim(p, s) ==
  /\ s \in charged
  /\ s \notin claimed
  /\ req[p] = Idle
  /\ Free(sessionOrder[s])
  /\ claimed' = claimed \cup {s}
  /\ req' = [req EXCEPT ![p] = [Idle EXCEPT !.at = "apply", !.session = s,
                                            !.order = sessionOrder[s]]]
  /\ UNCHANGED <<orderVars, keyVars, pspVars, stock, sold, cart, placed, wasted,
                 dropped>>

\* Faulty form: the late payment is stored without a note.
RecordWithoutNote(o, s) ==
  /\ payId' = [payId EXCEPT ![o] = s]
  /\ UNCHANGED <<status, lines, refund, sup, stock, sold, placed>>

\* Faulty form: the late payment makes the order paid.
RecordReviving(o, s) ==
  /\ payId' = [payId EXCEPT ![o] = s]
  /\ ApplyPaid(o, Row(o))

\* record_late_cancelled_payment: the payment's ids and a refund note.
RecordLatePayment(o, s) ==
  /\ payId' = [payId EXCEPT ![o] = s]
  /\ refund' = [refund EXCEPT ![o] = TRUE]
  /\ UNCHANGED <<status, lines, sup, stock, sold, placed>>

\* complete_order_payment of an order loaded as pending.  Assigning the
\* payment id the session has loaded already writes nothing.
CompletePayment(o, row, s) ==
  /\ payId' = IF s = row.pay THEN payId ELSE [payId EXCEPT ![o] = s]
  /\ ApplyPaid(o, row)

\* The rest of process_payment_webhook.  Loading the order first flushes the
\* event row's new event_type, so it is loaded under the write lock.
WebhookApply(p) ==
  LET o == req[p].order
      s == req[p].session
  IN /\ req[p].at = "apply"
     /\ \/ /\ status[o] = "pending"
           /\ CompletePayment(o, Row(o), s)
        \/ /\ status[o] = "cancelled"
           /\ RecordLatePayment(o, s)
        \/ /\ status[o] \notin {"pending", "cancelled"}
           /\ UNCHANGED <<status, lines, payId, refund, sup, stock, sold, placed>>
     /\ Finish(p)
     /\ UNCHANGED <<aged, keyVars, pspVars, cart, claimed, wasted, dropped>>

-----------------------------------------------------------------------------
(* Customer and admin status changes                                       *)

CancelRead(p, o) ==
  /\ status[o] = "pending"
  /\ Begin(p, o, "cancel")
  /\ UNCHANGED <<orderVars, keyVars, pspVars, stock, sold, cart, claimed, placed,
                 wasted, dropped>>

CancelWrite(p) ==
  LET o == req[p].order
  IN /\ req[p].at = "cancel"
     /\ ApplyCancelled(o, req[p].row)
     /\ Finish(p)
     /\ UNCHANGED <<payId, refund, aged, keyVars, pspVars, cart, claimed, wasted, dropped>>

\* admin_order_update_status checks the transition against the row it loaded.
AdminRead(p, o, new) ==
  /\ req[p] = Idle
  /\ Free(o)
  /\ new \in AllowedNext(status[o])
  /\ req' = [req EXCEPT ![p] = [Idle EXCEPT !.at = "admin", !.order = o,
                                            !.row = Row(o), !.to = new]]
  /\ UNCHANGED <<orderVars, keyVars, pspVars, stock, sold, cart, claimed, placed,
                 wasted, dropped>>

\* The rest of admin_order_update_status.
AdminWrite(p) ==
  LET o   == req[p].order
      row == req[p].row
  IN /\ req[p].at = "admin"
     /\ \/ /\ req[p].to = "cancelled"
           /\ CancelAsAdmin(o, row)
        \/ /\ req[p].to = "paid"
           /\ ApplyPaid(o, row)
        \/ /\ req[p].to \in {"shipped", "delivered"}
           /\ ApplyShipment(o, req[p].to)
     /\ Finish(p)
     /\ UNCHANGED <<payId, aged, keyVars, pspVars, cart, claimed, wasted, dropped>>

-----------------------------------------------------------------------------
(* The stale-order sweep (app/services/pending_order_cleanup.py), one order *)
(* of a sweep per process: the orders of a sweep share nothing but stock.   *)

\* The order gets older than pending_order_expiry_hours.
Age(o) ==
  /\ status[o] = "pending"
  /\ ~aged[o]
  /\ aged' = [aged EXCEPT ![o] = TRUE]
  /\ UNCHANGED <<status, lines, payId, refund, sup, keyVars, pspVars, stock, sold,
                 cart, claimed, placed, req, wasted, dropped>>

SweepRead(p, o) ==
  /\ status[o] = "pending"
  /\ aged[o]
  /\ Begin(p, o, "sweep")
  /\ UNCHANGED <<orderVars, keyVars, pspVars, stock, sold, cart, claimed, placed,
                 wasted, dropped>>

\* Faulty form: an order with a payment id counts as charged.
SweepAskTrusting(p) ==
  /\ req[p].at = "sweep"
  /\ req' = [req EXCEPT ![p].at = IF req[p].row.pay # None THEN "sweepPay" ELSE "sweepCancel"]
  /\ UNCHANGED <<orderVars, keyVars, pspVars, stock, sold, cart, claimed, placed,
                 wasted, dropped>>

\* Faulty form: an order without a payment id is skipped, not cancelled.
SweepAskSkipping(p) ==
  LET pay == req[p].row.pay
  IN /\ req[p].at = "sweep"
     /\ req' = [req EXCEPT ![p] = IF pay = None THEN Idle
                                  ELSE IF pay \in charged THEN [@ EXCEPT !.at = "sweepPay"]
                                  ELSE [@ EXCEPT !.at = "sweepCancel"]]
     /\ UNCHANGED <<orderVars, keyVars, pspVars, stock, sold, cart, claimed, placed,
                    wasted, dropped>>

\* _order_was_charged on the loaded row: no payment id is "not charged",
\* otherwise the provider is asked about that one session.
SweepAsk(p) ==
  LET pay == req[p].row.pay
  IN /\ req[p].at = "sweep"
     /\ req' = [req EXCEPT ![p].at = IF pay \in charged THEN "sweepPay" ELSE "sweepCancel"]
     /\ UNCHANGED <<orderVars, keyVars, pspVars, stock, sold, cart, claimed, placed,
                    wasted, dropped>>

\* The addon is gone or disabled, or its answer is an error: skip the order.
SweepUnknown(p) ==
  /\ req[p].at = "sweep"
  /\ req[p].row.pay # None
  /\ Finish(p)
  /\ UNCHANGED <<orderVars, keyVars, pspVars, stock, sold, cart, claimed, placed,
                 wasted, dropped>>

\* "Charged": complete_order_payment; "not charged": cancel.
SweepWrite(p) ==
  LET o   == req[p].order
      row == req[p].row
  IN /\ \/ /\ req[p].at = "sweepPay"
           /\ CompletePayment(o, row, row.pay)
        \/ /\ req[p].at = "sweepCancel"
           /\ ApplyCancelled(o, row)
           /\ UNCHANGED <<payId, refund>>
     /\ Finish(p)
     /\ UNCHANGED <<aged, keyVars, pspVars, cart, claimed, wasted, dropped>>

-----------------------------------------------------------------------------
(* Failure: the process dies, the client goes away, or the write lock is    *)
(* not obtained in time.  Nothing of the open transaction survives; an      *)
(* event that was claimed stays claimed.                                    *)

Dropping(p) == IF req[p].at = "apply" THEN dropped \cup {req[p].session} ELSE dropped

Fail(p) ==
  /\ req[p] # Idle
  /\ Finish(p)
  /\ dropped' = Dropping(p)
  /\ UNCHANGED <<orderVars, keyVars, pspVars, stock, sold, cart, claimed, placed, wasted>>

\* The transaction of request p is about to call the supplier.
CallsSupplier(p) ==
  /\ \/ req[p].at = "apply" /\ status[req[p].order] = "pending"
     \/ req[p].at = "admin" /\ req[p].to = "paid"
     \/ req[p].at = "sweepPay"
  /\ (IF req[p].at = "apply" THEN sup[req[p].order] ELSE req[p].row.sup) # "ok"

\* The failure comes after the supplier has accepted the order.
FailAfterSupplier(p) ==
  LET o == req[p].order
  IN /\ CallsSupplier(p)
     /\ wasted[o] < MaxWasted
     /\ placed' = [placed EXCEPT ![o] = @ + 1]
     /\ wasted' = [wasted EXCEPT ![o] = @ + 1]
     /\ Finish(p)
     /\ dropped' = Dropping(p)
     /\ UNCHANGED <<orderVars, keyVars, pspVars, stock, sold, cart, claimed>>

-----------------------------------------------------------------------------

Init ==
  /\ status = [o \in Orders |-> "none"]
  /\ lines  = [o \in Orders |-> EmptyBasket]
  /\ payId  = [o \in Orders |-> None]
  /\ refund = [o \in Orders |-> FALSE]
  /\ sup    = [o \in Orders |-> "none"]
  /\ aged   = [o \in Orders |-> FALSE]
  /\ stock  = InitialStock
  /\ sold   = EmptyBasket
  /\ cart   = EmptyBasket
  /\ keyRow = [k \in Keys |-> None]
  /\ expired = {}
  /\ claimed = {}
  /\ sessionOrder = [s \in Sessions |-> None]
  /\ charged = {}
  /\ placed = [o \in Orders |-> 0]
  /\ req    = [p \in Procs |-> Idle]
  /\ orderKey = [o \in Orders |-> None]
  /\ wasted = [o \in Orders |-> 0]
  /\ dropped = {}

\* Steps of the customer, the clock and the provider.
Environment ==
  \/ \E v \in Variants : EditCartLine(v)
  \/ \E k \in Keys : ExpireKey(k)
  \/ \E s \in Sessions : Charge(s)
  \/ \E o \in Orders : Age(o)

\* A request or a job starts.
Start(p) ==
  \/ \E key \in Keys \cup {None} : CreateRead(p, key)
  \/ \E s \in Sessions : WebhookClaim(p, s)
  \/ \E o \in Orders : \/ CheckoutRead(p, o) \/ CancelRead(p, o) \/ SweepRead(p, o)
                       \/ \E new \in Statuses : AdminRead(p, o, new)

\* A request or a job goes on.
Continue(p) ==
  \/ \E o \in Orders : CreateWrite(p, o)
  \/ \E s \in Sessions : CheckoutWrite(p, s) \/ CheckoutLost(p, s)
  \/ CreateFail(p) \/ WebhookApply(p) \/ CancelWrite(p) \/ AdminWrite(p)
  \/ SweepAsk(p) \/ SweepUnknown(p) \/ SweepWrite(p)
  \/ Fail(p) \/ FailAfterSupplier(p)

Next == Environment \/ \E p \in Procs : Start(p) \/ Continue(p)

Spec == Init /\ [][Next]_vars

-----------------------------------------------------------------------------
(* Properties                                                              *)

Request == [at : Stages, order : Orders \cup {None},
            row : [status : Statuses, sup : {"none", "ok", "failed"},
                   refund : BOOLEAN, pay : Sessions \cup {None}],
            to : Statuses, key : Keys \cup {None}, basket : [Variants -> Nat],
            session : Sessions \cup {None}]

\* The type invariant.  It says in particular that no stock level and no
\* sales counter is ever negative.
TypeOK ==
  /\ status \in [Orders -> Statuses]
  /\ lines  \in [Orders -> [Variants -> Nat]]
  /\ payId  \in [Orders -> Sessions \cup {None}]
  /\ refund \in [Orders -> BOOLEAN]
  /\ sup    \in [Orders -> {"none", "ok", "failed"}]
  /\ aged   \in [Orders -> BOOLEAN]
  /\ stock  \in [Variants -> Nat]
  /\ sold   \in [Variants -> Nat]
  /\ cart   \in [Variants -> Nat]
  /\ keyRow \in [Keys -> Orders \cup {None}]
  /\ expired \subseteq Keys
  /\ claimed \subseteq charged
  /\ sessionOrder \in [Sessions -> Orders \cup {None}]
  /\ charged \subseteq {s \in Sessions : sessionOrder[s] # None}
  /\ placed \in [Orders -> Nat]
  /\ req    \in [Procs -> Request]
  /\ orderKey \in [Orders -> Keys \cup {None}]
  /\ wasted \in [Orders -> Nat]
  /\ dropped \subseteq claimed

Holding == {o \in Orders : status[o] \in {"pending", "paid", "shipped", "delivered"}}
Earning == {o \in Orders : status[o] \in {"paid", "shipped", "delivered"}}

Quantity(orders, v) == SumFunctionOnSet([o \in Orders |-> lines[o][v]], orders)

\* Units are neither lost nor made: what is in stock and what live orders
\* hold add up to the initial stock (reserve_order_inventory against
\* release_order_inventory, over every way an order can end).
StockConserved ==
  \A v \in Variants : stock[v] + Quantity(Holding, v) = InitialStock[v]

\* Product.units_sold counts exactly the units of orders that were paid and
\* not cancelled since (product_popularity.py against every status change).
SoldMatches == \A v \in Variants : sold[v] = Quantity(Earning, v)

\* Once the event of a payment has been handled, the order is paid for or
\* asks for a refund review: the money is never left unmentioned.  Events
\* whose handler died after the claim are the exception (see LateFlagged).
PaymentsSettled ==
  \A s \in claimed \ dropped :
    \/ \E p \in Procs : req[p].at = "apply" /\ req[p].session = s
    \/ sessionOrder[s] \in Earning
    \/ refund[sessionOrder[s]]

\* The supplier is never asked twice for one order, as long as no
\* transaction is lost after the supplier accepted.
SupplierOnce == \A o \in Orders : placed[o] - wasted[o] <= 1

\* All requests sent with one key, at once or long after each other, create
\* one order (find_idempotent_order, record_idempotent_order and the unique
\* row, even after the row's time to live).
OneOrderPerKey ==
  \A o1, o2 \in Orders :
    orderKey[o1] # None /\ orderKey[o1] = orderKey[o2] => o1 = o2

\* An order becomes paid only because its customer paid a session opened for
\* it, or an admin said so: no answer of the provider about another order,
\* and no sweep, can do it.
PaidIsEarned ==
  [][\A o \in Orders : status[o] = "pending" /\ status'[o] = "paid" =>
        \/ \E s \in charged : sessionOrder[s] = o
        \/ \E p \in Procs : req[p].at = "admin" /\ req[p].order = o]_vars

\* The desk implements the contract.
Contract == INSTANCE OrderContract WITH Orders <- Orders, Variants <- Variants, Baskets <- Baskets,
                                       InitialStock <- InitialStock, status <- status,
                                       lines <- lines, stock <- stock, refund <- refund
ContractSpec == Contract!Spec

\* Under any overlap of requests, units are never lost: stock and live
\* orders together hold at least the initial stock.
StockNotLost ==
  \A v \in Variants : stock[v] + Quantity(Holding, v) >= InitialStock[v]

\* Under any overlap of requests, the payment webhook never turns a
\* cancelled order back to paid.
WebhookKeepsCancelled ==
  [][\A p \in Procs :
        req[p].at = "apply" /\ req'[p] # req[p] /\ status[req[p].order] = "cancelled" =>
          status'[req[p].order] = "cancelled"]_vars

\* Every request ends, by an answer or by a failure.  The scheduled sweep is
\* called again and again, the provider answers some of its questions, and
\* not every sweep dies.
Fairness ==
  /\ \A p \in Procs : WF_vars(Continue(p))
  /\ \A o \in Orders :
       /\ SF_vars(\E p \in Procs : SweepRead(p, o))
       /\ SF_vars(\E p \in Procs : req[p].order = o /\ SweepAsk(p))
       /\ SF_vars(\E p \in Procs : req[p].order = o /\ SweepWrite(p))

FairSpec == Spec /\ Fairness

\* A pending order older than the expiry does not stay pending: its basket
\* is sold or goes back to the shelf.
StaleSettles ==
  \A o \in Orders : (status[o] = "pending" /\ aged[o]) ~> status[o] # "pending"

-----------------------------------------------------------------------------
(* What the documentation says and the code does not do                    *)

\* pending_order_cleanup.py: the sweep never decides to cancel an order the
\* provider has charged.
SweepSparesCharged ==
  [][\A p \in Procs : req[p].at = "sweep" /\ req'[p].at = "sweepCancel" =>
        ~\E s \in charged : sessionOrder[s] = req[p].order]_vars

\* fulfillment.py: running the fulfilment again never orders twice.
SupplierNeverTwice == \A o \in Orders : placed[o] <= 1

\* SECURITY.md: a payment delivered for a cancelled order is flagged for
\* refund review.  A claimed event is answered "handled" from then on.
LateFlagged ==
  \A s \in claimed :
    \/ \E p \in Procs : req[p].at = "apply" /\ req[p].session = s
    \/ status[sessionOrder[s]] = "cancelled" => refund[sessionOrder[s]]

\* commerce.py: a shipped order is never cancelled.
ShippedNotCancelled ==
  [][\A o \in Orders : status[o] = "shipped" => status'[o] # "cancelled"]_vars
=============================================================================
