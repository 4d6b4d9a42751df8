--------------------------- MODULE OrderContract ---------------------------
(***************************************************************************)
(* What the shop promises about an order, without requests, sessions,      *)
(* webhooks or jobs.  An order is placed by taking its basket out of       *)
(* stock, moves along VALID_TRANSITIONS (app/services/commerce.py), and    *)
(* gives its basket back exactly when it is cancelled.  A cancellation of  *)
(* a paid order, or a payment that arrives for a cancelled one, leaves a   *)
(* refund note.  Orders.tla is shown to implement this module.             *)
(***************************************************************************)
EXTENDS Naturals

CONSTANTS Orders,        \* order slots; an unused one has status "none"
          Variants,      \* product variants, the unit stock is kept in
          Baskets,       \* the baskets customers order
          InitialStock   \* inventory_quantity of each variant at the start

VARIABLES status,        \* Order.status
          lines,         \* quantity of each variant among the order's items
          stock,         \* ProductVariant.inventory_quantity
          refund         \* Order.notes asks for a refund review

cVars == <<status, lines, stock, refund>>

\* allowed_next_statuses: VALID_TRANSITIONS of app/services/commerce.py.
NextStatuses(st) ==
  CASE st = "pending" -> {"paid", "cancelled"}
    [] st = "paid"    -> {"shipped", "cancelled"}
    [] st = "shipped" -> {"delivered"}
    [] OTHER          -> {}

Init == /\ status = [o \in Orders |-> "none"]
        /\ lines  = [o \in Orders |-> [v \in Variants |-> 0]]
        /\ stock  = InitialStock
        /\ refund = [o \in Orders |-> FALSE]

\* All of the basket is reserved, or none of it.
Place(o) ==
  /\ status[o] = "none"
  /\ \E basket \in Baskets :
       /\ \A v \in Variants : basket[v] <= stock[v]
       /\ stock' = [v \in Variants |-> stock[v] - basket[v]]
       /\ lines' = [lines EXCEPT ![o] = basket]
  /\ status' = [status EXCEPT ![o] = "pending"]
  /\ UNCHANGED refund

\* A step forward keeps the reservation.
Advance(o) ==
  /\ \E st \in NextStatuses(status[o]) \ {"cancelled"} :
       status' = [status EXCEPT ![o] = st]
  /\ UNCHANGED <<lines, stock, refund>>

\* A cancellation returns the basket; money already taken is flagged.
Cancel(o) ==
  /\ "cancelled" \in NextStatuses(status[o])
  /\ status' = [status EXCEPT ![o] = "cancelled"]
  /\ stock'  = [v \in Variants |-> stock[v] + lines[o][v]]
  /\ refund' = [refund EXCEPT ![o] = (status[o] = "paid")]
  /\ UNCHANGED lines

\* Money that arrives for a cancelled order never revives it.
LatePayment(o) ==
  /\ status[o] = "cancelled"
  /\ refund' = [refund EXCEPT ![o] = TRUE]
  /\ UNCHANGED <<status, lines, stock>>

Next == \E o \in Orders : Place(o) \/ Advance(o) \/ Cancel(o) \/ LatePayment(o)

Spec == Init /\ [][Next]_cVars
=============================================================================
