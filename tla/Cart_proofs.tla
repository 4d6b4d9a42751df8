----------------------------- MODULE Cart_proofs -----------------------------
(***************************************************************************)
(* Proofs about carts, the orders made of them and the reminders of those  *)
(* left behind, in a shop of any size.                                     *)
(***************************************************************************)
EXTENDS Shop, FiniteSums, TLAPS

LEMMA NextCart ==
  [Next]_vars => UNCHANGED shop /\ (UNCHANGED cartVars \/ CartStep \/ DropCart)
BY DEF Next, vars, Requests, Served, DropRequests

-----------------------------------------------------------------------------
(* Types *)

OrderFields == {"st", "who", "qty", "price", "under", "charges"}
AskFields   == {"op", "u", "v", "n", "seen", "bill", "id", "left", "held"}
Quantities  == [Variants -> Nat]

IsOrder(r) == DOMAIN r = OrderFields /\ r.st \in {"none", "pending", "cancelled"} /\ r.qty \in Quantities

\* A request, and what it has reserved on D1: the lines of its order that it does not
\* hold are left to take.
IsAsk(s) ==
  /\ DOMAIN s = AskFields
  /\ s.op \in {"none", "add", "set", "order", "take", "undo"}
  /\ s.op # "none" => s.u \in Customers
  /\ s.op \in {"add", "set"} => s.v \in Variants
  /\ s.n \in Nat /\ s.seen \in Nat
  /\ IsOrder(s.bill) /\ (s.op \in {"order", "take", "undo"} => s.bill.st = "pending")
  /\ s.left \subseteq Variants /\ s.held \subseteq Variants
  /\ s.op \notin {"take", "undo"} => s.held = {}
  /\ s.op = "take" => /\ s.id \in Orders /\ s.left \cap s.held = {}
                      /\ s.left \cup s.held = {v \in Variants : s.bill.qty[v] > 0}

CartTypes ==
  /\ shop \in Shops
  /\ line \in [Customers -> Quantities] /\ stock \in Quantities
  /\ DOMAIN order = Orders /\ \A o \in Orders : IsOrder(order[o])
  /\ DOMAIN ask = Browsers /\ \A p \in Browsers : IsAsk(ask[p])

\* An order whose stock a request is taking has no items yet, and is that request's own.
TakingInv ==
  /\ \A p \in Browsers : ask[p].op = "take" => /\ order[ask[p].id].st # "none"
                                               /\ order[ask[p].id].qty = Empty
  /\ \A p, q \in Browsers : p # q /\ ask[p].op = "take" /\ ask[q].op = "take" => ask[p].id # ask[q].id

LEMMA NoOrderState ==
  /\ IsOrder(NoOrder) /\ NoOrder.st = "none" /\ NoOrder.qty = Empty
  /\ Empty \in Quantities /\ \A v \in Variants : Empty[v] = 0
BY DEF NoOrder, IsOrder, OrderFields, Empty, Quantities

LEMMA NoAskState ==
  /\ IsAsk(NoAsk) /\ NoAsk.op = "none" /\ NoAsk.held = {} /\ NoAsk.left = {}
BY NoOrderState DEF NoAsk, IsAsk, AskFields

LEMMA NextOrderFree ==
  ASSUME Free # {}
  PROVE  NextOrder \in Orders /\ order[NextOrder] = NoOrder
<1>1. Free \subseteq Nat /\ Free \subseteq Orders
  BY CartAssumption DEF Free, Orders
<1>2. \E o \in Free : \A x \in Free : o <= x
  BY <1>1, LeastNumber
<1> QED
  BY <1>1, <1>2 DEF NextOrder, Free

-----------------------------------------------------------------------------
(* The units held *)

InOrders(v) == SumFunctionOnSet([o \in Orders |-> Ordering(o, v)], Orders)
InHand(v)   == SumFunctionOnSet([p \in Browsers |-> Reserving(p, v)], Browsers)

\* One order, or none, changes.
LEMMA OrdersChange ==
  ASSUME CartTypes, CartTypes', NEW v \in Variants, NEW o, \A x \in Orders \ {o} : order'[x] = order[x]
  PROVE  /\ InOrders(v) \in Nat /\ InOrders(v)' \in Nat
         /\ \A x \in Orders : Ordering(x, v) \in Nat /\ Ordering(x, v)' \in Nat
         /\ InOrders(v)' + (IF o \in Orders THEN Ordering(o, v) ELSE 0)
              = InOrders(v) + (IF o \in Orders THEN Ordering(o, v)' ELSE 0)
<1> DEFINE f == [x \in Orders |-> Ordering(x, v)]
           g == [x \in Orders |-> IF order'[x].st = "pending" THEN order'[x].qty[v] ELSE 0]
<1>1. IsFiniteSet(Orders)
  BY CartAssumption, FS_Interval DEF Orders
<1>2. InOrders(v) = SumFunctionOnSet(f, Orders) /\ InOrders(v)' = SumFunctionOnSet(g, Orders)
  BY DEF InOrders, Ordering
<1>3. \A x \in Orders : f[x] = Ordering(x, v) /\ g[x] = Ordering(x, v)' /\ f[x] \in Nat /\ g[x] \in Nat
  BY DEF Ordering, CartTypes, IsOrder, Quantities
<1>4. \A x \in Orders \ {o} : f[x] = g[x]
  BY DEF Ordering
<1> HIDE DEF f, g
<1>5. SumFunctionOnSet(f, Orders) + (IF o \in Orders THEN g[o] ELSE 0)
        = SumFunctionOnSet(g, Orders) + (IF o \in Orders THEN f[o] ELSE 0)
  <2>1. DifferAt(o, f, Orders, g, Orders)
    BY <1>3, <1>4 DEF DifferAt
  <2> QED
    BY <1>1, <2>1, SumChange
<1>6. SumFunctionOnSet(f, Orders) \in Nat /\ SumFunctionOnSet(g, Orders) \in Nat
  BY <1>1, <1>3, SumType
<1> QED
  BY <1>2, <1>3, <1>5, <1>6

\* One request changes.
LEMMA HandsChange ==
  ASSUME CartTypes, CartTypes', NEW v \in Variants, NEW p \in Browsers,
         \A x \in Browsers \ {p} : ask'[x] = ask[x]
  PROVE  /\ InHand(v) \in Nat /\ InHand(v)' \in Nat
         /\ Reserving(p, v) \in Nat /\ Reserving(p, v)' \in Nat
         /\ InHand(v)' + Reserving(p, v) = InHand(v) + Reserving(p, v)'
<1> DEFINE f == [x \in Browsers |-> Reserving(x, v)]
           g == [x \in Browsers |-> IF v \in ask'[x].held THEN ask'[x].bill.qty[v] ELSE 0]
<1>1. IsFiniteSet(Browsers)
  BY CartAssumption
<1>2. InHand(v) = SumFunctionOnSet(f, Browsers) /\ InHand(v)' = SumFunctionOnSet(g, Browsers)
  BY DEF InHand, Reserving
<1>3. \A x \in Browsers : f[x] = Reserving(x, v) /\ g[x] = Reserving(x, v)' /\ f[x] \in Nat /\ g[x] \in Nat
  BY DEF Reserving, CartTypes, IsAsk, IsOrder, Quantities
<1>4. \A x \in Browsers \ {p} : f[x] = g[x]
  BY DEF Reserving
<1> HIDE DEF f, g
<1>5. SumFunctionOnSet(f, Browsers) + (IF p \in Browsers THEN g[p] ELSE 0)
        = SumFunctionOnSet(g, Browsers) + (IF p \in Browsers THEN f[p] ELSE 0)
  <2>1. DifferAt(p, f, Browsers, g, Browsers)
    BY <1>3, <1>4 DEF DifferAt
  <2> QED
    BY <1>1, <2>1, SumChange
<1>6. SumFunctionOnSet(f, Browsers) \in Nat /\ SumFunctionOnSet(g, Browsers) \in Nat
  BY <1>1, <1>3, SumType
<1> QED
  BY <1>2, <1>3, <1>5, <1>6

\* A step of one request and at most one order takes from the stock what the two then
\* hold more, and loses none unless it says so.
LEMMA StockFollows ==
  ASSUME CartTypes, CartTypes', StockAccounted, UNCHANGED shop,
         NEW p \in Browsers, \A x \in Browsers \ {p} : ask'[x] = ask[x],
         NEW o, \A x \in Orders \ {o} : order'[x] = order[x],
         leaked => leaked',
         \A v \in Variants :
           LET was == stock[v] + (IF o \in Orders THEN Ordering(o, v) ELSE 0) + Reserving(p, v)
               is  == stock'[v] + (IF o \in Orders THEN Ordering(o, v)' ELSE 0) + Reserving(p, v)'
           IN is <= was /\ (~leaked' => is = was)
  PROVE  StockAccounted'
<1> SUFFICES ASSUME NEW v \in Variants
             PROVE  /\ stock'[v] + Held(v)' <= shop.stock
                    /\ ~leaked' => stock'[v] + Held(v)' = shop.stock
  BY DEF StockAccounted
<1> DEFINE a == IF o \in Orders THEN Ordering(o, v) ELSE 0
           b == IF o \in Orders THEN Ordering(o, v)' ELSE 0
<1>1. Held(v) = InOrders(v) + InHand(v) /\ Held(v)' = InOrders(v)' + InHand(v)'
  BY DEF Held, InOrders, InHand
<1>2. InOrders(v) \in Nat /\ InOrders(v)' \in Nat /\ a \in Nat /\ b \in Nat /\ InOrders(v)' + a = InOrders(v) + b
  BY OrdersChange
<1>3. /\ InHand(v) \in Nat /\ InHand(v)' \in Nat /\ Reserving(p, v) \in Nat /\ Reserving(p, v)' \in Nat
      /\ InHand(v)' + Reserving(p, v) = InHand(v) + Reserving(p, v)'
  BY HandsChange
<1>5. stock[v] \in Nat /\ stock'[v] \in Nat /\ shop.stock \in Nat
  BY ShopAssumption DEF CartTypes, Quantities
<1>6. stock[v] + Held(v) <= shop.stock /\ (~leaked => stock[v] + Held(v) = shop.stock)
  BY DEF StockAccounted
<1>7. /\ stock'[v] + b + Reserving(p, v)' <= stock[v] + a + Reserving(p, v)
      /\ ~leaked' => stock'[v] + b + Reserving(p, v)' = stock[v] + a + Reserving(p, v)
  OBVIOUS
<1> DEFINE r == Reserving(p, v)
           q == Reserving(p, v)'
<1>8. r \in Nat /\ q \in Nat /\ InHand(v)' + r = InHand(v) + q
  BY <1>3
<1>9. /\ stock'[v] + b + q <= stock[v] + a + r
      /\ ~leaked' => stock'[v] + b + q = stock[v] + a + r
  BY <1>7
<1> HIDE DEF a, b, r, q
<1>10. /\ stock'[v] + InOrders(v)' + InHand(v)' <= stock[v] + InOrders(v) + InHand(v)
       /\ ~leaked' => stock'[v] + InOrders(v)' + InHand(v)' = stock[v] + InOrders(v) + InHand(v)
  BY <1>2, <1>3, <1>5, <1>8, <1>9
<1> QED
  BY <1>1, <1>2, <1>3, <1>5, <1>6, <1>10

-----------------------------------------------------------------------------
(* Stock *)

StockInv == CartTypes /\ TakingInv /\ StockAccounted

\* A request that has nothing reserved moves on with nothing reserved.
LEMMA NothingHeld ==
  ASSUME StockInv, UNCHANGED <<shop, stock, order, leaked>>, line' \in [Customers -> Quantities],
         NEW p \in Browsers, NEW s, ask' = [ask EXCEPT ![p] = s], IsAsk(s), s.op # "take",
         s.held = {}, ask[p].held = {}
  PROVE  StockInv'
<1>1. DOMAIN ask' = Browsers /\ ask'[p] = s /\ \A x \in Browsers \ {p} : ask'[x] = ask[x]
  BY DEF StockInv, CartTypes
<1>2. CartTypes'
  BY <1>1 DEF StockInv, CartTypes
<1>3. TakingInv'
  BY <1>1 DEF StockInv, TakingInv
<1>4. \A v \in Variants : Reserving(p, v) = 0 /\ Reserving(p, v)' = 0
  BY <1>1 DEF Reserving
<1>5. \A x \in Orders : order'[x] = order[x]
  OBVIOUS
<1>6. \A x, v : Ordering(x, v)' = Ordering(x, v)
  BY DEF Ordering
<1>7. StockAccounted'
  <2>1. 0 \notin Orders
    BY DEF Orders
  <2>2. \A v \in Variants : stock[v] \in Nat /\ stock'[v] = stock[v]
    BY DEF StockInv, CartTypes, Quantities
  <2> QED
    BY <1>1, <1>2, <1>4, <1>5, <2>1, <2>2, StockFollows DEF StockInv
<1> QED
  BY <1>2, <1>3, <1>7 DEF StockInv

LEMMA RequestBegins ==
  ASSUME StockInv, UNCHANGED shop, NEW p \in Browsers, NEW u \in Customers,
         \/ OrderBegin(p, u)
         \/ \E v \in Variants, n \in 1 .. MaxQty : AddBegin(p, u, v, n) \/ SetBegin(p, u, v, n)
  PROVE  StockInv'
<1>1. line' \in [Customers -> Quantities] /\ UNCHANGED <<stock, order, leaked>> /\ ask[p] = NoAsk
  BY DEF OrderBegin, AddBegin, SetBegin, CartRest, Ask, StockInv, CartTypes
<1>2. CASE OrderBegin(p, u)
  <2>1. PICK under \in Conditions :
          Ask(p, [NoAsk EXCEPT !.op = "order", !.u = u,
                   !.bill = [st |-> "pending", who |-> u, qty |-> line[u], price |-> price,
                             under |-> under, charges |-> Quote(line[u], price, under)]])
    BY <1>2 DEF OrderBegin
  <2> DEFINE bill == [st |-> "pending", who |-> u, qty |-> line[u], price |-> price,
                      under |-> under, charges |-> Quote(line[u], price, under)]
             s == [NoAsk EXCEPT !.op = "order", !.u = u, !.bill = bill]
  <2>2. IsOrder(bill) /\ bill.st = "pending"
    BY DEF IsOrder, OrderFields, StockInv, CartTypes
  <2>3. ask' = [ask EXCEPT ![p] = s]
    BY <2>1 DEF Ask
  <2> HIDE DEF bill
  <2>4. IsAsk(s) /\ s.op = "order" /\ s.held = {}
    BY <2>2, NoAskState DEF IsAsk, AskFields
  <2> HIDE DEF s
  <2> QED
    BY <1>1, <2>3, <2>4, NoAskState, NothingHeld
<1>3. CASE \E v \in Variants, n \in 1 .. MaxQty : AddBegin(p, u, v, n) \/ SetBegin(p, u, v, n)
  <2>1. PICK v \in Variants, n \in 1 .. MaxQty : AddBegin(p, u, v, n) \/ SetBegin(p, u, v, n)
    BY <1>3
  <2>2. PICK op \in {"add", "set"} :
          Ask(p, [NoAsk EXCEPT !.op = op, !.u = u, !.v = v, !.n = n, !.seen = line[u][v]])
    BY <2>1 DEF AddBegin, SetBegin
  <2> DEFINE s == [NoAsk EXCEPT !.op = op, !.u = u, !.v = v, !.n = n, !.seen = line[u][v]]
  <2>3. ask' = [ask EXCEPT ![p] = s]
    BY <2>2 DEF Ask
  <2>4. n \in Nat /\ line[u][v] \in Nat
    BY CartAssumption DEF StockInv, CartTypes, Quantities
  <2>5. IsAsk(s) /\ s.op # "take" /\ s.held = {}
    BY <2>4, NoAskState DEF IsAsk, AskFields
  <2> HIDE DEF s
  <2> QED
    BY <1>1, <2>3, <2>5, NoAskState, NothingHeld
<1> QED
  BY <1>2, <1>3

LEMMA EditEnds ==
  ASSUME StockInv, UNCHANGED shop, NEW p \in Browsers, EditWrite(p) \/ AskFails(p)
  PROVE  StockInv'
<1>1. /\ ask' = [ask EXCEPT ![p] = NoAsk] /\ UNCHANGED <<stock, order, leaked>>
      /\ ask[p].op \in {"add", "set", "order"}
  BY DEF EditWrite, AskFails, Answered, CartRest
<1>2. IsAsk(ask[p]) /\ ask[p].held = {}
  BY <1>1 DEF StockInv, CartTypes, IsAsk
<1>3. line' \in [Customers -> Quantities]
  <2>1. CASE AskFails(p)
    BY <2>1 DEF AskFails, CartRest, StockInv, CartTypes
  <2>2. CASE EditWrite(p)
    <3>1. Edited(ask[p]) \in Nat /\ ask[p].u \in Customers /\ ask[p].v \in Variants
      BY <1>2, <2>2 DEF EditWrite, Edited, IsAsk
    <3> QED
      BY <2>2, <3>1 DEF EditWrite, StockInv, CartTypes, Quantities
  <2> QED
    BY <2>1, <2>2
<1> QED
  BY <1>1, <1>2, <1>3, NoAskState, NothingHeld

LEMMA LinesOrdered ==
  ASSUME CartTypes, NEW u \in Customers, NEW qty \in Quantities, Ordered(u, qty)
  PROVE  line' \in [Customers -> Quantities]
BY DEF CartTypes, Ordered, Quantities

\* An order on SQLite: what it takes from the stock is its items.
LEMMA OrderWritten ==
  ASSUME StockInv, UNCHANGED shop, NEW p \in Browsers, OrderWrite(p)
  PROVE  StockInv'
<1> DEFINE s == ask[p]
<1>1. /\ s.op = "order" /\ Free # {} /\ Ordered(s.u, s.bill.qty) /\ UNCHANGED leaked
      /\ ask' = [ask EXCEPT ![p] = NoAsk] /\ order' = [order EXCEPT ![NextOrder] = s.bill]
      /\ \A v \in Variants : s.bill.qty[v] <= stock[v]
      /\ stock' = [v \in Variants |-> stock[v] - s.bill.qty[v]]
  BY DEF OrderWrite, Answered
<1>2. /\ IsAsk(s) /\ s.held = {} /\ s.u \in Customers /\ IsOrder(s.bill) /\ s.bill.st = "pending"
      /\ s.bill.qty \in Quantities
  BY <1>1 DEF StockInv, CartTypes, IsAsk, IsOrder
<1>3. PICK o \in Orders : o = NextOrder /\ order[o] = NoOrder
  BY <1>1, NextOrderFree
<1>4. DOMAIN ask' = Browsers /\ ask'[p] = NoAsk /\ \A x \in Browsers \ {p} : ask'[x] = ask[x]
  BY <1>1 DEF StockInv, CartTypes
<1>5. DOMAIN order' = Orders /\ order'[o] = s.bill /\ \A x \in Orders \ {o} : order'[x] = order[x]
  BY <1>1, <1>3 DEF StockInv, CartTypes
<1>6. \A v \in Variants : /\ stock[v] \in Nat /\ s.bill.qty[v] \in Nat /\ stock'[v] = stock[v] - s.bill.qty[v]
                          /\ stock'[v] \in Nat
  BY <1>1, <1>2 DEF StockInv, CartTypes, Quantities
<1> HIDE DEF s
<1>7. CartTypes'
  <2>1. line' \in [Customers -> Quantities]
    BY <1>1, <1>2, LinesOrdered DEF StockInv
  <2>2. stock' \in Quantities
    BY <1>1, <1>6 DEF Quantities
  <2> QED
    BY <1>2, <1>4, <1>5, <2>1, <2>2, NoAskState DEF StockInv, CartTypes
<1>8. TakingInv'
  <2>1. \A x \in Browsers : ask[x].op = "take" => ask[x].id # o
    BY <1>3, NoOrderState DEF StockInv, TakingInv
  <2>2. \A x \in Browsers : ask[x].op = "take" => ask[x].id \in Orders
    BY DEF StockInv, CartTypes, IsAsk
  <2> QED
    BY <1>4, <1>5, <2>1, <2>2, NoAskState DEF StockInv, TakingInv
<1>9. \A v \in Variants : /\ Ordering(o, v) = 0 /\ Ordering(o, v)' = s.bill.qty[v]
                          /\ Reserving(p, v) = 0 /\ Reserving(p, v)' = 0
  BY <1>2, <1>3, <1>4, <1>5, NoOrderState, NoAskState DEF Ordering, Reserving, s
<1>10. StockAccounted'
  BY <1>1, <1>3, <1>4, <1>5, <1>6, <1>7, <1>9, StockFollows DEF StockInv
<1> QED
  BY <1>7, <1>8, <1>10 DEF StockInv

\* The row of an order on D1, which has no items yet.
LEMMA ShellMade ==
  ASSUME StockInv, UNCHANGED shop, NEW p \in Browsers, OrderShell(p)
  PROVE  StockInv'
<1> DEFINE s == ask[p]
           shell == [s.bill EXCEPT !.qty = Empty]
           left == {v \in Variants : s.bill.qty[v] > 0}
<1>1. /\ s.op = "order" /\ Free # {} /\ UNCHANGED <<leaked, line, stock>>
      /\ ask' = [ask EXCEPT ![p].op = "take", ![p].id = NextOrder, ![p].left = left]
      /\ order' = [order EXCEPT ![NextOrder] = shell]
  BY DEF OrderShell
<1>3. IsAsk(s) /\ s.held = {} /\ IsOrder(s.bill) /\ s.bill.st = "pending"
  BY <1>1 DEF StockInv, CartTypes, IsAsk
<1>4. PICK o \in Orders : o = NextOrder /\ order[o] = NoOrder
  BY <1>1, NextOrderFree
<1> DEFINE e == [s EXCEPT !.op = "take", !.id = o, !.left = left]
<1>2. ask' = [ask EXCEPT ![p] = e]
  BY <1>1, <1>4 DEF StockInv, CartTypes
<1>5. IsOrder(shell) /\ shell.st = "pending" /\ shell.qty = Empty
  BY <1>3, NoOrderState DEF IsOrder, OrderFields
<1>6. IsAsk(e) /\ e.op = "take" /\ e.id = o /\ e.held = {}
  <2> HIDE DEF s, left
  <2>1. /\ DOMAIN e = AskFields /\ e.op = "take" /\ e.id = o /\ e.left = left /\ e.held = s.held
        /\ e.u = s.u /\ e.n = s.n /\ e.seen = s.seen /\ e.bill = s.bill
    BY <1>3 DEF IsAsk, AskFields
  <2> HIDE DEF e
  <2>2. left \subseteq Variants /\ left = {v \in Variants : e.bill.qty[v] > 0}
    BY <2>1 DEF left
  <2>3. s.u \in Customers /\ s.n \in Nat /\ s.seen \in Nat
    BY <1>1, <1>3 DEF IsAsk
  <2> QED
    BY <1>3, <1>4, <2>1, <2>2, <2>3 DEF IsAsk
<1> HIDE DEF shell, e, left
<1>7. DOMAIN ask' = Browsers /\ ask'[p] = e /\ \A x \in Browsers \ {p} : ask'[x] = ask[x]
  BY <1>2 DEF StockInv, CartTypes
<1>8. DOMAIN order' = Orders /\ order'[o] = shell /\ \A x \in Orders \ {o} : order'[x] = order[x]
  BY <1>1, <1>4 DEF StockInv, CartTypes
<1>9. CartTypes'
  BY <1>1, <1>5, <1>6, <1>7, <1>8 DEF StockInv, CartTypes
<1>10. TakingInv'
  <2>1. \A x \in Browsers : ask[x].op = "take" => ask[x].id # o
    BY <1>4, NoOrderState DEF StockInv, TakingInv
  <2>2. \A x \in Browsers : ask[x].op = "take" => ask[x].id \in Orders
    BY DEF StockInv, CartTypes, IsAsk
  <2> QED
    BY <1>5, <1>6, <1>7, <1>8, <2>1, <2>2 DEF StockInv, TakingInv
<1>11. \A v \in Variants : /\ Ordering(o, v) = 0 /\ Ordering(o, v)' = 0
                           /\ Reserving(p, v) = 0 /\ Reserving(p, v)' = 0
  BY <1>3, <1>4, <1>5, <1>6, <1>7, <1>8, NoOrderState DEF Ordering, Reserving
<1>12. \A v \in Variants : stock[v] \in Nat /\ stock'[v] = stock[v]
  BY <1>1 DEF StockInv, CartTypes, Quantities
<1>13. StockAccounted'
  BY <1>1, <1>4, <1>7, <1>8, <1>9, <1>11, <1>12, StockFollows DEF StockInv
<1> QED
  BY <1>9, <1>10, <1>13 DEF StockInv

\* A line is taken on D1, or given back.
LEMMA LineMoves ==
  ASSUME StockInv, UNCHANGED shop, NEW p \in Browsers, OrderTake(p) \/ OrderUndo(p)
  PROVE  StockInv'
<1> DEFINE s == ask[p]
<1>1. IsAsk(s) /\ UNCHANGED <<line, order, leaked>> /\ s.op \in {"take", "undo"}
  BY DEF OrderTake, OrderUndo, StockInv, CartTypes
<1>2. \A v \in Variants : stock[v] \in Nat /\ s.bill.qty[v] \in Nat
  BY <1>1 DEF StockInv, CartTypes, IsAsk, IsOrder, Quantities
<1>3. \A x, v : Ordering(x, v)' = Ordering(x, v)
  BY <1>1 DEF Ordering
<1>4. ASSUME NEW e, IsAsk(e), ask' = [ask EXCEPT ![p] = e], stock' \in Quantities,
             e.op = "take" => s.op = "take" /\ e.id = s.id,
             \A v \in Variants : stock'[v] + (IF v \in e.held THEN e.bill.qty[v] ELSE 0)
                                   = stock[v] + (IF v \in s.held THEN s.bill.qty[v] ELSE 0)
      PROVE  StockInv'
  <2>1. DOMAIN ask' = Browsers /\ ask'[p] = e /\ \A x \in Browsers \ {p} : ask'[x] = ask[x]
    BY <1>4 DEF StockInv, CartTypes
  <2>2. CartTypes'
    BY <1>1, <1>4, <2>1 DEF StockInv, CartTypes
  <2>3. TakingInv'
    BY <1>1, <1>4, <2>1 DEF StockInv, TakingInv
  <2>4. 0 \notin Orders
    BY DEF Orders
  <2>5. \A v \in Variants : stock'[v] + Reserving(p, v)' = stock[v] + Reserving(p, v)
    BY <1>4, <2>1 DEF Reserving
  <2>6. \A v \in Variants : /\ stock'[v] \in Nat /\ Reserving(p, v) \in Nat /\ Reserving(p, v)' \in Nat
    BY <1>2, <1>4, <2>1 DEF Quantities, Reserving, IsAsk, IsOrder
  <2>7. StockAccounted'
    BY <1>1, <1>2, <2>1, <2>2, <2>4, <2>5, <2>6, StockFollows DEF StockInv
  <2> QED
    BY <2>2, <2>3, <2>7 DEF StockInv
<1>5. CASE OrderTake(p)
  <2>1. PICK v \in s.left :
          IF s.bill.qty[v] <= stock[v]
          THEN /\ stock' = [stock EXCEPT ![v] = @ - s.bill.qty[v]]
               /\ ask' = [ask EXCEPT ![p].left = @ \ {v}, ![p].held = @ \cup {v}]
          ELSE ask' = [ask EXCEPT ![p].op = "undo", ![p].left = {v}] /\ UNCHANGED stock
    BY <1>5 DEF OrderTake
  <2>2. s.op = "take" /\ v \in Variants /\ v \notin s.held
    BY <1>1, <1>5 DEF OrderTake, IsAsk
  <2>3. CASE s.bill.qty[v] <= stock[v]
    <3> DEFINE e == [s EXCEPT !.left = @ \ {v}, !.held = @ \cup {v}]
    <3>1. ask' = [ask EXCEPT ![p] = e] /\ stock' = [stock EXCEPT ![v] = @ - s.bill.qty[v]]
      BY <2>1, <2>3 DEF StockInv, CartTypes
    <3>2. IsAsk(e) /\ e.op = s.op /\ e.id = s.id /\ e.held = s.held \cup {v} /\ e.bill = s.bill
      BY <1>1, <2>1, <2>2 DEF IsAsk, AskFields
    <3> HIDE DEF e
    <3>3. stock' \in Quantities /\ stock'[v] = stock[v] - s.bill.qty[v] /\ \A x \in Variants \ {v} : stock'[x] = stock[x]
      BY <1>2, <2>2, <2>3, <3>1 DEF StockInv, CartTypes, Quantities
    <3> HIDE DEF s
    <3>4. \A x \in Variants : stock'[x] + (IF x \in e.held THEN e.bill.qty[x] ELSE 0)
                                = stock[x] + (IF x \in s.held THEN s.bill.qty[x] ELSE 0)
      BY <1>2, <2>2, <3>2, <3>3
    <3> QED
      BY <1>4, <2>2, <3>1, <3>2, <3>3, <3>4
  <2>4. CASE ~(s.bill.qty[v] <= stock[v])
    <3> DEFINE e == [s EXCEPT !.op = "undo", !.left = {v}]
    <3>1. ask' = [ask EXCEPT ![p] = e] /\ stock' = stock
      BY <2>1, <2>4 DEF StockInv, CartTypes
    <3>2. IsAsk(e) /\ e.op = "undo" /\ e.held = s.held /\ e.bill = s.bill
      BY <1>1, <2>2 DEF IsAsk, AskFields
    <3> HIDE DEF e, s
    <3>3. stock' \in Quantities
      BY <3>1 DEF StockInv, CartTypes
    <3>4. \A x \in Variants : stock'[x] + (IF x \in e.held THEN e.bill.qty[x] ELSE 0)
                                = stock[x] + (IF x \in s.held THEN s.bill.qty[x] ELSE 0)
      BY <3>1, <3>2
    <3> QED
      BY <1>4, <3>1, <3>2, <3>3, <3>4
  <2> QED
    BY <2>3, <2>4
<1>6. CASE OrderUndo(p)
  <2>1. CASE s.held = {}
    <3>1. ask' = [ask EXCEPT ![p] = NoAsk] /\ stock' = stock
      BY <1>6, <2>1 DEF OrderUndo, Taken, Answered
    <3>2. stock' \in Quantities
      BY <3>1 DEF StockInv, CartTypes
    <3>3. \A x \in Variants : stock'[x] + (IF x \in NoAsk.held THEN NoAsk.bill.qty[x] ELSE 0)
                                = stock[x] + (IF x \in s.held THEN s.bill.qty[x] ELSE 0)
      BY <2>1, <3>1, NoAskState
    <3> QED
      BY <1>4, <3>1, <3>2, <3>3, NoAskState
  <2>2. CASE s.held # {}
    <3>1. PICK v \in s.held : /\ stock' = [stock EXCEPT ![v] = @ + s.bill.qty[v]]
                              /\ ask' = [ask EXCEPT ![p].held = @ \ {v}, ![p].left = {}]
      BY <1>6, <2>2 DEF OrderUndo, Taken
    <3> DEFINE e == [s EXCEPT !.held = @ \ {v}, !.left = {}]
    <3>2. ask' = [ask EXCEPT ![p] = e] /\ s.op = "undo" /\ v \in Variants
      BY <1>1, <1>6, <3>1 DEF StockInv, CartTypes, OrderUndo, IsAsk
    <3>3. IsAsk(e) /\ e.op = "undo" /\ e.held = s.held \ {v} /\ e.bill = s.bill
      BY <1>1, <3>2 DEF IsAsk, AskFields
    <3> HIDE DEF e
    <3>4. stock' \in Quantities /\ stock'[v] = stock[v] + s.bill.qty[v] /\ \A x \in Variants \ {v} : stock'[x] = stock[x]
      BY <1>2, <3>1, <3>2 DEF StockInv, CartTypes, Quantities
    <3> HIDE DEF s
    <3>5. \A x \in Variants : stock'[x] + (IF x \in e.held THEN e.bill.qty[x] ELSE 0)
                                = stock[x] + (IF x \in s.held THEN s.bill.qty[x] ELSE 0)
      BY <1>2, <3>1, <3>3, <3>4
    <3> QED
      BY <1>4, <3>2, <3>3, <3>4, <3>5
  <2> QED
    BY <2>1, <2>2
<1> QED
  BY <1>5, <1>6

\* The units in hand, as the requests stand.
LEMMA InHandType ==
  ASSUME CartTypes, NEW v \in Variants
  PROVE  InHand(v) \in Nat
<1> DEFINE f == [x \in Browsers |-> Reserving(x, v)]
<1>1. \A x \in Browsers : f[x] \in Nat
  BY DEF Reserving, CartTypes, IsAsk, IsOrder, Quantities
<1>2. InHand(v) = SumFunctionOnSet(f, Browsers)
  BY DEF InHand
<1> HIDE DEF f
<1> QED
  BY <1>1, <1>2, SumType, CartAssumption

\* The items of an order on D1 follow what was taken for them.
LEMMA ItemsStored ==
  ASSUME StockInv, UNCHANGED shop, NEW p \in Browsers, OrderFinish(p)
  PROVE  StockInv'
<1> DEFINE s == ask[p]
<1>0. PICK o \in Orders : o = s.id
  BY DEF OrderFinish, StockInv, CartTypes, IsAsk
<1>1. /\ s.op = "take" /\ s.left = {} /\ Ordered(s.u, s.bill.qty) /\ UNCHANGED stock
      /\ ask' = [ask EXCEPT ![p] = NoAsk] /\ order' = [order EXCEPT ![o].qty = s.bill.qty]
      /\ leaked' = (leaked \/ order[o].st # "pending")
  BY <1>0 DEF OrderFinish, Answered
<1>2. /\ IsAsk(s) /\ s.u \in Customers /\ s.bill.qty \in Quantities
      /\ s.held = {v \in Variants : s.bill.qty[v] > 0}
  BY <1>1 DEF StockInv, CartTypes, IsAsk, IsOrder
<1>3. IsOrder(order[o]) /\ order[o].st # "none" /\ order[o].qty = Empty
  BY <1>0, <1>1, <1>2 DEF StockInv, CartTypes, TakingInv
<1>4. DOMAIN ask' = Browsers /\ ask'[p] = NoAsk /\ \A x \in Browsers \ {p} : ask'[x] = ask[x]
  BY <1>1 DEF StockInv, CartTypes
<1>5. /\ DOMAIN order' = Orders /\ \A x \in Orders \ {o} : order'[x] = order[x]
      /\ order'[o] = [order[o] EXCEPT !.qty = s.bill.qty]
  BY <1>1, <1>2 DEF StockInv, CartTypes
<1>6. IsOrder(order'[o]) /\ order'[o].st = order[o].st /\ order'[o].qty = s.bill.qty
  BY <1>2, <1>3, <1>5 DEF IsOrder, OrderFields
<1>7. CartTypes'
  <2>1. line' \in [Customers -> Quantities]
    BY <1>1, <1>2, LinesOrdered DEF StockInv
  <2>2. \A x \in Orders : IsOrder(order'[x])
    BY <1>5, <1>6 DEF StockInv, CartTypes
  <2>3. \A x \in Browsers : IsAsk(ask'[x])
    BY <1>4, NoAskState DEF StockInv, CartTypes
  <2> QED
    BY <1>1, <1>4, <1>5, <2>1, <2>2, <2>3 DEF StockInv, CartTypes
<1>8. TakingInv'
  <2>1. \A x \in Browsers : x # p /\ ask[x].op = "take" => ask[x].id # o
    BY <1>0, <1>1 DEF StockInv, TakingInv
  <2>2. \A x \in Browsers : ask[x].op = "take" => ask[x].id \in Orders
    BY DEF StockInv, CartTypes, IsAsk
  <2> QED
    BY <1>4, <1>5, <2>1, <2>2, NoAskState DEF StockInv, TakingInv
<1>9. \A v \in Variants : s.bill.qty[v] \in Nat /\ stock[v] \in Nat
  BY <1>2 DEF StockInv, CartTypes, Quantities
<1>10. \A v \in Variants : Reserving(p, v) = s.bill.qty[v] /\ Reserving(p, v)' = 0
  BY <1>2, <1>4, <1>9, NoAskState DEF Reserving
<1> HIDE DEF s
<1>11. \A v \in Variants : /\ Ordering(o, v) = 0
                           /\ Ordering(o, v)' = IF order[o].st = "pending" THEN s.bill.qty[v] ELSE 0
  BY <1>3, <1>6, NoOrderState DEF Ordering
<1>12. \A v \in Variants :
         /\ stock'[v] + (IF o \in Orders THEN Ordering(o, v)' ELSE 0) + Reserving(p, v)'
              <= stock[v] + (IF o \in Orders THEN Ordering(o, v) ELSE 0) + Reserving(p, v)
         /\ ~leaked' => stock'[v] + (IF o \in Orders THEN Ordering(o, v)' ELSE 0) + Reserving(p, v)'
                          = stock[v] + (IF o \in Orders THEN Ordering(o, v) ELSE 0) + Reserving(p, v)
  <2> SUFFICES ASSUME NEW v \in Variants
               PROVE  /\ stock'[v] + Ordering(o, v)' + Reserving(p, v)' <= stock[v] + Ordering(o, v) + Reserving(p, v)
                      /\ ~leaked' => stock'[v] + Ordering(o, v)' + Reserving(p, v)'
                                       = stock[v] + Ordering(o, v) + Reserving(p, v)
    OBVIOUS
  <2>1. stock'[v] = stock[v] /\ stock[v] \in Nat /\ s.bill.qty[v] \in Nat
    BY <1>1, <1>9
  <2>2. order[o].st # "pending" => leaked'
    BY <1>1
  <2>3. /\ Ordering(o, v) = 0 /\ Reserving(p, v) = s.bill.qty[v] /\ Reserving(p, v)' = 0
        /\ Ordering(o, v)' = IF order[o].st = "pending" THEN s.bill.qty[v] ELSE 0
    BY <1>10, <1>11
  <2>4. CASE order[o].st = "pending"
    BY <2>1, <2>3, <2>4
  <2>5. CASE order[o].st # "pending"
    BY <2>1, <2>2, <2>3, <2>5
  <2> QED
    BY <2>4, <2>5
<1>13. leaked => leaked'
  BY <1>1
<1>14. StockAccounted'
  BY <1>4, <1>5, <1>7, <1>12, <1>13, StockFollows DEF StockInv
<1> QED
  BY <1>7, <1>8, <1>14 DEF StockInv

\* The stock and what each order and each request hold stay as they are.
LEMMA NothingMoves ==
  ASSUME StockInv, UNCHANGED <<shop, stock, ask, leaked>>, line' \in [Customers -> Quantities],
         DOMAIN order' = Orders,
         \A o \in Orders : /\ IsOrder(order'[o])
                           /\ order'[o].st = order[o].st /\ order'[o].qty = order[o].qty
  PROVE  StockInv'
<1>1. CartTypes'
  BY DEF StockInv, CartTypes
<1>2. \A p \in Browsers : ask[p].op = "take" => ask[p].id \in Orders
  BY DEF StockInv, CartTypes, IsAsk
<1>3. TakingInv'
  BY <1>2 DEF StockInv, TakingInv
<1>4. \A v \in Variants : InHand(v)' = InHand(v) /\ InHand(v) \in Nat
  BY InHandType DEF StockInv, InHand, Reserving
<1>5. \A v \in Variants : InOrders(v)' = InOrders(v)
  <2>1. \A v : [o \in Orders |-> IF order'[o].st = "pending" THEN order'[o].qty[v] ELSE 0]
                 = [o \in Orders |-> IF order[o].st = "pending" THEN order[o].qty[v] ELSE 0]
    OBVIOUS
  <2> QED
    BY <2>1 DEF InOrders, Ordering
<1>6. \A v \in Variants : Held(v) = InOrders(v) + InHand(v) /\ Held(v)' = InOrders(v)' + InHand(v)'
  BY DEF Held, InOrders, InHand
<1>7. StockAccounted'
  BY <1>4, <1>5, <1>6 DEF StockInv, StockAccounted
<1> QED
  BY <1>1, <1>3, <1>7 DEF StockInv

LEMMA CartEdited ==
  ASSUME StockInv, UNCHANGED shop,
         \/ \E o \in Orders : Checkout(o)
         \/ \E v \in Variants : Relist(v)
         \/ \E u \in Customers, vs \in SUBSET Variants : RemoveLines(u, vs)
         \/ \E u \in Customers : CartAges(u)
  PROVE  StockInv'
<1>1. CASE \E o \in Orders : Checkout(o)
  <2>1. PICK o \in Orders, under \in Conditions :
          order' = [order EXCEPT ![o].under = under, ![o].charges = Quote(order[o].qty, RepricedAt(o), under)]
    BY <1>1 DEF Checkout
  <2> DEFINE charges == Quote(order[o].qty, RepricedAt(o), under)
             r == [order[o] EXCEPT !.under = under, !.charges = charges]
  <2>2. order' = [order EXCEPT ![o] = r] /\ UNCHANGED <<line, stock, ask, leaked>>
    BY <1>1, <2>1 DEF Checkout, StockInv, CartTypes
  <2>3. IsOrder(r) /\ r.st = order[o].st /\ r.qty = order[o].qty
    <3> HIDE DEF charges
    <3> QED
      BY DEF StockInv, CartTypes, IsOrder, OrderFields
  <2> HIDE DEF r
  <2>4. /\ DOMAIN order' = Orders
        /\ \A x \in Orders : /\ IsOrder(order'[x])
                             /\ order'[x].st = order[x].st /\ order'[x].qty = order[x].qty
    BY <2>2, <2>3 DEF StockInv, CartTypes
  <2>5. line' \in [Customers -> Quantities]
    BY <2>2 DEF StockInv, CartTypes
  <2> QED
    BY <2>2, <2>4, <2>5, NothingMoves
<1>2. CASE (\E v \in Variants : Relist(v)) \/ (\E u \in Customers : CartAges(u))
  <2>1. UNCHANGED <<line, stock, order, ask, leaked>>
    BY <1>2 DEF Relist, CartAges
  <2>2. line' \in [Customers -> Quantities] /\ DOMAIN order' = Orders /\ \A o \in Orders : IsOrder(order'[o])
    BY <2>1 DEF StockInv, CartTypes
  <2> QED
    BY <2>1, <2>2, NothingMoves
<1>3. CASE \E u \in Customers, vs \in SUBSET Variants : RemoveLines(u, vs)
  <2>1. UNCHANGED <<stock, order, ask, leaked>> /\ line' \in [Customers -> Quantities]
    BY <1>3 DEF RemoveLines, StockInv, CartTypes, Quantities
  <2>2. DOMAIN order' = Orders /\ \A o \in Orders : IsOrder(order'[o])
    BY <2>1 DEF StockInv, CartTypes
  <2> QED
    BY <2>1, <2>2, NothingMoves
<1> QED
  BY <1>1, <1>2, <1>3

LEMMA OrderCancelled ==
  ASSUME StockInv, UNCHANGED shop, NEW o \in Orders, Cancel(o)
  PROVE  StockInv'
<1> DEFINE r == [NoOrder EXCEPT !.st = "cancelled", !.who = order[o].who]
<1>1. /\ order[o].st = "pending" /\ order' = [order EXCEPT ![o] = r]
      /\ stock' = [v \in Variants |-> stock[v] + order[o].qty[v]]
      /\ UNCHANGED <<line, ask, leaked>>
  BY DEF Cancel
<1>2. IsOrder(r) /\ r.st = "cancelled" /\ r.qty = Empty
  BY NoOrderState DEF IsOrder, OrderFields
<1> HIDE DEF r
<1>3. DOMAIN order' = Orders /\ order'[o] = r /\ \A x \in Orders \ {o} : order'[x] = order[x]
  BY <1>1 DEF StockInv, CartTypes
<1>4. \A v \in Variants : /\ stock[v] \in Nat /\ order[o].qty[v] \in Nat /\ stock'[v] = stock[v] + order[o].qty[v]
  BY <1>1 DEF StockInv, CartTypes, IsOrder, Quantities
<1>5. CartTypes'
  <2>1. stock' \in Quantities
    BY <1>1, <1>4 DEF Quantities
  <2>2. \A x \in Orders : IsOrder(order'[x])
    BY <1>2, <1>3 DEF StockInv, CartTypes
  <2> QED
    BY <1>1, <1>3, <2>1, <2>2 DEF StockInv, CartTypes
<1>6. TakingInv'
  <2>1. \A x \in Browsers : ask[x].op = "take" => ask[x].id \in Orders
    BY DEF StockInv, CartTypes, IsAsk
  <2> QED
    BY <1>1, <1>2, <1>3, <2>1 DEF StockInv, TakingInv
<1>7. ASSUME NEW v \in Variants
      PROVE  stock'[v] + Held(v)' = stock[v] + Held(v)
  <2>1. Held(v) = InOrders(v) + InHand(v) /\ Held(v)' = InOrders(v)' + InHand(v)'
    BY DEF Held, InOrders, InHand
  <2>2. InHand(v)' = InHand(v) /\ InHand(v) \in Nat
    BY <1>1, InHandType DEF StockInv, InHand, Reserving
  <2>3. /\ InOrders(v) \in Nat /\ InOrders(v)' \in Nat
        /\ InOrders(v)' + Ordering(o, v) = InOrders(v) + Ordering(o, v)'
    BY <1>3, <1>5, OrdersChange DEF StockInv
  <2>4. Ordering(o, v) = order[o].qty[v] /\ Ordering(o, v)' = 0
    BY <1>1, <1>2, <1>3 DEF Ordering
  <2> QED
    BY <1>4, <2>1, <2>2, <2>3, <2>4
<1>8. StockAccounted'
  BY <1>1, <1>7 DEF StockInv, StockAccounted
<1> QED
  BY <1>5, <1>6, <1>8 DEF StockInv

\* With the process goes what its requests had in hand.
LEMMA HandsDropped ==
  ASSUME StockInv, UNCHANGED shop, DropCart
  PROVE  StockInv'
<1>1. /\ ask' = [p \in Browsers |-> NoAsk] /\ UNCHANGED <<line, stock, order>>
      /\ leaked' = (leaked \/ \E p \in Browsers : ask[p].held # {})
  BY DEF DropCart
<1>2. DOMAIN ask' = Browsers /\ \A p \in Browsers : ask'[p] = NoAsk
  BY <1>1
<1>3. CartTypes'
  BY <1>1, <1>2, NoAskState DEF StockInv, CartTypes
<1>4. TakingInv'
  BY <1>2, NoAskState DEF TakingInv
<1>5. ASSUME NEW v \in Variants
      PROVE  /\ stock'[v] + Held(v)' <= shop.stock
             /\ ~leaked' => stock'[v] + Held(v)' = shop.stock
  <2>1. Held(v) = InOrders(v) + InHand(v) /\ Held(v)' = InOrders(v)' + InHand(v)'
    BY DEF Held, InOrders, InHand
  <2>2. InOrders(v)' = InOrders(v) /\ InOrders(v) \in Nat
    <3>1. \A x \in Orders \ {0} : order'[x] = order[x]
      BY <1>1
    <3>2. \A x : Ordering(x, v)' = Ordering(x, v)
      BY <1>1 DEF Ordering
    <3> QED
      BY <1>1, <1>3, <3>1, <3>2, OrdersChange DEF StockInv, InOrders, Ordering
  <2>3. InHand(v) \in Nat /\ InHand(v)' = 0
    <3> DEFINE f == [p \in Browsers |-> IF v \in ask'[p].held THEN ask'[p].bill.qty[v] ELSE 0]
    <3>1. \A p \in Browsers : f[p] = 0
      BY <1>2, NoAskState
    <3>2. InHand(v)' = SumFunctionOnSet(f, Browsers)
      BY DEF InHand, Reserving
    <3> HIDE DEF f
    <3> QED
      BY <3>1, <3>2, InHandType, SumZero, CartAssumption DEF StockInv
  <2>4. ~leaked' => InHand(v) = 0
    <3>1. SUFFICES ASSUME ~leaked' PROVE InHand(v) = 0
      OBVIOUS
    <3> DEFINE f == [p \in Browsers |-> Reserving(p, v)]
    <3>2. \A p \in Browsers : f[p] = 0
      BY <1>1, <3>1 DEF Reserving
    <3>3. InHand(v) = SumFunctionOnSet(f, Browsers)
      BY DEF InHand
    <3> HIDE DEF f
    <3> QED
      BY <3>2, <3>3, SumZero, CartAssumption
  <2>5. stock'[v] = stock[v] /\ stock[v] \in Nat /\ shop.stock \in Nat
    BY <1>1, ShopAssumption DEF StockInv, CartTypes, Quantities
  <2>6. stock[v] + Held(v) <= shop.stock /\ (~leaked => stock[v] + Held(v) = shop.stock)
    BY DEF StockInv, StockAccounted
  <2>7. ~leaked' => ~leaked
    BY <1>1
  <2> QED
    BY <2>1, <2>2, <2>3, <2>4, <2>5, <2>6, <2>7
<1>6. StockAccounted'
  BY <1>5 DEF StockAccounted
<1> QED
  BY <1>3, <1>4, <1>6 DEF StockInv

LEMMA StockStep ==
  ASSUME StockInv, [Next]_vars
  PROVE  StockInv'
<1>1. UNCHANGED shop /\ (UNCHANGED cartVars \/ CartStep \/ DropCart)
  BY NextCart
<1>2. CASE UNCHANGED cartVars
  <2>1. line' \in [Customers -> Quantities] /\ DOMAIN order' = Orders /\ \A o \in Orders : IsOrder(order'[o])
    BY <1>2 DEF cartVars, StockInv, CartTypes
  <2> QED
    BY <1>1, <1>2, <2>1, NothingMoves DEF cartVars
<1>3. CASE CartStep
  <2>1. shop.browsers \subseteq Browsers /\ shop.customers \subseteq Customers /\ shop.variants \subseteq Variants
    BY ShopAssumption DEF StockInv, CartTypes
  <2>2. ASSUME NEW u \in Customers PROVE Lines(u) \in SUBSET Variants
    BY DEF Lines
  <2>3. CASE \E p \in Browsers : EditWrite(p) \/ AskFails(p)
    BY <1>1, <2>3, EditEnds
  <2>4. CASE \E p \in Browsers : OrderWrite(p)
    BY <1>1, <2>4, OrderWritten
  <2>5. CASE \E p \in Browsers : OrderShell(p)
    BY <1>1, <2>5, ShellMade
  <2>6. CASE \E p \in Browsers : OrderTake(p) \/ OrderUndo(p)
    BY <1>1, <2>6, LineMoves
  <2>7. CASE \E p \in Browsers : OrderFinish(p)
    BY <1>1, <2>7, ItemsStored
  <2>8. CASE \E p \in Browsers, u \in Customers :
               \/ OrderBegin(p, u)
               \/ \E v \in Variants, n \in 1 .. MaxQty : AddBegin(p, u, v, n) \/ SetBegin(p, u, v, n)
    BY <1>1, <2>8, RequestBegins
  <2>9. CASE \/ \E o \in Orders : Checkout(o)
             \/ \E v \in Variants : Relist(v)
             \/ \E u \in Customers, vs \in SUBSET Variants : RemoveLines(u, vs)
             \/ \E u \in Customers : CartAges(u)
    BY <1>1, <2>9, CartEdited
  <2>10. CASE \E o \in Orders : Cancel(o)
    BY <1>1, <2>10, OrderCancelled
  <2>11. ASSUME NEW u \in Customers, RemoveLines(u, Lines(u)) \/ \E v \in Lines(u) : RemoveLines(u, {v})
         PROVE  \E vs \in SUBSET Variants : RemoveLines(u, vs)
    <3>1. \A v \in Lines(u) : {v} \in SUBSET Variants
      BY <2>2
    <3> QED
      BY <2>2, <2>11, <3>1
  <2> QED
    BY <1>3, <2>1, <2>3, <2>4, <2>5, <2>6, <2>7, <2>8, <2>9, <2>10, <2>11 DEF CartStep
<1>4. CASE DropCart
  BY <1>1, <1>4, HandsDropped
<1> QED
  BY <1>1, <1>2, <1>3, <1>4

LEMMA StockInit ==
  ASSUME Init
  PROVE  StockInv
<1>1. /\ shop \in Shops /\ line = [u \in Customers |-> Empty] /\ stock = [v \in Variants |-> shop.stock]
      /\ order = [o \in Orders |-> NoOrder] /\ ask = [p \in Browsers |-> NoAsk]
  BY DEF Init, CartInit
<1>2. CartTypes
  <2>1. stock \in Quantities /\ line \in [Customers -> Quantities]
    BY <1>1, NoOrderState, ShopAssumption DEF Quantities
  <2>2. DOMAIN order = Orders /\ \A o \in Orders : IsOrder(order[o])
    BY <1>1, NoOrderState
  <2>3. DOMAIN ask = Browsers /\ \A p \in Browsers : IsAsk(ask[p])
    BY <1>1, NoAskState
  <2> QED
    BY <1>1, <2>1, <2>2, <2>3 DEF CartTypes
<1>3. TakingInv
  BY <1>1, NoAskState DEF TakingInv
<1>4. ASSUME NEW v \in Variants
      PROVE  stock[v] + Held(v) = shop.stock /\ stock[v] + Held(v) <= shop.stock
  <2> DEFINE f == [o \in Orders |-> Ordering(o, v)]
             g == [p \in Browsers |-> Reserving(p, v)]
  <2>1. (\A o \in Orders : f[o] = 0) /\ (\A p \in Browsers : g[p] = 0)
    BY <1>1, NoOrderState, NoAskState DEF Ordering, Reserving
  <2>2. Held(v) = SumFunctionOnSet(f, Orders) + SumFunctionOnSet(g, Browsers)
    BY DEF Held
  <2> HIDE DEF f, g
  <2>3. IsFiniteSet(Orders) /\ IsFiniteSet(Browsers)
    BY CartAssumption, FS_Interval DEF Orders
  <2>4. SumFunctionOnSet(f, Orders) = 0 /\ SumFunctionOnSet(g, Browsers) = 0
    BY <2>1, <2>3, SumZero
  <2>5. stock[v] = shop.stock /\ shop.stock \in Nat
    BY <1>1, ShopAssumption
  <2> QED
    BY <2>2, <2>4, <2>5
<1> QED
  BY <1>2, <1>3, <1>4 DEF StockInv, StockAccounted

LEMMA StockAlways == Spec => []StockInv
BY StockInit, StockStep, PTL DEF Spec

\* StockAccounted: a variant's stock and what pending orders and requests hold of it
\* never exceed what there was, and add up to it until a process dies or an order is
\* cancelled with units in hand, though on D1 reserve_order_inventory takes and gives
\* back line by line.
THEOREM UnitsAreAccounted == Spec => []StockAccounted
<1>1. StockInv => StockAccounted
  BY DEF StockInv
<1> QED
  BY <1>1, StockAlways, PTL

-----------------------------------------------------------------------------
(* What is in a cart *)

\* A cart with lines has its row, no line exceeds the bound, nor will one a request is
\* about to write.
CartFits ==
  /\ cart \in [Customers -> {"none", "new", "old"}]
  /\ \A u \in Customers, v \in Variants : line[u][v] > 0 => line[u][v] <= MaxQty /\ cart[u] # "none"
  /\ \A p \in Browsers : /\ ask[p].op = "add" => ask[p].seen + ask[p].n <= MaxQty
                         /\ ask[p].op = "set" => ask[p].n <= MaxQty

\* No cart loses its row, a line grows only in one that has it, and no request takes up
\* more than fits.
LEMMA LinesFit ==
  ASSUME CartTypes, CartTypes', CartFits, cart' \in [Customers -> {"none", "new", "old"}],
         \A u \in Customers : cart[u] # "none" => cart'[u] # "none",
         \A u \in Customers, v \in Variants :
           line'[u][v] <= line[u][v] \/ (line'[u][v] <= MaxQty /\ cart'[u] # "none"),
         \A p \in Browsers : \/ ask'[p] = ask[p]
                             \/ ask'[p].op \notin {"add", "set"}
                             \/ ask'[p].op = "add" /\ ask'[p].seen + ask'[p].n <= MaxQty
                             \/ ask'[p].op = "set" /\ ask'[p].n <= MaxQty
  PROVE  CartFits'
<1>1. ASSUME NEW u \in Customers, NEW v \in Variants, line'[u][v] > 0
      PROVE  line'[u][v] <= MaxQty /\ cart'[u] # "none"
  <2>1. line[u][v] \in Nat /\ line'[u][v] \in Nat /\ MaxQty \in Nat
    BY CartAssumption DEF CartTypes, Quantities
  <2>2. CASE line'[u][v] <= line[u][v]
    <3>1. line[u][v] <= MaxQty /\ cart[u] # "none"
      BY <1>1, <2>1, <2>2 DEF CartFits
    <3> QED
      BY <2>1, <2>2, <3>1
  <2> QED
    BY <2>2
<1>2. ASSUME NEW p \in Browsers
      PROVE  /\ ask'[p].op = "add" => ask'[p].seen + ask'[p].n <= MaxQty
             /\ ask'[p].op = "set" => ask'[p].n <= MaxQty
  BY DEF CartFits
<1> QED
  BY <1>1, <1>2 DEF CartFits

LEMMA LinesEdited ==
  ASSUME CartTypes, CartTypes', CartFits, NEW p \in Browsers, EditWrite(p)
  PROVE  CartFits'
<1> DEFINE s == ask[p]
<1>1. IsAsk(s) /\ s.op \in {"add", "set"} /\ s.u \in Customers /\ s.v \in Variants
  BY DEF EditWrite, CartTypes, IsAsk
<1>2. Edited(s) <= MaxQty
  BY <1>1 DEF CartFits, Edited
<1>3. cart' = [cart EXCEPT ![s.u] = IF @ = "none" THEN "new" ELSE @] /\ line' \in {line, [line EXCEPT ![s.u][s.v] = Edited(s)]}
      /\ ask' = [ask EXCEPT ![p] = NoAsk]
  BY DEF EditWrite, Answered
<1> HIDE DEF s
<1>4. cart' \in [Customers -> {"none", "new", "old"}] /\ cart'[s.u] # "none" /\ \A u \in Customers : cart[u] # "none" => cart'[u] # "none"
  BY <1>1, <1>3 DEF CartFits
<1>5. ASSUME NEW u \in Customers, NEW v \in Variants
      PROVE  line'[u][v] <= line[u][v] \/ (line'[u][v] <= MaxQty /\ cart'[u] # "none")
  <2>1. line[u][v] \in Nat /\ line \in [Customers -> Quantities]
    BY DEF CartTypes, Quantities
  <2>2. line'[u][v] = line[u][v] \/ (u = s.u /\ v = s.v /\ line'[u][v] = Edited(s))
    BY <1>1, <1>3, <2>1 DEF Quantities
  <2> QED
    BY <1>2, <1>4, <2>1, <2>2
<1>6. \A q \in Browsers : ask'[q] = ask[q] \/ ask'[q].op \notin {"add", "set"}
  BY <1>3, NoAskState DEF CartTypes
<1> QED
  BY <1>4, <1>5, <1>6, LinesFit

\* A request that edits no line, and lines that go.
LEMMA LinesGo ==
  ASSUME CartTypes, CartTypes', CartFits, cart' = cart,
         \/ line' = line
         \/ \E u \in Customers : \E vs : line' = [line EXCEPT ![u] = [v \in Variants |-> IF v \in vs THEN 0 ELSE @[v]]],
         \A p \in Browsers : \/ ask'[p] = ask[p]
                             \/ ask'[p].op \notin {"add", "set"}
                             \/ ask'[p].op = "add" /\ ask'[p].seen + ask'[p].n <= MaxQty
                             \/ ask'[p].op = "set" /\ ask'[p].n <= MaxQty
  PROVE  CartFits'
<1>1. ASSUME NEW u \in Customers, NEW v \in Variants
      PROVE  line'[u][v] <= line[u][v]
  <2>1. line[u][v] \in Nat /\ line \in [Customers -> Quantities]
    BY DEF CartTypes, Quantities
  <2>2. line'[u][v] \in {0, line[u][v]}
    BY <2>1
  <2> QED
    BY <2>1, <2>2
<1>2. cart' \in [Customers -> {"none", "new", "old"}]
  BY DEF CartFits
<1> QED
  BY <1>1, <1>2, LinesFit

LEMMA CartFitsStep ==
  ASSUME StockInv, StockInv', CartFits, [Next]_vars
  PROVE  CartFits'
<1>1. UNCHANGED cartVars \/ CartStep \/ DropCart
  BY NextCart
<1>2. CartTypes /\ CartTypes' /\ DOMAIN ask = Browsers /\ \A p \in Browsers : IsAsk(ask[p])
  BY DEF StockInv, CartTypes
<1>3. CASE UNCHANGED <<cart, line, ask>>
  BY <1>3 DEF CartFits
<1>4. ASSUME NEW p \in Browsers,
             EditWrite(p) \/ OrderWrite(p) \/ OrderShell(p) \/ OrderTake(p) \/ OrderUndo(p) \/ OrderFinish(p) \/ AskFails(p)
      PROVE  CartFits'
  <2>1. CASE EditWrite(p)
    BY <1>2, <2>1, LinesEdited
  <2>2. CASE OrderWrite(p) \/ OrderFinish(p)
    <3> DEFINE s == ask[p]
               vs == {v \in Variants : s.bill.qty[v] > 0}
    <3>1. cart' = cart /\ ask' = [ask EXCEPT ![p] = NoAsk] /\ s.u \in Customers
          /\ line' = [line EXCEPT ![s.u] = [v \in Variants |-> IF s.bill.qty[v] > 0 THEN 0 ELSE @[v]]]
      BY <1>2, <2>2 DEF OrderWrite, OrderFinish, Answered, Ordered, IsAsk
    <3>2. line' = [line EXCEPT ![s.u] = [v \in Variants |-> IF v \in vs THEN 0 ELSE @[v]]]
      BY <3>1
    <3>3. \A q \in Browsers : ask'[q] = ask[q] \/ ask'[q].op \notin {"add", "set"}
      BY <1>2, <3>1, NoAskState
    <3> HIDE DEF s, vs
    <3> QED
      BY <1>2, <3>1, <3>2, <3>3, LinesGo
  <2>3. CASE OrderShell(p) \/ OrderTake(p) \/ OrderUndo(p) \/ AskFails(p)
    <3>1. cart' = cart /\ line' = line /\ \A q \in Browsers \ {p} : ask'[q] = ask[q]
      BY <1>2, <2>3 DEF OrderShell, OrderTake, OrderUndo, AskFails, CartRest, Answered
    <3>2. CASE OrderShell(p)
      <4>1. ask'[p].op = "take"
        BY <1>2, <3>2 DEF OrderShell, IsAsk, AskFields
      <4> QED
        BY <1>2, <3>1, <4>1, LinesGo
    <3>3. CASE OrderTake(p) \/ OrderUndo(p)
      <4>1. ask'[p].op \in {"take", "undo", "none"}
        <5>1. CASE OrderTake(p)
          <6>1. PICK v \in ask[p].left :
                  \/ ask' = [ask EXCEPT ![p].left = @ \ {v}, ![p].held = @ \cup {v}]
                  \/ ask' = [ask EXCEPT ![p].op = "undo", ![p].left = {v}]
            BY <5>1 DEF OrderTake
          <6>2. ask[p].op = "take"
            BY <5>1 DEF OrderTake
          <6> QED
            BY <1>2, <6>1, <6>2 DEF IsAsk, AskFields
        <5>2. CASE OrderUndo(p)
          <6>1. ask[p].op = "undo"
            BY <5>2 DEF OrderUndo
          <6>2. \/ ask' = [ask EXCEPT ![p] = NoAsk]
                \/ \E v \in Taken(ask[p]) : ask' = [ask EXCEPT ![p].held = @ \ {v}, ![p].left = {}]
            BY <5>2 DEF OrderUndo, Answered
          <6>3. CASE ask' = [ask EXCEPT ![p] = NoAsk]
            BY <1>2, <6>3, NoAskState
          <6>4. ASSUME NEW v, ask' = [ask EXCEPT ![p].held = @ \ {v}, ![p].left = {}]
                PROVE  ask'[p].op = "undo"
            BY <1>2, <6>1, <6>4 DEF IsAsk, AskFields
          <6> QED
            BY <6>2, <6>3, <6>4
        <5> QED
          BY <3>3, <5>1, <5>2
      <4> QED
        BY <1>2, <3>1, <4>1, LinesGo
    <3>4. CASE AskFails(p)
      <4>1. ask'[p].op = "none"
        BY <1>2, <3>4, NoAskState DEF AskFails, Answered
      <4> QED
        BY <1>2, <3>1, <4>1, LinesGo
    <3> QED
      BY <2>3, <3>2, <3>3, <3>4
  <2> QED
    BY <1>4, <2>1, <2>2, <2>3
<1>5. ASSUME NEW p \in Browsers, NEW u \in Customers,
             \/ OrderBegin(p, u)
             \/ \E v \in Variants, n \in 1 .. MaxQty : AddBegin(p, u, v, n) \/ SetBegin(p, u, v, n)
      PROVE  CartFits'
  <2>1. cart' = cart /\ line' = line
    BY <1>5 DEF OrderBegin, AddBegin, SetBegin, CartRest
  <2>2. CASE OrderBegin(p, u)
    <3>1. ask'[p].op = "order" /\ \A q \in Browsers \ {p} : ask'[q] = ask[q]
      BY <1>2, <2>2, NoAskState DEF OrderBegin, Ask, IsAsk, AskFields
    <3> QED
      BY <1>2, <2>1, <3>1, LinesGo
  <2>3. ASSUME NEW v \in Variants, NEW n \in 1 .. MaxQty, AddBegin(p, u, v, n)
        PROVE  CartFits'
    <3>1. /\ ask'[p].op = "add" /\ ask'[p].seen = line[u][v] /\ ask'[p].n = n /\ line[u][v] + n <= MaxQty
          /\ \A q \in Browsers \ {p} : ask'[q] = ask[q]
      BY <1>2, <2>3, NoAskState DEF AddBegin, Ask, IsAsk, AskFields
    <3> QED
      BY <1>2, <2>1, <3>1, LinesGo
  <2>4. ASSUME NEW v \in Variants, NEW n \in 1 .. MaxQty, SetBegin(p, u, v, n)
        PROVE  CartFits'
    <3>1. ask'[p].op = "set" /\ ask'[p].n = n /\ \A q \in Browsers \ {p} : ask'[q] = ask[q]
      BY <1>2, <2>4, NoAskState DEF SetBegin, Ask, IsAsk, AskFields
    <3>2. n <= MaxQty
      BY CartAssumption
    <3> QED
      BY <1>2, <2>1, <3>1, <3>2, LinesGo
  <2> QED
    BY <1>5, <2>2, <2>3, <2>4
<1>6. ASSUME NEW u \in Customers, NEW vs, RemoveLines(u, vs)
      PROVE  CartFits'
  BY <1>2, <1>6, LinesGo DEF RemoveLines
<1>7. ASSUME NEW u \in Customers, CartAges(u)
      PROVE  CartFits'
  <2>1. cart' = [cart EXCEPT ![u] = "old"] /\ line' = line /\ ask' = ask
    BY <1>7 DEF CartAges
  <2> QED
    BY <2>1 DEF CartFits
<1>8. ASSUME (\E o \in Orders : Checkout(o) \/ Cancel(o)) \/ \E v \in Variants : Relist(v)
      PROVE  UNCHANGED <<cart, line, ask>>
  BY <1>8 DEF Checkout, Cancel, Relist
<1>9. CASE CartStep
  <2>1. shop.browsers \subseteq Browsers /\ shop.customers \subseteq Customers /\ shop.variants \subseteq Variants
    BY <1>2, ShopAssumption DEF CartTypes
  <2> QED
    BY <1>3, <1>4, <1>5, <1>6, <1>7, <1>8, <1>9, <2>1 DEF CartStep
<1>10. CASE DropCart
  <2>1. cart' = cart /\ line' = line /\ \A p \in Browsers : ask'[p].op = "none"
    BY <1>10, NoAskState DEF DropCart
  <2> QED
    BY <1>2, <2>1, LinesGo
<1> QED
  BY <1>1, <1>3, <1>9, <1>10 DEF cartVars

LEMMA CartTyped == Spec => []CartTypeOK
<1>1. Init => CartFits
  <2> SUFFICES ASSUME Init PROVE CartFits
    OBVIOUS
  <2>1. /\ cart = [u \in Customers |-> "none"] /\ line = [u \in Customers |-> Empty]
        /\ ask = [p \in Browsers |-> NoAsk]
    BY DEF Init, CartInit
  <2> QED
    BY <2>1, NoAskState, NoOrderState DEF CartFits
<1>2. StockInv /\ StockInv' /\ CartFits /\ [Next]_vars => CartFits'
  BY CartFitsStep
<1>3. StockInv /\ CartFits => CartTypeOK
  <2> SUFFICES ASSUME StockInv, CartFits PROVE CartTypeOK
    OBVIOUS
  <2>1. /\ line \in [Customers -> [Variants -> Nat]] /\ stock \in [Variants -> Nat]
        /\ (\A o \in Orders : order[o].st \in {"none", "pending", "cancelled"})
        /\ \A p \in Browsers : ask[p].op \in {"none", "add", "set", "order", "take", "undo"}
    BY DEF StockInv, CartTypes, Quantities, IsOrder, IsAsk
  <2>2. \A u \in Customers, v \in Variants : line[u][v] \in 0 .. MaxQty
    BY <2>1, CartAssumption DEF CartFits
  <2>3. line \in [Customers -> [Variants -> 0 .. MaxQty]]
    BY <2>1, <2>2
  <2>4. \A u \in Customers : Lines(u) # {} => cart[u] # "none"
    BY DEF Lines, CartFits
  <2> QED
    BY <2>1, <2>3, <2>4 DEF CartTypeOK, CartFits
<1> QED
  BY <1>1, <1>2, <1>3, StockAlways, PTL DEF Spec

-----------------------------------------------------------------------------
(* Charges *)

Quoted(r) == r.charges = Quote(r.qty, r.price, r.under)

\* On SQLite an order, or a request about to write one, is charged what was quoted for
\* its items at its prices, and nothing is reserved outside a transaction.
ChargesInv ==
  shop.backend = "sqlite" =>
    /\ \A o \in Orders : order[o].st = "pending" => Quoted(order[o])
    /\ \A p \in Browsers : /\ ask[p].op \notin {"take", "undo"}
                           /\ ask[p].op = "order" => Quoted(ask[p].bill)

PricesKept ==
  \A o \in Orders : order[o].st = "pending" /\ order'[o].st = "pending" => order'[o].price = order[o].price

LEMMA AskQuoted ==
  ASSUME CartTypes, ChargesInv, UNCHANGED <<shop, order>>, shop.backend = "sqlite",
         NEW p \in Browsers, NEW s, ask' = [ask EXCEPT ![p] = s], s.op \notin {"take", "undo"},
         s.op = "order" => Quoted(s.bill)
  PROVE  ChargesInv' /\ PricesKept
<1>1. DOMAIN ask' = Browsers /\ ask'[p] = s /\ \A x \in Browsers \ {p} : ask'[x] = ask[x]
  BY DEF CartTypes
<1> QED
  BY <1>1 DEF ChargesInv, PricesKept

LEMMA QuotedStep ==
  ASSUME StockInv, ChargesInv, [Next]_vars
  PROVE  ChargesInv' /\ (shop.backend = "sqlite" => PricesKept)
<1>1. UNCHANGED shop /\ (UNCHANGED cartVars \/ CartStep \/ DropCart)
  BY NextCart
<1> SUFFICES ASSUME shop.backend = "sqlite" PROVE ChargesInv' /\ PricesKept
  BY <1>1 DEF ChargesInv
<1>t. CartTypes
  BY DEF StockInv
<1>2. CASE UNCHANGED <<order, ask>>
  BY <1>1, <1>2 DEF ChargesInv, PricesKept
<1>3. CASE DropCart
  BY <1>1, <1>3, NoAskState DEF DropCart, ChargesInv, PricesKept
<1>4. ASSUME NEW p \in Browsers, EditWrite(p) \/ AskFails(p)
      PROVE  ChargesInv' /\ PricesKept
  <2>1. ask' = [ask EXCEPT ![p] = NoAsk] /\ UNCHANGED order
    BY <1>4 DEF EditWrite, AskFails, Answered, CartRest
  <2> QED
    BY <1>1, <1>t, <2>1, NoAskState, AskQuoted
<1>5. ASSUME NEW p \in Browsers, NEW u \in Customers, OrderBegin(p, u)
      PROVE  ChargesInv' /\ PricesKept
  <2>1. PICK under \in Conditions :
          Ask(p, [NoAsk EXCEPT !.op = "order", !.u = u,
                   !.bill = [st |-> "pending", who |-> u, qty |-> line[u], price |-> price,
                             under |-> under, charges |-> Quote(line[u], price, under)]])
    BY <1>5 DEF OrderBegin
  <2> DEFINE bill == [st |-> "pending", who |-> u, qty |-> line[u], price |-> price,
                      under |-> under, charges |-> Quote(line[u], price, under)]
             s == [NoAsk EXCEPT !.op = "order", !.u = u, !.bill = bill]
  <2>2. Quoted(bill)
    BY DEF Quoted
  <2> HIDE DEF bill
  <2>3. s.op = "order" /\ s.bill = bill
    BY NoAskState DEF IsAsk, AskFields
  <2>4. ask' = [ask EXCEPT ![p] = s] /\ UNCHANGED order
    BY <1>5, <2>1 DEF Ask, bill, OrderBegin, CartRest
  <2> HIDE DEF s
  <2> QED
    BY <1>1, <1>t, <2>2, <2>3, <2>4, AskQuoted
<1>6. ASSUME NEW p \in Browsers, NEW u \in Customers, NEW v \in Variants, NEW n \in 1 .. MaxQty,
             AddBegin(p, u, v, n) \/ SetBegin(p, u, v, n)
      PROVE  ChargesInv' /\ PricesKept
  <2>1. PICK op \in {"add", "set"} :
          Ask(p, [NoAsk EXCEPT !.op = op, !.u = u, !.v = v, !.n = n, !.seen = line[u][v]])
    BY <1>6 DEF AddBegin, SetBegin
  <2> DEFINE s == [NoAsk EXCEPT !.op = op, !.u = u, !.v = v, !.n = n, !.seen = line[u][v]]
  <2>2. s.op = op
    BY NoAskState DEF IsAsk, AskFields
  <2>3. ask' = [ask EXCEPT ![p] = s] /\ UNCHANGED order
    BY <1>6, <2>1 DEF Ask, AddBegin, SetBegin, CartRest
  <2> HIDE DEF s
  <2> QED
    BY <1>1, <1>t, <2>2, <2>3, AskQuoted
<1>7. ASSUME NEW p \in Browsers, OrderWrite(p)
      PROVE  ChargesInv' /\ PricesKept
  <2>1. /\ ask[p].op = "order" /\ Free # {} /\ ask' = [ask EXCEPT ![p] = NoAsk]
        /\ order' = [order EXCEPT ![NextOrder] = ask[p].bill]
    BY <1>7 DEF OrderWrite, Answered
  <2>2. PICK o \in Orders : o = NextOrder /\ order[o] = NoOrder
    BY <2>1, NextOrderFree
  <2>3. order'[o] = ask[p].bill /\ \A x \in Orders \ {o} : order'[x] = order[x]
    BY <1>t, <2>1, <2>2 DEF CartTypes
  <2>4. ask'[p] = NoAsk /\ \A x \in Browsers \ {p} : ask'[x] = ask[x]
    BY <1>t, <2>1 DEF CartTypes
  <2>5. ChargesInv'
    BY <1>1, <2>1, <2>3, <2>4, NoAskState DEF ChargesInv
  <2>6. PricesKept
    BY <2>2, <2>3, NoOrderState DEF PricesKept
  <2> QED
    BY <2>5, <2>6
<1>8. ASSUME NEW p \in Browsers, OrderShell(p) \/ OrderTake(p) \/ OrderUndo(p) \/ OrderFinish(p)
      PROVE  FALSE
  BY <1>8 DEF OrderShell, OrderTake, OrderUndo, OrderFinish, ChargesInv
<1>9. ASSUME NEW o \in Orders, Checkout(o)
      PROVE  ChargesInv' /\ PricesKept
  <2>1. PICK under \in Conditions :
          order' = [order EXCEPT ![o].under = under, ![o].charges = Quote(order[o].qty, order[o].price, under)]
    BY <1>9 DEF Checkout, RepricedAt
  <2> DEFINE charges == Quote(order[o].qty, order[o].price, under)
             r == [order[o] EXCEPT !.under = under, !.charges = charges]
  <2>2. order' = [order EXCEPT ![o] = r] /\ UNCHANGED ask
    BY <1>9, <1>t, <2>1 DEF Checkout, CartTypes
  <2>3. /\ r.charges = charges /\ r.under = under /\ r.qty = order[o].qty /\ r.price = order[o].price
    <3> HIDE DEF charges
    <3> QED
      BY <1>t DEF CartTypes, IsOrder, OrderFields
  <2>4. Quoted(r)
    BY <2>3 DEF Quoted
  <2> HIDE DEF r, charges
  <2>5. order'[o] = r /\ \A x \in Orders \ {o} : order'[x] = order[x]
    BY <1>t, <2>2 DEF CartTypes
  <2> QED
    BY <1>1, <2>2, <2>3, <2>4, <2>5 DEF ChargesInv, PricesKept
<1>10. ASSUME NEW o \in Orders, Cancel(o)
       PROVE  ChargesInv' /\ PricesKept
  <2> DEFINE r == [NoOrder EXCEPT !.st = "cancelled", !.who = order[o].who]
  <2>1. order' = [order EXCEPT ![o] = r] /\ UNCHANGED ask
    BY <1>10 DEF Cancel
  <2>2. r.st = "cancelled"
    BY NoOrderState DEF IsOrder, OrderFields
  <2> HIDE DEF r
  <2>3. order'[o] = r /\ \A x \in Orders \ {o} : order'[x] = order[x]
    BY <1>t, <2>1 DEF CartTypes
  <2> QED
    BY <1>1, <2>1, <2>2, <2>3 DEF ChargesInv, PricesKept
<1>11. ASSUME \/ \E v \in Variants : Relist(v)
              \/ \E u \in Customers : CartAges(u) \/ \E vs : RemoveLines(u, vs)
       PROVE  UNCHANGED <<order, ask>>
  BY <1>11 DEF Relist, CartAges, RemoveLines
<1>12. /\ shop.browsers \subseteq Browsers /\ shop.customers \subseteq Customers
       /\ shop.variants \subseteq Variants
  BY <1>t, ShopAssumption DEF CartTypes
<1>13. CASE CartStep
  BY <1>2, <1>4, <1>5, <1>6, <1>7, <1>8, <1>9, <1>10, <1>11, <1>12, <1>13 DEF CartStep
<1>14. CASE UNCHANGED cartVars
  BY <1>2, <1>14 DEF cartVars
<1> QED
  BY <1>1, <1>3, <1>13, <1>14

\* CheckoutKeepsCharges: on SQLite reprice_pending_order leaves an order's charges alone
\* unless the address, the site's settings or the suppliers that answer have changed,
\* whatever the catalogue asks now.
THEOREM QuotesAreKept == Spec => CheckoutKeepsCharges
<1>1. Init => StockInv /\ ChargesInv
  <2>1. Init => order = [o \in Orders |-> NoOrder] /\ ask = [p \in Browsers |-> NoAsk]
    BY DEF Init, CartInit
  <2> QED
    BY <2>1, StockInit, NoOrderState, NoAskState DEF ChargesInv
<1>2. StockInv /\ ChargesInv /\ [Next]_vars => (StockInv /\ ChargesInv)'
  BY StockStep, QuotedStep
<1>3. StockInv /\ ChargesInv /\ [Next]_vars =>
        [shop.backend = "sqlite" => \A o \in Orders :
            order[o].st = "pending" /\ order'[o].st = "pending"
              /\ order'[o].qty = order[o].qty /\ order'[o].under = order[o].under
            => order'[o].charges = order[o].charges]_order
  <2> SUFFICES ASSUME StockInv, ChargesInv, [Next]_vars, shop.backend = "sqlite", NEW o \in Orders,
                      order[o].st = "pending", order'[o].st = "pending",
                      order'[o].qty = order[o].qty, order'[o].under = order[o].under
               PROVE  order'[o].charges = order[o].charges
    OBVIOUS
  <2>1. ChargesInv' /\ PricesKept /\ shop' = shop
    BY QuotedStep, NextCart
  <2>2. Quoted(order[o]) /\ Quoted(order'[o]) /\ order'[o].price = order[o].price
    BY <2>1 DEF ChargesInv, PricesKept
  <2> QED
    BY <2>2 DEF Quoted
<1> QED
  BY <1>1, <1>2, <1>3, PTL DEF Spec, CheckoutKeepsCharges

-----------------------------------------------------------------------------
(* What the customer was told *)

\* What a request in progress has read of its customer's cart still holds.
ReadHolds(s, there) ==
  /\ s.op \in {"add", "set"} => s.seen = there[s.u][s.v]
  /\ s.op = "order" => s.bill.qty = there[s.u]

\* On SQLite, a customer of whom no two requests have overlapped has one request at
\* most, which has read what is in the cart, and the cart is as the answers said.
KeptInv ==
  /\ DOMAIN wanted = Customers
  /\ shop.backend = "sqlite" =>
       /\ \A u \in Customers \ crossed : line[u] = wanted[u]
       /\ \A p \in Browsers : ask[p] # NoAsk /\ ask[p].u \notin crossed =>
            /\ ReadHolds(ask[p], line)
            /\ \A q \in Browsers : q # p /\ ask[q] # NoAsk => ask[q].u # ask[p].u

\* A request begins: what it has read is what is there.
LEMMA KeptBegins ==
  ASSUME CartTypes, KeptInv, UNCHANGED <<shop, line, wanted>>,
         NEW p \in Browsers, NEW s, Ask(p, s), ReadHolds(s, line)
  PROVE  KeptInv'
<1>1. /\ DOMAIN ask' = Browsers /\ ask'[p] = s /\ \A x \in Browsers \ {p} : ask'[x] = ask[x]
      /\ crossed' = crossed \cup {u \in {s.u} : \E q \in Browsers : ask[q] # NoAsk /\ ask[q].u = u}
      /\ ask[p] = NoAsk
  BY DEF CartTypes, Ask
<1>2. NoAsk' = NoAsk
  BY DEF NoAsk, NoOrder
<1>3. crossed \subseteq crossed'
  BY <1>1
<1>4. ASSUME shop.backend = "sqlite", NEW x \in Browsers, ask'[x] # NoAsk, ask'[x].u \notin crossed'
      PROVE  /\ ReadHolds(ask'[x], line')
             /\ \A q \in Browsers : q # x /\ ask'[q] # NoAsk => ask'[q].u # ask'[x].u
  <2>1. CASE x = p
    BY <1>1, <1>4, <2>1
  <2>2. CASE x # p
    BY <1>1, <1>3, <1>4, <2>2 DEF KeptInv
  <2> QED
    BY <2>1, <2>2
<1> QED
  BY <1>2, <1>3, <1>4 DEF KeptInv

\* A request ends, or has nothing to begin with: only its customer's cart has changed,
\* to what the answer says.
LEMMA KeptEnds ==
  ASSUME CartTypes, KeptInv, UNCHANGED shop, crossed \subseteq crossed',
         NEW u \in Customers, DOMAIN wanted' = Customers,
         \A x \in Customers \ {u} : line'[x] = line[x] /\ wanted'[x] = wanted[x],
         shop.backend = "sqlite" /\ u \notin crossed => line'[u] = wanted'[u],
         \A p \in Browsers : ask'[p] = ask[p] \/ ask'[p] = NoAsk,
         \A p \in Browsers : ask'[p] # NoAsk /\ ask[p].u = u /\ u \notin crossed' => shop.backend # "sqlite"
  PROVE  KeptInv'
<1>1. NoAsk' = NoAsk
  BY DEF NoAsk, NoOrder
<1>2. ASSUME shop.backend = "sqlite", NEW p \in Browsers, ask'[p] # NoAsk, ask'[p].u \notin crossed'
      PROVE  /\ ReadHolds(ask'[p], line')
             /\ \A q \in Browsers : q # p /\ ask'[q] # NoAsk => ask'[q].u # ask'[p].u
  <2>1. ask'[p] = ask[p] /\ ask[p].u # u /\ ask[p].u \notin crossed
    BY <1>2
  <2>2. ReadHolds(ask[p], line) /\ \A q \in Browsers : q # p /\ ask[q] # NoAsk => ask[q].u # ask[p].u
    BY <1>2, <2>1 DEF KeptInv
  <2>3. ask[p].op \in {"add", "set", "order"} => ask[p].u \in Customers
    BY DEF CartTypes, IsAsk
  <2>4. ReadHolds(ask'[p], line')
    BY <2>1, <2>2, <2>3 DEF ReadHolds
  <2> QED
    BY <2>1, <2>2, <2>4
<1>3. shop.backend = "sqlite" => \A x \in Customers \ crossed' : line'[x] = wanted'[x]
  BY DEF KeptInv
<1> QED
  BY <1>1, <1>2, <1>3 DEF KeptInv

\* What a request writes in its customer's cart is what it answers.
LEMMA KeptWritten ==
  ASSUME CartTypes, KeptInv, UNCHANGED shop, NEW p \in Browsers,
         EditWrite(p) \/ OrderWrite(p) \/ AskFails(p)
  PROVE  KeptInv'
<1> DEFINE s == ask[p]
<1>1. PICK u \in Customers : u = s.u
  BY DEF EditWrite, OrderWrite, AskFails, CartTypes, IsAsk
<1>2. ask' = [ask EXCEPT ![p] = NoAsk] /\ UNCHANGED crossed /\ s # NoAsk
  BY NoAskState DEF EditWrite, OrderWrite, AskFails, Answered
<1>3. \A x \in Browsers : ask'[x] = ask[x] \/ ask'[x] = NoAsk
  BY <1>2 DEF CartTypes
<1>4. \A x \in Browsers : ask'[x] # NoAsk /\ ask[x].u = u /\ u \notin crossed => shop.backend # "sqlite"
  BY <1>1, <1>2 DEF CartTypes, KeptInv
<1>5. shop.backend = "sqlite" /\ u \notin crossed => line[u] = wanted[u] /\ ReadHolds(s, line)
  BY <1>1, <1>2 DEF KeptInv
<1>6. DOMAIN line = Customers /\ DOMAIN wanted = Customers /\ line[u] \in Quantities
  BY DEF CartTypes, KeptInv
<1>7. CASE AskFails(p)
  <2>1. UNCHANGED <<line, wanted>>
    BY <1>7 DEF AskFails, CartRest
  <2> QED
    BY <1>2, <1>3, <1>4, <1>5, <1>6, <2>1, KeptEnds
<1>8. CASE EditWrite(p)
  <2>1. PICK v \in Variants : v = s.v
    BY <1>8 DEF EditWrite, CartTypes, IsAsk
  <2> DEFINE n == Edited(s)
             w == [wanted[u] EXCEPT ![v] = IF s.op = "add" THEN @ + s.n ELSE s.n]
  <2>2. /\ line' = IF shop.backend = "d1" /\ s.seen > 0 THEN line ELSE [line EXCEPT ![u][v] = n]
        /\ wanted' = [wanted EXCEPT ![u] = IF shop.backend = "d1" \/ u \in crossed THEN Empty ELSE w]
        /\ s.op \in {"add", "set"}
    BY <1>1, <1>8, <2>1 DEF EditWrite, Tells
  <2>3. ASSUME shop.backend = "sqlite", u \notin crossed
        PROVE  line'[u] = wanted'[u]
    <3>1. line'[u] = [line[u] EXCEPT ![v] = n] /\ wanted'[u] = w
      BY <1>6, <2>2, <2>3
    <3>2. n = IF s.op = "add" THEN line[u][v] + s.n ELSE s.n
      BY <1>1, <1>5, <2>1, <2>2, <2>3 DEF ReadHolds, Edited
    <3> QED
      BY <1>5, <2>3, <3>1, <3>2
  <2>4. \A x \in Customers \ {u} : line'[x] = line[x] /\ wanted'[x] = wanted[x]
    BY <1>6, <2>2
  <2>5. DOMAIN wanted' = Customers
    BY <1>6, <2>2
  <2> QED
    BY <1>2, <1>3, <1>4, <2>3, <2>4, <2>5, KeptEnds
<1>9. CASE OrderWrite(p)
  <2> DEFINE qty == s.bill.qty
             w == [v \in Variants |-> wanted[u][v] - qty[v]]
  <2>1. /\ line' = [line EXCEPT ![u] = [v \in Variants |-> IF qty[v] > 0 THEN 0 ELSE @[v]]]
        /\ wanted' = [wanted EXCEPT ![u] = IF shop.backend = "d1" \/ u \in crossed THEN Empty ELSE w]
        /\ s.op = "order"
    BY <1>1, <1>9 DEF OrderWrite, Ordered, Tells
  <2>2. ASSUME shop.backend = "sqlite", u \notin crossed
        PROVE  line'[u] = wanted'[u]
    <3>1. line'[u] = [v \in Variants |-> IF qty[v] > 0 THEN 0 ELSE line[u][v]] /\ wanted'[u] = w
      BY <1>6, <2>1, <2>2
    <3>2. qty = line[u] /\ wanted[u] = line[u]
      BY <1>1, <1>5, <2>1, <2>2 DEF ReadHolds
    <3>3. \A v \in Variants : line[u][v] \in Nat
      BY <1>6 DEF Quantities
    <3> QED
      BY <3>1, <3>2, <3>3
  <2>3. \A x \in Customers \ {u} : line'[x] = line[x] /\ wanted'[x] = wanted[x]
    BY <1>6, <2>1
  <2>4. DOMAIN wanted' = Customers
    BY <1>6, <2>1
  <2> QED
    BY <1>2, <1>3, <1>4, <2>2, <2>3, <2>4, KeptEnds
<1> QED
  BY <1>7, <1>8, <1>9

LEMMA KeptRemoved ==
  ASSUME CartTypes, KeptInv, UNCHANGED shop, NEW u \in Customers, NEW vs, RemoveLines(u, vs)
  PROVE  KeptInv'
<1> DEFINE w == [v \in Variants |-> IF v \in vs THEN 0 ELSE wanted[u][v]]
<1>1. /\ line' = [line EXCEPT ![u] = [v \in Variants |-> IF v \in vs THEN 0 ELSE @[v]]]
      /\ wanted' = [wanted EXCEPT ![u] = IF shop.backend = "d1" \/ u \in crossed THEN Empty ELSE w]
      /\ crossed' = crossed \cup {x \in {u} : \E q \in Browsers : ask[q] # NoAsk /\ ask[q].u = x}
      /\ UNCHANGED ask
  BY DEF RemoveLines, Tells
<1>2. DOMAIN line = Customers /\ DOMAIN wanted = Customers
  BY DEF CartTypes, KeptInv
<1>3. shop.backend = "sqlite" /\ u \notin crossed => line'[u] = wanted'[u]
  <2>1. ASSUME shop.backend = "sqlite", u \notin crossed PROVE line'[u] = wanted'[u]
    <3>1. line[u] = wanted[u]
      BY <2>1 DEF KeptInv
    <3> QED
      BY <1>1, <1>2, <2>1, <3>1
  <2> QED
    BY <2>1
<1>4. \A x \in Customers \ {u} : line'[x] = line[x] /\ wanted'[x] = wanted[x]
  BY <1>1, <1>2
<1>5. DOMAIN wanted' = Customers /\ crossed \subseteq crossed'
  BY <1>1, <1>2
<1>6. \A p \in Browsers : ask'[p] # NoAsk /\ ask[p].u = u /\ u \notin crossed' => shop.backend # "sqlite"
  BY <1>1
<1> QED
  BY <1>1, <1>3, <1>4, <1>5, <1>6, KeptEnds

\* What edits no cart and begins no request leaves the invariant alone.
LEMMA KeptElse ==
  ASSUME KeptInv, UNCHANGED <<shop, line, wanted, crossed>>,
         \A p \in Browsers : ask'[p] = ask[p] \/ ask'[p] = NoAsk
  PROVE  KeptInv'
<1>1. NoAsk' = NoAsk
  BY DEF NoAsk, NoOrder
<1> QED
  BY <1>1 DEF KeptInv

LEMMA KeptStep ==
  ASSUME CartTypes, ChargesInv, KeptInv, [Next]_vars
  PROVE  KeptInv'
<1>1. UNCHANGED shop /\ (UNCHANGED cartVars \/ CartStep \/ DropCart)
  BY NextCart
<1>2. CASE UNCHANGED cartVars
  BY <1>1, <1>2, KeptElse DEF cartVars
<1>3. CASE DropCart
  BY <1>1, <1>3, KeptElse DEF DropCart
<1>4. ASSUME NEW p \in Browsers, EditWrite(p) \/ OrderWrite(p) \/ AskFails(p)
      PROVE  KeptInv'
  BY <1>1, <1>4, KeptWritten
<1>5. ASSUME NEW p \in Browsers, OrderShell(p) \/ OrderTake(p) \/ OrderUndo(p) \/ OrderFinish(p)
      PROVE  KeptInv'
  <2>1. shop.backend # "sqlite"
    BY <1>5 DEF OrderShell, OrderTake, OrderUndo, OrderFinish, ChargesInv
  <2>2. DOMAIN wanted' = Customers
    BY <1>5 DEF KeptInv, OrderShell, OrderTake, OrderUndo, OrderFinish, Tells
  <2> QED
    BY <1>1, <2>1, <2>2 DEF KeptInv
<1>6. ASSUME NEW p \in Browsers, NEW u \in Customers, OrderBegin(p, u)
      PROVE  KeptInv'
  <2>1. PICK under \in Conditions :
          Ask(p, [NoAsk EXCEPT !.op = "order", !.u = u,
                   !.bill = [st |-> "pending", who |-> u, qty |-> line[u], price |-> price,
                             under |-> under, charges |-> Quote(line[u], price, under)]])
    BY <1>6 DEF OrderBegin
  <2> DEFINE bill == [st |-> "pending", who |-> u, qty |-> line[u], price |-> price,
                      under |-> under, charges |-> Quote(line[u], price, under)]
             s == [NoAsk EXCEPT !.op = "order", !.u = u, !.bill = bill]
  <2>2. bill.qty = line[u]
    OBVIOUS
  <2>3. Ask(p, s)
    BY <2>1
  <2> HIDE DEF bill
  <2>4. s.op = "order" /\ s.bill = bill /\ s.u = u
    BY NoAskState DEF IsAsk, AskFields
  <2> HIDE DEF s
  <2>5. ReadHolds(s, line)
    BY <2>2, <2>4 DEF ReadHolds
  <2> QED
    BY <1>1, <1>6, <2>3, <2>5, KeptBegins DEF OrderBegin, CartRest
<1>7. ASSUME NEW p \in Browsers, NEW u \in Customers, NEW v \in Variants, NEW n \in 1 .. MaxQty,
             AddBegin(p, u, v, n) \/ SetBegin(p, u, v, n)
      PROVE  KeptInv'
  <2>1. PICK op \in {"add", "set"} :
          Ask(p, [NoAsk EXCEPT !.op = op, !.u = u, !.v = v, !.n = n, !.seen = line[u][v]])
    BY <1>7 DEF AddBegin, SetBegin
  <2> DEFINE s == [NoAsk EXCEPT !.op = op, !.u = u, !.v = v, !.n = n, !.seen = line[u][v]]
  <2>2. s.op = op /\ s.u = u /\ s.v = v /\ s.seen = line[u][v]
    BY NoAskState DEF IsAsk, AskFields
  <2>3. Ask(p, s)
    BY <2>1
  <2> HIDE DEF s
  <2>4. ReadHolds(s, line)
    BY <2>2 DEF ReadHolds
  <2> QED
    BY <1>1, <1>7, <2>3, <2>4, KeptBegins DEF AddBegin, SetBegin, CartRest
<1>8. ASSUME NEW u \in Customers, NEW vs, RemoveLines(u, vs)
      PROVE  KeptInv'
  BY <1>1, <1>8, KeptRemoved
<1>9. ASSUME \/ \E o \in Orders : Checkout(o) \/ Cancel(o)
             \/ \E v \in Variants : Relist(v)
             \/ \E u \in Customers : CartAges(u)
      PROVE  KeptInv'
  <2>1. UNCHANGED <<line, wanted, crossed, ask>>
    BY <1>9 DEF Checkout, Cancel, Relist, CartAges
  <2> QED
    BY <1>1, <2>1, KeptElse
<1>10. /\ shop.browsers \subseteq Browsers /\ shop.customers \subseteq Customers
       /\ shop.variants \subseteq Variants
  BY ShopAssumption DEF CartTypes
<1>11. CASE CartStep
  BY <1>4, <1>5, <1>6, <1>7, <1>8, <1>9, <1>10, <1>11 DEF CartStep
<1> QED
  BY <1>1, <1>2, <1>3, <1>11

\* CartKept: on SQLite a customer none of whose requests overlapped finds in the cart
\* what add_item, update_item, remove_item, clear_cart and create_order answered.
THEOREM CartsAreKept == Spec => []CartKept
<1>1. Init => StockInv /\ ChargesInv /\ KeptInv
  <2>1. Init => /\ order = [o \in Orders |-> NoOrder] /\ ask = [p \in Browsers |-> NoAsk]
                /\ line = [u \in Customers |-> Empty] /\ wanted = [u \in Customers |-> Empty]
    BY DEF Init, CartInit
  <2> QED
    BY <2>1, StockInit, NoOrderState, NoAskState DEF ChargesInv, KeptInv
<1>2. StockInv /\ ChargesInv /\ KeptInv /\ [Next]_vars => (StockInv /\ ChargesInv /\ KeptInv)'
  BY StockStep, QuotedStep, KeptStep DEF StockInv
<1>3. KeptInv => CartKept
  BY DEF KeptInv, CartKept
<1> QED
  BY <1>1, <1>2, <1>3, PTL DEF Spec

-----------------------------------------------------------------------------
(* Reminders *)

LEMMA NextReminders ==
  [Next]_vars => /\ UNCHANGED shop
                 /\ UNCHANGED settingVars \/ SettingsStep
                 /\ UNCHANGED reminderVars \/ RemindersStep \/ DropRuns
BY DEF Next, vars, Requests, Served, DropRequests

\* The settings are proper whatever the form was sent with, and allow no more reminders
\* than any shop's do.
SiteInv ==
  /\ shop \in Shops
  /\ DOMAIN site = SiteFields /\ Proper(site) /\ site.most <= MaxReminders
  /\ text \in [Documents -> [on : BOOLEAN, body : BOOLEAN]]

LEMMA NormalProper ==
  ASSUME SiteInv, NEW f \in shop.forms
  PROVE  DOMAIN Normal(f) = SiteFields /\ Proper(Normal(f)) /\ Normal(f).most <= MaxReminders
<1>1. /\ DOMAIN f.site = SiteFields /\ f.site.most <= MaxReminders
      /\ {f.site.rate, f.site.flat, f.site.threshold, f.site.most} \subseteq Int
  BY ShopAssumption DEF SiteInv
<1>2. /\ Normal(f).rate = AtLeastZero(f.site.rate) /\ Normal(f).flat = AtLeastZero(f.site.flat)
      /\ Normal(f).threshold = AtLeastZero(f.site.threshold)
      /\ Normal(f).mode = (IF f.site.mode \in Modes THEN f.site.mode ELSE "flat")
      /\ Normal(f).most = (IF f.site.most < 1 THEN 1 ELSE f.site.most)
      /\ DOMAIN Normal(f) = SiteFields
  BY <1>1 DEF Normal, SiteFields
<1>3. {Normal(f).rate, Normal(f).flat, Normal(f).threshold} \subseteq Nat
  BY <1>1, <1>2 DEF AtLeastZero
<1>4. Normal(f).mode \in Modes
  BY <1>2 DEF Modes
<1>5. Normal(f).most \in Nat \ {0} /\ Normal(f).most <= MaxReminders
  BY <1>1, <1>2, RemindersAssumption
<1> QED
  BY <1>2, <1>3, <1>4, <1>5 DEF Proper

LEMMA SiteStep ==
  ASSUME SiteInv, [Next]_vars
  PROVE  SiteInv'
<1>1. UNCHANGED shop /\ (UNCHANGED settingVars \/ SettingsStep)
  BY NextReminders
<1>2. CASE UNCHANGED settingVars
  BY <1>1, <1>2 DEF SiteInv, settingVars, Proper
<1>3. CASE SettingsStep
  <2>1. PICK f \in shop.forms :
          \/ RefuseSettings(f)
          \/ \E texts \in [Documents -> [on : BOOLEAN, body : BOOLEAN]] : SaveSettings(f, texts)
    BY <1>3 DEF SettingsStep
  <2>2. DOMAIN Normal(f) = SiteFields /\ Proper(Normal(f)) /\ Normal(f).most <= MaxReminders
    BY NormalProper
  <2>3. ASSUME NEW texts \in [Documents -> [on : BOOLEAN, body : BOOLEAN]], SaveSettings(f, texts)
        PROVE  SiteInv'
    BY <1>1, <2>2, <2>3 DEF SaveSettings, SiteInv, Proper
  <2>4. CASE RefuseSettings(f)
    <3>1. CASE shop.backend = "sqlite"
      <4>1. site' = [x \in DOMAIN site |-> IF Before(x) THEN Normal(f)[x] ELSE site[x]] /\ text' = text
        BY <2>4, <3>1 DEF RefuseSettings
      <4>2. /\ DOMAIN site' = SiteFields /\ site'.rate = Normal(f).rate /\ site'.flat = Normal(f).flat
            /\ site'.threshold = site.threshold /\ site'.mode = Normal(f).mode /\ site'.most = site.most
        BY <4>1 DEF SiteInv, SiteFields, Before
      <4> QED
        BY <1>1, <2>2, <4>1, <4>2 DEF SiteInv, Proper
    <3>2. CASE shop.backend # "sqlite"
      BY <1>1, <2>4, <3>2 DEF RefuseSettings, SiteInv, Proper
    <3> QED
      BY <3>1, <3>2
  <2> QED
    BY <2>1, <2>3, <2>4
<1> QED
  BY <1>1, <1>2, <1>3

LEMMA SiteStart == Init => SiteInv
<1> SUFFICES ASSUME Init PROVE SiteInv
  OBVIOUS
<1>1. shop \in Shops /\ site = shop.site /\ text = [g \in Documents |-> [on |-> FALSE, body |-> FALSE]]
  BY DEF Init, SettingsInit
<1> QED
  BY <1>1, ShopAssumption DEF SiteInv

LEMMA SiteAlways == Spec => []SiteInv
BY SiteStart, SiteStep, PTL DEF Spec

RunFields == {"on", "todo", "count", "recent", "sent"}

\* What a run in progress still has to do with a customer, and has not recorded.
Reads(u, j)  == u \in run[j].todo \cup run[j].sent
Unwritten(u) == IF \E j \in Jobs : u \in run[j].sent THEN 1 ELSE 0

\* Of a customer whom no run failed and no two runs read at once, one run at most has
\* anything to do with: it holds the count as it is, below the bound, and the mails
\* are those counted and the one it has sent.
RemindInv ==
  /\ DOMAIN run = Jobs /\ DOMAIN count = Customers /\ DOMAIN mails = Customers
  /\ \A j \in Jobs : /\ DOMAIN run[j] = RunFields
                     /\ ~run[j].on => run[j].todo = {} /\ run[j].sent = {}
  /\ \A u \in Customers \ upset :
       /\ count[u] \in 0 .. MaxReminders
       /\ mails[u] = count[u] + Unwritten(u)
       /\ \A j \in Jobs : Reads(u, j) =>
            /\ run[j].count[u] = count[u] /\ count[u] < MaxReminders
            /\ ~(u \in run[j].todo /\ u \in run[j].sent)
            /\ \A k \in Jobs : Reads(u, k) => k = j

LEMMA NoRunState ==
  /\ DOMAIN NoRun = RunFields /\ ~NoRun.on /\ NoRun.todo = {} /\ NoRun.sent = {}
BY DEF NoRun, RunFields

LEMMA RunBegun ==
  ASSUME SiteInv, RemindInv, NEW j \in Jobs, RunBegin(j)
  PROVE  RemindInv'
<1> DEFINE todo == {u \in shop.customers : Eligible(u)}
           r == [on |-> TRUE, todo |-> todo, count |-> count,
                 recent |-> {u \in Customers : recent[u]}, sent |-> {}]
<1>1. /\ ~run[j].on /\ run' = [run EXCEPT ![j] = r] /\ UNCHANGED <<count, mails>>
      /\ upset' = upset \cup (IF \E k \in Jobs : run[k].on THEN todo ELSE {})
  BY DEF RunBegin
<1>2. DOMAIN r = RunFields /\ r.on /\ r.todo = todo /\ r.count = count /\ r.sent = {}
  BY DEF RunFields
<1>3. \A u \in todo : u \in Customers => count[u] < site.most
  BY DEF Eligible
<1>4. MaxReminders \in Nat /\ site.most \in Nat /\ site.most <= MaxReminders
  BY RemindersAssumption DEF SiteInv, Proper
<1> HIDE DEF r, todo
<1>5. DOMAIN run' = Jobs /\ run'[j] = r /\ \A k \in Jobs \ {j} : run'[k] = run[k]
  BY <1>1 DEF RemindInv
<1>6. run[j].todo = {} /\ run[j].sent = {}
  BY <1>1 DEF RemindInv
<1>7. ASSUME NEW u \in Customers \ upset'
      PROVE  /\ count'[u] \in 0 .. MaxReminders
             /\ mails'[u] = count'[u] + Unwritten(u)'
             /\ \A k \in Jobs : Reads(u, k)' =>
                  /\ run'[k].count[u] = count'[u] /\ count'[u] < MaxReminders
                  /\ ~(u \in run'[k].todo /\ u \in run'[k].sent)
                  /\ \A h \in Jobs : Reads(u, h)' => h = k
  <2>1. u \in Customers \ upset /\ (u \in todo => \A k \in Jobs : run[k].todo = {} /\ run[k].sent = {})
    BY <1>1 DEF RemindInv
  <2>2. /\ count[u] \in 0 .. MaxReminders /\ mails[u] = count[u] + Unwritten(u)
        /\ \A k \in Jobs : Reads(u, k) =>
             /\ run[k].count[u] = count[u] /\ count[u] < MaxReminders
             /\ ~(u \in run[k].todo /\ u \in run[k].sent)
             /\ \A h \in Jobs : Reads(u, h) => h = k
    BY <2>1 DEF RemindInv
  <2>3. Unwritten(u)' = Unwritten(u)
    BY <1>2, <1>5, <1>6 DEF Unwritten
  <2>4. \A k \in Jobs \ {j} : Reads(u, k)' = Reads(u, k)
    BY <1>5 DEF Reads
  <2>5. (Reads(u, j)' <=> u \in todo) /\ (u \in todo => \A k \in Jobs : ~Reads(u, k))
    BY <1>2, <1>5, <2>1 DEF Reads
  <2>6. u \in todo => count[u] < MaxReminders
    BY <1>3, <1>4, <2>2
  <2>7. ~Reads(u, j)
    BY <1>6 DEF Reads
  <2>8. ASSUME NEW k \in Jobs, Reads(u, k)'
        PROVE  /\ run'[k].count[u] = count'[u] /\ count'[u] < MaxReminders
               /\ ~(u \in run'[k].todo /\ u \in run'[k].sent)
               /\ \A h \in Jobs : Reads(u, h)' => h = k
    <3>1. CASE k = j
      BY <1>1, <1>2, <1>5, <2>4, <2>5, <2>6, <2>8, <3>1
    <3>2. CASE k # j
      BY <1>1, <1>5, <2>2, <2>4, <2>5, <2>8, <3>2
    <3> QED
      BY <3>1, <3>2
  <2> QED
    BY <1>1, <2>2, <2>3, <2>8
<1>8. \A k \in Jobs : DOMAIN run'[k] = RunFields /\ (~run'[k].on => run'[k].todo = {} /\ run'[k].sent = {})
  BY <1>2, <1>5 DEF RemindInv
<1>9. DOMAIN count' = Customers /\ DOMAIN mails' = Customers
  BY <1>1 DEF RemindInv
<1> QED
  BY <1>5, <1>7, <1>8, <1>9 DEF RemindInv

\* A run sends, records or skips what it has read, and takes up nothing more.
LEMMA RunMoves ==
  ASSUME RemindInv, NEW j \in Jobs, NEW r, run' = [run EXCEPT ![j] = r], UNCHANGED upset,
         DOMAIN r = RunFields, ~r.on => r.todo = {} /\ r.sent = {},
         DOMAIN count' = Customers, DOMAIN mails' = Customers,
         \A u \in Customers \ upset :
           /\ u \in r.todo => u \in run[j].todo /\ u \notin r.sent
           /\ u \in r.sent => Reads(u, j)
           /\ u \in r.todo \cup r.sent => r.count[u] = run[j].count[u] /\ count'[u] = count[u]
           /\ u \notin run[j].sent => count'[u] = count[u]
           /\ count'[u] \in 0 .. MaxReminders
           /\ mails'[u] = count'[u] + (IF u \in r.sent THEN 1 ELSE IF Reads(u, j) THEN 0 ELSE Unwritten(u))
  PROVE  RemindInv'
<1>1. DOMAIN run' = Jobs /\ run'[j] = r /\ \A k \in Jobs \ {j} : run'[k] = run[k]
  BY DEF RemindInv
<1>2. ASSUME NEW u \in Customers \ upset'
      PROVE  /\ mails'[u] = count'[u] + Unwritten(u)'
             /\ \A k \in Jobs : Reads(u, k)' =>
                  /\ run'[k].count[u] = count'[u] /\ count'[u] < MaxReminders
                  /\ ~(u \in run'[k].todo /\ u \in run'[k].sent)
                  /\ \A h \in Jobs : Reads(u, h)' => h = k
  <2>1. u \in Customers \ upset
    OBVIOUS
  <2>2. \A k \in Jobs : Reads(u, k) =>
             /\ run[k].count[u] = count[u] /\ count[u] < MaxReminders
             /\ ~(u \in run[k].todo /\ u \in run[k].sent)
             /\ \A h \in Jobs : Reads(u, h) => h = k
    BY <2>1 DEF RemindInv
  <2>3. /\ u \in r.todo => u \in run[j].todo /\ u \notin r.sent
        /\ u \in r.sent => Reads(u, j)
        /\ u \in r.todo \cup r.sent => r.count[u] = run[j].count[u] /\ count'[u] = count[u]
        /\ u \notin run[j].sent => count'[u] = count[u]
        /\ mails'[u] = count'[u] + (IF u \in r.sent THEN 1 ELSE IF Reads(u, j) THEN 0 ELSE Unwritten(u))
    BY <2>1
  <2>4. /\ Reads(u, j)' <=> u \in r.todo \cup r.sent
        /\ Reads(u, j)' => Reads(u, j)
        /\ \A k \in Jobs \ {j} : Reads(u, k)' <=> Reads(u, k)
    BY <1>1, <2>3 DEF Reads
  <2>5. Unwritten(u)' = IF u \in r.sent THEN 1 ELSE IF Reads(u, j) THEN 0 ELSE Unwritten(u)
    <3>1. CASE u \in r.sent
      BY <1>1, <3>1 DEF Unwritten
    <3>2. CASE u \notin r.sent /\ Reads(u, j)
      <4>1. \A k \in Jobs \ {j} : u \notin run[k].sent
        BY <2>2, <3>2 DEF Reads
      <4> QED
        BY <1>1, <3>2, <4>1 DEF Unwritten
    <3>3. CASE u \notin r.sent /\ ~Reads(u, j)
      BY <1>1, <3>3 DEF Unwritten, Reads
    <3> QED
      BY <3>1, <3>2, <3>3
  <2>6. ASSUME NEW k \in Jobs, Reads(u, k)'
        PROVE  /\ run'[k].count[u] = count'[u] /\ count'[u] < MaxReminders
               /\ ~(u \in run'[k].todo /\ u \in run'[k].sent)
               /\ \A h \in Jobs : Reads(u, h)' => h = k
    <3>1. CASE k = j
      BY <1>1, <2>2, <2>3, <2>4, <2>6, <3>1
    <3>2. CASE k # j
      <4>1. Reads(u, k) /\ ~Reads(u, j)
        BY <2>2, <2>4, <2>6, <3>2
      <4>2. u \notin run[j].sent
        BY <4>1 DEF Reads
      <4> QED
        BY <1>1, <2>2, <2>3, <2>4, <3>2, <4>1, <4>2
    <3> QED
      BY <3>1, <3>2
  <2> QED
    BY <2>3, <2>5, <2>6
<1>3. \A k \in Jobs : DOMAIN run'[k] = RunFields /\ (~run'[k].on => run'[k].todo = {} /\ run'[k].sent = {})
  BY <1>1 DEF RemindInv
<1>4. \A u \in Customers \ upset' : count'[u] \in 0 .. MaxReminders
  OBVIOUS
<1> QED
  BY <1>1, <1>2, <1>3, <1>4 DEF RemindInv

\* What RemindInv says of a customer.
LEMMA RemindOf ==
  ASSUME RemindInv, NEW u \in Customers \ upset, NEW j \in Jobs
  PROVE  /\ count[u] \in 0 .. MaxReminders
         /\ u \in run[j].sent => mails[u] = count[u] + 1 /\ u \notin run[j].todo
         /\ u \in run[j].todo => mails[u] = count[u] /\ u \notin run[j].sent
         /\ Reads(u, j) => run[j].count[u] = count[u] /\ count[u] < MaxReminders
         /\ ~Reads(u, j) => mails[u] = count[u] + Unwritten(u)
<1>1. /\ count[u] \in 0 .. MaxReminders /\ mails[u] = count[u] + Unwritten(u)
      /\ \A k \in Jobs : Reads(u, k) =>
           /\ run[k].count[u] = count[u] /\ count[u] < MaxReminders
           /\ ~(u \in run[k].todo /\ u \in run[k].sent)
           /\ \A h \in Jobs : Reads(u, h) => h = k
  BY DEF RemindInv
<1>2. u \in run[j].sent => Unwritten(u) = 1 /\ Reads(u, j)
  BY DEF Unwritten, Reads
<1>3. u \in run[j].todo => Unwritten(u) = 0 /\ Reads(u, j)
  BY <1>1 DEF Unwritten, Reads
<1>4. count[u] + 0 = count[u]
  BY <1>1, RemindersAssumption
<1> QED
  BY <1>1, <1>2, <1>3, <1>4

LEMMA RunSends ==
  ASSUME RemindInv, NEW j \in Jobs, RunOne(j)
  PROVE  RemindInv'
<1> DEFINE s == run[j]
<1>1. PICK u \in s.todo :
        \/ /\ run' = [run EXCEPT ![j].todo = @ \ {u}]
           /\ UNCHANGED <<count, mails, upset>>
        \/ /\ mails' = [mails EXCEPT ![u] = @ + 1] /\ UNCHANGED <<count, upset>>
           /\ run' = [run EXCEPT ![j].todo = @ \ {u}, ![j].sent = @ \cup {u}]
        \/ /\ mails' = [mails EXCEPT ![u] = @ + 1] /\ UNCHANGED upset
           /\ count' = [w \in Customers |-> IF w \in s.sent THEN s.count[w] + 1 ELSE count[w]]
           /\ run' = [run EXCEPT ![j].todo = @ \ {u}, ![j].sent = {u}]
  BY DEF RunOne, Recorded
<1>2. DOMAIN s = RunFields /\ s.on = run[j].on /\ DOMAIN run = Jobs /\ (~s.on => s.todo = {})
      /\ DOMAIN count = Customers /\ DOMAIN mails = Customers
  BY DEF RemindInv
<1>3. \A w \in Customers \ upset :
        /\ count[w] \in 0 .. MaxReminders
        /\ w \in s.sent => mails[w] = count[w] + 1 /\ w \notin s.todo /\ Reads(w, j)
        /\ w \in s.todo => mails[w] = count[w] /\ w \notin s.sent /\ Reads(w, j)
        /\ Reads(w, j) => s.count[w] = count[w] /\ count[w] < MaxReminders /\ w \in s.todo \cup s.sent
        /\ ~Reads(w, j) => mails[w] = count[w] + Unwritten(w)
  BY RemindOf DEF Reads
<1>4. MaxReminders \in Nat
  BY RemindersAssumption
<1>5. CASE run' = [run EXCEPT ![j].todo = @ \ {u}] /\ UNCHANGED <<count, mails, upset>>
  <2> DEFINE r == [s EXCEPT !.todo = @ \ {u}]
  <2>1. /\ run' = [run EXCEPT ![j] = r]
        /\ DOMAIN r = RunFields /\ r.on = s.on /\ r.todo = s.todo \ {u} /\ r.sent = s.sent /\ r.count = s.count
    BY <1>2, <1>5 DEF RunFields
  <2> HIDE DEF r
  <2>2. ~r.on => r.todo = {} /\ r.sent = {}
    BY <2>1 DEF RemindInv
  <2> HIDE DEF s
  <2>3. \A w \in Customers \ upset :
          /\ w \in r.todo => w \in s.todo /\ w \notin r.sent
          /\ w \in r.sent => Reads(w, j)
          /\ w \in r.todo \cup r.sent => r.count[w] = s.count[w] /\ count'[w] = count[w]
          /\ w \notin s.sent => count'[w] = count[w]
          /\ count'[w] \in 0 .. MaxReminders
    BY <1>3, <1>5, <2>1
  <2>4. \A w \in Customers \ upset :
          mails'[w] = count'[w] + (IF w \in r.sent THEN 1 ELSE IF Reads(w, j) THEN 0 ELSE Unwritten(w))
    BY <1>3, <1>4, <1>5, <2>1
  <2>5. DOMAIN mails' = Customers /\ DOMAIN count' = Customers
    BY <1>2, <1>5
  <2> QED
    BY <1>5, <2>1, <2>2, <2>3, <2>4, <2>5, RunMoves DEF s
<1>6. CASE /\ mails' = [mails EXCEPT ![u] = @ + 1] /\ UNCHANGED <<count, upset>>
           /\ run' = [run EXCEPT ![j].todo = @ \ {u}, ![j].sent = @ \cup {u}]
  <2> DEFINE r == [s EXCEPT !.todo = @ \ {u}, !.sent = @ \cup {u}]
  <2>1. /\ run' = [run EXCEPT ![j] = r]
        /\ DOMAIN r = RunFields /\ r.on = s.on /\ r.todo = s.todo \ {u} /\ r.sent = s.sent \cup {u}
        /\ r.count = s.count
    BY <1>2, <1>6 DEF RunFields
  <2> HIDE DEF r
  <2>2. ~r.on => r.todo = {} /\ r.sent = {}
    BY <1>2, <2>1
  <2> HIDE DEF s
  <2>3. \A w \in Customers \ upset :
          /\ w \in r.todo => w \in s.todo /\ w \notin r.sent
          /\ w \in r.sent => Reads(w, j)
          /\ w \in r.todo \cup r.sent => r.count[w] = s.count[w] /\ count'[w] = count[w]
          /\ w \notin s.sent => count'[w] = count[w]
          /\ count'[w] \in 0 .. MaxReminders
    BY <1>1, <1>3, <1>6, <2>1
  <2>4. ASSUME NEW w \in Customers \ upset
        PROVE mails'[w] = count'[w] + (IF w \in r.sent THEN 1 ELSE IF Reads(w, j) THEN 0 ELSE Unwritten(w))
    <3>1. CASE w = u
      BY <1>1, <1>2, <1>3, <1>4, <1>6, <2>1, <3>1
    <3>2. CASE w # u
      BY <1>2, <1>3, <1>4, <1>6, <2>1, <3>2
    <3> QED
      BY <3>1, <3>2
  <2>5. DOMAIN mails' = Customers
    BY <1>2, <1>6
  <2> QED
    BY <1>2, <1>6, <2>1, <2>2, <2>3, <2>4, <2>5, RunMoves DEF s
<1>7. CASE /\ mails' = [mails EXCEPT ![u] = @ + 1] /\ UNCHANGED upset
           /\ count' = [w \in Customers |-> IF w \in s.sent THEN s.count[w] + 1 ELSE count[w]]
           /\ run' = [run EXCEPT ![j].todo = @ \ {u}, ![j].sent = {u}]
  <2> DEFINE r == [s EXCEPT !.todo = @ \ {u}, !.sent = {u}]
  <2>1. /\ run' = [run EXCEPT ![j] = r]
        /\ DOMAIN r = RunFields /\ r.on = s.on /\ r.todo = s.todo \ {u} /\ r.sent = {u} /\ r.count = s.count
    BY <1>2, <1>7 DEF RunFields
  <2> HIDE DEF r
  <2>2. ~r.on => r.todo = {} /\ r.sent = {}
    BY <1>2, <2>1
  <2> HIDE DEF s
  <2>3. \A w \in Customers \ upset : count'[w] = IF w \in s.sent THEN count[w] + 1 ELSE count[w]
    BY <1>3, <1>7
  <2>4. \A w \in Customers \ upset :
          /\ w \in r.todo => w \in s.todo /\ w \notin r.sent
          /\ w \in r.sent => Reads(w, j)
          /\ w \in r.todo \cup r.sent => r.count[w] = s.count[w] /\ count'[w] = count[w]
          /\ w \notin s.sent => count'[w] = count[w]
    BY <1>1, <1>3, <2>1, <2>3
  <2>5. \A w \in Customers \ upset : count'[w] \in 0 .. MaxReminders
    BY <1>3, <1>4, <2>3
  <2>6. ASSUME NEW w \in Customers \ upset
        PROVE mails'[w] = count'[w] + (IF w \in r.sent THEN 1 ELSE IF Reads(w, j) THEN 0 ELSE Unwritten(w))
    <3>1. CASE w = u
      BY <1>1, <1>2, <1>3, <1>4, <1>7, <2>1, <2>3, <3>1
    <3>2. CASE w # u
      BY <1>2, <1>3, <1>4, <1>7, <2>1, <2>3, <3>2
    <3> QED
      BY <3>1, <3>2
  <2>7. DOMAIN mails' = Customers /\ DOMAIN count' = Customers
    BY <1>2, <1>7
  <2> QED
    BY <1>7, <2>1, <2>2, <2>4, <2>5, <2>6, <2>7, RunMoves DEF s
<1> QED
  BY <1>1, <1>5, <1>6, <1>7

LEMMA RunEnds ==
  ASSUME RemindInv, NEW j \in Jobs, RunEnd(j)
  PROVE  RemindInv'
<1> DEFINE s == run[j]
<1>1. /\ s.todo = {} /\ run' = [run EXCEPT ![j] = NoRun] /\ UNCHANGED <<mails, upset>>
      /\ count' = [w \in Customers |-> IF w \in s.sent THEN s.count[w] + 1 ELSE count[w]]
  BY DEF RunEnd, Recorded
<1>2. \A w \in Customers \ upset :
        /\ count[w] \in 0 .. MaxReminders
        /\ w \in s.sent => mails[w] = count[w] + 1 /\ Reads(w, j)
        /\ Reads(w, j) => s.count[w] = count[w] /\ count[w] < MaxReminders /\ w \in s.sent
        /\ ~Reads(w, j) => mails[w] = count[w] + Unwritten(w)
  BY <1>1, RemindOf DEF Reads
<1> HIDE DEF s
<1>3. MaxReminders \in Nat
  BY RemindersAssumption
<1>4. \A w \in Customers \ upset : count'[w] = IF w \in s.sent THEN count[w] + 1 ELSE count[w]
  BY <1>1, <1>2
<1>5. \A w \in Customers \ upset : /\ count'[w] \in 0 .. MaxReminders
                                   /\ w \notin s.sent => count'[w] = count[w]
  BY <1>2, <1>3, <1>4
<1>6. \A w \in Customers \ upset :
        mails'[w] = count'[w] + (IF w \in NoRun.sent THEN 1 ELSE IF Reads(w, j) THEN 0 ELSE Unwritten(w))
  BY <1>1, <1>2, <1>3, <1>4, NoRunState
<1>7. DOMAIN mails' = Customers /\ DOMAIN count' = Customers
  BY <1>1 DEF RemindInv
<1> QED
  BY <1>1, <1>5, <1>6, <1>7, NoRunState, RunMoves DEF s

LEMMA RunsDropped ==
  ASSUME RemindInv, DropRuns
  PROVE  RemindInv'
<1>1. /\ upset' = upset \cup UNION {run[j].sent : j \in Jobs}
      /\ DOMAIN run' = Jobs /\ (\A j \in Jobs : run'[j] = NoRun) /\ UNCHANGED <<count, mails>>
  BY DEF DropRuns
<1>2. ASSUME NEW u \in Customers \ upset'
      PROVE  count'[u] \in 0 .. MaxReminders /\ mails'[u] = count'[u] + Unwritten(u)'
  <2>1. u \in Customers \ upset /\ \A j \in Jobs : u \notin run[j].sent
    BY <1>1
  <2>2. Unwritten(u) = 0 /\ Unwritten(u)' = 0
    BY <1>1, <2>1, NoRunState DEF Unwritten
  <2> QED
    BY <1>1, <2>1, <2>2 DEF RemindInv
<1>3. \A u, j : j \in Jobs => ~Reads(u, j)'
  BY <1>1, NoRunState DEF Reads
<1> QED
  BY <1>1, <1>2, <1>3, NoRunState DEF RemindInv

LEMMA RemindAlways == Spec => []RemindInv
<1>1. Init => RemindInv
  <2> SUFFICES ASSUME Init PROVE RemindInv
    OBVIOUS
  <2>1. /\ count = [u \in Customers |-> 0] /\ mails = [u \in Customers |-> 0]
        /\ run = [j \in Jobs |-> NoRun]
    BY DEF Init, RemindersInit
  <2>2. \A u : Unwritten(u) = 0 /\ \A j \in Jobs : ~Reads(u, j)
    BY <2>1, NoRunState DEF Unwritten, Reads
  <2> QED
    BY <2>1, <2>2, NoRunState, RemindersAssumption DEF RemindInv
<1>2. ASSUME SiteInv, RemindInv, [Next]_vars PROVE RemindInv'
  <2>1. UNCHANGED reminderVars \/ RemindersStep \/ DropRuns
    BY <1>2, NextReminders
  <2>2. CASE UNCHANGED <<count, run, mails, upset>>
    BY <1>2, <2>2 DEF RemindInv, Reads, Unwritten
  <2>3. CASE RemindersStep
    <3>1. shop.jobs \subseteq Jobs
      BY <1>2, ShopAssumption DEF SiteInv
    <3>2. ASSUME NEW u, ReminderAges(u) PROVE UNCHANGED <<count, run, mails, upset>>
      BY <3>2 DEF ReminderAges
    <3> QED
      BY <1>2, <2>2, <2>3, <3>1, <3>2, RunBegun, RunSends, RunEnds DEF RemindersStep
  <2>4. CASE DropRuns
    BY <1>2, <2>4, RunsDropped
  <2> QED
    BY <2>1, <2>2, <2>3, <2>4 DEF reminderVars
<1>3. SiteInv /\ RemindInv /\ [Next]_vars => RemindInv'
  BY <1>2
<1> QED
  BY <1>1, <1>3, SiteAlways, PTL DEF Spec

\* ReminderBound: the job sends a customer no more reminders than the settings ever
\* allow, unless a run died with mails unrecorded or two runs read the cart at once.
THEOREM RemindersAreBounded == Spec => []ReminderBound
<1>1. RemindInv => ReminderBound
  <2>1. SUFFICES ASSUME RemindInv, NEW u \in Customers \ upset PROVE mails[u] <= MaxReminders
    BY DEF ReminderBound
  <2>2. /\ count[u] \in 0 .. MaxReminders /\ mails[u] = count[u] + Unwritten(u)
        /\ \A j \in Jobs : Reads(u, j) => count[u] < MaxReminders
    BY <2>1 DEF RemindInv
  <2>3. Unwritten(u) = 0 \/ (Unwritten(u) = 1 /\ count[u] < MaxReminders)
    BY <2>2 DEF Unwritten, Reads
  <2> QED
    BY <2>2, <2>3, RemindersAssumption
<1> QED
  BY <1>1, RemindAlways, PTL

\* Whatever overlaps or dies, a run holds counts below the bound of those it reads.
RunFits ==
  /\ count \in [Customers -> 0 .. MaxReminders] /\ recent \in [Customers -> BOOLEAN]
  /\ mails \in [Customers -> 0 .. MaxMails]
  /\ \A j \in Jobs : /\ run[j].on \/ run[j] = NoRun
                     /\ \A u \in Customers : Reads(u, j) => run[j].count[u] \in 0 .. MaxReminders - 1

LEMMA RunFitsStep ==
  ASSUME SiteInv, RemindInv, RunFits, [Next]_vars
  PROVE  RunFits'
<1>1. UNCHANGED reminderVars \/ RemindersStep \/ DropRuns
  BY NextReminders
<1>2. /\ MaxReminders \in Nat /\ MaxMails \in Nat /\ MaxReminders >= 1 /\ shop.jobs \subseteq Jobs /\ DOMAIN run = Jobs
      /\ \A j \in Jobs : DOMAIN run[j] = RunFields /\ (~run[j].on => run[j].todo = {} /\ run[j].sent = {})
  BY RemindersAssumption, ShopAssumption DEF SiteInv, RemindInv
<1>3. CASE UNCHANGED reminderVars
  BY <1>3 DEF reminderVars, RunFits, Reads
<1>4. ASSUME NEW j \in Jobs, NEW r, run' = [run EXCEPT ![j] = r], r.on \/ r = NoRun,
             count' \in [Customers -> 0 .. MaxReminders], recent' \in [Customers -> BOOLEAN],
             mails' \in [Customers -> 0 .. MaxMails],
             \A u \in Customers : u \in r.todo \cup r.sent => r.count[u] \in 0 .. MaxReminders - 1
      PROVE  RunFits'
  <2>1. run'[j] = r /\ \A k \in Jobs \ {j} : run'[k] = run[k]
    BY <1>2, <1>4
  <2>2. \A k \in Jobs : run'[k].on \/ run'[k] = NoRun
    BY <1>4, <2>1 DEF RunFits
  <2>3. \A k \in Jobs, u \in Customers : Reads(u, k)' => run'[k].count[u] \in 0 .. MaxReminders - 1
    BY <1>4, <2>1 DEF RunFits, Reads
  <2> QED
    BY <1>4, <2>2, <2>3 DEF RunFits
<1>5. ASSUME NEW j \in Jobs, NEW us, us \subseteq run[j].sent, Recorded(j, us)
      PROVE  count' \in [Customers -> 0 .. MaxReminders] /\ recent' \in [Customers -> BOOLEAN]
  <2>1. \A u \in Customers : u \in us => run[j].count[u] + 1 \in 0 .. MaxReminders
    BY <1>2, <1>5 DEF RunFits, Reads
  <2>2. /\ count' = [u \in Customers |-> IF u \in us THEN run[j].count[u] + 1 ELSE count[u]]
        /\ recent' = [u \in Customers |-> u \in us \/ recent[u]]
    BY <1>5 DEF Recorded
  <2>3. \A u \in Customers : (u \in us \/ recent[u]) \in BOOLEAN
    OBVIOUS
  <2> QED
    BY <2>1, <2>2, <2>3 DEF RunFits
<1>6. ASSUME NEW j \in Jobs, RunBegin(j) PROVE RunFits'
  <2> DEFINE todo == {u \in shop.customers : Eligible(u)}
             r == [on |-> TRUE, todo |-> todo, count |-> count,
                   recent |-> {u \in Customers : recent[u]}, sent |-> {}]
  <2>1. run' = [run EXCEPT ![j] = r] /\ UNCHANGED <<count, recent, mails>>
    BY <1>6 DEF RunBegin
  <2>2. \A u \in Customers : u \in todo => count[u] \in 0 .. MaxReminders - 1
    BY <1>2 DEF Eligible, SiteInv, Proper, RunFits
  <2>3. r.on /\ r.todo = todo /\ r.sent = {} /\ r.count = count
    OBVIOUS
  <2> HIDE DEF r, todo
  <2> QED
    BY <1>4, <2>1, <2>2, <2>3 DEF RunFits
<1>7. ASSUME NEW j \in Jobs, RunOne(j) PROVE RunFits'
  <2>1. PICK u \in run[j].todo :
          \/ /\ run' = [run EXCEPT ![j].todo = @ \ {u}]
             /\ UNCHANGED <<count, recent, mails, upset>>
          \/ /\ mails[u] < MaxMails /\ mails' = [mails EXCEPT ![u] = @ + 1]
             /\ \/ /\ UNCHANGED <<count, recent>>
                   /\ run' = [run EXCEPT ![j].todo = @ \ {u}, ![j].sent = @ \cup {u}]
                \/ /\ Recorded(j, run[j].sent)
                   /\ run' = [run EXCEPT ![j].todo = @ \ {u}, ![j].sent = {u}]
    BY <1>7 DEF RunOne
  <2>2. run[j].on /\ DOMAIN run[j] = RunFields
    BY <1>2, <2>1
  <2>3. PICK r : /\ run' = [run EXCEPT ![j] = r] /\ r.on /\ r.count = run[j].count
                 /\ r.todo \cup r.sent \subseteq run[j].todo \cup run[j].sent
    <3> DEFINE skip == [run[j] EXCEPT !.todo = @ \ {u}]
               send == [run[j] EXCEPT !.todo = @ \ {u}, !.sent = @ \cup {u}]
               book == [run[j] EXCEPT !.todo = @ \ {u}, !.sent = {u}]
    <3>1. run' \in {[run EXCEPT ![j] = skip], [run EXCEPT ![j] = send], [run EXCEPT ![j] = book]}
      BY <1>2, <2>1
    <3>2. \A x \in {skip, send, book} : x.on /\ x.count = run[j].count /\ x.todo \cup x.sent \subseteq run[j].todo \cup run[j].sent
      BY <2>2 DEF RunFields
    <3> HIDE DEF skip, send, book
    <3> QED
      BY <3>1, <3>2
  <2>4. count' \in [Customers -> 0 .. MaxReminders] /\ recent' \in [Customers -> BOOLEAN]
    BY <1>5, <2>1 DEF RunFits
  <2>5. mails' \in [Customers -> 0 .. MaxMails]
    BY <1>2, <2>1 DEF RunFits
  <2>6. \A x \in Customers : x \in r.todo \cup r.sent => r.count[x] \in 0 .. MaxReminders - 1
    BY <2>3 DEF RunFits, Reads
  <2> QED
    BY <1>4, <2>3, <2>4, <2>5, <2>6
<1>8. ASSUME NEW j \in Jobs, RunEnd(j) PROVE RunFits'
  <2>1. Recorded(j, run[j].sent) /\ run' = [run EXCEPT ![j] = NoRun] /\ mails' = mails
    BY <1>8 DEF RunEnd
  <2> QED
    BY <1>4, <1>5, <2>1, NoRunState DEF RunFits
<1>9. ASSUME NEW u \in Customers, ReminderAges(u) PROVE RunFits'
  BY <1>9 DEF ReminderAges, RunFits, Reads
<1>10. CASE DropRuns
  BY <1>10, NoRunState DEF DropRuns, RunFits, Reads
<1> QED
  BY <1>1, <1>2, <1>3, <1>6, <1>7, <1>8, <1>9, <1>10 DEF RemindersStep

LEMMA RemindersTyped == Spec => []RemindersTypeOK
<1>1. Init => RunFits
  BY NoRunState, RemindersAssumption DEF Init, RemindersInit, RunFits, Reads
<1>2. SiteInv /\ RemindInv /\ RunFits /\ [Next]_vars => RunFits'
  BY RunFitsStep
<1>3. RunFits => RemindersTypeOK
  BY DEF RunFits, RemindersTypeOK
<1> QED
  BY <1>1, <1>2, <1>3, SiteAlways, RemindAlways, PTL DEF Spec

LEMMA SettingsTyped == Spec => []SettingsTypeOK
<1>1. SiteInv => SettingsTypeOK
  BY DEF SiteInv, SettingsTypeOK
<1> QED
  BY <1>1, SiteAlways, PTL
=============================================================================
