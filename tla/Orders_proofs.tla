--------------------------- MODULE Orders_proofs ---------------------------
(***************************************************************************)
(* Theorems about Orders.tla, for any orders, variants, baskets, keys,     *)
(* sessions and processes that satisfy OrdersAssumption: what holds however*)
(* the requests overlap; the units, which are what is in stock, what live  *)
(* orders hold and what the sales counters say; and what the desk keeps to *)
(* when requests on one order do not overlap, with the contract of         *)
(* OrderContract.tla.                                                      *)
(***************************************************************************)
EXTENDS Orders, FiniteSums, TLAPS

RowRecord == [status : Statuses, sup : {"none", "ok", "failed"},
              refund : BOOLEAN, pay : Sessions \cup {None}]

\* What a request in progress has been given by the step that started it.
ReqOK ==
  \A p \in Procs :
    /\ req[p].at \in {"idle", "create"} => req[p].order = None
    /\ req[p].at \notin {"idle", "create"} => req[p].order \in Orders
    /\ req[p].at = "apply" => /\ req[p].session \in claimed
                              /\ req[p].order = sessionOrder[req[p].session]
    /\ req[p].at \in {"cancel", "sweep", "sweepCancel", "sweepPay"} => req[p].row.status = "pending"
    /\ req[p].at = "sweepPay" => req[p].row.pay \in charged
    /\ req[p].at = "admin" => req[p].to \in AllowedNext(req[p].row.status)

TypeInv == TypeOK /\ ReqOK

LEMMA IdleType == Idle \in Request /\ Idle.at = "idle" /\ Idle.order = None
BY OrdersAssumption DEF Idle, Request, NoRow, Stages, Statuses

LEMMA RowType == TypeOK => \A o \in Orders : Row(o) \in RowRecord
BY DEF TypeOK, Row, RowRecord

LEMMA InitTypeInv == Init => TypeInv
BY OrdersAssumption, IdleType DEF Init, TypeInv, TypeOK, ReqOK, Statuses

-----------------------------------------------------------------------------
(* Steps that begin, advance or end a request: only req and the claims and *)
(* charges it may refer to change.                                         *)

LEMMA FinishType ==
  ASSUME NEW p \in Procs, TypeInv, Finish(p)
  PROVE  /\ req' \in [Procs -> Request]
         /\ \A q \in Procs : req'[q] = IF q = p THEN Idle ELSE req[q]
BY IdleType DEF TypeInv, TypeOK, Finish

\* ReqOK survives a finished request when sessions keep their orders and
\* neither a claim nor a charge is taken back.
LEMMA FinishReqOK ==
  ASSUME NEW p \in Procs, TypeInv, Finish(p),
         claimed \subseteq claimed', charged \subseteq charged',
         \A s \in claimed : sessionOrder'[s] = sessionOrder[s]
  PROVE  ReqOK'
BY FinishType, IdleType DEF TypeInv, ReqOK

\* The request of p becomes r; nothing else changes.
LEMMA RequestStep ==
  ASSUME TypeInv, NEW p \in Procs, NEW r \in Request,
         req' = [req EXCEPT ![p] = r],
         UNCHANGED <<orderVars, keyVars, pspVars, stock, sold, cart, claimed, placed,
                     wasted, dropped>>,
         /\ r.at \in {"idle", "create"} => r.order = None
         /\ r.at \notin {"idle", "create"} => r.order \in Orders
         /\ r.at # "apply"
         /\ r.at \in {"cancel", "sweep", "sweepCancel", "sweepPay"} => r.row.status = "pending"
         /\ r.at = "sweepPay" => r.row.pay \in charged
         /\ r.at = "admin" => r.to \in AllowedNext(r.row.status)
  PROVE  TypeInv'
<1>1. /\ req' \in [Procs -> Request]
      /\ \A q \in Procs : req'[q] = IF q = p THEN r ELSE req[q]
  BY DEF TypeInv, TypeOK
<1>2. TypeOK'
  BY <1>1 DEF TypeInv, TypeOK, orderVars, keyVars, pspVars
<1>3. ReqOK'
  BY <1>1 DEF TypeInv, ReqOK, pspVars
<1> QED BY <1>2, <1>3 DEF TypeInv

LEMMA BeginType ==
  ASSUME TypeInv, NEW p \in Procs, NEW o \in Orders,
         NEW stage \in {"checkout", "cancel", "sweep"},
         stage \in {"cancel", "sweep"} => status[o] = "pending",
         Begin(p, o, stage),
         UNCHANGED <<orderVars, keyVars, pspVars, stock, sold, cart, claimed, placed,
                     wasted, dropped>>
  PROVE  TypeInv'
<1> DEFINE r == [Idle EXCEPT !.at = stage, !.order = o, !.row = Row(o)]
<1>1. r \in Request
  BY IdleType, RowType DEF TypeInv, Request, Stages, RowRecord
<1>2. r.at = stage /\ r.order = o /\ r.row.status = status[o]
  BY IdleType DEF Request, Idle, Row
<1>3. req' = [req EXCEPT ![p] = r]
  BY DEF Begin
<1> HIDE DEF r
<1> QED BY <1>1, <1>2, <1>3, RequestStep

LEMMA CreateReadType ==
  ASSUME TypeInv, NEW p \in Procs, NEW key \in Keys \cup {None}, CreateRead(p, key)
  PROVE  TypeInv'
<1> DEFINE r == [Idle EXCEPT !.at = "create", !.key = key, !.basket = cart]
<1>1. r \in Request
  BY IdleType DEF TypeInv, TypeOK, Request, Stages
<1>2. r.at = "create" /\ r.order = None
  BY IdleType DEF Request, Idle
<1>3. req' = [req EXCEPT ![p] = r]
  BY DEF CreateRead
<1>4. UNCHANGED <<orderVars, keyVars, pspVars, stock, sold, cart, claimed, placed,
                  wasted, dropped>>
  BY DEF CreateRead
<1> HIDE DEF r
<1> QED BY <1>1, <1>2, <1>3, <1>4, RequestStep

LEMMA AdminReadType ==
  ASSUME TypeInv, NEW p \in Procs, NEW o \in Orders, NEW new \in Statuses, AdminRead(p, o, new)
  PROVE  TypeInv'
<1> DEFINE r == [Idle EXCEPT !.at = "admin", !.order = o, !.row = Row(o), !.to = new]
<1>1. r \in Request
  BY IdleType, RowType DEF TypeInv, Request, Stages, RowRecord
<1>2. r.at = "admin" /\ r.order = o /\ r.row.status = status[o] /\ r.to = new
  BY IdleType DEF Request, Idle, Row
<1>3. req' = [req EXCEPT ![p] = r] /\ new \in AllowedNext(status[o])
  BY DEF AdminRead
<1>4. UNCHANGED <<orderVars, keyVars, pspVars, stock, sold, cart, claimed, placed,
                  wasted, dropped>>
  BY DEF AdminRead
<1> HIDE DEF r
<1> QED BY <1>1, <1>2, <1>3, <1>4, RequestStep

LEMMA SweepAskType ==
  ASSUME TypeInv, NEW p \in Procs, SweepAsk(p)
  PROVE  TypeInv'
<1> DEFINE r == [req[p] EXCEPT !.at = IF req[p].row.pay \in charged THEN "sweepPay" ELSE "sweepCancel"]
<1>0. req[p] \in Request /\ req[p].at = "sweep" /\ req[p].order \in Orders /\ req[p].row.status = "pending"
  BY DEF TypeInv, TypeOK, ReqOK, SweepAsk
<1>1. r \in Request
  BY <1>0 DEF Request, Stages
<1>2. /\ r.at \in {"sweepPay", "sweepCancel"}
      /\ r.order = req[p].order
      /\ r.row = req[p].row
      /\ r.at = "sweepPay" => r.row.pay \in charged
  BY <1>0 DEF Request
<1>3. req' = [req EXCEPT ![p] = r]
  BY <1>0 DEF SweepAsk, TypeInv, TypeOK
<1>4. UNCHANGED <<orderVars, keyVars, pspVars, stock, sold, cart, claimed, placed,
                  wasted, dropped>>
  BY DEF SweepAsk
<1> HIDE DEF r
<1> QED BY <1>0, <1>1, <1>2, <1>3, <1>4, RequestStep

\* A request that ends and leaves nothing behind.
LEMMA FinishOnly ==
  ASSUME TypeInv, NEW p \in Procs, Finish(p),
         UNCHANGED <<orderVars, keyVars, pspVars, stock, sold, cart, claimed, placed,
                     wasted, dropped>>
  PROVE  TypeInv'
BY IdleType, RequestStep DEF Finish

-----------------------------------------------------------------------------
(* Status changes                                                          *)

\* The part of TypeOK a status change touches.
ChangeOK ==
  /\ status \in [Orders -> Statuses]
  /\ lines  \in [Orders -> [Variants -> Nat]]
  /\ refund \in [Orders -> BOOLEAN]
  /\ sup    \in [Orders -> {"none", "ok", "failed"}]
  /\ stock  \in [Variants -> Nat]
  /\ sold   \in [Variants -> Nat]
  /\ placed \in [Orders -> Nat]

LEMMA FulfillType ==
  ASSUME TypeOK, NEW o \in Orders, NEW row \in RowRecord, FulfillOrder(o, row)
  PROVE  /\ refund' \in [Orders -> BOOLEAN]
         /\ sup' \in [Orders -> {"none", "ok", "failed"}]
         /\ placed' \in [Orders -> Nat]
<1>1. CASE row.sup = "ok"
  BY <1>1 DEF FulfillOrder, TypeOK
<1>2. CASE row.sup # "ok"
  <2>1. row.refund \in BOOLEAN
    BY DEF RowRecord
  <2>2. PICK answer \in Answers :
           /\ sup' = [sup EXCEPT ![o] = IF answer = "accepted" THEN "ok" ELSE "failed"]
           /\ placed' = [placed EXCEPT ![o] = IF answer = "refused" THEN @ ELSE @ + 1]
    BY <1>2 DEF FulfillOrder
  <2>3. refund' = [refund EXCEPT ![o] = row.refund]
    BY <1>2 DEF FulfillOrder
  <2> QED BY <2>1, <2>2, <2>3 DEF TypeOK
<1> QED BY <1>1, <1>2

LEMMA ApplyPaidType ==
  ASSUME TypeOK, NEW o \in Orders, NEW row \in RowRecord, ApplyPaid(o, row)
  PROVE  ChangeOK'
<1>1. sold' \in [Variants -> Nat]
  BY DEF ApplyPaid, IncrementUnitsSold, TypeOK
<1> QED BY <1>1, FulfillType DEF ApplyPaid, TypeOK, ChangeOK, Statuses

LEMMA ApplyCancelledType ==
  ASSUME TypeOK, NEW o \in Orders, NEW row \in RowRecord, ApplyCancelled(o, row),
         refund' \in [Orders -> BOOLEAN]
  PROVE  ChangeOK'
<1>1. stock' \in [Variants -> Nat]
  BY DEF ApplyCancelled, ReleaseInventory, TypeOK
<1>2. sold' \in [Variants -> Nat]
  BY DEF ApplyCancelled, DecrementUnitsSold, TypeOK
<1> QED BY <1>1, <1>2 DEF ApplyCancelled, TypeOK, ChangeOK, Statuses

LEMMA ApplyShipmentType ==
  ASSUME TypeOK, NEW o \in Orders, NEW new \in {"shipped", "delivered"}, ApplyShipment(o, new)
  PROVE  ChangeOK'
BY DEF ApplyShipment, TypeOK, ChangeOK, Statuses

LEMMA RecordLateType ==
  ASSUME TypeOK, NEW o \in Orders, NEW s \in Sessions, RecordLatePayment(o, s)
  PROVE  ChangeOK' /\ payId' \in [Orders -> Sessions \cup {None}]
BY DEF RecordLatePayment, TypeOK, ChangeOK

LEMMA CompletePaymentType ==
  ASSUME TypeOK, NEW o \in Orders, NEW row \in RowRecord, NEW s \in Sessions,
         CompletePayment(o, row, s)
  PROVE  ChangeOK' /\ payId' \in [Orders -> Sessions \cup {None}]
<1>1. payId' \in [Orders -> Sessions \cup {None}]
  BY DEF CompletePayment, TypeOK
<1> QED BY <1>1, ApplyPaidType DEF CompletePayment

\* A request that ends with a status change.
LEMMA ChangeStep ==
  ASSUME TypeInv, NEW p \in Procs, Finish(p), ChangeOK',
         payId' \in [Orders -> Sessions \cup {None}],
         UNCHANGED <<aged, keyVars, pspVars, cart, claimed, wasted, dropped>>
  PROVE  TypeInv'
<1>1. TypeOK'
  BY FinishType DEF TypeInv, TypeOK, ChangeOK, keyVars, pspVars
<1>2. ReqOK'
  BY FinishReqOK DEF pspVars
<1> QED BY <1>1, <1>2 DEF TypeInv

\* The loaded row and the order of a request that is about to write.
LEMMA LoadedRow ==
  ASSUME TypeInv, NEW p \in Procs, req[p].at \notin {"idle", "create"}
  PROVE  req[p].order \in Orders /\ req[p].row \in RowRecord
BY DEF TypeInv, TypeOK, ReqOK, Request, RowRecord

LEMMA WebhookApplyType ==
  ASSUME TypeInv, NEW p \in Procs, WebhookApply(p)
  PROVE  TypeInv'
<1> DEFINE o == req[p].order
           s == req[p].session
<1>1. o \in Orders /\ s \in Sessions /\ Row(o) \in RowRecord
  BY LoadedRow, RowType DEF TypeInv, TypeOK, ReqOK, WebhookApply
<1>2. /\ Finish(p)
      /\ UNCHANGED <<aged, keyVars, pspVars, cart, claimed, wasted, dropped>>
  BY DEF WebhookApply
<1>3. \/ CompletePayment(o, Row(o), s)
      \/ RecordLatePayment(o, s)
      \/ UNCHANGED <<status, lines, payId, refund, sup, stock, sold, placed>>
  BY DEF WebhookApply
<1>4. ChangeOK' /\ payId' \in [Orders -> Sessions \cup {None}]
  <2>1. CASE CompletePayment(o, Row(o), s)
    BY <1>1, <2>1, CompletePaymentType DEF TypeInv
  <2>2. CASE RecordLatePayment(o, s)
    BY <1>1, <2>2, RecordLateType DEF TypeInv
  <2>3. CASE UNCHANGED <<status, lines, payId, refund, sup, stock, sold, placed>>
    BY <2>3 DEF TypeInv, TypeOK, ChangeOK
  <2> QED BY <1>3, <2>1, <2>2, <2>3
<1> QED BY <1>2, <1>4, ChangeStep

LEMMA CancelWriteType ==
  ASSUME TypeInv, NEW p \in Procs, CancelWrite(p)
  PROVE  TypeInv'
<1>1. req[p].order \in Orders /\ req[p].row \in RowRecord
  BY LoadedRow DEF CancelWrite
<1>2. ChangeOK'
  BY <1>1, ApplyCancelledType DEF CancelWrite, TypeInv, TypeOK
<1> QED BY <1>2, ChangeStep DEF CancelWrite, TypeInv, TypeOK

LEMMA AdminWriteType ==
  ASSUME TypeInv, NEW p \in Procs, AdminWrite(p)
  PROVE  TypeInv'
<1> DEFINE o   == req[p].order
           row == req[p].row
           new == req[p].to
<1>1. o \in Orders /\ row \in RowRecord
  BY LoadedRow DEF AdminWrite
<1>2. CASE CancelAsAdmin(o, row)
  <2>1. refund' \in [Orders -> BOOLEAN]
    BY <1>2 DEF CancelAsAdmin, TypeInv, TypeOK
  <2>2. ChangeOK'
    BY <1>1, <1>2, <2>1, ApplyCancelledType DEF CancelAsAdmin, TypeInv
  <2> QED BY <2>2, ChangeStep DEF AdminWrite, TypeInv, TypeOK
<1>3. CASE ApplyPaid(o, row)
  BY <1>1, <1>3, ApplyPaidType, ChangeStep DEF AdminWrite, TypeInv, TypeOK
<1>4. CASE new \in {"shipped", "delivered"} /\ ApplyShipment(o, new)
  BY <1>1, <1>4, ApplyShipmentType, ChangeStep DEF AdminWrite, TypeInv, TypeOK
<1> QED BY <1>2, <1>3, <1>4 DEF AdminWrite

LEMMA SweepWriteType ==
  ASSUME TypeInv, NEW p \in Procs, SweepWrite(p)
  PROVE  TypeInv'
<1> DEFINE o   == req[p].order
           row == req[p].row
<1>1. o \in Orders /\ row \in RowRecord
  BY LoadedRow DEF SweepWrite
<1>2. CASE req[p].at = "sweepPay" /\ CompletePayment(o, row, row.pay)
  <2>1. row.pay \in Sessions
    BY <1>2 DEF TypeInv, TypeOK, ReqOK
  <2> QED BY <1>1, <1>2, <2>1, CompletePaymentType, ChangeStep DEF SweepWrite, TypeInv, TypeOK
<1>3. CASE ApplyCancelled(o, row) /\ UNCHANGED <<payId, refund>>
  BY <1>1, <1>3, ApplyCancelledType, ChangeStep DEF SweepWrite, TypeInv, TypeOK
<1> QED BY <1>2, <1>3 DEF SweepWrite

-----------------------------------------------------------------------------
(* The cart, order creation, checkout and failures                         *)

LEMMA EditCartLineType ==
  ASSUME TypeInv, NEW v \in Variants, EditCartLine(v)
  PROVE  TypeInv'
<1>1. cart' \in [Variants -> Nat]
  <2>1. PICK qty \in LineQuantities(v) : cart' = [cart EXCEPT ![v] = qty]
    BY DEF EditCartLine
  <2>2. qty \in Nat
    BY <2>1, OrdersAssumption DEF LineQuantities
  <2> QED BY <2>1, <2>2 DEF TypeInv, TypeOK
<1> QED BY <1>1 DEF EditCartLine, TypeInv, TypeOK, ReqOK, orderVars, keyVars, pspVars

LEMMA CreateWriteType ==
  ASSUME TypeInv, NEW p \in Procs, NEW o \in Orders, CreateWrite(p, o)
  PROVE  TypeInv'
<1>1. req[p].basket \in [Variants -> Nat] /\ req[p].key \in Keys \cup {None}
  BY DEF TypeInv, TypeOK, Request
<1>2. Finish(p)
  BY DEF CreateWrite
<1>3. /\ status' \in [Orders -> Statuses]
      /\ lines' \in [Orders -> [Variants -> Nat]]
      /\ keyRow' \in [Keys -> Orders \cup {None}]
      /\ orderKey' \in [Orders -> Keys \cup {None}]
  BY <1>1 DEF CreateWrite, TypeInv, TypeOK, Statuses
<1>4. stock' \in [Variants -> Nat] /\ cart' \in [Variants -> Nat]
  BY <1>1 DEF CreateWrite, Reservable, ReserveInventory, TypeInv, TypeOK
<1>5. UNCHANGED <<payId, refund, sup, aged, expired, sold, sessionOrder, charged,
                  claimed, placed, wasted, dropped>>
  BY DEF CreateWrite, pspVars
<1>6. TypeOK'
  BY <1>2, <1>3, <1>4, <1>5, FinishType DEF TypeInv, TypeOK
<1>7. ReqOK'
  BY <1>2, <1>5, FinishReqOK
<1> QED BY <1>6, <1>7 DEF TypeInv

LEMMA ExpireKeyType ==
  ASSUME TypeInv, NEW key \in Keys, ExpireKey(key)
  PROVE  TypeInv'
BY DEF ExpireKey, TypeInv, TypeOK, ReqOK, orderVars, pspVars

LEMMA CheckoutWriteType ==
  ASSUME TypeInv, NEW p \in Procs, NEW s \in Sessions, CheckoutWrite(p, s)
  PROVE  TypeInv'
<1>1. req[p].order \in Orders
  BY LoadedRow DEF CheckoutWrite
<1>2. Finish(p) /\ UNCHANGED <<claimed, charged>>
  BY DEF CheckoutWrite
<1>3. /\ sessionOrder' \in [Sessions -> Orders \cup {None}]
      /\ payId' \in [Orders -> Sessions \cup {None}]
      /\ \A t \in Sessions : sessionOrder[t] # None => sessionOrder'[t] = sessionOrder[t]
  BY <1>1 DEF CheckoutWrite, TypeInv, TypeOK
<1>4. charged' \subseteq {t \in Sessions : sessionOrder'[t] # None}
  BY <1>2, <1>3 DEF TypeInv, TypeOK
<1>5. TypeOK'
  BY <1>2, <1>3, <1>4, FinishType DEF CheckoutWrite, TypeInv, TypeOK, keyVars
<1>6. ReqOK'
  BY <1>2, <1>3, FinishReqOK DEF TypeInv, TypeOK
<1> QED BY <1>5, <1>6 DEF TypeInv

LEMMA CheckoutLostType ==
  ASSUME TypeInv, NEW p \in Procs, NEW s \in Sessions, CheckoutLost(p, s)
  PROVE  TypeInv'
<1>1. req[p].order \in Orders
  BY LoadedRow DEF CheckoutLost
<1>2. Finish(p) /\ UNCHANGED <<claimed, charged>>
  BY DEF CheckoutLost
<1>3. /\ sessionOrder' \in [Sessions -> Orders \cup {None}]
      /\ \A t \in Sessions : sessionOrder[t] # None => sessionOrder'[t] = sessionOrder[t]
  BY <1>1 DEF CheckoutLost, TypeInv, TypeOK
<1>4. charged' \subseteq {t \in Sessions : sessionOrder'[t] # None}
  BY <1>2, <1>3 DEF TypeInv, TypeOK
<1>5. TypeOK'
  BY <1>2, <1>3, <1>4, FinishType DEF CheckoutLost, TypeInv, TypeOK, orderVars, keyVars
<1>6. ReqOK'
  BY <1>2, <1>3, FinishReqOK DEF TypeInv, TypeOK
<1> QED BY <1>5, <1>6 DEF TypeInv

LEMMA ChargeType ==
  ASSUME TypeInv, NEW s \in Sessions, Charge(s)
  PROVE  TypeInv'
BY DEF Charge, TypeInv, TypeOK, ReqOK, orderVars, keyVars

LEMMA AgeType ==
  ASSUME TypeInv, NEW o \in Orders, Age(o)
  PROVE  TypeInv'
BY DEF Age, TypeInv, TypeOK, ReqOK, keyVars, pspVars

LEMMA WebhookClaimType ==
  ASSUME TypeInv, NEW p \in Procs, NEW s \in Sessions, WebhookClaim(p, s)
  PROVE  TypeInv'
<1> DEFINE r == [Idle EXCEPT !.at = "apply", !.session = s, !.order = sessionOrder[s]]
<1>1. sessionOrder[s] \in Orders
  BY DEF WebhookClaim, TypeInv, TypeOK
<1>2. r \in Request /\ r.at = "apply" /\ r.session = s /\ r.order = sessionOrder[s]
  BY <1>1, IdleType DEF Request, Stages
<1>3. req' = [req EXCEPT ![p] = r] /\ claimed' = claimed \cup {s} /\ s \in charged
  BY DEF WebhookClaim
<1>4. UNCHANGED <<orderVars, keyVars, pspVars, stock, sold, cart, placed, wasted, dropped>>
  BY DEF WebhookClaim
<1> HIDE DEF r
<1>5. /\ req' \in [Procs -> Request]
      /\ \A q \in Procs : req'[q] = IF q = p THEN r ELSE req[q]
  BY <1>2, <1>3 DEF TypeInv, TypeOK
<1>6. TypeOK'
  BY <1>3, <1>4, <1>5 DEF TypeInv, TypeOK, orderVars, keyVars, pspVars
<1>7. ReqOK'
  BY <1>1, <1>2, <1>3, <1>4, <1>5 DEF TypeInv, ReqOK, pspVars
<1> QED BY <1>6, <1>7 DEF TypeInv

LEMMA DroppingType ==
  ASSUME TypeInv, NEW p \in Procs
  PROVE  Dropping(p) \subseteq claimed
BY DEF TypeInv, TypeOK, ReqOK, Dropping

LEMMA FailType ==
  ASSUME TypeInv, NEW p \in Procs, Fail(p)
  PROVE  TypeInv'
<1>1. /\ Finish(p)
      /\ dropped' \subseteq claimed
      /\ UNCHANGED <<orderVars, keyVars, pspVars, stock, sold, cart, claimed, placed, wasted>>
  BY DroppingType DEF Fail
<1>2. TypeOK'
  BY <1>1, FinishType DEF TypeInv, TypeOK, orderVars, keyVars, pspVars
<1>3. ReqOK'
  BY <1>1, FinishReqOK DEF pspVars
<1> QED BY <1>2, <1>3 DEF TypeInv

LEMMA FailAfterSupplierType ==
  ASSUME TypeInv, NEW p \in Procs, FailAfterSupplier(p)
  PROVE  TypeInv'
<1>1. /\ Finish(p)
      /\ dropped' \subseteq claimed
      /\ UNCHANGED <<orderVars, keyVars, pspVars, stock, sold, cart, claimed>>
  BY DroppingType DEF FailAfterSupplier
<1>2. placed' \in [Orders -> Nat] /\ wasted' \in [Orders -> Nat]
  <2>1. req[p].order \in Orders
    BY LoadedRow DEF FailAfterSupplier, CallsSupplier
  <2> QED BY <2>1 DEF FailAfterSupplier, TypeInv, TypeOK
<1>3. TypeOK'
  BY <1>1, <1>2, FinishType DEF TypeInv, TypeOK, orderVars, keyVars, pspVars
<1>4. ReqOK'
  BY <1>1, FinishReqOK DEF pspVars
<1> QED BY <1>3, <1>4 DEF TypeInv

-----------------------------------------------------------------------------
(* Type correctness                                                        *)

LEMMA NextTypeInv ==
  ASSUME TypeInv, [Next]_vars
  PROVE  TypeInv'
<1>1. CASE UNCHANGED vars
  BY <1>1 DEF TypeInv, TypeOK, ReqOK, vars
<1>2. CASE Environment
  BY <1>2, EditCartLineType, ExpireKeyType, ChargeType, AgeType DEF Environment
<1>3. ASSUME NEW p \in Procs, Start(p)
      PROVE  TypeInv'
  <2>1. ASSUME NEW o \in Orders, CheckoutRead(p, o) \/ CancelRead(p, o) \/ SweepRead(p, o)
        PROVE  TypeInv'
    BY <2>1, BeginType DEF CheckoutRead, CancelRead, SweepRead
  <2> QED BY <1>3, <2>1, CreateReadType, WebhookClaimType, AdminReadType DEF Start
<1>4. ASSUME NEW p \in Procs, Continue(p)
      PROVE  TypeInv'
  <2>1. CASE CreateFail(p) \/ SweepUnknown(p)
    BY <2>1, FinishOnly DEF CreateFail, SweepUnknown
  <2>2. CASE WebhookApply(p) \/ CancelWrite(p) \/ AdminWrite(p) \/ SweepWrite(p)
    BY <2>2, WebhookApplyType, CancelWriteType, AdminWriteType, SweepWriteType
  <2> QED BY <1>4, <2>1, <2>2, CreateWriteType, CheckoutWriteType, CheckoutLostType, SweepAskType,
             FailType, FailAfterSupplierType DEF Continue
<1> QED BY <1>1, <1>2, <1>3, <1>4 DEF Next

\* In every state the program can reach, stock and sales counters are natural
\* numbers, every claimed event belongs to a paid session, and a request in
\* progress works on the order, the event and the transition it was started
\* with.
THEOREM RequestsWellFormed == Spec => []TypeInv
<1>1. TypeInv /\ [Next]_vars => TypeInv'
  BY NextTypeInv
<1> QED BY <1>1, InitTypeInv, PTL DEF Spec

\* The type invariant TypeOK, of which "no stock level is ever negative" is
\* the part a customer notices.
THEOREM TypeCorrect == Spec => []TypeOK
<1>1. TypeInv => TypeOK
  BY DEF TypeInv
<1> QED BY <1>1, RequestsWellFormed, PTL

-----------------------------------------------------------------------------
(* One order per Idempotency-Key                                           *)

\* The key row of an order created with a key still names that order.  Two
\* orders with one key would need one row to name both.
KeyInv == \A o \in Orders : orderKey[o] # None => keyRow[orderKey[o]] = o

LEMMA NextKeyInv ==
  ASSUME TypeInv, KeyInv, [Next]_vars
  PROVE  KeyInv'
<1>1. CASE UNCHANGED <<keyRow, orderKey>>
  BY <1>1 DEF KeyInv
<1>2. ASSUME NEW p \in Procs, NEW o \in Orders, CreateWrite(p, o)
      PROVE  KeyInv'
  <2> DEFINE key == req[p].key
  <2>1. /\ key \in Keys \cup {None}
        /\ keyRow \in [Keys -> Orders \cup {None}]
        /\ orderKey \in [Orders -> Keys \cup {None}]
    BY DEF TypeInv, TypeOK, Request
  <2>2. /\ key # None => keyRow[key] = None
        /\ keyRow' = IF key = None THEN keyRow ELSE [keyRow EXCEPT ![key] = o]
        /\ orderKey' = [orderKey EXCEPT ![o] = key]
    BY <1>2 DEF CreateWrite, KeyUnused
  <2>3. \A o2 \in Orders \ {o} : orderKey[o2] # key \/ key = None
    BY <2>1, <2>2, OrdersAssumption DEF KeyInv
  <2> HIDE DEF key
  <2> QED BY <2>1, <2>2, <2>3 DEF KeyInv
<1>3. CASE Environment
  BY <1>1, <1>3 DEF Environment, EditCartLine, ExpireKey, Charge, Age, keyVars
<1>4. ASSUME NEW p \in Procs, Start(p)
      PROVE  KeyInv'
  BY <1>1, <1>4 DEF Start, CreateRead, WebhookClaim, CheckoutRead, CancelRead, SweepRead,
     AdminRead, keyVars
<1>5. ASSUME NEW p \in Procs, Continue(p)
      PROVE  KeyInv'
  BY <1>1, <1>2, <1>5 DEF Continue, CheckoutWrite, CheckoutLost, CreateFail, WebhookApply, CancelWrite,
     AdminWrite, SweepAsk, SweepUnknown, SweepWrite, Fail, FailAfterSupplier, keyVars
<1> QED BY <1>1, <1>3, <1>4, <1>5 DEF Next, vars

\* However requests that carry one Idempotency-Key interleave, fail and come
\* back, before and after the key row's time to live, they create one order.
THEOREM KeysNameOneOrder == Spec => []OneOrderPerKey
<1>1. Init => KeyInv
  BY DEF Init, KeyInv
<1>2. TypeInv /\ KeyInv /\ [Next]_vars => KeyInv'
  BY NextKeyInv
<1>3. KeyInv => OneOrderPerKey
  BY DEF KeyInv, OneOrderPerKey
<1> QED BY <1>1, <1>2, <1>3, RequestsWellFormed, PTL DEF Spec

-----------------------------------------------------------------------------
(* Payments reach the order they were made for                             *)

\* An order, and a sweep that has loaded it, know only sessions that were
\* opened for that order.
PayInv ==
  /\ \A o \in Orders : payId[o] # None => sessionOrder[payId[o]] = o
  /\ \A p \in Procs : req[p].at \in {"sweep", "sweepPay"} /\ req[p].row.pay # None =>
                        sessionOrder[req[p].row.pay] = req[p].order

\* Steps that leave the orders' payment ids and the sessions alone and start
\* no sweep.
LEMMA PayFrame ==
  ASSUME TypeInv, PayInv, NEW p \in Procs, NEW r,
         req' = [req EXCEPT ![p] = r],
         r.at \in {"sweep", "sweepPay"} /\ r.row.pay # None => sessionOrder[r.row.pay] = r.order,
         UNCHANGED <<payId, sessionOrder>>
  PROVE  PayInv'
<1>1. \A q \in Procs : req'[q] = IF q = p THEN r ELSE req[q]
  BY DEF TypeInv, TypeOK
<1> QED BY <1>1 DEF PayInv

LEMMA FinishPay ==
  ASSUME TypeInv, PayInv, NEW p \in Procs, Finish(p), UNCHANGED <<payId, sessionOrder>>
  PROVE  PayInv'
BY PayFrame, IdleType DEF Finish

\* A request that ends by storing session s on order o.
LEMMA StorePay ==
  ASSUME TypeInv, PayInv, NEW p \in Procs, Finish(p), NEW o \in Orders, NEW s \in Sessions,
         sessionOrder[s] = o,
         payId' = [payId EXCEPT ![o] = s],
         UNCHANGED sessionOrder
  PROVE  PayInv'
BY FinishType, IdleType DEF PayInv, TypeInv, TypeOK

LEMMA StartPay ==
  ASSUME TypeInv, PayInv, NEW p \in Procs, Start(p)
  PROVE  PayInv'
<1>1. ASSUME NEW o \in Orders, NEW stage \in {"checkout", "cancel", "sweep"},
             Begin(p, o, stage), UNCHANGED <<payId, sessionOrder>>
      PROVE  PayInv'
  <2> DEFINE r == [Idle EXCEPT !.at = stage, !.order = o, !.row = Row(o)]
  <2>1. r.order = o /\ r.row.pay = payId[o]
    BY IdleType DEF Idle, Row
  <2>2. req' = [req EXCEPT ![p] = r]
    BY <1>1 DEF Begin
  <2>3. r.row.pay # None => sessionOrder[r.row.pay] = r.order
    BY <2>1 DEF PayInv
  <2> HIDE DEF r
  <2> QED BY <1>1, <2>2, <2>3, PayFrame
<1>2. ASSUME NEW key \in Keys \cup {None}, CreateRead(p, key)
      PROVE  PayInv'
  <2> DEFINE r == [Idle EXCEPT !.at = "create", !.key = key, !.basket = cart]
  <2>1. r.at = "create"
    BY DEF Idle
  <2>2. req' = [req EXCEPT ![p] = r] /\ UNCHANGED <<payId, sessionOrder>>
    BY <1>2 DEF CreateRead, orderVars, pspVars
  <2> HIDE DEF r
  <2> QED BY <2>1, <2>2, PayFrame
<1>3. ASSUME NEW s \in Sessions, WebhookClaim(p, s)
      PROVE  PayInv'
  <2> DEFINE r == [Idle EXCEPT !.at = "apply", !.session = s, !.order = sessionOrder[s]]
  <2>1. r.at = "apply"
    BY DEF Idle
  <2>2. req' = [req EXCEPT ![p] = r] /\ UNCHANGED <<payId, sessionOrder>>
    BY <1>3 DEF WebhookClaim, orderVars, pspVars
  <2> HIDE DEF r
  <2> QED BY <2>1, <2>2, PayFrame
<1>4. ASSUME NEW o \in Orders, NEW new \in Statuses, AdminRead(p, o, new)
      PROVE  PayInv'
  <2> DEFINE r == [Idle EXCEPT !.at = "admin", !.order = o, !.row = Row(o), !.to = new]
  <2>1. r.at = "admin"
    BY DEF Idle
  <2>2. req' = [req EXCEPT ![p] = r] /\ UNCHANGED <<payId, sessionOrder>>
    BY <1>4 DEF AdminRead, orderVars, pspVars
  <2> HIDE DEF r
  <2> QED BY <2>1, <2>2, PayFrame
<1> QED BY <1>1, <1>2, <1>3, <1>4
        DEF Start, CheckoutRead, CancelRead, SweepRead, orderVars, pspVars

LEMMA ContinuePay ==
  ASSUME TypeInv, PayInv, NEW p \in Procs, Continue(p)
  PROVE  PayInv'
<1>1. CASE \E s \in Sessions : CheckoutWrite(p, s) \/ CheckoutLost(p, s)
  <2> DEFINE o == req[p].order
  <2>1. PICK s \in Sessions : CheckoutWrite(p, s) \/ CheckoutLost(p, s)
    BY <1>1
  <2>2. o \in Orders
    BY <2>1, LoadedRow DEF CheckoutWrite, CheckoutLost
  <2>3. /\ \A t \in Sessions : sessionOrder'[t] = IF t = s THEN o ELSE sessionOrder[t]
        /\ \A o2 \in Orders : payId'[o2] # payId[o2] => o2 = o /\ payId'[o2] = s
        /\ sessionOrder[s] = None
    <3>1. /\ sessionOrder \in [Sessions -> Orders \cup {None}]
          /\ payId \in [Orders -> Sessions \cup {None}]
      BY DEF TypeInv, TypeOK
    <3>2. /\ sessionOrder[s] = None
          /\ sessionOrder' = [sessionOrder EXCEPT ![s] = o]
          /\ payId' = [payId EXCEPT ![o] = s] \/ payId' = payId
      BY <2>1 DEF CheckoutWrite, CheckoutLost, orderVars
    <3> HIDE DEF o
    <3>3. \A t \in Sessions : sessionOrder'[t] = IF t = s THEN o ELSE sessionOrder[t]
      BY <3>1, <3>2
    <3>4. \A o2 \in Orders : payId'[o2] # payId[o2] => o2 = o /\ payId'[o2] = s
      <4>1. CASE payId' = payId
        BY <4>1
      <4>2. CASE payId' = [payId EXCEPT ![o] = s]
        BY <2>2, <3>1, <4>2
      <4> QED BY <3>2, <4>1, <4>2
    <3> QED BY <3>2, <3>3, <3>4
  <2>4. Finish(p)
    BY <2>1 DEF CheckoutWrite, CheckoutLost
  <2>5. /\ payId \in [Orders -> Sessions \cup {None}]
        /\ \A q \in Procs : req[q] \in Request /\ req[q].row.pay \in Sessions \cup {None}
    BY DEF TypeInv, TypeOK, Request
  <2>6. \A q \in Procs : req[q].at \in {"sweep", "sweepPay"} => req[q].order \in Orders
    BY DEF TypeInv, ReqOK
  <2>7. \A o2 \in Orders : payId'[o2] # None => sessionOrder'[payId'[o2]] = o2
    BY <2>2, <2>3, <2>5, OrdersAssumption DEF PayInv
  <2>8. \A q \in Procs : req'[q].at \in {"sweep", "sweepPay"} /\ req'[q].row.pay # None =>
                           sessionOrder'[req'[q].row.pay] = req'[q].order
    BY <2>3, <2>4, <2>5, <2>6, FinishType, IdleType, OrdersAssumption DEF PayInv
  <2> QED BY <2>7, <2>8 DEF PayInv
<1>2. CASE WebhookApply(p)
  <2>1. /\ req[p].session \in Sessions
        /\ req[p].order \in Orders
        /\ sessionOrder[req[p].session] = req[p].order
    BY <1>2 DEF WebhookApply, TypeInv, TypeOK, ReqOK
  <2>2. \/ payId' = [payId EXCEPT ![req[p].order] = req[p].session]
        \/ UNCHANGED payId
    BY <1>2 DEF WebhookApply, CompletePayment, RecordLatePayment
  <2> QED BY <1>2, <2>1, <2>2, StorePay, FinishPay DEF WebhookApply, pspVars
<1>3. CASE SweepWrite(p)
  BY <1>3, FinishPay DEF SweepWrite, CompletePayment, pspVars
<1>4. CASE SweepAsk(p)
  <2> DEFINE r == [req[p] EXCEPT !.at = IF req[p].row.pay \in charged THEN "sweepPay" ELSE "sweepCancel"]
  <2>1. r.order = req[p].order /\ r.row = req[p].row /\ req[p].at = "sweep"
    BY <1>4 DEF SweepAsk, TypeInv, TypeOK, Request
  <2>2. req' = [req EXCEPT ![p] = r] /\ UNCHANGED <<payId, sessionOrder>>
    BY <1>4 DEF SweepAsk, TypeInv, TypeOK, orderVars, pspVars
  <2> HIDE DEF r
  <2> QED BY <2>1, <2>2, PayFrame DEF PayInv
<1>5. ASSUME Finish(p), UNCHANGED <<payId, sessionOrder>>
      PROVE  PayInv'
  BY <1>5, FinishPay
<1> QED BY <1>1, <1>2, <1>3, <1>4, <1>5 DEF Continue, CreateWrite, CreateFail, CancelWrite,
        AdminWrite, SweepUnknown, Fail, FailAfterSupplier, orderVars, pspVars

LEMMA NextPayInv ==
  ASSUME TypeInv, PayInv, [Next]_vars
  PROVE  PayInv'
<1>1. CASE UNCHANGED vars
  BY <1>1 DEF PayInv, vars
<1>2. CASE Environment
  BY <1>2 DEF Environment, EditCartLine, ExpireKey, Charge, Age, PayInv, orderVars, pspVars
<1> QED BY <1>1, <1>2, StartPay, ContinuePay DEF Next

\* Who turns an order paid: the webhook, with a charged session of the order;
\* the sweep, with one; or an admin.
LEMMA PaidStep ==
  ASSUME TypeInv, PayInv, [Next]_vars, NEW o \in Orders,
         status[o] = "pending", status'[o] = "paid"
  PROVE  \/ \E s \in charged : sessionOrder[s] = o
         \/ \E p \in Procs : req[p].at = "admin" /\ req[p].order = o
<1> DEFINE Earned == \/ \E s \in charged : sessionOrder[s] = o
                     \/ \E p \in Procs : req[p].at = "admin" /\ req[p].order = o
<1>0. status' # status
  OBVIOUS
<1>1. CASE UNCHANGED vars \/ Environment
  BY <1>0, <1>1 DEF vars, Environment, EditCartLine, ExpireKey, Charge, Age, orderVars
<1>2. ASSUME NEW p \in Procs, Start(p)
      PROVE  FALSE
  BY <1>0, <1>2 DEF Start, CreateRead, WebhookClaim, CheckoutRead, CancelRead, SweepRead,
     AdminRead, orderVars
<1>3. ASSUME NEW p \in Procs, Continue(p)
      PROVE  Earned
  <2>1. CASE WebhookApply(p)
    <3>1. req[p].session \in charged /\ sessionOrder[req[p].session] = req[p].order
      BY <2>1 DEF WebhookApply, TypeInv, TypeOK, ReqOK
    <3>2. req[p].order = o
      BY <1>0, <2>1, <3>1 DEF WebhookApply, CompletePayment, ApplyPaid, RecordLatePayment, TypeInv, TypeOK
    <3> QED BY <3>1, <3>2
  <2>2. CASE AdminWrite(p)
    <3>1. req[p].at = "admin" /\ req[p].order = o
      BY <2>2 DEF AdminWrite, CancelAsAdmin, ApplyCancelled, ApplyPaid, ApplyShipment, TypeInv, TypeOK
    <3> QED BY <3>1
  <2>3. CASE SweepWrite(p)
    <3>1. CASE req[p].at = "sweepPay" /\ CompletePayment(req[p].order, req[p].row, req[p].row.pay)
      <4>1. req[p].row.pay \in charged /\ req[p].row.pay \in Sessions
        BY <3>1 DEF TypeInv, TypeOK, ReqOK
      <4>2. sessionOrder[req[p].row.pay] = req[p].order
        BY <3>1, <4>1, OrdersAssumption DEF PayInv
      <4>3. req[p].order = o
        BY <3>1 DEF CompletePayment, ApplyPaid, TypeInv, TypeOK
      <4> QED BY <4>1, <4>2, <4>3
    <3>2. CASE ApplyCancelled(req[p].order, req[p].row)
      BY <3>2 DEF ApplyCancelled, TypeInv, TypeOK
    <3> QED BY <2>3, <3>1, <3>2 DEF SweepWrite
  <2>4. CASE CancelWrite(p)
    BY <2>4 DEF CancelWrite, ApplyCancelled, TypeInv, TypeOK
  <2>5. ASSUME NEW o2 \in Orders, CreateWrite(p, o2)
        PROVE  FALSE
    BY <2>5 DEF CreateWrite, TypeInv, TypeOK
  <2> QED BY <1>0, <1>3, <2>1, <2>2, <2>3, <2>4, <2>5 DEF Continue, CheckoutWrite, CheckoutLost,
          CreateFail, SweepAsk, SweepUnknown, Fail, FailAfterSupplier, orderVars
<1> QED BY <1>1, <1>2, <1>3 DEF Next

\* Neither the webhook nor the sweep marks an order paid on the strength of a
\* payment that was made for another order, however checkouts overwrite
\* payment ids and however stale the loaded row is.
THEOREM PaymentsAreEarned == Spec => PaidIsEarned
<1>1. Init => PayInv
  BY IdleType DEF Init, PayInv
<1>2. TypeInv /\ PayInv /\ [Next]_vars => PayInv'
  BY NextPayInv
<1>3. TypeInv /\ PayInv /\ [Next]_vars =>
        [\A o \in Orders : status[o] = "pending" /\ status'[o] = "paid" =>
            \/ \E s \in charged : sessionOrder[s] = o
            \/ \E p \in Procs : req[p].at = "admin" /\ req[p].order = o]_vars
  BY PaidStep
<1> QED BY <1>1, <1>2, <1>3, RequestsWellFormed, PTL DEF Spec, PaidIsEarned

-----------------------------------------------------------------------------
(* The webhook and cancelled orders                                        *)

\* A step of one request leaves the other requests as they are.
LEMMA OtherRequests ==
  ASSUME TypeInv, NEW p \in Procs, NEW q \in Procs \ {p}, Start(p) \/ Continue(p)
  PROVE  req'[q] = req[q]
<1>1. CASE Start(p)
  BY <1>1 DEF Start, CreateRead, WebhookClaim, CheckoutRead, CancelRead, SweepRead, AdminRead,
     Begin, TypeInv, TypeOK
<1>2. CASE Continue(p)
  BY <1>2 DEF Continue, CreateWrite, CreateFail, CheckoutWrite, CheckoutLost, WebhookApply, CancelWrite,
     AdminWrite, SweepAsk, SweepUnknown, SweepWrite, Fail, FailAfterSupplier, Finish,
     TypeInv, TypeOK
<1> QED BY <1>1, <1>2

\* Whatever else is in progress on the order, the rest of a claimed event's
\* handler leaves a cancelled order cancelled: it loads the order under the
\* write lock.
THEOREM WebhookNeverRevives == Spec => WebhookKeepsCancelled
<1>1. ASSUME TypeInv, [Next]_vars, NEW p \in Procs,
             req[p].at = "apply", req'[p] # req[p], status[req[p].order] = "cancelled"
      PROVE  status'[req[p].order] = "cancelled"
  <2>1. ~UNCHANGED vars /\ ~Environment
    BY <1>1 DEF vars, Environment, EditCartLine, ExpireKey, Charge, Age
  <2>2. Start(p) \/ Continue(p)
    BY <1>1, <2>1, OtherRequests DEF Next
  <2>3. ~Start(p)
    BY <1>1, IdleType DEF Start, CreateRead, WebhookClaim, CheckoutRead, CancelRead, SweepRead,
       AdminRead, Begin
  <2>4. WebhookApply(p) \/ Fail(p) \/ FailAfterSupplier(p)
    BY <1>1, <2>2, <2>3 DEF Continue, CreateWrite, CreateFail, CheckoutWrite, CheckoutLost, CancelWrite,
       AdminWrite, SweepAsk, SweepUnknown, SweepWrite
  <2> QED BY <1>1, <2>4 DEF WebhookApply, RecordLatePayment, Fail, FailAfterSupplier, orderVars
<1>2. TypeInv /\ [Next]_vars =>
        [\A p \in Procs :
            req[p].at = "apply" /\ req'[p] # req[p] /\ status[req[p].order] = "cancelled" =>
              status'[req[p].order] = "cancelled"]_vars
  BY <1>1
<1> QED BY <1>2, RequestsWellFormed, PTL DEF Spec, WebhookKeepsCancelled

-----------------------------------------------------------------------------
(* Sums of quantities                                                      *)

\* What a set of orders takes of a variant, by their lines.
Units(L, v, S) == SumFunctionOnSet([o \in Orders |-> L[o][v]], S)

LEMMA QuantityUnits ==
  ASSUME NEW S, NEW v
  PROVE  Quantity(S, v) = Units(lines, v, S)
BY DEF Quantity, Units

\* At first no order holds anything.
LEMMA UnitsNone ==
  ASSUME NEW L, NEW v
  PROVE  Units(L, v, {}) = 0
BY SumEmpty DEF Units

-----------------------------------------------------------------------------
(* Units are never lost, however requests overlap                          *)

\* What a step may do to stock and to the orders that hold it.
Reserves(o) ==
  \E basket \in [Variants -> Nat] :
    /\ status[o] = "none"
    /\ \A v \in Variants : basket[v] <= stock[v]
    /\ status' = [status EXCEPT ![o] = "pending"]
    /\ lines' = [lines EXCEPT ![o] = basket]
    /\ stock' = [v \in Variants |-> stock[v] - basket[v]]

Keeps(o) ==
  /\ \E st \in {"pending", "paid", "shipped", "delivered"} : status' = [status EXCEPT ![o] = st]
  /\ UNCHANGED <<lines, stock>>

Releases(o) ==
  /\ status' = [status EXCEPT ![o] = "cancelled"]
  /\ stock' = [v \in Variants |-> stock[v] + lines[o][v]]
  /\ UNCHANGED lines

HeldSteps(o) == Reserves(o) \/ Keeps(o) \/ Releases(o)

LEMMA CancelReleases ==
  ASSUME NEW o, NEW row, row.status \in {"pending", "paid"}, ApplyCancelled(o, row)
  PROVE  Releases(o)
BY DEF ApplyCancelled, ReleaseInventory, Restorable, Releases

LEMMA PaidKeeps ==
  ASSUME NEW o, NEW row, ApplyPaid(o, row)
  PROVE  Keeps(o)
BY DEF ApplyPaid, Keeps

\* Every cancellation works on a row that was loaded with a restorable status,
\* so it returns the basket, whatever has become of the order since.
LEMMA HeldStep ==
  ASSUME TypeInv, [Next]_vars
  PROVE  UNCHANGED <<status, lines, stock>> \/ \E o \in Orders : HeldSteps(o)
<1> DEFINE Goal == UNCHANGED <<status, lines, stock>> \/ \E o \in Orders : HeldSteps(o)
<1>1. CASE UNCHANGED vars \/ Environment
  BY <1>1 DEF vars, Environment, EditCartLine, ExpireKey, Charge, Age, orderVars
<1>2. ASSUME NEW p \in Procs, Start(p)
      PROVE  UNCHANGED <<status, lines, stock>>
  BY <1>2 DEF Start, CreateRead, WebhookClaim, CheckoutRead, CancelRead, SweepRead, AdminRead, orderVars
<1>3. ASSUME NEW p \in Procs, Continue(p)
      PROVE  Goal
  <2> DEFINE o == req[p].order
             row == req[p].row
  <2>1. ASSUME NEW o2 \in Orders, CreateWrite(p, o2)
        PROVE  Reserves(o2)
    <3>1. req[p].basket \in [Variants -> Nat]
      BY DEF TypeInv, TypeOK, Request
    <3> QED BY <2>1, <3>1 DEF CreateWrite, Reservable, ReserveInventory, Reserves
  <2>2. CASE WebhookApply(p)
    <3>1. o \in Orders
      BY <2>2, LoadedRow DEF WebhookApply
    <3>2. \/ ApplyPaid(o, Row(o))
          \/ UNCHANGED <<status, lines, stock>>
      BY <2>2 DEF WebhookApply, CompletePayment, RecordLatePayment
    <3> QED BY <3>1, <3>2, PaidKeeps DEF HeldSteps
  <2>3. CASE CancelWrite(p)
    <3>1. o \in Orders /\ row.status = "pending"
      BY <2>3, LoadedRow DEF CancelWrite, TypeInv, ReqOK
    <3>2. ApplyCancelled(o, row)
      BY <2>3 DEF CancelWrite
    <3> QED BY <3>1, <3>2, CancelReleases DEF HeldSteps
  <2>4. CASE AdminWrite(p)
    <3>1. o \in Orders /\ req[p].to \in AllowedNext(row.status)
      BY <2>4, LoadedRow DEF AdminWrite, TypeInv, ReqOK
    <3>2. CASE req[p].to = "cancelled" /\ CancelAsAdmin(o, row)
      <4>1. row.status \in {"pending", "paid"}
        BY <3>1, <3>2 DEF AllowedNext
      <4> QED BY <3>1, <3>2, <4>1, CancelReleases DEF CancelAsAdmin, HeldSteps
    <3>3. CASE ApplyPaid(o, row)
      BY <3>1, <3>3, PaidKeeps DEF HeldSteps
    <3>4. CASE req[p].to \in {"shipped", "delivered"} /\ ApplyShipment(o, req[p].to)
      BY <3>1, <3>4 DEF ApplyShipment, Keeps, HeldSteps
    <3> QED BY <2>4, <3>2, <3>3, <3>4 DEF AdminWrite
  <2>5. CASE SweepWrite(p)
    <3>1. o \in Orders /\ row.status = "pending"
      BY <2>5, LoadedRow DEF SweepWrite, TypeInv, ReqOK
    <3>2. ApplyPaid(o, row) \/ ApplyCancelled(o, row)
      BY <2>5 DEF SweepWrite, CompletePayment
    <3> QED BY <3>1, <3>2, CancelReleases, PaidKeeps DEF HeldSteps
  <2> QED BY <1>3, <2>1, <2>2, <2>3, <2>4, <2>5 DEF Continue, CheckoutWrite, CheckoutLost, CreateFail,
          SweepAsk, SweepUnknown, Fail, FailAfterSupplier, orderVars, HeldSteps
<1> QED BY <1>1, <1>2, <1>3 DEF Next

\* A set of orders picked by status, before and after a step on order o.
LEMMA QuantityChange ==
  ASSUME TypeOK, TypeOK', NEW o \in Orders, NEW v \in Variants,
         \A x \in Orders \ {o} : status'[x] = status[x] /\ lines'[x] = lines[x],
         NEW St
  PROVE  LET S == {x \in Orders : status[x] \in St}
             T == {x \in Orders : status'[x] \in St}
         IN  /\ Units(lines, v, S) \in Nat /\ Units(lines', v, T) \in Nat
             /\ Units(lines, v, S) + (IF status'[o] \in St THEN lines'[o][v] ELSE 0)
                  = Units(lines', v, T) + (IF status[o] \in St THEN lines[o][v] ELSE 0)
<1> DEFINE S == {x \in Orders : status[x] \in St}
           T == {x \in Orders : status'[x] \in St}
           f == [x \in Orders |-> lines[x][v]]
           g == [x \in Orders |-> lines'[x][v]]
<1>1. S \in SUBSET Orders /\ T \in SUBSET Orders
  OBVIOUS
<1>2. (o \in S <=> status[o] \in St) /\ (o \in T <=> status'[o] \in St)
  OBVIOUS
<1>3. f[o] = lines[o][v] /\ g[o] = lines'[o][v]
  OBVIOUS
<1>4. DifferAt(o, f, S, g, T)
  BY DEF DifferAt, TypeOK
<1>5. Units(lines, v, S) = SumFunctionOnSet(f, S) /\ Units(lines', v, T) = SumFunctionOnSet(g, T)
  BY DEF Units
<1> HIDE DEF S, T, f, g
<1>6. IsFiniteSet(S) /\ IsFiniteSet(T)
  BY <1>1, OrdersAssumption, FS_Subset
<1>7. SumFunctionOnSet(f, S) \in Nat /\ SumFunctionOnSet(g, T) \in Nat
  BY <1>4, <1>6, SumType DEF DifferAt
<1>8. SumFunctionOnSet(f, S) + (IF o \in T THEN g[o] ELSE 0)
        = SumFunctionOnSet(g, T) + (IF o \in S THEN f[o] ELSE 0)
  BY <1>4, <1>6, SumChange
<1>9. /\ Units(lines, v, S) \in Nat /\ Units(lines', v, T) \in Nat
      /\ Units(lines, v, S) + (IF status'[o] \in St THEN lines'[o][v] ELSE 0)
           = Units(lines', v, T) + (IF status[o] \in St THEN lines[o][v] ELSE 0)
  BY <1>2, <1>3, <1>5, <1>7, <1>8
<1> QED BY <1>9 DEF S, T

HoldingStatuses == {"pending", "paid", "shipped", "delivered"}
EarningStatuses == {"paid", "shipped", "delivered"}

\* One order's step on what live orders hold.
LEMMA HeldChange ==
  ASSUME TypeOK, TypeOK', NEW o \in Orders, HeldSteps(o), NEW v \in Variants
  PROVE  /\ Quantity(Holding, v) \in Nat /\ Quantity(Holding, v)' \in Nat
         /\ Quantity(Holding, v) + (IF status'[o] \in HoldingStatuses THEN lines'[o][v] ELSE 0)
              = Quantity(Holding, v)' + (IF status[o] \in HoldingStatuses THEN lines[o][v] ELSE 0)
<1>1. \A x \in Orders \ {o} : status'[x] = status[x] /\ lines'[x] = lines[x]
  BY DEF HeldSteps, Reserves, Keeps, Releases, TypeOK
<1>2. Quantity(Holding, v) = Units(lines, v, {x \in Orders : status[x] \in HoldingStatuses})
  BY DEF Quantity, Units, Holding, HoldingStatuses
<1>3. Quantity(Holding, v)' = Units(lines', v, {x \in Orders : status'[x] \in HoldingStatuses})
  BY DEF Quantity, Units, Holding, HoldingStatuses
<1> QED BY <1>1, <1>2, <1>3, QuantityChange

\* At first nothing is held, and nothing has earned.
LEMMA InitQuantities ==
  ASSUME Init, NEW v
  PROVE  Quantity(Holding, v) = 0 /\ Quantity(Earning, v) = 0
<1>1. Holding = {} /\ Earning = {}
  BY DEF Init, Holding, Earning
<1> QED BY <1>1, UnitsNone, QuantityUnits

LEMMA NextStockNotLost ==
  ASSUME TypeInv, TypeInv', StockNotLost, [Next]_vars
  PROVE  StockNotLost'
<1>1. CASE UNCHANGED <<status, lines, stock>>
  BY <1>1 DEF StockNotLost, Quantity, Holding
<1>2. ASSUME NEW o \in Orders, HeldSteps(o)
      PROVE  StockNotLost'
  <2> SUFFICES ASSUME NEW v \in Variants
               PROVE  stock'[v] + Quantity(Holding, v)' >= InitialStock[v]
    BY DEF StockNotLost
  <2> DEFINE before == Quantity(Holding, v)
             after  == Quantity(Holding, v)'
             Enough == stock'[v] + after >= InitialStock[v]
  <2>1. TypeOK /\ TypeOK'
    BY DEF TypeInv
  <2>2. /\ before \in Nat /\ after \in Nat
        /\ before + (IF status'[o] \in HoldingStatuses THEN lines'[o][v] ELSE 0)
             = after + (IF status[o] \in HoldingStatuses THEN lines[o][v] ELSE 0)
    BY <1>2, <2>1, HeldChange
  <2>3. stock[v] + before >= InitialStock[v]
    BY DEF StockNotLost
  <2>4. /\ stock[v] \in Nat /\ stock'[v] \in Nat /\ InitialStock[v] \in Nat
        /\ lines[o][v] \in Nat /\ lines'[o][v] \in Nat
    BY <2>1, OrdersAssumption DEF TypeOK
  <2> HIDE DEF before, after
  <2>5. ASSUME Reserves(o)
        PROVE  Enough
    <3>1. status[o] = "none" /\ status'[o] = "pending" /\ stock'[v] = stock[v] - lines'[o][v]
      BY <2>1, <2>5 DEF Reserves, TypeOK
    <3> QED BY <2>2, <2>3, <2>4, <3>1 DEF HoldingStatuses
  <2>6. ASSUME Keeps(o)
        PROVE  Enough
    <3>1. status'[o] \in HoldingStatuses /\ stock'[v] = stock[v] /\ lines'[o][v] = lines[o][v]
      BY <2>1, <2>6 DEF Keeps, TypeOK, HoldingStatuses
    <3> QED BY <2>2, <2>3, <2>4, <3>1
  <2>7. ASSUME Releases(o)
        PROVE  Enough
    <3>1. status'[o] = "cancelled" /\ stock'[v] = stock[v] + lines[o][v]
      BY <2>1, <2>7 DEF Releases, TypeOK
    <3> QED BY <2>2, <2>3, <2>4, <3>1 DEF HoldingStatuses
  <2>8. Enough
    BY <1>2, <2>5, <2>6, <2>7 DEF HeldSteps
  <2> QED BY <2>8 DEF after
<1> QED BY <1>1, <1>2, HeldStep

\* However requests, webhooks and sweeps overlap and fail, no unit is lost:
\* stock and live orders together hold at least the initial stock (every
\* cancellation of app/services/commerce.py gives its basket back).
THEOREM UnitsNeverLost == Spec => []StockNotLost
<1>1. Init => StockNotLost
  BY InitQuantities, OrdersAssumption DEF Init, StockNotLost
<1>2. TypeInv /\ TypeInv' /\ StockNotLost /\ [Next]_vars => StockNotLost'
  BY NextStockNotLost
<1> QED BY <1>1, <1>2, RequestsWellFormed, PTL DEF Spec

-----------------------------------------------------------------------------
(* When requests on one order do not overlap                               *)

\* The stages that work on a loaded row.
Loaded == {"checkout", "cancel", "admin", "sweep", "sweepCancel", "sweepPay"}

\* No two requests work on one order, and each holds its order as it is.
Apart == \A p, q \in Procs : p # q /\ req[p].order # None => req[p].order # req[q].order

Current ==
  \A p \in Procs :
    /\ req[p].at \in Loaded => req[p].row = Row(req[p].order)
    /\ req[p].at = "checkout" => req[p].row.status = "pending"

Serial == Apart /\ Current

\* Only a cancelled order has a refund note; the supplier is asked when an
\* order becomes paid, and once.
RecordOK ==
  \A o \in Orders :
    /\ refund[o] => status[o] = "cancelled"
    /\ placed[o] - wasted[o] \in {0, 1}
    /\ status[o] \in {"none", "pending"} => placed[o] = wasted[o]

\* The provider opens sessions only for orders that were placed.
SessionsOK == \A s \in Sessions : sessionOrder[s] # None => status[sessionOrder[s]] # "none"

\* Carts hold what customers can put in them, and only such a cart is ordered.
CartsOK ==
  /\ \A v \in Variants : cart[v] \in LineQuantities(v)
  /\ \A p \in Procs : req[p].at = "create" => req[p].basket \in Baskets

DeskInv == TypeInv /\ Serial /\ RecordOK /\ SessionsOK /\ CartsOK

\* An order some request works on has been placed.
LEMMA HeldPlaced ==
  ASSUME TypeInv, Current, SessionsOK, NEW p \in Procs, req[p].order # None
  PROVE  req[p].order \in Orders /\ status[req[p].order] # "none"
<1>1. req[p].at \notin {"idle", "create"} /\ req[p].order \in Orders /\ req[p].at \in Stages
  BY DEF TypeInv, TypeOK, ReqOK, Request
<1>2. CASE req[p].at = "apply"
  <2>1. req[p].session \in Sessions /\ req[p].order = sessionOrder[req[p].session]
    BY <1>2 DEF TypeInv, TypeOK, ReqOK
  <2> QED BY <1>1, <2>1 DEF SessionsOK
<1>3. CASE req[p].at \in Loaded
  <2>1. req[p].row.status = status[req[p].order]
    <3>1. req[p].row = Row(req[p].order)
      BY <1>3 DEF Current
    <3>2. Row(req[p].order).status = status[req[p].order]
      BY DEF Row
    <3> QED BY <3>1, <3>2
  <2>2. CASE req[p].at = "admin"
    <3>1. AllowedNext(req[p].row.status) # {}
      BY <2>2 DEF TypeInv, ReqOK
    <3>2. AllowedNext("none") = {}
      BY DEF AllowedNext
    <3> QED BY <1>1, <2>1, <3>1, <3>2
  <2>3. CASE req[p].at # "admin"
    BY <1>1, <1>3, <2>1, <2>3 DEF Loaded, Current, TypeInv, ReqOK
  <2> QED BY <2>2, <2>3
<1> QED BY <1>1, <1>2, <1>3 DEF Stages, Loaded

-----------------------------------------------------------------------------
(* What a step does to the desk                                            *)

Opens(o) ==
  \E basket \in Baskets :
    /\ status[o] = "none"
    /\ \A v \in Variants : basket[v] <= stock[v]
    /\ status' = [status EXCEPT ![o] = "pending"]
    /\ lines' = [lines EXCEPT ![o] = basket]
    /\ stock' = [v \in Variants |-> stock[v] - basket[v]]
    /\ UNCHANGED <<sold, refund, placed, wasted>>

Sells(o) ==
  /\ status[o] = "pending"
  /\ status' = [status EXCEPT ![o] = "paid"]
  /\ IncrementUnitsSold(o)
  /\ placed' = placed \/ placed' = [placed EXCEPT ![o] = @ + 1]
  /\ UNCHANGED <<lines, stock, refund, wasted>>

Cancels(o) ==
  /\ status[o] \in {"pending", "paid"}
  /\ status' = [status EXCEPT ![o] = "cancelled"]
  /\ stock' = [v \in Variants |-> stock[v] + lines[o][v]]
  /\ IF status[o] = "paid" THEN DecrementUnitsSold(o) ELSE UNCHANGED sold
  /\ refund' = [refund EXCEPT ![o] = (status[o] = "paid")]
  /\ UNCHANGED <<lines, placed, wasted>>

Ships(o) ==
  /\ \E st \in {"shipped", "delivered"} : /\ st \in AllowedNext(status[o])
                                          /\ status' = [status EXCEPT ![o] = st]
  /\ UNCHANGED <<lines, stock, sold, refund, placed, wasted>>

Notes(o) ==
  /\ status[o] = "cancelled"
  /\ refund' = [refund EXCEPT ![o] = TRUE]
  /\ UNCHANGED <<status, lines, stock, sold, placed, wasted>>

\* The supplier has accepted, and the transaction is lost.
Wastes(o) ==
  /\ placed' = [placed EXCEPT ![o] = @ + 1]
  /\ wasted' = [wasted EXCEPT ![o] = @ + 1]
  /\ UNCHANGED <<status, lines, stock, sold, refund>>

Still == UNCHANGED <<status, lines, stock, sold, refund, placed, wasted>>

DeskSteps(o) == Opens(o) \/ Sells(o) \/ Cancels(o) \/ Ships(o) \/ Notes(o) \/ Wastes(o)

\* A pending order whose row is current is sold once.
LEMMA PaidSells ==
  ASSUME TypeInv, NEW o \in Orders, status[o] = "pending", ApplyPaid(o, Row(o)), UNCHANGED wasted
  PROVE  Sells(o)
<1>1. placed' = placed \/ placed' = [placed EXCEPT ![o] = @ + 1]
  BY DEF ApplyPaid, FulfillOrder, TypeInv, TypeOK
<1>2. refund' = refund
  <2>1. refund' = refund \/ refund' = [refund EXCEPT ![o] = refund[o]]
    BY DEF ApplyPaid, FulfillOrder, Row
  <2> QED BY <2>1 DEF TypeInv, TypeOK
<1> QED BY <1>1, <1>2 DEF ApplyPaid, Sells

\* A cancellation of a current row returns the basket once.
LEMMA CancelledCancels ==
  ASSUME TypeInv, RecordOK, NEW o \in Orders, status[o] \in {"pending", "paid"},
         ApplyCancelled(o, Row(o)), UNCHANGED wasted,
         refund' = IF status[o] = "paid" THEN [refund EXCEPT ![o] = TRUE] ELSE refund
  PROVE  Cancels(o)
<1>1. refund' = [refund EXCEPT ![o] = (status[o] = "paid")]
  <2>1. CASE status[o] = "paid"
    BY <2>1
  <2>2. CASE status[o] = "pending"
    <3>1. refund[o] = FALSE /\ refund' = refund
      BY <2>2 DEF RecordOK, TypeInv, TypeOK
    <3> QED BY <2>2, <3>1 DEF TypeInv, TypeOK
  <2> QED BY <2>1, <2>2
<1>2. Row(o).status = status[o]
  BY DEF Row
<1> QED BY <1>1, <1>2 DEF ApplyCancelled, ReleaseInventory, Restorable, Cancels

LEMMA WebhookDesk ==
  ASSUME DeskInv, NEW p \in Procs, WebhookApply(p)
  PROVE  Still \/ DeskSteps(req[p].order)
<1> DEFINE o == req[p].order
<1>0. TypeInv /\ o \in Orders
  BY LoadedRow DEF WebhookApply, DeskInv
<1>1. CASE status[o] = "pending" /\ CompletePayment(o, Row(o), req[p].session)
  BY <1>0, <1>1, PaidSells DEF WebhookApply, CompletePayment, DeskSteps
<1>2. CASE status[o] = "cancelled" /\ RecordLatePayment(o, req[p].session)
  BY <1>2 DEF WebhookApply, RecordLatePayment, Notes, DeskSteps
<1>3. CASE UNCHANGED <<status, lines, payId, refund, sup, stock, sold, placed>>
  BY <1>3 DEF WebhookApply, Still
<1> QED BY <1>1, <1>2, <1>3 DEF WebhookApply

LEMMA CancelDesk ==
  ASSUME DeskInv, NEW p \in Procs, CancelWrite(p)
  PROVE  DeskSteps(req[p].order)
<1> DEFINE o == req[p].order
<1>1. TypeInv /\ RecordOK /\ o \in Orders
  BY LoadedRow DEF CancelWrite, DeskInv
<1>2. req[p].row = Row(o) /\ status[o] = "pending"
  BY DEF CancelWrite, DeskInv, Serial, Current, Loaded, TypeInv, ReqOK, Row
<1>3. ApplyCancelled(o, Row(o)) /\ UNCHANGED <<wasted, refund>>
  BY <1>2 DEF CancelWrite
<1> QED BY <1>1, <1>2, <1>3, CancelledCancels DEF DeskSteps

LEMMA SweepDesk ==
  ASSUME DeskInv, NEW p \in Procs, SweepWrite(p)
  PROVE  DeskSteps(req[p].order)
<1> DEFINE o == req[p].order
<1>1. TypeInv /\ RecordOK /\ o \in Orders
  BY LoadedRow DEF SweepWrite, DeskInv
<1>2. req[p].row = Row(o) /\ status[o] = "pending"
  BY DEF SweepWrite, DeskInv, Serial, Current, Loaded, TypeInv, ReqOK, Row
<1>3. CASE CompletePayment(o, req[p].row, req[p].row.pay)
  <2>1. ApplyPaid(o, Row(o)) /\ UNCHANGED wasted
    BY <1>2, <1>3 DEF SweepWrite, CompletePayment
  <2> QED BY <1>1, <1>2, <2>1, PaidSells DEF DeskSteps
<1>4. CASE ApplyCancelled(o, req[p].row) /\ UNCHANGED <<payId, refund>>
  <2>1. ApplyCancelled(o, Row(o)) /\ UNCHANGED <<wasted, refund>>
    BY <1>2, <1>4 DEF SweepWrite
  <2> QED BY <1>1, <1>2, <2>1, CancelledCancels DEF DeskSteps
<1> QED BY <1>3, <1>4 DEF SweepWrite

LEMMA AdminDesk ==
  ASSUME DeskInv, NEW p \in Procs, AdminWrite(p)
  PROVE  DeskSteps(req[p].order)
<1> DEFINE o == req[p].order
           new == req[p].to
<1>1. TypeInv /\ RecordOK /\ o \in Orders
  BY LoadedRow DEF AdminWrite, DeskInv
<1>2. req[p].row = Row(o) /\ new \in AllowedNext(status[o])
  BY DEF AdminWrite, DeskInv, Serial, Current, Loaded, TypeInv, ReqOK, Row
<1>3. UNCHANGED wasted
  BY DEF AdminWrite
<1>4. CASE new = "cancelled" /\ CancelAsAdmin(o, req[p].row)
  <2>1. status[o] \in {"pending", "paid"}
    BY <1>2, <1>4 DEF AllowedNext
  <2>2. /\ ApplyCancelled(o, Row(o))
        /\ refund' = IF status[o] = "paid" THEN [refund EXCEPT ![o] = TRUE] ELSE refund
    BY <1>2, <1>4 DEF CancelAsAdmin, Row
  <2> QED BY <1>1, <1>3, <2>1, <2>2, CancelledCancels DEF DeskSteps
<1>5. CASE new = "paid" /\ ApplyPaid(o, req[p].row)
  <2>1. status[o] = "pending" /\ ApplyPaid(o, Row(o))
    BY <1>2, <1>5 DEF AllowedNext
  <2> QED BY <1>1, <1>3, <2>1, PaidSells DEF DeskSteps
<1>6. CASE new \in {"shipped", "delivered"} /\ ApplyShipment(o, new)
  BY <1>2, <1>3, <1>6 DEF ApplyShipment, Ships, DeskSteps
<1> QED BY <1>4, <1>5, <1>6 DEF AdminWrite

LEMMA CreateDesk ==
  ASSUME DeskInv, NEW p \in Procs, NEW o \in Orders, CreateWrite(p, o)
  PROVE  DeskSteps(o)
<1>1. req[p].basket \in Baskets
  BY DEF CreateWrite, DeskInv, CartsOK
<1> QED BY <1>1 DEF CreateWrite, Reservable, ReserveInventory, Opens, DeskSteps

\* Every step leaves the desk alone or does one of these to one order.
LEMMA DeskStep ==
  ASSUME DeskInv, [Next]_vars
  PROVE  Still \/ \E o \in Orders : DeskSteps(o)
<1> DEFINE Goal == Still \/ \E o \in Orders : DeskSteps(o)
<1>1. CASE UNCHANGED vars \/ Environment
  BY <1>1 DEF vars, Environment, EditCartLine, ExpireKey, Charge, Age, orderVars, Still
<1>2. ASSUME NEW p \in Procs, Start(p)
      PROVE  Still
  BY <1>2 DEF Start, CreateRead, WebhookClaim, CheckoutRead, CancelRead, SweepRead, AdminRead, orderVars, Still
<1>3. ASSUME NEW p \in Procs, Continue(p)
      PROVE  Goal
  <2>1. CASE req[p].at \in {"idle", "create"}
    BY <1>3, <2>1, CreateDesk DEF Continue, CreateWrite, CreateFail, CheckoutWrite, CheckoutLost,
       WebhookApply, CancelWrite, AdminWrite, SweepAsk, SweepUnknown, SweepWrite, Fail,
       FailAfterSupplier, CallsSupplier, orderVars, Still
  <2>2. CASE req[p].at \notin {"idle", "create"}
    <3>1. req[p].order \in Orders
      BY <2>2, LoadedRow DEF DeskInv
    <3>2. CASE FailAfterSupplier(p)
      BY <3>1, <3>2 DEF FailAfterSupplier, Wastes, DeskSteps, orderVars
    <3> QED BY <1>3, <2>2, <3>1, <3>2, WebhookDesk, CancelDesk, AdminDesk, SweepDesk DEF Continue, CreateWrite,
            CreateFail, CheckoutWrite, CheckoutLost, SweepAsk, SweepUnknown, Fail, orderVars, Still
  <2> QED BY <2>1, <2>2
<1> QED BY <1>1, <1>2, <1>3 DEF Next

-----------------------------------------------------------------------------
(* The invariant of the desk is kept                                       *)

\* A step that takes up no order, and leaves the rows of the orders other
\* requests work on as they are.
LEMMA SerialFinish ==
  ASSUME TypeInv, Serial, NEW p \in Procs, Finish(p),
         \A q \in Procs, o \in Orders : q # p /\ req[q].order = o => Row(o)' = Row(o)
  PROVE  Serial'
<1>1. \A q \in Procs : req'[q] = IF q = p THEN Idle ELSE req[q]
  BY FinishType
<1>2. Idle.order = None /\ Idle.at = "idle"
  BY IdleType
<1>3. Apart'
  BY <1>1, <1>2 DEF Serial, Apart
<1>4. ASSUME NEW q \in Procs
      PROVE  (/\ req[q].at \in Loaded => req[q].row = Row(req[q].order)
              /\ req[q].at = "checkout" => req[q].row.status = "pending")'
  <2>1. CASE q = p
    BY <1>1, <1>2, <2>1 DEF Loaded
  <2>2. CASE q # p
    <3>1. req'[q] = req[q]
      BY <1>1, <2>2
    <3>2. req[q].at = "checkout" => req[q].row.status = "pending"
      BY DEF Serial, Current
    <3>3. ASSUME req[q].at \in Loaded
          PROVE  req[q].row = [status |-> status'[req[q].order], sup |-> sup'[req[q].order],
                               refund |-> refund'[req[q].order], pay |-> payId'[req[q].order]]
      <4>1. PICK o \in Orders : o = req[q].order
        BY <3>3 DEF Loaded, TypeInv, ReqOK
      <4>2. req[q].row = Row(o)
        BY <3>3, <4>1 DEF Serial, Current
      <4>3. Row(o)' = Row(o)
        BY <2>2, <4>1
      <4>4. req[q].row = [status |-> status'[o], sup |-> sup'[o], refund |-> refund'[o], pay |-> payId'[o]]
        BY <4>2, <4>3 DEF Row
      <4> QED BY <4>1, <4>4
    <3> QED BY <3>1, <3>2, <3>3 DEF Row
  <2> QED BY <2>1, <2>2
<1>5. Current'
  BY <1>4 DEF Current
<1> QED BY <1>3, <1>5 DEF Serial

\* The request of p becomes r; no row changes.
LEMMA SerialRequest ==
  ASSUME TypeInv, Serial, NEW p \in Procs, NEW r,
         req' = [req EXCEPT ![p] = r], UNCHANGED <<status, sup, refund, payId>>,
         \/ r.order = None
         \/ r.order = req[p].order
         \/ \A q \in Procs : req[q].order # r.order,
         r.at \in Loaded => r.row = Row(r.order),
         r.at = "checkout" => r.row.status = "pending"
  PROVE  Serial'
<1>1. \A q \in Procs : req'[q] = IF q = p THEN r ELSE req[q]
  BY DEF TypeInv, TypeOK
<1>3. Apart'
  BY <1>1 DEF Serial, Apart
<1>4. Current'
  <2> SUFFICES ASSUME NEW q \in Procs
               PROVE  (/\ req[q].at \in Loaded => req[q].row = Row(req[q].order)
                       /\ req[q].at = "checkout" => req[q].row.status = "pending")'
    BY DEF Current
  <2>1. CASE q = p
    BY <1>1, <2>1 DEF Row
  <2>2. CASE q # p
    BY <1>1, <2>2 DEF Serial, Current, Row
  <2> QED BY <2>1, <2>2
<1> QED BY <1>3, <1>4 DEF Serial

\* A request that goes on changes its own order's row, or places an order.
LEMMA OwnRow ==
  ASSUME TypeInv, NEW p \in Procs, Continue(p), NEW o \in Orders, Row(o)' # Row(o)
  PROVE  o = req[p].order \/ status[o] = "none"
<1>0. ~UNCHANGED <<status, sup, refund, payId>>
  BY DEF Row
<1>1. ASSUME NEW x \in Orders, CreateWrite(p, x)
      PROVE  o = x /\ status[x] = "none"
  <2>1. status' = [status EXCEPT ![x] = "pending"] /\ UNCHANGED <<sup, refund, payId>>
    BY <1>1 DEF CreateWrite
  <2>2. status'[o] # status[o]
    BY <2>1 DEF Row
  <2> QED BY <1>1, <2>1, <2>2 DEF CreateWrite, TypeInv, TypeOK
<1>2. ASSUME NEW x \in Orders, o # x, NEW row, ApplyPaid(x, row)
      PROVE  status'[o] = status[o] /\ sup'[o] = sup[o] /\ refund'[o] = refund[o]
  <2>1. status'[o] = status[o]
    BY <1>2 DEF ApplyPaid, TypeInv, TypeOK
  <2>2. sup'[o] = sup[o] /\ refund'[o] = refund[o]
    BY <1>2 DEF ApplyPaid, FulfillOrder, TypeInv, TypeOK
  <2> QED BY <2>1, <2>2
<1>3. ASSUME NEW x \in Orders, o # x, NEW row, ApplyCancelled(x, row)
      PROVE  status'[o] = status[o] /\ sup'[o] = sup[o]
  BY <1>3 DEF ApplyCancelled, TypeInv, TypeOK
<1>4. CASE WebhookApply(p) \/ SweepWrite(p) \/ CancelWrite(p) \/ AdminWrite(p)
  <2> DEFINE x == req[p].order
  <2>1. x \in Orders
    BY <1>4, LoadedRow DEF WebhookApply, SweepWrite, CancelWrite, AdminWrite
  <2> SUFFICES ASSUME o # x
               PROVE  Row(o)' = Row(o)
    OBVIOUS
  <2>2. payId'[o] = payId[o]
    BY <1>4, <2>1 DEF WebhookApply, SweepWrite, CancelWrite, AdminWrite, CompletePayment, RecordLatePayment,
       TypeInv, TypeOK
  <2>3. status'[o] = status[o] /\ sup'[o] = sup[o] /\ refund'[o] = refund[o]
    <3>1. CASE WebhookApply(p)
      BY <1>2, <2>1, <3>1 DEF WebhookApply, CompletePayment, RecordLatePayment, TypeInv, TypeOK
    <3>2. CASE SweepWrite(p)
      BY <1>2, <1>3, <2>1, <3>2 DEF SweepWrite, CompletePayment
    <3>3. CASE CancelWrite(p)
      BY <1>3, <2>1, <3>3 DEF CancelWrite
    <3>4. CASE AdminWrite(p)
      <4>1. CASE CancelAsAdmin(x, req[p].row)
        BY <1>3, <2>1, <4>1 DEF CancelAsAdmin, TypeInv, TypeOK
      <4>2. CASE ApplyPaid(x, req[p].row)
        BY <1>2, <2>1, <4>2
      <4>3. CASE ApplyShipment(x, req[p].to)
        BY <2>1, <4>3 DEF ApplyShipment, TypeInv, TypeOK
      <4> QED BY <3>4, <4>1, <4>2, <4>3 DEF AdminWrite
    <3> QED BY <1>4, <3>1, <3>2, <3>3, <3>4
  <2> QED BY <2>2, <2>3 DEF Row
<1>5. ASSUME NEW s \in Sessions, CheckoutWrite(p, s)
      PROVE  o = req[p].order
  <2>1. payId'[o] # payId[o]
    BY <1>5 DEF CheckoutWrite, Row
  <2> QED BY <1>5, <2>1, LoadedRow DEF CheckoutWrite, TypeInv, TypeOK
<1> QED BY <1>0, <1>1, <1>4, <1>5 DEF Continue, CreateFail, CheckoutLost, SweepAsk, SweepUnknown, Fail,
        FailAfterSupplier, orderVars

LEMMA StartSerial ==
  ASSUME ~Overlap, DeskInv, NEW p \in Procs, Start(p)
  PROVE  Serial'
<1> USE DEF DeskInv
<1>1. ASSUME NEW o \in Orders, NEW stage \in {"checkout", "cancel", "sweep"}, Begin(p, o, stage),
             status[o] = "pending", UNCHANGED orderVars
      PROVE  Serial'
  <2> DEFINE r == [Idle EXCEPT !.at = stage, !.order = o, !.row = Row(o)]
  <2>1. r.order = o /\ r.row = Row(o) /\ Row(o).status = "pending"
    BY <1>1, IdleType DEF Idle, Row
  <2>2. req' = [req EXCEPT ![p] = r] /\ \A q \in Procs : req[q].order # o
    BY <1>1 DEF Begin, Free
  <2>3. UNCHANGED <<status, sup, refund, payId>>
    BY <1>1 DEF orderVars
  <2> HIDE DEF r
  <2> QED BY <2>1, <2>2, <2>3, SerialRequest
<1>2. ASSUME NEW key \in Keys \cup {None}, CreateRead(p, key)
      PROVE  Serial'
  <2> DEFINE r == [Idle EXCEPT !.at = "create", !.key = key, !.basket = cart]
  <2>1. r.order = None /\ r.at \notin Loaded /\ r.at # "checkout"
    BY DEF Idle, Loaded
  <2>2. req' = [req EXCEPT ![p] = r] /\ UNCHANGED <<status, sup, refund, payId>>
    BY <1>2 DEF CreateRead, orderVars
  <2> HIDE DEF r
  <2> QED BY <2>1, <2>2, SerialRequest
<1>3. ASSUME NEW s \in Sessions, WebhookClaim(p, s)
      PROVE  Serial'
  <2> DEFINE r == [Idle EXCEPT !.at = "apply", !.session = s, !.order = sessionOrder[s]]
  <2>1. r.order = sessionOrder[s] /\ r.at \notin Loaded /\ r.at # "checkout"
    BY DEF Idle, Loaded
  <2>2. /\ req' = [req EXCEPT ![p] = r] /\ UNCHANGED <<status, sup, refund, payId>>
        /\ \A q \in Procs : req[q].order # sessionOrder[s]
    BY <1>3 DEF WebhookClaim, Free, orderVars
  <2> HIDE DEF r
  <2> QED BY <2>1, <2>2, SerialRequest
<1>4. ASSUME NEW o \in Orders, NEW new \in Statuses, AdminRead(p, o, new)
      PROVE  Serial'
  <2> DEFINE r == [Idle EXCEPT !.at = "admin", !.order = o, !.row = Row(o), !.to = new]
  <2>1. r.order = o /\ r.row = Row(o) /\ r.at # "checkout"
    BY DEF Idle
  <2>2. /\ req' = [req EXCEPT ![p] = r] /\ UNCHANGED <<status, sup, refund, payId>>
        /\ \A q \in Procs : req[q].order # o
    BY <1>4 DEF AdminRead, Free, orderVars
  <2> HIDE DEF r
  <2> QED BY <2>1, <2>2, SerialRequest
<1> QED BY <1>1, <1>2, <1>3, <1>4 DEF Start, CheckoutRead, CancelRead, SweepRead

LEMMA ContinueSerial ==
  ASSUME DeskInv, NEW p \in Procs, Continue(p)
  PROVE  Serial'
<1> USE DEF DeskInv
<1>1. CASE SweepAsk(p)
  <2> DEFINE r == [req[p] EXCEPT !.at = IF req[p].row.pay \in charged THEN "sweepPay" ELSE "sweepCancel"]
  <2>1. /\ r.order = req[p].order /\ r.row = req[p].row /\ r.at # "checkout"
        /\ req[p].row = Row(req[p].order)
    BY <1>1 DEF SweepAsk, TypeInv, TypeOK, Request, Serial, Current, Loaded
  <2>2. req' = [req EXCEPT ![p] = r] /\ UNCHANGED <<status, sup, refund, payId>>
    BY <1>1 DEF SweepAsk, TypeInv, TypeOK, orderVars
  <2> HIDE DEF r
  <2> QED BY <2>1, <2>2, SerialRequest
<1>2. CASE ~SweepAsk(p)
  <2>1. Finish(p)
    BY <1>2 DEF Continue, CreateWrite, CreateFail, CheckoutWrite, CheckoutLost, WebhookApply, CancelWrite,
       AdminWrite, SweepUnknown, SweepWrite, Fail, FailAfterSupplier
  <2>2. ASSUME NEW q \in Procs, NEW o \in Orders, q # p, req[q].order = o, Row(o)' # Row(o)
        PROVE  FALSE
    <3>1. o # None /\ status[o] # "none"
      BY <2>2, HeldPlaced, OrdersAssumption DEF Serial
    <3>2. o # req[p].order
      BY <2>2, <3>1 DEF Serial, Apart
    <3> QED BY <2>2, <3>1, <3>2, OwnRow
  <2> QED BY <2>1, <2>2, SerialFinish
<1> QED BY <1>1, <1>2

LEMMA NextSerial ==
  ASSUME ~Overlap, DeskInv, [Next]_vars
  PROVE  Serial'
<1>1. CASE UNCHANGED vars \/ Environment
  <2>1. UNCHANGED <<req, status, sup, refund, payId>>
    BY <1>1 DEF vars, Environment, EditCartLine, ExpireKey, Charge, Age, orderVars
  <2> QED BY <2>1 DEF DeskInv, Serial, Apart, Current, Row
<1> QED BY <1>1, StartSerial, ContinueSerial DEF Next

LEMMA NextRecordOK ==
  ASSUME DeskInv, [Next]_vars
  PROVE  RecordOK'
<1> SUFFICES ASSUME NEW x \in Orders
             PROVE  /\ refund'[x] => status'[x] = "cancelled"
                    /\ placed'[x] - wasted'[x] \in {0, 1}
                    /\ status'[x] \in {"none", "pending"} => placed'[x] = wasted'[x]
  BY DEF RecordOK
<1>1. /\ refund[x] => status[x] = "cancelled"
      /\ placed[x] - wasted[x] \in {0, 1}
      /\ status[x] \in {"none", "pending"} => placed[x] = wasted[x]
  BY DEF DeskInv, RecordOK
<1>2. /\ status \in [Orders -> Statuses] /\ refund \in [Orders -> BOOLEAN]
      /\ placed \in [Orders -> Nat] /\ wasted \in [Orders -> Nat]
  BY DEF DeskInv, TypeInv, TypeOK
<1>3. CASE Still
  BY <1>1, <1>3 DEF Still
<1>4. ASSUME NEW o \in Orders, DeskSteps(o)
      PROVE  /\ refund'[x] => status'[x] = "cancelled"
             /\ placed'[x] - wasted'[x] \in {0, 1}
             /\ status'[x] \in {"none", "pending"} => placed'[x] = wasted'[x]
  <2>1. CASE Opens(o)
    BY <1>1, <1>2, <2>1 DEF Opens
  <2>2. CASE Sells(o)
    BY <1>1, <1>2, <2>2 DEF Sells
  <2>3. CASE Cancels(o)
    BY <1>1, <1>2, <2>3 DEF Cancels
  <2>4. CASE Ships(o)
    <3>1. status[o] # "cancelled"
      BY <2>4 DEF Ships, AllowedNext
    <3> QED BY <1>1, <1>2, <2>4, <3>1 DEF Ships
  <2>5. CASE Notes(o)
    BY <1>1, <1>2, <2>5 DEF Notes
  <2>6. CASE Wastes(o)
    BY <1>1, <1>2, <2>6 DEF Wastes
  <2> QED BY <1>4, <2>1, <2>2, <2>3, <2>4, <2>5, <2>6 DEF DeskSteps
<1> QED BY <1>3, <1>4, DeskStep

\* No step takes an order's slot back.
LEMMA StaysPlaced ==
  ASSUME DeskInv, [Next]_vars, NEW o \in Orders, status[o] # "none"
  PROVE  status'[o] # "none"
<1>1. status \in [Orders -> Statuses]
  BY DEF DeskInv, TypeInv, TypeOK
<1>2. CASE Still
  BY <1>2 DEF Still
<1>3. ASSUME NEW x \in Orders, DeskSteps(x)
      PROVE  status'[o] # "none"
  BY <1>1, <1>3 DEF DeskSteps, Opens, Sells, Cancels, Ships, Notes, Wastes
<1> QED BY <1>2, <1>3, DeskStep

LEMMA NextSessionsOK ==
  ASSUME DeskInv, [Next]_vars
  PROVE  SessionsOK'
<1> SUFFICES ASSUME NEW t \in Sessions, sessionOrder'[t] # None
             PROVE  status'[sessionOrder'[t]] # "none"
  BY DEF SessionsOK
<1>1. CASE sessionOrder'[t] = sessionOrder[t]
  <2>1. sessionOrder[t] \in Orders /\ status[sessionOrder[t]] # "none"
    BY <1>1 DEF DeskInv, SessionsOK, TypeInv, TypeOK
  <2> QED BY <1>1, <2>1, StaysPlaced
<1>2. CASE sessionOrder'[t] # sessionOrder[t]
  <2>1. PICK p \in Procs, s \in Sessions : CheckoutWrite(p, s) \/ CheckoutLost(p, s)
    BY <1>2 DEF Next, vars, Environment, EditCartLine, ExpireKey, Charge, Age, Start, CreateRead,
       WebhookClaim, CheckoutRead, CancelRead, SweepRead, AdminRead, Continue, CreateWrite,
       CreateFail, WebhookApply, CancelWrite, AdminWrite, SweepAsk, SweepUnknown, SweepWrite,
       Fail, FailAfterSupplier, pspVars
  <2>2. req[p].order \in Orders /\ status[req[p].order] # "none"
    <3>1. req[p].order \in Orders
      BY <2>1, LoadedRow DEF CheckoutWrite, CheckoutLost, DeskInv
    <3> QED BY <3>1, HeldPlaced, OrdersAssumption DEF DeskInv, Serial
  <2>3. sessionOrder'[t] = req[p].order
    BY <1>2, <2>1 DEF CheckoutWrite, CheckoutLost, DeskInv, TypeInv, TypeOK
  <2> QED BY <2>2, <2>3, StaysPlaced
<1> QED BY <1>1, <1>2

LEMMA NextCartsOK ==
  ASSUME DeskInv, [Next]_vars
  PROVE  CartsOK'
<1> USE DEF DeskInv
<1>1. \A v \in Variants : cart'[v] \in LineQuantities(v)
  <2>0. cart \in [Variants -> Nat] /\ \A v \in Variants : cart[v] \in LineQuantities(v) /\ 0 \in LineQuantities(v)
    BY DEF CartsOK, TypeInv, TypeOK, LineQuantities
  <2>1. ASSUME NEW x \in Variants, EditCartLine(x)
        PROVE  \A v \in Variants : cart'[v] \in LineQuantities(v)
    BY <2>0, <2>1 DEF EditCartLine
  <2>2. ASSUME NEW p \in Procs, NEW o \in Orders, CreateWrite(p, o)
        PROVE  \A v \in Variants : cart'[v] \in LineQuantities(v)
    BY <2>0, <2>2 DEF CreateWrite
  <2>3. CASE cart' = cart
    BY <2>0, <2>3
  <2> QED BY <2>1, <2>2, <2>3 DEF Next, vars, Environment, ExpireKey, Charge, Age, Start, CreateRead,
       WebhookClaim, CheckoutRead, CancelRead, SweepRead, AdminRead, Continue, CheckoutWrite,
       CheckoutLost, CreateFail, WebhookApply, CancelWrite, AdminWrite, SweepAsk, SweepUnknown,
       SweepWrite, Fail, FailAfterSupplier
<1>2. ASSUME NEW q \in Procs, req'[q].at = "create"
      PROVE  req'[q].basket \in Baskets
  <2>1. CASE req'[q] = req[q]
    BY <1>2, <2>1 DEF CartsOK
  <2>2. CASE req'[q] # req[q]
    <3>0. req \in [Procs -> Request]
      BY DEF TypeInv, TypeOK
    <3>1. PICK p \in Procs : Start(p) \/ Continue(p)
      BY <2>2 DEF Next, vars, Environment, EditCartLine, ExpireKey, Charge, Age
    <3>2. p = q
      BY <2>2, <3>1, OtherRequests
    <3>3. ~Continue(q)
      <4>1. SweepAsk(q) => req'[q].at # "create"
        BY <3>0 DEF SweepAsk, Request
      <4>2. Finish(q) => req'[q].at # "create"
        BY <3>0, IdleType DEF Finish
      <4> QED BY <1>2, <4>1, <4>2 DEF Continue, CreateWrite, CreateFail, CheckoutWrite, CheckoutLost,
              WebhookApply, CancelWrite, AdminWrite, SweepUnknown, SweepWrite, Fail, FailAfterSupplier
    <3>4. PICK key \in Keys \cup {None} : CreateRead(q, key)
      <4>1. ASSUME NEW stage, NEW o \in Orders, Begin(q, o, stage), stage # "create"
            PROVE  req'[q].at # "create"
        BY <3>0, <4>1 DEF Begin, Idle
      <4>2. ASSUME NEW s \in Sessions, WebhookClaim(q, s)
            PROVE  req'[q].at # "create"
        BY <3>0, <4>2 DEF WebhookClaim, Idle
      <4>3. ASSUME NEW o \in Orders, NEW new \in Statuses, AdminRead(q, o, new)
            PROVE  req'[q].at # "create"
        BY <3>0, <4>3 DEF AdminRead, Idle
      <4> QED BY <1>2, <3>1, <3>2, <3>3, <4>1, <4>2, <4>3 DEF Start, CheckoutRead, CancelRead, SweepRead
    <3>5. req'[q].basket = cart /\ cart # EmptyBasket
      BY <3>0, <3>4 DEF CreateRead, Idle
    <3>6. cart \in Baskets \cup {EmptyBasket}
      <4>1. cart \in [Variants -> UNION {LineQuantities(v) : v \in Variants}]
        BY DEF CartsOK, TypeInv, TypeOK
      <4> QED BY <4>1, OrdersAssumption DEF CartsOK
    <3> QED BY <3>5, <3>6
  <2> QED BY <2>1, <2>2
<1> QED BY <1>1, <1>2 DEF CartsOK

LEMMA InitDesk ==
  ASSUME Init
  PROVE  DeskInv
<1>1. TypeInv
  BY InitTypeInv
<1>2. Serial
  BY IdleType DEF Init, Serial, Apart, Current, Loaded
<1>3. RecordOK /\ SessionsOK
  BY DEF Init, RecordOK, SessionsOK
<1>4. CartsOK
  BY IdleType, OrdersAssumption DEF Init, CartsOK, LineQuantities
<1> QED BY <1>1, <1>2, <1>3, <1>4 DEF DeskInv

\* When requests on one order do not overlap, each of them works on the order
\* as it is.
THEOREM DeskIsSerial == ASSUME ~Overlap PROVE Spec => []DeskInv
<1>1. DeskInv /\ [Next]_vars => DeskInv'
  BY NextTypeInv, NextSerial, NextRecordOK, NextSessionsOK, NextCartsOK DEF DeskInv
<1> QED BY <1>1, InitDesk, PTL DEF Spec

\* The supplier accepts an order once, apart from the calls whose transaction
\* was lost (fulfill_order_with_suppliers skips a group that is done, and an
\* order becomes paid once).
THEOREM SupplierAskedOnce == ASSUME ~Overlap PROVE Spec => []SupplierOnce
<1>1. DeskInv => SupplierOnce
  <2> SUFFICES ASSUME DeskInv, NEW o \in Orders
               PROVE  placed[o] - wasted[o] <= 1
    BY DEF SupplierOnce
  <2> QED BY DEF DeskInv, RecordOK
<1> QED BY <1>1, DeskIsSerial, PTL

\* A shipped order stays shipped or is delivered: the transition commerce.py
\* rules out can only be made by a request that overlaps another one.
THEOREM ShippedStays == ASSUME ~Overlap PROVE Spec => ShippedNotCancelled
<1>1. ASSUME DeskInv, [Next]_vars, NEW o \in Orders, status[o] = "shipped"
      PROVE  status'[o] # "cancelled"
  <2>1. status \in [Orders -> Statuses]
    BY <1>1 DEF DeskInv, TypeInv, TypeOK
  <2>2. ASSUME NEW x \in Orders, DeskSteps(x)
        PROVE  status'[o] # "cancelled"
    BY <1>1, <2>1, <2>2 DEF DeskSteps, Opens, Sells, Cancels, Ships, Notes, Wastes
  <2> QED BY <1>1, <2>2, DeskStep DEF Still
<1>2. DeskInv /\ [Next]_vars => [\A o \in Orders : status[o] = "shipped" => status'[o] # "cancelled"]_vars
  BY <1>1
<1> QED BY <1>2, DeskIsSerial, PTL DEF Spec, ShippedNotCancelled

-----------------------------------------------------------------------------
(* The contract                                                            *)

\* Each thing a step does to an order is a step of the contract.
LEMMA DeskContract ==
  ASSUME DeskInv, NEW o \in Orders, DeskSteps(o)
  PROVE  [Contract!Next]_(Contract!cVars)
<1>1. CASE Opens(o)
  BY <1>1 DEF Opens, Contract!Place, Contract!Next
<1>2. CASE Sells(o)
  <2>1. "paid" \in Contract!NextStatuses(status[o]) \ {"cancelled"}
    BY <1>2 DEF Sells, Contract!NextStatuses
  <2> QED BY <1>2, <2>1 DEF Sells, Contract!Advance, Contract!Next
<1>3. CASE Cancels(o)
  <2>1. "cancelled" \in Contract!NextStatuses(status[o])
    BY <1>3 DEF Cancels, Contract!NextStatuses
  <2> QED BY <1>3, <2>1 DEF Cancels, Contract!Cancel, Contract!Next
<1>4. CASE Ships(o)
  <2>1. PICK st \in {"shipped", "delivered"} : /\ st \in AllowedNext(status[o])
                                              /\ status' = [status EXCEPT ![o] = st]
    BY <1>4 DEF Ships
  <2>2. st \in Contract!NextStatuses(status[o]) \ {"cancelled"}
    BY <2>1 DEF AllowedNext, Contract!NextStatuses
  <2> QED BY <1>4, <2>1, <2>2 DEF Ships, Contract!Advance, Contract!Next
<1>5. CASE Notes(o)
  BY <1>5 DEF Notes, Contract!LatePayment, Contract!Next
<1>6. CASE Wastes(o)
  BY <1>6 DEF Wastes, Contract!cVars
<1> QED BY <1>1, <1>2, <1>3, <1>4, <1>5, <1>6 DEF DeskSteps

\* The desk implements the contract: all its reads, writes, retries, webhooks,
\* sweeps and failures show as orders that are placed, advanced, cancelled
\* with their basket returned, or marked for a refund.
THEOREM DeskImplementsContract == ASSUME ~Overlap PROVE Spec => ContractSpec
<1>1. Init => Contract!Init
  BY OrdersAssumption DEF Init, Contract!Init
<1>2. DeskInv /\ [Next]_vars => [Contract!Next]_(Contract!cVars)
  <2>1. Still => UNCHANGED Contract!cVars
    BY DEF Still, Contract!cVars
  <2> QED BY <2>1, DeskStep, DeskContract
<1> QED BY <1>1, <1>2, DeskIsSerial, PTL DEF Spec, ContractSpec, Contract!Spec

-----------------------------------------------------------------------------
(* Units and sales counters add up                                         *)

\* The steps of the desk are steps of the units.
LEMMA DeskHeld ==
  ASSUME DeskInv, NEW o \in Orders, DeskSteps(o)
  PROVE  HeldSteps(o) \/ UNCHANGED <<status, lines, stock>>
<1>1. CASE Opens(o)
  BY <1>1, OrdersAssumption DEF Opens, Reserves, HeldSteps
<1>2. CASE Sells(o) \/ Ships(o)
  BY <1>2 DEF Sells, Ships, Keeps, HeldSteps
<1>3. CASE Cancels(o)
  BY <1>3 DEF Cancels, Releases, HeldSteps
<1> QED BY <1>1, <1>2, <1>3 DEF DeskSteps, Notes, Wastes

\* One order's step on what orders that earned took.
LEMMA EarnedChange ==
  ASSUME TypeOK, TypeOK', NEW o \in Orders, HeldSteps(o), NEW v \in Variants
  PROVE  /\ Quantity(Earning, v) \in Nat /\ Quantity(Earning, v)' \in Nat
         /\ Quantity(Earning, v) + (IF status'[o] \in EarningStatuses THEN lines'[o][v] ELSE 0)
              = Quantity(Earning, v)' + (IF status[o] \in EarningStatuses THEN lines[o][v] ELSE 0)
<1>1. \A x \in Orders \ {o} : status'[x] = status[x] /\ lines'[x] = lines[x]
  BY DEF HeldSteps, Reserves, Keeps, Releases, TypeOK
<1>2. Quantity(Earning, v) = Units(lines, v, {x \in Orders : status[x] \in EarningStatuses})
  BY DEF Quantity, Units, Earning, EarningStatuses
<1>3. Quantity(Earning, v)' = Units(lines', v, {x \in Orders : status'[x] \in EarningStatuses})
  BY DEF Quantity, Units, Earning, EarningStatuses
<1> QED BY <1>1, <1>2, <1>3, QuantityChange

LEMMA NextStockConserved ==
  ASSUME DeskInv, DeskInv', StockConserved, [Next]_vars
  PROVE  StockConserved'
<1>1. CASE UNCHANGED <<status, lines, stock>>
  BY <1>1 DEF StockConserved, Quantity, Holding
<1>2. ASSUME NEW o \in Orders, DeskSteps(o), HeldSteps(o)
      PROVE  StockConserved'
  <2> SUFFICES ASSUME NEW v \in Variants
               PROVE  stock'[v] + Quantity(Holding, v)' = InitialStock[v]
    BY DEF StockConserved
  <2> DEFINE before == Quantity(Holding, v)
             after  == Quantity(Holding, v)'
             Equal  == stock'[v] + after = InitialStock[v]
  <2>1. TypeOK /\ TypeOK'
    BY DEF DeskInv, TypeInv
  <2>2. /\ before \in Nat /\ after \in Nat
        /\ before + (IF status'[o] \in HoldingStatuses THEN lines'[o][v] ELSE 0)
             = after + (IF status[o] \in HoldingStatuses THEN lines[o][v] ELSE 0)
    BY <1>2, <2>1, HeldChange
  <2>3. stock[v] + before = InitialStock[v]
    BY DEF StockConserved
  <2>4. /\ stock[v] \in Nat /\ stock'[v] \in Nat /\ InitialStock[v] \in Nat
        /\ lines[o][v] \in Nat /\ lines'[o][v] \in Nat
    BY <2>1, OrdersAssumption DEF TypeOK
  <2> HIDE DEF before, after
  <2>5. ASSUME Opens(o)
        PROVE  Equal
    <3>1. status[o] = "none" /\ status'[o] = "pending" /\ stock'[v] = stock[v] - lines'[o][v]
      BY <2>1, <2>5 DEF Opens, TypeOK
    <3> QED BY <2>2, <2>3, <2>4, <3>1 DEF HoldingStatuses
  <2>6. ASSUME Sells(o) \/ Ships(o)
        PROVE  Equal
    <3>1. /\ status[o] \in HoldingStatuses /\ status'[o] \in HoldingStatuses
          /\ stock'[v] = stock[v] /\ lines'[o][v] = lines[o][v]
      BY <2>1, <2>6 DEF Sells, Ships, AllowedNext, TypeOK, HoldingStatuses
    <3> QED BY <2>2, <2>3, <2>4, <3>1
  <2>7. ASSUME Cancels(o)
        PROVE  Equal
    <3>1. /\ status[o] \in HoldingStatuses /\ status'[o] = "cancelled"
          /\ stock'[v] = stock[v] + lines[o][v]
      BY <2>1, <2>7 DEF Cancels, TypeOK, HoldingStatuses
    <3> QED BY <2>2, <2>3, <2>4, <3>1 DEF HoldingStatuses
  <2>8. ASSUME Notes(o) \/ Wastes(o)
        PROVE  Equal
    <3>1. UNCHANGED <<status, lines, stock>>
      BY <2>8 DEF Notes, Wastes
    <3> QED BY <2>2, <2>3, <2>4, <3>1
  <2>9. Equal
    BY <1>2, <2>5, <2>6, <2>7, <2>8 DEF DeskSteps
  <2> QED BY <2>9 DEF after
<1> QED BY <1>1, <1>2, DeskStep, DeskHeld DEF Still

\* What is in stock and what live orders hold add up to the initial stock:
\* reserve_order_inventory and release_order_inventory undo each other over
\* every way an order can go.
THEOREM StockAddsUp == ASSUME ~Overlap PROVE Spec => []StockConserved
<1>1. Init => StockConserved
  BY InitQuantities, OrdersAssumption DEF Init, StockConserved
<1>2. DeskInv /\ DeskInv' /\ StockConserved /\ [Next]_vars => StockConserved'
  BY NextStockConserved
<1> QED BY <1>1, <1>2, DeskIsSerial, PTL DEF Spec

LEMMA NextSoldMatches ==
  ASSUME DeskInv, DeskInv', SoldMatches, [Next]_vars
  PROVE  SoldMatches'
<1>1. CASE UNCHANGED <<status, lines, sold>>
  BY <1>1 DEF SoldMatches, Quantity, Earning
<1>2. ASSUME NEW o \in Orders, DeskSteps(o), HeldSteps(o)
      PROVE  SoldMatches'
  <2> SUFFICES ASSUME NEW v \in Variants
               PROVE  sold'[v] = Quantity(Earning, v)'
    BY DEF SoldMatches
  <2> DEFINE before == Quantity(Earning, v)
             after  == Quantity(Earning, v)'
             Equal  == sold'[v] = after
  <2>1. TypeOK /\ TypeOK'
    BY DEF DeskInv, TypeInv
  <2>2. /\ before \in Nat /\ after \in Nat
        /\ before + (IF status'[o] \in EarningStatuses THEN lines'[o][v] ELSE 0)
             = after + (IF status[o] \in EarningStatuses THEN lines[o][v] ELSE 0)
    BY <1>2, <2>1, EarnedChange
  <2>3. sold[v] = before
    BY DEF SoldMatches
  <2>4. sold[v] \in Nat /\ sold'[v] \in Nat /\ lines[o][v] \in Nat /\ lines'[o][v] \in Nat
    BY <2>1 DEF TypeOK
  <2> HIDE DEF before, after
  <2>5. ASSUME Opens(o)
        PROVE  Equal
    <3>1. status[o] = "none" /\ status'[o] = "pending" /\ sold'[v] = sold[v]
      BY <2>1, <2>5 DEF Opens, TypeOK
    <3> QED BY <2>2, <2>3, <2>4, <3>1 DEF EarningStatuses
  <2>6. ASSUME Sells(o)
        PROVE  Equal
    <3>1. /\ status[o] = "pending" /\ status'[o] = "paid" /\ lines'[o][v] = lines[o][v]
          /\ sold'[v] = sold[v] + lines[o][v]
      BY <2>1, <2>6 DEF Sells, IncrementUnitsSold, TypeOK
    <3> QED BY <2>2, <2>3, <2>4, <3>1 DEF EarningStatuses
  <2>7. ASSUME Ships(o)
        PROVE  Equal
    <3>1. /\ status[o] \in EarningStatuses /\ status'[o] \in EarningStatuses
          /\ sold'[v] = sold[v] /\ lines'[o][v] = lines[o][v]
      BY <2>1, <2>7 DEF Ships, AllowedNext, TypeOK, EarningStatuses
    <3> QED BY <2>2, <2>3, <2>4, <3>1
  <2>8. ASSUME Cancels(o)
        PROVE  Equal
    <3>1. status'[o] = "cancelled" /\ lines'[o][v] = lines[o][v]
      BY <2>1, <2>8 DEF Cancels, TypeOK
    <3>2. CASE status[o] = "paid"
      <4>1. sold'[v] = IF sold[v] > lines[o][v] THEN sold[v] - lines[o][v] ELSE 0
        BY <2>8, <3>2 DEF Cancels, DecrementUnitsSold
      <4>2. before = after + lines[o][v]
        BY <2>2, <3>1, <3>2 DEF EarningStatuses
      <4> QED BY <2>2, <2>3, <2>4, <4>1, <4>2
    <3>3. CASE status[o] = "pending"
      <4>1. sold'[v] = sold[v]
        BY <2>8, <3>3 DEF Cancels
      <4> QED BY <2>2, <2>3, <2>4, <3>1, <3>3, <4>1 DEF EarningStatuses
    <3> QED BY <2>8, <3>2, <3>3 DEF Cancels
  <2>9. ASSUME Notes(o) \/ Wastes(o)
        PROVE  Equal
    <3>1. UNCHANGED <<status, lines, sold>>
      BY <2>9 DEF Notes, Wastes
    <3> QED BY <2>2, <2>3, <2>4, <3>1
  <2>10. Equal
    BY <1>2, <2>5, <2>6, <2>7, <2>8, <2>9 DEF DeskSteps
  <2> QED BY <2>10 DEF after
<1>3. ASSUME NEW o \in Orders, DeskSteps(o), ~HeldSteps(o)
      PROVE  UNCHANGED <<status, lines, sold>>
  <2>1. Notes(o) \/ Wastes(o)
    BY <1>3, OrdersAssumption DEF DeskSteps, HeldSteps, Opens, Reserves, Sells, Ships, Keeps, Cancels, Releases
  <2> QED BY <2>1 DEF Notes, Wastes
<1> QED BY <1>1, <1>2, <1>3, DeskStep DEF Still

\* Product.units_sold counts exactly the units of orders that were paid and
\* not cancelled since; the floor at zero in decrement_product_units_sold is
\* never reached.
THEOREM CountersMatch == ASSUME ~Overlap PROVE Spec => []SoldMatches
<1>1. Init => SoldMatches
  BY InitQuantities, OrdersAssumption DEF Init, SoldMatches
<1>2. DeskInv /\ DeskInv' /\ SoldMatches /\ [Next]_vars => SoldMatches'
  BY NextSoldMatches
<1> QED BY <1>1, <1>2, DeskIsSerial, PTL DEF Spec

-----------------------------------------------------------------------------
(* Payments                                                                *)

\* What settles a payment for an order.
Settled(o) == status[o] \in EarningStatuses \/ refund[o]

\* Nothing unsettles a payment: cancelling a paid order leaves a note.
LEMMA StaysSettled ==
  ASSUME DeskInv, [Next]_vars, NEW o \in Orders, Settled(o)
  PROVE  Settled(o)'
<1>1. status \in [Orders -> Statuses] /\ refund \in [Orders -> BOOLEAN]
  BY DEF DeskInv, TypeInv, TypeOK
<1>2. CASE Still
  BY <1>2 DEF Still, Settled
<1>3. ASSUME NEW x \in Orders, DeskSteps(x)
      PROVE  Settled(o)'
  <2>0. refund[x] => status[x] = "cancelled"
    BY DEF DeskInv, RecordOK
  <2>1. CASE Opens(x)
    BY <1>1, <2>0, <2>1 DEF Opens, Settled, EarningStatuses
  <2>2. CASE Sells(x)
    BY <1>1, <2>0, <2>2 DEF Sells, Settled, EarningStatuses
  <2>3. CASE Cancels(x)
    BY <1>1, <2>0, <2>3 DEF Cancels, Settled, EarningStatuses
  <2>4. CASE Ships(x)
    BY <1>1, <2>4 DEF Ships, Settled, EarningStatuses
  <2>5. CASE Notes(x)
    BY <1>1, <2>5 DEF Notes, Settled, EarningStatuses
  <2>6. CASE Wastes(x)
    BY <2>6 DEF Wastes, Settled
  <2> QED BY <1>3, <2>1, <2>2, <2>3, <2>4, <2>5, <2>6 DEF DeskSteps
<1> QED BY <1>2, <1>3, DeskStep

\* The event's handler settles the payment unless it dies.
LEMMA ApplySettles ==
  ASSUME DeskInv, NEW p \in Procs, WebhookApply(p), NEW o \in Orders, o = req[p].order
  PROVE  Settled(o)'
<1>1. status \in [Orders -> Statuses] /\ refund \in [Orders -> BOOLEAN]
  BY DEF DeskInv, TypeInv, TypeOK
<1>2. status[o] # "none"
  BY HeldPlaced, OrdersAssumption DEF DeskInv, Serial
<1>3. CASE status[o] = "pending" /\ CompletePayment(o, Row(o), req[p].session)
  BY <1>1, <1>3 DEF CompletePayment, ApplyPaid, Settled, EarningStatuses
<1>4. CASE RecordLatePayment(o, req[p].session)
  BY <1>1, <1>4 DEF RecordLatePayment, Settled
<1>5. CASE status[o] \notin {"pending", "cancelled"} /\ UNCHANGED <<status, refund>>
  BY <1>1, <1>2, <1>5 DEF Settled, EarningStatuses, Statuses
<1> QED BY <1>3, <1>4, <1>5 DEF WebhookApply

\* What happens to the requests that handle events, and to the claims.
LEMMA ClaimStep ==
  ASSUME DeskInv, [Next]_vars, NEW s \in claimed' \ dropped'
  PROVE  /\ s \in Sessions /\ sessionOrder'[s] \in Orders
         /\ \/ \E p \in Procs : req'[p].at = "apply" /\ req'[p].session = s
            \/ s \in claimed \ dropped /\ sessionOrder'[s] = sessionOrder[s]
<1>1. TypeOK /\ TypeOK'
  BY NextTypeInv DEF DeskInv, TypeInv
<1>2. s \in Sessions /\ sessionOrder'[s] \in Orders
  BY <1>1 DEF TypeOK
<1>3. ASSUME NEW p \in Procs, NEW t \in Sessions, WebhookClaim(p, t), s \notin claimed
      PROVE  req'[p].at = "apply" /\ req'[p].session = s
  <2>1. s = t
    BY <1>3 DEF WebhookClaim
  <2>2. req' = [req EXCEPT ![p] = [Idle EXCEPT !.at = "apply", !.session = t, !.order = sessionOrder[t]]]
    BY <1>3 DEF WebhookClaim
  <2> QED BY <1>1, <2>1, <2>2 DEF Idle, TypeOK
<1>4. s \notin claimed => \E p \in Procs, t \in Sessions : WebhookClaim(p, t)
  BY DEF Next, vars, Environment, EditCartLine, ExpireKey, Charge, Age, Start, CreateRead, CheckoutRead,
     CancelRead, SweepRead, AdminRead, Continue, CreateWrite, CreateFail, CheckoutWrite, CheckoutLost,
     WebhookApply, CancelWrite, AdminWrite, SweepAsk, SweepUnknown, SweepWrite, Fail, FailAfterSupplier
<1>5. dropped \subseteq dropped'
  BY DEF Next, vars, Environment, EditCartLine, ExpireKey, Charge, Age, Start, CreateRead, WebhookClaim,
     CheckoutRead, CancelRead, SweepRead, AdminRead, Continue, CreateWrite, CreateFail, CheckoutWrite,
     CheckoutLost, WebhookApply, CancelWrite, AdminWrite, SweepAsk, SweepUnknown, SweepWrite, Fail,
     FailAfterSupplier, Dropping
<1>6. s \in claimed => sessionOrder'[s] = sessionOrder[s]
  <2>1. ASSUME NEW p \in Procs, NEW t \in Sessions, CheckoutWrite(p, t) \/ CheckoutLost(p, t), s \in claimed
        PROVE  sessionOrder'[s] = sessionOrder[s]
    <3>1. s # t
      BY <1>1, <2>1 DEF CheckoutWrite, CheckoutLost, TypeOK
    <3> QED BY <1>1, <2>1, <3>1 DEF CheckoutWrite, CheckoutLost, TypeOK
  <2> QED BY <2>1 DEF Next, vars, Environment, EditCartLine, ExpireKey, Charge, Age, Start, CreateRead,
      WebhookClaim, CheckoutRead, CancelRead, SweepRead, AdminRead, Continue, CreateWrite, CreateFail,
      WebhookApply, CancelWrite, AdminWrite, SweepAsk, SweepUnknown, SweepWrite, Fail,
      FailAfterSupplier, pspVars
<1> QED BY <1>2, <1>3, <1>4, <1>5, <1>6

\* PaymentsSettled, in the terms of the lemmas.
Answered(s) == \/ \E p \in Procs : req[p].at = "apply" /\ req[p].session = s
               \/ Settled(sessionOrder[s])

LEMMA AnsweredSettles ==
  ASSUME TypeOK
  PROVE  PaymentsSettled <=> \A s \in claimed \ dropped : Answered(s)
BY DEF PaymentsSettled, Answered, Settled, Earning, EarningStatuses, TypeOK

LEMMA NextAnswered ==
  ASSUME DeskInv, [Next]_vars, \A s \in claimed \ dropped : Answered(s), NEW s \in claimed' \ dropped'
  PROVE  Answered(s)'
<1>1. CASE \E p \in Procs : req'[p].at = "apply" /\ req'[p].session = s
  BY <1>1 DEF Answered
<1>2. CASE s \in claimed \ dropped /\ sessionOrder'[s] = sessionOrder[s]
  <2>1. PICK o \in Orders : o = sessionOrder[s] /\ o = sessionOrder'[s]
    BY <1>2, ClaimStep
  <2>2. CASE Settled(o)
    <3>1. Settled(o)'
      BY <2>2, StaysSettled
    <3> QED BY <2>1, <3>1 DEF Answered, Settled
  <2>3. CASE \E p \in Procs : req[p].at = "apply" /\ req[p].session = s
    <3>1. PICK p \in Procs : req[p].at = "apply" /\ req[p].session = s
      BY <2>3
    <3>2. CASE req'[p] = req[p]
      BY <3>1, <3>2 DEF Answered
    <3>3. CASE req'[p] # req[p]
      <4>1. Start(p) \/ Continue(p)
        BY <3>3, OtherRequests DEF DeskInv, Next, vars, Environment, EditCartLine, ExpireKey, Charge, Age
      <4>2. ~Start(p)
        BY <3>1, IdleType DEF Start, CreateRead, WebhookClaim, CheckoutRead, CancelRead, SweepRead,
           AdminRead, Begin
      <4>3. WebhookApply(p) \/ Fail(p) \/ FailAfterSupplier(p)
        BY <3>1, <4>1, <4>2 DEF Continue, CreateWrite, CreateFail, CheckoutWrite, CheckoutLost,
           CancelWrite, AdminWrite, SweepAsk, SweepUnknown, SweepWrite
      <4>4. ~Fail(p) /\ ~FailAfterSupplier(p)
        BY <3>1 DEF Fail, FailAfterSupplier, Dropping
      <4>5. o = req[p].order
        BY <2>1, <3>1 DEF DeskInv, TypeInv, ReqOK
      <4>6. Settled(o)'
        BY <4>3, <4>4, <4>5, ApplySettles
      <4> QED BY <2>1, <4>6 DEF Answered, Settled
    <3> QED BY <3>2, <3>3
  <2>4. Settled(o) \/ \E p \in Procs : req[p].at = "apply" /\ req[p].session = s
    BY <1>2, <2>1 DEF Answered
  <2> QED BY <2>2, <2>3, <2>4
<1> QED BY <1>1, <1>2, ClaimStep

\* An event that was claimed and whose handler did not die has made its order
\* paid, or has left a refund note, and that stays so (process_payment_webhook
\* against every later status change).
THEOREM PaymentsAreSettled == ASSUME ~Overlap PROVE Spec => []PaymentsSettled
<1>1. Init => \A s \in claimed \ dropped : Answered(s)
  BY DEF Init
<1>2. DeskInv /\ (\A s \in claimed \ dropped : Answered(s)) /\ [Next]_vars
        => (\A s \in claimed \ dropped : Answered(s))'
  BY NextAnswered
<1>3. DeskInv /\ (\A s \in claimed \ dropped : Answered(s)) => PaymentsSettled
  BY AnsweredSettles DEF DeskInv, TypeInv
<1> QED BY <1>1, <1>2, <1>3, DeskIsSerial, PTL DEF Spec
=============================================================================
