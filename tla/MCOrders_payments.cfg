SPECIFICATION Spec
CONSTANTS
  v1 = v1
  v2 = v2
  None = None
  Orders = {o1}
  Variants = {v1}
  Sessions = {s1, s2}
  Procs = {p1, p2}
  Keys = {k1}
  EmptyBasket <- OneEmpty
  InitialStock <- OneStock
  Baskets <- OneBaskets
  Overlap = FALSE
  Answers = {"accepted", "refused", "lost"}
  MaxWasted = 1
SYMMETRY Symmetric
INVARIANTS PaymentsSettled SupplierOnce
PROPERTIES PaidIsEarned
CHECK_DEADLOCK FALSE
