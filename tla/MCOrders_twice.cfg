SPECIFICATION Spec
CONSTANTS
  v1 = v1
  v2 = v2
  None = None
  Orders = {o1}
  Variants = {v1}
  Sessions = {s1}
  Procs = {p1, p2}
  Keys = {k1}
  EmptyBasket <- OneEmpty
  InitialStock <- OneStock
  Baskets <- OneBaskets
  Overlap = TRUE
  Answers = {"accepted", "refused", "lost"}
  MaxWasted = 0
SYMMETRY Symmetric
INVARIANT SupplierNeverTwice

CHECK_DEADLOCK FALSE
