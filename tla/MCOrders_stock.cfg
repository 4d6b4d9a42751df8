SPECIFICATION Spec
CONSTANTS
  v1 = v1
  v2 = v2
  None = None
  Orders = {o1, o2}
  Variants = {v1, v2}
  Sessions = {s1}
  Procs = {p1, p2}
  Keys = {k1}
  EmptyBasket <- PairEmpty
  InitialStock <- PairStock
  Baskets <- PairBaskets
  Overlap = FALSE
  Answers = {"accepted"}
  MaxWasted = 0
SYMMETRY Symmetric
INVARIANTS StockConserved SoldMatches OneOrderPerKey
PROPERTIES ContractSpec
CHECK_DEADLOCK FALSE
