SPECIFICATION FairSpec
CONSTANTS
  v1 = v1
  v2 = v2
  None = None
  Orders = {o1}
  Variants = {v1}
  Sessions = {s1}
  Procs = {p1, p2}
  Keys = {}
  EmptyBasket <- OneEmpty
  InitialStock <- UnitStock
  Baskets <- UnitBaskets
  Overlap = TRUE
  Answers = {"accepted", "refused"}
  MaxWasted = 0
INVARIANTS StockNotLost
PROPERTIES WebhookKeepsCancelled StaleSettles
CHECK_DEADLOCK FALSE
