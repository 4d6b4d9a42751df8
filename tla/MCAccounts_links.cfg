SPECIFICATION Spec
CONSTANTS
  root = root
  ann = ann
  p1 = p1
  p2 = p2
  None = None
  Emails = {root, ann}
  Procs = {p1, p2}
  Sites <- Scenes
  RequireVerification = TRUE
  MaxLinks = 3
SYMMETRY Symmetric
INVARIANTS
  OneAdmin
  
  
PROPERTIES
  AdminStays
  OwnColumnsOnly
CHECK_DEADLOCK FALSE
