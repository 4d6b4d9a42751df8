SPECIFICATION Spec
CONSTANTS
  s1 = s1
  s2 = s2
  s3 = s3
  s4 = s4
  own = own
  a = a
  b = b
  c = c
  o = o
  None = None
  Suppliers = {s1, s2, s3, s4}
  Own = own
  KeysOf <- VariantKeys
  Feeds <- Catalogues
  Options <- Archiving
  CatalogStock = 1
  FormStocks = {0, 1}
  MaxStock = 2
  Shops <- TwoSuppliersSqlite
  FormStatuses = {"published", "archived"}
  Jobs = {1}
  MaxCrashes = 1
PROPERTY TickTakesNext
CHECK_DEADLOCK FALSE
