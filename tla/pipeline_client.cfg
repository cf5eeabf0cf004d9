\* Two bars of two dates, with inputs from clients.
CONSTANTS
  pa1 = pa1
  pa2 = pa2
  bar1 = bar1
  daily1 = daily1
  daily2 = daily2
  advice1 = advice1
  advice2 = advice2
  Requests <- Requests_client
  KindOf <- KindOf_client
  LastBar = 2
  BarsPerDay = 1
  RecentLimit = 1
  ClientSupplies = TRUE
  Supplied = Supplied
  None = None
SYMMETRY Symmetry_client
SPECIFICATION Spec
INVARIANT NoHindsight
CHECK_DEADLOCK FALSE
