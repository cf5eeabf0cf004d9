\* One bar, open and closed, with most kinds of tasks asked for twice; the server
\* resolves every input.
CONSTANTS
  pa1 = pa1
  pa2 = pa2
  bar1 = bar1
  daily1 = daily1
  daily2 = daily2
  advice1 = advice1
  advice2 = advice2
  Requests <- Requests_server
  KindOf <- KindOf_server
  LastBar = 1
  BarsPerDay = 2
  RecentLimit = 2
  ClientSupplies = FALSE
  Supplied = Supplied
  None = None
SYMMETRY Symmetry_server
SPECIFICATION Spec
INVARIANTS ClosedAdviceIsCoherent AdviceSeesNoOlderState OneAdvicePerClosedBar AdviceSharesDaily
CHECK_DEADLOCK FALSE
