CONSTANTS
  Markets = {"continuous"}
  Offered <- Offered_MC
  Clock <- Clock_MC
  Limits = {1}
  Targets = {"M15"}
  Handlers = {h1}
  ResolutionLimit = 2
SPECIFICATION Spec
INVARIANTS OnlyClosedBarsPersisted
CHECK_DEADLOCK FALSE
