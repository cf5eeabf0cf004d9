\* Two requests at a time on each kind of market.
CONSTANTS
  Markets = {"continuous", "cn_a", "fx"}
  Offered <- Offered_MC
  Clock <- Clock_MC
  Limits = {1, 2, 5}
  Targets = {"M15", "H1", "D1"}
  Handlers = {h1, h2}
  ResolutionLimit = 2
SYMMETRY Handlers_symmetry
SPECIFICATION Spec
INVARIANTS CompleteMeansClosed WholeBucketIsListed OpenBarIsOpen FailureLeavesPrefix ResolvedAsAsked
CHECK_DEADLOCK FALSE
