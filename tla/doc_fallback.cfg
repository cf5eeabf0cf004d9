\* The fallbacks that the debug stream does not hear of.
CONSTANTS
  Callers = {c1, c2}
  Worlds <- Worlds_MC
  KlineReplies <- KlineReplies_MC
  TickReplies <- TickReplies_MC
  Limit = 2
  WindowEnd = 42
SPECIFICATION Spec
INVARIANT EveryFallbackIsObservable
CHECK_DEADLOCK FALSE
