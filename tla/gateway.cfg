\* Two calls at a time over seven sets of reference data.
CONSTANTS
  Callers = {c1, c2}
  Worlds <- Worlds_MC
  KlineReplies <- KlineReplies_MC
  TickReplies <- TickReplies_MC
  Limit = 2
  WindowEnd = 42
SPECIFICATION Spec
INVARIANTS ServedByPolicy FallbackIsTold
CHECK_DEADLOCK FALSE
