CONSTANTS
  Tasks = {1}
  MaxAttempts = 2
  Workers = {w1, w2}
  NoTask = NoTask
  Unregistered = {}
  Faults = {}
SPECIFICATION Spec
INVARIANTS NoDuplicateClaims
