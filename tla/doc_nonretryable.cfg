CONSTANTS
  Tasks = {1, 2}
  MaxAttempts = 2
  Workers = {w1}
  NoTask = NoTask
  Unregistered = {1}
  Faults = {}
SPECIFICATION FairSpec
PROPERTIES NonRetryableFailuresTerminate
