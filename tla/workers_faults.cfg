\* Two processes, two tasks of which one has a step that is not registered, and
\* every fault: the store, its refinement of the ledger, and what restarts repair.
CONSTANTS
  Tasks = {1, 2}
  MaxAttempts = 2
  Workers = {w1, w2}
  NoTask = NoTask
  Unregistered = {2}
  Faults = {"crash", "call_fails", "ack_lost", "claim_lost", "release_fails"}
SPECIFICATION FairSpec
INVARIANTS AttemptsMatchCount BudgetLeft OneVerdict LastAttemptDecides ClaimsAreFenced
PROPERTIES TerminalIsFinal SupersededWritesNothing ImplementsLedger AbandonedRecoveredByRestarts EveryTaskSettles
