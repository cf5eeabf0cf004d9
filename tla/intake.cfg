\* Three requests for two keys or none, with calls that fail.
CONSTANTS
  Requests = {r1, r2, r3}
  Keys = {k1, k2}
  NoKey = NoKey
  NoTask = NoTask
  CallsFail = TRUE
SPECIFICATION FairSpec
INVARIANTS OneTaskPerKey AnswersAreRight LoserFindsWinner
PROPERTIES ImplementsRegistry EveryRequestEnds
CHECK_DEADLOCK FALSE
