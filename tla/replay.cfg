\* Two samples with overlapping windows, answers with bars missing and repeated,
\* every shape of configuration file and of model answer; the fixture replay of up
\* to two samples.
CONSTANTS
  Datasets <- Datasets_MC
  Files <- Files_MC
  Answers <- Answers_MC
  Replies <- Replies_MC
  MinWarmup = 1
SPECIFICATION FairSpec
INVARIANTS HistoryIsThePast StartedReplayResolves GateMeansWholeChains WholeChainsPassGate
PROPERTIES EndsUnlessFetchHangs
CHECK_DEADLOCK FALSE
