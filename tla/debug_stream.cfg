\* The page as built for production: one mount, two sockets (the server may
\* not yet have noticed the end of the last one), a channel and a store that
\* overflow.
CONSTANTS
  Sockets = {1, 2}
  NoSocket = NoSocket
  Capacity = 1
  MaxShown = 2
  MaxSent = 4
  StrictMode = FALSE
SPECIFICATION FairSpec
INVARIANTS ShownInOrder NothingLostSilently IndicatorTells DisconnectIsFinal
PROPERTIES Reconnects
CHECK_DEADLOCK FALSE
