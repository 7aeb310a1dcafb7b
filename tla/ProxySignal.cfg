\* A signal comes at any time.
\* The proxy may stop: clients ask once and time is bounded.
SPECIFICATION FairSpec
CONSTANTS Urls = {"u"}
          Ages = {1, 2}
          Uninitialised <- MCInts
          Clients = {"a", "b"}
          Url <- SameUrl
          Gzip <- OnlyA
          Controls <- KeepOne
          Parts = 2
          MaxTime = 1
          Signals = TRUE
          Faulty = {}
INVARIANT NoneAfterClose
PROPERTIES SignalEnds SessionsEnd
CHECK_DEADLOCK FALSE
