\* A signal comes at any time: what a stopped session still does.
\* The proxy may stop: clients ask once and time is bounded.
SPECIFICATION Spec
CONSTANTS Urls = {"u"}
          Ages = {1, 2}
          Uninitialised <- MCInts
          Clients = {"a", "b"}
          Url <- SameUrl
          Gzip <- OnlyA
          Controls <- KeepOne
          Parts = 1
          MaxTime = 0
          Signals = TRUE
          Faulty = {}
PROPERTY StopIsFinal
CHECK_DEADLOCK FALSE
