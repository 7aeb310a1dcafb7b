\* Two clients ask for one URL, one of them with gzip, whose peers may fail.
\* The proxy may stop: clients ask once and time is bounded.
SPECIFICATION Spec
CONSTANTS Urls = {"u"}
          Ages = {1}
          Uninitialised <- MCInts
          Clients = {"a", "b"}
          Url <- SameUrl
          Gzip <- OnlyA
          Controls <- MCControls
          Parts = 2
          MaxTime = 2
          Signals = FALSE
          Faulty = {"a"}
INVARIANTS TypeOK OneOperation RightReply ThrowsForPeers
CHECK_DEADLOCK FALSE
