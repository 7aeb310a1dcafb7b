\* Requests and responses, with a length, in chunks or empty.
\* A message that has been passed on is the end.
SPECIFICATION FairSpec
CONSTANTS Symbols <- MCSymbols
          FirstLines <- MCFirstLines
          Bodies <- MCBodies
          Chunkings <- MCChunkings
          Others <- MCOthers
          Gaps <- MCGaps
INVARIANTS TwoViews Framed BodyArrives ChunksInOrder NoOtherBody LinesArrive
PROPERTY PassedOn
CHECK_DEADLOCK FALSE
