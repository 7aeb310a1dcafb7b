\* What is said of bodies in chunks, expected to be violated.
\* A message that has been passed on is the end.
SPECIFICATION Spec
CONSTANTS Symbols <- MCSymbols
          FirstLines <- MCFirstLines
          Bodies <- MCBodies
          Chunkings <- MCChunkings
          Others <- MCOthers
          Gaps <- MCGaps
INVARIANT ChunksArrive
CHECK_DEADLOCK FALSE
