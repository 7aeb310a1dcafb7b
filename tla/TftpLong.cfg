\* A reader of sixteen blocks and a writer of a block and a rest; answers in time.
SPECIFICATION FairSpec
CONSTANTS Clients = {"a", "b"}
          Files <- MCFiles
          Exists <- MCExists
          Writable <- MCWritable
          FileSrc <- MCFileSrc
          Op <- AReadsBWrites
          Mode <- AllOctet
          Target <- GandO
          Input <- ShortIn
          Text <- MCText
          BlockSize = 2
          MaxDups = 0
          MaxGarbled = 0
          Lossy = FALSE
          Timely = TRUE
PROPERTY ServedWhole
\* The clients end, and the server, whose poll has no timeout, sleeps for good.
CHECK_DEADLOCK FALSE
