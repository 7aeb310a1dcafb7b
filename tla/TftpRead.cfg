\* A reader of two blocks and the empty one that ends them, a writer of one block; a loss, a duplicate, a damaged datagram, answers in time.
SPECIFICATION FairSpec
CONSTANTS Clients = {"a", "b"}
          Files <- MCFiles
          Exists <- MCExists
          Writable <- MCWritable
          FileSrc <- MCFileSrc
          Op <- AReadsBWrites
          Mode <- AllOctet
          Target <- FandO
          Input <- RestIn
          Text <- MCText
          BlockSize = 2
          MaxDups = 1
          MaxGarbled = 1
          Lossy = TRUE
          Timely = TRUE
INVARIANTS ReadInv ReadPrefix StopAndWait
PROPERTIES ReadsTransfer Served
\* The clients end, and the server, whose poll has no timeout, sleeps for good.
CHECK_DEADLOCK FALSE
