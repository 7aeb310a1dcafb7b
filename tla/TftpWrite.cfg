\* An octet and a netascii writer of the same file; a duplicate, datagrams that come late.
SPECIFICATION Spec
CONSTANTS Clients = {"a", "b"}
          Files <- MCFiles
          Exists <- MCExists
          Writable <- MCWritable
          FileSrc <- MCFileSrc
          Op <- AllWrite
          Mode <- BNetAscii
          Target <- ToO
          Input <- ShortLonger
          Text <- MCText
          BlockSize = 3
          MaxDups = 1
          MaxGarbled = 0
          Lossy = FALSE
          Timely = FALSE
INVARIANTS TypeOK WritePrefix AckedMeansReceived StoredAsGiven StoredInPlace RoundEndsTheLate
PROPERTIES EndedIsFinal WritesTransfer
\* The clients end, and the server, whose poll has no timeout, sleeps for good.
CHECK_DEADLOCK FALSE
