\* Two writers, whose transfers draw their ports from two numbers.
SPECIFICATION PortsSpec
CONSTANTS Clients = {"a", "b"}
          Files <- MCFiles
          Exists <- MCExists
          Writable <- MCWritable
          FileSrc <- MCFileSrc
          Op <- AllWrite
          Mode <- BNetAscii
          Target <- ToO
          Input <- ShortEmptyIn
          Text <- MCText
          BlockSize = 2
          MaxDups = 0
          MaxGarbled = 0
          Lossy = FALSE
          Timely = FALSE
          PortNumbers <- MCPortNumbers
          InUse <- MCInUse
INVARIANT FreeToUse
\* The clients end, and the server, whose poll has no timeout, sleeps for good.
CHECK_DEADLOCK FALSE
